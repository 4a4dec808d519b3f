----------------------------- MODULE FileProofs -----------------------------
(***************************************************************************)
(* Proofs about CreateOnlyFile: a success is durable and unique, a refusal  *)
(* has a reason, for any number of processes, failures and losses of power. *)
(* About BootstrapCeremony, whose journal is such a file: no mutation is    *)
(* sent twice, no role has two sessions, and a terminal receipt is true, for *)
(* any plan, any window and any number of deaths of the runner.             *)
(* And about RecoveryContinuity, a journal of such files that any number of  *)
(* processes write: one call, by the owner of the claim, and receipts that   *)
(* are backed.                                                              *)
(***************************************************************************)
EXTENDS CreateOnlyFile, BootstrapCeremony, RecoveryContinuity, FiniteSetTheorems, TLAPS

\* What is published, or was at the last sync of the directory, is whole and
\* on disk.
PublishedIsSynced ==
  \A i \in Process : final = i \/ diskFinal = i =>
    synced[i] /\ content[i] = Want[i] /\ proc[i].published

\* Who returned successfully has seen its bytes in a synced directory.
ReturnedIsOnDisk ==
  \A p \in Process : outcome[p] \in {"created", "read"} =>
    /\ final # None /\ diskFinal = final /\ content[final] = Want[p]
    /\ outcome[p] = "created" => final = p

Gone == {"returned", "dead"}

\* What a process at work on its own file knows.
Publishing(p) ==
  /\ proc[p].at = "idle" => ~proc[p].late /\ proc[p].attempt = 1
  /\ proc[p].at \in {"idle", "create", "write", "fsync", "readback", "link"} => ~proc[p].published
  /\ proc[p].published /\ proc[p].at \notin Gone => final = p
  /\ proc[p].at \in {"linked", "unlink"} => proc[p].published
  /\ proc[p].at = "cleanup" => proc[p].published \/ final # None \/ p \in faulty
  /\ proc[p].at \in {"write", "fsync", "readback", "link"} => temp[p]
  /\ proc[p].at \in {"fsync", "readback", "link"} => content[p] = Want[p]
  /\ proc[p].at \in {"readback", "link"} => synced[p]

\* What a reader knows: the file it looks at is the published one, and only
\* the first look can meet it between link and unlink.
Reading(p) ==
  /\ (proc[p].late \/ proc[p].attempt > 1) /\ proc[p].at \notin Gone => final # None
  /\ proc[p].at \in {"candidate", "remove", "read", "scan", "settle", "syncdir"} =>
       proc[p].inode # None /\ proc[p].inode = final
  /\ proc[p].at = "open" =>
       IF proc[p].inode = None THEN ~proc[p].late /\ proc[p].attempt = 1
       ELSE proc[p].inode = final /\ ~temp[final]
  /\ proc[p].at = "read" =>
       /\ proc[p].before \in {1, 2}
       /\ proc[p].before = 2 => ~proc[p].late /\ proc[p].attempt = 1
  /\ proc[p].at \in {"scan", "settle"} => ~proc[p].late /\ proc[p].attempt = 1
  /\ proc[p].at = "settle" => ~temp[final]
  /\ proc[p].at = "syncdir" => content[final] = Want[p]

FileInv ==
  /\ FileTypeOK
  /\ PublishedIsSynced
  /\ ReturnedIsOnDisk
  /\ \A p \in Process : Publishing(p) /\ Reading(p)

\* Nothing is published yet.
LEMMA FileStarts == FileInit => FileInv
  <1> SUFFICES ASSUME FileInit PROVE FileInv
    OBVIOUS
  <1>1. temp \in [Process -> BOOLEAN] /\ diskTemp \in [Process -> BOOLEAN]
        /\ synced \in [Process -> BOOLEAN]
    BY DEF FileInit
  <1>2. proc \in [Process -> ProcShape]
    BY FileAssumption DEF FileInit, ProcShape, Steps, Maybe
  <1>3. FileTypeOK
    <2>1. final \in Maybe(Process) /\ diskFinal \in Maybe(Process) /\ content \in [Process -> Bytes]
      BY DEF FileInit, Maybe, Bytes
    <2>2. /\ outcome \in [Process -> {"none", "created", "read", "error"}]
          /\ faulty \subseteq Process /\ faults \in 0..MaxFaults
      BY FileAssumption DEF FileInit
    <2> QED BY <1>1, <1>2, <2>1, <2>2 DEF FileTypeOK
  <1>4. \A p \in Process : Publishing(p) /\ Reading(p)
    <2>1. \A p \in Process : proc[p].at = "idle" /\ proc[p].attempt = 1
                             /\ ~proc[p].late /\ ~proc[p].published
      BY DEF FileInit
    <2>2. \A p \in Process : Publishing(p)
      BY <2>1 DEF Publishing
    <2>3. \A p \in Process : ~(proc[p].late \/ proc[p].attempt > 1)
      <3>1. \A p \in Process : ~(proc[p].attempt > 1)
        <4> SUFFICES ASSUME NEW p \in Process PROVE ~(proc[p].attempt > 1)
          OBVIOUS
        <4>1. proc[p].attempt = 1
          BY <2>1
        <4> QED BY <4>1
      <3> QED BY <2>1, <3>1, Zenon
    <2>4. \A p \in Process : Reading(p)
      BY <2>1, <2>3 DEF Reading
    <2> QED BY <2>2, <2>4
  <1> QED BY <1>3, <1>4, FileAssumption DEF FileInit, FileInv, PublishedIsSynced, ReturnedIsOnDisk

\* The links of the published inode.
LEMMA LinksOfFinal ==
  ASSUME FileInv, NEW i \in Process, final = i
  PROVE  Links(i) = IF temp[i] THEN 2 ELSE 1
  BY DEF FileInv, FileTypeOK, Links

\* A name that comes or goes.
LEMMA TempType ==
  ASSUME FileTypeOK, NEW i \in Process, NEW b \in BOOLEAN, temp' = [temp EXCEPT ![i] = b]
  PROVE  temp' \in [Process -> BOOLEAN]
  BY DEF FileTypeOK

\* A process that moves on and remembers what it saw keeps its shape.
LEMMA ProcType ==
  ASSUME FileTypeOK, NEW p \in Process, NEW a \in Steps, NEW i \in Maybe(Process),
         NEW n \in 1..Attempts, NEW m \in 0..2
  PROVE  /\ [proc EXCEPT ![p].at = a] \in [Process -> ProcShape]
         /\ [proc EXCEPT ![p].inode = i, ![p].at = a] \in [Process -> ProcShape]
         /\ [proc EXCEPT ![p].inode = i, ![p].before = m, ![p].at = a] \in [Process -> ProcShape]
         /\ [proc EXCEPT ![p].published = TRUE, ![p].at = a] \in [Process -> ProcShape]
         /\ [proc EXCEPT ![p].late = TRUE, ![p].at = a] \in [Process -> ProcShape]
         /\ [proc EXCEPT ![p].attempt = n, ![p].at = a] \in [Process -> ProcShape]
  <1>0. proc \in [Process -> ProcShape]
    BY DEF FileTypeOK
  <1>1. [proc EXCEPT ![p].at = a] \in [Process -> ProcShape]
    BY <1>0 DEF ProcShape
  <1>2. [proc EXCEPT ![p].inode = i, ![p].at = a] \in [Process -> ProcShape]
    BY <1>0 DEF ProcShape
  <1>3. [proc EXCEPT ![p].inode = i, ![p].before = m, ![p].at = a] \in [Process -> ProcShape]
    BY <1>0 DEF ProcShape
  <1>4. [proc EXCEPT ![p].published = TRUE, ![p].at = a] \in [Process -> ProcShape]
    BY <1>0 DEF ProcShape
  <1>5. [proc EXCEPT ![p].late = TRUE, ![p].at = a] \in [Process -> ProcShape]
    BY <1>0 DEF ProcShape
  <1>6. [proc EXCEPT ![p].attempt = n, ![p].at = a] \in [Process -> ProcShape]
    BY <1>0 DEF ProcShape
  <1> QED BY <1>1, <1>2, <1>3, <1>4, <1>5, <1>6

\* The same, of a process that goes to a step or returns.
LEMMA GotoType ==
  ASSUME FileTypeOK, NEW p \in Process
  PROVE  /\ \A a \in Steps : Goto(p, a) => proc' \in [Process -> ProcShape]
         /\ \A r \in {"created", "read", "error"} : Return(p, r) =>
              /\ proc' \in [Process -> ProcShape]
              /\ outcome' \in [Process -> {"none", "created", "read", "error"}]
         /\ Pending(p) =>
              /\ proc' \in [Process -> ProcShape]
              /\ outcome' \in [Process -> {"none", "created", "read", "error"}]
  <1>0. /\ {"returned", "lstat"} \subseteq Steps /\ None \in Maybe(Process)
        /\ 1 \in 1..Attempts /\ 0 \in 0..2
        /\ outcome \in [Process -> {"none", "created", "read", "error"}]
    BY FileAssumption DEF Steps, ReadSteps, Maybe, FileTypeOK
  <1>1. ASSUME NEW a \in Steps, Goto(p, a) PROVE proc' \in [Process -> ProcShape]
    BY <1>0, <1>1, ProcType DEF Goto
  <1>2. ASSUME NEW r \in {"created", "read", "error"}, Return(p, r)
        PROVE  /\ proc' \in [Process -> ProcShape]
               /\ outcome' \in [Process -> {"none", "created", "read", "error"}]
    <2>1. proc' \in [Process -> ProcShape]
      BY <1>0, <1>2, ProcType DEF Return
    <2> QED BY <1>0, <1>2, <2>1 DEF Return
  <1>3. ASSUME Pending(p), ~Return(p, "error")
        PROVE  /\ proc' \in [Process -> ProcShape]
               /\ outcome' \in [Process -> {"none", "created", "read", "error"}]
    <2>1. /\ proc' = [proc EXCEPT ![p].attempt = @ + 1, ![p].at = "lstat"]
          /\ proc[p].attempt < Attempts /\ UNCHANGED outcome
      BY <1>3 DEF Pending
    <2>2. PICK n \in 1..Attempts : n = proc[p].attempt + 1
      BY <2>1, FileAssumption DEF FileTypeOK, ProcShape
    <2>3. proc' = [proc EXCEPT ![p].attempt = n, ![p].at = "lstat"]
      BY <2>1, <2>2
    <2>4. [proc EXCEPT ![p].attempt = n, ![p].at = "lstat"] \in [Process -> ProcShape]
      BY <1>0, ProcType
    <2> QED BY <1>0, <2>1, <2>3, <2>4
  <1> QED BY <1>1, <1>2, <1>3

\* Every call, failure and loss of power keeps the shape of the state.
LEMMA FileStepKeepsType ==
  ASSUME FileInv, [FileNext]_fileVars
  PROVE  FileTypeOK'
  <1>0. /\ FileTypeOK
        /\ None \in Maybe(Process) /\ 1 \in 1..Attempts /\ 0 \in 0..2
        /\ final \in Maybe(Process) /\ \A p \in Process : p \in Maybe(Process)
    BY FileAssumption DEF FileInv, FileTypeOK, Maybe
  <1>a. \A a \in CreateSteps \cup ReadSteps \cup {"cleanup", "dead"} : a \in Steps
    BY DEF Steps
  <1>b. ASSUME UNCHANGED <<names, disk, bytes, faulty, faults>>,
               proc' \in [Process -> ProcShape],
               outcome' \in [Process -> {"none", "created", "read", "error"}]
        PROVE  FileTypeOK'
    BY <1>0, <1>b DEF FileTypeOK, names, disk, bytes
  <1>1. ASSUME NEW p \in Process, Start(p) PROVE FileTypeOK'
    BY <1>0, <1>1, <1>a, <1>b, GotoType DEF Start, noFault, FileTypeOK, ReadSteps
  <1>2. ASSUME NEW p \in Process, LookUpFinal(p) PROVE FileTypeOK'
    <2>1. PICK a \in Steps : proc' = [proc EXCEPT ![p].inode = final, ![p].at = a]
      BY <1>2, <1>a DEF LookUpFinal, ReadSteps
    <2>2. proc' \in [Process -> ProcShape]
      BY <1>0, <2>1, ProcType
    <2> QED BY <1>0, <1>b, <1>2, <2>2 DEF LookUpFinal, noFault, FileTypeOK
  <1>3. ASSUME NEW p \in Process, LookUpTemporary(p) PROVE FileTypeOK'
    <2>1. PICK a \in Steps : Goto(p, a)
      BY <1>3, <1>a DEF LookUpTemporary, ReadSteps
    <2> QED BY <1>0, <1>b, <1>3, <2>1, GotoType DEF LookUpTemporary, noFault, FileTypeOK
  <1>4. ASSUME NEW p \in Process, RemoveTemporary(p) PROVE FileTypeOK'
    <2>1. proc[p].inode \in Process
      BY <1>0, <1>4 DEF RemoveTemporary, At, Reading, Maybe, FileInv
    <2>2. temp' \in [Process -> BOOLEAN]
      BY <1>0, <1>4, <2>1, TempType DEF RemoveTemporary
    <2>3. proc' \in [Process -> ProcShape]
      BY <1>0, <1>a, <1>4, GotoType DEF RemoveTemporary, ReadSteps
    <2> QED BY <1>0, <1>4, <2>2, <2>3 DEF RemoveTemporary, disk, bytes, noFault, FileTypeOK
  <1>5. ASSUME NEW p \in Process, Open(p) PROVE FileTypeOK'
    <2>1. proc' \in [Process -> ProcShape] /\ outcome' \in [Process -> {"none", "created", "read", "error"}]
      <3>1. CASE final # None
        <4>1. Links(final) \in 0..2
          BY DEF Links
        <4>2. PICK m \in 0..2, a \in Steps :
                proc' = [proc EXCEPT ![p].inode = final, ![p].before = m, ![p].at = a]
          BY <1>5, <1>a, <3>1, <4>1 DEF Open, ReadSteps
        <4> QED BY <1>0, <1>5, <3>1, <4>2, ProcType DEF Open, FileTypeOK
      <3>2. CASE final = None
        BY <1>0, <1>a, <1>5, <3>2, GotoType DEF Open, CreateSteps, FileTypeOK
      <3> QED BY <3>1, <3>2
    <2> QED BY <1>b, <1>5, <2>1 DEF Open, noFault
  <1>7. ASSUME NEW p \in Process, Read(p) PROVE FileTypeOK'
    <2>1. CASE Pending(p) \/ Return(p, "error")
      BY <1>0, <1>b, <1>7, <2>1, GotoType DEF Read, noFault
    <2>3. CASE \E a \in {"scan", "syncdir"} : Goto(p, a) /\ UNCHANGED outcome
      BY <1>0, <1>a, <1>b, <1>7, <2>3, GotoType DEF Read, noFault, FileTypeOK, ReadSteps
    <2>4. proc[p].before \in {1, 2} /\ Links(proc[p].inode) \in {1, 2}
      BY <1>0, <1>7, LinksOfFinal DEF Read, At, Reading, Maybe, FileInv
    <2> QED BY <1>7, <2>1, <2>3, <2>4 DEF Read
  <1>8. ASSUME NEW p \in Process, Scan(p) \/ Settle(p) PROVE FileTypeOK'
    <2>1. CASE Pending(p) \/ Return(p, "error")
      BY <1>0, <1>b, <1>8, <2>1, GotoType DEF Scan, Settle, noFault
    <2>3. CASE Goto(p, "settle") /\ UNCHANGED outcome
      BY <1>0, <1>a, <1>b, <1>8, <2>3, GotoType DEF Scan, Settle, noFault, FileTypeOK, ReadSteps
    <2> QED BY <1>8, <2>1, <2>3 DEF Scan, Settle
  <1>9. ASSUME NEW p \in Process, SyncDirectory(p) PROVE FileTypeOK'
    <2>1. proc' \in [Process -> ProcShape] /\ outcome' \in [Process -> {"none", "created", "read", "error"}]
      BY <1>0, <1>9, GotoType DEF SyncDirectory
    <2> QED BY <1>0, <1>9, <2>1 DEF SyncDirectory, names, bytes, noFault, FileTypeOK
  <1>10. ASSUME NEW p \in Process, Create(p) \/ Unlink(p) PROVE FileTypeOK'
    <2>1. temp' \in [Process -> BOOLEAN]
      BY <1>0, <1>10, TempType DEF Create, Unlink
    <2>2. proc' \in [Process -> ProcShape]
      BY <1>0, <1>a, <1>10, GotoType DEF Create, Unlink, CreateSteps
    <2> QED BY <1>0, <1>10, <2>1, <2>2 DEF Create, Unlink, disk, bytes, noFault, FileTypeOK
  <1>11. ASSUME NEW p \in Process, Write(p) PROVE FileTypeOK'
    <2>1. proc' \in [Process -> ProcShape]
      BY <1>0, <1>a, <1>11, GotoType DEF Write, CreateSteps
    <2> QED BY <1>0, <1>11, <2>1 DEF Write, names, disk, noFault, FileTypeOK, Bytes
  <1>12. ASSUME NEW p \in Process, Fsync(p) PROVE FileTypeOK'
    <2>1. proc' \in [Process -> ProcShape]
      BY <1>0, <1>a, <1>12, GotoType DEF Fsync, CreateSteps
    <2>2. synced' \in [Process -> BOOLEAN]
      <3>1. synced \in [Process -> BOOLEAN] /\ synced' = [synced EXCEPT ![p] = TRUE]
        BY <1>0, <1>12 DEF Fsync, FileTypeOK
      <3> QED BY <3>1
    <2> QED BY <1>0, <1>12, <2>1, <2>2 DEF Fsync, names, disk, noFault, FileTypeOK
  <1>13. ASSUME NEW p \in Process, ReadBack(p) \/ CheckLinks(p) PROVE FileTypeOK'
    <2>1. PICK a \in Steps : Goto(p, a)
      BY <1>13, <1>a DEF ReadBack, CheckLinks, CreateSteps
    <2> QED BY <1>0, <1>b, <1>13, <2>1, GotoType DEF ReadBack, CheckLinks, noFault, FileTypeOK
  <1>14. ASSUME NEW p \in Process, Link(p) PROVE FileTypeOK'
    <2>1. proc' \in [Process -> ProcShape]
      <3>1. [proc EXCEPT ![p].published = TRUE, ![p].at = "linked"] \in [Process -> ProcShape]
        BY <1>0, <1>a, ProcType DEF CreateSteps
      <3> QED BY <1>0, <1>a, <1>14, <3>1, GotoType DEF Link
    <2>2. final' \in Maybe(Process)
      BY <1>0, <1>14 DEF Link
    <2> QED BY <1>0, <1>14, <2>1, <2>2 DEF Link, disk, bytes, noFault, FileTypeOK
  <1>15. ASSUME NEW p \in Process, Cleanup(p) PROVE FileTypeOK'
    <2>1. temp' \in [Process -> BOOLEAN]
      BY <1>0, <1>15, TempType DEF Cleanup
    <2>2. proc' \in [Process -> ProcShape] /\ outcome' \in [Process -> {"none", "created", "read", "error"}]
      <3>1. CASE Return(p, "error")
        BY <1>0, <3>1, GotoType
      <3>2. CASE proc' = [proc EXCEPT ![p].late = TRUE, ![p].at = "lstat"] /\ UNCHANGED outcome
        BY <1>0, <1>a, <3>2, ProcType DEF ReadSteps, FileTypeOK
      <3> QED BY <1>15, <3>1, <3>2 DEF Cleanup
    <2> QED BY <1>0, <1>15, <2>1, <2>2 DEF Cleanup, disk, bytes, noFault, FileTypeOK
  <1>16. ASSUME NEW p \in Process, CallFails(p) \/ Dies(p) PROVE FileTypeOK'
    <2>1. proc' \in [Process -> ProcShape]
      BY <1>0, <1>a, <1>16, GotoType DEF CallFails, Dies
    <2>2. faults' \in 0..MaxFaults
      BY <1>0, <1>16, FileAssumption DEF CallFails, Dies, Fault, FileTypeOK
    <2>3. content' \in [Process -> Bytes]
      BY <1>0, <1>16 DEF CallFails, Dies, bytes, Bytes, FileTypeOK
    <2> QED BY <1>0, <1>16, <2>1, <2>2, <2>3 DEF CallFails, Dies, names, disk, bytes, FileTypeOK
  <1>17. ASSUME PowerLoss PROVE FileTypeOK'
    <2>1. temp' \in [Process -> BOOLEAN] /\ diskTemp' \in [Process -> BOOLEAN]
      BY <1>17 DEF PowerLoss
    <2>2. proc' \in [Process -> ProcShape]
      <3>1. ASSUME NEW p \in Process, NEW a \in Steps PROVE [proc[p] EXCEPT !.at = a] \in ProcShape
        BY <1>0 DEF FileTypeOK, ProcShape
      <3>2. \A p \in Process : (IF proc[p].at \in {"idle", "returned"} THEN proc[p].at ELSE "dead") \in Steps
        BY DEF Steps
      <3>3. proc' = [p \in Process |-> [proc[p] EXCEPT !.at =
                       IF proc[p].at \in {"idle", "returned"} THEN proc[p].at ELSE "dead"]]
        BY <1>17 DEF PowerLoss
      <3> QED BY <3>1, <3>2, <3>3
    <2>3. /\ final' \in Maybe(Process) /\ diskFinal' \in Maybe(Process)
          /\ content' \in [Process -> Bytes] /\ faults' \in 0..MaxFaults
      BY <1>0, <1>17, FileAssumption DEF PowerLoss, Fault, FileTypeOK
    <2> QED BY <1>0, <1>17, <2>1, <2>2, <2>3 DEF PowerLoss, FileTypeOK
  <1>18. ASSUME UNCHANGED fileVars PROVE FileTypeOK'
    BY <1>0, <1>18 DEF fileVars, FileTypeOK
  <1> QED BY <1>1, <1>2, <1>3, <1>4, <1>5, <1>7, <1>8, <1>9, <1>10, <1>11, <1>12, <1>13, <1>14,
            <1>15, <1>16, <1>17, <1>18
        DEF FileNext, Reads, Publishes

-----------------------------------------------------------------------------
(* The steps of the processes. *)

\* What happens to the process that moves, and that the others do not move.
Moves(p, step) ==
  /\ proc'[p].at = step
  /\ proc'[p].attempt = proc[p].attempt /\ proc'[p].inode = proc[p].inode
  /\ proc'[p].before = proc[p].before
  /\ proc'[p].late = proc[p].late /\ proc'[p].published = proc[p].published
  /\ \A q \in Process : q # p => proc'[q] = proc[q]

\* Goto and Return only move the process.
LEMMA GotoMoves ==
  ASSUME FileTypeOK, NEW p \in Process
  PROVE  /\ \A a \in Steps : Goto(p, a) => Moves(p, a)
         /\ \A r : Return(p, r) =>
              /\ Moves(p, "returned") /\ outcome'[p] = r
              /\ \A q \in Process : q # p => outcome'[q] = outcome[q]
  <1>1. proc \in [Process -> ProcShape] /\ outcome \in [Process -> {"none", "created", "read", "error"}]
    BY DEF FileTypeOK
  <1>2. ASSUME NEW a \in Steps, proc' = [proc EXCEPT ![p].at = a] PROVE Moves(p, a)
    BY <1>1, <1>2 DEF Moves, ProcShape
  <1>3. "returned" \in Steps
    BY DEF Steps
  <1> QED BY <1>1, <1>2, <1>3 DEF Goto, Return

\* What a process knows outlives the steps of the others: the final name is
\* given once, and only the publisher's temporary link can be missing later.
LEMMA OthersKnow ==
  ASSUME FileInv, NEW q \in Process, proc'[q] = proc[q],
         content'[q] = content[q], synced'[q] = synced[q],
         proc[q].at \in {"write", "fsync", "readback", "link"} => temp'[q] = temp[q],
         final' = final \/ final = None,
         final # None => (temp'[final] => temp[final]) /\ content'[final] = content[final],
         faulty \subseteq faulty'
  PROVE  Publishing(q)' /\ Reading(q)'
  <1>1. Publishing(q) /\ Reading(q)
    BY DEF FileInv
  <1>2. q # None
    BY FileAssumption
  <1>3. Publishing(q)'
    BY <1>1, <1>2 DEF Publishing
  <1>4. Reading(q)'
    BY <1>1 DEF Reading
  <1> QED BY <1>3, <1>4

\* The published file stays whole while nobody writes to it.
LEMMA FilesStayWhole ==
  ASSUME FileInv, final' = final, diskFinal' \in {diskFinal, final},
         \A i \in Process : final = i \/ diskFinal = i =>
           /\ content'[i] = content[i] /\ synced'[i] = synced[i]
           /\ proc[i].published => proc'[i].published
  PROVE  PublishedIsSynced'
  BY DEF FileInv, PublishedIsSynced

\* A success stays one.
LEMMA SuccessesStay ==
  ASSUME FileInv, final' = final, diskFinal' \in {diskFinal, final},
         final # None => content'[final] = content[final],
         \A q \in Process : outcome'[q] = outcome[q] \/ outcome'[q] = "error"
  PROVE  ReturnedIsOnDisk'
  BY DEF FileInv, ReturnedIsOnDisk

\* A step that changes no name, no bytes and nothing but the process.
LEMMA QuietStep ==
  ASSUME FileInv, NEW p \in Process, UNCHANGED <<names, disk, bytes>>,
         faulty \subseteq faulty',
         \A q \in Process : q # p => proc'[q] = proc[q],
         proc'[p].published = proc[p].published,
         \A q \in Process : outcome'[q] = outcome[q] \/ outcome'[q] = "error",
         FileTypeOK', Publishing(p)', Reading(p)'
  PROVE  FileInv'
  <1>1. UNCHANGED <<final, temp, diskFinal, content, synced>>
    BY DEF names, disk, bytes
  <1>2. \A i \in Process : proc[i].published => proc'[i].published
    OBVIOUS
  <1>3. PublishedIsSynced'
    BY <1>1, <1>2, FilesStayWhole
  <1>4. ReturnedIsOnDisk'
    BY <1>1, SuccessesStay
  <1>5. \A q \in Process : Publishing(q)' /\ Reading(q)'
    BY <1>1, OthersKnow
  <1> QED BY <1>3, <1>4, <1>5 DEF FileInv

\* Pending is only met on the first attempt, and so tries again.
LEMMA PendingRetries ==
  ASSUME FileInv, NEW p \in Process, Pending(p), ~proc[p].late, proc[p].attempt = 1
  PROVE  /\ proc'[p].at = "lstat" /\ proc'[p].attempt = 2 /\ proc'[p].inode = proc[p].inode
         /\ proc'[p].late = proc[p].late /\ proc'[p].published = proc[p].published
         /\ \A q \in Process : q # p => proc'[q] = proc[q]
         /\ UNCHANGED outcome
  <1>1. proc' = [proc EXCEPT ![p].attempt = @ + 1, ![p].at = "lstat"] /\ UNCHANGED outcome
    BY FileAssumption DEF Pending
  <1>2. proc \in [Process -> ProcShape]
    BY DEF FileInv, FileTypeOK
  <1> QED BY <1>1, <1>2 DEF ProcShape

\* A process that returns an error has a reason.
Justified ==
  \A p \in Process : outcome[p] = "none" /\ outcome'[p] = "error" =>
    \/ p \in faulty
    \/ final # None /\ content[final] # Want[p]

\* The steps of a reader.
LEMMA ReadsKeep ==
  ASSUME FileInv, FileTypeOK', NEW p \in Process, Reads(p)
  PROVE  FileInv' /\ Justified
  <1>0. /\ FileTypeOK /\ Publishing(p) /\ Reading(p) /\ p # None
        /\ proc \in [Process -> ProcShape]
    BY FileAssumption DEF FileInv, FileTypeOK
  <1>a. \A a \in CreateSteps \cup ReadSteps \cup {"cleanup", "dead", "returned"} : a \in Steps
    BY DEF Steps
  <1>b. ASSUME UNCHANGED outcome PROVE Justified
    BY <1>b DEF Justified
  <1>c. ASSUME UNCHANGED <<names, disk, bytes, outcome>>, noFault, NEW a \in Steps, Moves(p, a),
               Publishing(p)', Reading(p)'
        PROVE  FileInv' /\ Justified
    BY <1>b, <1>c, QuietStep DEF Moves, noFault
  <1>1. CASE Start(p)
    <2>1. Moves(p, "lstat") /\ UNCHANGED <<names, disk, bytes, outcome>> /\ noFault
      BY <1>0, <1>a, <1>1, GotoMoves DEF Start, ReadSteps
    <2>2. Publishing(p)' /\ Reading(p)'
      BY <1>0, <1>1, <2>1 DEF Start, At, Moves, Publishing, Reading, Gone, names, bytes
    <2> QED BY <1>a, <1>c, <2>1, <2>2 DEF ReadSteps
  <1>2. CASE LookUpFinal(p)
    <2>1. /\ proc'[p].at = IF final = None THEN "open" ELSE "candidate"
          /\ proc'[p].attempt = proc[p].attempt /\ proc'[p].inode = final
          /\ proc'[p].late = proc[p].late /\ proc'[p].published = proc[p].published
          /\ \A q \in Process : q # p => proc'[q] = proc[q]
          /\ UNCHANGED <<final, temp, content, synced, outcome, faulty>>
      BY <1>0, <1>2 DEF LookUpFinal, ProcShape, names, bytes, noFault
    <2>2. Publishing(p)'
      BY <1>0, <1>2, <2>1 DEF LookUpFinal, At, Publishing, Gone
    <2>3. Reading(p)'
      <3>1. proc[p].attempt \in 1..Attempts /\ proc[p].at = "lstat"
        BY <1>0, <1>2 DEF ProcShape, LookUpFinal, At
      <3>2. CASE final = None
        <4>1. ~proc[p].late /\ proc[p].attempt = 1
          BY <1>0, <3>1, <3>2, FileAssumption DEF Reading, Gone
        <4> QED BY <2>1, <3>2, <4>1 DEF Reading
      <3>3. CASE final # None
        BY <2>1, <3>3 DEF Reading
      <3> QED BY <3>2, <3>3
    <2> QED BY <1>b, <1>2, <2>1, <2>2, <2>3, QuietStep DEF LookUpFinal, noFault
  <1>3. CASE LookUpTemporary(p)
    <2>1. final \in Process /\ proc[p].inode = final /\ proc[p].at = "candidate"
      BY <1>0, <1>3 DEF LookUpTemporary, At, Reading, FileTypeOK, Maybe
    <2>2. /\ Moves(p, IF temp[final] THEN "remove" ELSE "open")
          /\ UNCHANGED <<names, disk, bytes, outcome>> /\ noFault
      BY <1>0, <1>a, <1>3, <2>1, GotoMoves, LinksOfFinal DEF LookUpTemporary, ReadSteps
    <2>3. UNCHANGED <<final, temp, content, synced, faulty>>
      BY <2>2 DEF names, bytes, noFault
    <2>4. Publishing(p)'
      BY <1>0, <2>1, <2>2, <2>3 DEF Moves, Publishing, Gone
    <2>5. Reading(p)'
      <3>1. CASE temp[final]
        BY <1>0, <2>1, <2>2, <2>3, <3>1 DEF Moves, Reading, Gone
      <3>2. CASE ~temp[final]
        BY <1>0, <2>1, <2>2, <2>3, <3>2 DEF Moves, Reading, Gone
      <3> QED BY <3>1, <3>2
    <2> QED BY <1>a, <1>c, <2>2, <2>4, <2>5 DEF ReadSteps
  <1>4. CASE RemoveTemporary(p)
    <2>1. final \in Process /\ proc[p].inode = final /\ proc[p].at = "remove"
      BY <1>0, <1>4 DEF RemoveTemporary, At, Reading, FileTypeOK, Maybe
    <2>2. /\ Moves(p, "open") /\ UNCHANGED <<final, diskFinal, content, synced, outcome, faulty>>
          /\ \A q \in Process : q # final => temp'[q] = temp[q]
          /\ ~temp'[final]
      BY <1>0, <1>a, <1>4, <2>1, GotoMoves DEF RemoveTemporary, ReadSteps, disk, bytes, noFault, FileTypeOK
    <2>3. Publishing(p)'
      BY <1>0, <2>1, <2>2 DEF Moves, Publishing, Gone
    <2>4. Reading(p)'
      BY <1>0, <2>1, <2>2 DEF Moves, Reading, Gone
    <2>5. \A q \in Process : q # p => Publishing(q)' /\ Reading(q)'
      <3>1. \A q \in Process : proc[q].at \in {"write", "fsync", "readback", "link"} => q # final
        BY DEF FileInv, PublishedIsSynced, Publishing
      <3> QED BY <2>2, <3>1, OthersKnow DEF Moves
    <2>6. PublishedIsSynced'
      BY <2>2, FilesStayWhole DEF Moves
    <2>7. ReturnedIsOnDisk'
      BY <2>2, SuccessesStay
    <2> QED BY <1>b, <2>2, <2>3, <2>4, <2>5, <2>6, <2>7 DEF FileInv
  <1>5. CASE Open(p)
    <2>0. proc[p].at = "open" /\ UNCHANGED <<final, temp, content, synced, faulty>>
      BY <1>5 DEF Open, At, names, bytes, noFault
    <2>1. CASE final = None
      <3>1. ~proc[p].late
        BY <1>0, <2>0, <2>1 DEF Reading, Gone
      <3>2. Moves(p, "create") /\ UNCHANGED outcome
        BY <1>0, <1>a, <1>5, <2>1, <3>1, GotoMoves DEF Open, CreateSteps
      <3>3. Publishing(p)' /\ Reading(p)'
        BY <1>0, <2>0, <2>1, <3>2 DEF Moves, Publishing, Reading, Gone
      <3> QED BY <1>5, <1>a, <1>c, <3>2, <3>3 DEF Open, CreateSteps
    <2>2. CASE final # None
      <3>1. /\ proc'[p].at = "read" /\ proc'[p].inode = final /\ proc'[p].before = Links(final)
            /\ proc'[p].attempt = proc[p].attempt
            /\ proc'[p].late = proc[p].late /\ proc'[p].published = proc[p].published
            /\ \A q \in Process : q # p => proc'[q] = proc[q]
            /\ UNCHANGED outcome
        BY <1>0, <1>5, <2>2 DEF Open, ProcShape
      <3>2. Links(final) = IF temp[final] THEN 2 ELSE 1
        BY <1>0, <2>2, LinksOfFinal DEF FileTypeOK, Maybe
      <3>3. Publishing(p)'
        BY <1>0, <2>0, <3>1 DEF Publishing, Gone
      <3>4. Reading(p)'
        <4>1. CASE proc[p].inode = None
          BY <1>0, <2>0, <2>2, <3>1, <3>2, <4>1 DEF Reading
        <4>2. CASE proc[p].inode # None
          BY <1>0, <2>0, <2>2, <3>1, <3>2, <4>2 DEF Reading
        <4> QED BY <4>1, <4>2
      <3> QED BY <1>b, <1>5, <3>1, <3>3, <3>4, QuietStep DEF Open, noFault
    <2> QED BY <2>1, <2>2
  <1>p. ASSUME Pending(p), ~proc[p].late, proc[p].attempt = 1, proc[p].at \in {"read", "scan", "settle"},
               UNCHANGED <<names, disk, bytes>>, noFault
        PROVE  FileInv' /\ Justified
    <2>1. /\ proc'[p].at = "lstat" /\ proc'[p].late = proc[p].late
          /\ proc'[p].published = proc[p].published
          /\ \A q \in Process : q # p => proc'[q] = proc[q]
          /\ UNCHANGED outcome
      BY <1>p, PendingRetries
    <2>2. final # None /\ UNCHANGED <<final, temp, content, synced, faulty>>
      BY <1>0, <1>p DEF Reading, names, bytes, noFault
    <2>3. Publishing(p)' /\ Reading(p)'
      BY <1>0, <1>p, <2>1, <2>2 DEF Publishing, Reading, Gone
    <2> QED BY <1>b, <1>p, <2>1, <2>2, <2>3, QuietStep
  <1>6. CASE Read(p)
    <2>0. /\ proc[p].at = "read" /\ final \in Process /\ proc[p].inode = final
          /\ proc[p].before \in {1, 2} /\ (proc[p].before = 2 => ~proc[p].late /\ proc[p].attempt = 1)
          /\ UNCHANGED <<final, temp, content, synced, faulty>>
          /\ Links(final) \in {1, 2}
      BY <1>0, <1>6, LinksOfFinal DEF Read, At, Reading, FileTypeOK, Maybe, names, bytes, noFault
    <2>1. CASE content[final] # Want[p]
      <3>1. Return(p, "error")
        BY <1>6, <2>0, <2>1 DEF Read
      <3>2. /\ Moves(p, "returned") /\ outcome'[p] = "error"
            /\ \A q \in Process : q # p => outcome'[q] = outcome[q]
        BY <1>0, <3>1, GotoMoves
      <3>3. Publishing(p)' /\ Reading(p)'
        BY <3>2 DEF Moves, Publishing, Reading, Gone
      <3>4. FileInv'
        BY <1>6, <2>0, <3>2, <3>3, QuietStep DEF Read, Moves
      <3>5. Justified
        BY <1>0, <2>0, <2>1, <3>2, FileAssumption DEF Justified
      <3> QED BY <3>4, <3>5
    <2>2. CASE content[final] = Want[p] /\ proc[p].before = 1
      <3>1. Moves(p, "syncdir") /\ UNCHANGED outcome
        BY <1>0, <1>a, <1>6, <2>0, <2>2, GotoMoves DEF Read, ReadSteps
      <3>2. Publishing(p)' /\ Reading(p)'
        BY <1>0, <2>0, <2>2, <3>1 DEF Moves, Publishing, Reading, Gone
      <3> QED BY <1>a, <1>c, <1>6, <3>1, <3>2 DEF Read, ReadSteps
    <2>3. CASE content[final] = Want[p] /\ proc[p].before = 2 /\ Links(final) = 1
      BY <1>6, <1>p, <2>0, <2>3 DEF Read
    <2>4. CASE content[final] = Want[p] /\ proc[p].before = 2 /\ Links(final) = 2
      <3>1. Moves(p, "scan") /\ UNCHANGED outcome
        BY <1>0, <1>a, <1>6, <2>0, <2>4, GotoMoves DEF Read, ReadSteps
      <3>2. Publishing(p)' /\ Reading(p)'
        BY <1>0, <2>0, <2>4, <3>1 DEF Moves, Publishing, Reading, Gone
      <3> QED BY <1>a, <1>c, <1>6, <3>1, <3>2 DEF Read, ReadSteps
    <2> QED BY <2>0, <2>1, <2>2, <2>3, <2>4
  <1>7. CASE Scan(p)
    <2>0. /\ proc[p].at = "scan" /\ final \in Process /\ proc[p].inode = final
          /\ ~proc[p].late /\ proc[p].attempt = 1
          /\ UNCHANGED <<final, temp, content, synced, faulty>>
      BY <1>0, <1>7 DEF Scan, At, Reading, FileTypeOK, Maybe, names, bytes, noFault
    <2>1. CASE temp[final]
      BY <1>7, <1>p, <2>0, <2>1, LinksOfFinal DEF Scan
    <2>2. CASE ~temp[final]
      <3>1. Moves(p, "settle") /\ UNCHANGED outcome
        BY <1>0, <1>a, <1>7, <2>0, <2>2, GotoMoves DEF Scan, ReadSteps
      <3>2. Publishing(p)' /\ Reading(p)'
        BY <1>0, <2>0, <2>2, <3>1 DEF Moves, Publishing, Reading, Gone
      <3> QED BY <1>a, <1>c, <1>7, <3>1, <3>2 DEF Scan, ReadSteps
    <2> QED BY <2>1, <2>2
  <1>8. CASE Settle(p)
    <2>0. /\ proc[p].at = "settle" /\ final \in Process /\ proc[p].inode = final
          /\ ~proc[p].late /\ proc[p].attempt = 1 /\ ~temp[final]
      BY <1>0, <1>8 DEF Settle, At, Reading, FileTypeOK, Maybe
    <2>1. Links(final) = 1
      BY <2>0, LinksOfFinal
    <2> QED BY <1>8, <1>p, <2>0, <2>1 DEF Settle
  <1>9. CASE SyncDirectory(p)
    <2>0. /\ proc[p].at = "syncdir" /\ final \in Process /\ content[final] = Want[p]
          /\ UNCHANGED <<final, temp, content, synced, faulty>> /\ diskFinal' = final
          /\ proc[p].published => final = p
      BY <1>0, <1>9 DEF SyncDirectory, At, Publishing, Reading, Gone, FileTypeOK, Maybe, names, bytes, noFault
    <2>1. /\ Moves(p, "returned") /\ outcome'[p] = IF proc[p].published THEN "created" ELSE "read"
          /\ \A q \in Process : q # p => outcome'[q] = outcome[q]
      BY <1>0, <1>9, GotoMoves DEF SyncDirectory
    <2>2. Publishing(p)' /\ Reading(p)'
      BY <2>1 DEF Moves, Publishing, Reading, Gone
    <2>3. \A q \in Process : q # p => Publishing(q)' /\ Reading(q)'
      BY <2>0, <2>1, OthersKnow DEF Moves
    <2>4. PublishedIsSynced'
      <3>1. \A i \in Process : proc[i].published => proc'[i].published
        BY <2>1 DEF Moves
      <3> QED BY <2>0, <3>1, FilesStayWhole
    <2>5. ReturnedIsOnDisk'
      <3>1. ASSUME NEW q \in Process, outcome'[q] \in {"created", "read"}
            PROVE  /\ content[final] = Want[q]
                   /\ outcome'[q] = "created" => final = q
        <4>1. CASE q = p
          BY <2>0, <2>1, <4>1
        <4>2. CASE q # p
          BY <2>1, <3>1, <4>2 DEF FileInv, ReturnedIsOnDisk
        <4> QED BY <4>1, <4>2
      <3> QED BY <2>0, <3>1, FileAssumption DEF ReturnedIsOnDisk
    <2>6. Justified
      BY <2>1 DEF Justified
    <2> QED BY <2>2, <2>3, <2>4, <2>5, <2>6 DEF FileInv
  <1> QED BY <1>1, <1>2, <1>3, <1>4, <1>5, <1>6, <1>7, <1>8, <1>9 DEF Reads

\* The steps of a publisher.
LEMMA PublishesKeep ==
  ASSUME FileInv, FileTypeOK', NEW p \in Process, Publishes(p)
  PROVE  FileInv' /\ Justified
  <1>0. /\ FileTypeOK /\ Publishing(p) /\ Reading(p) /\ p # None
        /\ proc \in [Process -> ProcShape]
    BY FileAssumption DEF FileInv, FileTypeOK
  <1>a. \A a \in CreateSteps \cup ReadSteps \cup {"cleanup", "dead", "returned"} : a \in Steps
    BY DEF Steps
  <1>b. ASSUME UNCHANGED outcome PROVE Justified
    BY <1>b DEF Justified
  <1>c. ASSUME UNCHANGED <<names, disk, bytes, outcome>>, noFault, NEW a \in Steps, Moves(p, a),
               Publishing(p)', Reading(p)'
        PROVE  FileInv' /\ Justified
    BY <1>b, <1>c, QuietStep DEF Moves, noFault
  <1>d. ~proc[p].published => final # p /\ diskFinal # p
    BY DEF FileInv, PublishedIsSynced
  <1>e. ASSUME UNCHANGED <<final, diskFinal, outcome, faulty>>, NEW a \in Steps, Moves(p, a),
               \A q \in Process : q # p =>
                 temp'[q] = temp[q] /\ content'[q] = content[q] /\ synced'[q] = synced[q],
               \/ ~proc[p].published
               \/ (temp'[p] => temp[p]) /\ content'[p] = content[p] /\ synced'[p] = synced[p],
               Publishing(p)', Reading(p)'
        PROVE  FileInv' /\ Justified
    <2>0. \A i \in Process : final = i \/ diskFinal = i =>
            (temp'[i] => temp[i]) /\ content'[i] = content[i] /\ synced'[i] = synced[i]
      BY <1>d, <1>e
    <2>1. final # None => (temp'[final] => temp[final]) /\ content'[final] = content[final]
      BY <1>0, <2>0 DEF FileTypeOK, Maybe
    <2>2. \A q \in Process : q # p => Publishing(q)' /\ Reading(q)'
      BY <1>e, <2>1, OthersKnow DEF Moves
    <2>3. PublishedIsSynced'
      <3>1. \A i \in Process : proc[i].published => proc'[i].published
        BY <1>e DEF Moves
      <3> QED BY <1>e, <2>0, <3>1, FilesStayWhole
    <2>4. ReturnedIsOnDisk'
      BY <1>e, <2>1, SuccessesStay
    <2> QED BY <1>b, <1>e, <2>2, <2>3, <2>4 DEF FileInv
  <1>1. CASE Create(p)
    <2>1. /\ Moves(p, "write") /\ temp'[p] /\ UNCHANGED <<final, diskFinal, content, synced, outcome, faulty>>
          /\ \A q \in Process : q # p => temp'[q] = temp[q]
          /\ proc[p].at = "create" /\ ~proc[p].published
      BY <1>0, <1>a, <1>1, GotoMoves DEF Create, At, CreateSteps, Publishing, disk, bytes, noFault, FileTypeOK
    <2>2. Publishing(p)' /\ Reading(p)'
      BY <1>0, <2>1 DEF Moves, Publishing, Reading, Gone
    <2> QED BY <1>a, <1>e, <2>1, <2>2 DEF CreateSteps
  <1>2. CASE Write(p)
    <2>1. /\ Moves(p, "fsync") /\ content'[p] = Want[p]
          /\ UNCHANGED <<final, diskFinal, temp, synced, outcome, faulty>>
          /\ \A q \in Process : q # p => content'[q] = content[q]
          /\ proc[p].at = "write" /\ ~proc[p].published /\ temp[p]
      BY <1>0, <1>a, <1>2, GotoMoves DEF Write, At, CreateSteps, Publishing, names, disk, noFault, FileTypeOK
    <2>2. Publishing(p)' /\ Reading(p)'
      BY <1>0, <2>1 DEF Moves, Publishing, Reading, Gone
    <2> QED BY <1>a, <1>e, <2>1, <2>2 DEF CreateSteps
  <1>3. CASE Fsync(p)
    <2>1. /\ Moves(p, "readback") /\ synced'[p]
          /\ UNCHANGED <<final, diskFinal, temp, content, outcome, faulty>>
          /\ \A q \in Process : q # p => synced'[q] = synced[q]
          /\ proc[p].at = "fsync" /\ ~proc[p].published /\ temp[p] /\ content[p] = Want[p]
      BY <1>0, <1>a, <1>3, GotoMoves DEF Fsync, At, CreateSteps, Publishing, names, disk, noFault, FileTypeOK
    <2>2. Publishing(p)' /\ Reading(p)'
      BY <1>0, <2>1 DEF Moves, Publishing, Reading, Gone
    <2> QED BY <1>a, <1>e, <2>1, <2>2 DEF CreateSteps
  <1>4. CASE ReadBack(p)
    <2>0. /\ proc[p].at = "readback" /\ ~proc[p].published /\ temp[p] /\ content[p] = Want[p] /\ synced[p]
          /\ UNCHANGED <<final, temp, content, synced, faulty>>
      BY <1>0, <1>4 DEF ReadBack, At, Publishing, names, bytes, noFault
    <2>1. Links(p) = 1
      BY <1>d, <2>0 DEF Links
    <2>2. Moves(p, "link")
      BY <1>0, <1>a, <1>4, <2>0, <2>1, GotoMoves DEF ReadBack, CreateSteps
    <2>3. Publishing(p)' /\ Reading(p)'
      BY <1>0, <2>0, <2>2 DEF Moves, Publishing, Reading, Gone
    <2> QED BY <1>a, <1>c, <1>4, <2>2, <2>3 DEF ReadBack, CreateSteps
  <1>5. CASE Link(p)
    <2>0. /\ proc[p].at = "link" /\ ~proc[p].published /\ temp[p] /\ content[p] = Want[p] /\ synced[p]
          /\ UNCHANGED <<temp, diskFinal, content, synced, outcome, faulty>>
      BY <1>0, <1>5 DEF Link, At, Publishing, disk, bytes, noFault
    <2>1. CASE final # None
      <3>1. Moves(p, "cleanup") /\ UNCHANGED final
        BY <1>0, <1>a, <1>5, <2>1, GotoMoves DEF Link
      <3>2. Publishing(p)' /\ Reading(p)'
        BY <1>0, <2>0, <2>1, <3>1 DEF Moves, Publishing, Reading, Gone
      <3> QED BY <1>a, <1>e, <2>0, <3>1, <3>2
    <2>2. CASE final = None
      <3>1. /\ final' = p /\ proc'[p].at = "linked" /\ proc'[p].published
            /\ \A q \in Process : q # p => proc'[q] = proc[q]
        BY <1>0, <1>5, <2>2 DEF Link, ProcShape
      <3>2. Publishing(p)'
        BY <1>0, <3>1 DEF Publishing, Gone
      <3>3. Reading(p)'
        BY <1>0, <3>1 DEF Reading
      <3>4. \A q \in Process : q # p => Publishing(q)' /\ Reading(q)'
        BY <2>0, <2>2, <3>1, OthersKnow
      <3>5. PublishedIsSynced'
        BY <2>0, <2>2, <3>1 DEF FileInv, PublishedIsSynced
      <3>6. ReturnedIsOnDisk'
        BY <2>0, <2>2 DEF FileInv, ReturnedIsOnDisk
      <3> QED BY <1>b, <2>0, <3>2, <3>3, <3>4, <3>5, <3>6 DEF FileInv
    <2> QED BY <2>1, <2>2
  <1>6. CASE CheckLinks(p)
    <2>0. /\ proc[p].at = "linked" /\ proc[p].published /\ final = p
          /\ UNCHANGED <<final, temp, content, synced, faulty>>
      BY <1>0, <1>6 DEF CheckLinks, At, Publishing, Gone, names, bytes, noFault
    <2>1. PICK a \in {"unlink", "cleanup"} : Moves(p, a)
      BY <1>0, <1>a, <1>6, GotoMoves DEF CheckLinks, CreateSteps
    <2>2. Publishing(p)' /\ Reading(p)'
      BY <1>0, <2>0, <2>1 DEF Moves, Publishing, Reading, Gone
    <2> QED BY <1>a, <1>c, <1>6, <2>1, <2>2 DEF CheckLinks, CreateSteps
  <1>7. CASE Unlink(p)
    <2>1. /\ Moves(p, "cleanup") /\ ~temp'[p] /\ UNCHANGED <<final, diskFinal, content, synced, outcome, faulty>>
          /\ \A q \in Process : q # p => temp'[q] = temp[q]
          /\ proc[p].at = "unlink" /\ proc[p].published /\ final = p
      BY <1>0, <1>a, <1>7, GotoMoves DEF Unlink, At, Publishing, Gone, disk, bytes, noFault, FileTypeOK
    <2>2. Publishing(p)' /\ Reading(p)'
      BY <1>0, <2>1 DEF Moves, Publishing, Reading, Gone
    <2> QED BY <1>a, <1>e, <2>1, <2>2
  <1>8. CASE Cleanup(p)
    <2>1. /\ ~temp'[p] /\ UNCHANGED <<final, diskFinal, content, synced, faulty>>
          /\ \A q \in Process : q # p => temp'[q] = temp[q]
          /\ proc[p].at = "cleanup" /\ (proc[p].published => final = p)
          /\ proc[p].published \/ final # None \/ p \in faulty
      BY <1>0, <1>8 DEF Cleanup, At, Publishing, Gone, disk, bytes, noFault, FileTypeOK
    <2>2. \A q \in Process : q # p /\ proc'[q] = proc[q] => Publishing(q)' /\ Reading(q)'
      <3>1. final # None => (temp'[final] => temp[final]) /\ content'[final] = content[final]
        BY <1>0, <2>1 DEF FileTypeOK, Maybe
      <3> QED BY <2>1, <3>1, OthersKnow
    <2>3. CASE final # None
      <3>1. /\ proc'[p].at = "lstat" /\ proc'[p].late
            /\ proc'[p].published = proc[p].published
            /\ \A q \in Process : q # p => proc'[q] = proc[q]
            /\ UNCHANGED outcome
        BY <1>0, <1>8, <2>3 DEF Cleanup, ProcShape
      <3>2. Publishing(p)' /\ Reading(p)'
        BY <1>0, <2>1, <2>3, <3>1 DEF Publishing, Reading, Gone
      <3>3. PublishedIsSynced'
        <4>1. \A i \in Process : proc[i].published => proc'[i].published
          BY <3>1
        <4> QED BY <2>1, <4>1, FilesStayWhole
      <3>4. ReturnedIsOnDisk'
        BY <2>1, <3>1, SuccessesStay
      <3> QED BY <1>b, <2>2, <3>1, <3>2, <3>3, <3>4 DEF FileInv
    <2>4. CASE final = None
      <3>1. p \in faulty /\ ~proc[p].published
        BY <1>0, <2>1, <2>4
      <3>2. /\ Moves(p, "returned") /\ outcome'[p] = "error"
            /\ \A q \in Process : q # p => outcome'[q] = outcome[q]
        BY <1>0, <1>8, <2>4, <3>1, GotoMoves DEF Cleanup
      <3>3. Publishing(p)' /\ Reading(p)'
        BY <3>2 DEF Moves, Publishing, Reading, Gone
      <3>4. PublishedIsSynced'
        <4>1. \A i \in Process : proc[i].published => proc'[i].published
          BY <3>2 DEF Moves
        <4> QED BY <2>1, <4>1, FilesStayWhole
      <3>5. ReturnedIsOnDisk'
        BY <2>1, <3>2, SuccessesStay
      <3>6. Justified
        BY <3>1, <3>2 DEF Justified
      <3> QED BY <2>2, <3>2, <3>3, <3>4, <3>5, <3>6 DEF FileInv, Moves
    <2> QED BY <2>3, <2>4
  <1> QED BY <1>1, <1>2, <1>3, <1>4, <1>5, <1>6, <1>7, <1>8 DEF Publishes

\* Failing calls, dead processes and losses of power.
LEMMA FailuresKeep ==
  ASSUME FileInv, FileTypeOK', PowerLoss \/ \E p \in Process : CallFails(p) \/ Dies(p)
  PROVE  FileInv' /\ Justified
  <1>0. FileTypeOK /\ proc \in [Process -> ProcShape]
    BY DEF FileInv, FileTypeOK
  <1>a. \A a \in {"cleanup", "dead"} : a \in Steps
    BY DEF Steps
  <1>b. UNCHANGED outcome
    BY DEF PowerLoss, CallFails, Dies
  <1>1. ASSUME NEW p \in Process, Dies(p) PROVE FileInv'
    <2>1. Moves(p, "dead")
      BY <1>0, <1>a, <1>1, GotoMoves DEF Dies
    <2>2. Publishing(p)' /\ Reading(p)'
      BY <2>1 DEF Moves, Publishing, Reading, Gone
    <2> QED BY <1>1, <2>1, <2>2, QuietStep DEF Dies, Moves
  <1>2. ASSUME NEW p \in Process, CallFails(p) PROVE FileInv'
    <2>1. /\ Moves(p, "cleanup") /\ UNCHANGED <<final, diskFinal, temp, synced>>
          /\ p \in faulty' /\ faulty \subseteq faulty' /\ proc[p].at \in CreateSteps
      BY <1>0, <1>a, <1>2, GotoMoves DEF CallFails, names, disk
    <2>2. /\ \A q \in Process : q # p => content'[q] = content[q]
          /\ content'[p] = content[p] \/ proc[p].at = "write"
      BY <1>0, <1>2 DEF CallFails, At, FileTypeOK
    <2>3. /\ Publishing(p) /\ Reading(p)
          /\ \A i \in Process : final = i \/ diskFinal = i => content'[i] = content[i]
      BY <2>2 DEF FileInv, PublishedIsSynced, Publishing
    <2>4. Publishing(p)'
      BY <2>1, <2>3 DEF Moves, Publishing, CreateSteps, Gone
    <2>5. Reading(p)'
      BY <2>1, <2>3 DEF Moves, Reading, CreateSteps, Gone
    <2>6. final # None => content'[final] = content[final]
      BY <1>0, <2>3 DEF FileTypeOK, Maybe
    <2>7. \A q \in Process : q # p => Publishing(q)' /\ Reading(q)'
      BY <2>1, <2>2, <2>6, OthersKnow DEF Moves
    <2>8. PublishedIsSynced'
      <3>1. \A i \in Process : proc[i].published => proc'[i].published
        BY <2>1 DEF Moves
      <3> QED BY <2>1, <2>3, <3>1, FilesStayWhole
    <2>9. ReturnedIsOnDisk'
      BY <1>b, <2>1, <2>6, SuccessesStay
    <2> QED BY <2>4, <2>5, <2>7, <2>8, <2>9 DEF FileInv
  <1>3. ASSUME PowerLoss PROVE FileInv'
    <2>1. \A p \in Process :
            /\ proc'[p].at = IF proc[p].at \in {"idle", "returned"} THEN proc[p].at ELSE "dead"
            /\ proc'[p].attempt = proc[p].attempt
            /\ proc'[p].late = proc[p].late /\ proc'[p].published = proc[p].published
      BY <1>0, <1>3 DEF PowerLoss, ProcShape
    <2>2. /\ final' \in {final, diskFinal} /\ diskFinal' = final' /\ synced' = synced
          /\ \A p \in Process : synced[p] => content'[p] = content[p]
      BY <1>3 DEF PowerLoss
    <2>3. PublishedIsSynced'
      BY <2>1, <2>2 DEF FileInv, PublishedIsSynced
    <2>4. ReturnedIsOnDisk'
      <3> SUFFICES ASSUME NEW p \in Process, outcome[p] \in {"created", "read"}
                   PROVE  /\ final' # None /\ diskFinal' = final' /\ content'[final'] = Want[p]
                          /\ outcome[p] = "created" => final' = p
        BY <1>b DEF ReturnedIsOnDisk
      <3>1. final # None /\ diskFinal = final /\ content[final] = Want[p]
            /\ (outcome[p] = "created" => final = p)
        BY DEF FileInv, ReturnedIsOnDisk
      <3>2. final \in Process /\ synced[final]
        BY <1>0, <3>1 DEF FileInv, PublishedIsSynced, FileTypeOK, Maybe
      <3> QED BY <2>2, <3>1, <3>2
    <2>5. ASSUME NEW p \in Process PROVE Publishing(p)' /\ Reading(p)'
      <3>1. CASE proc'[p].at \in Gone
        BY <3>1 DEF Publishing, Reading, Gone
      <3>2. CASE proc[p].at = "idle" /\ proc'[p].at = "idle"
        <4>1. ~proc[p].late /\ proc[p].attempt = 1 /\ ~proc[p].published
          BY <3>2 DEF FileInv, Publishing
        <4>2. ~proc'[p].late /\ proc'[p].attempt = 1 /\ ~proc'[p].published
          BY <2>1, <4>1
        <4>3. ~(proc'[p].late \/ proc'[p].attempt > 1)
          <5>1. ~(proc'[p].attempt > 1)
            BY <4>2
          <5> QED BY <4>2, <5>1, Zenon
        <4>4. Publishing(p)'
          BY <3>2, <4>2 DEF Publishing
        <4>5. Reading(p)'
          BY <3>2, <4>3 DEF Reading
        <4> QED BY <4>4, <4>5
      <3> QED BY <2>1, <3>1, <3>2 DEF Gone
    <2> QED BY <2>3, <2>4, <2>5 DEF FileInv
  <1>4. Justified
    BY <1>b DEF Justified
  <1> QED BY <1>1, <1>2, <1>3, <1>4

\* Every step of every process, and every failure, keeps the invariant and
\* refuses nobody without a reason.
LEMMA FileStepKeepsInv == FileInv /\ [FileNext]_fileVars => FileInv' /\ [Justified]_fileVars
  <1>1. ASSUME UNCHANGED fileVars, FileInv PROVE FileInv'
    BY <1>1 DEF fileVars, FileInv, FileTypeOK, PublishedIsSynced, ReturnedIsOnDisk, Publishing, Reading
  <1> QED BY <1>1, FileStepKeepsType, ReadsKeep, PublishesKeep, FailuresKeep DEF FileNext

\* Hence it always holds.
LEMMA FilesSafe == FileSpec => []FileInv
  BY FileStarts, FileStepKeepsInv, PTL DEF FileSpec

\* Whatever interleaves, dies or loses its power, a success is one for ever
\* and only one process created the file (publishOrReadExactOwnedFile).
THEOREM SuccessLasts == FileSpec => []SuccessIsDurable
  <1>1. FileInv => SuccessIsDurable
    BY DEF FileInv, FileTypeOK, Maybe, PublishedIsSynced, ReturnedIsOnDisk, SuccessIsDurable, FinalIsWhole
  <1> QED BY <1>1, FilesSafe, PTL

\* No interleaving refuses a process whose bytes are published and whose own
\* calls succeed, however many processes publish and read at once.
THEOREM RefusalsAreJustified == FileSpec => RefusalIsJustified
  BY FilesSafe, FileStepKeepsInv, PTL DEF FileSpec, RefusalIsJustified, Justified

-----------------------------------------------------------------------------
(* BootstrapCeremony: the state it ranges over.                              *)

Waits == {S("sessions"), S("assumeRoot"), S("assumeWriter"), S("expire"), S("events"),
          S("gone"), <<"gone", 1>>}

CeremonySteps ==
  Mutations \cup Receipts \cup Waits
    \cup {S("seal"), S("logout"), S("disposition"), S("NEW"), S("RECONCILE_ONLY")}

CeremonyTypeOK ==
  /\ clock \in Nat
  /\ journal \in [Ids -> {"none", "intent", "started", "accepted"}]
  /\ \A x \in Receipts : journal[x] # "started"
  /\ session \in [SessionIds -> [at : Nat, until : Nat, safe : Nat]]
  /\ process \in [todo : Seq(CeremonySteps),
                  stage : {"none", "open", "inspect", "send", "after"}, expired : BOOLEAN]
  /\ issued \in [SessionIds -> Nat \cup {Never}]
  /\ sent \in [Mutations -> Nat]

\* The steps that the process has before it.
Ahead == ToSet(process.todo)

\* The order of the steps of a program; the steps of the targets are of one rank.
Rank(x) ==
  CASE x[1] \in {"NEW", "RECONCILE_ONLY"} -> 0
    [] x[1] = "create" -> 1
    [] x[1] = "tag" -> 2
    [] x[1] = "put" -> 3
    [] x[1] = "sessions" -> 4
    [] x[1] = "assumeRoot" -> 5
    [] x[1] \in {"change", "execute", "protect"} -> 6
    [] x[1] = "assumeWriter" -> 7
    [] x[1] = "seal" -> 8
    [] x[1] = "result" -> 9
    [] x[1] = "expire" -> 10
    [] x[1] = "completion" -> 11
    [] x[1] \in {"events", "disposition"} -> 12
    [] x[1] = "deletePolicy" -> 13
    [] x[1] = "deleteRole" -> 14
    [] x[1] = "gone" -> 15
    [] x[1] = "evidence" -> 16
    [] x[1] = "logout" -> 17
    [] x[1] = "cleanup" -> 18

Precedes(x, y) == Rank(x) < Rank(y) \/ (Rank(x) = 6 /\ Rank(y) = 6)
Ordered(todo) == \A i, j \in 1..Len(todo) : i < j => Precedes(todo[i], todo[j])

-----------------------------------------------------------------------------
(* What holds of the provider.                                               *)

\* A mutation is sent once, after its start is in the journal.
SentAfterStart ==
  /\ \A m \in Mutations :
       /\ sent[m] \in {0, 1}
       /\ journal[m] \in {"none", "intent"} => sent[m] = 0
       /\ m \in flight => sent[m] = 1
  /\ process.stage = "send" /\ process.todo # <<>> /\ Here \in Mutations =>
       sent[Here] = 0 /\ journal[Here] \in {"started", "accepted"}

\* The role is created once, and what belongs to it is deleted with it.
RoleIsMadeOnce ==
  /\ S("create") \in trail => sent[S("create")] = 1 /\ S("create") \notin flight
  /\ S("role") \in cloud => S("create") \in trail
  /\ S("policy") \in cloud => S("role") \in cloud
  /\ \A n \in {0, 1} :
       <<"deleteRole", n>> \in trail => S("create") \in trail /\ S("role") \notin cloud

\* The role does not exist and no request can make it again.
RoleIsGone ==
  /\ S("role") \notin cloud
  /\ S("create") \in trail \/ (sent[S("create")] = 0 /\ clock >= NotAfter)

\* What was accepted is there.
AcceptedIsThere ==
  /\ \A t \in 1..Targets : <<"execute", t>> \in cloud => <<"change", t>> \in cloud
  /\ \A m \in ToSet(TargetSteps) : Accepted(m) => m \in cloud
  /\ Accepted(S("seal")) => S("sealed") \in cloud
  /\ Accepted(S("logout")) => S("login") \notin cloud

-----------------------------------------------------------------------------
(* What holds of the sessions.                                               *)

AssumeStep(kind) == IF kind = "root" THEN S("assumeRoot") ELSE S("assumeWriter")

\* The process is about to send the request for a session.
Asks(s) ==
  /\ process.stage = "send" /\ process.todo # <<>>
  /\ Here = AssumeStep(s[1]) /\ s = LastOf(s[1])

SessionsAreKnown ==
  \A s \in SessionIds :
    /\ issued[s] # Never =>
         issued[s] <= clock /\ s \notin flight /\ journal[s] \in {"started", "accepted"}
    /\ s \in flight => journal[s] = "started" /\ clock <= session[s].at + Lag
    /\ journal[s] = "accepted" /\ issued[s] # Never =>
         session[s].until = issued[s] + Duration /\ session[s].until <= session[s].safe
    /\ Asks(s) => /\ journal[s] = "started" /\ issued[s] = Never
                  /\ s \notin flight /\ clock <= session[s].at + Lag
                  /\ s[1] = "writer" => ~Accepted(S("seal"))

\* A session that lives, or may still turn out to have been issued.
Active(s) == Live(s) \/ journal[s] = "started"
Quiet == \A s \in SessionIds : ~Active(s)

OneActive ==
  \A s, u \in SessionIds : s[1] = u[1] /\ Active(s) /\ Active(u) => s = u

\* Before a session is asked for, the role has no other.
Free(kind) == \A s \in SessionIds : s[1] = kind /\ Active(s) => Asks(s)

\* What is active is the last session of its role; what started is being asked for.
OnlyLast ==
  \A s \in SessionIds : Active(s) => s = LastOf(s[1]) /\ (journal[s] = "started" => Asks(s))

\* Every answer is known, and what lives is the last session of its role.
AllAnswered ==
  \A s \in SessionIds : journal[s] # "started" /\ (Live(s) => s = LastOf(s[1]))

-----------------------------------------------------------------------------
(* What the journal shows, and what the steps before a pending step have done *)

JournalIsTrue ==
  /\ journal[S("result")] # "none" =>
       ToSet(TargetSteps) \cup {S("seal")} \subseteq {x \in Ids : Accepted(x)} /\ AllAnswered
  /\ journal[S("completion")] # "none" => Accepted(S("result")) /\ Quiet
  /\ journal[S("disposition")] # "none" =>
       Quiet /\ clock >= NotAfter /\ (~facts.role => sent[S("create")] = 0)
  /\ journal[S("evidence")] # "none" => Accepted(S("completion")) /\ RoleIsGone
  /\ journal[<<"evidence", 1>>] # "none" => Accepted(S("disposition")) /\ RoleIsGone
  /\ journal[S("cleanup")] # "none" =>
       Accepted(S("logout")) /\ (Accepted(S("evidence")) \/ Accepted(<<"evidence", 1>>))
  /\ receipt # "none" => Accepted(S("cleanup"))
  /\ receipt = "completed" => Accepted(S("result"))

\* A step is before the process, or the journal has it.
Met(x) == x \in Ahead \/ Accepted(x)

Prepared ==
  /\ Ordered(process.todo)
  /\ process.expired => clock >= NotAfter /\ S("create") \notin Ahead
  /\ \A kind \in {"root", "writer"} : AssumeStep(kind) \in Ahead =>
       journal[S("result")] = "none" /\ (S("sessions") \in Ahead \/ Free(kind))
  /\ S("result") \in Ahead =>
       /\ \A m \in ToSet(TargetSteps) : Met(m)
       /\ Met(S("seal"))
       /\ S("sessions") \in Ahead \/ OnlyLast
  /\ S("expire") \in Ahead => Met(S("result"))
  /\ S("completion") \in Ahead =>
       Met(S("result")) /\ (S("expire") \in Ahead \/ (Accepted(S("result")) /\ Quiet))
  /\ S("disposition") \in Ahead =>
       process.expired /\ (S("sessions") \in Ahead \/ Quiet)
  /\ <<"gone", 1>> \in Ahead =>
       \/ S("disposition") \in Ahead /\ <<"deleteRole", 1>> \in Ahead
       \/ /\ Accepted(S("disposition"))
          /\ <<"deleteRole", 1>> \in Ahead \/ (facts.role => Accepted(<<"deleteRole", 1>>))
  /\ S("evidence") \in Ahead =>
       Met(S("completion")) /\ (S("gone") \in Ahead \/ RoleIsGone)
  /\ <<"evidence", 1>> \in Ahead =>
       Met(S("disposition")) /\ (<<"gone", 1>> \in Ahead \/ RoleIsGone)
  /\ S("logout") \in Ahead \/ S("cleanup") \in Ahead =>
       Met(S("evidence")) \/ Met(<<"evidence", 1>>)
  /\ S("cleanup") \in Ahead => Met(S("logout"))

CeremonyInv ==
  /\ CeremonyTypeOK
  /\ SentAfterStart /\ RoleIsMadeOnce /\ AcceptedIsThere
  /\ SessionsAreKnown /\ OneActive
  /\ JournalIsTrue /\ Prepared

-----------------------------------------------------------------------------
(* Programs.                                                                 *)

\* The steps of the targets, three for each.
LEMMA TargetStepsAre ==
  ToSet(TargetSteps) = {"change", "execute", "protect"} \X (1..Targets)
  /\ TargetSteps \in Seq(ToSet(TargetSteps))
  <1>0. Targets \in Nat BY CeremonyAssumption
  <1>1. DOMAIN TargetSteps = 1..(3 * Targets) BY DEF TargetSteps
  <1>2. ASSUME NEW i \in 1..(3 * Targets)
        PROVE  TargetSteps[i] \in {"change", "execute", "protect"} \X (1..Targets)
    <2>0. i \in Int /\ 1 <= i /\ i <= 3 * Targets BY <1>0
    <2>1. /\ (i - 1) \div 3 \in Int /\ (i - 1) % 3 \in 0..2
          /\ i - 1 = (3 * ((i - 1) \div 3)) + ((i - 1) % 3)
      BY <2>0
    <2>2. ((i - 1) \div 3) + 1 \in 1..Targets BY <2>1, <2>0, <1>0
    <2>3. TargetKinds[((i - 1) % 3) + 1] \in {"change", "execute", "protect"}
      BY <2>1 DEF TargetKinds
    <2> QED BY <2>2, <2>3, <1>0 DEF TargetSteps
  <1>3. ASSUME NEW t \in 1..Targets
        PROVE  /\ <<"change", t>> = TargetSteps[3 * t - 2]
               /\ <<"execute", t>> = TargetSteps[3 * t - 1]
               /\ <<"protect", t>> = TargetSteps[3 * t]
    <2>0. t \in Int /\ 1 <= t /\ t <= Targets BY <1>0
    <2>1. 3 * t - 2 \in 1..(3 * Targets) /\ 3 * t - 1 \in 1..(3 * Targets) /\ 3 * t \in 1..(3 * Targets)
      BY <2>0, <1>0
    <2>2. (3 * t - 3) % 3 = 0 /\ (3 * t - 2) % 3 = 1 /\ (3 * t - 1) % 3 = 2 BY <2>0
    <2>3. (3 * t - 3) \div 3 = t - 1 /\ (3 * t - 2) \div 3 = t - 1 /\ (3 * t - 1) \div 3 = t - 1
      BY <2>0
    <2>4. 3 * t - 2 - 1 = 3 * t - 3 /\ 3 * t - 1 - 1 = 3 * t - 2 BY <2>0
    <2> QED BY <2>0, <2>1, <2>2, <2>3, <2>4 DEF TargetSteps, TargetKinds
  <1>4. ASSUME NEW x \in {"change", "execute", "protect"} \X (1..Targets)
        PROVE  x \in ToSet(TargetSteps)
    <2>1. PICK t \in 1..Targets : x = <<"change", t>> \/ x = <<"execute", t>> \/ x = <<"protect", t>>
      OBVIOUS
    <2>2. 3 * t - 2 \in 1..(3 * Targets) /\ 3 * t - 1 \in 1..(3 * Targets) /\ 3 * t \in 1..(3 * Targets)
      BY <1>0
    <2> QED BY <2>1, <2>2, <1>1, <1>3 DEF ToSet
  <1>5. ToSet(TargetSteps) = {"change", "execute", "protect"} \X (1..Targets)
    BY <1>1, <1>2, <1>4 DEF ToSet
  <1>6. TargetSteps \in Seq(ToSet(TargetSteps))
    <2>1. 3 * Targets \in Nat BY <1>0
    <2>2. TargetSteps \in [1..(3 * Targets) -> ToSet(TargetSteps)] BY <1>1, <1>2, <1>5 DEF TargetSteps
    <2> QED BY <2>1, <2>2
  <1> QED BY <1>5, <1>6

\* The rank of every step.
LEMMA Ranks ==
  /\ Rank(S("NEW")) = 0 /\ Rank(S("RECONCILE_ONLY")) = 0
  /\ Rank(S("create")) = 1 /\ Rank(S("tag")) = 2 /\ Rank(S("put")) = 3
  /\ Rank(S("sessions")) = 4 /\ Rank(S("assumeRoot")) = 5 /\ Rank(S("assumeWriter")) = 7
  /\ Rank(S("seal")) = 8 /\ Rank(S("result")) = 9 /\ Rank(S("expire")) = 10
  /\ Rank(S("completion")) = 11 /\ Rank(S("events")) = 12 /\ Rank(S("disposition")) = 12
  /\ Rank(S("deletePolicy")) = 13 /\ Rank(<<"deletePolicy", 1>>) = 13
  /\ Rank(S("deleteRole")) = 14 /\ Rank(<<"deleteRole", 1>>) = 14
  /\ Rank(S("gone")) = 15 /\ Rank(<<"gone", 1>>) = 15
  /\ Rank(S("evidence")) = 16 /\ Rank(<<"evidence", 1>>) = 16
  /\ Rank(S("logout")) = 17 /\ Rank(S("cleanup")) = 18
  /\ \A m \in ToSet(TargetSteps) : Rank(m) = 6
  <1>1. \A m \in ToSet(TargetSteps) : Rank(m) = 6
    BY TargetStepsAre DEF Rank
  <1> QED BY <1>1 DEF Rank, S

\* A step left behind is over; what is before the process comes later.
LEMMA Shorter ==
  ASSUME NEW todo \in Seq(CeremonySteps), todo # <<>>, Ordered(todo)
  PROVE  /\ Tail(todo) \in Seq(CeremonySteps) /\ Ordered(Tail(todo))
         /\ Head(todo) \in CeremonySteps
         /\ ToSet(todo) = {Head(todo)} \cup ToSet(Tail(todo))
         /\ \A x \in ToSet(Tail(todo)) : Precedes(Head(todo), x)
  <1>1. Tail(todo) \in Seq(CeremonySteps) /\ Len(Tail(todo)) = Len(todo) - 1
        /\ \A i \in 1..Len(Tail(todo)) : Tail(todo)[i] = todo[i + 1]
    OBVIOUS
  <1>2. Len(todo) \in Nat /\ Len(todo) >= 1 /\ Head(todo) = todo[1] /\ todo[1] \in CeremonySteps
    OBVIOUS
  <1>3. DOMAIN todo = 1..Len(todo) /\ DOMAIN Tail(todo) = 1..Len(Tail(todo))
    BY <1>1
  <1>4. Ordered(Tail(todo))
    BY <1>1, <1>2 DEF Ordered
  <1>5. ToSet(todo) = {Head(todo)} \cup ToSet(Tail(todo))
    <2>1. ASSUME NEW i \in 1..Len(todo) PROVE todo[i] \in {Head(todo)} \cup ToSet(Tail(todo))
      <3>1. CASE i = 1 BY <3>1, <1>2
      <3>2. CASE i # 1
        <4>1. i - 1 \in 1..Len(Tail(todo)) /\ Tail(todo)[i - 1] = todo[i] BY <3>2, <1>1, <1>2
        <4> QED BY <4>1, <1>3 DEF ToSet
      <3> QED BY <3>1, <3>2
    <2>2. ASSUME NEW i \in 1..Len(Tail(todo)) PROVE Tail(todo)[i] \in ToSet(todo)
      <3>1. i + 1 \in 1..Len(todo) BY <1>1, <1>2
      <3> QED BY <3>1, <1>1, <1>3 DEF ToSet
    <2>3. Head(todo) \in ToSet(todo) BY <1>2, <1>3 DEF ToSet
    <2> QED BY <2>1, <2>2, <2>3, <1>3 DEF ToSet
  <1>6. ASSUME NEW x \in ToSet(Tail(todo)) PROVE Precedes(Head(todo), x)
    <2>1. PICK i \in 1..Len(Tail(todo)) : x = Tail(todo)[i] BY <1>3 DEF ToSet
    <2>2. i + 1 \in 1..Len(todo) /\ 1 \in 1..Len(todo) /\ 1 < i + 1 BY <1>1, <1>2
    <2> QED BY <2>1, <2>2, <1>1, <1>2 DEF Ordered
  <1> QED BY <1>1, <1>2, <1>4, <1>5, <1>6

\* Ordered steps between two ranks.
Between(todo, low, high) ==
  /\ todo \in Seq(CeremonySteps) /\ Ordered(todo)
  /\ \A x \in ToSet(todo) : Rank(x) \in Int /\ low <= Rank(x) /\ Rank(x) <= high

\* One part of a program after another.
LEMMA Joined ==
  ASSUME NEW s, NEW t, NEW a \in Int, NEW b \in Int, NEW c \in Int, NEW d \in Int,
         Between(s, a, b), Between(t, c, d), b < c, a <= c, b <= d
  PROVE  Between(s \o t, a, d) /\ ToSet(s \o t) = ToSet(s) \cup ToSet(t)
  <1>1. /\ s \in Seq(CeremonySteps) /\ t \in Seq(CeremonySteps)
        /\ s \o t \in Seq(CeremonySteps) /\ Len(s \o t) = Len(s) + Len(t)
        /\ Len(s) \in Nat /\ Len(t) \in Nat
        /\ \A i \in 1..Len(s) : (s \o t)[i] = s[i]
        /\ \A i \in (Len(s) + 1)..(Len(s) + Len(t)) : (s \o t)[i] = t[i - Len(s)]
        /\ DOMAIN s = 1..Len(s) /\ DOMAIN t = 1..Len(t) /\ DOMAIN (s \o t) = 1..(Len(s) + Len(t))
    BY DEF Between
  <1>2. ToSet(s \o t) = ToSet(s) \cup ToSet(t)
    <2>1. ASSUME NEW i \in 1..(Len(s) + Len(t)) PROVE (s \o t)[i] \in ToSet(s) \cup ToSet(t)
      <3>1. CASE i \in 1..Len(s) BY <3>1, <1>1 DEF ToSet
      <3>2. CASE i \notin 1..Len(s)
        <4>1. i - Len(s) \in 1..Len(t) /\ i \in (Len(s) + 1)..(Len(s) + Len(t)) BY <3>2, <1>1
        <4> QED BY <4>1, <1>1 DEF ToSet
      <3> QED BY <3>1, <3>2
    <2>2. ASSUME NEW i \in 1..Len(s) PROVE s[i] \in ToSet(s \o t)
      <3>1. i \in 1..(Len(s) + Len(t)) BY <1>1
      <3> QED BY <3>1, <1>1 DEF ToSet
    <2>3. ASSUME NEW i \in 1..Len(t) PROVE t[i] \in ToSet(s \o t)
      <3>1. i + Len(s) \in (Len(s) + 1)..(Len(s) + Len(t)) /\ (i + Len(s)) - Len(s) = i
            /\ i + Len(s) \in 1..(Len(s) + Len(t))
        BY <1>1
      <3>2. (s \o t)[i + Len(s)] = t[i] BY <3>1, <1>1
      <3> QED BY <3>1, <3>2, <1>1 DEF ToSet
    <2> QED BY <2>1, <2>2, <2>3, <1>1 DEF ToSet
  <1>3. ASSUME NEW i \in 1..Len(s \o t), NEW j \in 1..Len(s \o t), i < j
        PROVE  Precedes((s \o t)[i], (s \o t)[j])
    <2>1. CASE j \in 1..Len(s)
      <3>1. i \in 1..Len(s) BY <2>1, <1>1, <1>3
      <3> QED BY <3>1, <2>1, <1>1, <1>3 DEF Between, Ordered
    <2>2. CASE i \in 1..Len(s) /\ j \notin 1..Len(s)
      <3>1. j - Len(s) \in 1..Len(t) /\ j \in (Len(s) + 1)..(Len(s) + Len(t)) BY <2>2, <1>1
      <3>2. (s \o t)[i] \in ToSet(s) /\ (s \o t)[j] \in ToSet(t) BY <3>1, <2>2, <1>1 DEF ToSet
      <3> QED BY <3>2 DEF Between, Precedes
    <2>3. CASE i \notin 1..Len(s) /\ j \notin 1..Len(s)
      <3>1. /\ j - Len(s) \in 1..Len(t) /\ j \in (Len(s) + 1)..(Len(s) + Len(t))
            /\ i - Len(s) \in 1..Len(t) /\ i \in (Len(s) + 1)..(Len(s) + Len(t))
            /\ i - Len(s) < j - Len(s)
        BY <2>3, <1>1, <1>3
      <3> QED BY <3>1, <1>1 DEF Between, Ordered
    <2> QED BY <2>1, <2>2, <2>3
  <1>4. \A x \in ToSet(s \o t) : Rank(x) \in Int /\ a <= Rank(x) /\ Rank(x) <= d
    BY <1>2 DEF Between
  <1> QED BY <1>1, <1>2, <1>3, <1>4 DEF Between, Ordered

\* The steps named are steps.
LEMMA StepsAre ==
  /\ {S("create"), S("tag"), S("put"), S("sessions"), S("assumeRoot"), S("assumeWriter"),
      S("seal"), S("result"), S("expire"), S("completion"), S("events"), S("disposition"),
      S("deletePolicy"), <<"deletePolicy", 1>>, S("deleteRole"), <<"deleteRole", 1>>,
      S("gone"), <<"gone", 1>>, S("evidence"), <<"evidence", 1>>, S("logout"), S("cleanup"),
      S("NEW"), S("RECONCILE_ONLY")} \subseteq CeremonySteps
  /\ ToSet(TargetSteps) \subseteq CeremonySteps
  BY DEF CeremonySteps, Mutations, RootMutations, Receipts, Waits, S

\* One step and nothing.
LEMMA ShortProgram ==
  /\ \A a, b \in Int : Between(<<>>, a, b)
  /\ ToSet(<<>>) = {}
  /\ \A x \in CeremonySteps : \A a \in Int :
       Rank(x) = a => Between(<<x>>, a, a) /\ ToSet(<<x>>) = {x}
  BY DEF Between, Ordered, ToSet

\* Two steps and three in their order.
LEMMA Program2 ==
  ASSUME NEW x \in CeremonySteps, NEW y \in CeremonySteps, Rank(x) \in Int, Rank(y) \in Int,
         Rank(x) < Rank(y)
  PROVE  Between(<<x, y>>, Rank(x), Rank(y)) /\ ToSet(<<x, y>>) = {x, y}
  <1>1. /\ <<x, y>> \in Seq(CeremonySteps) /\ Len(<<x, y>>) = 2 /\ DOMAIN <<x, y>> = {1, 2}
        /\ <<x, y>>[1] = x /\ <<x, y>>[2] = y
    OBVIOUS
  <1>2. ToSet(<<x, y>>) = {x, y}
    BY <1>1 DEF ToSet
  <1>3. Ordered(<<x, y>>)
    BY <1>1 DEF Ordered, Precedes
  <1> QED BY <1>1, <1>2, <1>3 DEF Between

\* Three steps in their order.
LEMMA Program3 ==
  ASSUME NEW x \in CeremonySteps, NEW y \in CeremonySteps, NEW z \in CeremonySteps,
         Rank(x) \in Int, Rank(y) \in Int, Rank(z) \in Int,
         Rank(x) < Rank(y), Rank(y) < Rank(z)
  PROVE  Between(<<x, y, z>>, Rank(x), Rank(z)) /\ ToSet(<<x, y, z>>) = {x, y, z}
  <1>1. /\ <<x, y, z>> \in Seq(CeremonySteps) /\ Len(<<x, y, z>>) = 3
        /\ DOMAIN <<x, y, z>> = {1, 2, 3}
        /\ <<x, y, z>>[1] = x /\ <<x, y, z>>[2] = y /\ <<x, y, z>>[3] = z
    OBVIOUS
  <1>2. ToSet(<<x, y, z>>) = {x, y, z}
    BY <1>1 DEF ToSet
  <1>3. Ordered(<<x, y, z>>)
    BY <1>1 DEF Ordered, Precedes
  <1> QED BY <1>1, <1>2, <1>3 DEF Between

\* Five steps of rising rank.
Rising(u, v, x, y, z) ==
  /\ {u, v, x, y, z} \subseteq CeremonySteps
  /\ Rank(u) \in Int /\ Rank(v) \in Int /\ Rank(x) \in Int /\ Rank(y) \in Int /\ Rank(z) \in Int
  /\ Rank(u) < Rank(v) /\ Rank(v) < Rank(x) /\ Rank(x) < Rank(y) /\ Rank(y) < Rank(z)

\* Five steps in their order.
LEMMA Program5 ==
  ASSUME NEW u, NEW v, NEW x, NEW y, NEW z, Rising(u, v, x, y, z)
  PROVE  /\ Between(<<u, v, x, y, z>>, Rank(u), Rank(z))
         /\ ToSet(<<u, v, x, y, z>>) = {u, v, x, y, z}
  <1> USE DEF Rising
  <1>1. /\ <<u, v, x, y, z>> \in Seq(CeremonySteps) /\ Len(<<u, v, x, y, z>>) = 5
        /\ DOMAIN <<u, v, x, y, z>> = {1, 2, 3, 4, 5}
        /\ <<u, v, x, y, z>>[1] = u /\ <<u, v, x, y, z>>[2] = v /\ <<u, v, x, y, z>>[3] = x
        /\ <<u, v, x, y, z>>[4] = y /\ <<u, v, x, y, z>>[5] = z
    OBVIOUS
  <1>2. ToSet(<<u, v, x, y, z>>) = {u, v, x, y, z}
    BY <1>1 DEF ToSet
  <1>3. Ordered(<<u, v, x, y, z>>)
    BY <1>1 DEF Ordered, Precedes
  <1> QED BY <1>1, <1>2, <1>3 DEF Between

\* The last part of a completed execution.
LEMMA CleanupIs ==
  /\ Between(CleanupSteps, 12, 18)
  /\ ToSet(CleanupSteps) =
       (IF Accepted(S("evidence")) THEN {}
        ELSE {S("events"), S("deletePolicy"), S("deleteRole"), S("gone"), S("evidence")})
         \cup {S("logout"), S("cleanup")}
  <1>1. Between(FinalSteps, 17, 18) /\ ToSet(FinalSteps) = {S("logout"), S("cleanup")}
    BY Program2, StepsAre, Ranks DEF FinalSteps
  <1> DEFINE part == <<S("events"), S("deletePolicy"), S("deleteRole"), S("gone"), S("evidence")>>
  <1>2. Between(part, 12, 16)
        /\ ToSet(part) = {S("events"), S("deletePolicy"), S("deleteRole"), S("gone"), S("evidence")}
    <2>1. /\ S("events") \in CeremonySteps /\ S("deletePolicy") \in CeremonySteps
          /\ S("deleteRole") \in CeremonySteps /\ S("gone") \in CeremonySteps
          /\ S("evidence") \in CeremonySteps
      BY StepsAre
    <2>2. /\ Rank(S("events")) = 12 /\ Rank(S("deletePolicy")) = 13 /\ Rank(S("deleteRole")) = 14
          /\ Rank(S("gone")) = 15 /\ Rank(S("evidence")) = 16
      BY Ranks
    <2>3. Rising(S("events"), S("deletePolicy"), S("deleteRole"), S("gone"), S("evidence"))
      BY <2>1, <2>2 DEF Rising
    <2> QED BY <2>2, <2>3, Program5
  <1> HIDE DEF part
  <1>4. /\ Between(part \o FinalSteps, 12, 18)
        /\ ToSet(part \o FinalSteps) = ToSet(part) \cup ToSet(FinalSteps)
    <2>1. Between(part, 12, 16) BY <1>2
    <2>2. Between(FinalSteps, 17, 18) BY <1>1
    <2>3. ASSUME NEW s, NEW t, Between(s, 12, 16), Between(t, 17, 18)
          PROVE Between(s \o t, 12, 18) /\ ToSet(s \o t) = ToSet(s) \cup ToSet(t)
      BY ONLY <2>3, Joined
    <2> QED BY <2>1, <2>2, <2>3
  <1>5. CleanupSteps = (IF Accepted(S("evidence")) THEN <<>> ELSE part) \o FinalSteps
    BY DEF CleanupSteps, part
  <1>6. CASE Accepted(S("evidence"))
    <2>1. CleanupSteps = FinalSteps
      <3>1. FinalSteps \in Seq(CeremonySteps) BY <1>1 DEF Between
      <3>2. CleanupSteps = <<>> \o FinalSteps BY <1>5, <1>6
      <3> QED BY <3>1, <3>2
    <2>2. Between(FinalSteps, 12, 18) BY <1>1 DEF Between
    <2> QED BY <2>1, <2>2, <1>1, <1>6
  <1>7. CASE ~Accepted(S("evidence"))
    <2>1. CleanupSteps = part \o FinalSteps BY <1>5, <1>7
    <2> QED BY <2>1, <1>1, <1>2, <1>4, <1>7
  <1> QED BY <1>6, <1>7

\* The program of an execution that was abandoned.
LEMMA AbandonedIs ==
  /\ Between(AbandonedSteps, 4, 18)
  /\ ToSet(AbandonedSteps) =
       (IF Accepted(<<"evidence", 1>>) THEN {}
        ELSE (IF Accepted(S("disposition")) THEN {} ELSE {S("sessions")})
             \cup {S("disposition"), <<"deletePolicy", 1>>, <<"deleteRole", 1>>, <<"gone", 1>>,
                   <<"evidence", 1>>})
         \cup {S("logout"), S("cleanup")}
  <1>1. Between(FinalSteps, 17, 18) /\ ToSet(FinalSteps) = {S("logout"), S("cleanup")}
    BY Program2, StepsAre, Ranks DEF FinalSteps
  <1> DEFINE part == <<S("disposition"), <<"deletePolicy", 1>>, <<"deleteRole", 1>>, <<"gone", 1>>,
                       <<"evidence", 1>>>>
             wait == IF Accepted(S("disposition")) THEN <<>> ELSE <<S("sessions")>>
  <1>2. Between(part, 12, 16)
        /\ ToSet(part) = {S("disposition"), <<"deletePolicy", 1>>, <<"deleteRole", 1>>, <<"gone", 1>>,
                       <<"evidence", 1>>}
    <2>1. /\ S("disposition") \in CeremonySteps /\ <<"deletePolicy", 1>> \in CeremonySteps
          /\ <<"deleteRole", 1>> \in CeremonySteps /\ <<"gone", 1>> \in CeremonySteps
          /\ <<"evidence", 1>> \in CeremonySteps
      BY StepsAre
    <2>2. /\ Rank(S("disposition")) = 12 /\ Rank(<<"deletePolicy", 1>>) = 13
          /\ Rank(<<"deleteRole", 1>>) = 14 /\ Rank(<<"gone", 1>>) = 15 /\ Rank(<<"evidence", 1>>) = 16
      BY Ranks
    <2>3. Rising(S("disposition"), <<"deletePolicy", 1>>, <<"deleteRole", 1>>, <<"gone", 1>>,
                 <<"evidence", 1>>)
      BY <2>1, <2>2 DEF Rising
    <2> QED BY <2>2, <2>3, Program5
  <1>3. Between(wait, 4, 4)
        /\ ToSet(wait) = IF Accepted(S("disposition")) THEN {} ELSE {S("sessions")}
    <2>1. Between(<<>>, 4, 4) /\ ToSet(<<>>) = {} BY ShortProgram
    <2>2. Between(<<S("sessions")>>, 4, 4) /\ ToSet(<<S("sessions")>>) = {S("sessions")}
      BY ShortProgram, StepsAre, Ranks
    <2> QED BY <2>1, <2>2
  <1>4. AbandonedSteps =
          IF Accepted(<<"evidence", 1>>) THEN FinalSteps ELSE (wait \o part) \o FinalSteps
    <2>1. wait \in Seq(CeremonySteps) /\ part \in Seq(CeremonySteps) /\ FinalSteps \in Seq(CeremonySteps)
      BY <1>1, <1>2, <1>3 DEF Between
    <2>2. AbandonedSteps =
            IF Accepted(<<"evidence", 1>>) THEN FinalSteps ELSE wait \o part \o FinalSteps
      BY DEF AbandonedSteps
    <2> HIDE DEF part, wait
    <2> QED BY <2>1, <2>2
  <1> HIDE DEF part, wait
  <1>5. Between(wait \o part, 4, 16) /\ ToSet(wait \o part) = ToSet(wait) \cup ToSet(part)
    BY <1>2, <1>3, Joined
  <1>6. /\ Between((wait \o part) \o FinalSteps, 4, 18)
        /\ ToSet((wait \o part) \o FinalSteps) = ToSet(wait \o part) \cup ToSet(FinalSteps)
    BY <1>1, <1>5, Joined
  <1>7. Between(FinalSteps, 4, 18)
    BY <1>1 DEF Between
  <1>8. CASE Accepted(<<"evidence", 1>>)
    BY <1>1, <1>4, <1>7, <1>8
  <1>9. CASE ~Accepted(<<"evidence", 1>>)
    BY <1>1, <1>2, <1>3, <1>4, <1>5, <1>6, <1>9
  <1> QED BY <1>8, <1>9

\* The program of a journal: the steps it has, by the journal they are for.
LEMMA ProgramIs ==
  ASSUME NEW expired \in BOOLEAN, ~(expired /\ ~Accepted(S("result")))
  PROVE  /\ Between(Program(expired), 1, 18)
         /\ ToSet(Program(expired)) =
              (IF expired \/ CleanupStarted(0) \/ Accepted(S("evidence")) \/ journal[S("logout")] # "none"
               THEN {} ELSE {S("create"), S("tag"), S("put")})
              \cup (IF ~Accepted(S("result"))
                    THEN {S("sessions"), S("assumeRoot")} \cup ToSet(TargetSteps)
                         \cup {S("assumeWriter"), S("seal"), S("result")}
                    ELSE IF expired /\ ~Accepted(S("completion")) THEN {S("sessions")} ELSE {})
              \cup (IF Accepted(S("completion")) THEN {} ELSE {S("expire"), S("completion")})
              \cup ToSet(CleanupSteps)
  <1> DEFINE setup == IF expired \/ CleanupStarted(0) \/ Accepted(S("evidence"))
                         \/ journal[S("logout")] # "none"
                      THEN <<>> ELSE SetupSteps
             first == <<S("sessions"), S("assumeRoot")>>
             third == <<S("assumeWriter"), S("seal"), S("result")>>
             build == (first \o TargetSteps) \o third
             wait == IF expired /\ ~Accepted(S("completion")) THEN <<S("sessions")>> ELSE <<>>
             work == IF ~Accepted(S("result")) THEN build ELSE wait
             end == IF Accepted(S("completion")) THEN <<>> ELSE <<S("expire"), S("completion")>>
  <1>1. /\ Between(setup, 1, 3)
        /\ ToSet(setup) = IF expired \/ CleanupStarted(0) \/ Accepted(S("evidence"))
                             \/ journal[S("logout")] # "none"
                          THEN {} ELSE {S("create"), S("tag"), S("put")}
    <2>1. Between(<<>>, 1, 3) /\ ToSet(<<>>) = {} BY ShortProgram
    <2>2. Between(SetupSteps, 1, 3) /\ ToSet(SetupSteps) = {S("create"), S("tag"), S("put")}
      BY Program3, StepsAre, Ranks DEF SetupSteps
    <2> QED BY <2>1, <2>2
  <1>2. Between(first, 4, 5) /\ ToSet(first) = {S("sessions"), S("assumeRoot")}
    BY Program2, StepsAre, Ranks
  <1>3. Between(TargetSteps, 6, 6)
    <2>1. TargetSteps \in Seq(CeremonySteps)
      BY TargetStepsAre, StepsAre
    <2>2. Ordered(TargetSteps)
      <3>1. \A i \in 1..Len(TargetSteps) : TargetSteps[i] \in ToSet(TargetSteps)
        BY TargetStepsAre
      <3> QED BY <3>1, Ranks DEF Ordered, Precedes
    <2> QED BY <2>1, <2>2, Ranks DEF Between
  <1>4. Between(third, 7, 9) /\ ToSet(third) = {S("assumeWriter"), S("seal"), S("result")}
    BY Program3, StepsAre, Ranks
  <1>5. Between(wait, 4, 4)
        /\ ToSet(wait) = IF expired /\ ~Accepted(S("completion")) THEN {S("sessions")} ELSE {}
    <2>1. Between(<<>>, 4, 4) /\ ToSet(<<>>) = {} BY ShortProgram
    <2>2. Between(<<S("sessions")>>, 4, 4) /\ ToSet(<<S("sessions")>>) = {S("sessions")}
      BY ShortProgram, StepsAre, Ranks
    <2> QED BY <2>1, <2>2
  <1>6. Between(end, 10, 11)
        /\ ToSet(end) = IF Accepted(S("completion")) THEN {} ELSE {S("expire"), S("completion")}
    <2>1. Between(<<>>, 10, 11) /\ ToSet(<<>>) = {} BY ShortProgram
    <2>2. /\ Between(<<S("expire"), S("completion")>>, 10, 11)
          /\ ToSet(<<S("expire"), S("completion")>>) = {S("expire"), S("completion")}
      BY Program2, StepsAre, Ranks
    <2> QED BY <2>1, <2>2
  <1>7. Program(expired) = setup \o work \o end \o CleanupSteps
    <2>1. Program(expired) =
            setup \o (IF ~Accepted(S("result")) THEN first \o TargetSteps \o third ELSE wait)
              \o end \o CleanupSteps
      BY DEF Program
    <2> QED BY <2>1
  <1> HIDE DEF setup, first, third, wait, end
  <1>8. Between(first \o TargetSteps, 4, 6)
        /\ ToSet(first \o TargetSteps) = ToSet(first) \cup ToSet(TargetSteps)
    <2>1. Between(first, 4, 5) BY <1>2
    <2> QED BY <2>1, <1>3, Joined
  <1>9. Between(build, 4, 9) /\ ToSet(build) = ToSet(first \o TargetSteps) \cup ToSet(third)
    BY <1>4, <1>8, Joined
  <1> HIDE DEF build
  <1>10. Between(work, 4, 9)
         /\ ToSet(work) = IF ~Accepted(S("result")) THEN ToSet(build) ELSE ToSet(wait)
    <2>1. Between(wait, 4, 9) BY <1>5 DEF Between
    <2> QED BY <2>1, <1>9
  <1> HIDE DEF work
  <1>11. Between(setup \o work, 1, 9) /\ ToSet(setup \o work) = ToSet(setup) \cup ToSet(work)
    <2>1. Between(setup, 1, 3) BY <1>1
    <2>2. Between(work, 4, 9) BY <1>10
    <2> QED BY ONLY <2>1, <2>2, Joined
  <1>12. /\ Between((setup \o work) \o end, 1, 11)
         /\ ToSet((setup \o work) \o end) = ToSet(setup \o work) \cup ToSet(end)
    <2>1. Between(setup \o work, 1, 9) BY <1>11
    <2>2. Between(end, 10, 11) BY <1>6
    <2> QED BY <2>1, <2>2, Joined
  <1>13. /\ Between(((setup \o work) \o end) \o CleanupSteps, 1, 18)
         /\ ToSet(((setup \o work) \o end) \o CleanupSteps) = ToSet((setup \o work) \o end) \cup ToSet(CleanupSteps)
    <2>1. Between((setup \o work) \o end, 1, 11) BY <1>12
    <2>2. Between(CleanupSteps, 12, 18) BY CleanupIs
    <2> QED BY <2>1, <2>2, Joined
  <1>14. Program(expired) = ((setup \o work) \o end) \o CleanupSteps
    BY <1>7
  <1> QED BY <1>1, <1>2, <1>4, <1>5, <1>6, <1>8, <1>9, <1>10, <1>11, <1>12, <1>13, <1>14

-----------------------------------------------------------------------------
(* Steps that leave the provider and the sessions alone.                     *)

\* The names of the journal.
LEMMA IdsAre ==
  /\ Mutations \subseteq Ids /\ SessionIds \subseteq Ids /\ Receipts \subseteq Ids
  /\ ToSet(TargetSteps) \subseteq Mutations
  /\ S("create") \in Mutations
  /\ {<<"deleteRole", 0>>, <<"deleteRole", 1>>} \subseteq Mutations
  /\ {S("seal"), S("logout"), S("disposition"), S("create")} \subseteq Ids
  /\ Receipts = {S("result"), S("completion"), S("evidence"), <<"evidence", 1>>, S("cleanup")}
  /\ (Mutations \cup Receipts \cup {S("seal"), S("logout"), S("disposition")}) \cap SessionIds = {}
  /\ Receipts \cap Mutations = {}
  /\ {S("seal"), S("logout"), S("disposition"), S("assumeRoot"), S("assumeWriter")} \cap Mutations = {}
  /\ {S("seal"), S("logout"), S("disposition")} \cap Receipts = {}
  <1>1. \A m \in ToSet(TargetSteps) : m[1] \in {"change", "execute", "protect"}
    BY TargetStepsAre
  <1>2. \A m \in Mutations : m[1] \in {"create", "tag", "put", "deletePolicy", "deleteRole",
                                      "change", "execute", "protect"}
    BY <1>1 DEF Mutations, RootMutations, S
  <1>3. \A s \in SessionIds : s[1] \in {"root", "writer"}
    BY DEF SessionIds, Sessions
  <1>4. \A x \in Receipts : x[1] \in {"result", "completion", "evidence", "cleanup"}
    BY DEF Receipts, S
  <1>5. /\ Mutations \subseteq Ids /\ SessionIds \subseteq Ids /\ Receipts \subseteq Ids
        /\ {S("seal"), S("logout"), S("disposition")} \subseteq Ids
    BY DEF Ids
  <1>6. ToSet(TargetSteps) \subseteq Mutations /\ S("create") \in Mutations
        /\ {<<"deleteRole", 0>>, <<"deleteRole", 1>>} \subseteq Mutations
    BY DEF Mutations, RootMutations
  <1>7. /\ S("seal")[1] = "seal" /\ S("logout")[1] = "logout" /\ S("disposition")[1] = "disposition"
        /\ S("assumeRoot")[1] = "assumeRoot" /\ S("assumeWriter")[1] = "assumeWriter"
    BY DEF S
  <1>8. Receipts = {S("result"), S("completion"), S("evidence"), <<"evidence", 1>>, S("cleanup")}
    BY DEF Receipts
  <1>9. Receipts \cap Mutations = {} /\ Receipts \cap SessionIds = {} /\ Mutations \cap SessionIds = {}
    BY <1>2, <1>3, <1>4
  <1>10. {S("seal"), S("logout"), S("disposition"), S("assumeRoot"), S("assumeWriter")} \cap Mutations = {}
    BY <1>2, <1>7
  <1>11. {S("seal"), S("logout"), S("disposition")} \cap SessionIds = {}
         /\ {S("seal"), S("logout"), S("disposition")} \cap Receipts = {}
    BY <1>3, <1>4, <1>7
  <1> QED BY <1>5, <1>6, <1>8, <1>9, <1>10, <1>11

\* The two sessions of a role, the last of which is one of them.
LEMMA SessionsAre ==
  /\ \A s \in SessionIds : s[1] \in {"root", "writer"} /\ s \in Sessions(s[1])
  /\ \A kind \in {"root", "writer"} :
       /\ LastOf(kind) \in SessionIds /\ LastOf(kind)[1] = kind
       /\ Sessions(kind) \subseteq SessionIds
       /\ \A s \in Sessions(kind) : s[1] = kind /\ (s = <<kind, 1>> \/ s = <<kind, 2>>)
  BY DEF SessionIds, Sessions, LastOf

\* The journal only goes forward.
JournalGoesOn ==
  /\ journal' \in [Ids -> {"none", "intent", "started", "accepted"}]
  /\ \A x \in Receipts : journal'[x] # "started"
  /\ \A x \in Ids :
       /\ journal[x] = "accepted" => journal'[x] = "accepted"
       /\ journal[x] = "started" => journal'[x] \in {"started", "accepted"}
       /\ journal[x] = "intent" => journal'[x] # "none"

\* And what it has of the sessions stays.
JournalForward == JournalGoesOn /\ \A s \in SessionIds : journal'[s] = journal[s]

\* A step that leaves the journal's sessions and the provider's alone.
LEMMA SessionsStay ==
  ASSUME CeremonyInv, JournalForward, UNCHANGED <<clock, session, issued>>,
         \A s \in SessionIds : s \in flight' => s \in flight,
         \A s \in SessionIds : Asks(s)' => Asks(s) /\ journal' = journal
  PROVE  /\ SessionsAreKnown' /\ OneActive'
         /\ Quiet' <=> Quiet
         /\ AllAnswered' <=> AllAnswered
         /\ (\A s \in SessionIds : Asks(s)' <=> Asks(s)) =>
              /\ OnlyLast' <=> OnlyLast
              /\ \A kind \in {"root", "writer"} : Free(kind)' <=> Free(kind)
  <1>1. \A s \in SessionIds : Live(s)' <=> Live(s)
    BY DEF Live
  <1>2. \A s \in SessionIds : Active(s)' <=> Active(s)
    BY <1>1 DEF Active, JournalForward
  <1>3. \A kind \in {"root", "writer"} : LastOf(kind)' = LastOf(kind)
    <2>1. \A kind \in {"root", "writer"} : <<kind, 2>> \in SessionIds
      BY DEF SessionIds, Sessions
    <2> QED BY <2>1 DEF LastOf, JournalForward
  <1>4. SessionsAreKnown'
    <2>1. SUFFICES ASSUME NEW s \in SessionIds
                   PROVE  /\ issued'[s] # Never =>
                               issued'[s] <= clock' /\ s \notin flight'
                               /\ journal'[s] \in {"started", "accepted"}
                          /\ s \in flight' => journal'[s] = "started" /\ clock' <= session'[s].at + Lag
                          /\ journal'[s] = "accepted" /\ issued'[s] # Never =>
                               session'[s].until = issued'[s] + Duration
                               /\ session'[s].until <= session'[s].safe
                          /\ Asks(s)' => /\ journal'[s] = "started" /\ issued'[s] = Never
                                         /\ s \notin flight' /\ clock' <= session'[s].at + Lag
                                         /\ s[1] = "writer" => ~Accepted(S("seal"))'
      BY DEF SessionsAreKnown, Never
    <2>2. journal'[s] = journal[s] /\ issued' = issued /\ clock' = clock
          /\ (s \in flight' => s \in flight) /\ session' = session
      BY DEF JournalForward
    <2>3. Asks(s)' => (Accepted(S("seal"))' <=> Accepted(S("seal")))
      BY DEF Accepted
    <2> QED BY <2>2, <2>3 DEF CeremonyInv, SessionsAreKnown
  <1>5. OneActive'
    BY <1>2 DEF CeremonyInv, OneActive
  <1>6. (Quiet' <=> Quiet) /\ (AllAnswered' <=> AllAnswered)
    BY <1>1, <1>2, <1>3, SessionsAre DEF Quiet, AllAnswered, JournalForward
  <1>7. ASSUME \A s \in SessionIds : Asks(s)' <=> Asks(s)
        PROVE  /\ OnlyLast' <=> OnlyLast
               /\ \A kind \in {"root", "writer"} : Free(kind)' <=> Free(kind)
    BY <1>2, <1>3, <1>7, SessionsAre DEF OnlyLast, Free, JournalForward
  <1> QED BY <1>4, <1>5, <1>6, <1>7

\* What a step on the process, on the secrets or on the login changes of the provider.
ProviderStill ==
  /\ cloud' \in {cloud, cloud \cup {S("sealed")}, cloud \ {S("login")}}
  /\ UNCHANGED <<trail, issued, flight, sent>>

\* What is newly accepted is there.
NewIsThere ==
  /\ \A m \in ToSet(TargetSteps) : journal'[m] = "accepted" => Accepted(m) \/ m \in cloud
  /\ journal'[S("seal")] = "accepted" => Accepted(S("seal")) \/ S("sealed") \in cloud'
  /\ journal'[S("logout")] = "accepted" => Accepted(S("logout")) \/ S("login") \notin cloud

\* Only a mutation that was not sent is about to be sent.
SendIsFirst ==
  process'.stage = "send" /\ process'.todo # <<>> /\ Head(process'.todo) \in Mutations =>
    /\ sent'[Head(process'.todo)] = 0
    /\ journal'[Head(process'.todo)] \in {"started", "accepted"}

\* A step that sends nothing and serves nothing leaves the provider as it is.
LEMMA ProviderKept ==
  ASSUME CeremonyInv, JournalGoesOn, NewIsThere, SendIsFirst, clock' >= clock, clock' \in Nat,
         cloud' \in {cloud, cloud \cup {S("sealed")}, cloud \ {S("login")}},
         UNCHANGED <<trail, sent>>,
         \A m \in Mutations : m \in flight' => m \in flight
  PROVE  /\ SentAfterStart' /\ RoleIsMadeOnce' /\ AcceptedIsThere'
         /\ RoleIsGone => RoleIsGone'
  <1>1. /\ S("role") \in cloud' <=> S("role") \in cloud
        /\ S("policy") \in cloud' <=> S("policy") \in cloud
        /\ \A m \in {"change", "execute", "protect"} \X (1..Targets) : m \in cloud' <=> m \in cloud
        /\ S("sealed") \in cloud => S("sealed") \in cloud'
        /\ S("login") \in cloud' => S("login") \in cloud
    BY DEF S
  <1>2. SentAfterStart'
    <2>1. \A m \in Mutations : /\ sent'[m] \in {0, 1}
                               /\ journal'[m] \in {"none", "intent"} => sent'[m] = 0
                               /\ m \in flight' => sent'[m] = 1
      <3>1. SUFFICES ASSUME NEW m \in Mutations
                     PROVE  /\ sent'[m] \in {0, 1}
                            /\ journal'[m] \in {"none", "intent"} => sent'[m] = 0
                            /\ m \in flight' => sent'[m] = 1
        OBVIOUS
      <3>2. m \in Ids BY IdsAre
      <3>3. journal[m] \in {"none", "intent", "started", "accepted"}
        BY <3>2 DEF CeremonyInv, CeremonyTypeOK
      <3>4. journal'[m] \in {"none", "intent"} => journal[m] \in {"none", "intent"}
        BY <3>2, <3>3 DEF JournalGoesOn
      <3> QED BY <3>4 DEF CeremonyInv, SentAfterStart
    <2> QED BY <2>1 DEF SentAfterStart, SendIsFirst, Here
  <1>3. RoleIsMadeOnce'
    BY <1>1, IdsAre DEF CeremonyInv, RoleIsMadeOnce
  <1>4. AcceptedIsThere'
    <2>1. \A t \in 1..Targets : <<"execute", t>> \in cloud' => <<"change", t>> \in cloud'
      BY <1>1 DEF CeremonyInv, AcceptedIsThere
    <2>2. \A m \in ToSet(TargetSteps) : journal'[m] = "accepted" => m \in cloud'
      BY <1>1, TargetStepsAre DEF CeremonyInv, AcceptedIsThere, NewIsThere
    <2>3. journal'[S("seal")] = "accepted" => S("sealed") \in cloud'
      BY <1>1 DEF CeremonyInv, AcceptedIsThere, NewIsThere
    <2>4. journal'[S("logout")] = "accepted" => S("login") \notin cloud'
      BY <1>1 DEF CeremonyInv, AcceptedIsThere, NewIsThere
    <2> QED BY <2>1, <2>2, <2>3, <2>4 DEF AcceptedIsThere, Accepted
  <1>5. RoleIsGone => RoleIsGone'
    <2>1. clock \in Nat /\ NotAfter \in Nat
      BY CeremonyAssumption DEF CeremonyInv, CeremonyTypeOK
    <2> QED BY <1>1, <2>1 DEF RoleIsGone
  <1> QED BY <1>2, <1>3, <1>4, <1>5

\* The same of a step that takes no time and asks for no session.
LEMMA ProviderStays ==
  ASSUME CeremonyInv, JournalForward, ProviderStill, NewIsThere, SendIsFirst, clock' = clock
  PROVE  /\ SentAfterStart' /\ RoleIsMadeOnce' /\ AcceptedIsThere'
         /\ RoleIsGone => RoleIsGone'
  <1>1. clock' \in Nat /\ clock' >= clock
    BY DEF CeremonyInv, CeremonyTypeOK
  <1> QED BY <1>1, ProviderKept DEF ProviderStill, JournalForward

-----------------------------------------------------------------------------
(* What the journal shows stays shown.                                       *)

\* What a step keeps.
Carried ==
  /\ clock' >= clock
  /\ Accepted(S("disposition")) => facts' = facts
  /\ \A x \in Ids : Accepted(x) => journal'[x] = "accepted"
  /\ Quiet /\ (clock >= NotAfter \/ Accepted(S("result"))) => Quiet'
  /\ AllAnswered /\ journal[S("result")] # "none" => AllAnswered'
  /\ RoleIsGone => RoleIsGone'
  /\ clock >= NotAfter /\ sent[S("create")] = 0 => sent'[S("create")] = 0

\* What is true when a receipt, or a disposition, is written.
Claims(x) ==
  /\ x = S("result") =>
       (\A m \in ToSet(TargetSteps) : Accepted(m)) /\ Accepted(S("seal")) /\ AllAnswered'
  /\ x = S("completion") => Accepted(S("result")) /\ Quiet
  /\ x = S("disposition") => Quiet /\ clock >= NotAfter /\ (~facts'.role => sent[S("create")] = 0)
  /\ x = S("evidence") => Accepted(S("completion")) /\ RoleIsGone
  /\ x = <<"evidence", 1>> => Accepted(S("disposition")) /\ RoleIsGone
  /\ x = S("cleanup") =>
       Accepted(S("logout")) /\ (Accepted(S("evidence")) \/ Accepted(<<"evidence", 1>>))

\* The terminal receipt follows its acceptance.
ReceiptIsDue ==
  \/ receipt' = receipt
  \/ /\ journal'[S("cleanup")] = "accepted"
     /\ receipt' = "completed" => journal'[S("result")] = "accepted"

\* An entry that is written when its claim holds is true, and stays true.
LEMMA JournalGains ==
  ASSUME CeremonyInv, Carried, clock' \in Nat, ReceiptIsDue,
         journal[S("disposition")] # "none" => facts' = facts,
         \A x \in Receipts \cup {S("disposition")} :
           journal'[x] # "none" => journal[x] # "none" \/ Claims(x)
  PROVE  JournalIsTrue'
  <1>0. \A x \in Receipts \cup {S("disposition")} : x \in Ids
    BY IdsAre
  <1>1. clock \in Nat /\ NotAfter \in Nat
    BY CeremonyAssumption DEF CeremonyInv, CeremonyTypeOK
  <1>2. journal'[S("result")] # "none" =>
          ToSet(TargetSteps) \cup {S("seal")} \subseteq {x \in Ids : journal'[x] = "accepted"} /\ AllAnswered'
    <2>1. ASSUME journal'[S("result")] # "none"
          PROVE  (\A m \in ToSet(TargetSteps) : Accepted(m)) /\ Accepted(S("seal")) /\ AllAnswered'
      <3>1. CASE journal[S("result")] # "none"
        BY <3>1 DEF CeremonyInv, JournalIsTrue, Carried
      <3>2. CASE Claims(S("result"))
        BY <3>2 DEF Claims
      <3> QED BY <2>1, <3>1, <3>2, IdsAre
    <2> QED BY <2>1, IdsAre DEF Carried
  <1>3. journal'[S("completion")] # "none" => journal'[S("result")] = "accepted" /\ Quiet'
    <2>1. journal'[S("completion")] # "none" => Accepted(S("result")) /\ Quiet
      BY <1>0, IdsAre DEF CeremonyInv, JournalIsTrue, Claims
    <2> QED BY <2>1, <1>0, IdsAre DEF Carried
  <1>4. journal'[S("disposition")] # "none" =>
          Quiet' /\ clock' >= NotAfter /\ (~facts'.role => sent'[S("create")] = 0)
    <2>1. journal'[S("disposition")] # "none" =>
            Quiet /\ clock >= NotAfter /\ (~facts'.role => sent[S("create")] = 0)
      BY DEF CeremonyInv, JournalIsTrue, Claims
    <2> QED BY <2>1, <1>1 DEF Carried
  <1>5. /\ journal'[S("evidence")] # "none" => journal'[S("completion")] = "accepted" /\ RoleIsGone'
        /\ journal'[<<"evidence", 1>>] # "none" => journal'[S("disposition")] = "accepted" /\ RoleIsGone'
    <2>1. journal'[S("evidence")] # "none" => Accepted(S("completion")) /\ RoleIsGone
      BY <1>0, IdsAre DEF CeremonyInv, JournalIsTrue, Claims
    <2>2. journal'[<<"evidence", 1>>] # "none" => Accepted(S("disposition")) /\ RoleIsGone
      BY <1>0, IdsAre DEF CeremonyInv, JournalIsTrue, Claims
    <2> QED BY <2>1, <2>2, <1>0, IdsAre DEF Carried
  <1>6. journal'[S("cleanup")] # "none" =>
          /\ journal'[S("logout")] = "accepted"
          /\ journal'[S("evidence")] = "accepted" \/ journal'[<<"evidence", 1>>] = "accepted"
    <2>1. journal'[S("cleanup")] # "none" =>
            Accepted(S("logout")) /\ (Accepted(S("evidence")) \/ Accepted(<<"evidence", 1>>))
      BY <1>0, IdsAre DEF CeremonyInv, JournalIsTrue, Claims
    <2> QED BY <2>1, <1>0, IdsAre DEF Carried
  <1>7. /\ receipt' # "none" => journal'[S("cleanup")] = "accepted"
        /\ receipt' = "completed" => journal'[S("result")] = "accepted"
    BY <1>0, IdsAre DEF CeremonyInv, JournalIsTrue, Carried, ReceiptIsDue
  <1> QED BY <1>2, <1>3, <1>4, <1>5, <1>6, <1>7 DEF JournalIsTrue, Accepted

\* A step that writes no receipt keeps what the receipts say.
LEMMA JournalStays ==
  ASSUME CeremonyInv, Carried, clock' \in Nat, facts' = facts, ReceiptIsDue,
         \A x \in Receipts \cup {S("disposition")} : journal'[x] # "none" => journal[x] # "none"
  PROVE  JournalIsTrue'
  BY JournalGains

\* What the process goes on with.
GoesOn ==
  /\ process'.expired = process.expired
  /\ OnlyLast => OnlyLast'
  /\ \A kind \in {"root", "writer"} : AssumeStep(kind) \in Ahead' =>
       (Free(kind) => Free(kind)') /\ journal'[S("result")] = journal[S("result")]

\* A process that stays at its step keeps what the rest of the program stands on.
LEMMA PreparedStays ==
  ASSUME CeremonyInv, Carried, GoesOn, process'.todo = process.todo, clock' \in Nat,
         facts' = facts \/ S("disposition") \in Ahead
  PROVE  Prepared'
  <1>1. Ahead' = Ahead
    BY DEF Ahead
  <1>2. clock \in Nat /\ NotAfter \in Nat
    BY CeremonyAssumption DEF CeremonyInv, CeremonyTypeOK
  <1>3. \A x \in Ids : Met(x) => Met(x)'
    BY <1>1 DEF Met, Carried, Accepted
  <1>4. Ordered(process'.todo) /\ (process'.expired => clock' >= NotAfter /\ S("create") \notin Ahead')
    BY <1>1, <1>2 DEF CeremonyInv, Prepared, Carried, GoesOn
  <1>5. \A kind \in {"root", "writer"} : AssumeStep(kind) \in Ahead' =>
          journal'[S("result")] = "none" /\ (S("sessions") \in Ahead' \/ Free(kind)')
    BY <1>1 DEF CeremonyInv, Prepared, GoesOn
  <1>6. S("result") \in Ahead' =>
          /\ \A m \in ToSet(TargetSteps) : Met(m)'
          /\ Met(S("seal"))'
          /\ S("sessions") \in Ahead' \/ OnlyLast'
    BY <1>1, <1>3, IdsAre DEF CeremonyInv, Prepared, GoesOn
  <1>7. S("expire") \in Ahead' => Met(S("result"))'
    BY <1>1, <1>3, IdsAre DEF CeremonyInv, Prepared
  <1>8. S("completion") \in Ahead' =>
          Met(S("result"))' /\ (S("expire") \in Ahead' \/ (Accepted(S("result"))' /\ Quiet'))
    BY <1>1, <1>3, IdsAre DEF CeremonyInv, Prepared, Carried, Accepted
  <1>9. S("disposition") \in Ahead' => process'.expired /\ (S("sessions") \in Ahead' \/ Quiet')
    BY <1>1 DEF CeremonyInv, Prepared, Carried, GoesOn
  <1>10. <<"gone", 1>> \in Ahead' =>
       \/ S("disposition") \in Ahead' /\ <<"deleteRole", 1>> \in Ahead'
       \/ /\ Accepted(S("disposition"))'
          /\ <<"deleteRole", 1>> \in Ahead' \/ (facts'.role => Accepted(<<"deleteRole", 1>>)')
    BY <1>1, IdsAre DEF CeremonyInv, Prepared, Carried, Accepted
  <1>11. /\ S("evidence") \in Ahead' =>
              Met(S("completion"))' /\ (S("gone") \in Ahead' \/ RoleIsGone')
         /\ <<"evidence", 1>> \in Ahead' =>
              Met(S("disposition"))' /\ (<<"gone", 1>> \in Ahead' \/ RoleIsGone')
    BY <1>1, <1>3, IdsAre DEF CeremonyInv, Prepared, Carried
  <1>12. /\ S("logout") \in Ahead' \/ S("cleanup") \in Ahead' =>
              Met(S("evidence"))' \/ Met(<<"evidence", 1>>)'
         /\ S("cleanup") \in Ahead' => Met(S("logout"))'
    BY <1>1, <1>3, IdsAre DEF CeremonyInv, Prepared
  <1> QED BY <1>4, <1>5, <1>6, <1>7, <1>8, <1>9, <1>10, <1>11, <1>12 DEF Prepared

\* What the step that the process leaves behind has done.
Did ==
  /\ Here = S("sessions") => Quiet'
  /\ Here \in ToSet(TargetSteps) \cup Receipts \cup {S("seal"), S("logout"), S("disposition")} =>
       journal'[Here] = "accepted"
  /\ Here = S("expire") => Quiet' /\ journal'[S("result")] = "accepted"
  /\ Here \in {S("gone"), <<"gone", 1>>} => RoleIsGone'
  /\ Here = <<"deleteRole", 1>> => (facts.role => journal'[<<"deleteRole", 1>>] = "accepted")

\* The steps after the first.
LEMMA AheadIs ==
  ASSUME CeremonyInv, process.todo # <<>>
  PROVE  /\ Here \in CeremonySteps /\ Here \in Ahead
         /\ \A x \in Ahead : x = Here \/ Precedes(Here, x)
         /\ process'.todo = Tail(process.todo) =>
              /\ process'.todo \in Seq(CeremonySteps) /\ Ordered(process'.todo)
              /\ Ahead = {Here} \cup Ahead'
              /\ \A x \in Ahead' : Precedes(Here, x)
  <1>1. process.todo \in Seq(CeremonySteps) /\ Ordered(process.todo)
    BY DEF CeremonyInv, CeremonyTypeOK, Prepared
  <1>2. /\ Tail(process.todo) \in Seq(CeremonySteps) /\ Ordered(Tail(process.todo))
        /\ Head(process.todo) \in CeremonySteps
        /\ ToSet(process.todo) = {Head(process.todo)} \cup ToSet(Tail(process.todo))
        /\ \A x \in ToSet(Tail(process.todo)) : Precedes(Head(process.todo), x)
    BY <1>1, Shorter
  <1> QED BY <1>2 DEF Here, Ahead

\* At a step, what precedes it is behind.
LEMMA Behind ==
  ASSUME CeremonyInv, process.todo # <<>>, NEW x \in Ahead, Rank(x) \in Int, Rank(Here) \in Int,
         Rank(Here) # 6 \/ Rank(x) # 6, Rank(x) <= Rank(Here)
  PROVE  x = Here
  BY AheadIs DEF Precedes

\* A process that has done its step has what the rest of the program stands on.
LEMMA PreparedAdvances ==
  ASSUME CeremonyInv, Carried, GoesOn, Did, process.todo # <<>>, clock' \in Nat, facts' = facts,
         process'.todo = Tail(process.todo)
  PROVE  Prepared'
  <1>1. /\ Ahead = {Here} \cup Ahead' /\ Ordered(process'.todo)
        /\ \A x \in Ahead' : Precedes(Here, x)
    BY AheadIs
  <1>2. clock \in Nat /\ NotAfter \in Nat
    BY CeremonyAssumption DEF CeremonyInv, CeremonyTypeOK
  <1>3. \A x \in ToSet(TargetSteps) \cup Receipts \cup {S("seal"), S("logout"), S("disposition")} :
          Met(x) => Met(x)'
    BY <1>1, IdsAre DEF Met, Carried, Accepted, Did
  <1>4. Ordered(process'.todo) /\ (process'.expired => clock' >= NotAfter /\ S("create") \notin Ahead')
    BY <1>1, <1>2 DEF CeremonyInv, Prepared, Carried, GoesOn
  <1>5. Quiet' => OnlyLast' /\ \A kind \in {"root", "writer"} : Free(kind)'
    BY DEF Quiet, OnlyLast, Free
  <1>6. \A kind \in {"root", "writer"} : AssumeStep(kind) \in Ahead' =>
          journal'[S("result")] = "none" /\ (S("sessions") \in Ahead' \/ Free(kind)')
    BY <1>1, <1>5 DEF CeremonyInv, Prepared, GoesOn, Did
  <1>7. S("result") \in Ahead' =>
          /\ \A m \in ToSet(TargetSteps) : Met(m)'
          /\ Met(S("seal"))'
          /\ S("sessions") \in Ahead' \/ OnlyLast'
    BY <1>1, <1>3, <1>5 DEF CeremonyInv, Prepared, GoesOn, Did
  <1>8. S("expire") \in Ahead' => Met(S("result"))'
    BY <1>1, <1>3, IdsAre DEF CeremonyInv, Prepared
  <1>9. S("completion") \in Ahead' =>
          Met(S("result"))' /\ (S("expire") \in Ahead' \/ (Accepted(S("result"))' /\ Quiet'))
    BY <1>1, <1>3, IdsAre DEF CeremonyInv, Prepared, Carried, Accepted, Did
  <1>10. S("disposition") \in Ahead' => process'.expired /\ (S("sessions") \in Ahead' \/ Quiet')
    BY <1>1 DEF CeremonyInv, Prepared, Carried, GoesOn, Did
  <1>11. <<"gone", 1>> \in Ahead' =>
       \/ S("disposition") \in Ahead' /\ <<"deleteRole", 1>> \in Ahead'
       \/ /\ Accepted(S("disposition"))'
          /\ <<"deleteRole", 1>> \in Ahead' \/ (facts'.role => Accepted(<<"deleteRole", 1>>)')
    <2>1. SUFFICES ASSUME <<"gone", 1>> \in Ahead'
                   PROVE  \/ S("disposition") \in Ahead' /\ <<"deleteRole", 1>> \in Ahead'
                          \/ /\ Accepted(S("disposition"))'
                             /\ \/ <<"deleteRole", 1>> \in Ahead'
                                \/ facts'.role => Accepted(<<"deleteRole", 1>>)'
      OBVIOUS
    <2>2. \/ S("disposition") \in Ahead /\ <<"deleteRole", 1>> \in Ahead
          \/ /\ Accepted(S("disposition"))
             /\ <<"deleteRole", 1>> \in Ahead \/ (facts.role => Accepted(<<"deleteRole", 1>>))
      BY <2>1, <1>1 DEF CeremonyInv, Prepared
    <2>3. Rank(S("disposition")) = 12 /\ Rank(<<"deleteRole", 1>>) = 14
      BY Ranks
    <2>4. ASSUME S("disposition") \in Ahead, <<"deleteRole", 1>> \in Ahead, Here # S("disposition")
          PROVE  Here # <<"deleteRole", 1>>
      BY <2>4, <2>3, <1>1 DEF Precedes
    <2>5. S("disposition") # <<"deleteRole", 1>>
      BY <2>3
    <2>6. ASSUME S("disposition") \in Ahead, <<"deleteRole", 1>> \in Ahead
          PROVE  \/ S("disposition") \in Ahead' /\ <<"deleteRole", 1>> \in Ahead'
                 \/ /\ Accepted(S("disposition"))'
                    /\ <<"deleteRole", 1>> \in Ahead'
      BY <2>4, <2>5, <2>6, <1>1 DEF Did, Accepted
    <2>7. ASSUME Accepted(S("disposition")),
                 <<"deleteRole", 1>> \in Ahead \/ (facts.role => Accepted(<<"deleteRole", 1>>))
          PROVE  /\ Accepted(S("disposition"))'
                 /\ <<"deleteRole", 1>> \in Ahead' \/ (facts'.role => Accepted(<<"deleteRole", 1>>)')
      BY <2>7, <1>1, IdsAre DEF Did, Accepted, Carried
    <2> QED BY <2>2, <2>6, <2>7
  <1>12. /\ S("evidence") \in Ahead' =>
              Met(S("completion"))' /\ (S("gone") \in Ahead' \/ RoleIsGone')
         /\ <<"evidence", 1>> \in Ahead' =>
              Met(S("disposition"))' /\ (<<"gone", 1>> \in Ahead' \/ RoleIsGone')
    BY <1>1, <1>3, IdsAre DEF CeremonyInv, Prepared, Carried, Did
  <1>13. /\ S("logout") \in Ahead' \/ S("cleanup") \in Ahead' =>
              Met(S("evidence"))' \/ Met(<<"evidence", 1>>)'
         /\ S("cleanup") \in Ahead' => Met(S("logout"))'
    BY <1>1, <1>3, IdsAre DEF CeremonyInv, Prepared
  <1> QED BY <1>4, <1>6, <1>7, <1>8, <1>9, <1>10, <1>11, <1>12, <1>13 DEF Prepared

\* Without a process nothing is before it.
LEMMA NothingAhead ==
  process = NoRun => Prepared /\ \A s \in SessionIds : ~Asks(s)
  <1>1. SUFFICES ASSUME process = NoRun PROVE Prepared /\ \A s \in SessionIds : ~Asks(s)
    OBVIOUS
  <1>2. process.todo = <<>> /\ ~process.expired /\ process.stage = "none"
    BY <1>1 DEF NoRun
  <1>3. Ahead = {} /\ Ordered(process.todo)
    BY <1>2, ShortProgram DEF Ahead, Ordered
  <1> QED BY <1>2, <1>3 DEF Prepared, Asks

-----------------------------------------------------------------------------
(* The steps that neither the provider nor a session is part of.             *)

\* The types after a step on the journal and on the process.
LEMMA TypesStay ==
  ASSUME CeremonyInv, JournalForward, UNCHANGED <<clock, session, issued, sent>>,
         process' \in [todo : Seq(CeremonySteps),
                       stage : {"none", "open", "inspect", "send", "after"}, expired : BOOLEAN]
  PROVE  CeremonyTypeOK'
  BY DEF CeremonyInv, CeremonyTypeOK, JournalForward, JournalGoesOn

\* The process ends: an error, a death, the terminal receipt.
LEMMA Ends ==
  ASSUME CeremonyInv, process' = NoRun, JournalForward, ProviderStill, NewIsThere,
         UNCHANGED <<clock, session, facts>>, ReceiptIsDue,
         \A x \in Receipts \cup {S("disposition")} : journal'[x] # "none" => journal[x] # "none"
  PROVE  CeremonyInv'
  <1>1. Prepared' /\ \A s \in SessionIds : ~Asks(s)'
    <2>1. (process = NoRun => Prepared /\ \A s \in SessionIds : ~Asks(s))'
      BY NothingAhead, PTL
    <2> QED BY <2>1
  <1>2. SendIsFirst
    BY DEF SendIsFirst, NoRun
  <1>3. /\ SentAfterStart' /\ RoleIsMadeOnce' /\ AcceptedIsThere'
        /\ RoleIsGone => RoleIsGone'
    BY <1>2, ProviderStays
  <1>4. SessionsAreKnown' /\ OneActive' /\ (Quiet' <=> Quiet) /\ (AllAnswered' <=> AllAnswered)
    BY <1>1, SessionsStay DEF ProviderStill
  <1>5. clock \in Nat /\ clock' \in Nat /\ clock' >= clock
    BY DEF CeremonyInv, CeremonyTypeOK
  <1>6. Carried
    BY <1>3, <1>4, <1>5 DEF Carried, JournalForward, JournalGoesOn, Accepted, ProviderStill
  <1>7. JournalIsTrue'
    BY <1>5, <1>6, JournalStays
  <1>8. process' \in [todo : Seq(CeremonySteps),
                      stage : {"none", "open", "inspect", "send", "after"}, expired : BOOLEAN]
    BY DEF NoRun
  <1>9. CeremonyTypeOK'
    BY <1>8, TypesStay DEF ProviderStill
  <1> QED BY <1>1, <1>3, <1>4, <1>7, <1>9 DEF CeremonyInv

\* A step that starts or confirms something, and no receipt, keeps what it must.
LEMMA StepCarries ==
  ASSUME CeremonyInv, JournalForward, ProviderStill, NewIsThere, SendIsFirst,
         UNCHANGED <<clock, session>>,
         Accepted(S("disposition")) => facts' = facts,
         journal'[S("result")] = journal[S("result")] \/ Here = S("result"),
         process.todo # <<>>, process'.expired = process.expired,
         process'.todo \in {process.todo, Tail(process.todo)},
         Here \notin {S("assumeRoot"), S("assumeWriter")},
         process'.todo = process.todo \/ process'.stage = "inspect"
  PROVE  /\ SentAfterStart' /\ RoleIsMadeOnce' /\ AcceptedIsThere'
         /\ SessionsAreKnown' /\ OneActive'
         /\ Quiet' <=> Quiet
         /\ AllAnswered' <=> AllAnswered
         /\ Carried /\ GoesOn /\ clock' \in Nat
  <1>1. \A s \in SessionIds : ~Asks(s) /\ ~Asks(s)'
    BY DEF Asks, Here, AssumeStep
  <1>2. /\ SentAfterStart' /\ RoleIsMadeOnce' /\ AcceptedIsThere'
        /\ RoleIsGone => RoleIsGone'
    BY ProviderStays
  <1>3. /\ SessionsAreKnown' /\ OneActive' /\ (Quiet' <=> Quiet) /\ (AllAnswered' <=> AllAnswered)
        /\ OnlyLast' <=> OnlyLast
        /\ \A kind \in {"root", "writer"} : Free(kind)' <=> Free(kind)
    BY <1>1, SessionsStay DEF ProviderStill
  <1>4. clock \in Nat /\ clock' \in Nat /\ clock' >= clock
    BY DEF CeremonyInv, CeremonyTypeOK
  <1>5. Carried
    BY <1>2, <1>3, <1>4 DEF Carried, JournalForward, JournalGoesOn, Accepted, ProviderStill
  <1>6. ASSUME NEW kind \in {"root", "writer"}, AssumeStep(kind) \in Ahead', Here = S("result")
        PROVE  FALSE
    <2>1. AssumeStep(kind) \in Ahead
      <3>1. CASE process'.todo = process.todo BY <3>1, <1>6 DEF Ahead
      <3>2. CASE process'.todo = Tail(process.todo) BY <3>2, <1>6, AheadIs
      <3> QED BY <3>1, <3>2
    <2>2. Rank(AssumeStep(kind)) \in {5, 7} /\ Rank(Here) = 9
      BY <1>6, Ranks DEF AssumeStep
    <2>3. AssumeStep(kind) = Here
      BY <2>1, <2>2, Behind
    <2> QED BY <2>2, <2>3
  <1>7. GoesOn
    BY <1>3, <1>6 DEF GoesOn
  <1> QED BY <1>2, <1>3, <1>4, <1>5, <1>7

\* The process goes on with the step it is at.
LEMMA StaysAt ==
  ASSUME CeremonyInv, JournalForward, ProviderStill, NewIsThere, SendIsFirst,
         UNCHANGED <<clock, session, facts, receipt>>,
         journal'[S("result")] = journal[S("result")] \/ Here = S("result"),
         \A x \in Receipts \cup {S("disposition")} : journal'[x] # "none" => journal[x] # "none",
         process.todo # <<>>, Here \notin {S("assumeRoot"), S("assumeWriter")},
         process' = process \/ \E stage \in {"inspect", "send", "after"} : Pause(stage)
  PROVE  CeremonyInv'
  <1>1. /\ process'.todo = process.todo /\ process'.expired = process.expired
        /\ process' \in [todo : Seq(CeremonySteps),
                         stage : {"none", "open", "inspect", "send", "after"}, expired : BOOLEAN]
    BY DEF CeremonyInv, CeremonyTypeOK, Pause
  <1>2. /\ SentAfterStart' /\ RoleIsMadeOnce' /\ AcceptedIsThere'
        /\ SessionsAreKnown' /\ OneActive'
        /\ Carried /\ GoesOn /\ clock' \in Nat
    BY <1>1, StepCarries
  <1>3. JournalIsTrue'
    BY <1>2, JournalStays DEF ReceiptIsDue
  <1>4. Prepared'
    BY <1>1, <1>2, PreparedStays
  <1>5. CeremonyTypeOK'
    BY <1>1, TypesStay DEF ProviderStill
  <1> QED BY <1>2, <1>3, <1>4, <1>5 DEF CeremonyInv

\* The process leaves a step behind.
LEMMA GoesTo ==
  ASSUME CeremonyInv, JournalForward, ProviderStill, NewIsThere, Advance,
         UNCHANGED <<clock, session, facts, receipt>>,
         journal'[S("result")] = journal[S("result")] \/ Here = S("result"),
         \A x \in Receipts \cup {S("disposition")} : journal'[x] # "none" => journal[x] # "none",
         process.todo # <<>>, Here \notin {S("assumeRoot"), S("assumeWriter")},
         Carried => Did
  PROVE  CeremonyInv'
  <1>1. /\ process'.todo = Tail(process.todo) /\ process'.expired = process.expired
        /\ process'.stage = "inspect"
        /\ process' \in [todo : Seq(CeremonySteps),
                         stage : {"none", "open", "inspect", "send", "after"}, expired : BOOLEAN]
    BY AheadIs DEF CeremonyInv, CeremonyTypeOK, Advance
  <1>2. SendIsFirst
    BY <1>1 DEF SendIsFirst
  <1>3. /\ SentAfterStart' /\ RoleIsMadeOnce' /\ AcceptedIsThere'
        /\ SessionsAreKnown' /\ OneActive'
        /\ Carried /\ GoesOn /\ clock' \in Nat
    BY <1>1, <1>2, StepCarries
  <1>4. JournalIsTrue'
    BY <1>3, JournalStays DEF ReceiptIsDue
  <1>5. Prepared'
    BY <1>1, <1>3, PreparedAdvances
  <1>6. CeremonyTypeOK'
    BY <1>1, TypesStay DEF ProviderStill
  <1> QED BY <1>3, <1>4, <1>5, <1>6 DEF CeremonyInv

\* A step that writes nothing, and one that writes the state of one step.
LEMMA Unwritten ==
  ASSUME CeremonyInv, journal' = journal
  PROVE  /\ JournalForward /\ NewIsThere
         /\ \A x \in Receipts \cup {S("disposition")} : journal'[x] # "none" => journal[x] # "none"
  BY DEF CeremonyInv, CeremonyTypeOK, JournalForward, JournalGoesOn, NewIsThere, Accepted

\* An entry of the journal is written, and only that one.
LEMMA Written ==
  ASSUME CeremonyInv, NEW x \in Ids, NEW v \in {"none", "intent", "started", "accepted"},
         x \notin SessionIds, Record(x, v),
         journal[x] = "accepted" => v = "accepted",
         journal[x] = "started" => v \in {"started", "accepted"},
         journal[x] = "intent" => v # "none",
         x \in Receipts => v # "started"
  PROVE  /\ JournalForward /\ journal'[x] = v
         /\ \A y \in Ids : y # x => journal'[y] = journal[y]
  BY DEF CeremonyInv, CeremonyTypeOK, JournalForward, JournalGoesOn, Record

\* The steps that wait are no entries of the journal.
LEMMA WaitsAre ==
  /\ Waits \cap (Mutations \cup Receipts \cup {S("seal"), S("logout"), S("disposition")}) = {}
  /\ \A x \in CeremonySteps :
       /\ \A kind \in {"sessions", "assumeRoot", "assumeWriter", "expire", "events", "seal",
                       "logout", "disposition"} : x[1] = kind => x = S(kind)
       /\ x[1] = "gone" => x \in {S("gone"), <<"gone", 1>>}
  <1>1. \A m \in ToSet(TargetSteps) : m[1] \in {"change", "execute", "protect"}
    BY TargetStepsAre
  <1>2. \A m \in Mutations : m[1] \in {"create", "tag", "put", "deletePolicy", "deleteRole",
                                      "change", "execute", "protect"}
    BY <1>1 DEF Mutations, RootMutations, S
  <1>3. \A x \in Receipts : x[1] \in {"result", "completion", "evidence", "cleanup"}
    BY DEF Receipts, S
  <1>4. \A x \in Waits : x[1] \in {"sessions", "assumeRoot", "assumeWriter", "expire", "events", "gone"}
    BY DEF Waits, S
  <1>5. \A x \in Waits : /\ \A kind \in {"sessions", "assumeRoot", "assumeWriter", "expire", "events"} :
                              x[1] = kind => x = S(kind)
                         /\ x[1] = "gone" => x \in {S("gone"), <<"gone", 1>>}
    BY DEF Waits, S
  <1>6. \A kind \in {"seal", "logout", "disposition", "NEW", "RECONCILE_ONLY"} : S(kind)[1] = kind
    BY DEF S
  <1>7. Waits \cap (Mutations \cup Receipts \cup {S("seal"), S("logout"), S("disposition")}) = {}
    BY <1>2, <1>3, <1>4, <1>6
  <1>8. ASSUME NEW x \in CeremonySteps
        PROVE  /\ \A kind \in {"sessions", "assumeRoot", "assumeWriter", "expire", "events", "seal",
                               "logout", "disposition"} : x[1] = kind => x = S(kind)
               /\ x[1] = "gone" => x \in {S("gone"), <<"gone", 1>>}
    <2>1. CASE x \in Mutations BY <2>1, <1>2
    <2>2. CASE x \in Receipts BY <2>2, <1>3
    <2>3. CASE x \in Waits BY <2>3, <1>4, <1>5
    <2>4. CASE x \in {S("seal"), S("logout"), S("disposition"), S("NEW"), S("RECONCILE_ONLY")}
      BY <2>4, <1>6
    <2> QED BY <2>1, <2>2, <2>3, <2>4 DEF CeremonySteps
  <1> QED BY <1>7, <1>8

\* The process is at the step it is doing.
LEMMA DoingIs ==
  ASSUME CeremonyInv, NEW kind, Doing(kind)
  PROVE  /\ process.todo # <<>> /\ process.stage # "open"
         /\ kind \in {"sessions", "assumeRoot", "assumeWriter", "expire", "events", "seal",
                      "logout", "disposition"} => Here = S(kind)
         /\ kind = "gone" => Here \in {S("gone"), <<"gone", 1>>}
  BY AheadIs, WaitsAre DEF Doing, Here

\* An error ends the process.
LEMMA Rejects ==
  ASSUME CeremonyInv, process' = NoRun, ProviderStill, UNCHANGED <<clock, durable>>
  PROVE  CeremonyInv'
  <1>1. /\ JournalForward /\ NewIsThere
        /\ \A x \in Receipts \cup {S("disposition")} : journal'[x] # "none" => journal[x] # "none"
    BY Unwritten DEF durable
  <1> QED BY <1>1, Ends DEF durable, ReceiptIsDue

\* The process leaves a step that is no entry of the journal, or is there already.
LEMMA Leaves ==
  ASSUME CeremonyInv, Advance, ProviderStill, UNCHANGED <<clock, durable>>,
         process.todo # <<>>, Here \notin {S("assumeRoot"), S("assumeWriter")}, Did
  PROVE  CeremonyInv'
  <1>1. /\ JournalForward /\ NewIsThere
        /\ \A x \in Receipts \cup {S("disposition")} : journal'[x] # "none" => journal[x] # "none"
    BY Unwritten DEF durable
  <1> QED BY <1>1, GoesTo DEF durable

\* The provider does not change at all.
LEMMA NothingMoves == UNCHANGED providerVars => ProviderStill
  BY DEF providerVars, ProviderStill

\* The same process does not send a mutation again.
LEMMA SameProcess ==
  ASSUME CeremonyInv, JournalForward, sent' = sent, process' = process \/ process'.stage # "send"
  PROVE  SendIsFirst
  BY IdsAre DEF CeremonyInv, SentAfterStart, SendIsFirst, Here, JournalForward, JournalGoesOn

-----------------------------------------------------------------------------
(* One action after the other: the lock, the mutations.                      *)

\* O_EXCL on the lock file: a process, and nothing before it but the opening.
LEMMA DoTakeLock ==
  ASSUME CeremonyInv, NEW mode \in {"NEW", "RECONCILE_ONLY"}, TakeLock(mode)
  PROVE  CeremonyInv'
  <1>1. /\ process' = [todo |-> <<S(mode)>>, stage |-> "open", expired |-> FALSE]
        /\ UNCHANGED <<clock, durable>> /\ ProviderStill
    BY NothingMoves DEF TakeLock
  <1>2. /\ process'.todo = <<S(mode)>> /\ process'.stage = "open" /\ ~process'.expired
        /\ process' \in [todo : Seq(CeremonySteps),
                         stage : {"none", "open", "inspect", "send", "after"}, expired : BOOLEAN]
    BY <1>1, StepsAre
  <1>3. /\ JournalForward /\ NewIsThere
        /\ \A x \in Receipts \cup {S("disposition")} : journal'[x] # "none" => journal[x] # "none"
    BY <1>1, Unwritten DEF durable
  <1>4. /\ SentAfterStart' /\ RoleIsMadeOnce' /\ AcceptedIsThere'
        /\ RoleIsGone => RoleIsGone'
    BY <1>1, <1>2, <1>3, ProviderStays DEF SendIsFirst
  <1>5. \A s \in SessionIds : ~Asks(s)'
    BY <1>2 DEF Asks
  <1>6. SessionsAreKnown' /\ OneActive' /\ (Quiet' <=> Quiet) /\ (AllAnswered' <=> AllAnswered)
    BY <1>1, <1>3, <1>5, SessionsStay DEF ProviderStill, durable
  <1>7. clock \in Nat /\ clock' \in Nat /\ clock' >= clock
    BY <1>1 DEF CeremonyInv, CeremonyTypeOK
  <1>8. Carried
    BY <1>1, <1>3, <1>4, <1>6, <1>7 DEF Carried, JournalForward, JournalGoesOn, Accepted, ProviderStill, durable
  <1>9. JournalIsTrue'
    BY <1>1, <1>3, <1>7, <1>8, JournalStays DEF durable, ReceiptIsDue
  <1>10. CeremonyTypeOK'
    BY <1>1, <1>2, <1>3, TypesStay DEF ProviderStill, durable
  <1>11. Ahead' = {S(mode)} /\ Ordered(process'.todo)
    <2>1. S(mode) \in CeremonySteps /\ Rank(S(mode)) = 0 BY StepsAre, Ranks
    <2>2. Between(<<S(mode)>>, 0, 0) /\ ToSet(<<S(mode)>>) = {S(mode)} BY <2>1, ShortProgram
    <2> QED BY <1>2, <2>2 DEF Ahead, Between
  <1>12. Prepared'
    <2>1. \A x \in Ahead' : x[1] \in {"NEW", "RECONCILE_ONLY"}
      BY <1>11 DEF S
    <2> QED BY <1>2, <1>11, <2>1 DEF Prepared, AssumeStep, S
  <1> QED BY <1>4, <1>6, <1>9, <1>10, <1>12 DEF CeremonyInv

\* A process that dies leaves its lock file.
LEMMA DoCrash ==
  ASSUME CeremonyInv, Crash
  PROVE  CeremonyInv'
  BY Rejects, NothingMoves DEF Crash

\* The audited removal of a lock, or no step at all.
LEMMA DoRecoverStaleLock ==
  ASSUME CeremonyInv, RecoverStaleLock \/ UNCHANGED ceremonyVars
  PROVE  CeremonyInv'
  <1>1. UNCHANGED <<clock, journal, session, facts, process, receipt, cloud, trail, issued, flight, sent>>
    BY DEF RecoverStaleLock, durable, providerVars, ceremonyVars
  <1> USE <1>1
  <1>2. CeremonyTypeOK'
    BY DEF CeremonyInv, CeremonyTypeOK
  <1>3. SentAfterStart' /\ RoleIsMadeOnce' /\ AcceptedIsThere' /\ (RoleIsGone' <=> RoleIsGone)
    BY DEF CeremonyInv, SentAfterStart, RoleIsMadeOnce, AcceptedIsThere, RoleIsGone, Accepted, Here
  <1>4. /\ \A s \in SessionIds : (Active(s)' <=> Active(s)) /\ (Live(s)' <=> Live(s)) /\ (Asks(s)' <=> Asks(s))
        /\ \A kind \in {"root", "writer"} : LastOf(kind)' = LastOf(kind)
    BY DEF Active, Live, Asks, LastOf, Here
  <1>5. SessionsAreKnown' /\ OneActive'
    <2>1. Accepted(S("seal"))' <=> Accepted(S("seal"))
      BY DEF Accepted
    <2> QED BY <1>4, <2>1 DEF CeremonyInv, SessionsAreKnown, OneActive
  <1>6. /\ Quiet' <=> Quiet
        /\ AllAnswered' <=> AllAnswered
        /\ OnlyLast' <=> OnlyLast
        /\ \A kind \in {"root", "writer"} : Free(kind)' <=> Free(kind)
    BY <1>4, SessionsAre DEF Quiet, AllAnswered, OnlyLast, Free
  <1>7. JournalIsTrue'
    BY <1>3, <1>6 DEF CeremonyInv, JournalIsTrue, Accepted
  <1>8. Prepared'
    BY <1>3, <1>6 DEF CeremonyInv, Prepared, Ahead, Met, Accepted
  <1> QED BY <1>2, <1>3, <1>5, <1>7, <1>8 DEF CeremonyInv

\* What shows as done of a target is done.
LEMMA MatchIsThere ==
  ASSUME CeremonyInv, NEW m \in ToSet(TargetSteps), "MATCH" \in Truth(m)
  PROVE  m \in cloud
  <1>1. PICK t \in 1..Targets : m = <<"change", t>> \/ m = <<"execute", t>> \/ m = <<"protect", t>>
    BY TargetStepsAre
  <1>2. <<"execute", t>> \in cloud => <<"change", t>> \in cloud
    BY DEF CeremonyInv, AcceptedIsThere
  <1>3. CASE m = <<"change", t>>
    BY <1>2, <1>3 DEF Truth
  <1>4. CASE m = <<"execute", t>> \/ m = <<"protect", t>>
    BY <1>4 DEF Truth
  <1> QED BY <1>1, <1>3, <1>4

\* A mutation left behind is accepted.
LEMMA DidMutation ==
  ASSUME Here \in Mutations, journal'[Here] = "accepted"
  PROVE  Did
  <1>1. Here \notin Waits
    BY WaitsAre
  <1> QED BY <1>1 DEF Did, Waits

\* A mutation is written, and the process stays at it or leaves it.
LEMMA WritesMutation ==
  ASSUME CeremonyInv, Mutating, NEW v \in {"intent", "started", "accepted"}, Record(Here, v),
         ProviderStill, UNCHANGED <<clock, session, facts, receipt>>,
         journal[Here] = "accepted" => v = "accepted",
         journal[Here] = "started" => v \in {"started", "accepted"},
         v = "accepted" => "MATCH" \in Truth(Here) /\ Advance,
         v = "started" => sent[Here] = 0 /\ Pause("send"),
         v = "intent" => process' = process
  PROVE  CeremonyInv'
  <1>1. /\ process.todo # <<>> /\ Here \in Mutations /\ Here \in Ids /\ Here \notin SessionIds
        /\ Here \notin {S("assumeRoot"), S("assumeWriter"), S("seal"), S("logout"), S("disposition")}
        /\ Here \notin Receipts
    BY IdsAre DEF Mutating
  <1>2. /\ JournalForward /\ journal'[Here] = v
        /\ \A y \in Ids : y # Here => journal'[y] = journal[y]
    BY <1>1, Written
  <1>3. \A x \in Receipts \cup {S("disposition")} : journal'[x] # "none" => journal[x] # "none"
    BY <1>1, <1>2, IdsAre
  <1>4. journal'[S("result")] = journal[S("result")]
    BY <1>1, <1>2, IdsAre
  <1>5. NewIsThere
    <2>1. \A m \in ToSet(TargetSteps) : journal'[m] = "accepted" => Accepted(m) \/ m \in cloud
      BY <1>2, IdsAre, MatchIsThere DEF Accepted
    <2> QED BY <2>1, <1>1, <1>2, IdsAre DEF NewIsThere, Accepted
  <1>6. CASE v = "accepted"
    <2>1. Did
      BY <1>1, <1>2, <1>6, DidMutation
    <2> QED BY <2>1, <1>1, <1>2, <1>3, <1>4, <1>5, <1>6, GoesTo
  <1>7. CASE v = "started"
    <2>1. /\ process'.todo = process.todo
          /\ sent' = sent
      BY <1>7 DEF Pause, ProviderStill, CeremonyInv, CeremonyTypeOK
    <2>2. SendIsFirst
      BY <2>1, <1>2, <1>7 DEF SendIsFirst, Here
    <2>3. \E stage \in {"inspect", "send", "after"} : Pause(stage)
      BY <1>7
    <2> QED BY <2>2, <2>3, <1>1, <1>2, <1>3, <1>4, <1>5, StaysAt
  <1>8. CASE v = "intent"
    <2>1. SendIsFirst
      BY <1>2, <1>8, SameProcess DEF ProviderStill
    <2> QED BY <2>1, <1>1, <1>2, <1>3, <1>4, <1>5, <1>8, StaysAt
  <1> QED BY <1>6, <1>7, <1>8

\* The intent of a mutation, before anything is looked at.
LEMMA DoRecordIntent ==
  ASSUME CeremonyInv, RecordIntent
  PROVE  CeremonyInv'
  BY WritesMutation, NothingMoves DEF RecordIntent

\* A deletion that an abandoned execution has no object for.
LEMMA DoSkipMutation ==
  ASSUME CeremonyInv, SkipMutation
  PROVE  CeremonyInv'
  <1>1. /\ process.todo # <<>> /\ Here \in Mutations /\ Advance /\ UNCHANGED <<clock, durable>>
        /\ ~Applies(Here) /\ ProviderStill
    BY NothingMoves DEF SkipMutation, Mutating
  <1>2. /\ Here[1] \in {"deletePolicy", "deleteRole"} /\ Here[2] = 1
        /\ Here[1] = "deleteRole" => ~facts.role
    BY <1>1 DEF Applies
  <1>3. Here \notin ToSet(TargetSteps)
    BY <1>2, TargetStepsAre
  <1>4. Here \notin Waits /\ Here \notin Receipts
        /\ Here \notin {S("seal"), S("logout"), S("disposition")}
        /\ Here \notin {S("assumeRoot"), S("assumeWriter")}
    BY <1>1, WaitsAre, IdsAre
  <1>5. Did
    BY <1>2, <1>3, <1>4 DEF Did, Waits
  <1> QED BY <1>1, <1>4, <1>5, Leaves

\* The read before the dispatch: accepted, started, or an error.
LEMMA DoInspectBefore ==
  ASSUME CeremonyInv, InspectBefore
  PROVE  CeremonyInv'
  <1>1. /\ Mutating /\ journal[Here] # "none"
        /\ ProviderStill /\ UNCHANGED <<clock, exists, session, facts, receipt>>
    BY NothingMoves DEF InspectBefore
  <1>2. PICK seen \in Truth(Here) \cup Stale(Here) :
          CASE ~Credentials(Here) -> Reject /\ UNCHANGED journal
            [] Credentials(Here) /\ seen = "MATCH" ->
                 Record(Here, "accepted") /\ Advance /\ UNCHANGED lock
            [] Credentials(Here) /\ seen = "ABSENT" /\ NotYetSent(Here) ->
                 Record(Here, "started") /\ Pause("send") /\ UNCHANGED lock
            [] OTHER -> Reject /\ UNCHANGED journal
    BY DEF InspectBefore
  <1>3. \/ Reject /\ UNCHANGED journal
        \/ seen = "MATCH" /\ Record(Here, "accepted") /\ Advance
        \/ NotYetSent(Here) /\ Record(Here, "started") /\ Pause("send")
    BY <1>2
  <1>4. CASE Reject /\ UNCHANGED journal
    BY <1>1, <1>4, Rejects DEF Reject, durable
  <1>5. CASE seen = "MATCH" /\ Record(Here, "accepted") /\ Advance
    <2>1. "MATCH" \in Truth(Here)
      BY <1>5 DEF Stale
    <2> QED BY <1>1, <1>5, <2>1, WritesMutation
  <1>6. CASE NotYetSent(Here) /\ Record(Here, "started") /\ Pause("send")
    <2>1. sent[Here] = 0 /\ journal[Here] = "intent"
      BY <1>1, <1>6 DEF NotYetSent, CeremonyInv, SentAfterStart, Mutating
    <2> QED BY <1>1, <1>6, <2>1, WritesMutation
  <1> QED BY <1>3, <1>4, <1>5, <1>6

\* The read after the dispatch: accepted, or an error.
LEMMA DoInspectAfter ==
  ASSUME CeremonyInv, InspectAfter
  PROVE  CeremonyInv'
  <1>1. /\ Mutating /\ ProviderStill /\ UNCHANGED <<clock, exists, session, facts, receipt>>
    BY NothingMoves DEF InspectAfter
  <1>2. PICK seen \in Truth(Here) \cup Stale(Here) :
          IF seen = "MATCH" /\ Credentials(Here)
          THEN Record(Here, "accepted") /\ Advance /\ UNCHANGED lock
          ELSE Reject /\ UNCHANGED journal
    BY DEF InspectAfter
  <1>3. CASE Reject /\ UNCHANGED journal
    BY <1>1, <1>3, Rejects DEF Reject, durable
  <1>4. CASE seen = "MATCH" /\ Record(Here, "accepted") /\ Advance
    <2>1. "MATCH" \in Truth(Here)
      BY <1>4 DEF Stale
    <2> QED BY <1>1, <1>4, <2>1, WritesMutation
  <1> QED BY <1>2, <1>3, <1>4

-----------------------------------------------------------------------------
(* Requests that are sent, arrive and are lost.                              *)

\* What a mutation that the provider accepts makes of it.
LEMMA Arriving ==
  ASSUME CeremonyInv, NEW m \in Mutations, Legal(m), cloud' = Effect(m),
         trail' = trail \cup ({m} \cap RootMutations),
         m = S("create") => S("create") \notin trail
  PROVE  /\ S("create") \in trail' <=> S("create") \in trail \/ m = S("create")
         /\ S("role") \in cloud' => S("create") \in trail'
         /\ S("policy") \in cloud' => S("role") \in cloud'
         /\ \A n \in {0, 1} :
              <<"deleteRole", n>> \in trail' => S("create") \in trail' /\ S("role") \notin cloud'
         /\ S("role") \notin cloud /\ m # S("create") => S("role") \notin cloud'
         /\ AcceptedIsThere /\ journal' = journal => AcceptedIsThere'
  <1>1. /\ S("role") \in cloud => S("create") \in trail
        /\ S("policy") \in cloud => S("role") \in cloud
        /\ \A n \in {0, 1} :
             <<"deleteRole", n>> \in trail => S("create") \in trail /\ S("role") \notin cloud
    BY DEF CeremonyInv, RoleIsMadeOnce
  <1>2. S("create") \in RootMutations
    BY DEF RootMutations
  <1>3. AcceptedIsThere
    BY DEF CeremonyInv
  <1>4. CASE m = S("create")
    <2>1. cloud' = cloud \cup {S("role")} /\ S("role") \notin cloud
      BY <1>4 DEF Effect, Legal, S
    <2>2. \A n \in {0, 1} : <<"deleteRole", n>> \notin trail'
      BY <1>1, <1>4 DEF S
    <2>3. journal' = journal => AcceptedIsThere'
      BY <1>3, <2>1, TargetStepsAre DEF AcceptedIsThere, Accepted, S
    <2> QED BY <1>1, <1>2, <1>4, <2>1, <2>2, <2>3
  <1>5. CASE m = S("tag") \/ m = S("put")
    <2>1. /\ cloud' \in {cloud \cup {S("tags")}, cloud \cup {S("policy")}} /\ S("role") \in cloud
          /\ S("role") \in cloud'
      BY <1>5 DEF Effect, Legal, S
    <2>2. trail' = trail \cup {m}
      BY <1>5 DEF RootMutations, S
    <2>3. m # S("create") /\ \A n \in {0, 1} : m # <<"deleteRole", n>>
      BY <1>5 DEF S
    <2>4. journal' = journal => AcceptedIsThere'
      BY <1>3, <2>1, TargetStepsAre DEF AcceptedIsThere, Accepted, S
    <2>5. S("role") \in cloud' <=> S("role") \in cloud
      BY <2>1
    <2> QED BY <1>1, <2>1, <2>2, <2>3, <2>4, <2>5
  <1>6. CASE m \in {"deletePolicy"} \X {0, 1}
    <2>1. cloud' = cloud \ {S("policy")}
      BY <1>6 DEF Effect
    <2>2. /\ S("role") \in cloud' <=> S("role") \in cloud
          /\ S("policy") \notin cloud'
      BY <2>1 DEF S
    <2>3. trail' = trail \cup {m}
      BY <1>6 DEF RootMutations
    <2>4. m # S("create") /\ \A n \in {0, 1} : m # <<"deleteRole", n>>
      BY <1>6 DEF S
    <2>5. journal' = journal => AcceptedIsThere'
      BY <1>3, <2>1, TargetStepsAre DEF AcceptedIsThere, Accepted, S
    <2> QED BY <1>1, <2>2, <2>3, <2>4, <2>5
  <1>7. CASE m \in {"deleteRole"} \X {0, 1}
    <2>1. cloud' = cloud \ {S("role"), S("tags")} /\ S("role") \in cloud /\ S("policy") \notin cloud
      BY <1>7 DEF Effect, Legal
    <2>2. S("role") \notin cloud' /\ S("policy") \notin cloud'
      BY <2>1 DEF S
    <2>3. trail' = trail \cup {m}
      BY <1>7 DEF RootMutations
    <2>4. m # S("create")
      BY <1>7 DEF S
    <2>5. journal' = journal => AcceptedIsThere'
      BY <1>3, <2>1, TargetStepsAre DEF AcceptedIsThere, Accepted, S
    <2> QED BY <1>1, <2>1, <2>2, <2>3, <2>4, <2>5
  <1>8. CASE m \in ToSet(TargetSteps)
    <2>1. PICK t \in 1..Targets : m = <<"change", t>> \/ m = <<"execute", t>> \/ m = <<"protect", t>>
      BY <1>8, TargetStepsAre
    <2>2. cloud' = cloud \cup {m} /\ (m = <<"execute", t>> => <<"change", t>> \in cloud)
      BY <2>1 DEF Effect, Legal
    <2>3. m \notin RootMutations /\ m # S("role") /\ m # S("policy") /\ m # S("create")
          /\ m # S("login")
      BY <2>1 DEF RootMutations, S
    <2>4. trail' = trail
      BY <2>3
    <2>5. \A u \in 1..Targets : <<"execute", u>> \in cloud' => <<"change", u>> \in cloud'
      <3>1. \A u \in 1..Targets : <<"execute", u>> \in cloud => <<"change", u>> \in cloud
        BY <1>3 DEF AcceptedIsThere
      <3>2. \A u \in 1..Targets : m = <<"execute", u>> => u = t
        BY <2>1
      <3> QED BY <3>1, <3>2, <2>1, <2>2
    <2>6. journal' = journal => AcceptedIsThere'
      BY <1>3, <2>2, <2>3, <2>5 DEF AcceptedIsThere, Accepted
    <2> QED BY <1>1, <2>2, <2>3, <2>4, <2>6
  <1> QED BY <1>4, <1>5, <1>6, <1>7, <1>8 DEF Mutations, RootMutations

\* The provider changes and nothing else.
LEMMA ProviderMoves ==
  ASSUME CeremonyInv, UNCHANGED <<clock, journal, session, facts, receipt, issued>>,
         process' = process \/ (Here \in Mutations /\ process.todo # <<>> /\ Pause("after")),
         \A s \in SessionIds : s \in flight' => s \in flight,
         sent' \in [Mutations -> Nat],
         RoleIsGone => RoleIsGone',
         clock >= NotAfter /\ sent[S("create")] = 0 => sent'[S("create")] = 0,
         SentAfterStart', RoleIsMadeOnce', AcceptedIsThere'
  PROVE  CeremonyInv'
  <1>1. /\ process'.todo = process.todo /\ process'.expired = process.expired
        /\ process' \in [todo : Seq(CeremonySteps),
                         stage : {"none", "open", "inspect", "send", "after"}, expired : BOOLEAN]
    BY DEF CeremonyInv, CeremonyTypeOK, Pause
  <1>2. \A s \in SessionIds : Asks(s)' <=> Asks(s)
    <2>1. CASE process' = process
      <3>1. \A kind \in {"root", "writer"} : LastOf(kind)' = LastOf(kind) BY DEF LastOf
      <3> QED BY <2>1, <3>1, SessionsAre DEF Asks, Here
    <2>2. CASE Here \in Mutations /\ process.todo # <<>> /\ Pause("after")
      <3>1. process'.stage = "after" BY <2>2 DEF Pause, CeremonyInv, CeremonyTypeOK
      <3>2. Here \notin {S("assumeRoot"), S("assumeWriter")} BY <2>2, IdsAre
      <3> QED BY <3>1, <3>2 DEF Asks, AssumeStep
    <2> QED BY <2>1, <2>2
  <1>3. JournalForward
    BY Unwritten
  <1>4. /\ SessionsAreKnown' /\ OneActive' /\ (Quiet' <=> Quiet) /\ (AllAnswered' <=> AllAnswered)
        /\ OnlyLast' <=> OnlyLast
        /\ \A kind \in {"root", "writer"} : Free(kind)' <=> Free(kind)
    BY <1>2, <1>3, SessionsStay
  <1>5. clock \in Nat /\ clock' \in Nat /\ clock' >= clock
    BY DEF CeremonyInv, CeremonyTypeOK
  <1>6. Carried
    BY <1>4, <1>5 DEF Carried, Accepted
  <1>7. GoesOn
    BY <1>1, <1>4 DEF GoesOn
  <1>8. JournalIsTrue'
    BY <1>5, <1>6, JournalStays DEF ReceiptIsDue
  <1>9. Prepared'
    BY <1>1, <1>5, <1>6, <1>7, PreparedStays
  <1>10. CeremonyTypeOK'
    BY <1>1 DEF CeremonyInv, CeremonyTypeOK
  <1> QED BY <1>4, <1>8, <1>9, <1>10 DEF CeremonyInv

\* The role cannot be created once it is gone.
LEMMA NoLateCreation ==
  ASSUME CeremonyInv, Mutating, process.stage = "send", MaySend(Here), Here = S("create")
  PROVE  clock < NotAfter /\ S("create") \notin trail /\ sent[S("create")] = 0
  <1>1. process.todo # <<>> /\ Here \in Mutations
    BY DEF Mutating
  <1>2. sent[S("create")] = 0 /\ S("create") \notin trail
    BY <1>1 DEF CeremonyInv, SentAfterStart, RoleIsMadeOnce
  <1>3. Here \in Ahead
    BY <1>1, AheadIs
  <1>4. ~process.expired
    BY <1>3 DEF CeremonyInv, Prepared
  <1> QED BY <1>2, <1>4 DEF MaySend, Deadline

\* The dispatch of a mutation: served, lost, refused, or too late.
LEMMA DoSend ==
  ASSUME CeremonyInv, Send
  PROVE  CeremonyInv'
  <1>1. /\ Mutating /\ process.stage = "send" /\ Pause("after")
        /\ sent' = [sent EXCEPT ![Here] = @ + (IF MaySend(Here) THEN 1 ELSE 0)]
        /\ UNCHANGED <<clock, lock, durable, issued>>
    BY DEF Send
  <1>2. /\ process.todo # <<>> /\ Here \in Mutations
        /\ sent[Here] = 0 /\ journal[Here] \in {"started", "accepted"}
    BY <1>1 DEF Mutating, CeremonyInv, SentAfterStart
  <1>3. /\ sent' \in [Mutations -> Nat]
        /\ sent'[Here] = (IF MaySend(Here) THEN 1 ELSE 0)
        /\ \A m \in Mutations : m # Here => sent'[m] = sent[m]
    BY <1>1, <1>2 DEF CeremonyInv, CeremonyTypeOK
  <1>4. process'.stage = "after" /\ journal' = journal /\ clock' = clock
    BY <1>1 DEF Pause, CeremonyInv, CeremonyTypeOK, durable
  <1>5. Here \notin SessionIds /\ S("create") \in Mutations
    BY <1>2, IdsAre
  <1>6. clock \in Nat /\ NotAfter \in Nat
    BY CeremonyAssumption DEF CeremonyInv, CeremonyTypeOK
  <1>7. clock >= NotAfter /\ sent[S("create")] = 0 => sent'[S("create")] = 0
    BY <1>1, <1>3, <1>5, <1>6, NoLateCreation
  <1>8. ASSUME flight' = flight \/ (flight' = flight \cup {Here} /\ MaySend(Here))
        PROVE  SentAfterStart'
    BY <1>2, <1>3, <1>4, <1>8 DEF CeremonyInv, SentAfterStart
  <1>9. CASE UNCHANGED <<cloud, trail>>
             /\ (flight' = flight \/ (flight' = flight \cup {Here} /\ MaySend(Here)))
    <2>1. RoleIsMadeOnce'
      BY <1>1, <1>2, <1>3, <1>5, <1>9, NoLateCreation DEF CeremonyInv, RoleIsMadeOnce
    <2>2. AcceptedIsThere'
      BY <1>4, <1>9 DEF CeremonyInv, AcceptedIsThere, Accepted
    <2>3. RoleIsGone => RoleIsGone'
      BY <1>4, <1>7, <1>9 DEF RoleIsGone
    <2>4. \A s \in SessionIds : s \in flight' => s \in flight
      BY <1>5, <1>9
    <2> QED BY <1>1, <1>2, <1>3, <1>7, <1>8, <1>9, <2>1, <2>2, <2>3, <2>4, ProviderMoves DEF durable
  <1>10. CASE MaySend(Here) /\ Legal(Here) /\ Arrives(Here) /\ UNCHANGED <<flight, losses>>
    <2>1. cloud' = Effect(Here) /\ trail' = trail \cup ({Here} \cap RootMutations)
      BY <1>10 DEF Arrives
    <2>2. Here = S("create") => S("create") \notin trail /\ clock < NotAfter
      BY <1>1, <1>10, NoLateCreation
    <2>3. /\ S("create") \in trail' <=> S("create") \in trail \/ Here = S("create")
          /\ S("role") \in cloud' => S("create") \in trail'
          /\ S("policy") \in cloud' => S("role") \in cloud'
          /\ \A n \in {0, 1} :
               <<"deleteRole", n>> \in trail' => S("create") \in trail' /\ S("role") \notin cloud'
          /\ S("role") \notin cloud /\ Here # S("create") => S("role") \notin cloud'
          /\ AcceptedIsThere /\ journal' = journal => AcceptedIsThere'
      BY <1>2, <1>10, <2>1, <2>2, Arriving
    <2>4. S("create") \in trail' => sent'[S("create")] = 1 /\ S("create") \notin flight'
      <3>1. CASE Here = S("create")
        <4>1. S("create") \notin flight
          BY <3>1, <1>2 DEF CeremonyInv, SentAfterStart
        <4> QED BY <3>1, <4>1, <1>3, <1>10
      <3>2. CASE Here # S("create")
        BY <3>2, <2>3, <1>3, <1>5, <1>10 DEF CeremonyInv, RoleIsMadeOnce
      <3> QED BY <3>1, <3>2
    <2>5. RoleIsMadeOnce'
      BY <2>3, <2>4 DEF RoleIsMadeOnce
    <2>6. RoleIsGone => RoleIsGone'
      <3>1. SUFFICES ASSUME RoleIsGone PROVE RoleIsGone'
        OBVIOUS
      <3>2. Here # S("create")
        BY <3>1, <2>2, <1>6 DEF RoleIsGone
      <3> QED BY <3>1, <3>2, <2>3, <1>3, <1>4, <1>5 DEF RoleIsGone
    <2>7. AcceptedIsThere'
      BY <2>3, <1>4 DEF CeremonyInv
    <2> QED BY <1>1, <1>2, <1>3, <1>7, <1>8, <1>10, <2>5, <2>6, <2>7, ProviderMoves DEF durable
  <1> QED BY <1>1, <1>9, <1>10 DEF Send

\* The requests of mutations that are no longer waited for.
LEMMA LateProvider ==
  ASSUME CeremonyInv, NEW m \in flight, flight' = flight \ {m},
         UNCHANGED <<clock, durable, process, issued, sent>>,
         \/ UNCHANGED <<cloud, trail>>
         \/ m \in Mutations /\ Legal(m) /\ Arrives(m)
  PROVE  CeremonyInv'
  <1>1. /\ sent' \in [Mutations -> Nat] /\ sent' = sent /\ journal' = journal /\ clock' = clock
        /\ \A x : x \in flight' => x \in flight
    BY DEF CeremonyInv, CeremonyTypeOK, durable
  <1>2. SentAfterStart'
    BY <1>1 DEF CeremonyInv, SentAfterStart, Here
  <1>3. CASE UNCHANGED <<cloud, trail>>
    <2>1. RoleIsMadeOnce' /\ AcceptedIsThere' /\ (RoleIsGone => RoleIsGone')
      BY <1>1, <1>3 DEF CeremonyInv, RoleIsMadeOnce, AcceptedIsThere, Accepted, RoleIsGone
    <2> QED BY <1>1, <1>2, <2>1, ProviderMoves DEF durable
  <1>4. CASE m \in Mutations /\ Legal(m) /\ Arrives(m)
    <2>1. cloud' = Effect(m) /\ trail' = trail \cup ({m} \cap RootMutations)
      BY <1>4 DEF Arrives
    <2>2. m = S("create") => S("create") \notin trail /\ sent[S("create")] = 1
      BY <1>4 DEF CeremonyInv, RoleIsMadeOnce, SentAfterStart
    <2>3. /\ S("create") \in trail' <=> S("create") \in trail \/ m = S("create")
          /\ S("role") \in cloud' => S("create") \in trail'
          /\ S("policy") \in cloud' => S("role") \in cloud'
          /\ \A n \in {0, 1} :
               <<"deleteRole", n>> \in trail' => S("create") \in trail' /\ S("role") \notin cloud'
          /\ S("role") \notin cloud /\ m # S("create") => S("role") \notin cloud'
          /\ AcceptedIsThere /\ journal' = journal => AcceptedIsThere'
      BY <1>4, <2>1, <2>2, Arriving
    <2>4. RoleIsMadeOnce'
      BY <1>1, <2>2, <2>3 DEF CeremonyInv, RoleIsMadeOnce
    <2>5. RoleIsGone => RoleIsGone'
      BY <1>1, <2>2, <2>3 DEF RoleIsGone
    <2>6. AcceptedIsThere'
      BY <2>3, <1>1 DEF CeremonyInv
    <2> QED BY <1>1, <1>2, <2>4, <2>5, <2>6, ProviderMoves DEF durable
  <1> QED BY <1>3, <1>4

\* A request that nobody waits for arrives, or is lost.
LEMMA DoArrivesLate ==
  ASSUME CeremonyInv, NEW m \in flight, ArrivesLate(m) \/ IsLost(m)
  PROVE  CeremonyInv'
  BY LateProvider DEF ArrivesLate, IsLost

-----------------------------------------------------------------------------
(* Waiting, the seal, the receipts, the cleanup.                             *)

\* What holds at a step, of what precedes it.
LEMMA AtStep ==
  ASSUME CeremonyInv, process.todo # <<>>
  PROVE  /\ Here = S("result") =>
              /\ \A m \in ToSet(TargetSteps) : Accepted(m)
              /\ Accepted(S("seal"))
              /\ OnlyLast
         /\ Here = S("expire") => Accepted(S("result"))
         /\ Here = S("completion") => Accepted(S("result")) /\ Quiet
         /\ Here = S("disposition") => process.expired /\ Quiet /\ clock >= NotAfter
         /\ Here = <<"gone", 1>> =>
              /\ Accepted(S("disposition"))
              /\ facts.role => Accepted(<<"deleteRole", 1>>)
         /\ Here = S("evidence") => Accepted(S("completion")) /\ RoleIsGone
         /\ Here = <<"evidence", 1>> => Accepted(S("disposition")) /\ RoleIsGone
         /\ Here = S("cleanup") =>
              Accepted(S("logout")) /\ (Accepted(S("evidence")) \/ Accepted(<<"evidence", 1>>))
  <1>1. Here \in Ahead /\ Prepared
    BY AheadIs DEF CeremonyInv
  <1>2. Here = S("result") =>
              /\ \A m \in ToSet(TargetSteps) : Accepted(m)
              /\ Accepted(S("seal"))
              /\ OnlyLast
    <2>1. SUFFICES ASSUME Here = S("result")
                   PROVE  (\A m \in ToSet(TargetSteps) : Accepted(m)) /\ Accepted(S("seal")) /\ OnlyLast
      OBVIOUS
    <2>2. /\ \A m \in ToSet(TargetSteps) : Rank(m) = 6
          /\ Rank(S("seal")) = 8 /\ Rank(S("sessions")) = 4 /\ Rank(Here) = 9
      BY <2>1, Ranks
    <2>3. S("seal") \notin Ahead /\ S("sessions") \notin Ahead
      BY <2>2, Behind
    <2>4. \A m \in ToSet(TargetSteps) : m \notin Ahead
      BY <2>2, Behind
    <2> QED BY <1>1, <2>1, <2>3, <2>4 DEF Prepared, Met
  <1>3. Here = S("expire") => Accepted(S("result"))
    <2>1. Here = S("expire") => S("result") \notin Ahead
      BY Ranks, Behind
    <2> QED BY <1>1, <2>1 DEF Prepared, Met
  <1>4. Here = S("completion") => Accepted(S("result")) /\ Quiet
    <2>1. Here = S("completion") => S("result") \notin Ahead
      BY Ranks, Behind
    <2>2. Here = S("completion") => S("expire") \notin Ahead
      BY Ranks, Behind
    <2> QED BY <1>1, <2>1, <2>2 DEF Prepared, Met
  <1>5. Here = S("disposition") => process.expired /\ Quiet /\ clock >= NotAfter
    <2>1. Here = S("disposition") => S("sessions") \notin Ahead
      BY Ranks, Behind
    <2> QED BY <1>1, <2>1 DEF Prepared
  <1>6. Here = <<"gone", 1>> =>
              /\ Accepted(S("disposition"))
              /\ facts.role => Accepted(<<"deleteRole", 1>>)
    <2>1. Here = <<"gone", 1>> => S("disposition") \notin Ahead
      BY Ranks, Behind
    <2>2. Here = <<"gone", 1>> => <<"deleteRole", 1>> \notin Ahead
      BY Ranks, Behind
    <2> QED BY <1>1, <2>1, <2>2 DEF Prepared
  <1>7. Here = S("evidence") => Accepted(S("completion")) /\ RoleIsGone
    <2>1. Here = S("evidence") => S("completion") \notin Ahead
      BY Ranks, Behind
    <2>2. Here = S("evidence") => S("gone") \notin Ahead
      BY Ranks, Behind
    <2> QED BY <1>1, <2>1, <2>2 DEF Prepared, Met
  <1>8. Here = <<"evidence", 1>> => Accepted(S("disposition")) /\ RoleIsGone
    <2>1. Here = <<"evidence", 1>> => S("disposition") \notin Ahead
      <3>1. Rank(S("disposition")) = 12 /\ Rank(<<"evidence", 1>>) = 16
        BY Ranks
      <3> QED BY <3>1, Behind
    <2>2. Here = <<"evidence", 1>> => <<"gone", 1>> \notin Ahead
      BY Ranks, Behind
    <2> QED BY <1>1, <2>1, <2>2 DEF Prepared, Met
  <1>9. Here = S("cleanup") =>
              Accepted(S("logout")) /\ (Accepted(S("evidence")) \/ Accepted(<<"evidence", 1>>))
    <2>1. Here = S("cleanup") => S("logout") \notin Ahead
      BY Ranks, Behind
    <2>2. Here = S("cleanup") => S("evidence") \notin Ahead
      BY Ranks, Behind
    <2>3. Here = S("cleanup") => <<"evidence", 1>> \notin Ahead
      BY Ranks, Behind
    <2> QED BY <1>1, <2>1, <2>2, <2>3 DEF Prepared, Met
  <1> QED BY <1>2, <1>3, <1>4, <1>5, <1>6, <1>7, <1>8, <1>9

\* Once every session is over nothing is active, and nothing may still be issued.
LEMMA OverIsQuiet ==
  ASSUME CeremonyInv, SessionsOver
  PROVE  Quiet
  <1>1. SUFFICES ASSUME NEW s \in SessionIds PROVE ~Active(s)
    BY DEF Quiet
  <1>2. /\ journal[s] \in {"none", "intent", "started", "accepted"} /\ journal[s] # "started"
        /\ Accepted(s) => clock >= session[s].safe
        /\ clock \in Nat /\ issued[s] \in Nat \cup {Never} /\ session[s].safe \in Nat
        /\ session[s].until \in Nat /\ Duration \in Nat
    BY IdsAre, CeremonyAssumption DEF SessionsOver, CeremonyInv, CeremonyTypeOK
  <1>3. /\ issued[s] # Never => journal[s] \in {"started", "accepted"}
        /\ journal[s] = "accepted" /\ issued[s] # Never =>
             session[s].until = issued[s] + Duration /\ session[s].until <= session[s].safe
    BY DEF CeremonyInv, SessionsAreKnown
  <1>4. ASSUME issued[s] # Never PROVE ~(clock < issued[s] + Duration)
    <2>1. journal[s] = "accepted" /\ issued[s] \in Nat
      BY <1>2, <1>3, <1>4
    <2>2. session[s].until = issued[s] + Duration /\ session[s].until <= session[s].safe
          /\ clock >= session[s].safe
      BY <1>2, <1>3, <1>4, <2>1 DEF Accepted
    <2> QED BY <1>2, <2>1, <2>2
  <1> QED BY <1>2, <1>4 DEF Active, Live

\* Once every answer is known, the last sessions are all that can be active.
LEMMA ExpiredIsQuiet ==
  ASSUME CeremonyInv, AllAnswered,
         clock >= session[LastOf("root")].until, clock >= session[LastOf("writer")].until
  PROVE  Quiet
  <1>1. SUFFICES ASSUME NEW s \in SessionIds, Active(s) PROVE FALSE
    BY DEF Quiet
  <1>2. Live(s) /\ journal[s] # "started" /\ s = LastOf(s[1])
    BY <1>1 DEF AllAnswered, Active
  <1>3. s[1] \in {"root", "writer"}
    BY SessionsAre
  <1>4. clock >= session[s].until
    BY <1>2, <1>3
  <1>5. issued[s] # Never /\ clock < issued[s] + Duration
    BY <1>2 DEF Live
  <1>6. journal[s] = "accepted"
    BY <1>2, <1>5 DEF CeremonyInv, SessionsAreKnown
  <1>7. session[s].until = issued[s] + Duration
    BY <1>5, <1>6 DEF CeremonyInv, SessionsAreKnown
  <1>8. clock \in Nat /\ session[s].until \in Nat
    BY DEF CeremonyInv, CeremonyTypeOK
  <1> QED BY <1>4, <1>5, <1>7, <1>8

\* What does not change with the sessions, the clock and the journal.
LEMMA QuietStays ==
  ASSUME UNCHANGED <<clock, journal, issued>>, Quiet
  PROVE  Quiet'
  BY DEF Quiet, Active, Live

\* What is done by a step that waits.
LEMMA DidWait ==
  ASSUME Here \in Waits,
         Here = S("sessions") => Quiet',
         Here = S("expire") => Quiet' /\ journal'[S("result")] = "accepted",
         Here \in {S("gone"), <<"gone", 1>>} => RoleIsGone'
  PROVE  Did
  <1>1. Here \notin Mutations /\ Here \notin Receipts
        /\ Here \notin {S("seal"), S("logout"), S("disposition")}
    BY WaitsAre
  <1>2. Here \notin ToSet(TargetSteps) /\ Here # <<"deleteRole", 1>>
    BY <1>1, IdsAre
  <1> QED BY <1>1, <1>2 DEF Did

\* The steps that wait: for sessions, for expiries, for events.
LEMMA DoWaits ==
  ASSUME CeremonyInv, SessionsReconciled \/ SessionsExpired \/ EventsReconciled \/ DeletionsReconciled
  PROVE  CeremonyInv'
  <1>1. CASE SessionsReconciled
    <2>1. Here = S("sessions") /\ process.todo # <<>>
      BY <1>1, DoingIs DEF SessionsReconciled
    <2>2. Advance /\ UNCHANGED <<clock, durable>> /\ UNCHANGED providerVars /\ SessionsOver
      BY <1>1 DEF SessionsReconciled
    <2>3. Quiet'
      BY <2>2, OverIsQuiet, QuietStays DEF durable, providerVars
    <2>4. Did
      BY <2>1, <2>3, DidWait DEF Waits, S
    <2> QED BY <2>1, <2>2, <2>4, NothingMoves, Leaves DEF S
  <1>2. CASE SessionsExpired
    <2>1. Here = S("expire") /\ process.todo # <<>>
      BY <1>2, DoingIs DEF SessionsExpired
    <2>2. /\ Advance /\ UNCHANGED <<clock, durable>> /\ UNCHANGED providerVars
          /\ clock >= session[LastOf("root")].until /\ clock >= session[LastOf("writer")].until
      BY <1>2 DEF SessionsExpired
    <2>3. Accepted(S("result"))
      BY <2>1, AtStep
    <2>4. AllAnswered
      BY <2>3 DEF CeremonyInv, JournalIsTrue, Accepted
    <2>5. Quiet'
      BY <2>2, <2>4, ExpiredIsQuiet, QuietStays DEF durable, providerVars
    <2>6. journal'[S("result")] = "accepted"
      BY <2>2, <2>3 DEF Accepted, durable
    <2>7. Did
      BY <2>1, <2>5, <2>6, DidWait DEF Waits, S
    <2> QED BY <2>1, <2>2, <2>7, NothingMoves, Leaves DEF S
  <1>3. CASE EventsReconciled
    <2>1. Here = S("events") /\ process.todo # <<>>
      BY <1>3, DoingIs DEF EventsReconciled
    <2>2. /\ Advance \/ Reject
          /\ UNCHANGED <<clock, durable>> /\ UNCHANGED providerVars
      BY <1>3 DEF EventsReconciled
    <2>3. Did
      BY <2>1, DidWait DEF Waits, S
    <2> QED BY <2>1, <2>2, <2>3, NothingMoves, Leaves, Rejects DEF S, Reject
  <1>4. CASE DeletionsReconciled
    <2>1. Here \in {S("gone"), <<"gone", 1>>} /\ process.todo # <<>>
      BY <1>4, DoingIs DEF DeletionsReconciled
    <2>2. Advance /\ UNCHANGED <<clock, durable>> /\ UNCHANGED providerVars
      BY <1>4 DEF DeletionsReconciled
    <2>3. RoleIsGone
      <3>1. CASE Here = S("gone")
        <4>1. <<"deleteRole", 0>> \in trail
          BY <1>4, <3>1 DEF DeletionsReconciled, ExactEvents, S
        <4> QED BY <4>1 DEF CeremonyInv, RoleIsMadeOnce, RoleIsGone
      <3>2. CASE Here = <<"gone", 1>>
        <4>1. /\ facts.role \/ S("role") \notin cloud
              /\ Accepted(<<"deleteRole", 1>>) => <<"deleteRole", 1>> \in trail
          BY <1>4, <3>2 DEF DeletionsReconciled
        <4>2. /\ Accepted(S("disposition"))
              /\ facts.role => Accepted(<<"deleteRole", 1>>)
          BY <2>1, <3>2, AtStep
        <4>3. CASE facts.role
          BY <4>1, <4>2, <4>3 DEF CeremonyInv, RoleIsMadeOnce, RoleIsGone
        <4>4. CASE ~facts.role
          BY <4>1, <4>2, <4>4 DEF CeremonyInv, JournalIsTrue, RoleIsGone, Accepted
        <4> QED BY <4>3, <4>4
      <3> QED BY <2>1, <3>1, <3>2
    <2>4. RoleIsGone'
      BY <2>2, <2>3 DEF RoleIsGone, providerVars
    <2>5. Did
      BY <2>1, <2>4, DidWait DEF Waits, S
    <2> QED BY <2>1, <2>2, <2>5, NothingMoves, Leaves DEF S
  <1> QED BY <1>1, <1>2, <1>3, <1>4

\* A process that waits past its deadline ends.
LEMMA DoGivesUp ==
  ASSUME CeremonyInv, GivesUp
  PROVE  CeremonyInv'
  BY Rejects, NothingMoves DEF GivesUp, Reject

\* The states of the seal and of the logout.
LEMMA WritesEntry ==
  ASSUME CeremonyInv, process.todo # <<>>, Here \in {S("seal"), S("logout")},
         NEW v \in {"intent", "started", "accepted"}, Record(Here, v),
         ProviderStill, UNCHANGED <<clock, session, facts, receipt>>,
         journal[Here] = "accepted" => v = "accepted",
         journal[Here] = "started" => v \in {"started", "accepted"},
         v = "accepted" /\ Here = S("seal") => S("sealed") \in cloud',
         v = "accepted" /\ Here = S("logout") => S("login") \notin cloud,
         v = "accepted" => Advance,
         v # "accepted" => process' = process \/ Pause("send")
  PROVE  CeremonyInv'
  <1>1. /\ Here \notin Mutations /\ Here \in Ids /\ Here \notin SessionIds
        /\ Here \notin {S("assumeRoot"), S("assumeWriter"), S("disposition")}
        /\ Here \notin Receipts /\ Here \notin Waits /\ S("seal") # S("logout")
    BY IdsAre, WaitsAre DEF Waits, S
  <1>2. /\ JournalForward /\ journal'[Here] = v
        /\ \A y \in Ids : y # Here => journal'[y] = journal[y]
    BY <1>1, Written
  <1>3. \A x \in Receipts \cup {S("disposition")} : journal'[x] # "none" => journal[x] # "none"
    BY <1>1, <1>2, IdsAre
  <1>4. journal'[S("result")] = journal[S("result")]
    BY <1>1, <1>2, IdsAre
  <1>5. NewIsThere
    <2>1. \A m \in ToSet(TargetSteps) : journal'[m] = "accepted" => Accepted(m) \/ m \in cloud
      BY <1>1, <1>2, IdsAre DEF Accepted
    <2> QED BY <2>1, <1>1, <1>2, IdsAre DEF NewIsThere, Accepted
  <1>6. CASE v = "accepted"
    <2>1. Did
      <3>1. Here # <<"deleteRole", 1>> BY <1>1, IdsAre
      <3> QED BY <3>1, <1>1, <1>2, <1>6 DEF Did, Waits
    <2> QED BY <2>1, <1>1, <1>2, <1>3, <1>4, <1>5, <1>6, GoesTo
  <1>7. CASE v # "accepted"
    <2>1. process'.todo = process.todo
      BY <1>7 DEF Pause, CeremonyInv, CeremonyTypeOK
    <2>2. SendIsFirst
      BY <2>1, <1>1 DEF SendIsFirst, Here
    <2>3. process' = process \/ \E stage \in {"inspect", "send", "after"} : Pause(stage)
      BY <1>7
    <2> QED BY <2>2, <2>3, <1>1, <1>2, <1>3, <1>4, <1>5, StaysAt
  <1> QED BY <1>6, <1>7

\* The seal: its start, its sealer, and the seal of an earlier run.
LEMMA DoSeal ==
  ASSUME CeremonyInv, SealStart \/ SealSend \/ SealSkipped
  PROVE  CeremonyInv'
  <1>1. Here = S("seal") /\ process.todo # <<>>
    BY DoingIs DEF SealStart, SealSend, SealSkipped
  <1>2. CASE SealStart
    <2>1. /\ ProviderStill /\ UNCHANGED <<clock, exists, session, facts, receipt>>
          /\ journal[Here] \in {"none", "intent", "started"}
      BY <1>1, <1>2, NothingMoves DEF SealStart
    <2>2. \/ Reject /\ UNCHANGED journal
          \/ journal[Here] = "none" /\ Record(Here, "intent") /\ process' = process
          \/ Record(Here, "started") /\ Pause("send")
      BY <1>1, <1>2 DEF SealStart
    <2>3. CASE Reject /\ UNCHANGED journal
      BY <2>1, <2>3, Rejects DEF Reject, durable
    <2>4. CASE journal[Here] = "none" /\ Record(Here, "intent") /\ process' = process
      BY <1>1, <2>1, <2>4, WritesEntry
    <2>5. CASE Record(Here, "started") /\ Pause("send")
      BY <1>1, <2>1, <2>5, WritesEntry
    <2> QED BY <2>2, <2>3, <2>4, <2>5
  <1>3. CASE SealSend
    <2>1. /\ UNCHANGED <<trail, issued, flight, sent>>
          /\ UNCHANGED <<clock, exists, session, facts, receipt>>
      BY <1>3 DEF SealSend
    <2>2. \/ cloud' = cloud \cup {S("sealed")} /\ Record(Here, "accepted") /\ Advance
          \/ cloud' \in {cloud, cloud \cup {S("sealed")}} /\ Reject /\ UNCHANGED journal
      BY <1>1, <1>3 DEF SealSend
    <2>3. ProviderStill
      BY <2>1, <2>2 DEF ProviderStill
    <2>4. CASE cloud' = cloud \cup {S("sealed")} /\ Record(Here, "accepted") /\ Advance
      BY <1>1, <2>1, <2>3, <2>4, WritesEntry DEF S
    <2>5. CASE Reject /\ UNCHANGED journal
      BY <2>1, <2>3, <2>5, Rejects DEF Reject, durable
    <2> QED BY <2>2, <2>4, <2>5
  <1>4. CASE SealSkipped
    <2>1. Advance /\ UNCHANGED <<clock, durable>> /\ ProviderStill /\ Accepted(S("seal"))
      BY <1>4, NothingMoves DEF SealSkipped
    <2>2. Did
      <3>1. /\ Here \notin Waits /\ Here # <<"deleteRole", 1>>
            /\ journal'[Here] = "accepted"
        BY <1>1, <2>1, WaitsAre, IdsAre DEF Accepted, durable
      <3> QED BY <3>1 DEF Did, Waits
    <2>3. Here \notin {S("assumeRoot"), S("assumeWriter")}
      BY <1>1 DEF S
    <2> QED BY <1>1, <2>1, <2>2, <2>3, Leaves
  <1> QED BY <1>2, <1>3, <1>4

\* The end of the root login, at any of its states.
LEMMA DoLogout ==
  ASSUME CeremonyInv, Logout
  PROVE  CeremonyInv'
  <1>1. Here = S("logout") /\ process.todo # <<>>
    BY DoingIs DEF Logout
  <1>2. UNCHANGED <<clock, exists, session, facts, receipt, trail, issued, flight, sent>>
    BY DEF Logout
  <1>3. \/ journal[Here] = "none" /\ Record(Here, "intent") /\ UNCHANGED <<process, cloud>>
        \/ S("login") \notin cloud /\ Record(Here, "accepted") /\ Advance /\ UNCHANGED cloud
        \/ journal[Here] = "intent" /\ Record(Here, "started") /\ UNCHANGED <<process, cloud>>
        \/ UNCHANGED journal /\ cloud' = cloud \ {S("login")} /\ UNCHANGED process
        \/ UNCHANGED journal /\ Reject /\ UNCHANGED cloud
    BY <1>1 DEF Logout
  <1>4. ProviderStill
    BY <1>2, <1>3 DEF ProviderStill
  <1>5. CASE journal[Here] = "none" /\ Record(Here, "intent") /\ UNCHANGED <<process, cloud>>
    BY <1>1, <1>2, <1>4, <1>5, WritesEntry
  <1>6. CASE S("login") \notin cloud /\ Record(Here, "accepted") /\ Advance /\ UNCHANGED cloud
    BY <1>1, <1>2, <1>4, <1>6, WritesEntry DEF S
  <1>7. CASE journal[Here] = "intent" /\ Record(Here, "started") /\ UNCHANGED <<process, cloud>>
    BY <1>1, <1>2, <1>4, <1>7, WritesEntry
  <1>8. CASE UNCHANGED journal /\ cloud' = cloud \ {S("login")} /\ UNCHANGED process
    <2>1. /\ JournalForward /\ NewIsThere
          /\ \A x \in Receipts \cup {S("disposition")} : journal'[x] # "none" => journal[x] # "none"
      BY <1>8, Unwritten
    <2>2. SendIsFirst
      BY <1>2, <1>8, <2>1, SameProcess
    <2>3. Here \notin {S("assumeRoot"), S("assumeWriter")}
      BY <1>1 DEF S
    <2> QED BY <1>1, <1>2, <1>4, <1>8, <2>1, <2>2, <2>3, StaysAt
  <1>9. CASE UNCHANGED journal /\ Reject /\ UNCHANGED cloud
    BY <1>2, <1>4, <1>9, Rejects DEF Reject, durable
  <1> QED BY <1>3, <1>5, <1>6, <1>7, <1>8, <1>9

\* With the result before it, the process has every answer.
LEMMA OnlyLastIsAnswered ==
  ASSUME OnlyLast, Here \notin {S("assumeRoot"), S("assumeWriter")}
  PROVE  AllAnswered
  BY DEF OnlyLast, AllAnswered, Active, Asks, AssumeStep

\* A receipt is written: its intent, or its acceptance.
LEMMA WritesReceipt ==
  ASSUME CeremonyInv, Here \in Receipts, NEW v \in {"intent", "accepted"}, Record(Here, v),
         journal[Here] = "none" \/ v = "accepted"
  PROVE  /\ JournalForward /\ journal'[Here] = v /\ NewIsThere
         /\ \A y \in Ids : y # Here => journal'[y] = journal[y]
         /\ Here \notin {S("assumeRoot"), S("assumeWriter"), S("disposition")} /\ Here \in Ids
  <1>1. /\ Here \in Ids /\ Here \notin SessionIds /\ Here \notin Mutations
        /\ Here \notin {S("seal"), S("logout"), S("disposition")} /\ Here \notin Waits
    BY IdsAre, WaitsAre
  <1>2. journal[Here] = "started" => FALSE
    BY DEF CeremonyInv, CeremonyTypeOK
  <1>3. /\ JournalForward /\ journal'[Here] = v
        /\ \A y \in Ids : y # Here => journal'[y] = journal[y]
    BY <1>1, <1>2, Written
  <1>4. NewIsThere
    <2>1. \A m \in ToSet(TargetSteps) : journal'[m] = "accepted" => Accepted(m) \/ m \in cloud
      BY <1>1, <1>3, IdsAre DEF Accepted
    <2> QED BY <2>1, <1>1, <1>3, IdsAre DEF NewIsThere, Accepted
  <1> QED BY <1>1, <1>3, <1>4 DEF Waits

\* The intent of a receipt: what the receipt says is so already.
LEMMA DoReceiptIntent ==
  ASSUME CeremonyInv, process.todo # <<>>, Here \in Receipts, journal[Here] = "none",
         Record(Here, "intent"), ProviderStill,
         UNCHANGED <<clock, process, session, facts, receipt>>
  PROVE  CeremonyInv'
  <1>1. /\ JournalForward /\ journal'[Here] = "intent" /\ NewIsThere
        /\ \A y \in Ids : y # Here => journal'[y] = journal[y]
        /\ Here \notin {S("assumeRoot"), S("assumeWriter"), S("disposition")} /\ Here \in Ids
    BY WritesReceipt
  <1>2. SendIsFirst
    BY <1>1, SameProcess DEF ProviderStill
  <1>3. journal'[S("result")] = journal[S("result")] \/ Here = S("result")
    BY <1>1, IdsAre
  <1>4. /\ SentAfterStart' /\ RoleIsMadeOnce' /\ AcceptedIsThere'
        /\ SessionsAreKnown' /\ OneActive'
        /\ AllAnswered' <=> AllAnswered
        /\ Carried /\ GoesOn /\ clock' \in Nat
    BY <1>1, <1>2, <1>3, StepCarries
  <1>5. Claims(Here)
    <2>1. Here = S("result") => AllAnswered'
      BY <1>1, <1>4, AtStep, OnlyLastIsAnswered
    <2>2. Here = S("disposition") => FALSE
      BY <1>1
    <2> QED BY <2>1, <2>2, AtStep DEF Claims
  <1>6. \A x \in Receipts \cup {S("disposition")} :
          journal'[x] # "none" => journal[x] # "none" \/ Claims(x)
    BY <1>1, <1>5, IdsAre
  <1>7. JournalIsTrue'
    BY <1>4, <1>6, JournalGains DEF ReceiptIsDue
  <1>8. Prepared'
    BY <1>4, PreparedStays
  <1>9. CeremonyTypeOK'
    BY <1>1, TypesStay DEF ProviderStill, CeremonyInv, CeremonyTypeOK
  <1> QED BY <1>4, <1>7, <1>8, <1>9 DEF CeremonyInv

\* A receipt: an intent, an acceptance, and with the last one the terminal receipt.
LEMMA DoPersistReceipt ==
  ASSUME CeremonyInv, PersistReceipt
  PROVE  CeremonyInv'
  <1>1. /\ process.todo # <<>> /\ Here \in Receipts
        /\ ProviderStill /\ UNCHANGED <<clock, exists, session, facts>>
    BY NothingMoves DEF PersistReceipt
  <1>2. \/ Reject /\ UNCHANGED <<journal, receipt>>
        \/ journal[Here] = "none" /\ Record(Here, "intent") /\ UNCHANGED <<process, receipt>>
        \/ /\ journal[Here] # "none" /\ Record(Here, "accepted")
           /\ \/ /\ Here = S("cleanup") /\ Reject
                 /\ receipt' = IF Accepted(S("result")) THEN "completed" ELSE "abandoned"
              \/ Advance /\ UNCHANGED receipt
    BY DEF PersistReceipt
  <1>3. CASE Reject /\ UNCHANGED <<journal, receipt>>
    BY <1>1, <1>3, Rejects DEF Reject, durable
  <1>4. CASE journal[Here] = "none" /\ Record(Here, "intent") /\ UNCHANGED <<process, receipt>>
    BY <1>1, <1>4, DoReceiptIntent
  <1>5. ASSUME journal[Here] # "none", Record(Here, "accepted")
        PROVE  /\ JournalForward /\ journal'[Here] = "accepted" /\ NewIsThere
               /\ \A y \in Ids : y # Here => journal'[y] = journal[y]
               /\ Here \notin {S("assumeRoot"), S("assumeWriter"), S("disposition")} /\ Here \in Ids
               /\ \A x \in Receipts \cup {S("disposition")} : journal'[x] # "none" => journal[x] # "none"
               /\ journal'[S("result")] = journal[S("result")] \/ Here = S("result")
    <2>1. /\ JournalForward /\ journal'[Here] = "accepted" /\ NewIsThere
          /\ \A y \in Ids : y # Here => journal'[y] = journal[y]
          /\ Here \notin {S("assumeRoot"), S("assumeWriter"), S("disposition")} /\ Here \in Ids
      BY <1>1, <1>5, WritesReceipt
    <2>2. \A x \in Receipts \cup {S("disposition")} : journal'[x] # "none" => journal[x] # "none"
      BY <2>1, <1>5, IdsAre
    <2> QED BY <2>1, <2>2, IdsAre
  <1>6. CASE journal[Here] # "none" /\ Record(Here, "accepted") /\ Here = S("cleanup") /\ Reject
             /\ receipt' = IF Accepted(S("result")) THEN "completed" ELSE "abandoned"
    <2>1. Accepted(S("result")) => journal'[S("result")] = "accepted"
      BY <1>5, <1>6, IdsAre DEF Accepted
    <2>2. ReceiptIsDue
      BY <1>5, <1>6, <2>1 DEF ReceiptIsDue
    <2> QED BY <1>1, <1>5, <1>6, <2>2, Ends DEF Reject
  <1>7. CASE journal[Here] # "none" /\ Record(Here, "accepted") /\ Advance /\ UNCHANGED receipt
    <2>1. Here \notin Waits /\ Here # <<"deleteRole", 1>>
      BY <1>1, WaitsAre, IdsAre
    <2>2. Did
      BY <2>1, <1>5, <1>7 DEF Did, Waits
    <2> QED BY <1>1, <1>5, <1>7, <2>2, GoesTo
  <1> QED BY <1>2, <1>3, <1>4, <1>6, <1>7

-----------------------------------------------------------------------------
(* The disposition of an abandoned execution.                                *)

\* The intent of the disposition: a role that does not exist was never asked for.
LEMMA DoDispositionIntent ==
  ASSUME CeremonyInv, process.todo # <<>>, Here = S("disposition"), NEW role \in BOOLEAN,
         DispositionIntent(role), UNCHANGED <<clock, session, receipt>>, ProviderStill
  PROVE  CeremonyInv'
  <1>1. /\ ~Accepted(S("disposition")) /\ FoundIsExplained(role)
        /\ journal[S("disposition")] = "none"
        /\ facts' = Found(role) /\ UNCHANGED process
        /\ journal' = [journal EXCEPT ![S("disposition")] = "intent",
                                      ![S("create")] = IF role THEN "accepted" ELSE @]
    BY DEF DispositionIntent
  <1>2. /\ S("create") \in Ids /\ S("disposition") \in Ids /\ S("create") # S("disposition")
        /\ S("create") \notin SessionIds /\ S("disposition") \notin SessionIds
        /\ S("create") \notin ToSet(TargetSteps)
        /\ S("create") \notin Receipts /\ S("disposition") \notin Receipts
        /\ S("seal") \in Ids /\ S("logout") \in Ids
        /\ S("create") # S("seal") /\ S("create") # S("logout")
        /\ S("disposition") # S("seal") /\ S("disposition") # S("logout")
    <2>1. S("create") \notin ToSet(TargetSteps)
      BY TargetStepsAre DEF S
    <2>2. S("disposition") # S("seal") /\ S("disposition") # S("logout")
          /\ S("create") # S("seal") /\ S("create") # S("logout")
      BY DEF S
    <2> QED BY <2>1, <2>2, IdsAre
  <1>3. journal \in [Ids -> {"none", "intent", "started", "accepted"}]
    BY DEF CeremonyInv, CeremonyTypeOK
  <1>4. /\ journal'[S("disposition")] = "intent"
        /\ journal'[S("create")] = IF role THEN "accepted" ELSE journal[S("create")]
        /\ \A y \in Ids : y \notin {S("disposition"), S("create")} => journal'[y] = journal[y]
        /\ journal' \in [Ids -> {"none", "intent", "started", "accepted"}]
    BY <1>1, <1>2, <1>3
  <1>5. role => journal[S("create")] \in {"started", "accepted"}
    BY <1>1 DEF FoundIsExplained
  <1>6. JournalForward
    <2>1. \A x \in Ids :
            /\ journal[x] = "accepted" => journal'[x] = "accepted"
            /\ journal[x] = "started" => journal'[x] \in {"started", "accepted"}
            /\ journal[x] = "intent" => journal'[x] # "none"
      BY <1>1, <1>3, <1>4, <1>5
    <2>2. \A x \in Receipts : journal'[x] # "started"
      BY <1>2, <1>4, IdsAre DEF CeremonyInv, CeremonyTypeOK
    <2>3. \A s \in SessionIds : journal'[s] = journal[s]
      BY <1>2, <1>4, IdsAre
    <2> QED BY <1>4, <2>1, <2>2, <2>3 DEF JournalForward, JournalGoesOn
  <1>7. NewIsThere
    <2>1. \A m \in ToSet(TargetSteps) : journal'[m] = journal[m]
      <3>1. \A m \in ToSet(TargetSteps) : m # S("disposition")
        BY IdsAre
      <3> QED BY <3>1, <1>2, <1>4, IdsAre
    <2> QED BY <2>1, <1>2, <1>4 DEF NewIsThere, Accepted
  <1>8. SendIsFirst
    BY <1>1, <1>6, SameProcess DEF ProviderStill
  <1>9. journal'[S("result")] = journal[S("result")]
    BY <1>2, <1>4, IdsAre
  <1>10. Here \notin {S("assumeRoot"), S("assumeWriter")}
    BY DEF S
  <1>11. /\ SentAfterStart' /\ RoleIsMadeOnce' /\ AcceptedIsThere'
         /\ SessionsAreKnown' /\ OneActive'
         /\ Carried /\ GoesOn /\ clock' \in Nat
    BY <1>1, <1>6, <1>7, <1>8, <1>9, <1>10, StepCarries
  <1>12. Claims(S("disposition"))
    <2>1. Quiet /\ clock >= NotAfter
      BY AtStep
    <2>2. facts'.role = role
      BY <1>1 DEF Found
    <2>3. ~role => journal[S("create")] \in {"none", "intent"}
      BY <1>1 DEF FoundIsExplained, NeverCreated
    <2>4. ~role => sent[S("create")] = 0
      BY <2>3, IdsAre DEF CeremonyInv, SentAfterStart
    <2>5. S("disposition") \notin Receipts
      BY <1>2
    <2> QED BY <2>1, <2>2, <2>4, <2>5, IdsAre DEF Claims
  <1>13. \A x \in Receipts \cup {S("disposition")} :
           journal'[x] # "none" => journal[x] # "none" \/ Claims(x)
    BY <1>2, <1>4, <1>12, IdsAre
  <1>14. JournalIsTrue'
    BY <1>1, <1>11, <1>13, JournalGains DEF ReceiptIsDue
  <1>15. Prepared'
    BY <1>1, <1>11, AheadIs, PreparedStays
  <1>16. CeremonyTypeOK'
    BY <1>1, <1>6, TypesStay DEF ProviderStill, CeremonyInv, CeremonyTypeOK
  <1> QED BY <1>11, <1>14, <1>15, <1>16 DEF CeremonyInv

\* The disposition of an earlier run is accepted, or the process ends.
LEMMA DoDispositionAccept ==
  ASSUME CeremonyInv, process.todo # <<>>, Here = S("disposition"), NEW role \in BOOLEAN,
         DispositionAccept(role), UNCHANGED <<clock, exists, session, receipt>>, ProviderStill
  PROVE  CeremonyInv'
  <1>1. /\ journal[S("disposition")] = "intent" /\ UNCHANGED facts
        /\ \/ Record(S("disposition"), "accepted") /\ UNCHANGED process
           \/ Reject /\ UNCHANGED journal
    BY DEF DispositionAccept
  <1>2. CASE Reject /\ UNCHANGED journal
    BY <1>1, <1>2, Rejects DEF Reject, durable
  <1>3. CASE Record(S("disposition"), "accepted") /\ UNCHANGED process
    <2>1. /\ S("disposition") \in Ids /\ S("disposition") \notin SessionIds
          /\ S("disposition") \notin Receipts /\ S("disposition") \notin Mutations
          /\ S("disposition") # S("seal") /\ S("disposition") # S("logout")
          /\ S("seal") \in Ids /\ S("logout") \in Ids
          /\ Here \notin {S("assumeRoot"), S("assumeWriter")}
      BY IdsAre DEF S
    <2>2. /\ JournalForward /\ journal'[S("disposition")] = "accepted"
          /\ \A y \in Ids : y # S("disposition") => journal'[y] = journal[y]
      BY <1>1, <1>3, <2>1, Written
    <2>3. NewIsThere
      <3>1. \A m \in ToSet(TargetSteps) : journal'[m] = journal[m]
        BY <2>1, <2>2, IdsAre
      <3> QED BY <3>1, <2>1, <2>2 DEF NewIsThere, Accepted
    <2>4. SendIsFirst
      BY <1>3, <2>2, SameProcess DEF ProviderStill
    <2>5. /\ \A x \in Receipts \cup {S("disposition")} : journal'[x] # "none" => journal[x] # "none"
          /\ journal'[S("result")] = journal[S("result")]
      BY <1>1, <2>1, <2>2, IdsAre
    <2> QED BY <1>1, <1>3, <2>1, <2>2, <2>3, <2>4, <2>5, StaysAt
  <1> QED BY <1>1, <1>2, <1>3

\* An accepted disposition stands, or the process ends.
LEMMA DoDispositionStands ==
  ASSUME CeremonyInv, process.todo # <<>>, Here = S("disposition"), NEW role \in BOOLEAN,
         DispositionStands(role) \/ DispositionRefused(role),
         UNCHANGED <<clock, exists, session, receipt>>, ProviderStill
  PROVE  CeremonyInv'
  <1>1. /\ UNCHANGED <<clock, durable>>
        /\ Reject \/ (Accepted(S("disposition")) /\ Advance)
    BY DEF DispositionStands, DispositionRefused, durable
  <1>2. CASE Reject
    BY <1>1, <1>2, Rejects DEF Reject
  <1>3. CASE Accepted(S("disposition")) /\ Advance
    <2>1. /\ Here \notin Waits /\ Here # <<"deleteRole", 1>>
          /\ Here \notin {S("assumeRoot"), S("assumeWriter")}
      BY WaitsAre, IdsAre DEF S
    <2>2. journal'[Here] = "accepted"
      BY <1>1, <1>3 DEF Accepted, durable
    <2>3. Did
      BY <2>1, <2>2 DEF Did, Waits
    <2> QED BY <1>1, <1>3, <2>1, <2>3, Leaves
  <1> QED BY <1>1, <1>2, <1>3

\* The disposition: its intent, its acceptance, and what it meets later.
LEMMA DoDisposition ==
  ASSUME CeremonyInv, Disposition
  PROVE  CeremonyInv'
  <1>1. Here = S("disposition") /\ process.todo # <<>>
    BY DoingIs DEF Disposition
  <1>2. ProviderStill /\ UNCHANGED <<clock, exists, session, receipt>>
    BY NothingMoves DEF Disposition
  <1>3. PICK role \in BOOLEAN : \/ DispositionIntent(role) \/ DispositionAccept(role)
                                \/ DispositionStands(role) \/ DispositionRefused(role)
    BY DEF Disposition
  <1> QED BY <1>1, <1>2, <1>3, DoDispositionIntent, DoDispositionAccept, DoDispositionStands

-----------------------------------------------------------------------------
(* The sessions.                                                             *)

\* A step on the sessions of a role leaves everything else alone.
LEMMA SessionMoves ==
  ASSUME CeremonyInv, JournalGoesOn, \A x \in Ids : x \notin SessionIds => journal'[x] = journal[x],
         UNCHANGED <<cloud, trail, sent, facts, receipt>>,
         \A m \in Mutations : m \in flight' => m \in flight,
         SendIsFirst, CeremonyTypeOK', clock' >= clock, SessionsAreKnown', OneActive',
         Quiet /\ (clock >= NotAfter \/ Accepted(S("result"))) => Quiet',
         AllAnswered /\ journal[S("result")] # "none" => AllAnswered',
         \/ process' = NoRun
         \/ GoesOn /\ process'.todo = process.todo
         \/ GoesOn /\ process.todo # <<>> /\ process'.todo = Tail(process.todo) /\ Did
  PROVE  CeremonyInv'
  <1>1. clock' \in Nat
    BY DEF CeremonyTypeOK
  <1>2. NewIsThere
    <2>1. \A m \in ToSet(TargetSteps) : journal'[m] = journal[m]
      BY IdsAre
    <2>2. journal'[S("seal")] = journal[S("seal")] /\ journal'[S("logout")] = journal[S("logout")]
      BY IdsAre
    <2> QED BY <2>1, <2>2 DEF NewIsThere, Accepted
  <1>3. /\ SentAfterStart' /\ RoleIsMadeOnce' /\ AcceptedIsThere'
        /\ RoleIsGone => RoleIsGone'
    BY <1>1, <1>2, ProviderKept
  <1>4. Carried
    BY <1>3 DEF Carried, JournalGoesOn, Accepted
  <1>5. JournalIsTrue'
    <2>1. \A x \in Receipts \cup {S("disposition")} : journal'[x] # "none" => journal[x] # "none"
      BY IdsAre
    <2> QED BY <1>1, <1>4, <2>1, JournalStays DEF ReceiptIsDue
  <1>6. CASE process' = NoRun
    <2>1. (process = NoRun => Prepared /\ \A s \in SessionIds : ~Asks(s))'
      BY NothingAhead, PTL
    <2>2. Prepared'
      BY <1>6, <2>1
    <2> QED BY <1>3, <1>5, <2>2 DEF CeremonyInv
  <1>7. CASE GoesOn /\ process'.todo = process.todo
    <2>1. Prepared'
      BY <1>1, <1>4, <1>7, PreparedStays
    <2> QED BY <1>3, <1>5, <2>1 DEF CeremonyInv
  <1>8. CASE GoesOn /\ process.todo # <<>> /\ process'.todo = Tail(process.todo) /\ Did
    <2>1. Prepared'
      BY <1>1, <1>4, <1>8, PreparedAdvances
    <2> QED BY <1>3, <1>5, <2>1 DEF CeremonyInv
  <1> QED BY <1>6, <1>7, <1>8

\* The state of a session in the journal.
LEMMA SessionWritten ==
  ASSUME CeremonyInv, NEW s \in SessionIds, NEW v \in {"intent", "started", "accepted"}, Record(s, v),
         journal[s] = "none" \/ v # "intent", journal[s] # "accepted"
  PROVE  /\ JournalGoesOn /\ journal'[s] = v
         /\ \A y \in Ids : y # s => journal'[y] = journal[y]
         /\ \A y \in Ids : y \notin SessionIds => journal'[y] = journal[y]
  <1>1. s \in Ids /\ s \notin Receipts /\ SessionIds \subseteq Ids
    BY IdsAre DEF SessionIds, Receipts, Sessions, S
  <1>2. journal \in [Ids -> {"none", "intent", "started", "accepted"}]
    BY DEF CeremonyInv, CeremonyTypeOK
  <1>3. /\ journal' \in [Ids -> {"none", "intent", "started", "accepted"}]
        /\ journal'[s] = v
        /\ \A y \in Ids : y # s => journal'[y] = journal[y]
    BY <1>1, <1>2 DEF Record
  <1>4. \A x \in Receipts : journal'[x] # "started"
    BY <1>1, <1>3, IdsAre DEF CeremonyInv, CeremonyTypeOK
  <1>5. JournalGoesOn
    BY <1>3, <1>4 DEF JournalGoesOn
  <1> QED BY <1>1, <1>3, <1>5

\* The last session of a role, when only one session's state is written.
LEMMA LastStays ==
  ASSUME NEW s \in SessionIds,
         \A y \in Ids : y # s => journal'[y] = journal[y]
  PROVE  /\ \A kind \in {"root", "writer"} : s[1] # kind => LastOf(kind)' = LastOf(kind)
         /\ journal[s] # "none" /\ journal'[s] # "none" =>
              \A kind \in {"root", "writer"} : LastOf(kind)' = LastOf(kind)
  <1>1. \A kind \in {"root", "writer"} : <<kind, 2>> \in Ids
    BY IdsAre DEF SessionIds, Sessions
  <1> QED BY <1>1 DEF LastOf

\* The session to ask for.
LEMMA NextIs ==
  ASSUME CeremonyInv, NEW kind \in {"root", "writer"}
  PROVE  /\ NextSession(kind) \in SessionIds /\ NextSession(kind)[1] = kind
         /\ journal[NextSession(kind)] = "intent" => NextSession(kind) = LastOf(kind)
  BY SessionsAre DEF NextSession, LastOf, SessionIds, Sessions

\* An accepted session has its expiry.
LEMMA AcceptsSession ==
  ASSUME CeremonyInv, NEW s \in SessionIds, NEW until \in Nat, NEW safe \in Nat,
         SessionAccepted(s, until, safe)
  PROVE  /\ session' \in [SessionIds -> [at : Nat, until : Nat, safe : Nat]]
         /\ session'[s].until = until /\ session'[s].safe = safe /\ session'[s].at = session[s].at
         /\ \A u \in SessionIds : u # s => session'[u] = session[u]
         /\ Record(s, "accepted")
  <1>1. session \in [SessionIds -> [at : Nat, until : Nat, safe : Nat]]
    BY DEF CeremonyInv, CeremonyTypeOK
  <1>2. session' = [session EXCEPT ![s].until = until, ![s].safe = safe]
    BY DEF SessionAccepted
  <1> QED BY <1>1, <1>2 DEF SessionAccepted

\* Where a session is asked for no other of the role is active, and no result is written.
LEMMA AtAssume ==
  ASSUME CeremonyInv, NEW kind \in {"root", "writer"}, process.todo # <<>>, Here = AssumeStep(kind)
  PROVE  /\ journal[S("result")] = "none" /\ Free(kind)
         /\ \A s \in SessionIds : Asks(s) => s[1] = kind
         /\ Here \in Waits /\ Here \notin Mutations
         /\ AssumeStep(kind) \in Ahead
         /\ process'.todo = Tail(process.todo) => AssumeStep(kind) \notin Ahead'
  <1>1. Rank(S("sessions")) = 4 /\ Rank(Here) \in {5, 7}
    BY Ranks DEF AssumeStep
  <1>2. Here \in Ahead
    BY AheadIs
  <1>3. S("sessions") \notin Ahead
    BY <1>1, Behind
  <1>4. journal[S("result")] = "none" /\ Free(kind)
    BY <1>2, <1>3 DEF CeremonyInv, Prepared
  <1>5. \A s \in SessionIds : Asks(s) => s[1] = kind
    BY SessionsAre DEF Asks, AssumeStep, S
  <1>6. Here \in Waits /\ Here \notin Mutations
    BY IdsAre DEF AssumeStep, Waits
  <1>7. ASSUME process'.todo = Tail(process.todo), Here \in Ahead' PROVE FALSE
    <2>1. Precedes(Here, Here)
      BY <1>7, AheadIs
    <2> QED BY <1>1, <2>1 DEF Precedes
  <1> QED BY <1>2, <1>4, <1>5, <1>6, <1>7

\* The intent of a session changes nothing but the journal.
LEMMA DoAssumeIntent ==
  ASSUME CeremonyInv, NEW kind \in {"root", "writer"}, process.todo # <<>>, Here = AssumeStep(kind),
         process.stage = "inspect", AssumeIntent(kind),
         UNCHANGED <<clock, exists, facts, receipt, providerVars, losses>>
  PROVE  CeremonyInv'
  <1> DEFINE n == NextSession(kind)
  <1>1. /\ n \in SessionIds /\ n[1] = kind /\ journal[n] = "none" /\ Record(n, "intent")
        /\ UNCHANGED <<clock, session, process, facts, receipt, cloud, trail, issued, flight, sent>>
    BY NextIs DEF AssumeIntent, providerVars
  <1>2. /\ JournalGoesOn /\ journal'[n] = "intent"
        /\ \A y \in Ids : y # n => journal'[y] = journal[y]
        /\ \A y \in Ids : y \notin SessionIds => journal'[y] = journal[y]
    BY <1>1, SessionWritten
  <1> HIDE DEF n
  <1>3. /\ journal[S("result")] = "none" /\ Free(kind)
        /\ \A s \in SessionIds : Asks(s) => s[1] = kind
        /\ Here \notin Mutations
    BY AtAssume
  <1>4. \A s \in SessionIds : ~Asks(s) /\ ~Asks(s)'
    BY <1>1 DEF Asks
  <1>5. \A s \in SessionIds : /\ Live(s)' <=> Live(s)
                              /\ journal'[s] = "started" <=> journal[s] = "started"
                              /\ Active(s)' <=> Active(s)
    BY <1>1, <1>2, IdsAre DEF Live, Active
  <1>6. \A k \in {"root", "writer"} : k # kind => LastOf(k)' = LastOf(k)
    BY <1>1, <1>2, LastStays
  <1>7. \A s \in SessionIds : s[1] = kind => ~Active(s)
    BY <1>3, <1>4 DEF Free
  <1>8. SessionsAreKnown'
    <2>1. SUFFICES ASSUME NEW s \in SessionIds
                   PROVE  /\ issued[s] # Never =>
                               issued[s] <= clock /\ s \notin flight
                               /\ journal'[s] \in {"started", "accepted"}
                          /\ s \in flight => journal'[s] = "started" /\ clock <= session[s].at + Lag
                          /\ journal'[s] = "accepted" /\ issued[s] # Never =>
                               session[s].until = issued[s] + Duration
                               /\ session[s].until <= session[s].safe
      BY <1>1, <1>4 DEF SessionsAreKnown
    <2>2. s # n => journal'[s] = journal[s]
      BY <1>2, IdsAre
    <2>3. s = n => journal[s] = "none" /\ journal'[s] = "intent"
      BY <1>1, <1>2
    <2> QED BY <2>2, <2>3 DEF CeremonyInv, SessionsAreKnown
  <1>9. OneActive' /\ (Quiet => Quiet')
    BY <1>5 DEF CeremonyInv, OneActive, Quiet
  <1>10. CeremonyTypeOK'
    BY <1>1, <1>2 DEF CeremonyInv, CeremonyTypeOK, JournalGoesOn
  <1>11. GoesOn
    <2>1. OnlyLast => OnlyLast'
      BY <1>4, <1>5, <1>6, <1>7, SessionsAre DEF OnlyLast
    <2>2. \A k \in {"root", "writer"} : Free(k) => Free(k)'
      BY <1>4, <1>5 DEF Free
    <2> QED BY <1>1, <1>2, <2>1, <2>2, IdsAre DEF GoesOn
  <1>12. SendIsFirst
    BY <1>1 DEF SendIsFirst
  <1>13. clock' >= clock /\ process'.todo = process.todo
    BY <1>1 DEF CeremonyInv, CeremonyTypeOK
  <1> QED BY <1>1, <1>2, <1>3, <1>8, <1>9, <1>10, <1>11, <1>12, <1>13, SessionMoves

\* The start of a session makes it the one session of its role that may live.
LEMMA DoAssumeStart ==
  ASSUME CeremonyInv, NEW kind \in {"root", "writer"}, process.todo # <<>>, Here = AssumeStep(kind),
         process.stage = "inspect", AssumeStart(kind), kind = "writer" => ~Accepted(S("seal")),
         UNCHANGED <<clock, exists, facts, receipt, providerVars, losses>>
  PROVE  CeremonyInv'
  <1> DEFINE n == NextSession(kind)
  <1>1. /\ n \in SessionIds /\ n[1] = kind /\ n = LastOf(kind)
        /\ journal[n] = "intent" /\ Record(n, "started")
        /\ session' = [session EXCEPT ![n].at = clock] /\ Pause("send")
        /\ clock + Duration + CleanupReserve < NotAfter
        /\ UNCHANGED <<clock, facts, receipt, cloud, trail, issued, flight, sent>>
    BY NextIs DEF AssumeStart, MayAssume, providerVars
  <1>2. /\ JournalGoesOn /\ journal'[n] = "started"
        /\ \A y \in Ids : y # n => journal'[y] = journal[y]
        /\ \A y \in Ids : y \notin SessionIds => journal'[y] = journal[y]
    BY <1>1, SessionWritten
  <1> HIDE DEF n
  <1>3. /\ journal[S("result")] = "none" /\ Free(kind)
        /\ Here \notin Mutations
    BY AtAssume
  <1>4. /\ clock \in Nat /\ Lag \in Nat /\ Duration \in Nat /\ CleanupReserve \in Nat /\ NotAfter \in Nat
        /\ session \in [SessionIds -> [at : Nat, until : Nat, safe : Nat]]
        /\ clock' = clock
    BY <1>1, CeremonyAssumption DEF CeremonyInv, CeremonyTypeOK
  <1>5. /\ session' \in [SessionIds -> [at : Nat, until : Nat, safe : Nat]]
        /\ session'[n].at = clock
        /\ \A u \in SessionIds : u # n => session'[u] = session[u]
    BY <1>1, <1>4
  <1>6. /\ process'.todo = process.todo /\ process'.expired = process.expired
        /\ process'.stage = "send"
        /\ process' \in [todo : Seq(CeremonySteps),
                         stage : {"none", "open", "inspect", "send", "after"}, expired : BOOLEAN]
    BY <1>1 DEF CeremonyInv, CeremonyTypeOK, Pause
  <1>7. \A k \in {"root", "writer"} : LastOf(k)' = LastOf(k)
    BY <1>1, <1>2, LastStays
  <1>8. /\ \A s \in SessionIds : ~Asks(s)
        /\ \A s \in SessionIds : Asks(s)' <=> s = n
    <2>1. \A s \in SessionIds : ~Asks(s)
      BY DEF Asks
    <2>2. \A s \in SessionIds : Asks(s)' <=> (Here = AssumeStep(s[1]) /\ s = LastOf(s[1])')
      BY <1>6 DEF Asks, Here, AssumeStep
    <2>3. \A s \in SessionIds : Here = AssumeStep(s[1]) <=> s[1] = kind
      BY SessionsAre DEF AssumeStep, S
    <2> QED BY <1>1, <1>7, <2>1, <2>2, <2>3
  <1>9. \A s \in SessionIds : s # n => /\ journal'[s] = journal[s]
                                       /\ Active(s)' <=> Active(s)
    BY <1>1, <1>2, IdsAre DEF Live, Active
  <1>10. \A s \in SessionIds : s[1] = kind => ~Active(s)
    BY <1>3, <1>8 DEF Free
  <1>11. SessionsAreKnown'
    <2>1. issued[n] = Never /\ n \notin flight
      BY <1>1 DEF CeremonyInv, SessionsAreKnown
    <2>2. clock <= session'[n].at + Lag
      BY <1>4, <1>5
    <2>3. kind = "writer" => ~Accepted(S("seal"))'
      BY <1>2, IdsAre DEF Accepted
    <2>4. ASSUME NEW s \in SessionIds
          PROVE  /\ issued'[s] # Never =>
                       issued'[s] <= clock' /\ s \notin flight'
                       /\ journal'[s] \in {"started", "accepted"}
                 /\ s \in flight' => journal'[s] = "started" /\ clock' <= session'[s].at + Lag
                 /\ journal'[s] = "accepted" /\ issued'[s] # Never =>
                       session'[s].until = issued'[s] + Duration
                       /\ session'[s].until <= session'[s].safe
                 /\ Asks(s)' => /\ journal'[s] = "started" /\ issued'[s] = Never
                                /\ s \notin flight' /\ clock' <= session'[s].at + Lag
                                /\ s[1] = "writer" => ~Accepted(S("seal"))'
      <3>1. CASE s = n
        BY <1>1, <1>2, <1>4, <2>1, <2>2, <2>3, <3>1
      <3>2. CASE s # n
        <4>1. journal'[s] = journal[s] /\ session'[s] = session[s] /\ ~Asks(s)'
          BY <1>5, <1>8, <1>9, <3>2
        <4> QED BY <1>1, <4>1 DEF CeremonyInv, SessionsAreKnown
      <3> QED BY <3>1, <3>2
    <2> QED BY <2>4 DEF SessionsAreKnown, Never
  <1>12. OneActive'
    BY <1>1, <1>9, <1>10 DEF CeremonyInv, OneActive
  <1>13. CeremonyTypeOK'
    BY <1>1, <1>2, <1>5, <1>6 DEF CeremonyInv, CeremonyTypeOK, JournalGoesOn
  <1>14. GoesOn
    <2>1. OnlyLast => OnlyLast'
      BY <1>1, <1>7, <1>8, <1>9, SessionsAre DEF OnlyLast
    <2>2. \A k \in {"root", "writer"} : Free(k) => Free(k)'
      BY <1>8, <1>9 DEF Free
    <2> QED BY <1>2, <1>6, <2>1, <2>2, IdsAre DEF GoesOn
  <1>15. SendIsFirst
    BY <1>3, <1>6 DEF SendIsFirst, Here
  <1>16. ~(clock >= NotAfter) /\ ~Accepted(S("result")) /\ clock' >= clock
    BY <1>1, <1>3, <1>4 DEF Accepted
  <1> QED BY <1>1, <1>2, <1>3, <1>6, <1>11, <1>12, <1>13, <1>14, <1>15, <1>16, SessionMoves

\* The answer to the request: the session lives from now on.
LEMMA DoAssumeAnswer ==
  ASSUME CeremonyInv, NEW kind \in {"root", "writer"}, process.todo # <<>>, Here = AssumeStep(kind),
         process.stage = "send", issued' = [issued EXCEPT ![LastOf(kind)] = clock],
         SessionAccepted(LastOf(kind), clock + Duration, clock + Duration + Lag), Advance,
         UNCHANGED <<clock, exists, facts, receipt, cloud, trail, flight, sent>>
  PROVE  CeremonyInv'
  <1> DEFINE n == LastOf(kind)
  <1>1. n \in SessionIds /\ n[1] = kind /\ Asks(n)
    BY SessionsAre DEF Asks
  <1>2. /\ journal[n] = "started" /\ issued[n] = Never /\ n \notin flight
    BY <1>1 DEF CeremonyInv, SessionsAreKnown
  <1>3. /\ clock \in Nat /\ Lag \in Nat /\ Duration \in Nat
        /\ issued \in [SessionIds -> Nat \cup {Never}]
        /\ clock' = clock
    BY CeremonyAssumption DEF CeremonyInv, CeremonyTypeOK
  <1>4. /\ session' \in [SessionIds -> [at : Nat, until : Nat, safe : Nat]]
        /\ session'[n].until = clock + Duration /\ session'[n].safe = clock + Duration + Lag
        /\ \A u \in SessionIds : u # n => session'[u] = session[u]
        /\ Record(n, "accepted")
    <2>1. clock + Duration \in Nat /\ clock + Duration + Lag \in Nat
      BY <1>3
    <2> QED BY <1>1, <2>1, AcceptsSession
  <1>5. /\ JournalGoesOn /\ journal'[n] = "accepted"
        /\ \A y \in Ids : y # n => journal'[y] = journal[y]
        /\ \A y \in Ids : y \notin SessionIds => journal'[y] = journal[y]
    BY <1>1, <1>2, <1>4, SessionWritten
  <1>6. /\ issued' \in [SessionIds -> Nat \cup {Never}] /\ issued'[n] = clock
        /\ \A u \in SessionIds : u # n => issued'[u] = issued[u]
    BY <1>1, <1>3
  <1>7. \A k \in {"root", "writer"} : LastOf(k)' = LastOf(k)
    BY <1>1, <1>2, <1>5, LastStays
  <1> HIDE DEF n
  <1>8. /\ journal[S("result")] = "none" /\ Free(kind)
        /\ \A s \in SessionIds : Asks(s) => s[1] = kind
        /\ Here \in Waits
    BY AtAssume
  <1>9. /\ process'.todo = Tail(process.todo) /\ process'.expired = process.expired
        /\ process'.stage = "inspect"
        /\ process' \in [todo : Seq(CeremonySteps),
                         stage : {"none", "open", "inspect", "send", "after"}, expired : BOOLEAN]
    BY AheadIs DEF CeremonyInv, CeremonyTypeOK, Advance
  <1>10. AssumeStep(kind) \notin Ahead'
    BY <1>9, AtAssume
  <1>11. /\ \A s \in SessionIds : ~Asks(s)'
         /\ \A s \in SessionIds : Asks(s) => s = n
    <2>1. \A s \in SessionIds : Asks(s) => s = LastOf(kind)
      BY <1>8 DEF Asks
    <2> QED BY <2>1, <1>9 DEF Asks, n
  <1>12. \A s \in SessionIds : s # n => /\ journal'[s] = journal[s]
                                        /\ Live(s)' <=> Live(s)
                                        /\ Active(s)' <=> Active(s)
    BY <1>3, <1>5, <1>6, IdsAre DEF Live, Active
  <1>13. \A s \in SessionIds : s[1] = kind /\ s # n => ~Active(s)
    BY <1>8, <1>11 DEF Free
  <1>14. Active(n)
    BY <1>2 DEF Active
  <1>15. SessionsAreKnown'
    <2>1. ASSUME NEW s \in SessionIds
          PROVE  /\ issued'[s] # Never =>
                       issued'[s] <= clock' /\ s \notin flight'
                       /\ journal'[s] \in {"started", "accepted"}
                 /\ s \in flight' => journal'[s] = "started" /\ clock' <= session'[s].at + Lag
                 /\ journal'[s] = "accepted" /\ issued'[s] # Never =>
                       session'[s].until = issued'[s] + Duration
                       /\ session'[s].until <= session'[s].safe
                 /\ ~Asks(s)'
      <3>1. CASE s = n
        BY <1>2, <1>3, <1>4, <1>5, <1>6, <1>11, <3>1
      <3>2. CASE s # n
        <4>1. journal'[s] = journal[s] /\ session'[s] = session[s] /\ issued'[s] = issued[s]
          BY <1>4, <1>6, <1>12, <3>2
        <4> QED BY <1>3, <1>11, <4>1 DEF CeremonyInv, SessionsAreKnown
      <3> QED BY <3>1, <3>2
    <2> QED BY <2>1 DEF SessionsAreKnown, Never
  <1>16. OneActive'
    BY <1>12, <1>14 DEF CeremonyInv, OneActive
  <1>17. CeremonyTypeOK'
    BY <1>3, <1>4, <1>5, <1>6, <1>9 DEF CeremonyInv, CeremonyTypeOK, JournalGoesOn
  <1>18. GoesOn
    <2>1. OnlyLast => OnlyLast'
      <3>1. ASSUME OnlyLast, NEW s \in SessionIds, Active(s)'
            PROVE  s = LastOf(s[1])' /\ journal'[s] # "started"
        <4>1. CASE s = n
          BY <1>1, <1>5, <1>7, <4>1 DEF n
        <4>2. CASE s # n
          <5>1. Active(s) /\ ~Asks(s)
            BY <1>11, <1>12, <3>1, <4>2
          <5>2. s = LastOf(s[1]) /\ journal[s] # "started"
            BY <3>1, <5>1 DEF OnlyLast
          <5> QED BY <1>7, <1>12, <4>2, <5>2, SessionsAre
        <4> QED BY <4>1, <4>2
      <3> QED BY <3>1 DEF OnlyLast
    <2>2. \A k \in {"root", "writer"} : k # kind /\ Free(k) => Free(k)'
      BY <1>1, <1>8, <1>12 DEF Free
    <2> QED BY <1>5, <1>9, <1>10, <2>1, <2>2, IdsAre DEF GoesOn
  <1>19. SendIsFirst
    BY <1>9 DEF SendIsFirst
  <1>20. ~Quiet /\ clock' >= clock
    BY <1>1, <1>3, <1>14 DEF Quiet
  <1>21. Did
    BY <1>8, DidWait DEF AssumeStep, S
  <1> QED BY <1>5, <1>8, <1>9, <1>15, <1>16, <1>17, <1>18, <1>19, <1>20, <1>21, SessionMoves

\* A request without an answer: the session may still be issued.
LEMMA DoAssumeLost ==
  ASSUME CeremonyInv, NEW kind \in {"root", "writer"}, process.todo # <<>>, Here = AssumeStep(kind),
         process.stage = "send", flight' = flight \cup {LastOf(kind)}, Reject,
         UNCHANGED <<clock, exists, journal, session, facts, receipt, cloud, trail, issued, sent>>
  PROVE  CeremonyInv'
  <1> DEFINE n == LastOf(kind)
  <1>1. n \in SessionIds /\ n[1] = kind /\ Asks(n)
    BY SessionsAre DEF Asks
  <1>2. /\ journal[n] = "started" /\ issued[n] = Never /\ clock <= session[n].at + Lag
    BY <1>1 DEF CeremonyInv, SessionsAreKnown
  <1>3. JournalGoesOn
    BY Unwritten DEF JournalForward
  <1> HIDE DEF n
  <1>4. process' = NoRun /\ process'.stage = "none"
    BY DEF Reject, NoRun
  <1>5. \A s \in SessionIds : /\ Active(s)' <=> Active(s)
                              /\ Live(s)' <=> Live(s)
                              /\ ~Asks(s)'
    BY <1>4 DEF Active, Live, Asks
  <1>6. \A k \in {"root", "writer"} : LastOf(k)' = LastOf(k)
    BY DEF LastOf
  <1>7. SessionsAreKnown'
    BY <1>2, <1>5 DEF CeremonyInv, SessionsAreKnown, n
  <1>8. OneActive' /\ (Quiet => Quiet') /\ (AllAnswered => AllAnswered')
    BY <1>5, <1>6, SessionsAre DEF CeremonyInv, OneActive, Quiet, AllAnswered
  <1>9. CeremonyTypeOK'
    <2>1. process' \in [todo : Seq(CeremonySteps),
                        stage : {"none", "open", "inspect", "send", "after"}, expired : BOOLEAN]
      BY <1>4 DEF NoRun
    <2> QED BY <2>1 DEF CeremonyInv, CeremonyTypeOK
  <1>10. SendIsFirst
    BY <1>4 DEF SendIsFirst
  <1>11. clock' >= clock
    BY DEF CeremonyInv, CeremonyTypeOK
  <1>12. \A m \in Mutations : m \in flight' => m \in flight
    BY <1>1, IdsAre DEF n
  <1> QED BY <1>3, <1>4, <1>7, <1>8, <1>9, <1>10, <1>11, <1>12, SessionMoves

\* Asking for a session: the intent, the start, the refusal, the request.
LEMMA DoAssume ==
  ASSUME CeremonyInv, AssumeRoot \/ AssumeWriter
  PROVE  CeremonyInv'
  <1>1. PICK kind \in {"root", "writer"} :
          /\ process.todo # <<>> /\ Here = AssumeStep(kind) /\ Assume(kind)
          /\ kind = "writer" => ~Accepted(S("seal"))
    <2>1. CASE AssumeRoot
      <3>1. process.todo # <<>> /\ Here = S("assumeRoot") /\ Assume("root")
        BY <2>1, DoingIs DEF AssumeRoot
      <3> QED BY <3>1 DEF AssumeStep
    <2>2. CASE AssumeWriter
      <3>1. process.todo # <<>> /\ Here = S("assumeWriter") /\ Assume("writer")
            /\ ~Accepted(S("seal"))
        BY <2>2, DoingIs DEF AssumeWriter
      <3> QED BY <3>1 DEF AssumeStep
    <2> QED BY <2>1, <2>2
  <1>2. CASE AssumeJournal(kind)
    <2>1. /\ process.stage = "inspect"
          /\ AssumeIntent(kind) \/ AssumeStart(kind) \/ AssumeRefused(kind)
          /\ UNCHANGED <<clock, exists, facts, receipt, providerVars, losses>>
      BY <1>2 DEF AssumeJournal
    <2>2. CASE AssumeIntent(kind)
      BY <1>1, <2>1, <2>2, DoAssumeIntent
    <2>3. CASE AssumeStart(kind)
      BY <1>1, <2>1, <2>3, DoAssumeStart
    <2>4. CASE AssumeRefused(kind)
      BY <2>1, <2>4, Rejects, NothingMoves DEF AssumeRefused, Reject, durable
    <2> QED BY <2>1, <2>2, <2>3, <2>4
  <1>3. CASE AssumeSend(kind)
    <2>1. /\ process.stage = "send"
          /\ UNCHANGED <<clock, exists, facts, receipt, cloud, trail, sent>>
      BY <1>3 DEF AssumeSend
    <2>2. \/ /\ issued' = [issued EXCEPT ![LastOf(kind)] = clock]
             /\ SessionAccepted(LastOf(kind), clock + Duration, clock + Duration + Lag)
             /\ Advance /\ UNCHANGED flight
          \/ flight' = flight \cup {LastOf(kind)} /\ Reject /\ UNCHANGED <<journal, session, issued>>
          \/ Reject /\ UNCHANGED <<journal, session, issued, flight>>
      BY <1>3 DEF AssumeSend
    <2>3. CASE /\ issued' = [issued EXCEPT ![LastOf(kind)] = clock]
               /\ SessionAccepted(LastOf(kind), clock + Duration, clock + Duration + Lag)
               /\ Advance /\ UNCHANGED flight
      BY <1>1, <2>1, <2>3, DoAssumeAnswer
    <2>4. CASE flight' = flight \cup {LastOf(kind)} /\ Reject /\ UNCHANGED <<journal, session, issued>>
      BY <1>1, <2>1, <2>4, DoAssumeLost
    <2>5. CASE Reject /\ UNCHANGED <<journal, session, issued, flight>>
      BY <2>1, <2>5, Rejects DEF Reject, ProviderStill, durable
    <2> QED BY <2>2, <2>3, <2>4, <2>5
  <1> QED BY <1>1, <1>2, <1>3 DEF Assume

\* With the secrets sealed no session of the writer is asked for.
LEMMA DoWriterSkipped ==
  ASSUME CeremonyInv, WriterSkipped
  PROVE  CeremonyInv'
  <1>1. /\ process.todo # <<>> /\ Here = AssumeStep("writer") /\ Accepted(S("seal")) /\ Advance
        /\ UNCHANGED <<clock, journal, session, facts, receipt, cloud, trail, issued, flight, sent>>
    BY DoingIs DEF WriterSkipped, durable, providerVars, AssumeStep
  <1>2. /\ journal[S("result")] = "none" /\ Here \in Waits
        /\ \A s \in SessionIds : Asks(s) => s[1] = "writer"
    BY <1>1, AtAssume
  <1>3. AssumeStep("writer") \notin Ahead' /\ process'.todo = Tail(process.todo)
    BY <1>1, AtAssume DEF Advance, CeremonyInv, CeremonyTypeOK
  <1>4. /\ process'.expired = process.expired /\ process'.stage = "inspect"
        /\ process' \in [todo : Seq(CeremonySteps),
                         stage : {"none", "open", "inspect", "send", "after"}, expired : BOOLEAN]
    BY <1>1, AheadIs DEF CeremonyInv, CeremonyTypeOK, Advance
  <1>5. \A s \in SessionIds : ~Asks(s) /\ ~Asks(s)'
    <2>1. \A s \in SessionIds : ~Asks(s)
      BY <1>1, <1>2 DEF CeremonyInv, SessionsAreKnown
    <2> QED BY <1>4, <2>1 DEF Asks
  <1>6. JournalForward
    BY <1>1, Unwritten
  <1>7. /\ SessionsAreKnown' /\ OneActive' /\ (Quiet' <=> Quiet) /\ (AllAnswered' <=> AllAnswered)
        /\ OnlyLast' <=> OnlyLast
        /\ \A kind \in {"root", "writer"} : Free(kind)' <=> Free(kind)
    BY <1>1, <1>5, <1>6, SessionsStay
  <1>8. CeremonyTypeOK'
    BY <1>1, <1>4, <1>6, TypesStay
  <1>9. GoesOn
    BY <1>1, <1>4, <1>7 DEF GoesOn
  <1>10. SendIsFirst
    BY <1>4 DEF SendIsFirst
  <1>11. Did
    BY <1>1, <1>2, DidWait DEF AssumeStep, S
  <1>12. clock' >= clock
    BY <1>1 DEF CeremonyInv, CeremonyTypeOK
  <1> QED BY <1>1, <1>3, <1>6, <1>7, <1>8, <1>9, <1>10, <1>11, <1>12, SessionMoves DEF JournalForward

\* Time passes, a request arrives, an answer is found: nothing gets more active.
LEMMA SessionsCalm ==
  ASSUME CeremonyInv, \A s \in SessionIds : Active(s)' => Active(s),
         \A s \in SessionIds : Asks(s)' <=> Asks(s),
         \A kind \in {"root", "writer"} : LastOf(kind)' = LastOf(kind),
         \A s \in SessionIds : journal'[s] = "started" => journal[s] = "started",
         process' = process, journal'[S("result")] = journal[S("result")]
  PROVE  OneActive' /\ GoesOn /\ (Quiet => Quiet')
  <1>1. OneActive' /\ (Quiet => Quiet')
    BY DEF CeremonyInv, OneActive, Quiet
  <1>2. OnlyLast => OnlyLast'
    BY SessionsAre DEF OnlyLast
  <1>3. \A kind \in {"root", "writer"} : Free(kind) => Free(kind)'
    BY DEF Free
  <1> QED BY <1>1, <1>2, <1>3 DEF GoesOn

\* A request that nobody waits for is served.
LEMMA DoSessionArrivesLate ==
  ASSUME CeremonyInv, NEW n \in flight, SessionArrivesLate(n)
  PROVE  CeremonyInv'
  <1>1. /\ n \in SessionIds /\ flight' = flight \ {n} /\ issued' = [issued EXCEPT ![n] = clock]
        /\ UNCHANGED <<clock, journal, session, facts, receipt, process, cloud, trail, sent>>
    BY DEF SessionArrivesLate, durable
  <1>2. /\ journal[n] = "started" /\ issued[n] = Never /\ ~Asks(n)
    BY <1>1 DEF CeremonyInv, SessionsAreKnown
  <1>3. /\ clock \in Nat /\ issued \in [SessionIds -> Nat \cup {Never}] /\ clock' = clock
    BY <1>1 DEF CeremonyInv, CeremonyTypeOK
  <1>4. /\ issued' \in [SessionIds -> Nat \cup {Never}] /\ issued'[n] = clock
        /\ \A u \in SessionIds : u # n => issued'[u] = issued[u]
    BY <1>1, <1>3
  <1>5. JournalForward
    BY <1>1, Unwritten
  <1>6. \A s \in SessionIds : Asks(s)' <=> Asks(s)
    BY <1>1 DEF Asks, Here, AssumeStep, LastOf
  <1>7. \A s \in SessionIds : Active(s)' => Active(s)
    BY <1>1, <1>2, <1>4 DEF Active, Live
  <1>8. \A kind \in {"root", "writer"} : LastOf(kind)' = LastOf(kind)
    BY <1>1 DEF LastOf
  <1>9. SessionsAreKnown'
    <2>1. Accepted(S("seal"))' <=> Accepted(S("seal"))
      BY <1>1 DEF Accepted
    <2>2. ASSUME NEW s \in SessionIds
          PROVE  /\ issued'[s] # Never =>
                       issued'[s] <= clock' /\ s \notin flight'
                       /\ journal'[s] \in {"started", "accepted"}
                 /\ s \in flight' => journal'[s] = "started" /\ clock' <= session'[s].at + Lag
                 /\ journal'[s] = "accepted" /\ issued'[s] # Never =>
                       session'[s].until = issued'[s] + Duration
                       /\ session'[s].until <= session'[s].safe
                 /\ Asks(s)' => /\ journal'[s] = "started" /\ issued'[s] = Never
                                /\ s \notin flight' /\ clock' <= session'[s].at + Lag
                                /\ s[1] = "writer" => ~Accepted(S("seal"))'
      <3>1. CASE s = n
        BY <1>1, <1>2, <1>3, <1>4, <1>6, <3>1
      <3>2. CASE s # n
        BY <1>1, <1>4, <1>6, <2>1, <3>2 DEF CeremonyInv, SessionsAreKnown
      <3> QED BY <3>1, <3>2
    <2> QED BY <2>2 DEF SessionsAreKnown, Never
  <1>10. OneActive' /\ GoesOn /\ (Quiet => Quiet')
    BY <1>1, <1>6, <1>7, <1>8, SessionsCalm
  <1>11. ~AllAnswered
    BY <1>1, <1>2 DEF AllAnswered
  <1>12. CeremonyTypeOK'
    BY <1>1, <1>4 DEF CeremonyInv, CeremonyTypeOK
  <1>13. SendIsFirst
    BY <1>1, <1>5, SameProcess
  <1>14. clock' >= clock
    BY <1>3
  <1> QED BY <1>1, <1>5, <1>9, <1>10, <1>11, <1>12, <1>13, <1>14, SessionMoves DEF JournalForward

\* A lost answer is found, or proved never to come.
LEMMA DoReconcileLostSession ==
  ASSUME CeremonyInv, NEW n \in SessionIds, ReconcileLostSession(n)
  PROVE  CeremonyInv'
  <1> DEFINE over == session[n].at + Duration + Lag
  <1>1. /\ Here = S("sessions") /\ process.todo # <<>> /\ journal[n] = "started"
        /\ UNCHANGED <<clock, facts, receipt, process, cloud, trail, issued, flight, sent>>
        /\ \/ /\ issued[n] # Never
              /\ SessionAccepted(n, issued[n] + Duration, issued[n] + Duration + Lag)
           \/ /\ issued[n] = Never /\ clock >= over
              /\ SessionAccepted(n, over, over)
    BY DoingIs DEF ReconcileLostSession, providerVars
  <1>2. /\ clock \in Nat /\ Lag \in Nat /\ Duration \in Nat \ {0}
        /\ issued \in [SessionIds -> Nat \cup {Never}] /\ clock' = clock
        /\ session[n].at \in Nat
    BY <1>1, CeremonyAssumption DEF CeremonyInv, CeremonyTypeOK
  <1>3. /\ n \notin flight
        /\ session' \in [SessionIds -> [at : Nat, until : Nat, safe : Nat]]
        /\ issued[n] # Never => /\ session'[n].until = issued[n] + Duration
                                /\ session'[n].until <= session'[n].safe
        /\ \A u \in SessionIds : u # n => session'[u] = session[u]
        /\ Record(n, "accepted")
    <2>1. CASE issued[n] # Never
               /\ SessionAccepted(n, issued[n] + Duration, issued[n] + Duration + Lag)
      <3>1. n \notin flight
        BY <2>1 DEF CeremonyInv, SessionsAreKnown
      <3>2. issued[n] + Duration \in Nat /\ issued[n] + Duration + Lag \in Nat
            /\ issued[n] + Duration <= issued[n] + Duration + Lag
        BY <1>2, <2>1
      <3> QED BY <2>1, <3>1, <3>2, AcceptsSession
    <2>2. CASE issued[n] = Never /\ clock >= over /\ SessionAccepted(n, over, over)
      <3>1. n \in flight => clock <= session[n].at + Lag
        BY DEF CeremonyInv, SessionsAreKnown
      <3>2. n \notin flight
        BY <1>2, <2>2, <3>1
      <3>3. over \in Nat
        BY <1>2
      <3> QED BY <2>2, <3>2, <3>3, AcceptsSession
    <2> QED BY <1>1, <2>1, <2>2
  <1>4. /\ JournalGoesOn /\ journal'[n] = "accepted"
        /\ \A y \in Ids : y # n => journal'[y] = journal[y]
        /\ \A y \in Ids : y \notin SessionIds => journal'[y] = journal[y]
    BY <1>1, <1>3, SessionWritten
  <1>5. \A s \in SessionIds : ~Asks(s) /\ ~Asks(s)'
    BY <1>1 DEF Asks, AssumeStep, Here, S
  <1>6. \A kind \in {"root", "writer"} : LastOf(kind)' = LastOf(kind)
    BY <1>1, <1>4, LastStays
  <1>7. \A s \in SessionIds : /\ journal'[s] = "started" => journal[s] = "started"
                              /\ Active(s)' => Active(s)
    BY <1>1, <1>4, IdsAre DEF Active, Live
  <1>8. SessionsAreKnown'
    <2>1. ASSUME NEW s \in SessionIds
          PROVE  /\ issued'[s] # Never =>
                       issued'[s] <= clock' /\ s \notin flight'
                       /\ journal'[s] \in {"started", "accepted"}
                 /\ s \in flight' => journal'[s] = "started" /\ clock' <= session'[s].at + Lag
                 /\ journal'[s] = "accepted" /\ issued'[s] # Never =>
                       session'[s].until = issued'[s] + Duration
                       /\ session'[s].until <= session'[s].safe
                 /\ ~Asks(s)'
      <3>1. CASE s = n
        <4>1. issued[s] # Never => issued[s] <= clock
          BY DEF CeremonyInv, SessionsAreKnown
        <4> QED BY <1>1, <1>2, <1>3, <1>4, <1>5, <3>1, <4>1
      <3>2. CASE s # n
        <4>1. journal'[s] = journal[s] /\ session'[s] = session[s]
          BY <1>3, <1>4, <3>2, IdsAre
        <4> QED BY <1>1, <1>5, <4>1 DEF CeremonyInv, SessionsAreKnown
      <3> QED BY <3>1, <3>2
    <2> QED BY <2>1 DEF SessionsAreKnown, Never
  <1>9. journal'[S("result")] = journal[S("result")]
    BY <1>4, IdsAre
  <1>10. OneActive' /\ GoesOn /\ (Quiet => Quiet')
    BY <1>1, <1>5, <1>6, <1>7, <1>9, SessionsCalm
  <1>11. ~AllAnswered
    BY <1>1 DEF AllAnswered
  <1>12. CeremonyTypeOK'
    BY <1>1, <1>3, <1>4 DEF CeremonyInv, CeremonyTypeOK, JournalGoesOn
  <1>13. SendIsFirst
    <2>1. Here \notin Mutations
      BY <1>1, WaitsAre DEF Waits
    <2> QED BY <1>1, <2>1 DEF SendIsFirst, Here
  <1>14. clock' >= clock
    BY <1>2
  <1> QED BY <1>1, <1>4, <1>8, <1>10, <1>11, <1>12, <1>13, <1>14, SessionMoves

\* Time passes, and no request of a session outlives its lag.
LEMMA DoCeremonyTick ==
  ASSUME CeremonyInv, CeremonyTick
  PROVE  CeremonyInv'
  <1>1. /\ clock' = clock + 1 /\ \A s \in Asked : clock < session[s].at + Lag
        /\ UNCHANGED <<journal, session, facts, receipt, process, cloud, trail, issued, flight, sent>>
    BY DEF CeremonyTick, durable, providerVars
  <1>2. /\ clock \in Nat /\ Lag \in Nat /\ Duration \in Nat
        /\ issued \in [SessionIds -> Nat \cup {Never}]
        /\ session \in [SessionIds -> [at : Nat, until : Nat, safe : Nat]]
    BY CeremonyAssumption DEF CeremonyInv, CeremonyTypeOK
  <1>3. JournalForward
    BY <1>1, Unwritten
  <1>4. \A s \in SessionIds : Asks(s)' <=> Asks(s)
    BY <1>1 DEF Asks, Here, AssumeStep, LastOf
  <1>5. \A s \in SessionIds : (Active(s)' => Active(s)) /\ (Live(s)' => Live(s))
    <2>1. ASSUME NEW s \in SessionIds, issued[s] # Never, clock + 1 < issued[s] + Duration
          PROVE  clock < issued[s] + Duration
      <3>1. issued[s] \in Nat
        BY <1>2, <2>1
      <3> QED BY <1>2, <2>1, <3>1
    <2> QED BY <1>1, <2>1 DEF Active, Live
  <1>6. \A kind \in {"root", "writer"} : LastOf(kind)' = LastOf(kind)
    BY <1>1 DEF LastOf
  <1>7. SessionsAreKnown'
    <2>1. Accepted(S("seal"))' <=> Accepted(S("seal"))
      BY <1>1 DEF Accepted
    <2>2. ASSUME NEW s \in SessionIds
          PROVE  /\ issued'[s] # Never =>
                       issued'[s] <= clock' /\ s \notin flight'
                       /\ journal'[s] \in {"started", "accepted"}
                 /\ s \in flight' => journal'[s] = "started" /\ clock' <= session'[s].at + Lag
                 /\ journal'[s] = "accepted" /\ issued'[s] # Never =>
                       session'[s].until = issued'[s] + Duration
                       /\ session'[s].until <= session'[s].safe
                 /\ Asks(s)' => /\ journal'[s] = "started" /\ issued'[s] = Never
                                /\ s \notin flight' /\ clock' <= session'[s].at + Lag
                                /\ s[1] = "writer" => ~Accepted(S("seal"))'
      <3>1. /\ issued[s] # Never =>
                 issued[s] <= clock /\ s \notin flight /\ journal[s] \in {"started", "accepted"}
            /\ s \in flight => journal[s] = "started"
            /\ journal[s] = "accepted" /\ issued[s] # Never =>
                 session[s].until = issued[s] + Duration /\ session[s].until <= session[s].safe
            /\ Asks(s) => /\ journal[s] = "started" /\ issued[s] = Never /\ s \notin flight
                          /\ s[1] = "writer" => ~Accepted(S("seal"))
        BY DEF CeremonyInv, SessionsAreKnown
      <3>2. s \in flight \/ Asks(s) => s \in Asked
        BY <3>1 DEF Asked, Asks
      <3>3. s \in Asked => clock + 1 <= session[s].at + Lag
        BY <1>1, <1>2
      <3>4. issued[s] # Never => issued[s] <= clock + 1
        BY <1>2, <3>1
      <3> QED BY <1>1, <1>4, <2>1, <3>1, <3>2, <3>3, <3>4
    <2> QED BY <2>2 DEF SessionsAreKnown, Never
  <1>8. OneActive' /\ GoesOn /\ (Quiet => Quiet')
    BY <1>1, <1>4, <1>5, <1>6, SessionsCalm
  <1>9. AllAnswered => AllAnswered'
    BY <1>1, <1>5, <1>6, SessionsAre DEF AllAnswered
  <1>10. CeremonyTypeOK' /\ clock' >= clock
    BY <1>1, <1>2 DEF CeremonyInv, CeremonyTypeOK
  <1>11. SendIsFirst
    BY <1>1, <1>3, SameProcess
  <1> QED BY <1>1, <1>3, <1>7, <1>8, <1>9, <1>10, <1>11, SessionMoves DEF JournalForward

-----------------------------------------------------------------------------
(* The program of a process, and every step.                                 *)

\* A program has what it stands on before it, or in the journal.
LEMMA ProgramIsPrepared ==
  ASSUME CeremonyInv, ~Blocked, NEW expired \in BOOLEAN, expired => clock >= NotAfter,
         process'.todo = Program(expired), process'.expired = expired,
         UNCHANGED <<clock, journal, facts>>, Quiet => Quiet'
  PROVE  Prepared' /\ process'.todo \in Seq(CeremonySteps)
  <1>1. /\ \A x \in CeremonySteps : Met(x)' <=> x \in Ahead' \/ Accepted(x)
        /\ \A x \in Ids : Accepted(x)' <=> Accepted(x)
    BY DEF Met, Accepted
  <1>2. Accepted(S("disposition")) => Quiet'
    BY DEF CeremonyInv, JournalIsTrue, Accepted
  <1>3. ~Accepted(S("result")) => journal[S("result")] = "none"
    <2>1. S("result") \in Receipts /\ S("result") \in Ids
      BY IdsAre
    <2>2. journal[S("result")] \in {"none", "intent", "started", "accepted"}
          /\ journal[S("result")] # "started"
      BY <2>1 DEF CeremonyInv, CeremonyTypeOK
    <2> QED BY <2>1, <2>2 DEF Blocked, Accepted
  <1>4. CASE expired /\ ~Accepted(S("result"))
    <2>1. process'.todo = AbandonedSteps
      BY <1>4 DEF Program
    <2>2. Ordered(process'.todo) /\ process'.todo \in Seq(CeremonySteps)
      BY <2>1, AbandonedIs DEF Between
    <2>3. Ahead' =
            (IF Accepted(<<"evidence", 1>>) THEN {}
             ELSE (IF Accepted(S("disposition")) THEN {} ELSE {S("sessions")})
                  \cup {S("disposition"), <<"deletePolicy", 1>>, <<"deleteRole", 1>>, <<"gone", 1>>,
                        <<"evidence", 1>>})
              \cup {S("logout"), S("cleanup")}
      BY <2>1, AbandonedIs DEF Ahead
    <2>4. /\ S("create") \notin Ahead' /\ S("assumeRoot") \notin Ahead' /\ S("assumeWriter") \notin Ahead'
          /\ S("result") \notin Ahead' /\ S("expire") \notin Ahead' /\ S("completion") \notin Ahead'
          /\ S("evidence") \notin Ahead'
      BY <2>3 DEF S
    <2>5. \A kind \in {"root", "writer"} : AssumeStep(kind) \notin Ahead'
      BY <2>4 DEF AssumeStep
    <2>6. S("disposition") \in Ahead' => S("sessions") \in Ahead' \/ Quiet'
      <3>1. S("disposition") \in Ahead' => ~Accepted(<<"evidence", 1>>)
        BY <2>3 DEF S
      <3> QED BY <1>2, <2>3, <3>1
    <2>7. /\ <<"gone", 1>> \in Ahead' => S("disposition") \in Ahead' /\ <<"deleteRole", 1>> \in Ahead'
          /\ <<"evidence", 1>> \in Ahead' => S("disposition") \in Ahead' /\ <<"gone", 1>> \in Ahead'
      BY <2>3 DEF S
    <2>8. Met(<<"evidence", 1>>)' /\ S("logout") \in Ahead'
      BY <2>3 DEF Met, Accepted
    <2> QED BY <1>4, <2>2, <2>4, <2>5, <2>6, <2>7, <2>8 DEF Prepared, Met
  <1>5. CASE ~(expired /\ ~Accepted(S("result")))
    <2>1. Ordered(process'.todo) /\ process'.todo \in Seq(CeremonySteps)
      BY <1>5, ProgramIs DEF Between
    <2> DEFINE setup == IF expired \/ CleanupStarted(0) \/ Accepted(S("evidence"))
                           \/ journal[S("logout")] # "none"
                        THEN {} ELSE {S("create"), S("tag"), S("put")}
               middle == IF ~Accepted(S("result"))
                         THEN {S("sessions"), S("assumeRoot")} \cup ToSet(TargetSteps)
                              \cup {S("assumeWriter"), S("seal"), S("result")}
                         ELSE IF expired /\ ~Accepted(S("completion")) THEN {S("sessions")} ELSE {}
               last == IF Accepted(S("completion")) THEN {} ELSE {S("expire"), S("completion")}
               cleanup == (IF Accepted(S("evidence")) THEN {}
                           ELSE {S("events"), S("deletePolicy"), S("deleteRole"), S("gone"), S("evidence")})
                            \cup {S("logout"), S("cleanup")}
    <2>2. Ahead' = setup \cup middle \cup last \cup cleanup
      BY <1>5, ProgramIs, CleanupIs DEF Ahead
    <2>3. \A m \in ToSet(TargetSteps) :
            m \notin {S("create"), S("assumeRoot"), S("assumeWriter"), S("result"), S("expire"),
                      S("completion"), S("disposition"), <<"gone", 1>>, S("evidence"),
                      <<"evidence", 1>>, S("logout"), S("cleanup")}
      <3>1. \A m \in ToSet(TargetSteps) : m[1] \in {"change", "execute", "protect"}
        BY TargetStepsAre
      <3> QED BY <3>1 DEF S
    <2>4. /\ S("create") \in Ahead' => ~expired
          /\ S("assumeRoot") \in Ahead' => ~Accepted(S("result"))
          /\ S("assumeWriter") \in Ahead' => ~Accepted(S("result"))
          /\ S("result") \in Ahead' => ~Accepted(S("result"))
          /\ S("expire") \in Ahead' => ~Accepted(S("completion"))
          /\ S("completion") \in Ahead' => ~Accepted(S("completion"))
          /\ S("disposition") \notin Ahead' /\ <<"gone", 1>> \notin Ahead'
          /\ S("evidence") \in Ahead' => ~Accepted(S("evidence"))
          /\ <<"evidence", 1>> \notin Ahead'
      <3>1. /\ S("create") \in setup => ~expired
            /\ setup \subseteq {S("create"), S("tag"), S("put")}
        OBVIOUS
      <3>2. /\ middle \subseteq {S("sessions"), S("assumeRoot"), S("assumeWriter"), S("seal"), S("result")}
                                  \cup ToSet(TargetSteps)
            /\ Accepted(S("result")) => middle \subseteq {S("sessions")}
        OBVIOUS
      <3>3. last \subseteq {S("expire"), S("completion")} /\ (Accepted(S("completion")) => last = {})
        OBVIOUS
      <3>4. /\ cleanup \subseteq {S("events"), S("deletePolicy"), S("deleteRole"), S("gone"), S("evidence"),
                                 S("logout"), S("cleanup")}
            /\ Accepted(S("evidence")) => cleanup = {S("logout"), S("cleanup")}
        OBVIOUS
      <3> HIDE DEF setup, middle, last, cleanup
      <3>5. S("create") \in Ahead' => S("create") \in setup
        BY <2>2, <2>3, <3>2, <3>3, <3>4 DEF S
      <3>6. Accepted(S("result")) => /\ S("assumeRoot") \notin Ahead'
                                     /\ S("assumeWriter") \notin Ahead'
                                     /\ S("result") \notin Ahead'
        BY <2>2, <2>3, <3>1, <3>2, <3>3, <3>4 DEF S
      <3>7. Accepted(S("completion")) => S("expire") \notin Ahead' /\ S("completion") \notin Ahead'
        BY <2>2, <2>3, <3>1, <3>2, <3>3, <3>4 DEF S
      <3>8. S("disposition") \notin Ahead' /\ <<"gone", 1>> \notin Ahead' /\ <<"evidence", 1>> \notin Ahead'
        BY <2>2, <2>3, <3>1, <3>2, <3>3, <3>4 DEF S
      <3>9. Accepted(S("evidence")) => S("evidence") \notin Ahead'
        BY <2>2, <2>3, <3>1, <3>2, <3>3, <3>4 DEF S
      <3> QED BY <3>1, <3>5, <3>6, <3>7, <3>8, <3>9
    <2>5. /\ ~Accepted(S("result")) =>
               /\ S("sessions") \in Ahead' /\ S("seal") \in Ahead' /\ S("result") \in Ahead'
               /\ ToSet(TargetSteps) \subseteq Ahead'
          /\ ~Accepted(S("completion")) => S("expire") \in Ahead' /\ S("completion") \in Ahead'
          /\ ~Accepted(S("evidence")) => S("gone") \in Ahead' /\ S("evidence") \in Ahead'
          /\ S("logout") \in Ahead'
      BY <2>2
    <2> HIDE DEF setup, middle, last, cleanup
    <2>6. \A kind \in {"root", "writer"} : AssumeStep(kind) \in Ahead' =>
            journal'[S("result")] = "none" /\ S("sessions") \in Ahead'
      BY <1>3, <2>4, <2>5 DEF AssumeStep
    <2>7. S("result") \in Ahead' =>
            /\ \A m \in ToSet(TargetSteps) : Met(m)'
            /\ Met(S("seal"))'
            /\ S("sessions") \in Ahead'
      BY <2>4, <2>5 DEF Met
    <2>8. Met(S("result"))' /\ Met(S("completion"))' /\ Met(S("evidence"))' /\ Met(S("logout"))'
      BY <2>5 DEF Met, Accepted
    <2>9. /\ S("completion") \in Ahead' => S("expire") \in Ahead'
          /\ S("evidence") \in Ahead' => S("gone") \in Ahead'
      BY <2>4, <2>5
    <2>10. process'.expired => clock' >= NotAfter /\ S("create") \notin Ahead'
      BY <2>4
    <2> QED BY <2>1, <2>4, <2>6, <2>7, <2>8, <2>9, <2>10 DEF Prepared
  <1> QED BY <1>4, <1>5

\* The journal is opened: the process ends, or has a program.
LEMMA DoOpenJournal ==
  ASSUME CeremonyInv, OpenJournal
  PROVE  CeremonyInv'
  <1>1. /\ process.stage = "open" /\ ProviderStill
        /\ UNCHANGED <<clock, journal, session, facts, receipt>>
        /\ \/ process' = NoRun
           \/ /\ ~Blocked
              /\ process' = [todo |-> Program(clock >= NotAfter), stage |-> "inspect",
                             expired |-> clock >= NotAfter]
    BY NothingMoves DEF OpenJournal, Reject
  <1>2. /\ JournalForward /\ NewIsThere
        /\ \A x \in Receipts \cup {S("disposition")} : journal'[x] # "none" => journal[x] # "none"
    BY <1>1, Unwritten
  <1>3. CASE process' = NoRun
    BY <1>1, <1>2, <1>3, Ends DEF ReceiptIsDue
  <1>4. CASE /\ ~Blocked
             /\ process' = [todo |-> Program(clock >= NotAfter), stage |-> "inspect",
                            expired |-> clock >= NotAfter]
    <2> DEFINE expired == clock >= NotAfter
    <2>1. /\ process'.todo = Program(expired) /\ process'.stage = "inspect"
          /\ process'.expired = expired
      BY <1>4
    <2>2. expired \in BOOLEAN
      OBVIOUS
    <2>3. \A s \in SessionIds : ~Asks(s) /\ ~Asks(s)'
      BY <1>1, <2>1 DEF Asks
    <2>4. /\ SessionsAreKnown' /\ OneActive' /\ (Quiet' <=> Quiet) /\ (AllAnswered' <=> AllAnswered)
      BY <1>1, <1>2, <2>3, SessionsStay DEF ProviderStill
    <2>5. SendIsFirst
      BY <2>1 DEF SendIsFirst
    <2>6. /\ SentAfterStart' /\ RoleIsMadeOnce' /\ AcceptedIsThere'
          /\ RoleIsGone => RoleIsGone'
      BY <1>1, <1>2, <2>5, ProviderStays
    <2>7. clock \in Nat /\ clock' \in Nat /\ clock' >= clock
      BY <1>1 DEF CeremonyInv, CeremonyTypeOK
    <2>8. Carried
      BY <1>1, <2>4, <2>6, <2>7 DEF Carried, Accepted, ProviderStill
    <2>9. JournalIsTrue'
      BY <1>1, <1>2, <2>7, <2>8, JournalStays DEF ReceiptIsDue
    <2>10. Prepared' /\ process'.todo \in Seq(CeremonySteps)
      <3> HIDE DEF expired
      <3>1. expired => clock >= NotAfter
        BY DEF expired
      <3> QED BY <1>1, <1>4, <2>1, <2>2, <2>4, <3>1, ProgramIsPrepared
    <2>11. process' \in [todo : Seq(CeremonySteps),
                         stage : {"none", "open", "inspect", "send", "after"}, expired : BOOLEAN]
      BY <1>4, <2>1, <2>10
    <2>12. CeremonyTypeOK'
      BY <1>1, <1>2, <2>11, TypesStay DEF ProviderStill
    <2> QED BY <2>4, <2>6, <2>9, <2>10, <2>12 DEF CeremonyInv
  <1> QED BY <1>1, <1>3, <1>4

\* At the start there is nothing but the root login.
LEMMA CeremonyStarts == CeremonyInit => CeremonyInv
  <1> SUFFICES ASSUME CeremonyInit PROVE CeremonyInv
    OBVIOUS
  <1>1. /\ clock = 0 /\ process = NoRun /\ receipt = "none"
        /\ journal = [s \in Ids |-> "none"]
        /\ session = [s \in SessionIds |-> [at |-> 0, until |-> 0, safe |-> 0]]
        /\ cloud = {S("login")} /\ trail = {}
        /\ issued = [s \in SessionIds |-> Never]
        /\ flight = {} /\ sent = [m \in Mutations |-> 0]
    BY DEF CeremonyInit
  <1>2. \A x \in Ids : journal[x] = "none" /\ ~Accepted(x)
    BY <1>1 DEF Accepted
  <1>3. Prepared /\ \A s \in SessionIds : ~Asks(s)
    BY <1>1, NothingAhead
  <1>4. CeremonyTypeOK
    <2>1. process \in [todo : Seq(CeremonySteps),
                       stage : {"none", "open", "inspect", "send", "after"}, expired : BOOLEAN]
      BY <1>1 DEF NoRun
    <2>2. \A x \in Receipts : journal[x] # "started"
      BY <1>2, IdsAre
    <2> QED BY <1>1, <2>1, <2>2 DEF CeremonyTypeOK
  <1>5. SentAfterStart
    BY <1>1 DEF SentAfterStart, NoRun
  <1>6. RoleIsMadeOnce
    BY <1>1 DEF RoleIsMadeOnce, S
  <1>7. AcceptedIsThere
    <2>1. \A m \in ToSet(TargetSteps) : ~Accepted(m)
      BY <1>2, IdsAre
    <2>2. \A t \in 1..Targets : <<"execute", t>> \notin cloud
      BY <1>1 DEF S
    <2> QED BY <1>2, <2>1, <2>2, IdsAre DEF AcceptedIsThere
  <1>8. \A s \in SessionIds : ~Active(s) /\ issued[s] = Never
    BY <1>1, <1>2, IdsAre DEF Active, Live
  <1>9. SessionsAreKnown /\ OneActive
    BY <1>1, <1>3, <1>8 DEF SessionsAreKnown, OneActive
  <1>10. JournalIsTrue
    <2>1. /\ S("result") \in Ids /\ S("completion") \in Ids /\ S("disposition") \in Ids
          /\ S("evidence") \in Ids /\ <<"evidence", 1>> \in Ids /\ S("cleanup") \in Ids
      BY IdsAre
    <2> QED BY <1>1, <1>2, <2>1 DEF JournalIsTrue
  <1> QED BY <1>3, <1>4, <1>5, <1>6, <1>7, <1>9, <1>10 DEF CeremonyInv

\* Every step of the ceremony keeps the invariant.
LEMMA CeremonyGoesOn == CeremonyInv /\ [CeremonyNext]_ceremonyVars => CeremonyInv'
  <1> SUFFICES ASSUME CeremonyInv, [CeremonyNext]_ceremonyVars PROVE CeremonyInv'
    OBVIOUS
  <1>1. CASE \E mode \in {"NEW", "RECONCILE_ONLY"} : TakeLock(mode)
    BY <1>1, DoTakeLock
  <1>2. CASE OpenJournal BY <1>2, DoOpenJournal
  <1>3. CASE Crash BY <1>3, DoCrash
  <1>4. CASE RecoverStaleLock \/ UNCHANGED ceremonyVars BY <1>4, DoRecoverStaleLock
  <1>5. CASE RecordIntent BY <1>5, DoRecordIntent
  <1>6. CASE SkipMutation BY <1>6, DoSkipMutation
  <1>7. CASE InspectBefore BY <1>7, DoInspectBefore
  <1>8. CASE Send BY <1>8, DoSend
  <1>9. CASE InspectAfter BY <1>9, DoInspectAfter
  <1>10. CASE \E m \in flight : ArrivesLate(m) \/ IsLost(m) \/ SessionArrivesLate(m)
    BY <1>10, DoArrivesLate, DoSessionArrivesLate
  <1>11. CASE \E s \in SessionIds : ReconcileLostSession(s)
    BY <1>11, DoReconcileLostSession
  <1>12. CASE SessionsReconciled \/ SessionsExpired \/ EventsReconciled \/ DeletionsReconciled
    BY <1>12, DoWaits
  <1>13. CASE AssumeRoot \/ AssumeWriter BY <1>13, DoAssume
  <1>14. CASE WriterSkipped BY <1>14, DoWriterSkipped
  <1>15. CASE SealStart \/ SealSend \/ SealSkipped BY <1>15, DoSeal
  <1>16. CASE PersistReceipt BY <1>16, DoPersistReceipt
  <1>17. CASE GivesUp BY <1>17, DoGivesUp
  <1>18. CASE Disposition BY <1>18, DoDisposition
  <1>19. CASE Logout BY <1>19, DoLogout
  <1>20. CASE CeremonyTick BY <1>20, DoCeremonyTick
  <1> QED BY <1>1, <1>2, <1>3, <1>4, <1>5, <1>6, <1>7, <1>8, <1>9, <1>10, <1>11, <1>12, <1>13,
             <1>14, <1>15, <1>16, <1>17, <1>18, <1>19, <1>20 DEF CeremonyNext

-----------------------------------------------------------------------------
(* The theorems.                                                             *)

\* What holds of the journal, the process, the provider and the sessions at
\* every step of the ceremony (prepare-one-time-bootstrap-authority.js).
THEOREM CeremonyInvariant == CeremonySpec => []CeremonyInv
  BY CeremonyStarts, CeremonyGoesOn, PTL DEF CeremonySpec

\* One session of a role, or none.
LEMMA OneLive ==
  ASSUME CeremonyInv, NEW kind \in {"root", "writer"}
  PROVE  Cardinality({s \in Sessions(kind) : Live(s)}) <= 1
  <1> DEFINE live == {s \in Sessions(kind) : Live(s)}
  <1>1. \A s, u \in live : s = u
    BY SessionsAre DEF CeremonyInv, OneActive, Active
  <1>2. live = {} \/ \E s \in live : live = {s}
    BY <1>1
  <1> HIDE DEF live
  <1>3. Cardinality(live) <= 1
    <2>1. Cardinality({}) = 0 BY FS_EmptySet
    <2>2. \A s : Cardinality({s}) = 1 BY FS_Singleton
    <2> QED BY <1>2, <2>1, <2>2
  <1> QED BY <1>3 DEF live

\* However often the runner dies, no mutation is sent twice and no role ever has
\* two sessions at a time (runCrashConvergentMutation, assumeB0WithJournal,
\* assumeWriterWithJournal).
THEOREM CeremonyOneShot == CeremonySpec => []CeremonyIsOneShot
  <1>1. CeremonyInv => CeremonyIsOneShot
    <2>1. CeremonyInv => \A m \in Mutations : sent[m] <= 1
      BY DEF CeremonyInv, SentAfterStart
    <2> QED BY <2>1, OneLive DEF CeremonyIsOneShot
  <1> QED BY <1>1, CeremonyInvariant, PTL

\* A terminal receipt is true when it is written and stays true: the role, its
\* policy and the login are gone for good, no session lives, and what completed
\* has its stacks and its secrets (persistLocalReceipt, the cleanup).
THEOREM CeremonyReceiptsTrue == CeremonySpec => []TerminalReceiptIsTrue
  <1>1. ASSUME CeremonyInv, receipt # "none"
        PROVE  /\ cloud \cap {S("role"), S("policy"), S("login")} = {}
               /\ \A s \in SessionIds : ~Live(s)
               /\ receipt = "completed" => ToSet(TargetSteps) \cup {S("sealed")} \subseteq cloud
    <2>1. Accepted(S("cleanup"))
      BY <1>1 DEF CeremonyInv, JournalIsTrue
    <2>2. /\ Accepted(S("logout"))
          /\ Accepted(S("evidence")) \/ Accepted(<<"evidence", 1>>)
      BY <1>1, <2>1 DEF CeremonyInv, JournalIsTrue, Accepted
    <2>3. RoleIsGone /\ Quiet
      <3>1. CASE Accepted(S("evidence"))
        BY <1>1, <3>1 DEF CeremonyInv, JournalIsTrue, Accepted
      <3>2. CASE Accepted(<<"evidence", 1>>)
        BY <1>1, <3>2 DEF CeremonyInv, JournalIsTrue, Accepted
      <3> QED BY <2>2, <3>1, <3>2
    <2>4. S("role") \notin cloud /\ S("policy") \notin cloud /\ S("login") \notin cloud
      BY <1>1, <2>2, <2>3 DEF RoleIsGone, CeremonyInv, RoleIsMadeOnce, AcceptedIsThere
    <2>5. ASSUME receipt = "completed"
          PROVE  ToSet(TargetSteps) \cup {S("sealed")} \subseteq cloud
      <3>1. Accepted(S("result"))
        BY <1>1, <2>5 DEF CeremonyInv, JournalIsTrue
      <3>2. (\A m \in ToSet(TargetSteps) : Accepted(m)) /\ Accepted(S("seal"))
        BY <1>1, <3>1 DEF CeremonyInv, JournalIsTrue, Accepted
      <3> QED BY <1>1, <3>2 DEF CeremonyInv, AcceptedIsThere
    <2> QED BY <2>3, <2>4, <2>5 DEF Quiet, Active
  <1>2. CeremonyInv => TerminalReceiptIsTrue
    BY <1>1 DEF TerminalReceiptIsTrue
  <1> QED BY <1>2, CeremonyInvariant, PTL

-----------------------------------------------------------------------------
(* RecoveryContinuity.                                                       *)

\* The first k steps are on file, whole.
WholeUpTo(k) == \A i \in 1 .. k : entries[i].file = "whole"

\* Only the last file may still be empty; the marker is the claimer's, and the
\* result is the provider's.
EntriesInv ==
  /\ WholeUpTo(Len(entries) - 1)
  /\ Len(entries) >= Marker => entries[Claim].owner = entries[Marker].owner
  /\ Len(entries) >= Result => entries[Result].result \in results

ClaimedBy(p) == Len(entries) >= Claim /\ entries[Claim].owner = p

\* What a process knows where it is.
WorkerInv(p) ==
  /\ worker[p].pc = "create" => worker[p].k <= Len(entries) + 1 /\ WholeUpTo(worker[p].k - 1)
  /\ worker[p].pc = "write" => Len(entries) = worker[p].k /\ entries[worker[p].k].file = "empty"
  /\ worker[p].pc = "raced" => Len(entries) >= worker[p].k /\ worker[p].k \notin {Claim, Marker}
  /\ worker[p].pc \in {"read", "create", "write"} /\ worker[p].k = Marker =>
       ClaimedBy(p) /\ (worker[p].pc # "write" => Len(entries) = Claim)
  /\ worker[p].pc = "write" /\ worker[p].k \in {Claim, Marker} => entries[worker[p].k].owner = p
  /\ worker[p].pc \in {"call", "check"} =>
       ClaimedBy(p) /\ Len(entries) >= Marker /\ entries[Marker].file = "whole"
  /\ worker[p].pc = "call" => calls = <<>>
  /\ worker[p].pc = "reconcile" => Len(entries) >= Marker
  /\ worker[p].result # NoResult => worker[p].result \in results
  /\ \/ worker[p].pc = "check"
     \/ worker[p].pc \in {"read", "create", "write", "raced"} /\ worker[p].k = Result
     => worker[p].result # NoResult
  /\ told[p] = "COMPLETE" => Len(entries) >= 12

OneWriter ==
  \A p, q \in Workers : worker[p].pc = "write" /\ worker[q].pc = "write" => p = q

CallsInv ==
  /\ Len(calls) <= 1
  /\ calls # <<>> => ClaimedBy(calls[1]) /\ Len(entries) >= Marker /\ entries[Marker].file = "whole"

\* The request goes out once, and only after the marker.
EvidenceInv ==
  /\ asked \in {0, 1} /\ results \subseteq {1}
  /\ results # {} => asked = 1
  /\ asked = 1 => Len(entries) >= Marker

IssuedInv ==
  \A r \in issuedFor :
    r.entries = entries /\ r.unknown = "none" /\ Len(entries) = PlanLength /\ WholeUpTo(PlanLength)

ContinuityInv ==
  /\ CTypeOK /\ EntriesInv /\ OneWriter /\ CallsInv /\ EvidenceInv /\ IssuedInv
  /\ \A p \in Workers : WorkerInv(p)

WorkerShape == [pc : PC, k : 1 .. PlanLength, now : Nat, result : Nat]

FilesStay == entries' = entries
Adds(p) ==
  /\ worker[p].pc = "create" /\ Len(entries) < worker[p].k
  /\ entries' = Append(entries, NewEntry(p))
Completes(p) ==
  worker[p].pc = "write" /\ entries' = [entries EXCEPT ![worker[p].k].file = "whole"]

\* No step on file goes away or changes, but for the last, which is completed.
FilesGrow ==
  /\ entries' \in Seq(Entry) /\ Len(entries') <= PlanLength /\ Len(entries) <= Len(entries')
  /\ \A i \in 1 .. Len(entries) :
       /\ entries'[i].owner = entries[i].owner /\ entries'[i].result = entries[i].result
       /\ entries[i].file = "whole" => entries'[i].file = "whole"

\* The types of what the proofs look at.
LEMMA ContinuityTypes ==
  ASSUME ContinuityInv
  PROVE  /\ entries \in Seq(Entry) /\ Len(entries) \in Nat /\ Len(entries) <= PlanLength
         /\ worker \in [Workers -> WorkerShape] /\ told \in [Workers -> Outcome]
         /\ calls \in Seq(Workers) /\ Len(calls) \in Nat
         /\ \A i \in 1 .. Len(entries) : entries[i] \in Entry
  BY DEF ContinuityInv, CTypeOK, WorkerShape

\* A process that records a step adds one file at the end.
LEMMA AddsOne ==
  ASSUME ContinuityInv, NEW p \in Workers, Adds(p)
  PROVE  /\ FilesGrow /\ Len(entries') = Len(entries) + 1 /\ worker[p].k = Len(entries')
         /\ WholeUpTo(Len(entries)) /\ entries'[Len(entries')] = NewEntry(p)
         /\ \A i \in 1 .. Len(entries) : entries'[i] = entries[i]
  <1>1. worker[p] \in WorkerShape /\ worker[p].k \in 1 .. PlanLength
    BY ContinuityTypes DEF WorkerShape
  <1>2. worker[p].k <= Len(entries) + 1 /\ WholeUpTo(worker[p].k - 1)
    BY DEF Adds, ContinuityInv, WorkerInv
  <1>3. worker[p].k = Len(entries) + 1
    BY <1>1, <1>2, ContinuityTypes DEF Adds
  <1>4. NewEntry(p) \in Entry
    BY <1>1, ContinuityTypes DEF NewEntry, Entry, File, NoResult, WorkerShape
  <1>5. /\ entries' \in Seq(Entry) /\ Len(entries') = Len(entries) + 1
        /\ entries'[Len(entries) + 1] = NewEntry(p)
        /\ \A i \in 1 .. Len(entries) : entries'[i] = entries[i]
    BY <1>4, ContinuityTypes DEF Adds
  <1>6. WholeUpTo(Len(entries))
    <2>1. worker[p].k - 1 = Len(entries)
      BY <1>3, ContinuityTypes
    <2> QED BY <1>2, <2>1
  <1>7. FilesGrow
    BY <1>1, <1>3, <1>5, ContinuityTypes DEF FilesGrow
  <1> QED BY <1>3, <1>5, <1>6, <1>7

\* Its write completes that file.
LEMMA CompletesOne ==
  ASSUME ContinuityInv, NEW p \in Workers, Completes(p)
  PROVE  /\ FilesGrow /\ Len(entries') = Len(entries) /\ worker[p].k = Len(entries)
         /\ Len(entries) >= 1 /\ entries[Len(entries)].file = "empty"
         /\ entries'[Len(entries)].file = "whole"
         /\ \A i \in 1 .. Len(entries) : i # Len(entries) => entries'[i] = entries[i]
  <1> DEFINE n == Len(entries)
  <1>1. worker[p].k \in 1 .. PlanLength
    BY ContinuityTypes DEF WorkerShape
  <1>2. n = worker[p].k /\ entries[n].file = "empty"
    BY DEF Completes, ContinuityInv, WorkerInv
  <1>3. n \in Nat /\ entries \in Seq(Entry) /\ n \in 1 .. n
    BY <1>1, <1>2, ContinuityTypes
  <1>4. entries' = [entries EXCEPT ![n] = [entries[n] EXCEPT !.file = "whole"]]
    BY <1>2 DEF Completes
  <1>5. entries[n] \in Entry /\ [entries[n] EXCEPT !.file = "whole"] \in Entry
    BY <1>3, ContinuityTypes DEF Entry, File
  <1>6. entries' \in Seq(Entry) /\ Len(entries') = n
    BY <1>3, <1>4, <1>5
  <1>7. /\ entries'[n] = [entries[n] EXCEPT !.file = "whole"]
        /\ \A i \in 1 .. n : i # n => entries'[i] = entries[i]
    BY <1>3, <1>4
  <1>8. /\ entries'[n].file = "whole" /\ entries'[n].owner = entries[n].owner
        /\ entries'[n].result = entries[n].result
    BY <1>5, <1>7 DEF Entry
  <1>9. FilesGrow
    <2>1. ASSUME NEW i \in 1 .. n
          PROVE  /\ entries'[i].owner = entries[i].owner /\ entries'[i].result = entries[i].result
                 /\ entries[i].file = "whole" => entries'[i].file = "whole"
      <3>1. CASE i = n BY <1>8, <3>1
      <3>2. CASE i # n BY <1>7, <2>1, <3>2
      <3> QED BY <3>1, <3>2
    <2>2. Len(entries') <= PlanLength /\ n <= Len(entries')
      BY <1>3, <1>6, ContinuityTypes
    <2> QED BY <1>6, <2>1, <2>2 DEF FilesGrow
  <1> QED BY <1>1, <1>2, <1>3, <1>6, <1>7, <1>8, <1>9

\* Whatever a process does to the journal, the journal grows.
LEMMA JournalGrows ==
  ASSUME ContinuityInv, NEW p \in Workers, FilesStay \/ Adds(p) \/ Completes(p)
  PROVE  FilesGrow
  <1>1. CASE FilesStay
    BY <1>1, ContinuityTypes DEF FilesStay, FilesGrow
  <1> QED BY <1>1, AddsOne, CompletesOne

\* What a process knows stays so while another one takes a step.
LEMMA OthersStand ==
  ASSUME ContinuityInv, NEW p \in Workers, NEW q \in Workers, q # p,
         FilesStay \/ Adds(p) \/ Completes(p),
         worker'[q] = worker[q], told'[q] = told[q], results \subseteq results',
         calls' = calls \/ worker[p].pc = "call"
  PROVE  WorkerInv(q)'
  <1> DEFINE k == worker[q].k
  <1>1. k \in 1 .. PlanLength /\ Len(entries) \in Nat
    BY ContinuityTypes DEF WorkerShape
  <1>2. FilesGrow /\ Len(entries') \in Nat
    <2>1. FilesGrow BY JournalGrows
    <2> QED BY <2>1 DEF FilesGrow
  <1>3. WorkerInv(q) /\ WorkerInv(p)
    BY DEF ContinuityInv
  <1>4. worker[q].pc = "create" =>
          k <= Len(entries') + 1 /\ \A i \in 1 .. k - 1 : entries'[i].file = "whole"
    BY <1>1, <1>2, <1>3 DEF FilesGrow, WorkerInv, WholeUpTo
  <1>5. worker[q].pc = "write" => FilesStay
    <2> SUFFICES ASSUME worker[q].pc = "write" PROVE FilesStay
      OBVIOUS
    <2>1. ~Completes(p)
      BY DEF Completes, ContinuityInv, OneWriter
    <2>2. Len(entries) = k /\ entries[k].file = "empty" /\ k \in 1 .. Len(entries)
      BY <1>1, <1>3 DEF WorkerInv
    <2>3. ~Adds(p)
      BY <2>2, AddsOne DEF WholeUpTo
    <2> QED BY <2>1, <2>3
  <1>6. ClaimedBy(q) => ClaimedBy(q)'
    BY <1>1, <1>2 DEF ClaimedBy, FilesGrow, Claim
  <1>7. worker[q].pc \in {"read", "create"} /\ k = Marker => Len(entries') = Claim
    <2> SUFFICES ASSUME worker[q].pc \in {"read", "create"}, k = Marker
                 PROVE  Len(entries') = Claim
      OBVIOUS
    <2>1. Len(entries) = Claim /\ ClaimedBy(q)
      BY <1>3 DEF WorkerInv
    <2>2. ~Adds(p)
      <3>1. SUFFICES ASSUME Adds(p) PROVE FALSE
        OBVIOUS
      <3>2. worker[p].pc = "create" /\ worker[p].k = Marker
        BY <2>1, <3>1, AddsOne DEF Adds, Claim, Marker
      <3>3. ClaimedBy(p)
        BY <1>3, <3>2 DEF WorkerInv
      <3> QED BY <2>1, <3>3 DEF ClaimedBy
    <2> QED BY <2>1, <2>2, CompletesOne DEF FilesStay
  <1>8. worker[q].pc \in {"call", "check"} => Len(entries') >= Marker /\ entries'[Marker].file = "whole"
    BY <1>1, <1>2, <1>3 DEF WorkerInv, FilesGrow, Marker
  <1>9. worker[q].pc = "call" => calls' = <<>>
    <2> SUFFICES ASSUME worker[q].pc = "call", worker[p].pc = "call" PROVE FALSE
      BY <1>3 DEF WorkerInv
    <2>1. ClaimedBy(p) /\ ClaimedBy(q)
      BY <1>3 DEF WorkerInv
    <2> QED BY <2>1 DEF ClaimedBy
  <1>10. /\ worker[q].pc = "raced" => Len(entries') >= k
         /\ worker[q].pc = "reconcile" => Len(entries') >= Marker
         /\ told[q] = "COMPLETE" => Len(entries') >= 12
    BY <1>1, <1>2, <1>3 DEF WorkerInv, FilesGrow, Marker
  <1> QED BY <1>3, <1>4, <1>5, <1>6, <1>7, <1>8, <1>9, <1>10 DEF WorkerInv, WholeUpTo, FilesStay, ClaimedBy

\* A step of one process keeps the invariant, if it leaves the process with
\* what it must know, the evidence as it may be, and the receipts backed.
LEMMA ContinuityMoves ==
  ASSUME ContinuityInv, NEW p \in Workers,
         FilesStay \/ Adds(p) \/ Completes(p),
         worker' \in [Workers -> WorkerShape], told' \in [Workers -> Outcome],
         \A q \in Workers : q # p => worker'[q] = worker[q] /\ told'[q] = told[q],
         worker'[p].pc = "write" => Adds(p),
         WorkerInv(p)',
         intent' \in File, unknown' \in File, hour' = hour, starts' \in 0 .. MaxStarts,
         asked' \in {0, 1}, results' \subseteq {1}, results \subseteq results',
         results' # {} => asked' = 1, asked' = 1 => Len(entries) >= Marker,
         calls' = calls \/ (worker[p].pc = "call" /\ calls' = <<p>>),
         \A r \in issuedFor' :
           \/ r \in issuedFor
           \/ /\ r = [entries |-> entries, unknown |-> "none"] /\ FilesStay
              /\ Len(entries) = PlanLength /\ WholeUpTo(PlanLength)
  PROVE  ContinuityInv'
  <1> DEFINE n == Len(entries)
  <1>1. n \in Nat /\ FilesGrow /\ Len(entries') \in Nat
    <2>1. FilesGrow BY JournalGrows
    <2> QED BY <2>1, ContinuityTypes DEF FilesGrow
  <1>2. \A q \in Workers : WorkerInv(q)'
    BY OthersStand
  <1>3. OneWriter'
    <2> SUFFICES ASSUME NEW q \in Workers, NEW s \in Workers, worker'[q].pc = "write", worker'[s].pc = "write"
                 PROVE  q = s
      BY DEF OneWriter
    <2>1. CASE Adds(p)
      <3>1. \A t \in Workers : worker[t].pc # "write"
        <4> SUFFICES ASSUME NEW t \in Workers, worker[t].pc = "write" PROVE FALSE
          OBVIOUS
        <4>1. n = worker[t].k /\ entries[n].file = "empty"
          BY DEF ContinuityInv, WorkerInv
        <4>2. n \in 1 .. n
          <5>1. worker[t].k \in 1 .. PlanLength
            BY ContinuityTypes DEF WorkerShape
          <5> QED BY <1>1, <4>1, <5>1
        <4> QED BY <2>1, <4>1, <4>2, AddsOne DEF WholeUpTo
      <3> QED BY <3>1
    <2>2. CASE ~Adds(p)
      <3>1. q # p /\ s # p
        BY <2>2
      <3> QED BY <3>1 DEF ContinuityInv, OneWriter
    <2> QED BY <2>1, <2>2
  <1>4. EntriesInv'
    <2>1. WholeUpTo(Len(entries) - 1)'
      <3>1. CASE FilesStay
        BY <3>1 DEF FilesStay, ContinuityInv, EntriesInv, WholeUpTo
      <3>2. CASE Adds(p)
        BY <1>1, <3>2, AddsOne DEF WholeUpTo
      <3>3. CASE Completes(p)
        BY <1>1, <3>3, CompletesOne DEF ContinuityInv, EntriesInv, WholeUpTo
      <3> QED BY <3>1, <3>2, <3>3
    <2>2. Len(entries') >= Marker => entries'[Claim].owner = entries'[Marker].owner
      <3>1. CASE Len(entries) >= Marker
        BY <1>1, <3>1 DEF FilesGrow, ContinuityInv, EntriesInv, Claim, Marker
      <3>2. CASE Len(entries) < Marker /\ Len(entries') >= Marker
        <4>1. Adds(p)
          BY <1>1, <3>2, CompletesOne DEF FilesStay, Marker
        <4>2. worker[p].pc = "create" /\ worker[p].k = Marker /\ Len(entries') = Marker
          BY <1>1, <3>2, <4>1, AddsOne DEF Adds, Marker
        <4>3. ClaimedBy(p)
          BY <4>2 DEF ContinuityInv, WorkerInv
        <4>4. entries'[Marker].owner = p
          <5>1. entries'[Marker] = NewEntry(p)
            BY <4>1, <4>2, AddsOne
          <5> QED BY <4>2, <5>1 DEF NewEntry
        <4>5. entries'[Claim].owner = entries[Claim].owner
          BY <1>1, <4>3 DEF FilesGrow, ClaimedBy, Claim
        <4> QED BY <4>3, <4>4, <4>5 DEF ClaimedBy
      <3> QED BY <1>1, <3>1, <3>2 DEF Marker
    <2>3. Len(entries') >= Result => entries'[Result].result \in results'
      <3>1. CASE Len(entries) >= Result
        <4>1. entries[Result].result \in results
          BY <3>1 DEF ContinuityInv, EntriesInv
        <4>2. Result \in 1 .. n
          BY <1>1, <3>1 DEF Result
        <4> QED BY <1>1, <4>1, <4>2 DEF FilesGrow
      <3>2. CASE Len(entries) < Result /\ Len(entries') >= Result
        <4>1. Adds(p)
          BY <1>1, <3>2, CompletesOne DEF FilesStay, Result
        <4>2. worker[p].pc = "create" /\ worker[p].k = Result /\ Len(entries') = Result
          BY <1>1, <3>2, <4>1, AddsOne DEF Adds, Result
        <4>3. worker[p].result \in results
          BY <4>2 DEF ContinuityInv, WorkerInv
        <4>4. entries'[Result].result = worker[p].result
          <5>1. entries'[Result] = NewEntry(p)
            BY <4>1, <4>2, AddsOne
          <5> QED BY <4>2, <5>1 DEF NewEntry
        <4> QED BY <4>3, <4>4
      <3> QED BY <1>1, <3>1, <3>2 DEF Result
    <2> QED BY <2>1, <2>2, <2>3 DEF EntriesInv
  <1>5. CallsInv'
    <2>1. CASE calls' = calls
      <3>1. Len(calls) <= 1
        BY DEF ContinuityInv, CallsInv
      <3>2. CASE calls # <<>>
        <4>1. ClaimedBy(calls[1]) /\ Len(entries) >= Marker /\ entries[Marker].file = "whole"
          BY <3>2 DEF ContinuityInv, CallsInv
        <4>2. /\ Claim \in 1 .. n /\ Marker \in 1 .. n
              /\ Len(entries') >= Marker /\ Len(entries') >= Claim
          BY <1>1, <4>1 DEF FilesGrow, Claim, Marker
        <4>3. entries'[Claim].owner = calls[1] /\ entries'[Marker].file = "whole"
          BY <1>1, <4>1, <4>2 DEF FilesGrow, ClaimedBy
        <4> QED BY <2>1, <3>1, <4>2, <4>3 DEF CallsInv, ClaimedBy
      <3>3. CASE calls = <<>>
        BY <2>1, <3>1, <3>3 DEF CallsInv
      <3> QED BY <3>2, <3>3
    <2>2. CASE worker[p].pc = "call" /\ calls' = <<p>>
      <3>1. ClaimedBy(p) /\ Len(entries) >= Marker /\ entries[Marker].file = "whole"
        BY <2>2 DEF ContinuityInv, WorkerInv
      <3> QED BY <1>1, <2>2, <3>1 DEF FilesGrow, CallsInv, ClaimedBy, Claim, Marker
    <2> QED BY <2>1, <2>2
  <1>6. EvidenceInv'
    BY <1>1 DEF EvidenceInv, FilesGrow, Marker
  <1>7. IssuedInv'
    <2> SUFFICES ASSUME NEW r \in issuedFor'
                 PROVE  /\ r.entries = entries' /\ r.unknown = "none"
                        /\ Len(entries') = PlanLength /\ WholeUpTo(PlanLength)'
      BY DEF IssuedInv
    <2>1. /\ r.entries = entries /\ r.unknown = "none"
          /\ Len(entries) = PlanLength /\ WholeUpTo(PlanLength)
      BY DEF ContinuityInv, IssuedInv
    <2>2. ~Adds(p)
      BY <2>1, ContinuityTypes DEF Adds, WorkerShape
    <2>3. ~Completes(p)
      BY <2>1, CompletesOne DEF WholeUpTo, PlanLength
    <2> QED BY <2>1, <2>2, <2>3 DEF FilesStay, WholeUpTo
  <1>8. CTypeOK'
    <2>1. calls' \in Seq(Workers)
      <3>1. <<p>> \in Seq(Workers) OBVIOUS
      <3> QED BY <3>1, ContinuityTypes
    <2>2. results' \subseteq Nat /\ Cardinality(results') <= 1 /\ asked' \in Nat
      <3>1. results' = {} \/ results' = {1}
        OBVIOUS
      <3>2. Cardinality({}) = 0 BY FS_EmptySet
      <3>3. Cardinality({1}) = 1 BY FS_Singleton
      <3>4. Cardinality(results') <= 1
        <4>1. CASE results' = {} BY <3>2, <4>1
        <4>2. CASE results' = {1} BY <3>3, <4>2
        <4> QED BY <3>1, <4>1, <4>2
      <3> QED BY <3>4
    <2>3. issuedFor' \subseteq [entries : Seq(Entry), unknown : File]
      BY ContinuityTypes DEF ContinuityInv, CTypeOK, File
    <2>4. hour' \in 0 .. MaxHour
      BY DEF ContinuityInv, CTypeOK
    <2> QED BY <1>1, <2>1, <2>2, <2>3, <2>4 DEF CTypeOK, FilesGrow, WorkerShape
  <1> QED BY <1>2, <1>3, <1>4, <1>5, <1>6, <1>7, <1>8 DEF ContinuityInv

\* What a step of a process leaves it with.
Turn(p) ==
  /\ worker' \in [Workers -> WorkerShape] /\ told' \in [Workers -> Outcome]
  /\ \A q \in Workers : q # p => worker'[q] = worker[q] /\ told'[q] = told[q]
  /\ worker'[p].pc = "write" => Adds(p)
  /\ WorkerInv(p)'

\* A step of a process that touches files only.
LEMMA Turns ==
  ASSUME ContinuityInv, NEW p \in Workers, FilesStay \/ Adds(p) \/ Completes(p), Turn(p),
         intent' \in File, unknown' \in File, UNCHANGED world
  PROVE  ContinuityInv'
  <1>1. /\ asked \in {0, 1} /\ results \subseteq {1} /\ (results # {} => asked = 1)
        /\ (asked = 1 => Len(entries) >= Marker) /\ starts \in 0 .. MaxStarts
    BY DEF ContinuityInv, EvidenceInv, CTypeOK
  <1>2. /\ asked' = asked /\ results' = results /\ calls' = calls /\ hour' = hour
        /\ issuedFor' = issuedFor /\ starts' = starts
    BY DEF world
  <1>3. /\ worker' \in [Workers -> WorkerShape] /\ told' \in [Workers -> Outcome]
        /\ \A q \in Workers : q # p => worker'[q] = worker[q] /\ told'[q] = told[q]
        /\ worker'[p].pc = "write" => Adds(p)
        /\ WorkerInv(p)'
    BY DEF Turn
  <1>4. \A r \in issuedFor' :
          \/ r \in issuedFor
          \/ /\ r = [entries |-> entries, unknown |-> "none"] /\ FilesStay
             /\ Len(entries) = PlanLength /\ WholeUpTo(PlanLength)
    BY <1>2
  <1>5. /\ asked' \in {0, 1} /\ results' \subseteq {1} /\ results \subseteq results'
        /\ results' # {} => asked' = 1
        /\ asked' = 1 => Len(entries) >= Marker
        /\ calls' = calls \/ (worker[p].pc = "call" /\ calls' = <<p>>)
        /\ starts' \in 0 .. MaxStarts
    BY <1>1, <1>2
  <1> QED BY <1>2, <1>3, <1>4, <1>5, ContinuityMoves

\* The files are whole or part of their range.
LEMMA FilesAre == ContinuityInv => intent \in File /\ unknown \in File
  BY DEF ContinuityInv, CTypeOK

\* A process ends.
LEMMA TurnEnds ==
  ASSUME ContinuityInv, NEW p \in Workers, NEW what \in Outcome, End(p, what),
         what = "COMPLETE" => Len(entries') >= 12
  PROVE  Turn(p)
  <1>1. Idle \in WorkerShape
    BY DEF Idle, WorkerShape, PC, PlanLength, NoResult
  <1>2. /\ worker' \in [Workers -> WorkerShape] /\ told' \in [Workers -> Outcome]
        /\ worker'[p] = Idle /\ told'[p] = what
        /\ \A q \in Workers : q # p => worker'[q] = worker[q] /\ told'[q] = told[q]
    BY <1>1, ContinuityTypes DEF End
  <1>3. WorkerInv(p)'
    BY <1>2 DEF WorkerInv, Idle
  <1> QED BY <1>2, <1>3 DEF Turn, Idle

Elsewhere == {"w1", "intent", "intentWrite", "w2", "inspect", "validate", "unknown", "unknownWrite"}

\* A process goes where it needs to know nothing.
LEMMA Goes ==
  ASSUME ContinuityInv, NEW p \in Workers, NEW s \in Elsewhere, Go(p, s), FilesGrow, results \subseteq results'
  PROVE  Turn(p)
  <1>1. /\ worker[p] \in WorkerShape /\ WorkerInv(p) /\ s \in PC
    BY ContinuityTypes DEF ContinuityInv, Elsewhere, PC
  <1>2. worker' = [worker EXCEPT ![p] = [worker[p] EXCEPT !.pc = s]]
    BY DEF Go
  <1>3. [worker[p] EXCEPT !.pc = s] \in WorkerShape
    BY <1>1 DEF WorkerShape
  <1>4. /\ worker' \in [Workers -> WorkerShape] /\ told' = told /\ told \in [Workers -> Outcome]
        /\ worker'[p] = [worker[p] EXCEPT !.pc = s]
        /\ \A q \in Workers : q # p => worker'[q] = worker[q]
    BY <1>2, <1>3, ContinuityTypes DEF Go
  <1>5. worker'[p].pc = s /\ worker'[p].result = worker[p].result
    BY <1>1, <1>4 DEF WorkerShape
  <1>6. told'[p] = "COMPLETE" => Len(entries') >= 12
    BY <1>1, <1>4, ContinuityTypes DEF WorkerInv, FilesGrow
  <1>7. worker'[p].result # NoResult => worker'[p].result \in results'
    BY <1>1, <1>5 DEF WorkerInv
  <1>8. WorkerInv(p)'
    BY <1>5, <1>6, <1>7 DEF WorkerInv, Elsewhere
  <1> QED BY <1>4, <1>5, <1>8 DEF Turn, Elsewhere

\* A process turns to a step of the plan.
LEMMA Records ==
  ASSUME ContinuityInv, NEW p \in Workers, NEW k \in 1 .. PlanLength, NEW result \in Nat,
         UNCHANGED told, FilesGrow, results \subseteq results',
         worker' = [worker EXCEPT ![p].pc = "read", ![p].k = k, ![p].result = result],
         k = Marker => ClaimedBy(p)' /\ Len(entries') = Claim,
         result # NoResult => result \in results',
         k = Result => result # NoResult
  PROVE  Turn(p)
  <1> DEFINE w == [worker[p] EXCEPT !.pc = "read", !.k = k, !.result = result]
  <1>1. worker[p] \in WorkerShape /\ WorkerInv(p)
    BY ContinuityTypes DEF ContinuityInv
  <1>2. w \in WorkerShape /\ w.pc = "read" /\ w.k = k /\ w.result = result
    BY <1>1 DEF WorkerShape, PC
  <1>3. worker' = [worker EXCEPT ![p] = w]
    OBVIOUS
  <1>4. /\ worker' \in [Workers -> WorkerShape] /\ told' = told /\ told \in [Workers -> Outcome]
        /\ worker'[p] = w
        /\ \A q \in Workers : q # p => worker'[q] = worker[q]
    BY <1>2, <1>3, ContinuityTypes
  <1>5. worker'[p].pc = "read" /\ worker'[p].k = k /\ worker'[p].result = result
    BY <1>2, <1>4
  <1>6. told'[p] = "COMPLETE" => Len(entries') >= 12
    BY <1>1, <1>4, ContinuityTypes DEF WorkerInv, FilesGrow
  <1>7. WorkerInv(p)'
    BY <1>5, <1>6 DEF WorkerInv
  <1> QED BY <1>4, <1>5, <1>7 DEF Turn

\* It turns to one with the result it has.
LEMMA RecordsOn ==
  ASSUME ContinuityInv, NEW p \in Workers, NEW k \in 1 .. PlanLength, RecordStep(p, k),
         FilesGrow, results \subseteq results',
         k = Marker => ClaimedBy(p)' /\ Len(entries') = Claim,
         k = Result => worker[p].result # NoResult
  PROVE  Turn(p)
  <1>1. /\ worker[p] \in WorkerShape /\ worker[p].result \in Nat /\ WorkerInv(p)
    BY ContinuityTypes DEF ContinuityInv, WorkerShape
  <1>2. worker' = [worker EXCEPT ![p].pc = "read", ![p].k = k, ![p].result = worker[p].result]
    <2>1. [worker[p] EXCEPT !.pc = "read", !.k = k, !.result = worker[p].result]
            = [worker[p] EXCEPT !.pc = "read", !.k = k]
      BY <1>1 DEF WorkerShape
    <2> QED BY <2>1 DEF RecordStep
  <1>3. worker[p].result # NoResult => worker[p].result \in results'
    BY <1>1 DEF WorkerInv
  <1> QED BY <1>1, <1>2, <1>3, Records DEF RecordStep

\* A process gets the call that follows its marker.
LEMMA GoesToCall ==
  ASSUME ContinuityInv, NEW p \in Workers, Go(p, "call"), FilesGrow, results \subseteq results',
         ClaimedBy(p)', Len(entries') >= Marker, entries'[Marker].file = "whole", calls' = <<>>
  PROVE  Turn(p)
  <1>1. worker[p] \in WorkerShape /\ WorkerInv(p)
    BY ContinuityTypes DEF ContinuityInv
  <1>2. [worker[p] EXCEPT !.pc = "call"] \in WorkerShape
    BY <1>1 DEF WorkerShape, PC
  <1>3. /\ worker' \in [Workers -> WorkerShape] /\ told' = told /\ told \in [Workers -> Outcome]
        /\ worker'[p] = [worker[p] EXCEPT !.pc = "call"]
        /\ \A q \in Workers : q # p => worker'[q] = worker[q]
    BY <1>2, ContinuityTypes DEF Go
  <1>4. worker'[p].pc = "call" /\ worker'[p].result = worker[p].result
    BY <1>1, <1>3 DEF WorkerShape
  <1>5. told'[p] = "COMPLETE" => Len(entries') >= 12
    BY <1>1, <1>3, ContinuityTypes DEF WorkerInv, FilesGrow
  <1>6. worker'[p].result # NoResult => worker'[p].result \in results'
    BY <1>1, <1>4 DEF WorkerInv
  <1>7. WorkerInv(p)'
    BY <1>4, <1>5, <1>6 DEF WorkerInv
  <1> QED BY <1>3, <1>4, <1>7 DEF Turn

\* A process goes on from a step that is on file.
LEMMA Continues ==
  ASSUME ContinuityInv, NEW p \in Workers, NEW k \in 1 .. PlanLength, Continue(p, k),
         FilesGrow, results \subseteq results', Len(entries') >= k,
         k = Claim => ClaimedBy(p)' /\ Len(entries') = Claim,
         k = Marker => ClaimedBy(p)' /\ entries'[Marker].file = "whole" /\ calls' = <<>>
  PROVE  Turn(p)
  <1>1. \A what \in {"REJECTED", "COMPLETE"} : what \in Outcome
    BY DEF Outcome
  <1>2. CASE k = 4
    BY <1>2, Goes DEF Continue, Elsewhere, Marker, PlanLength
  <1>3. CASE k = 5
    BY <1>1, <1>3, TurnEnds, RecordsOn DEF Continue, Claim, Marker, Result, PlanLength
  <1>4. CASE k = Marker
    BY <1>1, <1>4, TurnEnds, GoesToCall DEF Continue, Marker, PlanLength
  <1>5. CASE k = 12
    BY <1>1, <1>5, TurnEnds DEF Continue, Marker, PlanLength
  <1>6. CASE k = 15
    BY <1>6, Goes DEF Continue, Marker, PlanLength, Elsewhere
  <1>7. CASE k = PlanLength
    BY <1>7, Goes DEF Continue, Marker, PlanLength, Elsewhere
  <1>8. CASE k \notin {4, 5, Marker, 12, 15, PlanLength}
    <2>1. RecordStep(p, k + 1)
      BY <1>8 DEF Continue
    <2>2. /\ k + 1 \in 1 .. PlanLength /\ k + 1 # Result /\ (k + 1 = Marker => k = Claim)
      BY <1>8 DEF PlanLength, Marker, Claim, Result
    <2> QED BY <2>1, <2>2, RecordsOn
  <1> QED BY <1>2, <1>3, <1>4, <1>5, <1>6, <1>7, <1>8

\* A process finds its step on file.
LEMMA Exists ==
  ASSUME ContinuityInv, NEW p \in Workers, worker[p].pc \in {"read", "raced"}, Existing(p),
         Len(entries) >= worker[p].k, FilesStay, UNCHANGED results
  PROVE  Turn(p)
  <1> DEFINE k == worker[p].k
  <1>1. k \in 1 .. PlanLength
    BY ContinuityTypes DEF WorkerShape
  <1>2. k # Marker
    <2> SUFFICES ASSUME k = Marker PROVE FALSE
      OBVIOUS
    <2>1. WorkerInv(p)
      BY DEF ContinuityInv
    <2>2. worker[p].pc = "read"
      BY <2>1 DEF WorkerInv
    <2>3. Len(entries) = Claim
      BY <2>1, <2>2 DEF WorkerInv
    <2>4. Len(entries) >= Marker
      OBVIOUS
    <2> QED BY <2>3, <2>4 DEF Claim, Marker
  <1>3. FilesGrow
    BY JournalGrows
  <1>4. CASE \E what \in {"UNKNOWN", "AMBIGUOUS"} : End(p, what)
    BY <1>4, TurnEnds DEF Outcome
  <1>5. CASE Continue(p, k) /\ k # Claim
    BY <1>1, <1>2, <1>3, <1>5, Continues DEF FilesStay
  <1> QED BY <1>2, <1>4, <1>5 DEF Existing

\* A process holds the call, as long as the journal is.
LEMMA Holds ==
  ASSUME ContinuityInv, NEW p \in Workers, NEW s \in {"reconcile", "unknown"}, Hold(p, s),
         Len(entries) >= Claim, s = "reconcile" => Len(entries) >= Marker, FilesStay, results \subseteq results'
  PROVE  Turn(p)
  <1>1. worker[p] \in WorkerShape /\ WorkerInv(p)
    BY ContinuityTypes DEF ContinuityInv
  <1>2. Len(entries) \in 1 .. PlanLength /\ LastTime \in Nat
    <2>1. Len(entries) \in 1 .. PlanLength
      BY ContinuityTypes DEF Claim
    <2>2. entries[Len(entries)] \in Entry
      BY <2>1, ContinuityTypes
    <2> QED BY <2>1, <2>2 DEF LastTime, Entry
  <1> DEFINE w == [worker[p] EXCEPT !.pc = s, !.k = Len(entries), !.now = LastTime]
  <1>3. w \in WorkerShape /\ w.pc = s /\ w.result = worker[p].result
    BY <1>1, <1>2 DEF WorkerShape, PC
  <1>4. worker' = [worker EXCEPT ![p] = w]
    BY DEF Hold
  <1>5. /\ worker' \in [Workers -> WorkerShape] /\ told' = told /\ told \in [Workers -> Outcome]
        /\ worker'[p] = w
        /\ \A q \in Workers : q # p => worker'[q] = worker[q]
    BY <1>3, <1>4, ContinuityTypes DEF Hold
  <1>6. worker'[p].pc = s /\ worker'[p].result = worker[p].result
    BY <1>3, <1>5
  <1>7. WorkerInv(p)'
    BY <1>1, <1>5, <1>6 DEF WorkerInv, FilesStay
  <1> QED BY <1>5, <1>6, <1>7 DEF Turn

-----------------------------------------------------------------------------
(* The steps of a process.                                                   *)

\* A process is started again, as the one or the other.
LEMMA DoStartProcess ==
  ASSUME ContinuityInv, NEW p \in Workers, StartProcess(p)
  PROVE  ContinuityInv'
  <1>1. /\ FilesStay /\ intent' = intent /\ unknown' = unknown /\ hour' = hour /\ results' = results
        /\ asked' = asked /\ calls' = calls /\ issuedFor' = issuedFor
    BY DEF StartProcess, files, FilesStay
  <1>2. starts' \in 0 .. MaxStarts
    BY ContinuityAssumption DEF StartProcess, ContinuityInv, CTypeOK
  <1>3. /\ asked' \in {0, 1} /\ results' \subseteq {1} /\ results \subseteq results'
        /\ results' # {} => asked' = 1
        /\ asked' = 1 => Len(entries) >= Marker
    BY <1>1 DEF ContinuityInv, EvidenceInv
  <1>4. ASSUME NEW w \in WorkerShape, w.pc \in {"w1", "read"}, w.k \notin {Marker, Result},
               w.result = NoResult, worker' = [worker EXCEPT ![p] = w]
        PROVE  ContinuityInv'
    <2>1. /\ worker' \in [Workers -> WorkerShape] /\ told' \in [Workers -> Outcome]
          /\ worker'[p] = w /\ told'[p] = "none"
          /\ \A q \in Workers : q # p => worker'[q] = worker[q] /\ told'[q] = told[q]
      BY <1>4, ContinuityTypes DEF StartProcess, Outcome
    <2>2. WorkerInv(p)'
      BY <1>4, <2>1 DEF WorkerInv
    <2>3. worker'[p].pc # "write"
      BY <1>4, <2>1
    <2> QED BY <1>1, <1>2, <1>3, <2>1, <2>2, <2>3, FilesAre, ContinuityMoves
  <1>5. Idle \in WorkerShape /\ Idle.k = 1 /\ Idle.result = NoResult
    BY DEF Idle, WorkerShape, PC, PlanLength, NoResult
  <1> DEFINE first == [Idle EXCEPT !.pc = "w1"]
             later == [Idle EXCEPT !.pc = "read", !.k = 13]
  <1>6. first \in WorkerShape /\ first.pc = "w1" /\ first.k = 1 /\ first.result = NoResult
    BY <1>5 DEF WorkerShape, PC, PlanLength
  <1>9. later \in WorkerShape /\ later.pc = "read" /\ later.k = 13 /\ later.result = NoResult
    <2>1. 13 \in 1 .. PlanLength /\ "read" \in PC
      BY DEF PlanLength, PC
    <2> QED BY <1>5, <2>1 DEF WorkerShape
  <1>7. 1 \notin {Marker, Result} /\ 13 \notin {Marker, Result}
    BY DEF Marker, Result
  <1>8. worker' = [worker EXCEPT ![p] = first] \/ worker' = [worker EXCEPT ![p] = later]
    BY DEF StartProcess
  <1> HIDE DEF first, later
  <1> QED BY <1>4, <1>6, <1>7, <1>8, <1>9

\* A process that leaves the files' content as it is ends, or goes elsewhere.
LEMMA GoesOrEnds ==
  ASSUME ContinuityInv, NEW p \in Workers, FilesStay, intent' \in File, unknown' \in File, UNCHANGED world,
         \/ \E what \in Outcome \ {"COMPLETE"} : End(p, what)
         \/ \E s \in Elsewhere : Go(p, s)
         \/ \E k \in (1 .. PlanLength) \ {Marker, Result} : RecordStep(p, k)
  PROVE  ContinuityInv'
  <1>1. FilesGrow /\ results \subseteq results'
    BY JournalGrows DEF world
  <1>2. Turn(p)
    BY <1>1, TurnEnds, Goes, RecordsOn
  <1> QED BY <1>2, Turns

\* W1 and the intent.
LEMMA DoIntent ==
  ASSUME ContinuityInv, NEW p \in Workers, W1(p) \/ PersistIntent(p) \/ WriteIntent(p)
  PROVE  ContinuityInv'
  <1>1. FilesStay /\ unknown' \in File /\ UNCHANGED world
    BY FilesAre DEF W1, PersistIntent, WriteIntent, FilesStay, files
  <1>2. 1 \in (1 .. PlanLength) \ {Marker, Result}
    BY DEF PlanLength, Marker, Result
  <1>3. \A what \in {"REJECTED", "AMBIGUOUS"} : what \in Outcome \ {"COMPLETE"}
    BY DEF Outcome
  <1>4. CASE W1(p)
    <2>1. End(p, "AMBIGUOUS") \/ Go(p, "w2") \/ Go(p, "intent")
      BY <1>4 DEF W1
    <2>2. intent' \in File
      BY <1>4, FilesAre DEF W1, files
    <2> QED BY <1>1, <1>3, <2>1, <2>2, GoesOrEnds DEF Elsewhere
  <1>5. CASE PersistIntent(p)
    <2>1. End(p, "AMBIGUOUS") \/ End(p, "REJECTED") \/ Go(p, "intentWrite") \/ RecordStep(p, 1)
      BY <1>5 DEF PersistIntent
    <2>2. intent' \in File
      BY <1>5, FilesAre DEF PersistIntent, File
    <2> QED BY <1>1, <1>2, <1>3, <2>1, <2>2, GoesOrEnds DEF Elsewhere
  <1>6. CASE WriteIntent(p)
    <2>1. End(p, "REJECTED") \/ RecordStep(p, 1)
      BY <1>6 DEF WriteIntent
    <2>2. intent' \in File
      BY <1>6 DEF WriteIntent, File
    <2> QED BY <1>1, <1>2, <1>3, <2>1, <2>2, GoesOrEnds
  <1> QED BY <1>4, <1>5, <1>6

\* recordStep reads the journal, and reads it again.
LEMMA DoReadStep ==
  ASSUME ContinuityInv, NEW p \in Workers, ReadStep(p) \/ Raced(p)
  PROVE  ContinuityInv'
  <1> DEFINE k == worker[p].k
  <1>1. /\ FilesStay /\ unknown' \in File /\ intent' \in File /\ UNCHANGED world /\ results' = results
        /\ worker[p].pc \in {"read", "raced"}
    BY FilesAre DEF ReadStep, Raced, FilesStay, files, world
  <1>2. worker[p] \in WorkerShape /\ WorkerInv(p) /\ k \in 1 .. PlanLength
    BY ContinuityTypes DEF ContinuityInv, WorkerShape
  <1>3. CASE \E what \in Outcome \ {"COMPLETE"} : End(p, what)
    BY <1>1, <1>3, GoesOrEnds
  <1>4. CASE Existing(p) /\ Len(entries) >= k
    <2>1. Turn(p) BY <1>1, <1>4, Exists
    <2> QED BY <1>1, <2>1, Turns
  <1>5. CASE /\ worker[p].pc = "read" /\ EntriesReadable /\ Len(entries) = k - 1
             /\ worker' = [worker EXCEPT ![p].pc = "create", ![p].now = hour] /\ UNCHANGED told
    <2> DEFINE w == [worker[p] EXCEPT !.pc = "create", !.now = hour]
    <2>1. hour \in Nat
      BY ContinuityAssumption DEF ContinuityInv, CTypeOK
    <2>2. w \in WorkerShape /\ w.pc = "create" /\ w.k = k /\ w.result = worker[p].result
      BY <1>2, <2>1 DEF WorkerShape, PC
    <2>3. worker' = [worker EXCEPT ![p] = w]
      BY <1>5
    <2>4. /\ worker' \in [Workers -> WorkerShape] /\ told' = told /\ told \in [Workers -> Outcome]
          /\ worker'[p] = w
          /\ \A q \in Workers : q # p => worker'[q] = worker[q]
      BY <1>5, <2>2, <2>3, ContinuityTypes
    <2>5. worker'[p].pc = "create" /\ worker'[p].k = k /\ worker'[p].result = worker[p].result
      BY <2>2, <2>4
    <2>6. k <= Len(entries) + 1 /\ \A i \in 1 .. k - 1 : entries[i].file = "whole"
      BY <1>2, <1>5, ContinuityTypes DEF EntriesReadable
    <2>7. WorkerInv(p)'
      BY <1>1, <1>2, <1>5, <2>4, <2>5, <2>6 DEF WorkerInv, WholeUpTo, FilesStay, ClaimedBy
    <2>8. Turn(p)
      BY <2>4, <2>5, <2>7 DEF Turn
    <2> QED BY <1>1, <2>8, Turns
  <1>6. Unreadable(p) => \E what \in Outcome \ {"COMPLETE"} : End(p, what)
    BY DEF Unreadable, Outcome
  <1>7. CASE ReadStep(p)
    <2>1. End(p, "REJECTED") => \E what \in Outcome \ {"COMPLETE"} : End(p, what)
      BY DEF Outcome
    <2> QED BY <1>3, <1>4, <1>5, <1>6, <1>7, <2>1 DEF ReadStep
  <1>8. CASE Raced(p)
    <2>1. Len(entries) >= k
      BY <1>2, <1>8 DEF Raced, WorkerInv
    <2> QED BY <1>3, <1>4, <1>6, <1>8, <2>1 DEF Raced
  <1> QED BY <1>7, <1>8

\* The exclusive create.
LEMMA DoCreateStep ==
  ASSUME ContinuityInv, NEW p \in Workers, CreateStep(p)
  PROVE  ContinuityInv'
  <1> DEFINE k == worker[p].k
  <1>1. unknown' \in File /\ intent' \in File /\ UNCHANGED world /\ worker[p].pc = "create" /\ results' = results
    BY FilesAre DEF CreateStep, world
  <1>2. worker[p] \in WorkerShape /\ WorkerInv(p) /\ k \in 1 .. PlanLength
    BY ContinuityTypes DEF ContinuityInv, WorkerShape
  <1>3. CASE FilesStay /\ k = Claim /\ End(p, "UNKNOWN")
    BY <1>1, <1>3, GoesOrEnds DEF Outcome
  <1>4. CASE FilesStay \/ Adds(p)
    <2>1. FilesGrow
      BY <1>4, JournalGrows
    <2>2. ASSUME NEW s \in {"raced", "write"}, Go(p, s),
                 s = "raced" => FilesStay /\ Len(entries) >= k /\ k # Claim,
                 s = "write" => Adds(p)
          PROVE  Turn(p)
      <3> DEFINE w == [worker[p] EXCEPT !.pc = s]
      <3>1. w \in WorkerShape /\ w.pc = s /\ w.k = k /\ w.result = worker[p].result
        BY <1>2 DEF WorkerShape, PC
      <3>2. /\ worker' \in [Workers -> WorkerShape] /\ told' = told /\ told \in [Workers -> Outcome]
            /\ worker'[p] = w
            /\ \A q \in Workers : q # p => worker'[q] = worker[q]
        BY <2>2, <3>1, ContinuityTypes DEF Go
      <3>3. worker'[p].pc = s /\ worker'[p].k = k /\ worker'[p].result = worker[p].result
        BY <3>1, <3>2
      <3>4. told'[p] = "COMPLETE" => Len(entries') >= 12
        BY <1>2, <2>1, <3>2, ContinuityTypes DEF WorkerInv, FilesGrow
      <3>5. s = "raced" => Len(entries') >= k /\ k \notin {Claim, Marker}
        <4>1. s = "raced" /\ k = Marker => FALSE
          <5> SUFFICES ASSUME s = "raced", k = Marker PROVE FALSE
            OBVIOUS
          <5>1. Len(entries) = Claim /\ Len(entries) >= Marker
            BY <1>1, <1>2, <2>2 DEF WorkerInv
          <5> QED BY <5>1 DEF Claim, Marker
        <4> QED BY <2>2, <4>1 DEF FilesStay
      <3>6. s = "write" => /\ Len(entries') = k /\ entries'[k].file = "empty"
                           /\ k \in {Claim, Marker} => entries'[k].owner = p
                           /\ k = Marker => ClaimedBy(p)'
        <4> SUFFICES ASSUME s = "write"
                     PROVE  /\ Len(entries') = k /\ entries'[k].file = "empty"
                            /\ k \in {Claim, Marker} => entries'[k].owner = p
                            /\ k = Marker => ClaimedBy(p)'
          OBVIOUS
        <4>1. Len(entries') = k /\ entries'[k] = NewEntry(p)
          BY <2>2, AddsOne
        <4>2. NewEntry(p).file = "empty" /\ (k \in {Claim, Marker} => NewEntry(p).owner = p)
          BY DEF NewEntry
        <4>3. k = Marker => ClaimedBy(p)
          BY <1>1, <1>2 DEF WorkerInv
        <4>4. ClaimedBy(p) => ClaimedBy(p)'
          BY <2>1, ContinuityTypes DEF ClaimedBy, FilesGrow, Claim
        <4> QED BY <4>1, <4>2, <4>3, <4>4
      <3>7. k = Result => worker[p].result # NoResult
        BY <1>1, <1>2 DEF WorkerInv
      <3>8. WorkerInv(p)'
        BY <1>1, <1>2, <3>3, <3>4, <3>5, <3>6, <3>7 DEF WorkerInv
      <3> QED BY <2>2, <3>2, <3>3, <3>8 DEF Turn
    <2>3. CASE Len(entries) >= k /\ k # Claim /\ FilesStay /\ Go(p, "raced")
      <3>1. Turn(p) BY <2>2, <2>3
      <3> QED BY <1>1, <2>3, <3>1, Turns
    <2>4. CASE Adds(p) /\ Go(p, "write")
      <3>1. Turn(p) BY <2>2, <2>4
      <3> QED BY <1>1, <2>4, <3>1, Turns
    <2>5. \/ k = Claim /\ End(p, "UNKNOWN") /\ FilesStay
          \/ Len(entries) >= k /\ k # Claim /\ FilesStay /\ Go(p, "raced")
          \/ Adds(p) /\ Go(p, "write")
      BY <1>1, <1>2, ContinuityTypes DEF CreateStep, FilesStay, Adds
    <2> QED BY <1>3, <2>3, <2>4, <2>5
  <1>5. FilesStay \/ Adds(p)
    BY <1>1, <1>2, ContinuityTypes DEF CreateStep, FilesStay, Adds
  <1> QED BY <1>4, <1>5

\* The write.
LEMMA DoWriteStep ==
  ASSUME ContinuityInv, NEW p \in Workers, WriteStep(p)
  PROVE  ContinuityInv'
  <1> DEFINE k == worker[p].k
  <1>1. unknown' \in File /\ intent' \in File /\ UNCHANGED world /\ results' = results /\ calls' = calls
    BY FilesAre DEF WriteStep, world
  <1>2. Completes(p) /\ Continue(p, k)
    BY DEF WriteStep, Completes
  <1>3. /\ FilesGrow /\ Len(entries') = k /\ k = Len(entries) /\ entries[k].file = "empty"
        /\ entries'[k].file = "whole"
    BY <1>2, CompletesOne
  <1>4. WorkerInv(p) /\ k \in 1 .. PlanLength /\ worker[p].pc = "write"
    BY ContinuityTypes DEF ContinuityInv, WorkerShape, WriteStep
  <1>5. k = Claim => ClaimedBy(p)'
    <2>1. k = Claim => entries[Claim].owner = p
      BY <1>4 DEF WorkerInv
    <2> QED BY <1>3, <2>1 DEF ClaimedBy, FilesGrow, Claim
  <1>6. k = Marker => ClaimedBy(p)' /\ calls' = <<>>
    <2>1. k = Marker => ClaimedBy(p)
      BY <1>4 DEF WorkerInv
    <2>2. ClaimedBy(p) => ClaimedBy(p)'
      BY <1>3, ContinuityTypes DEF ClaimedBy, FilesGrow, Claim
    <2>3. k = Marker => calls = <<>>
      BY <1>3 DEF ContinuityInv, CallsInv
    <2> QED BY <1>1, <2>1, <2>2, <2>3
  <1>7. Turn(p)
    <2>1. Len(entries') >= k
      BY <1>3, <1>4
    <2> QED BY <1>1, <1>2, <1>3, <1>4, <1>5, <1>6, <2>1, Continues
  <1> QED BY <1>1, <1>2, <1>7, Turns

\* The evidence of the provider gains at most the one result.
LEMMA EvidenceMoves ==
  ASSUME ContinuityInv, Answered \/ Unanswered
  PROVE  /\ asked' \in {0, 1} /\ results' \subseteq {1} /\ results \subseteq results'
         /\ results' # {} => asked' = 1
         /\ Answered => 1 \in results' /\ (CHOOSE r \in results' : TRUE) = 1
  <1>1. asked \in {0, 1} /\ results \subseteq {1} /\ (results # {} => asked = 1)
    BY DEF ContinuityInv, EvidenceInv
  <1>2. CASE Answered
    <2>1. results' = {1} /\ asked' = 1
      BY <1>1, <1>2 DEF Answered
    <2> QED BY <1>1, <2>1
  <1>3. CASE Unanswered /\ ~Answered
    <2>1. results = {} /\ asked' \in {0, 1}
      BY <1>1, <1>3 DEF Unanswered
    <2>2. results' = {} \/ (results' = {1} /\ asked' = 1)
      BY <1>3 DEF Unanswered
    <2> QED BY <1>3, <2>1, <2>2
  <1> QED BY <1>2, <1>3

\* The call, and the reconciliation of a call that another made.
LEMMA DoCall ==
  ASSUME ContinuityInv, NEW p \in Workers, Call(p) \/ Reconcile(p)
  PROVE  ContinuityInv'
  <1>1. /\ FilesStay /\ unknown' = unknown /\ intent' = intent /\ hour' = hour /\ issuedFor' = issuedFor
        /\ starts' = starts /\ starts \in 0 .. MaxStarts
    BY DEF Call, Reconcile, files, FilesStay, ContinuityInv, CTypeOK
  <1>2. worker[p] \in WorkerShape /\ WorkerInv(p) /\ FilesGrow
    BY <1>1, JournalGrows, ContinuityTypes DEF ContinuityInv
  <1>3. Len(entries) >= Marker
    BY <1>2 DEF Call, Reconcile, WorkerInv
  <1>4. /\ asked' \in {0, 1} /\ results' \subseteq {1} /\ results \subseteq results'
        /\ results' # {} => asked' = 1
        /\ Answered => 1 \in results' /\ (CHOOSE r \in results' : TRUE) = 1
    <2>1. Answered \/ Unanswered
      BY DEF Call, Reconcile
    <2> QED BY <2>1, EvidenceMoves
  <1>5. calls' = calls \/ (worker[p].pc = "call" /\ calls' = <<p>>)
    <2>1. CASE Call(p)
      <3>1. calls = <<>> /\ worker[p].pc = "call"
        BY <1>2, <2>1 DEF Call, WorkerInv
      <3>2. calls' = Append(calls, p)
        BY <2>1 DEF Call
      <3> QED BY <3>1, <3>2
    <2>2. CASE Reconcile(p)
      BY <2>2 DEF Reconcile
    <2> QED BY <2>1, <2>2
  <1>6. Turn(p) => ContinuityInv'
    BY <1>1, <1>3, <1>4, <1>5, FilesAre, ContinuityMoves DEF Turn
  <1>7. CASE Hold(p, "unknown") \/ End(p, "AMBIGUOUS") \/ Go(p, "unknown")
    <2>1. CASE Hold(p, "unknown")
      <3>1. Len(entries) >= Claim
        BY <1>3, ContinuityTypes DEF Claim, Marker
      <3>2. Turn(p) BY <1>1, <1>4, <2>1, <3>1, Holds
      <3> QED BY <1>6, <3>2
    <2>2. CASE End(p, "AMBIGUOUS")
      <3>1. Turn(p) BY <2>2, TurnEnds DEF Outcome
      <3> QED BY <1>6, <3>1
    <2>3. CASE Go(p, "unknown")
      <3>1. Turn(p) BY <1>2, <1>4, <2>3, Goes DEF Elsewhere
      <3> QED BY <1>6, <3>1
    <2> QED BY <1>7, <2>1, <2>2, <2>3
  <1>8. CASE /\ Answered /\ Reconcile(p) /\ UNCHANGED told
             /\ worker' = [worker EXCEPT ![p].pc = "read", ![p].k = Result,
                                        ![p].result = CHOOSE r \in results' : TRUE]
    <2>1. worker' = [worker EXCEPT ![p].pc = "read", ![p].k = Result, ![p].result = 1] /\ 1 \in results'
      BY <1>4, <1>8
    <2>2. Result \in 1 .. PlanLength /\ Result # Marker /\ 1 # NoResult /\ 1 \in Nat
      BY DEF Result, PlanLength, Marker, NoResult
    <2>3. Turn(p)
      BY <1>2, <1>4, <1>8, <2>1, <2>2, Records
    <2> QED BY <1>6, <2>3
  <1>9. CASE /\ Answered /\ Call(p) /\ UNCHANGED told
             /\ worker' = [worker EXCEPT ![p].pc = "check",
                                        ![p].result = CHOOSE r \in results' : TRUE]
    <2> DEFINE w == [worker[p] EXCEPT !.pc = "check", !.result = 1]
    <2>1. worker' = [worker EXCEPT ![p] = w] /\ 1 \in results'
      BY <1>4, <1>9
    <2>2. w \in WorkerShape /\ w.pc = "check" /\ w.result = 1
      BY <1>2 DEF WorkerShape, PC
    <2>3. /\ worker' \in [Workers -> WorkerShape] /\ told' = told /\ told \in [Workers -> Outcome]
          /\ worker'[p] = w
          /\ \A q \in Workers : q # p => worker'[q] = worker[q]
      BY <1>9, <2>1, <2>2, ContinuityTypes
    <2>4. /\ ClaimedBy(p) /\ Len(entries) >= Marker /\ entries[Marker].file = "whole"
          /\ told[p] = "COMPLETE" => Len(entries) >= 12
      BY <1>2, <1>9 DEF WorkerInv, Call
    <2>5. worker'[p].pc = "check" /\ worker'[p].result = 1 /\ told'[p] = told[p]
      BY <2>2, <2>3
    <2>6. WorkerInv(p)'
      BY <1>1, <2>1, <2>4, <2>5 DEF WorkerInv, FilesStay, ClaimedBy, NoResult
    <2>7. Turn(p)
      BY <2>3, <2>5, <2>6 DEF Turn
    <2> QED BY <1>6, <2>7
  <1> QED BY <1>7, <1>8, <1>9 DEF Call, Reconcile

\* W2's decision.
LEMMA DoW2 ==
  ASSUME ContinuityInv, NEW p \in Workers, W2(p)
  PROVE  ContinuityInv'
  <1> DEFINE n == Len(entries)
  <1>1. /\ FilesStay /\ unknown' \in File /\ intent' \in File /\ UNCHANGED world /\ results' = results
    BY FilesAre DEF W2, FilesStay, files, world
  <1>2. n \in Nat /\ n <= PlanLength /\ FilesGrow
    BY <1>1, JournalGrows, ContinuityTypes
  <1>3. CASE \E what \in Outcome \ {"COMPLETE"} : End(p, what)
    BY <1>1, <1>3, GoesOrEnds
  <1>4. CASE RecordStep(p, 5)
    BY <1>1, <1>4, GoesOrEnds DEF PlanLength, Marker, Result
  <1>5. CASE \/ n = Marker /\ Hold(p, "reconcile")
             \/ n = Claim /\ Hold(p, "unknown")
    <2>1. n >= Claim /\ (n = Marker => n >= Marker)
      <3>1. n = Marker \/ n = Claim
        BY <1>5
      <3>2. CASE n = Marker BY <3>2 DEF Claim, Marker
      <3>3. CASE n = Claim BY <3>3 DEF Claim, Marker
      <3> QED BY <3>1, <3>2, <3>3
    <2>2. Turn(p)
      BY <1>1, <1>5, <2>1, Holds
    <2> QED BY <1>1, <2>2, Turns
  <1>6. CASE /\ n >= Result /\ UNCHANGED told
             /\ worker' = [worker EXCEPT ![p].pc = "read", ![p].k = Result + 1,
                                        ![p].result = entries[Result].result]
    <2>1. entries[Result].result \in results /\ results \subseteq Nat
      BY <1>6 DEF ContinuityInv, EntriesInv, CTypeOK
    <2>2. Result + 1 \in 1 .. PlanLength /\ Result + 1 # Marker /\ Result + 1 # Result
      BY DEF Result, PlanLength, Marker
    <2>3. Turn(p)
      BY <1>1, <1>2, <1>6, <2>1, <2>2, Records
    <2> QED BY <1>1, <2>3, Turns
  <1>7. \A what \in {"UNKNOWN", "REJECTED", "AMBIGUOUS"} : what \in Outcome \ {"COMPLETE"}
    BY DEF Outcome
  <1>8. \/ End(p, "UNKNOWN") \/ End(p, "REJECTED") \/ End(p, "AMBIGUOUS") \/ RecordStep(p, 5)
        \/ n = Marker /\ Hold(p, "reconcile")
        \/ n = Claim /\ Hold(p, "unknown")
        \/ /\ n >= Result /\ UNCHANGED told
           /\ worker' = [worker EXCEPT ![p].pc = "read", ![p].k = Result + 1,
                                      ![p].result = entries[Result].result]
    BY <1>2 DEF W2, Claim, Marker, Result
  <1> QED BY <1>3, <1>4, <1>5, <1>6, <1>7, <1>8

\* The looks and the writes that leave the steps alone.
LEMMA DoLook ==
  ASSUME ContinuityInv, NEW p \in Workers,
         CheckUnknown(p) \/ PersistUnknown(p) \/ WriteUnknown(p) \/ Inspect(p) \/ Die(p)
  PROVE  ContinuityInv'
  <1>1. FilesStay /\ intent' \in File /\ UNCHANGED world /\ results' = results
    BY FilesAre DEF CheckUnknown, PersistUnknown, WriteUnknown, Inspect, Die, FilesStay, files, world
  <1>2. unknown' \in File
    BY FilesAre DEF CheckUnknown, PersistUnknown, WriteUnknown, Inspect, Die, files, File
  <1>3. \A what \in {"UNKNOWN", "AMBIGUOUS", "none"} : what \in Outcome \ {"COMPLETE"}
    BY DEF Outcome
  <1>4. CASE CheckUnknown(p) /\ RecordStep(p, Result)
    <2>1. worker[p].result # NoResult
      BY <1>4 DEF CheckUnknown, ContinuityInv, WorkerInv
    <2>2. Result \in 1 .. PlanLength /\ Result # Marker
      BY DEF Result, PlanLength, Marker
    <2>3. Turn(p)
      BY <1>1, <1>4, <2>1, <2>2, JournalGrows, RecordsOn
    <2> QED BY <1>1, <1>2, <2>3, Turns
  <1>5. CASE \/ End(p, "UNKNOWN") \/ End(p, "AMBIGUOUS") \/ End(p, "none")
             \/ Go(p, "unknownWrite") \/ RecordStep(p, 16)
    BY <1>1, <1>2, <1>3, <1>5, GoesOrEnds DEF Elsewhere, PlanLength, Marker, Result
  <1>6. Die(p) => End(p, "none")
    BY DEF Die, End
  <1> QED BY <1>4, <1>5, <1>6 DEF CheckUnknown, PersistUnknown, WriteUnknown, Inspect

\* The receipt is issued for the journal as it will stay.
LEMMA DoValidate ==
  ASSUME ContinuityInv, NEW p \in Workers, Validate(p)
  PROVE  ContinuityInv'
  <1>1. /\ FilesStay /\ unknown' = unknown /\ intent' = intent /\ hour' = hour /\ results' = results
        /\ asked' = asked /\ calls' = calls /\ starts' = starts /\ starts \in 0 .. MaxStarts
    BY DEF Validate, files, FilesStay, ContinuityInv, CTypeOK
  <1>2. Turn(p)
    <2>1. End(p, "RECEIPT") \/ End(p, "AMBIGUOUS")
      BY DEF Validate
    <2> QED BY <2>1, TurnEnds DEF Outcome
  <1>3. \A r \in issuedFor' :
          \/ r \in issuedFor
          \/ /\ r = [entries |-> entries, unknown |-> "none"] /\ FilesStay
             /\ Len(entries) = PlanLength /\ WholeUpTo(PlanLength)
    <2>1. CASE issuedFor' = issuedFor
      BY <2>1
    <2>2. CASE /\ EntriesReadable /\ unknown = "none" /\ Len(entries) = PlanLength
               /\ issuedFor' = issuedFor \cup {[entries |-> entries, unknown |-> unknown]}
      <3>1. WholeUpTo(PlanLength)
        BY <2>2, ContinuityTypes DEF WholeUpTo, EntriesReadable
      <3> QED BY <1>1, <2>2, <3>1
    <2> QED BY <2>1, <2>2 DEF Validate
  <1>4. /\ asked' \in {0, 1} /\ results' \subseteq {1} /\ results \subseteq results'
        /\ results' # {} => asked' = 1
        /\ asked' = 1 => Len(entries) >= Marker
    BY <1>1 DEF ContinuityInv, EvidenceInv
  <1> QED BY <1>1, <1>2, <1>3, <1>4, FilesAre, ContinuityMoves DEF Turn

\* The clock, forwards or back, and no step.
LEMMA DoHour ==
  ASSUME ContinuityInv, Tick \/ UNCHANGED cvars
  PROVE  ContinuityInv'
  <1>1. /\ entries' = entries /\ intent' = intent /\ unknown' = unknown /\ results' = results
        /\ asked' = asked /\ calls' = calls /\ worker' = worker /\ told' = told
        /\ issuedFor' = issuedFor /\ starts' = starts /\ hour' \in 0 .. MaxHour
    BY DEF Tick, cvars, files, ContinuityInv, CTypeOK
  <1>2. CTypeOK'
    BY <1>1 DEF ContinuityInv, CTypeOK
  <1>3. \A p \in Workers : WorkerInv(p)'
    BY <1>1 DEF ContinuityInv, WorkerInv, WholeUpTo, ClaimedBy
  <1>4. EntriesInv' /\ OneWriter'
    BY <1>1 DEF ContinuityInv, EntriesInv, OneWriter, WholeUpTo
  <1>5. CallsInv' /\ EvidenceInv'
    BY <1>1 DEF ContinuityInv, CallsInv, ClaimedBy, EvidenceInv
  <1>6. IssuedInv'
    BY <1>1 DEF ContinuityInv, IssuedInv, WholeUpTo
  <1> QED BY <1>2, <1>3, <1>4, <1>5, <1>6 DEF ContinuityInv

\* At the start nothing is on file.
LEMMA ContinuityStarts == CInit => ContinuityInv
  <1> SUFFICES ASSUME CInit PROVE ContinuityInv
    OBVIOUS
  <1>1. entries = <<>> /\ Len(entries) = 0 /\ calls = <<>> /\ Len(calls) = 0
    BY DEF CInit
  <1>2. CTypeOK
    <2>1. Cardinality(results) = 0
      BY FS_EmptySet DEF CInit
    <2>2. Idle \in [pc : PC, k : 1 .. PlanLength, now : Nat, result : Nat]
      BY DEF Idle, PC, PlanLength, NoResult
    <2> QED BY <1>1, <2>1, <2>2, ContinuityAssumption DEF CInit, CTypeOK, File, Outcome, PlanLength
  <1>3. \A p \in Workers : WorkerInv(p)
    BY DEF CInit, WorkerInv, Idle
  <1>4. EntriesInv /\ OneWriter
    BY <1>1 DEF CInit, EntriesInv, OneWriter, WholeUpTo, Idle, Marker, Result
  <1>5. CallsInv /\ EvidenceInv /\ IssuedInv
    BY <1>1 DEF CInit, CallsInv, EvidenceInv, IssuedInv
  <1> QED BY <1>2, <1>3, <1>4, <1>5 DEF ContinuityInv

\* Every step keeps the invariant.
LEMMA ContinuitySteps == ContinuityInv /\ [CNext]_cvars => ContinuityInv'
  <1> SUFFICES ASSUME ContinuityInv, [CNext]_cvars PROVE ContinuityInv'
    OBVIOUS
  <1>1. ASSUME NEW p \in Workers,
               \/ StartProcess(p) \/ W1(p) \/ PersistIntent(p) \/ WriteIntent(p)
               \/ ReadStep(p) \/ CreateStep(p) \/ WriteStep(p) \/ Raced(p)
               \/ W2(p) \/ Call(p) \/ CheckUnknown(p) \/ Reconcile(p)
               \/ PersistUnknown(p) \/ WriteUnknown(p)
               \/ Inspect(p) \/ Validate(p) \/ Die(p)
        PROVE  ContinuityInv'
    <2>1. CASE StartProcess(p) BY <2>1, DoStartProcess
    <2>2. CASE W1(p) \/ PersistIntent(p) \/ WriteIntent(p) BY <2>2, DoIntent
    <2>3. CASE ReadStep(p) \/ Raced(p) BY <2>3, DoReadStep
    <2>4. CASE CreateStep(p) BY <2>4, DoCreateStep
    <2>5. CASE WriteStep(p) BY <2>5, DoWriteStep
    <2>6. CASE W2(p) BY <2>6, DoW2
    <2>7. CASE Call(p) \/ Reconcile(p) BY <2>7, DoCall
    <2>8. CASE CheckUnknown(p) \/ PersistUnknown(p) \/ WriteUnknown(p) \/ Inspect(p) \/ Die(p)
      BY <2>8, DoLook
    <2>9. CASE Validate(p) BY <2>9, DoValidate
    <2> QED BY <1>1, <2>1, <2>2, <2>3, <2>4, <2>5, <2>6, <2>7, <2>8, <2>9
  <1> QED BY <1>1, DoHour DEF CNext

\* The files, the processes, the calls and the provider's evidence, at every
\* step of the recovery continuity journal
\* (integrated-live-drill-recovery-continuity.js).
THEOREM ContinuityInvariant == CSpec => []ContinuityInv
  BY ContinuityStarts, ContinuitySteps, PTL DEF CSpec

\* For any number of processes, started, killed and overtaken at any point:
\* the call after the dispatch marker is made at most once, by the owner of the
\* claim and the marker on file, and where a retry is permitted nothing was
\* asked (runIntegratedLiveDrillRecoveryContinuityW2Internal, recordStep).
THEOREM ContinuitySentOnce == CSpec => []SentOnce
  <1>1. ContinuityInv => SentOnce
    <2> SUFFICES ASSUME ContinuityInv PROVE SentOnce
      OBVIOUS
    <2>1. Len(calls) <= 1 /\ Len(calls) \in Nat /\ calls \in Seq(Workers)
      BY ContinuityTypes DEF ContinuityInv, CallsInv
    <2>2. ASSUME NEW i \in DOMAIN calls
          PROVE  /\ Len(entries) >= Marker /\ entries[Claim].owner = calls[i]
                 /\ entries[Marker].owner = calls[i]
      <3>1. i = 1 /\ calls # <<>>
        BY <2>1, <2>2
      <3>2. ClaimedBy(calls[1]) /\ Len(entries) >= Marker
        BY <3>1 DEF ContinuityInv, CallsInv
      <3>3. entries[Claim].owner = entries[Marker].owner
        BY <3>2 DEF ContinuityInv, EntriesInv
      <3> QED BY <3>1, <3>2, <3>3 DEF ClaimedBy
    <2>3. ASSUME RetryPermitted PROVE asked = 0 /\ calls = <<>>
      <3>1. ~(Len(entries) >= Marker)
        BY <2>3, ContinuityTypes DEF RetryPermitted, Claim, Marker
      <3> QED BY <3>1 DEF ContinuityInv, CallsInv, EvidenceInv
    <2> QED BY <2>1, <2>2, <2>3 DEF SentOnce
  <1> QED BY <1>1, ContinuityInvariant, PTL

\* And every result on file or in a process's hands is the provider's, COMPLETE
\* is said of what is on file, and a receipt is issued for a whole journal
\* without an UNKNOWN that stays what it was, of one request
\* (inspectIntegratedLiveDrillRecoveryContinuity, the W5 receipt).
THEOREM ContinuityReceiptsBacked == CSpec => []ReceiptIsBacked
  <1>1. ContinuityInv => ReceiptIsBacked
    <2> SUFFICES ASSUME ContinuityInv PROVE ReceiptIsBacked
      OBVIOUS
    <2>1. Len(entries) >= Result => entries[Result].result \in results
      BY DEF ContinuityInv, EntriesInv
    <2>2. ASSUME NEW p \in Workers
          PROVE  /\ worker[p].result # NoResult => worker[p].result \in results
                 /\ told[p] = "COMPLETE" => Len(entries) >= 12 /\ entries[Result].result \in results
      <3>1. WorkerInv(p)
        BY DEF ContinuityInv
      <3> QED BY <2>1, <3>1, ContinuityTypes DEF WorkerInv, Result
    <2>3. ASSUME NEW r \in issuedFor
          PROVE  /\ r.entries = entries /\ Len(entries) = PlanLength /\ r.unknown = "none" /\ asked = 1
                 /\ \A i \in DOMAIN entries : entries[i].file = "whole"
                 /\ entries[Claim].owner = entries[Marker].owner
      <3>1. /\ r.entries = entries /\ r.unknown = "none"
            /\ Len(entries) = PlanLength /\ WholeUpTo(PlanLength)
        BY DEF ContinuityInv, IssuedInv
      <3>2. \A i \in DOMAIN entries : entries[i].file = "whole"
        BY <3>1, ContinuityTypes DEF WholeUpTo
      <3>3. Len(entries) >= Result /\ Len(entries) >= Marker
        BY <3>1 DEF PlanLength, Result, Marker
      <3>4. asked = 1
        BY <2>1, <3>3 DEF ContinuityInv, EvidenceInv
      <3> QED BY <3>1, <3>2, <3>3, <3>4 DEF ContinuityInv, EntriesInv
    <2> QED BY <2>1, <2>2, <2>3 DEF ReceiptIsBacked
  <1> QED BY <1>1, ContinuityInvariant, PTL

=============================================================================
