--------------------------- MODULE CreateOnlyFile ---------------------------
(***************************************************************************)
(* publishOrReadExactOwnedFile (atomic-create-only-file.js): processes that *)
(* publish bytes under one name, each through a temporary file of its own   *)
(* that it writes, syncs, links to the final name and unlinks.  A process   *)
(* that finds the name taken reads the file instead, and on the way removes *)
(* the temporary link of a publisher that is slow or dead.  Every system    *)
(* call is a step, a call may fail, a process may die, and the machine may  *)
(* lose its power: then names and bytes that were not synced are whatever   *)
(* reached the disk.                                                        *)
(*                                                                          *)
(* A process creates at most one file, so the process names the inode.      *)
(***************************************************************************)
EXTENDS Naturals

CONSTANTS
  Process,          \* processes, and the inodes of their temporary files
  Want,             \* Want[p]: the bytes p publishes
  Attempts,         \* PUBLICATION_SETTLE_ATTEMPTS
  MaxFaults,        \* bound: failing calls, dead processes, power losses
  None

\* Two attempts at least: a reader that found no file may meet it next between
\* link and unlink.
ASSUME FileAssumption ==
  /\ Attempts \in Nat \ {0, 1} /\ MaxFaults \in Nat
  /\ None \notin Process
  /\ \A p \in Process : Want[p] \notin {"empty", "torn"}

VARIABLES
  final,            \* the inode under the final name
  temp,             \* temp[p]: the temporary name of p exists
  diskFinal,        \* the final name at the last sync of the directory
  diskTemp,         \* the temporary names at that sync
  content,          \* content[p]: the bytes of the inode
  synced,           \* synced[p]: they are on disk
  proc,             \* proc[p]: where the process is and what it observed
  outcome,          \* outcome[p]: what it returned
  faulty,           \* processes one of whose calls failed
  faults

fileVars == <<final, temp, diskFinal, diskTemp, content, synced, proc, outcome,
              faulty, faults>>
disk == <<diskFinal, diskTemp>>
names == <<final, temp>>
bytes == <<content, synced>>

Maybe(S) == S \cup {None}
Bytes == {Want[p] : p \in Process} \cup {"empty", "torn"}
CreateSteps == {"create", "write", "fsync", "readback", "link", "linked", "unlink"}
ReadSteps == {"lstat", "candidate", "remove", "open", "read", "scan", "settle",
              "syncdir"}
Steps == CreateSteps \cup ReadSteps \cup {"idle", "cleanup", "returned", "dead"}

ProcShape ==
  [at : Steps, attempt : 1..Attempts, late : BOOLEAN, published : BOOLEAN,
   inode : Maybe(Process), before : 0..2]

FileTypeOK ==
  /\ final \in Maybe(Process) /\ diskFinal \in Maybe(Process)
  /\ temp \in [Process -> BOOLEAN] /\ diskTemp \in [Process -> BOOLEAN]
  /\ content \in [Process -> Bytes] /\ synced \in [Process -> BOOLEAN]
  /\ proc \in [Process -> ProcShape]
  /\ outcome \in [Process -> {"none", "created", "read", "error"}]
  /\ faulty \subseteq Process /\ faults \in 0..MaxFaults

FileInit ==
  /\ final = None /\ diskFinal = None
  /\ temp = [p \in Process |-> FALSE] /\ diskTemp = temp
  /\ content = [p \in Process |-> "empty"]
  /\ synced = [p \in Process |-> FALSE]
  /\ proc = [p \in Process |-> [at |-> "idle", attempt |-> 1, late |-> FALSE,
                                published |-> FALSE, inode |-> None, before |-> 0]]
  /\ outcome = [p \in Process |-> "none"]
  /\ faulty = {} /\ faults = 0

Links(i) == (IF temp[i] THEN 1 ELSE 0) + (IF final = i THEN 1 ELSE 0)

At(p, step) == proc[p].at = step
Goto(p, step) == proc' = [proc EXCEPT ![p].at = step]
Return(p, result) ==
  /\ proc' = [proc EXCEPT ![p].at = "returned"]
  /\ outcome' = [outcome EXCEPT ![p] = result]
noFault == UNCHANGED <<faulty, faults>>

-----------------------------------------------------------------------------
(* Reading the published file.  proc[p].late: after an attempt to publish.  *)

Start(p) ==
  /\ At(p, "idle") /\ Goto(p, "lstat")
  /\ UNCHANGED <<names, disk, bytes, outcome>> /\ noFault

\* removePublishedTemporaryLinks: the final name, the temporary name of the
\* same inode with two links, its removal.
LookUpFinal(p) ==
  /\ At(p, "lstat")
  /\ proc' = [proc EXCEPT ![p].inode = final,
                          ![p].at = IF final = None THEN "open" ELSE "candidate"]
  /\ UNCHANGED <<names, disk, bytes, outcome>> /\ noFault

LookUpTemporary(p) ==
  LET i == proc[p].inode
  IN  /\ At(p, "candidate")
      /\ Goto(p, IF temp[i] /\ Links(i) = 2 THEN "remove" ELSE "open")
      /\ UNCHANGED <<names, disk, bytes, outcome>> /\ noFault

RemoveTemporary(p) ==
  /\ At(p, "remove") /\ Goto(p, "open")
  /\ temp' = [temp EXCEPT ![proc[p].inode] = FALSE]
  /\ UNCHANGED <<final, disk, bytes, outcome>> /\ noFault

\* readExactOwnedFile: the descriptor and its first fstat.
Open(p) ==
  /\ At(p, "open")
  /\ IF final = None
     THEN /\ IF proc[p].late THEN Return(p, "error")
             ELSE Goto(p, "create") /\ UNCHANGED outcome
     ELSE /\ proc' = [proc EXCEPT ![p].inode = final, ![p].before = Links(final),
                                  ![p].at = "read"]
          /\ UNCHANGED outcome
  /\ UNCHANGED <<names, disk, bytes>> /\ noFault

\* The publisher of the file is still between link and unlink: try again.
Pending(p) ==
  IF ~proc[p].late /\ proc[p].attempt < Attempts
  THEN /\ proc' = [proc EXCEPT ![p].attempt = @ + 1, ![p].at = "lstat"]
       /\ UNCHANGED outcome
  ELSE Return(p, "error")

\* Fault: a second link is taken for a foreign one.
ReadUnsettled(p) ==
  LET i == proc[p].inode
  IN  /\ At(p, "read")
      /\ IF content[i] = Want[p] /\ proc[p].before = 1
         THEN Goto(p, "syncdir") /\ UNCHANGED outcome
         ELSE Return(p, "error")
      /\ UNCHANGED <<names, disk, bytes>> /\ noFault

\* The bytes, the second fstat and the lstat of the name.  The links of a
\* published inode only fall, so that the two agree unless it is settled.
Read(p) ==
  LET i == proc[p].inode
  IN  /\ At(p, "read")
      /\ CASE content[i] # Want[p] -> Return(p, "error")
           [] content[i] = Want[p] /\ proc[p].before = 1 ->
                Goto(p, "syncdir") /\ UNCHANGED outcome
           [] content[i] = Want[p] /\ proc[p].before = 2 /\ Links(i) = 1 -> Pending(p)
           [] content[i] = Want[p] /\ proc[p].before = 2 /\ Links(i) = 2 ->
                Goto(p, "scan") /\ UNCHANGED outcome
      /\ UNCHANGED <<names, disk, bytes>> /\ noFault

\* hasPublishedTemporaryLink.
Scan(p) ==
  LET i == proc[p].inode
  IN  /\ At(p, "scan")
      /\ IF temp[i] /\ Links(i) = 2 THEN Pending(p)
         ELSE Goto(p, "settle") /\ UNCHANGED outcome
      /\ UNCHANGED <<names, disk, bytes>> /\ noFault

\* The link went away during the scan.
Settle(p) ==
  /\ At(p, "settle")
  /\ IF Links(proc[p].inode) = 1 THEN Pending(p) ELSE Return(p, "error")
  /\ UNCHANGED <<names, disk, bytes>> /\ noFault

\* Fault: the directory is not synced before the process returns.
SyncDirectoryNot(p) ==
  /\ At(p, "syncdir")
  /\ Return(p, IF proc[p].published THEN "created" ELSE "read")
  /\ UNCHANGED <<names, disk, bytes>> /\ noFault

SyncDirectory(p) ==
  /\ At(p, "syncdir")
  /\ diskFinal' = final /\ diskTemp' = temp
  /\ Return(p, IF proc[p].published THEN "created" ELSE "read")
  /\ UNCHANGED <<names, bytes>> /\ noFault

-----------------------------------------------------------------------------
(* Publishing.                                                              *)

Create(p) ==
  /\ At(p, "create") /\ Goto(p, "write")
  /\ temp' = [temp EXCEPT ![p] = TRUE]
  /\ UNCHANGED <<final, disk, bytes, outcome>> /\ noFault

Write(p) ==
  /\ At(p, "write") /\ Goto(p, "fsync")
  /\ content' = [content EXCEPT ![p] = Want[p]]
  /\ UNCHANGED <<names, disk, synced, outcome>> /\ noFault

Fsync(p) ==
  /\ At(p, "fsync") /\ Goto(p, "readback")
  /\ synced' = [synced EXCEPT ![p] = TRUE]
  /\ UNCHANGED <<names, disk, content, outcome>> /\ noFault

ReadBack(p) ==
  /\ At(p, "readback")
  /\ Goto(p, IF content[p] = Want[p] /\ temp[p] /\ Links(p) = 1
             THEN "link" ELSE "cleanup")
  /\ UNCHANGED <<names, disk, bytes, outcome>> /\ noFault

\* linkSync fails when the name is taken.
Link(p) ==
  /\ At(p, "link")
  /\ IF final = None
     THEN /\ final' = p
          /\ proc' = [proc EXCEPT ![p].published = TRUE, ![p].at = "linked"]
     ELSE Goto(p, "cleanup") /\ UNCHANGED final
  /\ UNCHANGED <<temp, disk, bytes, outcome>> /\ noFault

\* A reader may already have removed the temporary link; the check then fails,
\* but the file is published all the same.
CheckLinks(p) ==
  /\ At(p, "linked")
  /\ Goto(p, IF temp[p] /\ Links(p) = 2 THEN "unlink" ELSE "cleanup")
  /\ UNCHANGED <<names, disk, bytes, outcome>> /\ noFault

Unlink(p) ==
  /\ At(p, "unlink") /\ Goto(p, "cleanup")
  /\ temp' = [temp EXCEPT ![p] = FALSE]
  /\ UNCHANGED <<final, disk, bytes, outcome>> /\ noFault

\* The finally block, and the decision to read what is published.
Cleanup(p) ==
  /\ At(p, "cleanup")
  /\ temp' = [temp EXCEPT ![p] = FALSE]
  /\ IF proc[p].published \/ final # None
     THEN /\ proc' = [proc EXCEPT ![p].late = TRUE, ![p].at = "lstat"]
          /\ UNCHANGED outcome
     ELSE Return(p, "error")
  /\ UNCHANGED <<final, disk, bytes>> /\ noFault

-----------------------------------------------------------------------------
(* Failures.                                                                *)

Fault == faults < MaxFaults /\ faults' = faults + 1

\* A call of the publication throws: a partly written file included.
CallFails(p) ==
  /\ proc[p].at \in CreateSteps /\ Fault
  /\ Goto(p, "cleanup")
  /\ content' = IF At(p, "write") THEN [content EXCEPT ![p] = "torn"] ELSE content
  /\ faulty' = faulty \cup {p}
  /\ UNCHANGED <<names, disk, synced, outcome>>

Dies(p) ==
  /\ proc[p].at \notin {"idle", "returned", "dead"} /\ Fault
  /\ Goto(p, "dead")
  /\ UNCHANGED <<names, disk, bytes, outcome, faulty>>

\* External: the file system after a loss of power.
PowerLoss ==
  /\ Fault
  /\ proc' = [p \in Process |-> [proc[p] EXCEPT !.at =
                IF @ \in {"idle", "returned"} THEN @ ELSE "dead"]]
  /\ final' \in {final, diskFinal} /\ diskFinal' = final'
  /\ temp' \in {t \in [Process -> BOOLEAN] :
                  \A p \in Process : t[p] \in {temp[p], diskTemp[p]}}
  /\ diskTemp' = temp'
  /\ content' \in {c \in [Process -> Bytes] :
                     \A p \in Process :
                       IF synced[p] THEN c[p] = content[p]
                       ELSE c[p] \in {content[p], "torn"}}
  /\ UNCHANGED <<synced, outcome, faulty>>

Reads(p) == \/ Start(p) \/ LookUpFinal(p) \/ LookUpTemporary(p)
            \/ RemoveTemporary(p) \/ Open(p) \/ Read(p) \/ Scan(p) \/ Settle(p)
            \/ SyncDirectory(p)
Publishes(p) == \/ Create(p) \/ Write(p) \/ Fsync(p) \/ ReadBack(p) \/ Link(p)
                \/ CheckLinks(p) \/ Unlink(p) \/ Cleanup(p)

FileNext ==
  \/ \E p \in Process : Reads(p) \/ Publishes(p) \/ CallFails(p) \/ Dies(p)
  \/ PowerLoss

FileSpec == FileInit /\ [][FileNext]_fileVars

-----------------------------------------------------------------------------
(* Properties.                                                              *)

\* The final name never shows anything but all the bytes of one publisher, not
\* even after a loss of power: fsync comes before linkSync.
FinalIsWhole == final # None => content[final] = Want[final]

\* Whoever has returned successfully can rely on the file for ever: the final
\* name holds its bytes, whole, in every later state, over deaths and losses of
\* power, and only one process is told that it created the file.
SuccessIsDurable ==
  /\ FinalIsWhole
  /\ \A p \in Process : outcome[p] \in {"created", "read"} =>
       final # None /\ content[final] = Want[p]
  /\ \A p, q \in Process : outcome[p] = "created" /\ outcome[q] = "created" => p = q

\* A process that is refused finds other bytes published, or one of its own
\* calls failed: no interleaving with a publisher between link and unlink, nor
\* the temporary link of a dead one, refuses a process whose bytes are there.
RefusalIsJustified ==
  [][\A p \in Process :
       outcome[p] = "none" /\ outcome'[p] = "error" =>
         \/ p \in faulty
         \/ final # None /\ content[final] # Want[p]]_fileVars
=============================================================================
