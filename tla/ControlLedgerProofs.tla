------------------------ MODULE ControlLedgerProofs ------------------------
(***************************************************************************)
(* The control ledger hands nothing out twice and forgets nothing it handed *)
(* out, for any number of processes, scopes and power failures; what it     *)
(* reserved stays within the cap, and a ledger that can be finalized stays  *)
(* so until the power fails.  The fresh-cluster controller sends nothing    *)
(* twice and reports only what is so, for any number of runs and            *)
(* unanswered requests.                                                     *)
(***************************************************************************)
EXTENDS ControlLedger, FreshCluster, SequenceTheorems, WellFoundedInduction, TLAPS

\* The shapes of the names, records and calls that the proofs below use.
LEMMA FileShape ==
  /\ Claim \in Files
  /\ \A i \in Scopes : Spend(i) \in Files /\ Launch(i) \in Files
  /\ \A i, j \in Scopes : Launch(i) = Launch(j) => i = j
  /\ \A i, j \in Scopes : Launch(i) # Claim /\ Launch(i) # Spend(j)
  /\ NoBody \in Bodies
  /\ Absent \in DiskFiles
  BY LedgerAssumption
     DEF Files, Claim, Spend, Launch, NoBody, Bodies, Absent, DiskFiles, Clock

InFlight(p) == calls[p].stage \in {"created", "written", "synced", "listed"}

\* What a call in flight looks like.
LEMMA CallShape ==
  ASSUME LedgerTypeOK, NEW p \in Processes
  PROVE  /\ calls[p].stage = "called" =>
              calls[p].file \in Files /\ calls[p].at \in Clock
         /\ InFlight(p) =>
              /\ calls[p].file \in Files /\ calls[p].body \in Bodies
              /\ \A s \in {"created", "written", "synced", "listed"} :
                   Advanced(p, s) \in LedgerCalls
         /\ calls[p] = Idle => calls[p].stage = "idle"
  <1>1. calls[p] \in LedgerCalls
    BY DEF LedgerTypeOK
  <1> QED BY <1>1 DEF LedgerCalls, InFlight, Idle, Advanced

-----------------------------------------------------------------------------
(* Type correctness. *)

\* One step of one process keeps the types.
LEMMA ProcessKeepsTypes ==
  ASSUME LedgerTypeOK, NEW p \in Processes, ProcessStep(p)
  PROVE  LedgerTypeOK'
  <1> USE DEF LedgerTypeOK
  <1>1. ASSUME NEW f \in Files, Call(p, f) PROVE LedgerTypeOK'
    BY <1>1 DEF Call, LedgerCalls
  <1>2. CASE Create(p)
    <2>1. calls[p].file \in Files
      BY <1>2, CallShape DEF Create
    <2>2. disk' \in [Files -> DiskFiles]
      BY <1>2, <2>1, FileShape DEF Create, DiskFiles
    <2>3. calls' \in [Processes -> LedgerCalls]
      BY <1>2, <2>1 DEF Create, LedgerCalls, Admitted
    <2> QED BY <1>2, <2>2, <2>3 DEF Create
  <1>3. CASE Deny(p)
    BY <1>3 DEF Deny, LedgerCalls, Idle
  <1>4. CASE Write(p)
    <2>1. /\ calls[p].file \in Files /\ calls[p].body \in Bodies
          /\ Advanced(p, "written") \in LedgerCalls
      BY <1>4, CallShape DEF Write, InFlight
    <2>2. disk' \in [Files -> DiskFiles]
      BY <1>4, <2>1 DEF Write, DiskFiles
    <2> QED BY <1>4, <2>1, <2>2 DEF Write
  <1>5. CASE SyncFile(p)
    <2>1. /\ calls[p].file \in Files
          /\ Advanced(p, "synced") \in LedgerCalls
      BY <1>5, CallShape DEF SyncFile, InFlight
    <2>2. disk' \in [Files -> DiskFiles]
      BY <1>5, <2>1 DEF SyncFile, DiskFiles
    <2> QED BY <1>5, <2>1, <2>2 DEF SyncFile
  <1>6. CASE SyncDirectory(p)
    <2>1. Advanced(p, "listed") \in LedgerCalls
      BY <1>6, CallShape DEF SyncDirectory, InFlight
    <2>2. disk' \in [Files -> DiskFiles]
      BY <1>6 DEF SyncDirectory, DiskFiles
    <2> QED BY <1>6, <2>1, <2>2 DEF SyncDirectory
  <1>7. CASE Return(p)
    <2>1. calls[p].file \in Files /\ calls[p].body \in Bodies
      BY <1>7, CallShape DEF Return, InFlight
    <2>2. Append(issued[calls[p].file], calls[p].body) \in Seq(Bodies)
      BY <2>1
    <2>3. issued' \in [Files -> Seq(Bodies)]
      BY <1>7, <2>2 DEF Return
    <2> QED BY <1>7, <2>3 DEF Return, LedgerCalls, Idle
  <1>8. CASE Abandon(p)
    BY <1>8 DEF Abandon, LedgerCalls, Idle
  <1> QED BY <1>1, <1>2, <1>3, <1>4, <1>5, <1>6, <1>7, <1>8 DEF ProcessStep

\* Every record, call and receipt has its type.
THEOREM LedgerTypeCorrect == LedgerSpec => []LedgerTypeOK
  <1>1. LedgerInit => LedgerTypeOK
    BY FileShape, LedgerAssumption
       DEF LedgerInit, LedgerTypeOK, Clock, LedgerCalls, Idle
  <1>2. LedgerTypeOK /\ [LedgerNext]_ledgerFileVars => LedgerTypeOK'
    <2> SUFFICES ASSUME LedgerTypeOK, [LedgerNext]_ledgerFileVars
                 PROVE  LedgerTypeOK'
      OBVIOUS
    <2>1. CASE UNCHANGED ledgerFileVars
      BY <2>1 DEF ledgerFileVars, LedgerTypeOK
    <2>2. CASE PowerFailure
      <3>1. PICK gone \in SUBSET Files, torn \in SUBSET Files :
              disk' = [f \in Files |->
                IF f \in gone \/ disk[f].entry = "absent" THEN Absent
                ELSE Surviving(f, torn)]
        BY <2>2 DEF PowerFailure
      <3>2. \A f \in Files : Surviving(f, torn) \in DiskFiles
        BY FileShape DEF LedgerTypeOK, DiskFiles, Surviving
      <3>3. disk' \in [Files -> DiskFiles]
        BY <3>1, <3>2, FileShape
      <3> QED BY <2>2, <3>3, LedgerAssumption
              DEF PowerFailure, LedgerTypeOK, LedgerCalls, Idle
    <2>3. CASE SetClock
      BY <2>3 DEF SetClock, LedgerTypeOK
    <2> QED BY <2>1, <2>2, <2>3, ProcessKeepsTypes DEF LedgerNext
  <1> QED BY <1>1, <1>2, PTL DEF LedgerSpec

-----------------------------------------------------------------------------
(* The inductive invariant. *)

\* A call in flight owns its file: nobody else is writing it, no receipt was
\* issued for it, and the file is as far as the call is.
OwnsItsFile(p) ==
  LET f == calls[p].file
  IN  /\ disk[f].entry # "absent"
      /\ issued[f] = << >>
      /\ calls[p].stage \in {"written", "synced", "listed"} =>
           disk[f].body = calls[p].body /\ disk[f].data # "partial"
      /\ calls[p].stage \in {"synced", "listed"} => disk[f].data = "synced"
      /\ calls[p].stage = "listed" => disk[f].entry = "durable"

\* What a launch of scope i rests on, once it was validated.
Behind(i) ==
  /\ issued[Claim] # << >>
  /\ issued[Spend(i)] # << >>
  /\ \A j \in 1..(i - 1) : disk[Launch(j)].entry # "absent"
                           /\ disk[Spend(j)].entry # "absent"

BehindDurable(i) ==
  /\ issued[Claim] # << >>
  /\ issued[Spend(i)] # << >>
  /\ \A j \in 1..(i - 1) : disk[Launch(j)].entry = "durable"
                           /\ disk[Spend(j)].entry = "durable"

FilesOwned ==
  /\ \A p \in Processes : InFlight(p) => OwnsItsFile(p)
  /\ \A p, q \in Processes :
       InFlight(p) /\ InFlight(q) /\ calls[p].file = calls[q].file => p = q

LaunchesRest ==
  /\ \A p \in Processes, i \in Scopes :
       InFlight(p) /\ calls[p].file = Launch(i) =>
         /\ Behind(i)
         /\ calls[p].stage = "listed" => BehindDurable(i)
  /\ \A i \in Scopes : issued[Launch(i)] # << >> => BehindDurable(i)

LedgerFilesInv ==
  /\ FilesOwned
  /\ LaunchesRest
  /\ ConsumedAtMostOnce
  /\ IssuedIsDurable

\* A step that moves process p to a stage in which it writes its file, or out
\* of one, leaves the other processes where they are.
LEMMA OthersStay ==
  ASSUME LedgerTypeOK, NEW p \in Processes, NEW c,
         calls' = [calls EXCEPT ![p] = c]
  PROVE  /\ calls'[p] = c
         /\ \A q \in Processes \ {p} :
              calls'[q] = calls[q] /\ (InFlight(q)' <=> InFlight(q))
  BY DEF LedgerTypeOK, InFlight

\* A step that ends a call, or starts one that owns no file yet, keeps the
\* invariant.
LEMMA QuietKeepsFiles ==
  ASSUME LedgerTypeOK, LedgerFilesInv, NEW p \in Processes, NEW c,
         calls' = [calls EXCEPT ![p] = c],
         c.stage \in {"idle", "called"},
         UNCHANGED <<disk, issued>>
  PROVE  LedgerFilesInv'
  <1>1. /\ ~InFlight(p)'
        /\ \A q \in Processes \ {p} :
             calls'[q] = calls[q] /\ (InFlight(q)' <=> InFlight(q))
    BY OthersStay DEF InFlight
  <1>2. FilesOwned'
    BY <1>1 DEF LedgerFilesInv, FilesOwned, OwnsItsFile
  <1>3. LaunchesRest'
    BY <1>1 DEF LedgerFilesInv, LaunchesRest, Behind, BehindDurable
  <1> QED BY <1>2, <1>3
          DEF LedgerFilesInv, ConsumedAtMostOnce, IssuedIsDurable

\* A call that creates its file becomes the owner of it.  A launch was
\* validated against everything it rests on in the same step.
LEMMA CreateKeepsFiles ==
  ASSUME LedgerTypeOK, LedgerFilesInv, NEW p \in Processes, Create(p)
  PROVE  LedgerFilesInv'
  <1> DEFINE f == calls[p].file
  <1>1. f \in Files /\ calls[p].at \in Clock
    BY CallShape DEF Create
  <1>2. PICK b \in Admitted(f, calls[p].at) :
          calls' = [calls EXCEPT ![p] =
                      [stage |-> "created", file |-> f, body |-> b]]
    BY DEF Create
  <1>3. /\ calls'[p].stage = "created" /\ calls'[p].file = f
        /\ InFlight(p)'
        /\ \A q \in Processes \ {p} :
             calls'[q] = calls[q] /\ (InFlight(q)' <=> InFlight(q))
    <2>1. /\ calls'[p] = [stage |-> "created", file |-> f, body |-> b]
          /\ \A q \in Processes \ {p} :
               calls'[q] = calls[q] /\ (InFlight(q)' <=> InFlight(q))
      BY <1>2, OthersStay
    <2>2. calls'[p].stage = "created" /\ calls'[p].file = f
      BY <2>1
    <2>3. InFlight(p)'
      BY <2>2 DEF InFlight
    <2> QED BY <2>1, <2>2, <2>3
  <1>4. /\ disk[f].entry = "absent"
        /\ disk'[f].entry = "volatile"
        /\ \A g \in Files \ {f} : disk'[g] = disk[g]
        /\ issued' = issued
    BY <1>1 DEF Create, Creatable, LedgerTypeOK
  <1>5. issued[f] = << >>
    BY <1>1, <1>4 DEF LedgerFilesInv, IssuedIsDurable
  <1>6. \A q \in Processes \ {p} : InFlight(q) =>
          calls[q].file \in Files /\ calls[q].file # f
    BY <1>4, CallShape DEF LedgerFilesInv, FilesOwned, OwnsItsFile
  <1>7. FilesOwned'
    BY <1>3, <1>4, <1>5, <1>6
       DEF LedgerFilesInv, FilesOwned, OwnsItsFile
  <1>8. \A g \in Files : disk[g].entry # "absent" =>
          disk'[g].entry = disk[g].entry
    BY <1>4
  <1>9. LaunchesRest'
    <2>1. ASSUME NEW i \in Scopes, f = Launch(i) PROVE Behind(i)
      <3>1. MayLaunch(i, calls[p].at)
        BY <1>2, <2>1, FileShape DEF Admitted
      <3> QED BY <3>1 DEF MayLaunch, ClaimStands, Held, SpendStands,
                          LaunchStands, Readable, Behind
    <2>2. \A i \in Scopes : \A j \in 1..(i - 1) :
            Launch(j) \in Files /\ Spend(j) \in Files
      BY FileShape, LedgerAssumption DEF Scopes
    <2>3. \A i \in Scopes : /\ Behind(i) => Behind(i)'
                            /\ BehindDurable(i) => BehindDurable(i)'
      BY <1>4, <1>8, <2>2 DEF Behind, BehindDurable
    <2> QED BY <1>3, <1>4, <2>1, <2>3 DEF LedgerFilesInv, LaunchesRest
  <1>10. IssuedIsDurable' /\ ConsumedAtMostOnce'
    BY <1>4, <1>5 DEF LedgerFilesInv, IssuedIsDurable, ConsumedAtMostOnce
  <1> QED BY <1>7, <1>9, <1>10 DEF LedgerFilesInv

\* A step in which the owner of a file moves it one stage on: entries never
\* disappear and durable ones stay durable.
LEMMA OwnerKeepsFiles ==
  ASSUME LedgerTypeOK, LedgerFilesInv, NEW p \in Processes, InFlight(p),
         NEW s \in {"written", "synced", "listed"},
         calls' = [calls EXCEPT ![p] = Advanced(p, s)],
         issued' = issued,
         \A g \in Files :
           /\ disk[g].entry # "absent" => disk'[g].entry # "absent"
           /\ disk[g].entry = "durable" => disk'[g].entry = "durable"
           /\ g # calls[p].file =>
                disk'[g].data = disk[g].data /\ disk'[g].body = disk[g].body,
         disk'[calls[p].file].body = calls[p].body,
         disk'[calls[p].file].data # "partial",
         s \in {"synced", "listed"} => disk'[calls[p].file].data = "synced",
         s = "listed" => \A g \in Files : disk'[g].entry \in {"absent", "durable"}
  PROVE  LedgerFilesInv'
  <1> DEFINE f == calls[p].file
  <1>1. f \in Files
    BY CallShape
  <1>2. calls'[p] = [stage |-> s, file |-> f, body |-> calls[p].body]
    BY OthersStay DEF Advanced
  <1>3. /\ InFlight(p)'
        /\ \A q \in Processes \ {p} :
             calls'[q] = calls[q] /\ (InFlight(q)' <=> InFlight(q))
    BY <1>2, OthersStay DEF InFlight
  <1>4. \A q \in Processes \ {p} : InFlight(q) =>
          calls[q].file \in Files /\ calls[q].file # f
    BY CallShape DEF LedgerFilesInv, FilesOwned
  <1>5. disk[f].entry # "absent" /\ issued[f] = << >>
    BY DEF LedgerFilesInv, FilesOwned, OwnsItsFile
  <1>6. FilesOwned'
    <2>1. OwnsItsFile(p)'
      BY <1>1, <1>2, <1>5 DEF OwnsItsFile
    <2>2. \A q \in Processes \ {p} : InFlight(q) => OwnsItsFile(q)'
      BY <1>3, <1>4 DEF LedgerFilesInv, FilesOwned, OwnsItsFile
    <2>3. \A q \in Processes : InFlight(q)' => OwnsItsFile(q)'
      BY <1>3, <2>1, <2>2
    <2>4. calls'[p].file = f
      BY <1>2
    <2>5. ASSUME NEW q \in Processes, NEW r \in Processes,
                 InFlight(q)', InFlight(r)', calls'[q].file = calls'[r].file
          PROVE  q = r
      <3>1. CASE q = p \/ r = p
        BY <1>3, <1>4, <2>4, <2>5, <3>1
      <3>2. CASE q # p /\ r # p
        BY <1>3, <2>5, <3>2 DEF LedgerFilesInv, FilesOwned
      <3> QED BY <3>1, <3>2
    <2> QED BY <2>3, <2>5 DEF FilesOwned
  <1>7. LaunchesRest'
    <2>1. \A i \in Scopes : \A j \in 1..(i - 1) :
            Launch(j) \in Files /\ Spend(j) \in Files
      BY FileShape, LedgerAssumption DEF Scopes
    <2>2. \A i \in Scopes : /\ Behind(i) => Behind(i)'
                            /\ BehindDurable(i) => BehindDurable(i)'
      BY <2>1 DEF Behind, BehindDurable
    <2>3. s = "listed" => \A i \in Scopes : Behind(i) => BehindDurable(i)'
      BY <2>1 DEF Behind, BehindDurable
    <2> QED BY <1>2, <1>3, <2>2, <2>3 DEF LedgerFilesInv, LaunchesRest
  <1>8. IssuedIsDurable' /\ ConsumedAtMostOnce'
    BY <1>5 DEF LedgerFilesInv, IssuedIsDurable, ConsumedAtMostOnce
  <1> QED BY <1>6, <1>7, <1>8 DEF LedgerFilesInv

\* The receipt that Return issues is the first for its file, and the file is
\* durable by then.
LEMMA ReturnKeepsFiles ==
  ASSUME LedgerTypeOK, LedgerFilesInv, NEW p \in Processes, Return(p)
  PROVE  LedgerFilesInv'
  <1> DEFINE f == calls[p].file
  <1>1. InFlight(p) /\ f \in Files /\ calls[p].body \in Bodies
    BY CallShape DEF Return, InFlight
  <1>2. /\ ~InFlight(p)'
        /\ \A q \in Processes \ {p} :
             calls'[q] = calls[q] /\ (InFlight(q)' <=> InFlight(q))
    <2>1. calls' = [calls EXCEPT ![p] = Idle]
      BY DEF Return
    <2>2. /\ calls'[p] = Idle
          /\ \A q \in Processes \ {p} :
               calls'[q] = calls[q] /\ (InFlight(q)' <=> InFlight(q))
      BY <2>1, OthersStay
    <2>3. ~InFlight(p)'
      BY <2>2 DEF InFlight, Idle
    <2> QED BY <2>2, <2>3
  <1>3. /\ disk[f].entry = "durable" /\ disk[f].data = "synced"
        /\ disk[f].body = calls[p].body
        /\ issued[f] = << >>
    BY <1>1 DEF LedgerFilesInv, FilesOwned, OwnsItsFile, Return
  <1>4. /\ issued'[f] = <<calls[p].body>>
        /\ \A g \in Files \ {f} : issued'[g] = issued[g]
        /\ disk' = disk
    BY <1>1, <1>3 DEF Return, LedgerTypeOK
  <1>5. \A q \in Processes \ {p} : InFlight(q) =>
          calls[q].file \in Files /\ calls[q].file # f
    BY <1>1, CallShape DEF LedgerFilesInv, FilesOwned
  <1>6. FilesOwned'
    BY <1>2, <1>4, <1>5 DEF LedgerFilesInv, FilesOwned, OwnsItsFile
  <1>7. LaunchesRest'
    <2>1. \A g \in Files : issued[g] # << >> => issued'[g] # << >>
      BY <1>4
    <2>2. \A i \in Scopes : /\ Behind(i) => Behind(i)'
                            /\ BehindDurable(i) => BehindDurable(i)'
      BY <1>4, <2>1, FileShape DEF Behind, BehindDurable
    <2>3. \A i \in Scopes : f = Launch(i) => BehindDurable(i)
      BY <1>1 DEF Return, LedgerFilesInv, LaunchesRest
    <2> QED BY <1>2, <1>4, <2>2, <2>3, FileShape
            DEF LedgerFilesInv, LaunchesRest
  <1>8. IssuedIsDurable' /\ ConsumedAtMostOnce'
    <2>1. issued'[f][1] = calls[p].body /\ Len(issued'[f]) <= 1
      BY <1>1, <1>4
    <2>2. IssuedIsDurable'
      BY <1>3, <1>4, <2>1 DEF LedgerFilesInv, IssuedIsDurable
    <2>3. ASSUME NEW g \in Files PROVE Len(issued'[g]) <= 1
      <3>1. CASE g = f
        BY <2>1, <3>1
      <3>2. CASE g # f
        <4>1. issued'[g] = issued[g]
          BY <1>4, <3>2
        <4> QED BY <4>1 DEF LedgerFilesInv, ConsumedAtMostOnce
      <3> QED BY <3>1, <3>2
    <2>4. ConsumedAtMostOnce'
      BY <2>3 DEF ConsumedAtMostOnce
    <2> QED BY <2>2, <2>4
  <1> QED BY <1>6, <1>7, <1>8 DEF LedgerFilesInv

\* A power failure ends every call; what is durable survives it.
LEMMA PowerFailureKeepsFiles ==
  ASSUME LedgerTypeOK, LedgerFilesInv, PowerFailure
  PROVE  LedgerFilesInv'
  <1>1. \A p \in Processes : ~InFlight(p)'
    BY DEF PowerFailure, InFlight, Idle
  <1>2. PICK gone \in SUBSET {f \in Files : disk[f].entry = "volatile"},
             torn \in SUBSET {f \in Files : disk[f].data = "full"} :
          disk' = [f \in Files |->
            IF f \in gone \/ disk[f].entry = "absent" THEN Absent
            ELSE Surviving(f, torn)]
    BY DEF PowerFailure
  <1>3. \A f \in Files : disk[f].entry = "durable" =>
          /\ disk'[f].entry = "durable"
          /\ disk[f].data = "synced" =>
               disk'[f].data = "synced" /\ disk'[f].body = disk[f].body
    BY <1>2 DEF Surviving
  <1>4. issued' = issued
    BY DEF PowerFailure
  <1>5. \A i \in Scopes : BehindDurable(i) => BehindDurable(i)'
    <2>1. \A i \in Scopes : \A j \in 1..(i - 1) :
            Launch(j) \in Files /\ Spend(j) \in Files
      BY FileShape, LedgerAssumption DEF Scopes
    <2> QED BY <1>3, <1>4, <2>1 DEF BehindDurable
  <1> QED BY <1>1, <1>3, <1>4, <1>5
          DEF LedgerFilesInv, FilesOwned, LaunchesRest, ConsumedAtMostOnce,
              IssuedIsDurable

\* One step of one process keeps the invariant.
LEMMA ProcessKeepsFiles ==
  ASSUME LedgerTypeOK, LedgerFilesInv, NEW p \in Processes, ProcessStep(p)
  PROVE  LedgerFilesInv'
  <1>1. ASSUME NEW f \in Files, Call(p, f) PROVE LedgerFilesInv'
    BY <1>1, QuietKeepsFiles DEF Call
  <1>2. CASE Deny(p) \/ Abandon(p)
    BY <1>2, QuietKeepsFiles DEF Deny, Abandon, Idle
  <1>3. CASE Write(p)
    <2> DEFINE f == calls[p].file
    <2>1. InFlight(p) /\ f \in Files
      BY <1>3, CallShape DEF Write, InFlight
    <2>2. /\ \A g \in Files \ {f} : disk'[g] = disk[g]
          /\ disk'[f].entry = disk[f].entry
          /\ disk'[f].data = "full" /\ disk'[f].body = calls[p].body
      BY <1>3, <2>1 DEF Write, LedgerTypeOK, DiskFiles
    <2> QED BY <1>3, <2>1, <2>2, OwnerKeepsFiles DEF Write
  <1>4. CASE SyncFile(p)
    <2> DEFINE f == calls[p].file
    <2>1. InFlight(p) /\ f \in Files
      BY <1>4, CallShape DEF SyncFile, InFlight
    <2>2. /\ \A g \in Files \ {f} : disk'[g] = disk[g]
          /\ disk'[f].entry = disk[f].entry
          /\ disk'[f].data = "synced" /\ disk'[f].body = disk[f].body
      BY <1>4, <2>1 DEF SyncFile, LedgerTypeOK, DiskFiles
    <2>3. disk[f].body = calls[p].body
      BY <1>4, <2>1 DEF SyncFile, LedgerFilesInv, FilesOwned, OwnsItsFile
    <2> QED BY <1>4, <2>1, <2>2, <2>3, OwnerKeepsFiles DEF SyncFile
  <1>5. CASE SyncDirectory(p)
    <2> DEFINE f == calls[p].file
    <2>1. InFlight(p) /\ f \in Files
      BY <1>5, CallShape DEF SyncDirectory, InFlight
    <2>2. \A g \in Files :
            /\ disk[g].entry = "absent" => disk'[g] = disk[g]
            /\ disk[g].entry # "absent" => disk'[g].entry = "durable"
            /\ disk'[g].data = disk[g].data /\ disk'[g].body = disk[g].body
      BY <1>5 DEF SyncDirectory, LedgerTypeOK, DiskFiles
    <2>3. disk[f].body = calls[p].body /\ disk[f].data = "synced"
      BY <1>5, <2>1 DEF SyncDirectory, LedgerFilesInv, FilesOwned, OwnsItsFile
    <2> QED BY <1>5, <2>1, <2>2, <2>3, OwnerKeepsFiles DEF SyncDirectory
  <1> QED BY <1>1, <1>2, <1>3, <1>4, <1>5, CreateKeepsFiles, ReturnKeepsFiles
          DEF ProcessStep

\* The invariant holds in every state: a call in flight owns its file, what
\* was issued is durable, and launches rest on what was issued before them.
THEOREM LedgerFilesSafe == LedgerSpec => [](LedgerTypeOK /\ LedgerFilesInv)
  <1>1. LedgerInit => LedgerFilesInv
    BY FileShape
       DEF LedgerInit, LedgerFilesInv, FilesOwned, LaunchesRest, InFlight,
           Idle, ConsumedAtMostOnce, IssuedIsDurable
  <1>2. LedgerTypeOK /\ LedgerFilesInv /\ [LedgerNext]_ledgerFileVars =>
          LedgerFilesInv'
    <2> SUFFICES ASSUME LedgerTypeOK, LedgerFilesInv,
                        [LedgerNext]_ledgerFileVars
                 PROVE  LedgerFilesInv'
      OBVIOUS
    <2>1. CASE UNCHANGED <<disk, calls, issued>>
      BY <2>1 DEF LedgerFilesInv, FilesOwned, OwnsItsFile, InFlight,
                  LaunchesRest, Behind, BehindDurable, ConsumedAtMostOnce,
                  IssuedIsDurable
    <2> QED BY <2>1, ProcessKeepsFiles, PowerFailureKeepsFiles
            DEF LedgerNext, SetClock, ledgerFileVars
  <1> QED BY <1>1, <1>2, LedgerTypeCorrect, PTL DEF LedgerSpec

\* No file is consumed twice, whatever crashes: one claim per authorization,
\* one reservation and one launch per scope.
THEOREM OneConsumptionPerFile == LedgerSpec => []ConsumedAtMostOnce
  <1>1. LedgerFilesInv => ConsumedAtMostOnce
    BY DEF LedgerFilesInv
  <1> QED BY <1>1, LedgerFilesSafe, PTL

\* A receipt that was returned is on disk for good.
THEOREM ReceiptsSurvive == LedgerSpec => []IssuedIsDurable
  <1>1. LedgerFilesInv => IssuedIsDurable
    BY DEF LedgerFilesInv
  <1> QED BY <1>1, LedgerFilesSafe, PTL

\* A launch that was returned stands on the claim, its reservation and the
\* files of every scope before it.
THEOREM OrderedLaunches == LedgerSpec => []LaunchesInOrder
  <1>1. LedgerFilesInv => LaunchesInOrder
    BY DEF LedgerFilesInv, LaunchesRest, BehindDurable, LaunchesInOrder
  <1> QED BY <1>1, LedgerFilesSafe, PTL

\* The three together: the ledger's promise for any number of processes,
\* scopes and power failures.
THEOREM LedgerSafe == LedgerSpec => []LedgerIsSafe
  <1>1. ConsumedAtMostOnce /\ IssuedIsDurable /\ LaunchesInOrder => LedgerIsSafe
    BY DEF LedgerIsSafe
  <1> QED BY <1>1, OneConsumptionPerFile, ReceiptsSurvive, OrderedLaunches, PTL

-----------------------------------------------------------------------------
(* A ledger that can be finalized.                                          *)

\* What a call created and has not written is no record yet.
CreatedIsPartial ==
  \A p \in Processes : calls[p].stage = "created" => disk[calls[p].file].data = "partial"

\* Record f stays, and the receipts that were issued for it.
RecordStays(f) ==
  /\ Readable(f)' /\ disk'[f].body = disk[f].body
  /\ \A k \in DOMAIN issued[f] : k \in DOMAIN issued'[f] /\ issued'[f][k] = issued[f][k]

\* No step of a process changes a record that can be read, or writes what
\* another one created.
LEMMA ProcessKeepsRecords ==
  ASSUME LedgerTypeOK, LedgerFilesInv, CreatedIsPartial, NEW p \in Processes, ProcessStep(p)
  PROVE  CreatedIsPartial' /\ \A g \in Files : Readable(g) => RecordStays(g)
  <1> DEFINE f == calls[p].file
  <1>1. ASSUME NEW c, calls' = [calls EXCEPT ![p] = c], c.stage # "created",
               \A g \in Files : disk'[g].data = disk[g].data \/ (InFlight(p) /\ g = f)
        PROVE  CreatedIsPartial'
    <2> SUFFICES ASSUME NEW q \in Processes, calls'[q].stage = "created"
                 PROVE  disk'[calls'[q].file].data = "partial"
      BY DEF CreatedIsPartial
    <2>1. q # p /\ calls'[q] = calls[q]
      BY <1>1 DEF LedgerTypeOK
    <2>2. calls[q].file \in Files /\ InFlight(q)
      BY <2>1, CallShape DEF InFlight
    <2>3. ~(InFlight(p) /\ calls[q].file = f)
      BY <2>1, <2>2 DEF LedgerFilesInv, FilesOwned
    <2> QED BY <1>1, <2>1, <2>2, <2>3 DEF CreatedIsPartial
  <1>2. CASE UNCHANGED <<disk, issued>> /\ (\E g \in Files : Call(p, g) \/ Deny(p) \/ Abandon(p))
    <2>1. PICK c : calls' = [calls EXCEPT ![p] = c] /\ c.stage \in {"called", "idle"}
      BY <1>2 DEF Call, Deny, Abandon, Idle
    <2>2. CreatedIsPartial'
      BY <1>1, <1>2, <2>1
    <2> QED BY <1>2, <2>2 DEF RecordStays, Readable
  <1>3. CASE Create(p)
    <2>1. f \in Files /\ disk[f].entry = "absent"
      BY <1>3, CallShape DEF Create, Creatable
    <2>2. PICK b : calls' = [calls EXCEPT ![p] = [stage |-> "created", file |-> f, body |-> b]]
      BY <1>3 DEF Create
    <2>3. /\ disk'[f].data = "partial" /\ issued' = issued
          /\ \A g \in Files : g # f => disk'[g] = disk[g]
      BY <1>3, <2>1 DEF Create, LedgerTypeOK
    <2>4. CreatedIsPartial'
      <3> SUFFICES ASSUME NEW q \in Processes, calls'[q].stage = "created"
                   PROVE  disk'[calls'[q].file].data = "partial"
        BY DEF CreatedIsPartial
      <3>1. CASE q = p
        BY <2>2, <2>3, <3>1 DEF LedgerTypeOK
      <3>2. CASE q # p
        <4>1. calls'[q] = calls[q] /\ calls[q].file \in Files
          BY <2>2, <3>2, CallShape DEF LedgerTypeOK, InFlight
        <4> QED BY <2>3, <4>1 DEF CreatedIsPartial
      <3> QED BY <3>1, <3>2
    <2>5. \A g \in Files : Readable(g) => RecordStays(g)
      BY <2>1, <2>3 DEF RecordStays, Readable
    <2> QED BY <2>4, <2>5
  <1>4. CASE Write(p)
    <2>1. f \in Files /\ InFlight(p) /\ disk[f].data = "partial"
      BY <1>4, CallShape DEF Write, InFlight, CreatedIsPartial
    <2>2. \A g \in Files : g # f => disk'[g] = disk[g]
      BY <1>4 DEF Write, LedgerTypeOK
    <2>3. CreatedIsPartial'
      <3>1. calls' = [calls EXCEPT ![p] = Advanced(p, "written")]
        BY <1>4 DEF Write
      <3>2. Advanced(p, "written").stage = "written"
        BY DEF Advanced
      <3> QED BY <1>1, <2>1, <2>2, <3>1, <3>2
    <2>4. \A g \in Files : Readable(g) => RecordStays(g)
      BY <1>4, <2>1, <2>2 DEF RecordStays, Readable, Write
    <2> QED BY <2>3, <2>4
  <1>5. CASE SyncFile(p)
    <2>1. f \in Files /\ InFlight(p)
      BY <1>5, CallShape DEF SyncFile, InFlight
    <2>2. /\ \A g \in Files : g # f => disk'[g] = disk[g]
          /\ disk'[f] = [entry |-> disk[f].entry, data |-> "synced", body |-> disk[f].body]
      BY <1>5, <2>1 DEF SyncFile, LedgerTypeOK
    <2>3. CreatedIsPartial'
      <3>1. calls' = [calls EXCEPT ![p] = Advanced(p, "synced")]
        BY <1>5 DEF SyncFile
      <3>2. Advanced(p, "synced").stage = "synced"
        BY DEF Advanced
      <3> QED BY <1>1, <2>1, <2>2, <3>1, <3>2
    <2>4. \A g \in Files : Readable(g) => RecordStays(g)
      BY <1>5, <2>1, <2>2 DEF RecordStays, Readable, SyncFile
    <2> QED BY <2>3, <2>4
  <1>6. CASE SyncDirectory(p)
    <2>1. \A g \in Files :
            /\ disk'[g].data = disk[g].data /\ disk'[g].body = disk[g].body
            /\ disk[g].entry # "absent" => disk'[g].entry # "absent"
      BY <1>6 DEF SyncDirectory, LedgerTypeOK
    <2>2. CreatedIsPartial'
      <3>1. calls' = [calls EXCEPT ![p] = Advanced(p, "listed")]
        BY <1>6 DEF SyncDirectory
      <3>2. Advanced(p, "listed").stage = "listed"
        BY DEF Advanced
      <3> QED BY <1>1, <2>1, <3>1, <3>2
    <2>3. \A g \in Files : Readable(g) => RecordStays(g)
      BY <1>6, <2>1 DEF RecordStays, Readable, SyncDirectory
    <2> QED BY <2>2, <2>3
  <1>7. CASE Return(p)
    <2>1. f \in Files /\ calls[p].body \in Bodies
      BY <1>7, CallShape DEF Return, InFlight
    <2>2. disk' = disk /\ issued' = [issued EXCEPT ![f] = Append(issued[f], calls[p].body)]
      BY <1>7 DEF Return
    <2>3. \A g \in Files : issued[g] \in Seq(Bodies)
      BY DEF LedgerTypeOK
    <2>4. ASSUME NEW g \in Files
          PROVE  \A k \in DOMAIN issued[g] : k \in DOMAIN issued'[g] /\ issued'[g][k] = issued[g][k]
      <3>1. CASE g = f
        <4>1. issued'[f] = Append(issued[f], calls[p].body)
          BY <2>1, <2>2 DEF LedgerTypeOK
        <4> QED BY <2>1, <2>3, <3>1, <4>1
      <3>2. CASE g # f
        BY <2>2, <3>2 DEF LedgerTypeOK
      <3> QED BY <3>1, <3>2
    <2>5. CreatedIsPartial'
      <3>1. calls' = [calls EXCEPT ![p] = Idle] /\ Idle.stage = "idle"
        BY <1>7 DEF Return, Idle
      <3> QED BY <1>1, <2>2, <3>1
    <2> QED BY <2>2, <2>4, <2>5 DEF RecordStays, Readable
  <1>8. \A g \in Files : Call(p, g) => UNCHANGED <<disk, issued>>
    BY DEF Call
  <1>9. Deny(p) \/ Abandon(p) => UNCHANGED <<disk, issued>>
    BY DEF Deny, Abandon
  <1> QED BY <1>2, <1>3, <1>4, <1>5, <1>6, <1>7, <1>8, <1>9, FileShape DEF ProcessStep

\* A ledger whose records stay can still be finalized, from the same records.
LEMMA RecordsKeepFinal ==
  ASSUME Finalizable, \A f \in Files : Readable(f) => RecordStays(f)
  PROVE  Finalizable' /\ \A f \in Files : disk'[f].body = disk[f].body
  <1>1. \A f \in Files : Readable(f)
    BY DEF Finalizable, ClaimStands, SpendStands, LaunchStands, Files
  <1>2. \A f \in Files : Readable(f)' /\ disk'[f].body = disk[f].body
    BY <1>1 DEF RecordStays
  <1>3. \A f \in Files : Held(f) => Held(f)'
    BY <1>1 DEF RecordStays, Held
  <1>4. ClaimStands'
    BY <1>2, <1>3, FileShape DEF Finalizable, ClaimStands
  <1>5. ASSUME NEW i \in Scopes
        PROVE  /\ SpendStands(i)' /\ Held(Spend(i))' /\ LaunchStands(i)'
               /\ disk'[Spend(i)].body.at <= disk'[Launch(i)].body.at
    <2>1. Spend(i) \in Files /\ Launch(i) \in Files /\ Claim \in Files
      BY FileShape
    <2>2. /\ SpendStands(i) /\ Held(Spend(i)) /\ LaunchStands(i)
          /\ disk[Spend(i)].body.at <= disk[Launch(i)].body.at
      BY DEF Finalizable
    <2> QED BY <1>2, <1>3, <2>1, <2>2 DEF SpendStands, LaunchStands
  <1>6. ASSUME NEW i \in Scopes, i > 1
        PROVE  /\ disk'[Spend(i - 1)].body.at <= disk'[Spend(i)].body.at
               /\ disk'[Launch(i - 1)].body.at <= disk'[Launch(i)].body.at
    <2>1. i - 1 \in Scopes
      BY <1>6, LedgerAssumption DEF Scopes
    <2>2. /\ Spend(i) \in Files /\ Launch(i) \in Files
          /\ Spend(i - 1) \in Files /\ Launch(i - 1) \in Files
      BY <2>1, FileShape
    <2>3. /\ disk[Spend(i - 1)].body.at <= disk[Spend(i)].body.at
          /\ disk[Launch(i - 1)].body.at <= disk[Launch(i)].body.at
      BY <1>6 DEF Finalizable
    <2> QED BY <1>2, <2>2, <2>3
  <1> QED BY <1>2, <1>4, <1>5, <1>6 DEF Finalizable

\* What is created and not written is partial, in every state.
LEMMA CreatedSafe == LedgerSpec => [](LedgerTypeOK /\ LedgerFilesInv /\ CreatedIsPartial)
  <1>1. LedgerInit => CreatedIsPartial
    BY DEF LedgerInit, CreatedIsPartial, Idle
  <1>2. /\ LedgerTypeOK /\ LedgerFilesInv /\ CreatedIsPartial
        /\ [LedgerNext]_ledgerFileVars
        => CreatedIsPartial'
    <2> SUFFICES ASSUME LedgerTypeOK, LedgerFilesInv, CreatedIsPartial, [LedgerNext]_ledgerFileVars
                 PROVE  CreatedIsPartial'
      OBVIOUS
    <2>1. CASE UNCHANGED <<disk, calls>>
      BY <2>1 DEF CreatedIsPartial
    <2>2. CASE PowerFailure
      BY <2>2 DEF PowerFailure, CreatedIsPartial, Idle
    <2> QED BY <2>1, <2>2, ProcessKeepsRecords DEF LedgerNext, SetClock, ledgerFileVars
  <1> QED BY <1>1, <1>2, LedgerFilesSafe, PTL DEF LedgerSpec

\* A ledger that was found complete stays so, with the same records, whatever
\* late calls come, as long as the power does not fail
\* (finalizeIntegratedLiveDrillControlLedger).
THEOREM FinalizedStays == LedgerSpec => FinalizedIsStable
  <1>1. /\ LedgerTypeOK /\ LedgerFilesInv /\ CreatedIsPartial
        /\ [LedgerNext]_ledgerFileVars
        => [Finalizable /\ failures' = failures =>
              Finalizable' /\ \A f \in Files : disk'[f].body = disk[f].body]_ledgerFileVars
    <2> SUFFICES ASSUME LedgerTypeOK, LedgerFilesInv, CreatedIsPartial, LedgerNext,
                        Finalizable, failures' = failures
                 PROVE  Finalizable' /\ \A f \in Files : disk'[f].body = disk[f].body
      OBVIOUS
    <2>1. ~PowerFailure
      BY LedgerAssumption DEF PowerFailure, LedgerTypeOK
    <2>2. \A f \in Files : Readable(f) => RecordStays(f)
      <3>1. CASE SetClock
        BY <3>1 DEF SetClock, RecordStays, Readable
      <3>2. ASSUME NEW p \in Processes, ProcessStep(p)
            PROVE  \A f \in Files : Readable(f) => RecordStays(f)
        BY <3>2, ProcessKeepsRecords
      <3> QED BY <2>1, <3>1, <3>2 DEF LedgerNext
    <2> QED BY <2>2, RecordsKeepFinal
  <1> QED BY <1>1, CreatedSafe, PTL DEF LedgerSpec, FinalizedIsStable

-----------------------------------------------------------------------------
(* The exposure that was reserved.                                          *)

\* A set of natural numbers has a least one.
LEMMA LeastOf ==
  ASSUME NEW S \in SUBSET Nat, S # {}
  PROVE  \E n \in S : \A m \in S : n <= m
  <1>1. PICK n \in S : \A m \in S : ~(<<m, n>> \in OpToRel(<, Nat))
    BY NatLessThanWellFounded, WFMin, Zenon
  <1>2. \A m \in S : ~(m < n)
    BY <1>1 DEF OpToRel
  <1> QED BY <1>2

\* The running total of the amounts e, as scopeCumulativeMicros forms it.
Totals(g, e) == g = [i \in 0..N |-> IF i = 0 THEN 0 ELSE g[i - 1] + e[i]]

\* There is a running total.  If some n had none up to it, take the least: the
\* total up to n - 1 can be continued by one entry.
LEMMA TotalsExist ==
  ASSUME NEW e \in [Scopes -> Nat]
  PROVE  \E g \in [0..N -> Nat] : Totals(g, e)
  <1> USE LedgerAssumption DEF Scopes
  <1> DEFINE UpTo(n) == \E g \in [0..N -> Nat] :
                          g[0] = 0 /\ \A i \in 1..n : g[i] = g[i - 1] + e[i]
             Without == {n \in 0..N : ~UpTo(n)}
  <1>1. UpTo(0)
    <2> DEFINE z == [i \in 0..N |-> 0]
    <2>1. z \in [0..N -> Nat] /\ z[0] = 0 /\ 1..0 = {}
      OBVIOUS
    <2> HIDE DEF z
    <2> QED BY <2>1
  <1>2. ASSUME NEW n \in 1..N, UpTo(n - 1) PROVE UpTo(n)
    <2>1. PICK g \in [0..N -> Nat] :
            g[0] = 0 /\ \A i \in 1..(n - 1) : g[i] = g[i - 1] + e[i]
      BY <1>2
    <2> DEFINE h == [g EXCEPT ![n] = g[n - 1] + e[n]]
    <2>2. h \in [0..N -> Nat]
      BY <2>1
    <2>3. h[0] = 0 /\ \A i \in 1..n : h[i] = h[i - 1] + e[i]
      <3>1. h[n] = g[n - 1] + e[n] /\ \A i \in 0..(n - 1) : h[i] = g[i]
        BY <2>1
      <3> HIDE DEF h
      <3>2. h[n] = h[n - 1] + e[n]
        BY <3>1
      <3>3. \A i \in 1..(n - 1) : h[i] = h[i - 1] + e[i]
        BY <2>1, <3>1
      <3> QED BY <2>1, <3>1, <3>2, <3>3
    <2> HIDE DEF h
    <2> QED BY <2>2, <2>3
  <1>3. Without = {}
    <2> SUFFICES ASSUME Without # {} PROVE FALSE
      OBVIOUS
    <2>1. PICK n \in Without : \A m \in Without : n <= m
      <3>1. Without \in SUBSET Nat
        OBVIOUS
      <3> HIDE DEF Without
      <3> QED BY <3>1, LeastOf
    <2> HIDE DEF UpTo
    <2>2. n \in 1..N /\ ~UpTo(n)
      BY <1>1, <2>1
    <2>3. n - 1 \in 0..N /\ ~(n <= n - 1)
      BY <2>2
    <2>4. UpTo(n - 1)
      BY <2>1, <2>3
    <2> QED BY <1>2, <2>2, <2>4
  <1>4. UpTo(N)
    <2> HIDE DEF UpTo
    <2> QED BY <1>3
  <1>5. PICK g \in [0..N -> Nat] : g[0] = 0 /\ \A i \in 1..N : g[i] = g[i - 1] + e[i]
    BY <1>4
  <1>6. \A i \in 0..N : g[i] = IF i = 0 THEN 0 ELSE g[i - 1] + e[i]
    BY <1>5
  <1>7. g = [i \in 0..N |-> IF i = 0 THEN 0 ELSE g[i - 1] + e[i]]
    BY <1>5, <1>6
  <1> QED BY <1>5, <1>7 DEF Totals

\* A running total is natural: the least index at which it were not would have
\* a natural one before it.
LEMMA TotalsNatural ==
  ASSUME NEW e \in [Scopes -> Nat], NEW g, Totals(g, e)
  PROVE  \A i \in 0..N : g[i] \in Nat
  <1> USE LedgerAssumption DEF Scopes
  <1> DEFINE Odd == {i \in 0..N : g[i] \notin Nat}
  <1>1. g[0] = 0 /\ \A i \in 1..N : g[i] = g[i - 1] + e[i]
    BY DEF Totals
  <1> SUFFICES ASSUME Odd # {} PROVE FALSE
    OBVIOUS
  <1>2. PICK i \in Odd : \A m \in Odd : i <= m
    <2>1. Odd \in SUBSET Nat
      OBVIOUS
    <2> HIDE DEF Odd
    <2> QED BY <2>1, LeastOf
  <1>3. i \in 1..N
    BY <1>1, <1>2
  <1>4. i - 1 \in 0..N /\ ~(i <= i - 1)
    BY <1>3
  <1>5. g[i - 1] \in Nat
    BY <1>2, <1>4
  <1> QED BY <1>1, <1>2, <1>3, <1>5

\* Cumulative is the running total of the exposures.
LEMMA CumulativeIs ==
  /\ Cumulative[0] = 0
  /\ \A i \in Scopes : Cumulative[i] = Cumulative[i - 1] + Exposure[i]
  /\ \A i \in 0..N : Cumulative[i] \in Nat
  <1>1. \E g : Totals(g, Exposure)
    BY TotalsExist, LedgerAssumption
  <1>2. Totals(Cumulative, Exposure)
    BY <1>1, Zenon DEF Cumulative, Totals
  <1>3. \A i \in 0..N : Cumulative[i] \in Nat
    BY <1>2, TotalsNatural, LedgerAssumption
  <1> HIDE DEF Cumulative
  <1> QED BY <1>2, <1>3, LedgerAssumption DEF Totals, Scopes

\* What has been handed out for scope i.
HandedOut == [i \in Scopes |-> Exposure[i] * Len(issued[Spend(i)])]

\* Reserved is the running total of what was handed out.
LEMMA ReservedIs ==
  ASSUME LedgerTypeOK
  PROVE  /\ Reserved[0] = 0
         /\ \A i \in Scopes : Reserved[i] = Reserved[i - 1] + HandedOut[i]
         /\ \A i \in 0..N : Reserved[i] \in Nat
  <1>1. HandedOut \in [Scopes -> Nat]
    <2> SUFFICES ASSUME NEW i \in Scopes
                 PROVE  Exposure[i] * Len(issued[Spend(i)]) \in Nat
      BY DEF HandedOut
    <2>1. Len(issued[Spend(i)]) \in Nat
      BY FileShape DEF LedgerTypeOK
    <2>2. Exposure[i] \in Nat
      BY LedgerAssumption
    <2>3. \A a, b \in Nat : a * b \in Nat
      OBVIOUS
    <2> QED BY <2>1, <2>2, <2>3
  <1>2. PICK g : Totals(g, HandedOut)
    BY <1>1, TotalsExist
  <1>3. \A h : Totals(h, HandedOut) <=>
           h = [i \in 0..N |->
                  IF i = 0 THEN 0
                  ELSE h[i - 1] + Exposure[i] * Len(issued[Spend(i)])]
    <2> SUFFICES ASSUME NEW h
                 PROVE  [i \in 0..N |-> IF i = 0 THEN 0 ELSE h[i - 1] + HandedOut[i]]
                          = [i \in 0..N |->
                               IF i = 0 THEN 0
                               ELSE h[i - 1] + Exposure[i] * Len(issued[Spend(i)])]
      BY DEF Totals
    <2> SUFFICES ASSUME NEW i \in 0..N, i # 0
                 PROVE  HandedOut[i] = Exposure[i] * Len(issued[Spend(i)])
      BY Zenon
    <2>1. i \in Scopes
      BY LedgerAssumption DEF Scopes
    <2> QED BY <2>1 DEF HandedOut
  <1>4. Totals(Reserved, HandedOut)
    <2>1. Reserved = [i \in 0..N |->
                        IF i = 0 THEN 0
                        ELSE Reserved[i - 1] + Exposure[i] * Len(issued[Spend(i)])]
      BY <1>2, <1>3, Zenon DEF Reserved
    <2> QED BY <1>3, <2>1
  <1>5. \A i \in 0..N : Reserved[i] \in Nat
    BY <1>1, <1>4, TotalsNatural
  <1> HIDE DEF Reserved, HandedOut
  <1> QED BY <1>4, <1>5, LedgerAssumption DEF Totals, Scopes

\* Whoever writes or was given a reservation passed the check of the sum up to
\* its scope.
CheckedSums ==
  \A i \in Scopes :
    /\ issued[Spend(i)] # << >> => Cumulative[i] <= Cap
    /\ \A p \in Processes :
         InFlight(p) /\ calls[p].file = Spend(i) => Cumulative[i] <= Cap

\* A step of a process keeps that: only Create begins a reservation.
LEMMA ProcessKeepsSums ==
  ASSUME LedgerTypeOK, CheckedSums, NEW p \in Processes, ProcessStep(p)
  PROVE  CheckedSums'
  <1> SUFFICES ASSUME NEW i \in Scopes
               PROVE  /\ issued'[Spend(i)] # << >> => Cumulative[i] <= Cap
                      /\ \A q \in Processes :
                           InFlight(q)' /\ calls'[q].file = Spend(i) => Cumulative[i] <= Cap
    BY DEF CheckedSums
  <1> HIDE DEF Cumulative
  <1>0. Spend(i) \in Files
    BY FileShape
  <1>1. ASSUME NEW c, calls' = [calls EXCEPT ![p] = c],
               c.stage \in {"called", "idle"} \/ (InFlight(p) /\ c.file = calls[p].file)
        PROVE  \A q \in Processes :
                 InFlight(q)' /\ calls'[q].file = Spend(i) => Cumulative[i] <= Cap
    <2> SUFFICES ASSUME NEW q \in Processes, InFlight(q)', calls'[q].file = Spend(i)
                 PROVE  Cumulative[i] <= Cap
      OBVIOUS
    <2>1. CASE q = p
      <3>1. calls'[q] = c
        BY <1>1, <2>1 DEF LedgerTypeOK
      <3> QED BY <1>1, <2>1, <3>1 DEF CheckedSums, InFlight
    <2>2. CASE q # p
      <3>1. calls'[q] = calls[q]
        BY <1>1, <2>2 DEF LedgerTypeOK
      <3> QED BY <2>2, <3>1 DEF CheckedSums, InFlight
    <2> QED BY <2>1, <2>2
  <1>2. CASE Create(p)
    <2>1. PICK b \in Admitted(calls[p].file, calls[p].at) :
            calls' = [calls EXCEPT ![p] =
                        [stage |-> "created", file |-> calls[p].file, body |-> b]]
      BY <1>2 DEF Create
    <2>2. calls[p].file = Spend(i) => Cumulative[i] <= Cap
      <3> SUFFICES ASSUME calls[p].file = Spend(i) PROVE Cumulative[i] <= Cap
        OBVIOUS
      <3>1. \A j \in Scopes : Launch(j) # Spend(i) /\ Spend(i) # Claim
                              /\ (Spend(j) = Spend(i) => j = i)
        BY DEF Launch, Spend, Claim
      <3>2. PICK j \in Scopes : Spend(i) = Spend(j) /\ MaySpend(j, calls[p].at)
        BY <2>1, <3>1 DEF Admitted
      <3> QED BY <3>1, <3>2 DEF MaySpend
    <2>3. ASSUME NEW q \in Processes, InFlight(q)', calls'[q].file = Spend(i)
          PROVE  Cumulative[i] <= Cap
      <3>1. CASE q = p
        <4>1. calls'[q].file = calls[p].file
          BY <2>1, <3>1 DEF LedgerTypeOK
        <4> QED BY <2>2, <2>3, <4>1
      <3>2. CASE q # p
        <4>1. calls'[q] = calls[q]
          BY <2>1, <3>2 DEF LedgerTypeOK
        <4> QED BY <2>3, <4>1 DEF CheckedSums, InFlight
      <3> QED BY <3>1, <3>2
    <2> QED BY <1>2, <2>3 DEF Create, CheckedSums
  <1>3. CASE Return(p)
    <2>1. InFlight(p)
      BY <1>3 DEF Return, InFlight
    <2>2. issued'[Spend(i)] # << >> =>
            issued[Spend(i)] # << >> \/ calls[p].file = Spend(i)
      BY <1>0, <1>3 DEF Return, LedgerTypeOK
    <2>3. /\ calls' = [calls EXCEPT ![p] = Idle] /\ Idle.stage = "idle"
      BY <1>3 DEF Return, Idle
    <2> QED BY <1>1, <2>1, <2>2, <2>3 DEF CheckedSums
  <1>4. CASE \/ \E f \in Files : Call(p, f)
             \/ Deny(p) \/ Write(p) \/ SyncFile(p) \/ SyncDirectory(p) \/ Abandon(p)
    <2>1. issued' = issued
      BY <1>4 DEF Call, Deny, Write, SyncFile, SyncDirectory, Abandon
    <2>2. \E c : /\ calls' = [calls EXCEPT ![p] = c]
                 /\ c.stage \in {"called", "idle"} \/ (InFlight(p) /\ c.file = calls[p].file)
      <3>1. CASE (\E f \in Files : Call(p, f)) \/ Deny(p) \/ Abandon(p)
        BY <3>1 DEF Call, Deny, Abandon, Idle
      <3>2. CASE Write(p) \/ SyncFile(p) \/ SyncDirectory(p)
        BY <3>2 DEF Write, SyncFile, SyncDirectory, Advanced, InFlight
      <3> QED BY <1>4, <3>1, <3>2
    <2>3. PICK c : /\ calls' = [calls EXCEPT ![p] = c]
                   /\ c.stage \in {"called", "idle"} \/ (InFlight(p) /\ c.file = calls[p].file)
      BY <2>2
    <2> QED BY <1>1, <2>1, <2>3 DEF CheckedSums
  <1> QED BY <1>2, <1>3, <1>4 DEF ProcessStep

\* What was reserved up to a scope is at most the sum up to it, and within the
\* cap: the least scope for which it were not would have been checked.
LEMMA ReservedIsChecked ==
  ASSUME LedgerTypeOK, ConsumedAtMostOnce, CheckedSums
  PROVE  ReservedWithinCap
  <1> HIDE DEF Cumulative, Reserved
  <1> DEFINE Over == {i \in 0..N : ~(Reserved[i] <= Cumulative[i] /\ Reserved[i] <= Cap)}
  <1>1. Over = {}
    <2> SUFFICES ASSUME Over # {} PROVE FALSE
      OBVIOUS
    <2>1. PICK i \in Over : \A m \in Over : i <= m
      <3>1. Over \in SUBSET Nat
        OBVIOUS
      <3> HIDE DEF Over
      <3> QED BY <3>1, LeastOf
    <2>2. i \in Scopes
      BY <2>1, CumulativeIs, ReservedIs, LedgerAssumption DEF Scopes
    <2>3. i - 1 \in 0..N /\ ~(i <= i - 1)
      BY <2>2, LedgerAssumption DEF Scopes
    <2>4. Reserved[i - 1] <= Cumulative[i - 1] /\ Reserved[i - 1] <= Cap
      BY <2>1, <2>3
    <2>5. /\ Reserved[i - 1] \in Nat /\ Cumulative[i - 1] \in Nat
          /\ Exposure[i] \in Nat /\ Cap \in Nat
      BY <2>2, <2>3, CumulativeIs, ReservedIs, LedgerAssumption
    <2>6. Reserved[i] = Reserved[i - 1] + HandedOut[i]
      BY <2>2, ReservedIs
    <2>7. Cumulative[i] = Cumulative[i - 1] + Exposure[i]
      BY <2>2, CumulativeIs
    <2>8. ~(Reserved[i] <= Cumulative[i] /\ Reserved[i] <= Cap)
      BY <2>1
    <2>9. HandedOut[i] = Exposure[i] * Len(issued[Spend(i)])
      BY <2>2 DEF HandedOut
    <2>10. issued[Spend(i)] \in Seq(Bodies) /\ Len(issued[Spend(i)]) <= 1
      BY <2>2, FileShape DEF LedgerTypeOK, ConsumedAtMostOnce
    <2>11. CASE issued[Spend(i)] = << >>
      <3>1. HandedOut[i] = 0
        BY <2>5, <2>9, <2>11
      <3> QED BY <2>4, <2>5, <2>6, <2>7, <2>8, <3>1
    <2>12. CASE issued[Spend(i)] # << >>
      <3>1. Len(issued[Spend(i)]) = 1
        <4>1. Len(issued[Spend(i)]) # 0 /\ Len(issued[Spend(i)]) \in Nat
          BY <2>10, <2>12, EmptySeq
        <4>2. \A n \in Nat : n <= 1 /\ n # 0 => n = 1
          OBVIOUS
        <4> QED BY <2>10, <4>1, <4>2, Zenon
      <3>2. HandedOut[i] = Exposure[i]
        BY <2>5, <2>9, <3>1
      <3>3. Cumulative[i] <= Cap
        BY <2>2, <2>12 DEF CheckedSums
      <3> QED BY <2>4, <2>5, <2>6, <2>7, <2>8, <3>2, <3>3
    <2> QED BY <2>11, <2>12
  <1>2. N \in 0..N
    BY LedgerAssumption
  <1>3. Reserved[N] <= Cap
    BY <1>1, <1>2
  <1> QED BY <1>3 DEF ReservedWithinCap

\* The reservations that were ever handed out stay within the authorized
\* maximum together, whatever the scopes cost: reserveIntegratedLiveDrillSpend
\* checks the sum up to its scope, and no scope is reserved twice.
THEOREM ReservationsWithinCap == LedgerSpec => []ReservedWithinCap
  <1>1. LedgerInit => CheckedSums
    BY FileShape DEF LedgerInit, CheckedSums, InFlight, Idle
  <1>2. LedgerTypeOK /\ CheckedSums /\ [LedgerNext]_ledgerFileVars => CheckedSums'
    <2> SUFFICES ASSUME LedgerTypeOK, CheckedSums, [LedgerNext]_ledgerFileVars
                 PROVE  CheckedSums'
      OBVIOUS
    <2>1. ASSUME NEW p \in Processes, ProcessStep(p) PROVE CheckedSums'
      BY <2>1, ProcessKeepsSums
    <2>2. CASE PowerFailure
      BY <2>2 DEF PowerFailure, CheckedSums, InFlight, Idle
    <2>3. CASE SetClock \/ UNCHANGED ledgerFileVars
      BY <2>3 DEF SetClock, ledgerFileVars, CheckedSums, InFlight
    <2> QED BY <2>1, <2>2, <2>3 DEF LedgerNext
  <1>3. LedgerTypeOK /\ ConsumedAtMostOnce /\ CheckedSums => ReservedWithinCap
    BY ReservedIsChecked
  <1> QED BY <1>1, <1>2, <1>3, LedgerTypeCorrect, OneConsumptionPerFile, PTL
           DEF LedgerSpec

-----------------------------------------------------------------------------
(* The fresh-cluster controller and its reconciler.                         *)

StageNames ==
  Changing \cup Observing \cup {"discover", "start", "revoked", "terminalize", "finalize"}
Marks == {"dispatching", "reconciled", "done"}
Chains == Seq((StageNames \X Marks) \X Nat)
Items == [owner : Nat \ {0}, chain : Chains, final : BOOLEAN, terminal : BOOLEAN]
Updates == [owner : Nat \ {0}, chain : Chains, new : Items]
Things == {Change[s].on : s \in Changing}
Requests == {Change[s] : s \in Changing}
Steps == {"reserve", "begin", "send", "unknown", "confirm"}
Workers ==
  [role : {"controller", "cleanup", "recovery"}, at : Nat, step : Steps, run : Nat,
   owner : Nat \ {0}, chain : Chains, ambiguous : BOOLEAN,
   possible : SUBSET Access, absent : SUBSET Access]

\* The number of stages of a role, and where the controller's stages stand.
Length(role) == CASE role = "controller" -> 18 [] role = "cleanup" -> 4 [] role = "recovery" -> 5
Position ==
  [createCluster |-> 1, createIngress |-> 3, sealSecret |-> 4, createAdmin |-> 7,
   bootstrap |-> 9, prepare |-> 10, append |-> 11, replay |-> 12, queryMcp |-> 14]

ClusterTypeOK ==
  /\ clusterMode \in Modes
  /\ item \in Items \cup {NoItem}
  /\ late \subseteq Updates \cup Requests
  /\ sent \in [Changing -> 0..2]
  /\ me \in Workers \cup {Rest}
  /\ present \subseteq Things /\ returned \subseteq Access
  /\ runs \in Nat /\ unanswered \in Nat

Written(i) == IF i = NoItem THEN {} ELSE Phases(i.chain)
Closes(i) == i # NoItem /\ (i.final \/ i.terminal)

\* What a final or a terminal receipt says, and what a final one adds.
Gone == present \cap Access \subseteq returned
Kept == Once \ {"createAdmin", "createIngress"}
Complete == \A s \in Kept : Change[s].on \in present

\* A receipt tells the truth, wherever it is: in the item or on its way to it.
Truthful(i) ==
  i # NoItem => /\ ~(i.final /\ i.terminal)
                /\ Closes(i) => Gone
                /\ i.final => Complete

\* An update only ever adds to the chain it expects, and only a reservation
\* comes before the item.
Lawful(u) ==
  /\ Phases(u.chain) \subseteq Phases(u.new.chain)
  /\ u.new = Item(u.owner) \/ item # NoItem
  /\ Truthful(u.new)

SentOK ==
  /\ \A s \in Once : sent[s] <= 1
  /\ \A s \in Changing : sent[s] > 0 => Dispatching(s) \in Written(item)

\* Before the item nothing was sent, and what the prestate calls absent is.
StartsAbsent == IF CreateNew THEN Access ELSE {"ingress"}
Untried == item = NoItem => present \cap StartsAbsent \subseteq returned

\* The operation has not ended.
Open == ~Closes(item) /\ \A u \in late \cap Updates : ~Closes(u.new)

WorldOK ==
  /\ Truthful(item)
  /\ \A u \in late \cap Updates : Lawful(u)
  /\ SentOK /\ Untried
  /\ CreateNew \/ "cluster" \in present

\* The stage s of the controller m has sent its request.
Passed(m, s) == \/ Position[s] < m.at
                \/ Position[s] = m.at /\ m.step \in {"unknown", "confirm"}

\* What a controller has behind it.
Progress(m) ==
  m.role = "controller" =>
    /\ \A s \in Once : sent[s] > 0 => Passed(m, s)
    /\ \A s \in Kept : Position[s] < m.at => Change[s].on \in present
    /\ m.at > 16 => "admin" \in m.absent
    /\ m.at > 17 => "ingress" \in m.absent

\* What a process believes of its stage and of the access that is gone.
Believes(m) ==
  /\ m.at \in 1..Length(m.role)
  /\ m.step = "reserve" => m.role = "controller" /\ m.at = 1 /\ m.chain = <<>>
  /\ m.step \in {"send", "unknown", "confirm"} =>
       /\ StageOf(m) \in Changing
       /\ StageOf(m) \in Once => Change[StageOf(m)].on \notin m.absent
  /\ m.step = "confirm" /\ StageOf(m) \in Blind => Change[StageOf(m)].on \in present
  /\ m.absent \cap present \subseteq returned
  /\ Progress(m)

\* What it read or wrote stands in the item.
Stands(m) ==
  m.step # "reserve" =>
    /\ item # NoItem
    /\ Phases(m.chain) \subseteq Phases(item.chain)
    /\ m.step = "send" => Dispatching(StageOf(m)) \in Phases(m.chain)

ClusterInv ==
  /\ ClusterTypeOK /\ WorldOK
  /\ (me # Rest => Believes(me) /\ Stands(me))
  /\ me.role = "controller" => Open

\* The requests of the stages.
LEMMA ChangeFacts ==
  /\ Changing = {"createCluster", "createIngress", "sealSecret", "createAdmin",
                 "deleteAdmin", "deleteIngress", "revokeAdmin", "revokeIngress",
                 "bootstrap", "prepare", "append", "replay", "queryMcp"}
  /\ Once = {"createCluster", "createIngress", "sealSecret", "createAdmin",
             "bootstrap", "prepare", "append", "replay", "queryMcp"}
  /\ Kept = {"createCluster", "sealSecret", "bootstrap", "prepare", "append",
             "replay", "queryMcp"}
  /\ Deleting = {"deleteAdmin", "deleteIngress", "revokeAdmin", "revokeIngress"}
<1>1. Changing = {"createCluster", "createIngress", "sealSecret", "createAdmin",
                 "deleteAdmin", "deleteIngress", "revokeAdmin", "revokeIngress",
                 "bootstrap", "prepare", "append", "replay", "queryMcp"}
  BY DEF Changing, Change
<1> QED
  BY <1>1 DEF Once, Kept, Deleting, Revoking

\* What each of them does.
LEMMA ChangeOf ==
  /\ Change["createCluster"] = [on |-> "cluster", to |-> TRUE]
  /\ Change["createIngress"] = [on |-> "ingress", to |-> TRUE]
  /\ Change["sealSecret"] = [on |-> "secret", to |-> TRUE]
  /\ Change["createAdmin"] = [on |-> "admin", to |-> TRUE]
  /\ Change["deleteAdmin"] = [on |-> "admin", to |-> FALSE]
  /\ Change["deleteIngress"] = [on |-> "ingress", to |-> FALSE]
  /\ Change["revokeAdmin"] = [on |-> "admin", to |-> FALSE]
  /\ Change["revokeIngress"] = [on |-> "ingress", to |-> FALSE]
  /\ Change["bootstrap"] = [on |-> "schema", to |-> TRUE]
  /\ Change["prepare"] = [on |-> "preparation", to |-> TRUE]
  /\ Change["append"] = [on |-> "publication", to |-> TRUE]
  /\ Change["replay"] = [on |-> "replayed", to |-> TRUE]
  /\ Change["queryMcp"] = [on |-> "queried", to |-> TRUE]
  BY DEF Change

\* Creations and deletions, and what they are of.
LEMMA ChangeKinds ==
  /\ \A s \in Once : Change[s].to
  /\ \A s \in Deleting : ~Change[s].to
  /\ \A s \in Deleting : Change[s].on \in Access
  /\ \A s \in Kept : Change[s].on \notin Access
  /\ \A s \in Changing : s \in Once \/ s \in Deleting
<1>1. \A s \in Once : Change[s].to
  BY ChangeFacts, ChangeOf
<1>2. \A s \in Deleting : ~Change[s].to
  BY ChangeFacts, ChangeOf
<1>3. \A s \in Deleting : Change[s].on \in Access
  BY ChangeFacts, ChangeOf DEF Access
<1>4. \A s \in Kept : Change[s].on \notin Access
  BY ChangeFacts, ChangeOf DEF Access
<1>5. \A s \in Changing : s \in Once \/ s \in Deleting
  BY ChangeFacts
<1> QED
  BY <1>1, <1>2, <1>3, <1>4, <1>5

\* r is s followed by t.
Joins(r, s, t) ==
  /\ r \in Seq(StageNames)
  /\ Len(r) = Len(s) + Len(t)
  /\ \A i \in 1..Len(s) : r[i] = s[i]
  /\ \A i \in 1..Len(t) : r[Len(s) + i] = t[i]

\* The length and the elements of a script put together from two.
LEMMA Joined ==
  ASSUME NEW s \in Seq(StageNames), NEW t \in Seq(StageNames)
  PROVE  Joins(s \o t, s, t)
<1>1. s \o t \in Seq(StageNames)
  BY ConcatProperties
<1>2. Len(s \o t) = Len(s) + Len(t)
  BY ConcatProperties
<1>3. \A i \in 1..Len(s) : (s \o t)[i] = s[i]
  BY ConcatProperties
<1>4. \A i \in 1..Len(t) : (s \o t)[Len(s) + i] = t[i]
  BY ConcatProperties
<1> QED
  BY <1>1, <1>2, <1>3, <1>4 DEF Joins

\* The stages have names.
LEMMA Named ==
  StageNames = {"createCluster", "createIngress", "sealSecret", "createAdmin",
                "deleteAdmin", "deleteIngress", "revokeAdmin", "revokeIngress",
                "bootstrap", "prepare", "append", "replay", "queryMcp",
                "adopt", "ingressPrestate", "discardCredential", "adminPrestate",
                "adoptAdmin", "authenticateAdmin", "planMcp", "inventory",
                "discover", "start", "revoked", "terminalize", "finalize"}
  BY ChangeFacts DEF StageNames, Observing

\* The stages of the controller, one by one.
LEMMA ControllerStages ==
  ASSUME NEW m \in Modes, NEW c, c = Scripts["controller"][m]
  PROVE  /\ c[1] = ClusterStage(m) /\ c[2] = "ingressPrestate" /\ c[3] = "createIngress"
         /\ c[4] = "sealSecret" /\ c[5] = "discardCredential" /\ c[6] = "adminPrestate"
         /\ c[7] = (IF m = "CREATE_NEW" THEN "createAdmin" ELSE "adoptAdmin")
         /\ c[8] = "authenticateAdmin" /\ c[9] = "bootstrap" /\ c[10] = "prepare"
         /\ c[11] = "append" /\ c[12] = "replay" /\ c[13] = "planMcp"
         /\ c[14] = "queryMcp" /\ c[15] = "inventory" /\ c[16] = "deleteAdmin"
         /\ c[17] = "deleteIngress" /\ c[18] = "finalize"
<1>a. PICK admin : admin = (IF m = "CREATE_NEW" THEN "createAdmin" ELSE "adoptAdmin")
  OBVIOUS
<1>0. PICK s0 : s0 = <<ClusterStage(m)>>
  OBVIOUS
<1>f0. s0 \in Seq(StageNames) /\ Len(s0) = 1 /\ s0[1] = ClusterStage(m)
  BY <1>0, Named DEF ClusterStage
<1>p1. PICK t1 : t1 = IngressStages
  OBVIOUS
<1>t1. t1 \in Seq(StageNames) /\ Len(t1) = 2 /\ t1[1] = "ingressPrestate" /\ t1[2] = "createIngress"
  BY <1>p1, Named DEF IngressStages
<1>s1. PICK s1 : s1 = s0 \o t1
  OBVIOUS
<1>f1. /\ s1 \in Seq(StageNames) /\ Len(s1) = 3
      /\ \A i \in 1..1 : s1[i] = s0[i]
      /\ s1[2] = "ingressPrestate" /\ s1[3] = "createIngress"
  <2>1. Joins(s1, s0, t1)
    BY <1>s1, <1>t1, <1>f0, Joined
  <2>2. s1[1 + 1] = t1[1]
    BY <2>1, <1>t1, <1>f0 DEF Joins
  <2>3. s1[1 + 2] = t1[2]
    BY <2>1, <1>t1, <1>f0 DEF Joins
  <2>4. s1 \in Seq(StageNames) /\ Len(s1) = 3 /\ \A i \in 1..1 : s1[i] = s0[i]
    BY <2>1, <1>t1, <1>f0 DEF Joins
  <2> QED
    BY <2>2, <2>3, <2>4, <1>t1
<1>p2. PICK t2 : t2 = SecretStages
  OBVIOUS
<1>t2. t2 \in Seq(StageNames) /\ Len(t2) = 2 /\ t2[1] = "sealSecret" /\ t2[2] = "discardCredential"
  BY <1>p2, Named DEF SecretStages
<1>s2. PICK s2 : s2 = s1 \o t2
  OBVIOUS
<1>f2. /\ s2 \in Seq(StageNames) /\ Len(s2) = 5
      /\ \A i \in 1..3 : s2[i] = s1[i]
      /\ s2[4] = "sealSecret" /\ s2[5] = "discardCredential"
  <2>1. Joins(s2, s1, t2)
    BY <1>s2, <1>t2, <1>f1, Joined
  <2>2. s2[3 + 1] = t2[1]
    BY <2>1, <1>t2, <1>f1 DEF Joins
  <2>3. s2[3 + 2] = t2[2]
    BY <2>1, <1>t2, <1>f1 DEF Joins
  <2>4. s2 \in Seq(StageNames) /\ Len(s2) = 5 /\ \A i \in 1..3 : s2[i] = s1[i]
    BY <2>1, <1>t2, <1>f1 DEF Joins
  <2> QED
    BY <2>2, <2>3, <2>4, <1>t2
<1>p3. PICK t3 : t3 = AdminStages(m)
  OBVIOUS
<1>t3. t3 \in Seq(StageNames) /\ Len(t3) = 3 /\ t3[1] = "adminPrestate" /\ t3[2] = admin /\ t3[3] = "authenticateAdmin"
  BY <1>p3, <1>a, Named DEF AdminStages
<1>s3. PICK s3 : s3 = s2 \o t3
  OBVIOUS
<1>f3. /\ s3 \in Seq(StageNames) /\ Len(s3) = 8
      /\ \A i \in 1..5 : s3[i] = s2[i]
      /\ s3[6] = "adminPrestate" /\ s3[7] = admin /\ s3[8] = "authenticateAdmin"
  <2>1. Joins(s3, s2, t3)
    BY <1>s3, <1>t3, <1>f2, Joined
  <2>2. s3[5 + 1] = t3[1]
    BY <2>1, <1>t3, <1>f2 DEF Joins
  <2>3. s3[5 + 2] = t3[2]
    BY <2>1, <1>t3, <1>f2 DEF Joins
  <2>4. s3[5 + 3] = t3[3]
    BY <2>1, <1>t3, <1>f2 DEF Joins
  <2>5. s3 \in Seq(StageNames) /\ Len(s3) = 8 /\ \A i \in 1..5 : s3[i] = s2[i]
    BY <2>1, <1>t3, <1>f2 DEF Joins
  <2> QED
    BY <2>2, <2>3, <2>4, <2>5, <1>t3
<1>p4. PICK t4 : t4 = InstallStages
  OBVIOUS
<1>t4. t4 \in Seq(StageNames) /\ Len(t4) = 1 /\ t4[1] = "bootstrap"
  BY <1>p4, Named DEF InstallStages
<1>s4. PICK s4 : s4 = s3 \o t4
  OBVIOUS
<1>f4. /\ s4 \in Seq(StageNames) /\ Len(s4) = 9
      /\ \A i \in 1..8 : s4[i] = s3[i]
      /\ s4[9] = "bootstrap"
  <2>1. Joins(s4, s3, t4)
    BY <1>s4, <1>t4, <1>f3, Joined
  <2>2. s4[8 + 1] = t4[1]
    BY <2>1, <1>t4, <1>f3 DEF Joins
  <2>3. s4 \in Seq(StageNames) /\ Len(s4) = 9 /\ \A i \in 1..8 : s4[i] = s3[i]
    BY <2>1, <1>t4, <1>f3 DEF Joins
  <2> QED
    BY <2>2, <2>3, <1>t4
<1>p5. PICK t5 : t5 = PublicationStages
  OBVIOUS
<1>t5. t5 \in Seq(StageNames) /\ Len(t5) = 3 /\ t5[1] = "prepare" /\ t5[2] = "append" /\ t5[3] = "replay"
  BY <1>p5, Named DEF PublicationStages
<1>s5. PICK s5 : s5 = s4 \o t5
  OBVIOUS
<1>f5. /\ s5 \in Seq(StageNames) /\ Len(s5) = 12
      /\ \A i \in 1..9 : s5[i] = s4[i]
      /\ s5[10] = "prepare" /\ s5[11] = "append" /\ s5[12] = "replay"
  <2>1. Joins(s5, s4, t5)
    BY <1>s5, <1>t5, <1>f4, Joined
  <2>2. s5[9 + 1] = t5[1]
    BY <2>1, <1>t5, <1>f4 DEF Joins
  <2>3. s5[9 + 2] = t5[2]
    BY <2>1, <1>t5, <1>f4 DEF Joins
  <2>4. s5[9 + 3] = t5[3]
    BY <2>1, <1>t5, <1>f4 DEF Joins
  <2>5. s5 \in Seq(StageNames) /\ Len(s5) = 12 /\ \A i \in 1..9 : s5[i] = s4[i]
    BY <2>1, <1>t5, <1>f4 DEF Joins
  <2> QED
    BY <2>2, <2>3, <2>4, <2>5, <1>t5
<1>p6. PICK t6 : t6 = McpStages
  OBVIOUS
<1>t6. t6 \in Seq(StageNames) /\ Len(t6) = 2 /\ t6[1] = "planMcp" /\ t6[2] = "queryMcp"
  BY <1>p6, Named DEF McpStages
<1>s6. PICK s6 : s6 = s5 \o t6
  OBVIOUS
<1>f6. /\ s6 \in Seq(StageNames) /\ Len(s6) = 14
      /\ \A i \in 1..12 : s6[i] = s5[i]
      /\ s6[13] = "planMcp" /\ s6[14] = "queryMcp"
  <2>1. Joins(s6, s5, t6)
    BY <1>s6, <1>t6, <1>f5, Joined
  <2>2. s6[12 + 1] = t6[1]
    BY <2>1, <1>t6, <1>f5 DEF Joins
  <2>3. s6[12 + 2] = t6[2]
    BY <2>1, <1>t6, <1>f5 DEF Joins
  <2>4. s6 \in Seq(StageNames) /\ Len(s6) = 14 /\ \A i \in 1..12 : s6[i] = s5[i]
    BY <2>1, <1>t6, <1>f5 DEF Joins
  <2> QED
    BY <2>2, <2>3, <2>4, <1>t6
<1>p7. PICK t7 : t7 = DeletionStages
  OBVIOUS
<1>t7. t7 \in Seq(StageNames) /\ Len(t7) = 3 /\ t7[1] = "inventory" /\ t7[2] = "deleteAdmin" /\ t7[3] = "deleteIngress"
  BY <1>p7, Named DEF DeletionStages
<1>s7. PICK s7 : s7 = s6 \o t7
  OBVIOUS
<1>f7. /\ s7 \in Seq(StageNames) /\ Len(s7) = 17
      /\ \A i \in 1..14 : s7[i] = s6[i]
      /\ s7[15] = "inventory" /\ s7[16] = "deleteAdmin" /\ s7[17] = "deleteIngress"
  <2>1. Joins(s7, s6, t7)
    BY <1>s7, <1>t7, <1>f6, Joined
  <2>2. s7[14 + 1] = t7[1]
    BY <2>1, <1>t7, <1>f6 DEF Joins
  <2>3. s7[14 + 2] = t7[2]
    BY <2>1, <1>t7, <1>f6 DEF Joins
  <2>4. s7[14 + 3] = t7[3]
    BY <2>1, <1>t7, <1>f6 DEF Joins
  <2>5. s7 \in Seq(StageNames) /\ Len(s7) = 17 /\ \A i \in 1..14 : s7[i] = s6[i]
    BY <2>1, <1>t7, <1>f6 DEF Joins
  <2> QED
    BY <2>2, <2>3, <2>4, <2>5, <1>t7
<1>p8. PICK t8 : t8 = <<"finalize">>
  OBVIOUS
<1>t8. t8 \in Seq(StageNames) /\ Len(t8) = 1 /\ t8[1] = "finalize"
  BY <1>p8, Named
<1>s8. PICK s8 : s8 = s7 \o t8
  OBVIOUS
<1>f8. /\ s8 \in Seq(StageNames) /\ Len(s8) = 18
      /\ \A i \in 1..17 : s8[i] = s7[i]
      /\ s8[18] = "finalize"
  <2>1. Joins(s8, s7, t8)
    BY <1>s8, <1>t8, <1>f7, Joined
  <2>2. s8[17 + 1] = t8[1]
    BY <2>1, <1>t8, <1>f7 DEF Joins
  <2>3. s8 \in Seq(StageNames) /\ Len(s8) = 18 /\ \A i \in 1..17 : s8[i] = s7[i]
    BY <2>1, <1>t8, <1>f7 DEF Joins
  <2> QED
    BY <2>2, <2>3, <1>t8
<1>c. c = s8
  BY <1>0, <1>p1, <1>s1, <1>p2, <1>s2, <1>p3, <1>s3, <1>p4, <1>s4, <1>p5, <1>s5, <1>p6, <1>s6, <1>p7, <1>s7, <1>p8, <1>s8 DEF Scripts
<1>101. c[1] = ClusterStage(m)
  BY <1>c, <1>f0, <1>f1, <1>f2, <1>f3, <1>f4, <1>f5, <1>f6, <1>f7, <1>f8
<1>102. c[2] = "ingressPrestate"
  BY <1>c, <1>f1, <1>f2, <1>f3, <1>f4, <1>f5, <1>f6, <1>f7, <1>f8
<1>103. c[3] = "createIngress"
  BY <1>c, <1>f1, <1>f2, <1>f3, <1>f4, <1>f5, <1>f6, <1>f7, <1>f8
<1>104. c[4] = "sealSecret"
  BY <1>c, <1>f2, <1>f3, <1>f4, <1>f5, <1>f6, <1>f7, <1>f8
<1>105. c[5] = "discardCredential"
  BY <1>c, <1>f2, <1>f3, <1>f4, <1>f5, <1>f6, <1>f7, <1>f8
<1>106. c[6] = "adminPrestate"
  BY <1>c, <1>f3, <1>f4, <1>f5, <1>f6, <1>f7, <1>f8
<1>107. c[7] = admin
  BY <1>c, <1>f3, <1>f4, <1>f5, <1>f6, <1>f7, <1>f8
<1>108. c[8] = "authenticateAdmin"
  BY <1>c, <1>f3, <1>f4, <1>f5, <1>f6, <1>f7, <1>f8
<1>109. c[9] = "bootstrap"
  BY <1>c, <1>f4, <1>f5, <1>f6, <1>f7, <1>f8
<1>110. c[10] = "prepare"
  BY <1>c, <1>f5, <1>f6, <1>f7, <1>f8
<1>111. c[11] = "append"
  BY <1>c, <1>f5, <1>f6, <1>f7, <1>f8
<1>112. c[12] = "replay"
  BY <1>c, <1>f5, <1>f6, <1>f7, <1>f8
<1>113. c[13] = "planMcp"
  BY <1>c, <1>f6, <1>f7, <1>f8
<1>114. c[14] = "queryMcp"
  BY <1>c, <1>f6, <1>f7, <1>f8
<1>115. c[15] = "inventory"
  BY <1>c, <1>f7, <1>f8
<1>116. c[16] = "deleteAdmin"
  BY <1>c, <1>f7, <1>f8
<1>117. c[17] = "deleteIngress"
  BY <1>c, <1>f7, <1>f8
<1>118. c[18] = "finalize"
  BY <1>c, <1>f8
<1> QED
  BY <1>a, <1>101, <1>102, <1>103, <1>104, <1>105, <1>106, <1>107, <1>108, <1>109, <1>110, <1>111, <1>112, <1>113, <1>114, <1>115, <1>116, <1>117, <1>118

\* The stages of the cleanup and of the reconciler.
LEMMA CleanupStagesOf ==
  ASSUME NEW m \in Modes
  PROVE  /\ Scripts["cleanup"][m] = <<"discover", "deleteAdmin", "deleteIngress", "terminalize">>
         /\ Scripts["recovery"][m] =
              <<"start", "revokeAdmin", "revokeIngress", "revoked", "terminalize">>
  BY DEF Scripts, CleanupStages, RecoveryStages

\* A worker is not at rest, and an item is not missing.
LEMMA WorkerShape ==
  /\ Rest \notin Workers /\ Rest.role = "none"
  /\ \A m \in Workers : m.role # "none"
  /\ NoItem \notin Items
  /\ \A n \in Nat \ {0} : Item(n) \in Items
  BY DEF Workers, Rest, NoItem, Items, Item, Chains

\* An update is no request.
LEMMA LateShape ==
  /\ \A u \in Updates : "on" \notin DOMAIN u
  /\ \A c \in Requests : "on" \in DOMAIN c
<1>1. \A u \in Updates : "on" \notin DOMAIN u
  BY DEF Updates
<1>2. \A c \in Requests : "on" \in DOMAIN c
  BY ChangeFacts, ChangeOf DEF Requests
<1> QED
  BY <1>1, <1>2

\* Where a worker stands and which stage that is.
LEMMA ControllerAt ==
  ASSUME clusterMode \in Modes, NEW m \in Workers, m.role = "controller",
         m.at \in 1..Length(m.role)
  PROVE  /\ m.at \in 1..18
         /\ StageOf(m) \in StageNames
         /\ StageOf(m) \notin Revoking \cup {"discover", "terminalize", "start", "revoked"}
         /\ StageOf(m) \in Once => Position[StageOf(m)] = m.at
         /\ StageOf(m) = "deleteAdmin" <=> m.at = 16
         /\ StageOf(m) = "deleteIngress" <=> m.at = 17
         /\ StageOf(m) = "finalize" <=> m.at = 18
         /\ \A s \in Kept : Position[s] = m.at =>
              StageOf(m) = s \/ (s = "createCluster" /\ ~CreateNew)
<1>0. m.at \in 1..18
  BY DEF Length
<1>1. PICK c : c = Scripts["controller"][clusterMode]
  OBVIOUS
<1>2. StageOf(m) = c[m.at]
  BY <1>1 DEF StageOf
<1>3. /\ c[1] = ClusterStage(clusterMode) /\ c[2] = "ingressPrestate" /\ c[3] = "createIngress"
      /\ c[4] = "sealSecret" /\ c[5] = "discardCredential" /\ c[6] = "adminPrestate"
      /\ c[7] = (IF clusterMode = "CREATE_NEW" THEN "createAdmin" ELSE "adoptAdmin")
      /\ c[8] = "authenticateAdmin" /\ c[9] = "bootstrap" /\ c[10] = "prepare"
      /\ c[11] = "append" /\ c[12] = "replay" /\ c[13] = "planMcp"
      /\ c[14] = "queryMcp" /\ c[15] = "inventory" /\ c[16] = "deleteAdmin"
      /\ c[17] = "deleteIngress" /\ c[18] = "finalize"
  BY <1>1, ControllerStages
<1>4. ClusterStage(clusterMode) = IF CreateNew THEN "createCluster" ELSE "adopt"
  BY DEF ClusterStage, CreateNew
<1>5. /\ Position["createCluster"] = 1 /\ Position["createIngress"] = 3
      /\ Position["sealSecret"] = 4 /\ Position["createAdmin"] = 7
      /\ Position["bootstrap"] = 9 /\ Position["prepare"] = 10 /\ Position["append"] = 11
      /\ Position["replay"] = 12 /\ Position["queryMcp"] = 14
  BY DEF Position
<1>6. PICK i \in 1..18 : i = m.at
  BY <1>0
<1>7. PICK s : s = c[i]
  OBVIOUS
<1>8. /\ s \in StageNames
      /\ s \notin Revoking \cup {"discover", "terminalize", "start", "revoked"}
  BY <1>3, <1>4, <1>7, Named DEF Revoking
<1>9. s \in Once => Position[s] = i
  BY <1>3, <1>4, <1>5, <1>7, ChangeFacts
<1>10. /\ s = "deleteAdmin" <=> i = 16
       /\ s = "deleteIngress" <=> i = 17
       /\ s = "finalize" <=> i = 18
  BY <1>3, <1>4, <1>7
<1>11. \A k \in Kept : Position[k] = i => s = k \/ (k = "createCluster" /\ ~CreateNew)
  BY <1>3, <1>4, <1>5, <1>7, ChangeFacts
<1> QED
  BY <1>0, <1>2, <1>6, <1>7, <1>8, <1>9, <1>10, <1>11

\* The same of the cleanup and of the reconciler.
LEMMA OtherAt ==
  ASSUME clusterMode \in Modes, NEW m \in Workers, m.role # "controller",
         m.at \in 1..Length(m.role)
  PROVE  /\ StageOf(m) \in {"discover", "terminalize", "start", "revoked"} \cup Deleting
         /\ StageOf(m) \in StageNames
         /\ StageOf(m) # "terminalize" => m.at + 1 \in 1..Length(m.role)
         /\ m.at \in Nat
<1>1. CASE m.role = "cleanup"
  <2>1. StageOf(m) = <<"discover", "deleteAdmin", "deleteIngress", "terminalize">>[m.at]
    BY <1>1, CleanupStagesOf DEF StageOf
  <2>2. m.at \in 1..4 /\ Length(m.role) = 4
    BY <1>1 DEF Length
  <2> QED
    BY <2>1, <2>2, ChangeFacts, Named
<1>2. CASE m.role = "recovery"
  <2>1. StageOf(m) = <<"start", "revokeAdmin", "revokeIngress", "revoked", "terminalize">>[m.at]
    BY <1>2, CleanupStagesOf DEF StageOf
  <2>2. m.at \in 1..5 /\ Length(m.role) = 5
    BY <1>2 DEF Length
  <2> QED
    BY <2>1, <2>2, ChangeFacts, Named
<1> QED
  BY <1>1, <1>2 DEF Workers

\* A worker one stage on, or at an error.
LEMMA MovedShape ==
  ASSUME NEW m \in Workers, NEW k \in Nat
  PROVE  /\ At(m, k) \in Workers
         /\ At(m, k).at = k /\ At(m, k).step = "begin" /\ At(m, k).role = m.role
         /\ At(m, k).chain = m.chain /\ At(m, k).absent = m.absent
         /\ At(m, k).owner = m.owner /\ At(m, k).possible = m.possible
  BY DEF At, Workers, Steps

\* What a worker has to have seen before it goes on to the next stage.
Sees(m) ==
  /\ StageOf(m) \notin {"terminalize", "finalize"}
  /\ m.role = "controller" =>
       /\ StageOf(m) \in Kept => Change[StageOf(m)].on \in present
       /\ StageOf(m) = "deleteAdmin" => "admin" \in m.absent
       /\ StageOf(m) = "deleteIngress" => "ingress" \in m.absent

\* The next stage believes what this one saw.
LEMMA OnwardBelieves ==
  ASSUME ClusterTypeOK, WorldOK, NEW m \in Workers, Believes(m), Sees(m)
  PROVE  /\ Onward(m) \in Workers
         /\ Believes(Onward(m))
         /\ Onward(m).role = m.role /\ Onward(m).step = "begin" /\ Onward(m).chain = m.chain
<1>1. m.at \in Nat /\ m.at + 1 \in Nat
  BY DEF Workers
<1>2. PICK n : n = Onward(m)
  OBVIOUS
<1>3. /\ n \in Workers
      /\ n.at = m.at + 1 /\ n.step = "begin" /\ n.role = m.role
      /\ n.chain = m.chain /\ n.absent = m.absent
  BY <1>1, <1>2, MovedShape DEF Onward
<1>4. n.at \in 1..Length(n.role) /\ Progress(n)
  <2>1. CASE m.role = "controller"
    <3>1. /\ m.at \in 1..18
          /\ StageOf(m) = "deleteAdmin" <=> m.at = 16
          /\ StageOf(m) = "deleteIngress" <=> m.at = 17
          /\ StageOf(m) = "finalize" <=> m.at = 18
          /\ \A s \in Kept : Position[s] = m.at =>
               StageOf(m) = s \/ (s = "createCluster" /\ ~CreateNew)
      BY <2>1, ControllerAt DEF Believes, ClusterTypeOK
    <3>2. n.at \in 1..Length(n.role)
      BY <3>1, <2>1, <1>3 DEF Sees, Length
    <3>3. Progress(m)
      BY DEF Believes
    <3>4. \A s \in Once : Position[s] \in Nat
      BY ChangeFacts DEF Position
    <3>5. \A s \in Once : sent[s] > 0 => Passed(n, s)
      BY <3>1, <3>3, <3>4, <2>1, <1>3 DEF Progress, Passed
    <3>6. ASSUME NEW s \in Kept, Position[s] < n.at
          PROVE  Change[s].on \in present
      <4>1. Position[s] < m.at \/ Position[s] = m.at
        BY <3>6, <3>4, <3>1, <1>3 DEF Kept
      <4>2. CASE Position[s] < m.at
        BY <4>2, <3>3, <2>1 DEF Progress
      <4>3. CASE Position[s] = m.at
        <5>1. StageOf(m) = s \/ (s = "createCluster" /\ ~CreateNew)
          BY <4>3, <3>1
        <5> QED
          BY <5>1, <2>1, ChangeOf DEF Sees, WorldOK
      <4> QED
        BY <4>1, <4>2, <4>3
    <3>7. n.at > 16 => "admin" \in n.absent
      BY <3>1, <3>3, <2>1, <1>3 DEF Progress, Sees
    <3>8. n.at > 17 => "ingress" \in n.absent
      BY <3>1, <3>3, <2>1, <1>3 DEF Progress, Sees
    <3> QED
      BY <3>2, <3>5, <3>6, <3>7, <3>8 DEF Progress
  <2>2. CASE m.role # "controller"
    BY <2>2, <1>3, OtherAt DEF Believes, Sees, Progress, ClusterTypeOK
  <2> QED
    BY <2>1, <2>2
<1>5. n.absent \cap present \subseteq returned
  BY <1>3 DEF Believes
<1> QED
  BY <1>2, <1>3, <1>4, <1>5 DEF Believes

\* Nor does an error make a worker believe what is not so.  It leaves no
\* controller behind.
LEMMA FailsBelieves ==
  ASSUME ClusterTypeOK, NEW m \in Workers, Believes(m)
  PROVE  \/ Fails(m) = Rest
         \/ /\ Fails(m) \in Workers /\ Believes(Fails(m))
            /\ Fails(m).role # "controller" /\ Fails(m).step = "begin"
            /\ Fails(m).chain = m.chain
<1>1. m.at \in Nat /\ m.at + 1 \in Nat
  BY DEF Workers
<1>2. PICK n : n = Fails(m)
  OBVIOUS
<1>3. CASE m.role = "controller"
  <2>1. n = [At(m, 1) EXCEPT !.role = "cleanup"]
    BY <1>2, <1>3 DEF Fails
  <2>2. /\ n \in Workers /\ n.role = "cleanup" /\ n.step = "begin" /\ n.chain = m.chain
        /\ n.at = 1 /\ n.absent = m.absent
    BY <2>1, MovedShape DEF Workers
  <2> QED
    BY <2>2, <1>2 DEF Believes, Progress, Length
<1>4. CASE m.role # "controller" /\ StageOf(m) \in Deleting \cup {"discover"}
  <2>1. n = [Onward(m) EXCEPT !.ambiguous = TRUE]
    BY <1>2, <1>4 DEF Fails
  <2>2. /\ n \in Workers /\ n.role = m.role /\ n.step = "begin" /\ n.chain = m.chain
        /\ n.at = m.at + 1 /\ n.absent = m.absent
    <3>1. PICK o : o = Onward(m)
      OBVIOUS
    <3>2. /\ o \in Workers /\ o.role = m.role /\ o.step = "begin" /\ o.chain = m.chain
          /\ o.at = m.at + 1 /\ o.absent = m.absent
      BY <3>1, <1>1, MovedShape DEF Onward
    <3>3. n = [o EXCEPT !.ambiguous = TRUE]
      BY <2>1, <3>1
    <3> QED
      BY <3>2, <3>3 DEF Workers
  <2>3. n.at \in 1..Length(n.role)
    BY <2>2, <1>4, OtherAt, ChangeFacts DEF Believes, ClusterTypeOK
  <2> QED
    BY <2>2, <2>3, <1>2, <1>4 DEF Believes, Progress
<1>5. CASE m.role # "controller" /\ StageOf(m) \notin Deleting \cup {"discover"}
  BY <1>5 DEF Fails
<1> QED
  BY <1>3, <1>4, <1>5

\* The phases of a chain that grew by one.
LEMMA PhasesGrow ==
  ASSUME NEW c \in Chains, NEW p \in StageNames \X Marks, NEW r \in Nat
  PROVE  /\ Append(c, <<p, r>>) \in Chains
         /\ Phases(Append(c, <<p, r>>)) = Phases(c) \cup {p}
         /\ Append(c, <<p, r>>) # <<>>
<1>1. PICK d : d = Append(c, <<p, r>>)
  OBVIOUS
<1>2. /\ d \in Chains /\ Len(d) = Len(c) + 1
      /\ \A i \in 1..Len(c) : d[i] = c[i]
      /\ d[Len(c) + 1] = <<p, r>>
  BY <1>1, AppendProperties DEF Chains
<1>3. Len(c) \in Nat /\ DOMAIN c = 1..Len(c) /\ DOMAIN d = 1..(Len(c) + 1)
  BY <1>2 DEF Chains
<1>4. Phases(d) \subseteq Phases(c) \cup {p}
  <2>1. ASSUME NEW i \in DOMAIN d
        PROVE  d[i][1] \in Phases(c) \cup {p}
    <3>1. CASE i \in 1..Len(c)
      BY <3>1, <1>2, <1>3 DEF Phases
    <3>2. CASE i = Len(c) + 1
      BY <3>2, <1>2
    <3> QED
      BY <3>1, <3>2, <1>3
  <2> QED
    BY <2>1 DEF Phases
<1>5. Phases(c) \subseteq Phases(d)
  BY <1>2, <1>3 DEF Phases
<1>6. p \in Phases(d)
  <2>1. Len(c) + 1 \in DOMAIN d
    BY <1>3
  <2>2. d[Len(c) + 1][1] = p
    BY <1>2
  <2> QED
    BY <2>1, <2>2 DEF Phases
<1>7. d # <<>>
  BY <1>2, <1>3
<1> QED
  BY <1>1, <1>2, <1>4, <1>5, <1>6, <1>7

\* The empty chain.
LEMMA NoPhases ==
  Phases(<<>>) = {} /\ <<>> \in Chains
  BY DEF Phases, Chains

\* An update that applies leaves exactly the item it carries.
LEMMA UpdatedIs ==
  ASSUME NEW i \in Items \cup {NoItem}, NEW u \in Updates
  PROVE  Updated(i, u) = IF Applies(i, u) THEN u.new ELSE i
<1>1. CASE ~Applies(i, u)
  BY <1>1 DEF Updated
<1>2. CASE Applies(i, u) /\ i = NoItem
  BY <1>2 DEF Updated
<1>3. CASE Applies(i, u) /\ i # NoItem
  <2>1. ~i.final /\ ~i.terminal
    BY <1>3 DEF Applies, Expected
  <2>2. PICK n \in Items : n = u.new
    BY DEF Updates
  <2>3. PICK f \in BOOLEAN, t \in BOOLEAN : f = n.final /\ t = n.terminal
    BY DEF Items
  <2>4. (n.final \/ i.final) = f /\ (n.terminal \/ i.terminal) = t
    BY <2>1, <2>3
  <2>5. Updated(i, u) = [n EXCEPT !.final = (@ \/ i.final), !.terminal = (@ \/ i.terminal)]
    BY <1>3, <2>2 DEF Updated
  <2>6. Updated(i, u) = [n EXCEPT !.final = f, !.terminal = t]
    BY <2>4, <2>5
  <2>7. [n EXCEPT !.final = f, !.terminal = t] = n
    BY <2>2, <2>3 DEF Items
  <2> QED
    BY <2>6, <2>7, <2>2, <1>3
<1> QED
  BY <1>1, <1>2, <1>3

\* The item is there for good and its chain only grows.
Grows == /\ item # NoItem => item' # NoItem
         /\ Written(item) \subseteq Written(item')

\* A step that only writes to the table: nothing is sent, nothing appears.
Calm ==
  /\ present' = present /\ sent' = sent /\ clusterMode' = clusterMode
  /\ returned' \subseteq Access /\ returned \cap present \subseteq returned'

\* What is true of the world stays true in such a step.
LEMMA CalmKeeps ==
  ASSUME Calm
  PROVE  /\ Gone => Gone'
         /\ Complete => Complete'
         /\ \A i : Truthful(i) => Truthful(i)'
         /\ \A m \in Workers : Believes(m) => Believes(m)'
<1>1. /\ Gone => Gone'
      /\ Complete => Complete'
  BY DEF Calm, Gone, Complete
<1>2. ASSUME NEW i, Truthful(i) PROVE Truthful(i)'
  BY <1>1, <1>2 DEF Truthful, Closes
<1>3. ASSUME NEW m \in Workers, Believes(m) PROVE Believes(m)'
  <2>1. StageOf(m)' = StageOf(m)
    BY DEF Calm, StageOf
  <2>2. Progress(m)'
    BY <1>3 DEF Calm, Progress, Believes, Passed
  <2>3. (m.absent \cap present \subseteq returned)'
    BY <1>3 DEF Calm, Believes
  <2> QED
    BY <1>3, <2>1, <2>2, <2>3 DEF Calm, Believes
<1> QED
  BY <1>1, <1>2, <1>3

\* A lawful update may reach the table at once, later or never.
LEMMA WorldSteps ==
  ASSUME ClusterTypeOK, WorldOK, Calm, NEW u \in Updates, Lawful(u),
         item' = item \/ (Applies(item, u) /\ item' = u.new),
         late' \subseteq late \cup {u},
         item # NoItem \/ late' \subseteq late \/ u.new = Item(u.owner)
  PROVE  /\ item' \in Items \cup {NoItem}
         /\ WorldOK' /\ Grows
         /\ Open /\ ~Closes(u.new) => Open'
<1>1. item' \in Items \cup {NoItem}
  BY DEF ClusterTypeOK, Updates
<1>2. Grows
  <2>1. CASE item' = item
    BY <2>1 DEF Grows
  <2>2. CASE Applies(item, u) /\ item' = u.new
    <3>1. item' # NoItem
      BY <2>2, WorkerShape DEF Updates
    <3>2. item = NoItem \/ item.chain = u.chain
      BY <2>2 DEF Applies, Expected
    <3> QED
      BY <2>2, <3>1, <3>2 DEF Grows, Written, Lawful
  <2> QED
    BY <2>1, <2>2
<1>3. Truthful(item)'
  <2>1. PICK i : i = item'
    OBVIOUS
  <2>2. Truthful(i)
    BY <2>1 DEF WorldOK, Lawful
  <2>3. Truthful(i)'
    BY <2>2, CalmKeeps
  <2> QED
    BY <2>1, <2>3 DEF Truthful, Closes, Gone, Complete
<1>4. ASSUME NEW v \in late' \cap Updates
      PROVE  Lawful(v)'
  <2>1. Lawful(v)
    BY DEF WorldOK
  <2>2. Truthful(v.new)'
    BY <2>1, CalmKeeps DEF Lawful
  <2> QED
    BY <2>1, <2>2, <1>2 DEF Lawful, Grows
<1>5. SentOK'
  BY <1>2 DEF WorldOK, SentOK, Calm, Grows
<1>6. Untried'
  BY <1>2 DEF WorldOK, Untried, Calm, Grows, StartsAbsent, CreateNew, Access
<1>7. CreateNew' \/ ("cluster" \in present)'
  BY DEF WorldOK, Calm, CreateNew
<1>8. Open /\ ~Closes(u.new) => Open'
  BY DEF Open, Closes
<1> QED
  BY <1>1, <1>2, <1>3, <1>4, <1>5, <1>6, <1>7, <1>8 DEF WorldOK

\* Nothing but the process moves.
LEMMA StillWorld ==
  ASSUME WorldOK, Calm, item' = item, late' = late
  PROVE  WorldOK' /\ Grows /\ (Open => Open')
<1>1. Grows
  BY DEF Grows
<1>2. Truthful(item)'
  <2>1. PICK i : i = item
    OBVIOUS
  <2>2. Truthful(i)'
    BY <2>1, CalmKeeps DEF WorldOK
  <2> QED
    BY <2>1, <2>2 DEF Truthful, Closes, Gone, Complete
<1>3. ASSUME NEW v \in late' \cap Updates PROVE Lawful(v)'
  <2>1. Lawful(v)
    BY DEF WorldOK
  <2>2. Truthful(v.new)'
    BY <2>1, CalmKeeps DEF Lawful
  <2> QED
    BY <2>1, <2>2 DEF Lawful
<1>4. SentOK'
  BY DEF WorldOK, SentOK, Calm
<1>5. Untried'
  BY DEF WorldOK, Untried, Calm, StartsAbsent, CreateNew, Access
<1>6. CreateNew' \/ ("cluster" \in present)'
  BY DEF WorldOK, Calm, CreateNew
<1>7. Open => Open'
  BY DEF Open
<1> QED
  BY <1>1, <1>2, <1>3, <1>4, <1>5, <1>6, <1>7 DEF WorldOK

\* One update of the table, whatever becomes of it.
LEMMA WritesStep ==
  ASSUME ClusterTypeOK, WorldOK, Calm, NEW new \in Items, Update(new) \in Updates,
         Lawful(Update(new)), NEW ok, NEW no, Writes(new, ok, no)
  PROVE  /\ item' \in Items \cup {NoItem} /\ late' \subseteq Updates \cup Requests
         /\ unanswered' \in Nat
         /\ WorldOK' /\ Grows
         /\ Open /\ ~Closes(new) => Open'
         /\ me' = no \/ (me' = ok /\ item' = new)
<1>1. PICK u \in Updates : u = Update(new)
  OBVIOUS
<1>2. u.new = new
  BY <1>1 DEF Update
<1>3. Updated(item, u) = IF Applies(item, u) THEN new ELSE item
  BY <1>2, UpdatedIs DEF ClusterTypeOK
<1>4. /\ item' = item \/ (Applies(item, u) /\ item' = u.new)
      /\ late' \subseteq late \cup {u}
      /\ unanswered' \in Nat
      /\ me' = no \/ (me' = ok /\ item' = new)
  BY <1>1, <1>2, <1>3 DEF Writes, ClusterTypeOK
<1>5. Lawful(u)
  BY <1>1
<1>6. /\ item' \in Items \cup {NoItem} /\ WorldOK' /\ Grows
      /\ Open /\ ~Closes(u.new) => Open'
  BY <1>4, <1>5, WorldSteps DEF Lawful
<1> QED
  BY <1>1, <1>2, <1>4, <1>6 DEF ClusterTypeOK

\* A transition that is recorded, or was: the process goes on only when it stands
\* in the item.
LEMMA RecordsStep ==
  ASSUME ClusterTypeOK, WorldOK, Calm, me \in Workers, me.step # "reserve", Stands(me),
         NEW p \in StageNames \X Marks, NEW ok \in Workers, ok.chain = me.chain, NEW no,
         Records(p, ok, no)
  PROVE  /\ item' \in Items \cup {NoItem} /\ late' \subseteq Updates \cup Requests
         /\ unanswered' \in Nat
         /\ WorldOK' /\ Grows
         /\ Open => Open'
         /\ \/ me' = no
            \/ \E c \in Chains : /\ me' = [ok EXCEPT !.chain = c]
                                 /\ p \in Phases(c) /\ item' # NoItem
                                 /\ Phases(c) \subseteq Phases(item'.chain)
<1>0. me.chain \in Chains /\ me.run \in Nat /\ me.owner \in Nat \ {0}
  BY DEF Workers
<1>1. CASE p \in Phases(me.chain)
  <2>1. me' = ok /\ item' = item /\ late' = late /\ unanswered' = unanswered
    BY <1>1 DEF Records
  <2>2. ok = [ok EXCEPT !.chain = me.chain]
    BY DEF Workers
  <2>3. WorldOK' /\ Grows /\ (Open => Open')
    BY <2>1, StillWorld
  <2> QED
    BY <1>0, <1>1, <2>1, <2>2, <2>3 DEF Stands, ClusterTypeOK
<1>2. CASE p \notin Phases(me.chain)
  <2>1. PICK c : c = Append(me.chain, <<p, me.run>>)
    OBVIOUS
  <2>2. /\ c \in Chains /\ Phases(c) = Phases(me.chain) \cup {p} /\ c # <<>>
    BY <1>0, <2>1, PhasesGrow
  <2>3. PICK new : new = [owner |-> me.owner, chain |-> c, final |-> FALSE, terminal |-> FALSE]
    OBVIOUS
  <2>4. new \in Items /\ new.chain = c /\ ~new.final /\ ~new.terminal
    BY <1>0, <2>2, <2>3 DEF Items
  <2>5. Writes(new, [ok EXCEPT !.chain = c], no)
    BY <1>2, <2>1, <2>3 DEF Records
  <2>6. /\ Update(new) \in Updates
        /\ Update(new).chain = me.chain /\ Update(new).new = new
    BY <1>0, <2>4 DEF Update, Updates
  <2>7. item # NoItem
    BY DEF Stands
  <2>8. ~Closes(new)
    BY <2>4 DEF Closes
  <2>9. Lawful(Update(new))
    BY <2>2, <2>4, <2>6, <2>7, <2>8 DEF Lawful, Truthful
  <2>10. /\ item' \in Items \cup {NoItem} /\ late' \subseteq Updates \cup Requests
         /\ unanswered' \in Nat
         /\ WorldOK' /\ Grows
         /\ Open /\ ~Closes(new) => Open'
         /\ me' = no \/ (me' = [ok EXCEPT !.chain = c] /\ item' = new)
    BY <2>4, <2>5, <2>6, <2>9, WritesStep
  <2> QED
    BY <2>2, <2>4, <2>8, <2>10, WorkerShape
<1> QED
  BY <1>1, <1>2

\* The process after a step that it made by itself: it may go on as n when it
\* believes what is so.
Heir(n) ==
  \/ n = Rest
  \/ /\ n \in Workers /\ Believes(n)
     /\ n.step # "reserve" /\ n.chain = me.chain
     /\ n.role = "controller" => me.role = "controller"

\* A step that writes nothing keeps the invariant.
LEMMA MovesInv ==
  ASSUME ClusterInv, Calm, item' = item, late' = late, unanswered' \in Nat, runs' = runs,
         me \in Workers, me.step # "reserve", NEW n, Heir(n),
         n # Rest => n.step # "send", me' = n
  PROVE  ClusterInv'
<1>1. Stands(me)
  BY WorkerShape DEF ClusterInv
<1>3. WorldOK'
  BY StillWorld DEF ClusterInv
<1>4. ClusterTypeOK'
  BY DEF ClusterInv, ClusterTypeOK, Calm, Heir
<1>5. me' # Rest => Believes(me)' /\ Stands(me)'
  <2>1. ASSUME n # Rest PROVE Believes(n)' /\ Stands(n)'
    <3>1. n \in Workers /\ Believes(n) /\ n.chain = me.chain /\ n.step # "send"
      BY <2>1 DEF Heir
    <3>2. Believes(n)'
      BY <3>1, CalmKeeps
    <3>3. Stands(n)'
      BY <3>1, <1>1 DEF Stands
    <3> QED
      BY <3>2, <3>3
  <2>2. (Believes(n)' <=> Believes(me)') /\ (Stands(n)' <=> Stands(me)')
    BY DEF Believes, Stands, Progress, Passed, StageOf
  <2> QED
    BY <2>1, <2>2
<1>6. (me.role = "controller")' => Open'
  <2>1. Open => Open'
    BY DEF Open
  <2> QED
    BY <2>1, WorkerShape DEF ClusterInv, Heir
<1> QED
  BY <1>3, <1>4, <1>5, <1>6 DEF ClusterInv

\* Nor does one that records a transition.
LEMMA RecordsInv ==
  ASSUME ClusterInv, Calm, runs' = runs, me \in Workers, me.step # "reserve",
         NEW p \in StageNames \X Marks,
         NEW ok \in Workers, Heir(ok), ok.step = "send" => p = Dispatching(StageOf(ok)),
         NEW no, Heir(no), no # Rest => no.step # "send",
         Records(p, ok, no)
  PROVE  ClusterInv'
<1>0. Stands(me) /\ ok.chain = me.chain /\ Believes(ok)
  BY WorkerShape DEF ClusterInv, Heir
<1>1. /\ item' \in Items \cup {NoItem} /\ late' \subseteq Updates \cup Requests
      /\ unanswered' \in Nat
      /\ WorldOK' /\ Grows
      /\ Open => Open'
      /\ \/ me' = no
         \/ \E c \in Chains : /\ me' = [ok EXCEPT !.chain = c]
                              /\ p \in Phases(c) /\ item' # NoItem
                              /\ Phases(c) \subseteq Phases(item'.chain)
  BY <1>0, RecordsStep DEF ClusterInv
<1>2. CASE me' = no
  <2>1. ClusterTypeOK'
    BY <1>1, <1>2 DEF ClusterInv, ClusterTypeOK, Calm, Heir
  <2>2. ASSUME no # Rest PROVE Believes(no)' /\ Stands(no)'
    <3>1. no \in Workers /\ Believes(no) /\ no.chain = me.chain /\ no.step # "send"
      BY <2>2 DEF Heir
    <3>2. Believes(no)'
      BY <3>1, CalmKeeps
    <3>3. Stands(no)'
      BY <3>1, <1>0, <1>1 DEF Stands, Grows, Written
    <3> QED
      BY <3>2, <3>3
  <2>3. (Believes(no)' <=> Believes(me)') /\ (Stands(no)' <=> Stands(me)')
    BY <1>2 DEF Believes, Stands, Progress, Passed, StageOf
  <2>4. (me.role = "controller")' => Open'
    BY <1>1, <1>2, WorkerShape DEF ClusterInv, Heir
  <2> QED
    BY <1>1, <1>2, <2>1, <2>2, <2>3, <2>4 DEF ClusterInv
<1>3. ASSUME NEW c \in Chains, me' = [ok EXCEPT !.chain = c], p \in Phases(c),
             item' # NoItem, Phases(c) \subseteq Phases(item'.chain)
      PROVE  ClusterInv'
  <2>0. PICK n : n = [ok EXCEPT !.chain = c]
    OBVIOUS
  <2>1. /\ n \in Workers /\ n.role = ok.role /\ n.at = ok.at /\ n.step = ok.step
        /\ n.chain = c /\ n.absent = ok.absent
    BY <2>0 DEF Workers
  <2>2. StageOf(n) = StageOf(ok)
    BY <2>1 DEF StageOf
  <2>3. Believes(n)
    BY <1>0, <2>1, <2>2, WorkerShape DEF Believes, Progress, Passed, Heir
  <2>4. Believes(n)'
    BY <2>1, <2>3, CalmKeeps
  <2>5. StageOf(n)' = StageOf(n)
    BY DEF StageOf, Calm
  <2>6. Stands(n)'
    BY <1>3, <2>1, <2>2, <2>5 DEF Stands
  <2>7. (Believes(n)' <=> Believes(me)') /\ (Stands(n)' <=> Stands(me)')
    BY <1>3, <2>0 DEF Believes, Stands, Progress, Passed, StageOf
  <2>8. ClusterTypeOK'
    BY <1>1, <1>3, <2>0, <2>1 DEF ClusterInv, ClusterTypeOK, Calm
  <2>9. (me.role = "controller")' => Open'
    BY <1>1, <1>3, <2>0, <2>1, WorkerShape DEF ClusterInv, Heir
  <2> QED
    BY <1>1, <2>4, <2>6, <2>7, <2>8, <2>9 DEF ClusterInv
<1> QED
  BY <1>1, <1>2, <1>3

\* The process of a step, once it has a stage.
LEMMA Acting ==
  ASSUME ClusterInv, NEW step \in Steps, Now(step)
  PROVE  /\ me \in Workers /\ me.step = step /\ Believes(me) /\ Stands(me)
         /\ Stage = StageOf(me) /\ Stage \in StageNames
  <1>1. me \in Workers /\ me.step = step
    BY WorkerShape DEF Now, ClusterInv, ClusterTypeOK
  <1>2. Believes(me) /\ Stands(me)
    BY <1>1, WorkerShape DEF ClusterInv
  <1>3. StageOf(me) \in StageNames
    BY <1>1, <1>2, ControllerAt, OtherAt DEF Believes, ClusterInv, ClusterTypeOK
  <1> QED
    BY <1>1, <1>2, <1>3 DEF Stage

\* The transitions of a stage have their names.
LEMMA Phased ==
  ASSUME NEW s \in StageNames
  PROVE  /\ Dispatching(s) \in StageNames \X Marks
         /\ Reconciled(s) \in StageNames \X Marks
         /\ Done(s) \in StageNames \X Marks
  BY DEF Dispatching, Reconciled, Done, Marks

\* An error makes an heir.
LEMMA FailsIsHeir ==
  ASSUME ClusterTypeOK, NEW m \in Workers, Believes(m), m.chain = me.chain
  PROVE  Heir(Fails(m)) /\ (Fails(m) # Rest => Fails(m).step # "send")
  BY FailsBelieves DEF Heir

\* So does a stage that saw what it had to.
LEMMA OnwardIsHeir ==
  ASSUME ClusterTypeOK, WorldOK, NEW m \in Workers, Believes(m), Sees(m),
         m.chain = me.chain, m.role = me.role
  PROVE  Heir(Onward(m)) /\ Onward(m) \in Workers /\ Onward(m).step = "begin"
  BY OnwardBelieves DEF Heir

\* Steps that touch neither the providers nor the counters are calm.
LEMMA UntouchedIsCalm ==
  ASSUME ClusterTypeOK, Untouched, returned' = returned, sent' = sent
  PROVE  Calm /\ runs' = runs
  BY DEF Untouched, Calm, ClusterTypeOK

\* A failing readback.
LEMMA ReadFailsInv ==
  ASSUME ClusterInv, Calm, runs' = runs, NEW step \in Steps \ {"reserve"}, Now(step), ReadFails
  PROVE  ClusterInv'
<1>1. /\ me \in Workers /\ me.step # "reserve" /\ Believes(me)
  BY Acting DEF Steps
<1>2. PICK n : n = Fails(me)
  OBVIOUS
<1>3. Heir(n) /\ (n # Rest => n.step # "send")
  BY <1>1, <1>2, FailsIsHeir DEF ClusterInv
<1> QED
  BY <1>1, <1>2, <1>3, MovesInv DEF ReadFails, ClusterInv, ClusterTypeOK

\* A process that gives up its stage.
LEMMA GivesUpInv ==
  ASSUME ClusterInv, Calm, runs' = runs, NEW step \in Steps \ {"reserve"}, Now(step),
         me' = Fails(me), Idles
  PROVE  ClusterInv'
<1>1. /\ me \in Workers /\ me.step # "reserve" /\ Believes(me)
  BY Acting DEF Steps
<1>2. PICK n : n = Fails(me)
  OBVIOUS
<1>3. Heir(n) /\ (n # Rest => n.step # "send")
  BY <1>1, <1>2, FailsIsHeir DEF ClusterInv
<1> QED
  BY <1>1, <1>2, <1>3, MovesInv DEF Idles, ClusterInv, ClusterTypeOK

\* A readback and its transition: Observe.
LEMMA ObserveInv ==
  ASSUME ClusterInv, Observe
  PROVE  ClusterInv'
<1>1. /\ me \in Workers /\ me.step = "begin" /\ Believes(me) /\ Stands(me)
      /\ Stage = StageOf(me) /\ Stage \in StageNames
  BY Acting DEF Observe, Steps
<1>2. Calm /\ runs' = runs
  BY UntouchedIsCalm DEF Observe, ClusterInv
<1>3. Stage \in Observing
  BY DEF Observe
<1>4. PICK seen : seen = [me EXCEPT !.possible = IF Stage = "adminPrestate"
                                                 THEN @ \cup {"admin"} ELSE @]
  OBVIOUS
<1>5. \/ Records(Done(Stage), Onward(seen), Fails(me))
      \/ (me' = Fails(me) /\ Idles)
      \/ ReadFails
  BY <1>4 DEF Observe
<1>6. ASSUME Records(Done(Stage), Onward(seen), Fails(me))
      PROVE  ClusterInv'
  <2>1. /\ seen \in Workers /\ seen.role = me.role /\ seen.at = me.at
        /\ seen.step = me.step /\ seen.chain = me.chain /\ seen.absent = me.absent
    BY <1>1, <1>4 DEF Workers, Access
  <2>2. StageOf(seen) = StageOf(me)
    BY <2>1 DEF StageOf
  <2>3. Believes(seen)
    BY <1>1, <2>1, <2>2 DEF Believes, Progress, Passed
  <2>4. Sees(seen)
    BY <1>1, <1>3, <2>2, ChangeFacts DEF Sees, Observing
  <2>5. PICK ok : ok = Onward(seen)
    OBVIOUS
  <2>6. Heir(ok) /\ ok \in Workers /\ ok.step = "begin"
    BY <2>1, <2>3, <2>4, <2>5, OnwardIsHeir DEF ClusterInv
  <2>7. PICK no : no = Fails(me)
    OBVIOUS
  <2>8. Heir(no) /\ (no # Rest => no.step # "send")
    BY <1>1, <2>7, FailsIsHeir DEF ClusterInv
  <2>9. Records(Done(Stage), ok, no)
    BY <1>6, <2>5, <2>7
  <2> QED
    BY <1>1, <1>2, <2>6, <2>8, <2>9, Phased, RecordsInv
<1>7. Now("begin")
  BY DEF Observe
<1> QED
  BY <1>2, <1>5, <1>6, <1>7, GivesUpInv, ReadFailsInv DEF Steps

\* A deletion that the cleanup does not need.
LEMMA SkipInv ==
  ASSUME ClusterInv, Skip
  PROVE  ClusterInv'
<1>1. /\ me \in Workers /\ me.step = "begin" /\ Believes(me) /\ Stands(me)
      /\ Stage = StageOf(me)
  BY Acting DEF Skip, Steps
<1>2. Calm /\ runs' = runs /\ Idles /\ me' = Onward(me)
  BY UntouchedIsCalm DEF Skip, ClusterInv
<1>3. Sees(me)
  BY <1>1, ChangeFacts DEF Skip, Needed, Sees
<1>4. PICK n : n = Onward(me)
  OBVIOUS
<1>5. Heir(n) /\ n \in Workers /\ n.step = "begin"
  BY <1>1, <1>3, <1>4, OnwardIsHeir DEF ClusterInv
<1> QED
  BY <1>1, <1>2, <1>4, <1>5, MovesInv DEF Idles, ClusterInv, ClusterTypeOK

\* The process that has just recorded its dispatch.
LEMMA DispatchedIsHeir ==
  ASSUME ClusterInv, Now("begin"), Stage \in Changing,
         NEW n, n = [Dispatched(me) EXCEPT !.step = "send"]
  PROVE  /\ n \in Workers /\ Heir(n) /\ n.step = "send" /\ StageOf(n) = Stage
<1>1. /\ me \in Workers /\ me.step = "begin" /\ Believes(me) /\ Stands(me)
      /\ Stage = StageOf(me)
  BY Acting DEF Steps
<1>2. PICK d : d = Dispatched(me)
  OBVIOUS
<1>3. /\ d \in Workers /\ d.role = me.role /\ d.at = me.at /\ d.step = me.step
      /\ d.chain = me.chain /\ d.absent \subseteq me.absent
      /\ Stage \in Once => Change[Stage].on \notin d.absent
      /\ Stage \notin Once => d.absent = me.absent
  <2>1. CASE Change[Stage].on \in Access /\ Stage \in Once
    <3>1. d = [me EXCEPT !.possible = @ \cup {Change[Stage].on},
                         !.absent = @ \ {Change[Stage].on}]
      BY <1>2, <2>1 DEF Dispatched
    <3> QED
      BY <1>1, <2>1, <3>1 DEF Workers
  <2>2. CASE ~(Change[Stage].on \in Access /\ Stage \in Once)
    <3>1. d = me
      BY <1>2, <2>2 DEF Dispatched
    <3> QED
      BY <1>1, <2>2, <3>1 DEF Workers
  <2> QED
    BY <2>1, <2>2
<1>4. n = [d EXCEPT !.step = "send"]
  BY <1>2
<1>5. /\ n \in Workers /\ n.role = d.role /\ n.at = d.at /\ n.step = "send"
      /\ n.chain = d.chain /\ n.absent = d.absent
  BY <1>3, <1>4 DEF Workers, Steps
<1>6. StageOf(n) = Stage
  BY <1>1, <1>3, <1>5 DEF StageOf
<1>7. Progress(n)
  <2>1. CASE me.role # "controller"
    BY <2>1, <1>3, <1>5 DEF Progress
  <2>2. CASE me.role = "controller"
    <3>1. Stage \in Once => Position[Stage] = me.at
      BY <1>1, <2>2, ControllerAt DEF Believes, ClusterInv, ClusterTypeOK
    <3>2. Progress(me)
      BY <1>1 DEF Believes
    <3>3. \A s \in Once : sent[s] > 0 => Passed(n, s)
      BY <1>1, <1>3, <1>5, <2>2, <3>2 DEF Progress, Passed
    <3>4. \A s \in Kept : Position[s] < n.at => Change[s].on \in present
      BY <1>3, <1>5, <2>2, <3>2 DEF Progress
    <3>5. Stage \in Once => me.at <= 16 /\ me.at \in Nat
      BY <3>1, ChangeFacts DEF Position
    <3>6. (n.at > 16 => "admin" \in n.absent) /\ (n.at > 17 => "ingress" \in n.absent)
      BY <1>3, <1>5, <2>2, <3>2, <3>5 DEF Progress
    <3> QED
      BY <3>3, <3>4, <3>6 DEF Progress
  <2> QED
    BY <2>1, <2>2
<1>8. Believes(n)
  BY <1>1, <1>3, <1>5, <1>6, <1>7 DEF Believes
<1> QED
  BY <1>3, <1>5, <1>6, <1>8 DEF Heir

\* The dispatch is recorded before anything is sent.
LEMMA DispatchInv ==
  ASSUME ClusterInv, Dispatch
  PROVE  ClusterInv'
<1>0. Now("begin") /\ Stage \in Changing
  BY DEF Dispatch
<1>1. /\ me \in Workers /\ me.step = "begin" /\ Believes(me) /\ Stands(me)
      /\ Stage = StageOf(me) /\ Stage \in StageNames
  BY <1>0, Acting DEF Steps
<1>2. Calm /\ runs' = runs
  BY UntouchedIsCalm DEF Dispatch, ClusterInv
<1>3. ASSUME Stage \in Revoking, me' = [me EXCEPT !.step = "confirm"], Idles
      PROVE  ClusterInv'
  <2>1. PICK n : n = [me EXCEPT !.step = "confirm"]
    OBVIOUS
  <2>2. /\ n \in Workers /\ n.role = me.role /\ n.at = me.at /\ n.step = "confirm"
        /\ n.chain = me.chain /\ n.absent = me.absent
    BY <1>1, <2>1 DEF Workers, Steps
  <2>3. StageOf(n) = Stage
    BY <1>1, <2>2 DEF StageOf
  <2>4. Stage \notin Once /\ Stage \notin Blind
    BY <1>3, ChangeFacts DEF Revoking, Blind
  <2>5. Progress(n)
    <3>1. me.role # "controller"
      BY <1>1, <1>3, ControllerAt DEF Believes, ClusterInv, ClusterTypeOK
    <3> QED
      BY <3>1, <2>2 DEF Progress
  <2>6. Believes(n)
    BY <1>0, <1>1, <2>2, <2>3, <2>4, <2>5 DEF Believes
  <2>7. Heir(n)
    BY <2>2, <2>6 DEF Heir
  <2> QED
    BY <1>1, <1>2, <1>3, <2>1, <2>2, <2>7, MovesInv DEF Idles, ClusterInv, ClusterTypeOK
<1>4. ASSUME Records(Dispatching(Stage), [Dispatched(me) EXCEPT !.step = "send"], Fails(me))
      PROVE  ClusterInv'
  <2>1. PICK n : n = [Dispatched(me) EXCEPT !.step = "send"]
    OBVIOUS
  <2>2. n \in Workers /\ Heir(n) /\ n.step = "send" /\ StageOf(n) = Stage
    BY <1>0, <2>1, DispatchedIsHeir
  <2>3. PICK no : no = Fails(me)
    OBVIOUS
  <2>4. Heir(no) /\ (no # Rest => no.step # "send")
    BY <1>1, <2>3, FailsIsHeir DEF ClusterInv
  <2>5. Records(Dispatching(Stage), n, no)
    BY <1>4, <2>1, <2>3
  <2> QED
    BY <1>1, <1>2, <2>2, <2>4, <2>5, Phased, RecordsInv
<1>5. ASSUME me' = Fails(me), Idles
      PROVE  ClusterInv'
  BY <1>0, <1>2, <1>5, GivesUpInv DEF Steps
<1>6. ASSUME ReadFails
      PROVE  ClusterInv'
  BY <1>0, <1>2, <1>6, ReadFailsInv DEF Steps
<1> QED
  BY <1>3, <1>4, <1>5, <1>6 DEF Dispatch

\* The readback that stands in for a lost acknowledgement.
LEMMA AcknowledgementInv ==
  ASSUME ClusterInv, ReconcileAcknowledgement
  PROVE  ClusterInv'
<1>0. Now("unknown")
  BY DEF ReconcileAcknowledgement
<1>1. /\ me \in Workers /\ me.step = "unknown" /\ Believes(me) /\ Stands(me)
      /\ Stage = StageOf(me) /\ Stage \in StageNames
  BY <1>0, Acting DEF Steps
<1>2. Calm /\ runs' = runs
  BY UntouchedIsCalm DEF ReconcileAcknowledgement, ClusterInv
<1>3. ASSUME HasEffect(Stage), Records(Reconciled(Stage), [me EXCEPT !.step = "confirm"], Fails(me))
      PROVE  ClusterInv'
  <2>1. PICK n : n = [me EXCEPT !.step = "confirm"]
    OBVIOUS
  <2>2. /\ n \in Workers /\ n.role = me.role /\ n.at = me.at /\ n.step = "confirm"
        /\ n.chain = me.chain /\ n.absent = me.absent
    BY <1>1, <2>1 DEF Workers, Steps
  <2>3. StageOf(n) = Stage
    BY <1>1, <2>2 DEF StageOf
  <2>4. Progress(n)
    BY <1>1, <2>2 DEF Believes, Progress, Passed
  <2>5. Stage \in Changing
    BY <1>1 DEF Believes
  <2>6. Stage \in Blind => Change[Stage].on \in present
    <3>1. Stage \in Blind => Stage \in Once
      BY ChangeFacts DEF Blind
    <3>2. Stage \in Blind => Change[Stage].to
      BY <3>1, ChangeKinds
    <3> QED
      BY <1>3, <3>2 DEF HasEffect
  <2>7. Believes(n)
    BY <1>1, <2>2, <2>3, <2>4, <2>5, <2>6 DEF Believes
  <2>8. Heir(n)
    BY <2>2, <2>7 DEF Heir
  <2>9. PICK no : no = Fails(me)
    OBVIOUS
  <2>10. Heir(no) /\ (no # Rest => no.step # "send")
    BY <1>1, <2>9, FailsIsHeir DEF ClusterInv
  <2>11. Records(Reconciled(Stage), n, no)
    BY <1>3, <2>1, <2>9
  <2> QED
    BY <1>1, <1>2, <2>2, <2>8, <2>10, <2>11, Phased, RecordsInv
<1> QED
  BY <1>0, <1>2, <1>3, GivesUpInv, ReadFailsInv DEF ReconcileAcknowledgement, Steps

\* What the process knows after the readback of its stage.
LEMMA KnownBelieves ==
  ASSUME ClusterInv, Now("confirm"), Stage \in Blind \/ HasEffect(Stage),
         NEW known, known = IF Change[Stage].to THEN me ELSE Settled(me, Change[Stage].on)
  PROVE  /\ known \in Workers /\ known.role = me.role /\ known.chain = me.chain
         /\ Believes(known) /\ Sees(known)
         /\ ~Change[Stage].to => Change[Stage].on \notin present
<1>1. /\ me \in Workers /\ me.step = "confirm" /\ Believes(me) /\ Stands(me)
      /\ Stage = StageOf(me) /\ Stage \in StageNames
  BY Acting DEF Steps
<1>2. Stage \in Changing
  BY <1>1 DEF Believes
<1>3. /\ Stage \in Once \/ Stage \in Deleting
      /\ Stage \in Once => Change[Stage].to
      /\ Stage \in Deleting => ~Change[Stage].to /\ Change[Stage].on \in Access
      /\ Stage \in Blind => Stage \in Once
      /\ Stage \in Once => Stage \notin Deleting
  BY <1>2, ChangeKinds, ChangeFacts DEF Blind, Once
<1>4. CASE Stage \in Once
  <2>1. known = me
    BY <1>3, <1>4
  <2>2. Change[Stage].on \in present
    BY <1>1, <1>3, <1>4 DEF Believes, HasEffect
  <2>3. Sees(me)
    BY <1>1, <1>4, <2>2, ChangeFacts DEF Sees
  <2> QED
    BY <1>1, <1>3, <1>4, <2>1, <2>3
<1>5. CASE Stage \in Deleting
  <2>1. known = [me EXCEPT !.absent = @ \cup {Change[Stage].on}]
    BY <1>3, <1>5 DEF Settled
  <2>2. /\ known \in Workers /\ known.role = me.role /\ known.at = me.at
        /\ known.step = me.step /\ known.chain = me.chain
        /\ known.absent = me.absent \cup {Change[Stage].on}
    BY <1>1, <1>3, <1>5, <2>1 DEF Workers
  <2>3. Change[Stage].on \notin present
    BY <1>3, <1>5 DEF HasEffect
  <2>4. StageOf(known) = Stage
    BY <1>1, <2>2 DEF StageOf
  <2>5. Progress(known)
    BY <1>1, <2>2 DEF Believes, Progress, Passed
  <2>6. Believes(known)
    BY <1>1, <1>3, <1>5, <2>2, <2>3, <2>4, <2>5 DEF Believes
  <2>7. Sees(known)
    BY <1>5, <2>2, <2>4, ChangeFacts, ChangeOf DEF Sees
  <2> QED
    BY <2>2, <2>3, <2>6, <2>7
<1> QED
  BY <1>3, <1>4, <1>5

\* The readback of a stage, which reports what it saw: Confirm.
LEMMA ConfirmInv ==
  ASSUME ClusterInv, Confirm
  PROVE  ClusterInv'
<1>0. Now("confirm")
  BY DEF Confirm
<1>1. /\ me \in Workers /\ me.step = "confirm" /\ Believes(me) /\ Stands(me)
      /\ Stage = StageOf(me) /\ Stage \in StageNames
  BY <1>0, Acting DEF Steps
<1>2. runs' = runs /\ sent' = sent /\ present' = present /\ clusterMode' = clusterMode
  BY DEF Confirm, Untouched
<1>3. returned' = returned => Calm
  BY <1>2 DEF Calm, ClusterInv, ClusterTypeOK
<1>4. ASSUME Stage \in Blind \/ HasEffect(Stage),
             NEW known, known = IF Change[Stage].to THEN me ELSE Settled(me, Change[Stage].on),
             Records(Done(Stage), Onward(known), Fails(known)),
             returned' = IF Change[Stage].to THEN returned ELSE returned \ {Change[Stage].on}
      PROVE  ClusterInv'
  <2>1. /\ known \in Workers /\ known.role = me.role /\ known.chain = me.chain
        /\ Believes(known) /\ Sees(known)
        /\ ~Change[Stage].to => Change[Stage].on \notin present
    BY <1>0, <1>4, KnownBelieves
  <2>2. Calm
    BY <1>2, <1>4, <2>1 DEF Calm, ClusterInv, ClusterTypeOK
  <2>3. PICK ok : ok = Onward(known)
    OBVIOUS
  <2>4. Heir(ok) /\ ok \in Workers /\ ok.step = "begin"
    BY <2>1, <2>3, OnwardIsHeir DEF ClusterInv
  <2>5. PICK no : no = Fails(known)
    OBVIOUS
  <2>6. Heir(no) /\ (no # Rest => no.step # "send")
    BY <2>1, <2>5, FailsIsHeir DEF ClusterInv
  <2>7. Records(Done(Stage), ok, no)
    BY <1>4, <2>3, <2>5
  <2> QED
    BY <1>1, <1>2, <2>2, <2>4, <2>6, <2>7, Phased, RecordsInv
<1> QED
  BY <1>0, <1>2, <1>3, <1>4, GivesUpInv, ReadFailsInv DEF Confirm, Steps

\* The cleanup looks for an administrator it does not know of: Discover.
LEMMA DiscoverInv ==
  ASSUME ClusterInv, Discover
  PROVE  ClusterInv'
<1>0. Now("begin") /\ Stage = "discover"
  BY DEF Discover
<1>1. /\ me \in Workers /\ me.step = "begin" /\ Believes(me) /\ Stands(me)
      /\ Stage = StageOf(me) /\ Stage \in StageNames
  BY <1>0, Acting DEF Steps
<1>2. Calm /\ runs' = runs
  BY UntouchedIsCalm DEF Discover, ClusterInv
<1>3. Stage \notin Kept /\ Stage \notin Once
  BY <1>0, ChangeFacts
<1>4. ASSUME NEW found \in Workers, found.role = me.role, found.at = me.at,
             found.step = me.step, found.chain = me.chain,
             me.absent \subseteq found.absent, found.absent \cap present \subseteq returned
      PROVE  /\ Believes(found) /\ Sees(found)
  <2>1. StageOf(found) = Stage
    BY <1>1, <1>4 DEF StageOf
  <2>2. Progress(found)
    BY <1>1, <1>4 DEF Believes, Progress, Passed
  <2> QED
    BY <1>0, <1>1, <1>3, <1>4, <2>1, <2>2 DEF Believes, Sees
<1>5. ASSUME me' = Onward(me), Idles
      PROVE  ClusterInv'
  <2>1. Sees(me)
    BY <1>0, <1>1, <1>3 DEF Sees
  <2>2. PICK n : n = Onward(me)
    OBVIOUS
  <2>3. Heir(n) /\ n \in Workers /\ n.step = "begin"
    BY <1>1, <2>1, <2>2, OnwardIsHeir DEF ClusterInv
  <2> QED
    BY <1>1, <1>2, <1>5, <2>2, <2>3, MovesInv DEF Idles, ClusterInv, ClusterTypeOK
<1>6. ASSUME NEW found, found = IF "admin" \in present
                                THEN [me EXCEPT !.possible = @ \cup {"admin"}]
                                ELSE Settled(me, "admin"),
             Records(Done(Stage), Onward(found), Fails(found))
      PROVE  ClusterInv'
  <2>1. /\ found \in Workers /\ found.role = me.role /\ found.at = me.at
        /\ found.step = me.step /\ found.chain = me.chain
        /\ me.absent \subseteq found.absent
        /\ found.absent \cap present \subseteq me.absent \cap present
    <3>1. CASE "admin" \in present
      BY <1>1, <1>6, <3>1 DEF Workers, Access
    <3>2. CASE "admin" \notin present
      BY <1>1, <1>6, <3>2 DEF Workers, Access, Settled
    <3> QED
      BY <3>1, <3>2
  <2>2. Believes(found) /\ Sees(found)
    BY <1>1, <1>4, <2>1 DEF Believes
  <2>3. PICK ok : ok = Onward(found)
    OBVIOUS
  <2>4. Heir(ok) /\ ok \in Workers /\ ok.step = "begin"
    BY <2>1, <2>2, <2>3, OnwardIsHeir DEF ClusterInv
  <2>5. PICK no : no = Fails(found)
    OBVIOUS
  <2>6. Heir(no) /\ (no # Rest => no.step # "send")
    BY <2>1, <2>2, <2>5, FailsIsHeir DEF ClusterInv
  <2>7. Records(Done(Stage), ok, no)
    BY <1>6, <2>3, <2>5
  <2> QED
    BY <1>1, <1>2, <2>4, <2>6, <2>7, Phased, RecordsInv
<1> QED
  BY <1>0, <1>2, <1>5, <1>6, ReadFailsInv DEF Discover, Steps

\* The reconciler's own transitions: Note.
LEMMA NoteInv ==
  ASSUME ClusterInv, Note
  PROVE  ClusterInv'
<1>0. Now("begin") /\ Stage \in {"start", "revoked"}
  BY DEF Note
<1>1. /\ me \in Workers /\ me.step = "begin" /\ Believes(me) /\ Stands(me)
      /\ Stage = StageOf(me) /\ Stage \in StageNames
  BY <1>0, Acting DEF Steps
<1>2. Calm /\ runs' = runs
  BY UntouchedIsCalm DEF Note, ClusterInv
<1>3. ASSUME me' = Rest, Idles
      PROVE  ClusterInv'
  <2>1. Heir(Rest)
    BY DEF Heir
  <2> QED
    BY <1>1, <1>2, <1>3, <2>1, MovesInv DEF Idles, ClusterInv, ClusterTypeOK
<1>4. ASSUME Records(Done(Stage), Onward(me), Rest)
      PROVE  ClusterInv'
  <2>1. Sees(me)
    BY <1>0, <1>1, ChangeFacts DEF Sees
  <2>2. PICK ok : ok = Onward(me)
    OBVIOUS
  <2>3. Heir(ok) /\ ok \in Workers /\ ok.step = "begin"
    BY <1>1, <2>1, <2>2, OnwardIsHeir DEF ClusterInv
  <2>4. PICK no : no = Rest
    OBVIOUS
  <2>5. Heir(no) /\ (no # Rest => no.step # "send")
    BY <2>4 DEF Heir
  <2>6. Records(Done(Stage), ok, no)
    BY <1>4, <2>2, <2>4
  <2> QED
    BY <1>1, <1>2, <2>3, <2>5, <2>6, Phased, RecordsInv
<1> QED
  BY <1>3, <1>4 DEF Note

\* An update that is no transition: a reservation or a receipt.
LEMMA WritesInv ==
  ASSUME ClusterInv, Calm, runs' = runs, me \in Workers,
         NEW new \in Items, Update(new) \in Updates, Lawful(Update(new)),
         NEW ok, NEW no, Writes(new, ok, no),
         ok = Rest \/ ( /\ ok \in Workers /\ Believes(ok) /\ ok.step = "begin"
                        /\ Phases(ok.chain) \subseteq Phases(new.chain)
                        /\ ~Closes(new) /\ me.role = "controller" ),
         no = Rest \/ ( /\ me.step # "reserve" /\ Heir(no) /\ no.step = "begin"
                        /\ no.role # "controller" )
  PROVE  ClusterInv'
<1>1. /\ item' \in Items \cup {NoItem} /\ late' \subseteq Updates \cup Requests
      /\ unanswered' \in Nat
      /\ WorldOK' /\ Grows
      /\ Open /\ ~Closes(new) => Open'
      /\ me' = no \/ (me' = ok /\ item' = new)
  BY WritesStep DEF ClusterInv
<1>2. ASSUME me' = Rest
      PROVE  ClusterInv'
  <2>1. ClusterTypeOK'
    BY <1>1, <1>2 DEF ClusterInv, ClusterTypeOK, Calm
  <2>2. (me.role # "controller")'
    BY <1>2, WorkerShape
  <2> QED
    BY <1>1, <1>2, <2>1, <2>2 DEF ClusterInv
<1>3. ASSUME me' = no, no # Rest
      PROVE  ClusterInv'
  <2>0. Stands(me)
    BY WorkerShape DEF ClusterInv
  <2>1. no \in Workers /\ Believes(no) /\ no.chain = me.chain /\ no.step = "begin"
    BY <1>3 DEF Heir
  <2>2. Believes(no)'
    BY <2>1, CalmKeeps
  <2>3. Stands(no)'
    BY <1>1, <1>3, <2>0, <2>1 DEF Stands, Grows, Written
  <2>4. (Believes(no)' <=> Believes(me)') /\ (Stands(no)' <=> Stands(me)')
    BY <1>3 DEF Believes, Stands, Progress, Passed, StageOf
  <2>5. ClusterTypeOK'
    BY <1>1, <1>3, <2>1 DEF ClusterInv, ClusterTypeOK, Calm
  <2>6. (me.role # "controller")'
    BY <1>3
  <2> QED
    BY <1>1, <2>2, <2>3, <2>4, <2>5, <2>6 DEF ClusterInv
<1>4. ASSUME me' = ok, item' = new, ok # Rest
      PROVE  ClusterInv'
  <2>1. Believes(ok)'
    BY <1>4, CalmKeeps
  <2>2. Stands(ok)'
    BY <1>4, WorkerShape DEF Stands
  <2>3. (Believes(ok)' <=> Believes(me)') /\ (Stands(ok)' <=> Stands(me)')
    BY <1>4 DEF Believes, Stands, Progress, Passed, StageOf
  <2>4. ClusterTypeOK'
    BY <1>1, <1>4 DEF ClusterInv, ClusterTypeOK, Calm
  <2>5. Open'
    BY <1>1, <1>4 DEF ClusterInv
  <2> QED
    BY <1>1, <2>1, <2>2, <2>3, <2>4, <2>5 DEF ClusterInv
<1> QED
  BY <1>1, <1>2, <1>3, <1>4

\* The reservation.
LEMMA ReserveInv ==
  ASSUME ClusterInv, Reserve
  PROVE  ClusterInv'
<1>1. /\ me \in Workers /\ me.step = "reserve" /\ Believes(me) /\ Stands(me)
  BY Acting DEF Reserve, Steps
<1>2. Calm /\ runs' = runs
  BY UntouchedIsCalm DEF Reserve, ClusterInv
<1>3. me.role = "controller" /\ me.at = 1 /\ me.chain = <<>> /\ me.owner \in Nat \ {0}
  BY <1>1 DEF Believes, Workers
<1>4. ASSUME me' = Rest, Idles
      PROVE  ClusterInv'
  <2>1. WorldOK'
    BY <1>2, <1>4, StillWorld DEF ClusterInv, Idles
  <2>2. ClusterTypeOK'
    BY <1>2, <1>4 DEF ClusterInv, ClusterTypeOK, Calm, Idles
  <2>3. (me.role # "controller")'
    BY <1>4, WorkerShape
  <2> QED
    BY <1>4, <2>1, <2>2, <2>3 DEF ClusterInv
<1>5. ASSUME Writes(Item(me.owner), At(me, 1), Rest)
      PROVE  ClusterInv'
  <2>1. PICK new : new = Item(me.owner)
    OBVIOUS
  <2>2. /\ new \in Items /\ new.chain = <<>> /\ ~new.final /\ ~new.terminal
    BY <1>3, <2>1, NoPhases DEF Item, Items
  <2>3. /\ Update(new) \in Updates /\ Update(new).owner = me.owner
        /\ Update(new).chain = <<>> /\ Update(new).new = new
    BY <1>3, <2>2, NoPhases DEF Update, Updates
  <2>4. Lawful(Update(new))
    BY <2>1, <2>2, <2>3 DEF Lawful, Truthful, Closes
  <2>5. PICK ok : ok = At(me, 1)
    OBVIOUS
  <2>6. /\ ok \in Workers /\ ok.at = 1 /\ ok.step = "begin" /\ ok.role = me.role
        /\ ok.chain = <<>> /\ ok.absent = me.absent
    BY <1>1, <1>3, <2>5, MovedShape
  <2>7. Progress(ok)
    BY <1>1, <1>3, <2>6 DEF Believes, Progress, Passed
  <2>8. Believes(ok)
    BY <1>1, <1>3, <2>6, <2>7 DEF Believes
  <2>9. Writes(new, ok, Rest)
    BY <1>5, <2>1, <2>5
  <2>10. ~Closes(new)
    BY <2>2 DEF Closes
  <2> QED
    BY <1>1, <1>2, <1>3, <2>2, <2>3, <2>4, <2>6, <2>8, <2>9, <2>10, WritesInv
<1> QED
  BY <1>4, <1>5 DEF Reserve

\* A receipt is written by a process that believes all access is gone.
LEMMA ReceiptInv ==
  ASSUME ClusterInv, Calm, runs' = runs, me \in Workers, me.step # "reserve",
         Believes(me), Stands(me), Access \subseteq me.absent,
         NEW new \in Items, new.chain = me.chain, new.owner = me.owner,
         ~(new.final /\ new.terminal), new.final => Complete,
         NEW no, Heir(no), no # Rest => no.step = "begin" /\ no.role # "controller",
         Writes(new, Rest, no)
  PROVE  ClusterInv'
<1>1. /\ Update(new) \in Updates /\ Update(new).owner = me.owner
      /\ Update(new).chain = me.chain /\ Update(new).new = new
  BY DEF Update, Updates, Workers
<1>2. Gone
  BY DEF Gone, Believes
<1>3. Truthful(new)
  BY <1>2 DEF Truthful
<1>4. Lawful(Update(new))
  BY <1>1, <1>3 DEF Lawful, Stands
<1> QED
  BY <1>1, <1>4, WritesInv

\* The items that carry a receipt.
LEMMA ReceiptShape ==
  ASSUME NEW o \in Nat \ {0}, NEW c \in Chains
  PROVE  /\ LET new == [Item(o) EXCEPT !.chain = c, !.final = TRUE] IN
              new \in Items /\ new.owner = o /\ new.chain = c /\ new.final /\ ~new.terminal
         /\ LET new == [Item(o) EXCEPT !.chain = c, !.terminal = TRUE] IN
              new \in Items /\ new.owner = o /\ new.chain = c /\ ~new.final /\ new.terminal
<1>1. PICK i : i = Item(o)
  OBVIOUS
<1>2. i \in Items /\ i.owner = o /\ ~i.final /\ ~i.terminal
  BY <1>1, NoPhases DEF Item, Items
<1>3. PICK n : n = [i EXCEPT !.chain = c, !.final = TRUE]
  OBVIOUS
<1>4. n \in Items /\ n.owner = o /\ n.chain = c /\ n.final /\ ~n.terminal
  BY <1>2, <1>3 DEF Items
<1>5. PICK t : t = [i EXCEPT !.chain = c, !.terminal = TRUE]
  OBVIOUS
<1>6. t \in Items /\ t.owner = o /\ t.chain = c /\ ~t.final /\ t.terminal
  BY <1>2, <1>5 DEF Items
<1> QED
  BY <1>1, <1>3, <1>4, <1>5, <1>6

\* The final receipt.
LEMMA FinalizeInv ==
  ASSUME ClusterInv, Finalize
  PROVE  ClusterInv'
<1>0. Now("begin") /\ Stage = "finalize"
  BY DEF Finalize
<1>1. /\ me \in Workers /\ me.step = "begin" /\ Believes(me) /\ Stands(me)
      /\ Stage = StageOf(me)
  BY <1>0, Acting DEF Steps
<1>2. Calm /\ runs' = runs
  BY UntouchedIsCalm DEF Finalize, ClusterInv
<1>3. me.role = "controller"
  BY <1>0, <1>1, OtherAt, ChangeFacts DEF Believes, ClusterInv, ClusterTypeOK
<1>4. me.at = 18
  BY <1>0, <1>1, <1>3, ControllerAt DEF Believes, ClusterInv, ClusterTypeOK
<1>5. Access \subseteq me.absent
  BY <1>1, <1>3, <1>4 DEF Believes, Progress, Access
<1>6. Complete
  <2>1. \A s \in Kept : Position[s] < 18
    BY ChangeFacts DEF Position
  <2> QED
    BY <1>1, <1>3, <1>4, <2>1 DEF Believes, Progress, Complete
<1>7. PICK new : new = [Item(me.owner) EXCEPT !.chain = me.chain, !.final = TRUE]
  OBVIOUS
<1>r. new \in Items /\ new.owner = me.owner /\ new.chain = me.chain /\ ~new.terminal
  BY <1>1, <1>7, ReceiptShape DEF Workers
<1>8. PICK no : no = Fails(me)
  OBVIOUS
<1>9. no = Rest \/ ( /\ no \in Workers /\ Believes(no) /\ no.role # "controller"
                     /\ no.step = "begin" /\ no.chain = me.chain )
  BY <1>1, <1>8, FailsBelieves DEF ClusterInv
<1>10. Heir(no)
  BY <1>9 DEF Heir
<1>11. Writes(new, Rest, no)
  BY <1>7, <1>8 DEF Finalize
<1> QED
  BY <1>1, <1>2, <1>5, <1>6, <1>9, <1>10, <1>11, <1>r, ReceiptInv

\* The terminal receipt.
LEMMA TerminalizeInv ==
  ASSUME ClusterInv, Terminalize
  PROVE  ClusterInv'
<1>1. /\ me \in Workers /\ me.step = "begin" /\ Believes(me) /\ Stands(me)
  BY Acting DEF Terminalize, Steps
<1>2. Calm /\ runs' = runs
  BY UntouchedIsCalm DEF Terminalize, ClusterInv
<1>3. Heir(Rest)
  BY DEF Heir
<1>4. ASSUME me' = Rest, Idles
      PROVE  ClusterInv'
  BY <1>1, <1>2, <1>3, <1>4, MovesInv DEF Idles, ClusterInv, ClusterTypeOK
<1>5. PICK new : new = [Item(me.owner) EXCEPT !.chain = me.chain, !.terminal = TRUE]
  OBVIOUS
<1>r. new \in Items /\ new.owner = me.owner /\ new.chain = me.chain /\ ~new.final
  BY <1>1, <1>5, ReceiptShape DEF Workers
<1>6. ASSUME Access \subseteq me.absent, Writes(new, Rest, Rest)
      PROVE  ClusterInv'
  BY <1>1, <1>2, <1>3, <1>6, <1>r, ReceiptInv
<1> QED
  BY <1>4, <1>5, <1>6 DEF Terminalize

\* A new controller, whose prestate is what the clusters were before the item.
LEMMA ExecuteInv ==
  ASSUME ClusterInv, Execute
  PROVE  ClusterInv'
<1>1. /\ me = Rest /\ item = NoItem /\ runs \in Nat /\ runs' = runs + 1
      /\ me' = [role |-> "controller", at |-> 1, step |-> "reserve", run |-> runs + 1,
                owner |-> runs + 1, chain |-> <<>>, ambiguous |-> FALSE,
                possible |-> {}, absent |-> IF CreateNew THEN Access ELSE {"ingress"}]
  BY DEF Execute, ClusterInv, ClusterTypeOK
<1>2. /\ Calm /\ item' = item /\ late' = late /\ unanswered' = unanswered
  BY DEF Execute, Calm, ClusterInv, ClusterTypeOK
<1>3. WorldOK' /\ (Open => Open')
  BY <1>2, StillWorld DEF ClusterInv
<1>4. PICK n : n = me'
  OBVIOUS
<1>5. /\ n \in Workers /\ n.role = "controller" /\ n.at = 1 /\ n.step = "reserve"
      /\ n.chain = <<>> /\ n.absent = StartsAbsent
  BY <1>1, <1>4, NoPhases DEF Workers, Steps, StartsAbsent, Access
<1>6. n.absent \cap present \subseteq returned
  BY <1>1, <1>5 DEF ClusterInv, WorldOK, Untried
<1>7. \A s \in Changing : ~(sent[s] > 0)
  BY <1>1 DEF ClusterInv, WorldOK, SentOK, Written
<1>8. Progress(n)
  <2>1. \A s \in Once : s \in Changing
    BY DEF Once
  <2>2. \A s \in Kept : ~(Position[s] < 1)
    BY ChangeFacts DEF Position
  <2> QED
    BY <1>5, <1>7, <2>1, <2>2 DEF Progress
<1>9. Believes(n)
  BY <1>5, <1>6, <1>8 DEF Believes, Length
<1>10. Believes(n)' /\ Stands(n)'
  BY <1>2, <1>5, <1>9, CalmKeeps DEF Stands
<1>11. (Believes(n)' <=> Believes(me)') /\ (Stands(n)' <=> Stands(me)')
  BY <1>4 DEF Believes, Stands, Progress, Passed, StageOf
<1>12. Open
  <2>1. ~Closes(item)
    BY <1>1 DEF Closes
  <2>2. ASSUME NEW u \in late \cap Updates PROVE ~Closes(u.new)
    <3>1. u.new = Item(u.owner)
      BY <1>1 DEF ClusterInv, WorldOK, Lawful
    <3> QED
      BY <3>1 DEF Closes, Item
  <2> QED
    BY <2>1, <2>2 DEF Open
<1>13. ClusterTypeOK'
  BY <1>1, <1>2, <1>4, <1>5 DEF ClusterInv, ClusterTypeOK, Calm
<1> QED
  BY <1>3, <1>10, <1>11, <1>12, <1>13 DEF ClusterInv

\* A new reconciler, which takes the chain of the item.
LEMMA ReconcileInv ==
  ASSUME ClusterInv, Reconcile
  PROVE  ClusterInv'
<1>1. /\ me = Rest /\ item # NoItem /\ runs \in Nat /\ runs' = runs + 1
      /\ me' = [role |-> "recovery", at |-> 1, step |-> "begin", run |-> runs + 1,
                owner |-> item.owner, chain |-> item.chain, ambiguous |-> FALSE,
                possible |-> Access, absent |-> {}]
  BY DEF Reconcile, ClusterInv, ClusterTypeOK
<1>2. /\ Calm /\ item' = item /\ late' = late /\ unanswered' = unanswered
  BY DEF Reconcile, Calm, ClusterInv, ClusterTypeOK
<1>3. WorldOK'
  BY <1>2, StillWorld DEF ClusterInv
<1>4. item.owner \in Nat \ {0} /\ item.chain \in Chains
  BY <1>1 DEF ClusterInv, ClusterTypeOK, Items
<1>5. PICK n : n = me'
  OBVIOUS
<1>6. /\ n \in Workers /\ n.role = "recovery" /\ n.at = 1 /\ n.step = "begin"
      /\ n.chain = item.chain /\ n.absent = {}
  BY <1>1, <1>4, <1>5 DEF Workers, Steps, Access
<1>7. Believes(n)
  BY <1>6 DEF Believes, Progress, Length
<1>8. Believes(n)' /\ Stands(n)'
  BY <1>1, <1>2, <1>6, <1>7, CalmKeeps DEF Stands
<1>9. (Believes(n)' <=> Believes(me)') /\ (Stands(n)' <=> Stands(me)')
  BY <1>5 DEF Believes, Stands, Progress, Passed, StageOf
<1>10. ClusterTypeOK'
  BY <1>1, <1>2, <1>5, <1>6 DEF ClusterInv, ClusterTypeOK, Calm
<1> QED
  BY <1>3, <1>5, <1>6, <1>8, <1>9, <1>10 DEF ClusterInv

\* A process dies, and time passes.
LEMMA RestInv ==
  ASSUME ClusterInv, Die \/ TimePasses
  PROVE  ClusterInv'
<1>1. Calm /\ item' = item /\ late' = late /\ unanswered' = unanswered /\ runs' = runs
  BY DEF Die, TimePasses, Untouched, Idles, Calm, ClusterInv, ClusterTypeOK
<1>2. WorldOK' /\ (Open => Open')
  BY <1>1, StillWorld DEF ClusterInv
<1>3. CASE me' = Rest
  <2>1. (me.role # "controller")'
    BY <1>3, WorkerShape
  <2> QED
    BY <1>1, <1>2, <1>3, <2>1 DEF ClusterInv, ClusterTypeOK, Calm
<1>4. CASE me' = me
  <2>1. ASSUME NEW n \in Workers, n = me PROVE Believes(n)' /\ Stands(n)'
    <3>1. Believes(n) /\ Stands(n)
      BY <2>1, WorkerShape DEF ClusterInv
    <3>2. StageOf(n)' = StageOf(n)
      BY <1>1 DEF StageOf, Calm
    <3> QED
      BY <1>1, <3>1, <3>2, CalmKeeps DEF Stands
  <2>2. ASSUME NEW n, n = me PROVE (Believes(n)' <=> Believes(me)') /\ (Stands(n)' <=> Stands(me)')
    BY <1>4, <2>2 DEF Believes, Stands, Progress, Passed, StageOf
  <2> QED
    BY <1>1, <1>2, <1>4, <2>1, <2>2 DEF ClusterInv, ClusterTypeOK, Calm
<1> QED
  BY <1>3, <1>4 DEF Die, TimePasses

\* The providers change by one request, in a step that leaves the table alone.
LEMMA ChangesWorld ==
  ASSUME ClusterTypeOK, WorldOK, item' = item, clusterMode' = clusterMode,
         late' \cap Updates \subseteq late, SentOK',
         Open \/ (Gone => Gone'), Complete => Complete',
         present \ Access \subseteq present',
         item = NoItem => (present' \cap StartsAbsent \subseteq returned')
  PROVE  WorldOK' /\ (Open => Open')
<1>1. \A i : (Closes(i) => ~Open) /\ Truthful(i) => Truthful(i)'
  BY DEF Truthful, Closes
<1>2. Truthful(item)'
  <2>1. PICK i : i = item
    OBVIOUS
  <2>2. Truthful(i)'
    BY <1>1, <2>1 DEF WorldOK, Open
  <2> QED
    BY <2>1, <2>2 DEF Truthful, Closes, Gone, Complete
<1>3. ASSUME NEW v \in late' \cap Updates PROVE Lawful(v)'
  <2>1. v \in late \cap Updates /\ Lawful(v)
    BY DEF WorldOK
  <2>2. Truthful(v.new)'
    BY <1>1, <2>1 DEF Lawful, Open
  <2> QED
    BY <2>1, <2>2 DEF Lawful
<1>4. Untried'
  BY DEF Untried, StartsAbsent, CreateNew
<1>5. CreateNew' \/ ("cluster" \in present)'
  BY DEF WorldOK, CreateNew, Access
<1>6. Open => Open'
  BY DEF Open
<1> QED
  BY <1>2, <1>3, <1>4, <1>5, <1>6 DEF WorldOK

\* What the request of a stage does to what is there.
LEMMA Effects ==
  ASSUME ClusterTypeOK, NEW s \in Changing, NEW c, c = Change[s],
         present' = Effect(c) \/ present' = present
  PROVE  /\ present' \subseteq Things
         /\ s \in Once => present \subseteq present' /\ present' \subseteq present \cup {c.on}
         /\ s \in Deleting => present' \subseteq present
         /\ present \ Access \subseteq present'
         /\ Complete => Complete'
<1>1. /\ s \in Once \/ s \in Deleting
      /\ s \in Once => c.to
      /\ s \in Deleting => ~c.to /\ c.on \in Access
      /\ \A k \in Kept : Change[k].on \notin Access
  BY ChangeKinds
<1>2. c.on \in Things
  BY DEF Things
<1>3. s \in Once => present \subseteq present' /\ present' \subseteq present \cup {c.on}
  BY <1>1 DEF Effect
<1>4. s \in Deleting => present' \subseteq present /\ present \ Access \subseteq present'
  BY <1>1 DEF Effect
<1>5. present' \subseteq Things
  BY <1>1, <1>2, <1>3, <1>4 DEF ClusterTypeOK
<1>6. present \ Access \subseteq present'
  BY <1>1, <1>3, <1>4
<1>7. Complete => Complete'
  BY <1>1, <1>6 DEF Complete
<1> QED
  BY <1>3, <1>4, <1>5, <1>6, <1>7

\* The process that has sent its request and waits for its effect.
LEMMA SentBelieves ==
  ASSUME ClusterInv, Now("send"), NEW n \in Workers, NEW step \in {"unknown", "confirm"},
         n = [me EXCEPT !.step = step],
         clusterMode' = clusterMode, returned' = returned,
         present' = Effect(Change[Stage]) \/ (step = "unknown" /\ present' = present),
         sent' = [sent EXCEPT ![Stage] = IF @ = 2 THEN 2 ELSE @ + 1],
         Stage \in Blind => step = "confirm"
  PROVE  Believes(n)'
<1>1. /\ me \in Workers /\ me.step = "send" /\ Believes(me) /\ Stands(me)
      /\ Stage = StageOf(me) /\ Stage \in StageNames
  BY Acting DEF Steps
<1>2. Stage \in Changing
  BY <1>1 DEF Believes
<1>3. /\ n.role = me.role /\ n.at = me.at /\ n.step = step
      /\ n.chain = me.chain /\ n.absent = me.absent
  BY <1>1 DEF Workers
<1>4. StageOf(n)' = Stage
  BY <1>1, <1>3 DEF StageOf
<1>5. PICK c : c = Change[Stage]
  OBVIOUS
<1>6. /\ Stage \in Once => present \subseteq present' /\ present' \subseteq present \cup {c.on}
      /\ Stage \in Deleting => present' \subseteq present
      /\ present \ Access \subseteq present'
  BY <1>2, <1>5, Effects DEF ClusterInv
<1>7. Stage \in Once \/ Stage \in Deleting
  BY <1>2, ChangeKinds
<1>8. n.absent \cap present' \subseteq returned'
  BY <1>1, <1>3, <1>5, <1>6, <1>7 DEF Believes
<1>9. Stage \in Blind => Change[Stage].on \in present'
  <2>1. Stage \in Blind => Stage \in Once
    BY ChangeFacts DEF Blind
  <2>2. Stage \in Blind => Change[Stage].to
    BY <2>1, ChangeKinds
  <2> QED
    BY <2>2 DEF Effect
<1>10. Progress(n)'
  <2>1. CASE me.role # "controller"
    BY <2>1, <1>3 DEF Progress
  <2>2. CASE me.role = "controller"
    <3>1. Stage \in Once => Position[Stage] = me.at
      BY <1>1, <2>2, ControllerAt DEF Believes, ClusterInv, ClusterTypeOK
    <3>2. Progress(me)
      BY <1>1 DEF Believes
    <3>3. ASSUME NEW s \in Once, sent'[s] > 0 PROVE Passed(n, s)
      <4>1. CASE s = Stage
        BY <3>1, <4>1, <1>3 DEF Passed
      <4>2. CASE s # Stage
        <5>1. s \in Changing /\ sent'[s] = sent[s]
          BY <4>2 DEF Once, ClusterInv, ClusterTypeOK
        <5>2. Passed(me, s)
          BY <2>2, <3>2, <3>3, <5>1 DEF Progress
        <5> QED
          BY <1>3, <5>2 DEF Passed
      <4> QED
        BY <4>1, <4>2
    <3>4. ASSUME NEW s \in Kept, Position[s] < n.at PROVE Change[s].on \in present'
      <4>1. Change[s].on \in present
        BY <1>3, <2>2, <3>2, <3>4 DEF Progress
      <4>2. Change[s].on \notin Access
        BY ChangeKinds
      <4> QED
        BY <1>6, <4>1, <4>2
    <3>5. (n.at > 16 => "admin" \in n.absent) /\ (n.at > 17 => "ingress" \in n.absent)
      BY <1>3, <2>2, <3>2 DEF Progress
    <3> QED
      BY <3>3, <3>4, <3>5 DEF Progress, Passed
  <2> QED
    BY <2>1, <2>2
<1> QED
  BY <1>1, <1>2, <1>3, <1>4, <1>8, <1>9, <1>10 DEF Believes

\* No request of a stage that sends once has been sent when its process is about
\* to send it, and the dispatch stands in the item.
LEMMA SentOnce ==
  ASSUME ClusterInv, Now("send"),
         sent' = [sent EXCEPT ![Stage] = IF @ = 2 THEN 2 ELSE @ + 1], item' = item
  PROVE  SentOK' /\ sent' \in [Changing -> 0..2] /\ item # NoItem
<1>1. /\ me \in Workers /\ me.step = "send" /\ Believes(me) /\ Stands(me)
      /\ Stage = StageOf(me)
  BY Acting DEF Steps
<1>2. Stage \in Changing
  BY <1>1 DEF Believes
<1>3. item # NoItem /\ Dispatching(Stage) \in Written(item)
  BY <1>1 DEF Stands, Written
<1>4. sent \in [Changing -> 0..2]
  BY DEF ClusterInv, ClusterTypeOK
<1>5. ASSUME Stage \in Once PROVE sent[Stage] = 0
  <2>1. me.role = "controller"
    BY <1>1, <1>2, <1>5, OtherAt, ChangeFacts DEF Believes, ClusterInv, ClusterTypeOK
  <2>2. Position[Stage] = me.at /\ me.at \in Nat
    BY <1>1, <1>5, <2>1, ControllerAt DEF Believes, ClusterInv, ClusterTypeOK
  <2>3. ~Passed(me, Stage)
    BY <1>1, <2>2 DEF Passed
  <2>4. ~(sent[Stage] > 0)
    BY <1>1, <1>5, <2>1, <2>3 DEF Believes, Progress
  <2> QED
    BY <1>2, <1>4, <2>4
<1>6. sent' \in [Changing -> 0..2]
  BY <1>2, <1>4
<1>7. \A s \in Once : sent'[s] <= 1
  <2>1. \A s \in Once : s \in Changing /\ sent[s] <= 1
    BY DEF Once, ClusterInv, WorldOK, SentOK
  <2> QED
    BY <1>2, <1>4, <1>5, <2>1
<1>8. \A s \in Changing : sent'[s] > 0 => Dispatching(s) \in Written(item)
  BY <1>2, <1>3, <1>4 DEF ClusterInv, WorldOK, SentOK
<1> QED
  BY <1>3, <1>6, <1>7, <1>8 DEF SentOK

\* The request goes out, and is answered or not: Send.
LEMMA SendInv ==
  ASSUME ClusterInv, Send
  PROVE  ClusterInv'
<1>0. Now("send") /\ UNCHANGED <<clusterMode, item, returned, approval, runs>>
  BY DEF Send
<1>1. /\ me \in Workers /\ me.step = "send" /\ Believes(me) /\ Stands(me)
      /\ Stage = StageOf(me) /\ Stage \in StageNames
  BY <1>0, Acting DEF Steps
<1>2. Stage \in Changing
  BY <1>1 DEF Believes
<1>3. ASSUME me' = Unknown, UNCHANGED <<present, late, sent, unanswered>>
      PROVE  ClusterInv'
  <2>0. Calm
    BY <1>0, <1>3 DEF Calm, ClusterInv, ClusterTypeOK
  <2>1. CASE Stage \in Blind
    BY <1>0, <1>3, <2>0, <2>1, GivesUpInv DEF Unknown, Idles, Steps
  <2>2. CASE Stage \notin Blind
    <3>1. PICK n : n = [me EXCEPT !.step = "unknown"]
      OBVIOUS
    <3>2. /\ n \in Workers /\ n.role = me.role /\ n.at = me.at /\ n.step = "unknown"
          /\ n.chain = me.chain /\ n.absent = me.absent
      BY <1>1, <3>1 DEF Workers, Steps
    <3>3. StageOf(n) = Stage
      BY <1>1, <3>2 DEF StageOf
    <3>4. Progress(n)
      BY <1>1, <3>2 DEF Believes, Progress, Passed
    <3>5. Believes(n)
      BY <1>1, <1>2, <3>2, <3>3, <3>4 DEF Believes
    <3>6. Heir(n) /\ me' = n
      BY <1>3, <2>2, <3>1, <3>2, <3>5 DEF Heir, Unknown
    <3> QED
      BY <1>0, <1>1, <1>3, <2>0, <3>2, <3>6, MovesInv DEF ClusterInv, ClusterTypeOK
  <2> QED
    BY <2>1, <2>2
<1>4. ASSUME sent' = [sent EXCEPT ![Stage] = IF @ = 2 THEN 2 ELSE @ + 1],
             NEW c, c = Change[Stage], present' = Effect(c) \/ present' = present,
             late' \subseteq late \cup {c}, unanswered' \in Nat,
             \/ (me' = [me EXCEPT !.step = "confirm"] /\ present' = Effect(c))
             \/ me' = Unknown
      PROVE  ClusterInv'
  <2>1. SentOK' /\ sent' \in [Changing -> 0..2] /\ item # NoItem
    BY <1>0, <1>4, SentOnce
  <2>2. /\ present' \subseteq Things
        /\ Stage \in Once => present \subseteq present' /\ present' \subseteq present \cup {c.on}
        /\ Stage \in Deleting => present' \subseteq present
        /\ present \ Access \subseteq present'
        /\ Complete => Complete'
    BY <1>2, <1>4, Effects DEF ClusterInv
  <2>3. Stage \in Once => me.role = "controller"
    BY <1>1, <1>2, OtherAt, ChangeFacts DEF Believes, ClusterInv, ClusterTypeOK
  <2>4. Open \/ (Gone => Gone')
    <3>1. CASE Stage \in Once
      BY <2>3, <3>1 DEF ClusterInv
    <3>2. CASE Stage \in Deleting
      BY <1>0, <2>2, <3>2 DEF Gone
    <3> QED
      BY <1>2, <3>1, <3>2, ChangeKinds
  <2>5. c \in Requests /\ c \notin Updates
    BY <1>2, <1>4, LateShape DEF Requests
  <2>6. WorldOK' /\ (Open => Open')
    <3>1. late' \cap Updates \subseteq late
      BY <1>4, <2>5
    <3> QED
      BY <1>0, <2>1, <2>2, <2>4, <3>1, ChangesWorld DEF ClusterInv
  <2>7. late' \subseteq Updates \cup Requests
    BY <1>4, <2>5 DEF ClusterInv, ClusterTypeOK
  <2>8. ASSUME NEW n \in Workers, me' = n, Believes(n)', n.step \notin {"reserve", "send"},
               n.chain = me.chain, n.role = "controller" => me.role = "controller"
        PROVE  ClusterInv'
    <3>1. ClusterTypeOK'
      BY <1>0, <1>4, <2>1, <2>2, <2>7, <2>8 DEF ClusterInv, ClusterTypeOK
    <3>2. Stands(n)'
      BY <1>0, <1>1, <2>8 DEF Stands
    <3>3. (Believes(n)' <=> Believes(me)') /\ (Stands(n)' <=> Stands(me)')
      BY <2>8 DEF Believes, Stands, Progress, Passed, StageOf
    <3>4. (me.role = "controller")' => Open'
      BY <2>6, <2>8 DEF ClusterInv
    <3> QED
      BY <2>6, <2>8, <3>1, <3>2, <3>3, <3>4 DEF ClusterInv
  <2>9. ASSUME me' = [me EXCEPT !.step = "confirm"], present' = Effect(c)
        PROVE  ClusterInv'
    <3>1. PICK n : n = [me EXCEPT !.step = "confirm"]
      OBVIOUS
    <3>2. /\ n \in Workers /\ n.role = me.role /\ n.step = "confirm" /\ n.chain = me.chain
      BY <1>1, <3>1 DEF Workers, Steps
    <3>3. Believes(n)'
      BY <1>0, <1>4, <2>9, <3>1, <3>2, SentBelieves
    <3> QED
      BY <2>8, <2>9, <3>1, <3>2, <3>3
  <2>10. ASSUME me' = Unknown, Stage \notin Blind
        PROVE  ClusterInv'
    <3>1. PICK n : n = [me EXCEPT !.step = "unknown"]
      OBVIOUS
    <3>2. /\ n \in Workers /\ n.role = me.role /\ n.step = "unknown" /\ n.chain = me.chain
      BY <1>1, <3>1 DEF Workers, Steps
    <3>3. Believes(n)'
      BY <1>0, <1>4, <2>10, <3>1, <3>2, SentBelieves
    <3> QED
      BY <2>8, <2>10, <3>1, <3>2, <3>3 DEF Unknown
  <2>11. ASSUME me' = Unknown, Stage \in Blind
        PROVE  ClusterInv'
    <3>1. PICK n : n = Fails(me)
      OBVIOUS
    <3>2. \/ n = Rest
          \/ /\ n \in Workers /\ Believes(n) /\ n.role # "controller" /\ n.step = "begin"
             /\ n.chain = me.chain
      BY <1>1, <3>1, FailsBelieves DEF ClusterInv
    <3>3. me' = n
      BY <2>11, <3>1 DEF Unknown
    <3>4. CASE n = Rest
      <4>1. ClusterTypeOK'
        BY <1>0, <1>4, <2>1, <2>2, <2>7, <3>3, <3>4 DEF ClusterInv, ClusterTypeOK
      <4>2. (me.role # "controller")'
        BY <3>3, <3>4, WorkerShape
      <4> QED
        BY <2>6, <3>3, <3>4, <4>1, <4>2 DEF ClusterInv
    <3>5. CASE n # Rest
      <4>1. Stage \in Kept
        BY <2>11, ChangeFacts DEF Blind
      <4>2. c.on \notin Access /\ Stage \in Once
        BY <1>4, <4>1, ChangeKinds DEF Kept
      <4>3. n.absent \subseteq Access
        BY <3>2, <3>5 DEF Workers
      <4>4. (n.absent \cap present \subseteq returned)'
        BY <1>0, <2>2, <3>2, <3>5, <4>2, <4>3 DEF Believes
      <4>5. Believes(n)'
        BY <3>2, <3>5, <4>4 DEF Believes, Progress
      <4> QED
        BY <2>8, <3>2, <3>3, <3>5, <4>5
    <3> QED
      BY <3>4, <3>5
  <2> QED
    BY <1>4, <2>9, <2>10, <2>11
<1>5. unanswered \in Nat
  BY DEF ClusterInv, ClusterTypeOK
<1> QED
  BY <1>3, <1>4, <1>5 DEF Send

\* A request or an update that arrives after its sender stopped waiting.
LEMMA ArrivesInv ==
  ASSUME ClusterInv, NEW r \in late, Arrives(r)
  PROVE  ClusterInv'
<1>0. /\ late' = late \ {r}
      /\ UNCHANGED <<clusterMode, sent, me, approval, runs, unanswered>>
  BY DEF Arrives
<1>1. r \in Updates \/ r \in Requests
  BY DEF ClusterInv, ClusterTypeOK
<1>2. CASE r \in Updates
  <2>1. item' = Updated(item, r) /\ UNCHANGED <<present, returned>>
    BY <1>2, LateShape DEF Arrives
  <2>2. item' = item \/ (Applies(item, r) /\ item' = r.new)
    BY <1>2, <2>1, UpdatedIs DEF ClusterInv, ClusterTypeOK
  <2>3. Calm
    BY <1>0, <2>1 DEF Calm, ClusterInv, ClusterTypeOK
  <2>4. Lawful(r)
    BY <1>2 DEF ClusterInv, WorldOK
  <2>5. /\ item' \in Items \cup {NoItem} /\ WorldOK' /\ Grows
        /\ Open /\ ~Closes(r.new) => Open'
    BY <1>0, <1>2, <2>2, <2>3, <2>4, WorldSteps DEF ClusterInv
  <2>6. Open => ~Closes(r.new)
    BY <1>2 DEF Open
  <2>7. ClusterTypeOK'
    BY <1>0, <2>1, <2>5 DEF ClusterInv, ClusterTypeOK
  <2>8. ASSUME NEW n \in Workers, n = me PROVE Believes(n)' /\ Stands(n)'
    <3>1. Believes(n) /\ Stands(n)
      BY <2>8, WorkerShape DEF ClusterInv
    <3>2. StageOf(n)' = StageOf(n)
      BY <2>3 DEF StageOf, Calm
    <3>3. Believes(n)'
      BY <2>3, <3>1, CalmKeeps
    <3>4. Stands(n)'
      BY <2>5, <3>1, <3>2 DEF Stands, Grows, Written
    <3> QED
      BY <3>3, <3>4
  <2>9. ASSUME NEW n, n = me PROVE (Believes(n)' <=> Believes(me)') /\ (Stands(n)' <=> Stands(me)')
    BY <1>0, <2>9 DEF Believes, Stands, Progress, Passed, StageOf
  <2> QED
    BY <1>0, <2>5, <2>6, <2>7, <2>8, <2>9 DEF ClusterInv, ClusterTypeOK
<1>3. CASE r \in Requests
  <2>1. /\ present' = Effect(r) /\ item' = item
        /\ returned' = IF r.to /\ r.on \in Access THEN returned \cup {r.on} ELSE returned
    BY <1>3, LateShape DEF Arrives
  <2>2. PICK s \in Changing : r = Change[s]
    BY <1>3 DEF Requests
  <2>3. /\ present' \subseteq Things
        /\ s \in Once => present \subseteq present' /\ present' \subseteq present \cup {r.on}
        /\ s \in Deleting => present' \subseteq present
        /\ present \ Access \subseteq present'
        /\ Complete => Complete'
    BY <2>1, <2>2, Effects DEF ClusterInv
  <2>4. /\ s \in Once \/ s \in Deleting
        /\ s \in Once => r.to
    BY <2>2, ChangeKinds
  <2>5. \A A \in SUBSET Access : A \cap present \subseteq returned => A \cap present' \subseteq returned'
    BY <2>1, <2>3, <2>4
  <2>6. returned' \subseteq Access
    BY <2>1 DEF ClusterInv, ClusterTypeOK
  <2>7. Gone => Gone'
    BY <2>5 DEF Gone
  <2>8. SentOK'
    BY <1>0, <2>1 DEF SentOK, ClusterInv, WorldOK
  <2>9. item = NoItem => (present' \cap StartsAbsent \subseteq returned')
    <3>1. StartsAbsent \in SUBSET Access
      BY DEF StartsAbsent, Access
    <3> QED
      BY <2>5, <3>1 DEF ClusterInv, WorldOK, Untried
  <2>10. WorldOK' /\ (Open => Open')
    <3>1. late' \cap Updates \subseteq late
      BY <1>0
    <3> QED
      BY <1>0, <2>1, <2>3, <2>7, <2>8, <2>9, <3>1, ChangesWorld DEF ClusterInv
  <2>11. ClusterTypeOK'
    BY <1>0, <2>1, <2>3, <2>6 DEF ClusterInv, ClusterTypeOK
  <2>12. ASSUME NEW n \in Workers, n = me PROVE Believes(n)' /\ Stands(n)'
    <3>1. Believes(n) /\ Stands(n)
      BY <2>12, WorkerShape DEF ClusterInv
    <3>2. StageOf(n)' = StageOf(n)
      BY <1>0 DEF StageOf
    <3>3. n.absent \cap present' \subseteq returned'
      BY <2>5, <3>1 DEF Believes, Workers
    <3>4. (n.step = "confirm" /\ StageOf(n) \in Blind) => Change[StageOf(n)].on \in present'
      <4>1. \A k \in Blind : Change[k].on \notin Access
        BY ChangeFacts, ChangeKinds DEF Blind
      <4> QED
        BY <2>3, <3>1, <4>1 DEF Believes
    <3>5. Progress(n)'
      <4>1. \A k \in Kept : Change[k].on \notin Access
        BY ChangeKinds
      <4> QED
        BY <1>0, <2>3, <3>1, <4>1 DEF Believes, Progress, Passed
    <3>6. Believes(n)'
      BY <3>1, <3>2, <3>3, <3>4, <3>5 DEF Believes
    <3>7. Stands(n)'
      BY <2>1, <3>1, <3>2 DEF Stands
    <3> QED
      BY <3>6, <3>7
  <2>13. ASSUME NEW n, n = me PROVE (Believes(n)' <=> Believes(me)') /\ (Stands(n)' <=> Stands(me)')
    BY <1>0, <2>13 DEF Believes, Stands, Progress, Passed, StageOf
  <2> QED
    BY <1>0, <2>10, <2>11, <2>12, <2>13 DEF ClusterInv, ClusterTypeOK
<1> QED
  BY <1>1, <1>2, <1>3

\* The invariant of the controller and the reconciler: what a process believes to
\* be absent is absent or returned, what it wrote stands in the item, and a
\* receipt, in the item or on its way, is true.
THEOREM ClusterInvariant == ClusterSpec => []ClusterInv
<1>1. ClusterInit => ClusterInv
  <2> SUFFICES ASSUME ClusterInit PROVE ClusterInv
    OBVIOUS
  <2>1. present \subseteq Things
    BY ChangeFacts, ChangeOf DEF ClusterInit, Things
  <2>2. ClusterTypeOK
    BY <2>1 DEF ClusterInit, ClusterTypeOK
  <2>3. Untried
    BY DEF ClusterInit, Untried, StartsAbsent, Access
  <2>4. SentOK
    <3>1. \A s \in Once : s \in Changing
      BY DEF Once
    <3> QED
      BY <3>1 DEF ClusterInit, SentOK
  <2>5. WorldOK
    BY <2>3, <2>4 DEF ClusterInit, WorldOK, Truthful
  <2> QED
    BY <2>2, <2>5, WorkerShape DEF ClusterInit, ClusterInv
<1>2. ClusterInv /\ [ClusterNext]_clusterVars => ClusterInv'
  <2> SUFFICES ASSUME ClusterInv, [ClusterNext]_clusterVars PROVE ClusterInv'
    OBVIOUS
  <2>1. CASE ControllerStep
    BY <2>1, ExecuteInv, ReserveInv, ObserveInv, SkipInv, DispatchInv, SendInv,
       AcknowledgementInv, ConfirmInv, FinalizeInv, DiscoverInv, TerminalizeInv,
       ReconcileInv, NoteInv DEF ControllerStep
  <2>2. CASE Die \/ TimePasses
    BY <2>2, RestInv
  <2>3. CASE \E r \in late : Arrives(r)
    BY <2>3, ArrivesInv
  <2>4. CASE UNCHANGED clusterVars
    BY <2>4 DEF clusterVars, ClusterInv, ClusterTypeOK, WorldOK, Truthful, Lawful, Closes,
       Gone, Complete, SentOK, Untried, StartsAbsent, CreateNew, Open, Believes, Stands,
       Progress, Passed, StageOf, Written
  <2> QED
    BY <2>1, <2>2, <2>3, <2>4 DEF ClusterNext
<1> QED
  BY <1>1, <1>2, PTL DEF ClusterSpec

\* No creation, installation or publication is sent twice in any number of runs of
\* the controller and the reconciler, and every request stands in the operation's
\* item: whatever is lost, late or repeated, and however often a process dies.
THEOREM ClusterSentOnce == ClusterSpec => []ClusterIsOneShot
<1>1. ClusterInv => ClusterIsOneShot
  <2> SUFFICES ASSUME ClusterInv PROVE ClusterIsOneShot
    OBVIOUS
  <2>1. SentOK /\ Truthful(item)
    BY DEF ClusterInv, WorldOK
  <2> QED
    BY <2>1 DEF SentOK, Truthful, Written, ClusterIsOneShot
<1> QED
  BY <1>1, ClusterInvariant, PTL

\* A final or terminal receipt of the fresh-cluster operation tells the truth:
\* the bootstrap administrator and the ingress are gone, except for what a late
\* creation brought back, and a final one stands for everything installed.
THEOREM ClusterReceiptsTrue == ClusterSpec => []AccessRevokedWhenReported
<1>1. ClusterInv => AccessRevokedWhenReported
  <2> SUFFICES ASSUME ClusterInv PROVE AccessRevokedWhenReported
    OBVIOUS
  <2>1. Truthful(item)
    BY DEF ClusterInv, WorldOK
  <2> QED
    BY <2>1 DEF Truthful, Closes, Gone, Complete, Kept, AccessRevokedWhenReported
<1> QED
  BY <1>1, ClusterInvariant, PTL

=============================================================================
