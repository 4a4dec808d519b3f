--------------------------- MODULE ControlLedger ---------------------------
(***************************************************************************)
(* The control ledger of the integrated live drill                          *)
(* (integrated-live-drill-control-ledger.js): a directory of create-only    *)
(* files for one run authorization.  The claim file consumes the            *)
(* authorization, a spend file reserves the exposure of a scope and a       *)
(* launch file consumes the one launch of the scope's child.  The runner    *)
(* and its children are different processes; each may die, or the machine   *)
(* lose power, between any two system calls.                                *)
(*                                                                          *)
(* A record is its timestamp and the timestamp of the record whose digest   *)
(* it carries; everything else in it is fixed by the authorization, except  *)
(* the token id of a launch, which nothing in the ledger compares with      *)
(* another file.                                                            *)
(***************************************************************************)
EXTENDS Integers, Sequences

CONSTANTS
  Processes,
  N,                \* number of spend scopes
  Exposure,         \* Exposure[i]: maximumExposureUsd of scope i
  Cap,              \* maximumCumulativeExposureUsd
  Expires,          \* the authorization is valid from 0 to Expires
  MaxTime,          \* bound on the wall clock
  MaxFailures,      \* bound on the number of power failures
  NoRef

VARIABLES
  clock,            \* Date.now(), which may be set back
  disk,             \* disk[f]: the directory entry and the data of file f
  calls,            \* calls[p]: the ledger call process p is in, if any
  issued,           \* issued[f]: the receipts returned for f, in order
  failures          \* power failures so far

ledgerFileVars == <<clock, disk, calls, issued, failures>>

Scopes == 1..N

ASSUME LedgerAssumption ==
  /\ N \in Nat \ {0}
  /\ Exposure \in [Scopes -> Nat]
  /\ Cap \in Nat /\ Expires \in Nat /\ MaxTime \in Nat /\ MaxFailures \in Nat
  /\ NoRef \notin Nat

Clock == 0..MaxTime

Claim == <<"claim", 0>>
Spend(i) == <<"spend", i>>
Launch(i) == <<"launch", i>>

Files == {Claim} \cup {Spend(i) : i \in Scopes} \cup {Launch(i) : i \in Scopes}

Bodies == [at: Clock, ref: Clock \cup {NoRef}]

NoBody == [at |-> 0, ref |-> NoRef]

\* An entry is volatile until the directory is synced, and data until the file
\* is; partial data is any prefix, the empty one included.
Absent == [entry |-> "absent", data |-> "partial", body |-> NoBody]

DiskFiles ==
  [entry: {"absent", "volatile", "durable"},
   data: {"partial", "full", "synced"}, body: Bodies]

Idle == [stage |-> "idle"]

LedgerCalls ==
  [stage: {"idle"}]
    \cup [stage: {"called"}, file: Files, at: Clock]
    \cup [stage: {"created", "written", "synced", "listed"}, file: Files,
          body: Bodies]

LedgerTypeOK ==
  /\ clock \in Clock
  /\ disk \in [Files -> DiskFiles]
  /\ calls \in [Processes -> LedgerCalls]
  /\ issued \in [Files -> Seq(Bodies)]
  /\ failures \in 0..MaxFailures

LedgerInit ==
  /\ clock = 0
  /\ disk = [f \in Files |-> Absent]
  /\ calls = [p \in Processes |-> Idle]
  /\ issued = [f \in Files |-> << >>]
  /\ failures = 0

-----------------------------------------------------------------------------
(* What a call validates before it creates its file. *)

\* readLedgerFile and the canonical-JSON comparison: anything but a complete
\* record is ambiguous.
Readable(f) == disk[f].entry # "absent" /\ disk[f].data # "partial"

\* A caller shows the receipt it, or the process that started it, was given.
Held(f) == \E k \in DOMAIN issued[f] : issued[f][k] = disk[f].body

ClaimStands == Readable(Claim) /\ Held(Claim)

\* readAndValidateReservationFile
SpendStands(i) ==
  /\ Readable(Spend(i))
  /\ disk[Spend(i)].body.ref = disk[Claim].body.at

\* readAndValidateChildLaunchFile
LaunchStands(i) ==
  /\ Readable(Launch(i))
  /\ disk[Launch(i)].body.ref = disk[Spend(i)].body.at

\* scopeCumulativeMicros
Cumulative[i \in 0..N] == IF i = 0 THEN 0 ELSE Cumulative[i - 1] + Exposure[i]

MaySpend(i, at) ==
  /\ ClaimStands
  /\ \A j \in 1..(i - 1) : SpendStands(j) /\ disk[Spend(j)].body.at <= at
  /\ Cumulative[i] <= Cap

MayLaunch(i, at) ==
  /\ ClaimStands
  /\ \A j \in 1..(i - 1) :
       /\ SpendStands(j) /\ LaunchStands(j)
       /\ disk[Spend(j)].body.at <= disk[Launch(j)].body.at
       /\ disk[Launch(j)].body.at <= at
  /\ SpendStands(i) /\ Held(Spend(i))
  /\ disk[Spend(i)].body.at <= at

\* The record a call may write, if its validation succeeds.
Admitted(f, at) ==
  {b \in Bodies :
     \/ f = Claim /\ b = [at |-> at, ref |-> NoRef]
     \/ \E i \in Scopes :
          \/ /\ f = Spend(i) /\ MaySpend(i, at)
             /\ b = [at |-> at, ref |-> disk[Claim].body.at]
          \/ /\ f = Launch(i) /\ MayLaunch(i, at)
             /\ b = [at |-> at, ref |-> disk[Spend(i)].body.at]}

-----------------------------------------------------------------------------
(* The system calls of createDurableLedgerFile. *)

\* consumeIntegratedLiveDrillRunAuthorization, reserveIntegratedLiveDrillSpend
\* or consumeIntegratedLiveDrillChildLaunch: `now' is read once, and must lie
\* in the authorization's validity.
Call(p, f) ==
  /\ calls[p] = Idle
  /\ clock <= Expires
  /\ calls' = [calls EXCEPT ![p] =
                 [stage |-> "called", file |-> f, at |-> clock]]
  /\ UNCHANGED <<clock, disk, issued, failures>>

\* Fault: open without O_EXCL, which truncates what another process wrote.
CreatableAlways(f) == f \in Files

\* O_CREAT | O_EXCL
Creatable(f) == disk[f].entry = "absent"

Create(p) ==
  /\ calls[p].stage = "called"
  /\ Creatable(calls[p].file)
  /\ \E b \in Admitted(calls[p].file, calls[p].at) :
       calls' = [calls EXCEPT ![p] =
                   [stage |-> "created", file |-> calls[p].file, body |-> b]]
  /\ disk' = [disk EXCEPT ![calls[p].file] =
                [entry |-> "volatile", data |-> "partial", body |-> NoBody]]
  /\ UNCHANGED <<clock, issued, failures>>

\* A failed validation or EEXIST: the call throws and changes nothing.
Deny(p) ==
  /\ calls[p].stage = "called"
  /\ \/ ~Creatable(calls[p].file)
     \/ Admitted(calls[p].file, calls[p].at) = {}
  /\ calls' = [calls EXCEPT ![p] = Idle]
  /\ UNCHANGED <<clock, disk, issued, failures>>

\* The call of p after its next system call.
Advanced(p, s) ==
  [stage |-> s, file |-> calls[p].file, body |-> calls[p].body]

Write(p) ==
  LET f == calls[p].file
  IN  /\ calls[p].stage = "created"
      /\ disk' = [disk EXCEPT ![f] =
                    [entry |-> @.entry, data |-> "full", body |-> calls[p].body]]
      /\ calls' = [calls EXCEPT ![p] = Advanced(p, "written")]
      /\ UNCHANGED <<clock, issued, failures>>

SyncFile(p) ==
  /\ calls[p].stage = "written"
  /\ disk' = [disk EXCEPT ![calls[p].file] =
                [entry |-> @.entry, data |-> "synced", body |-> @.body]]
  /\ calls' = [calls EXCEPT ![p] = Advanced(p, "synced")]
  /\ UNCHANGED <<clock, issued, failures>>

\* Fault: the directory is not synced.
SyncDirectorySkipped(p) ==
  /\ calls[p].stage = "synced"
  /\ calls' = [calls EXCEPT ![p] = Advanced(p, "listed")]
  /\ UNCHANGED <<clock, disk, issued, failures>>

\* fsync of the directory makes every entry in it durable.
SyncDirectory(p) ==
  /\ calls[p].stage = "synced"
  /\ disk' = [f \in Files |->
                IF disk[f].entry = "absent" THEN disk[f]
                ELSE [entry |-> "durable", data |-> disk[f].data,
                      body |-> disk[f].body]]
  /\ calls' = [calls EXCEPT ![p] = Advanced(p, "listed")]
  /\ UNCHANGED <<clock, issued, failures>>

\* The file is read again and must hold the bytes written.
Return(p) ==
  LET f == calls[p].file
  IN  /\ calls[p].stage = "listed"
      /\ Readable(f) /\ disk[f].body = calls[p].body
      /\ issued' = [issued EXCEPT ![f] = Append(@, calls[p].body)]
      /\ calls' = [calls EXCEPT ![p] = Idle]
      /\ UNCHANGED <<clock, disk, failures>>

\* Fault: a call that fails removes the file that it was making.
AbandonRemoving(p) ==
  /\ calls[p].stage # "idle"
  /\ calls' = [calls EXCEPT ![p] = Idle]
  /\ disk' = IF calls[p].stage = "called" THEN disk ELSE [disk EXCEPT ![calls[p].file] = Absent]
  /\ UNCHANGED <<clock, issued, failures>>

\* The process dies or a system call fails; what it did to the file stays.
Abandon(p) ==
  /\ calls[p].stage # "idle"
  /\ calls' = [calls EXCEPT ![p] = Idle]
  /\ UNCHANGED <<clock, disk, issued, failures>>

\* A file that survives a power failure, with or without its data.
Surviving(f, torn) ==
  [entry |-> "durable",
   data |-> IF f \in torn \/ disk[f].data = "partial" THEN "partial"
            ELSE "synced",
   body |-> IF f \in torn THEN NoBody ELSE disk[f].body]

\* Whatever is not synced may or may not be there afterwards.
PowerFailure ==
  /\ failures < MaxFailures
  /\ failures' = failures + 1
  /\ calls' = [p \in Processes |-> Idle]
  /\ \E gone \in SUBSET {f \in Files : disk[f].entry = "volatile"},
        torn \in SUBSET {f \in Files : disk[f].data = "full"} :
       disk' = [f \in Files |->
         IF f \in gone \/ disk[f].entry = "absent" THEN Absent
         ELSE Surviving(f, torn)]
  /\ UNCHANGED <<clock, issued>>

SetClock ==
  /\ clock' \in Clock \ {clock}
  /\ UNCHANGED <<disk, calls, issued, failures>>

ProcessStep(p) ==
  \/ \E f \in Files : Call(p, f)
  \/ Create(p)
  \/ Deny(p)
  \/ Write(p)
  \/ SyncFile(p)
  \/ SyncDirectory(p)
  \/ Return(p)
  \/ Abandon(p)

LedgerNext ==
  \/ \E p \in Processes : ProcessStep(p)
  \/ PowerFailure
  \/ SetClock

LedgerSpec == LedgerInit /\ [][LedgerNext]_ledgerFileVars

\* finalizeIntegratedLiveDrillControlLedger over the receipts of every scope.
\* It reads and reports, and changes nothing.
Finalizable ==
  /\ ClaimStands
  /\ \A i \in Scopes :
       /\ SpendStands(i) /\ Held(Spend(i))
       /\ LaunchStands(i)
       /\ disk[Spend(i)].body.at <= disk[Launch(i)].body.at
       /\ i > 1 => /\ disk[Spend(i - 1)].body.at <= disk[Spend(i)].body.at
                   /\ disk[Launch(i - 1)].body.at <= disk[Launch(i)].body.at

-----------------------------------------------------------------------------
(* Properties. *)

\* The authorization is consumed, a scope reserved and a child launched at most
\* once each: no crash, power failure or race makes createDurableLedgerFile
\* return a second time for one file.
ConsumedAtMostOnce == \A f \in Files : Len(issued[f]) <= 1

\* What a caller was told is on disk for good, with the same content, even
\* after the power has failed.
IssuedIsDurable ==
  \A f \in Files : issued[f] # << >> =>
    /\ disk[f].entry = "durable"
    /\ disk[f].data = "synced"
    /\ disk[f].body = issued[f][1]

\* A child that was told to start finds, whatever has happened since, the files
\* of its own reservation, of the claim and of every launch and reservation
\* before it: none of them can be consumed any more.
LaunchesInOrder ==
  \A i \in Scopes : issued[Launch(i)] # << >> =>
    /\ issued[Claim] # << >>
    /\ issued[Spend(i)] # << >>
    /\ \A j \in 1..(i - 1) : disk[Launch(j)].entry # "absent"
                             /\ disk[Spend(j)].entry # "absent"

\* What consumeAuthorizationFile promises, in one formula: each file is consumed
\* once, what was handed out survives a loss of power, and a child that was
\* started stands on everything before it.
LedgerIsSafe == ConsumedAtMostOnce /\ IssuedIsDurable /\ LaunchesInOrder

Reserved[i \in 0..N] ==
  IF i = 0 THEN 0
  ELSE Reserved[i - 1] + Exposure[i] * Len(issued[Spend(i)])

\* The exposure of all the reservations ever handed out, counted as often as
\* they were handed out, stays within the authorized maximum.
ReservedWithinCap == Reserved[N] <= Cap

\* A ledger that can be finalized stays so, with the same records, as long as
\* the power does not fail: no late call changes what the receipt digests.
FinalizedIsStable ==
  [][Finalizable /\ failures' = failures =>
       Finalizable' /\ \A f \in Files : disk'[f].body = disk[f].body
    ]_ledgerFileVars
=============================================================================
