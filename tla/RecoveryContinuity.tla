-------------------------- MODULE RecoveryContinuity --------------------------
(***************************************************************************)
(* The recovery continuity journal of                                      *)
(* src/src/cloud/integrated-live-drill-recovery-continuity.js: a directory *)
(* of create-only files, one for each of the seventeen steps of the plan,  *)
(* the intent that precedes them and the UNKNOWN disposition that ends an  *)
(* undecided call.  Several processes may run it at once, each may die at  *)
(* any point and be started again, and the clock may be set back.          *)
(*                                                                         *)
(* A file is created empty and then written, so that the others may see it *)
(* in between, and a death leaves it so.  The plan's W1 to W3 are run by   *)
(* the recovery worker, W4 and W5 by the finalizer.                        *)
(***************************************************************************)
EXTENDS Naturals, Sequences, FiniteSets

CONSTANTS Workers,     \* the processes
          MaxStarts,   \* how often a process is started in all
          MaxHour,     \* the clock's range
          Expiry       \* the last instant of the authorization

ASSUME ContinuityAssumption == MaxStarts \in Nat /\ MaxHour \in Nat

VARIABLES
  intent,      \* the intent's file
  entries,     \* the files of the steps taken, in order
  unknown,     \* the file of the UNKNOWN disposition
  hour,        \* the clock
  results,     \* the results the provider's evidence file holds: none or one
  asked,       \* how often the request went to the provider
  calls,       \* who was handed the call that follows the dispatch marker
  worker,      \* the processes
  told,        \* what each process was told last
  issuedFor,   \* what a receipt was issued for
  starts

cvars == <<intent, entries, unknown, hour, results, asked, calls, worker, told, issuedFor, starts>>
files == <<intent, entries, unknown>>
world == <<hour, results, asked, calls, issuedFor, starts>>

File == {"none", "empty", "whole"}
PlanLength == 17
Claim == 6          \* MCP_CALL_CLAIMED
Marker == 7         \* MCP_DISPATCH_MARKER_DURABLE
Result == 8         \* MCP_RESULT_AND_CLOSE_DURABLE
NoResult == 0
Nobody == "nobody"
Outcome == {"none", "COMPLETE", "UNKNOWN", "REJECTED", "AMBIGUOUS", "RECEIPT"}
PC == {"idle", "w1", "intent", "intentWrite", "read", "create", "write", "raced", "w2",
       "call", "check", "reconcile", "unknown", "unknownWrite", "inspect", "validate"}
Entry == [file : File, owner : Workers \cup {Nobody}, result : Nat, at : Nat]
Idle == [pc |-> "idle", k |-> 1, now |-> 0, result |-> NoResult]

CTypeOK ==
  /\ intent \in File /\ unknown \in File /\ hour \in 0 .. MaxHour
  /\ entries \in Seq(Entry) /\ Len(entries) <= PlanLength
  /\ results \subseteq Nat /\ Cardinality(results) <= 1 /\ asked \in Nat
  /\ calls \in Seq(Workers)
  /\ worker \in [Workers -> [pc : PC, k : 1 .. PlanLength, now : Nat, result : Nat]]
  /\ told \in [Workers -> Outcome]
  /\ issuedFor \subseteq [entries : Seq(Entry), unknown : File] /\ starts \in 0 .. MaxStarts

CInit ==
  /\ intent = "none" /\ entries = <<>> /\ unknown = "none"
  /\ hour = 0 /\ results = {} /\ asked = 0 /\ calls = <<>>
  /\ worker = [p \in Workers |-> Idle] /\ told = [p \in Workers |-> "none"]
  /\ issuedFor = {} /\ starts = 0

-----------------------------------------------------------------------------
(* A process ends with an outcome, or goes on. *)
End(p, what) == worker' = [worker EXCEPT ![p] = Idle] /\ told' = [told EXCEPT ![p] = what]
Go(p, pc) == worker' = [worker EXCEPT ![p].pc = pc] /\ UNCHANGED told
RecordStep(p, k) == worker' = [worker EXCEPT ![p].pc = "read", ![p].k = k] /\ UNCHANGED told

(* readEntries: every file listed, and the intent, must be there whole. *)
EntriesReadable == intent = "whole" /\ \A i \in DOMAIN entries : entries[i].file = "whole"
LastTime == IF entries = <<>> THEN 0 ELSE entries[Len(entries)].at
Capable == hour <= Expiry          \* assertProviderCapableContextCurrent

(* A process keeps how long the journal was, and its last time, while it   *)
(* finds out about a call.                                                 *)
Hold(p, pc) ==
  /\ worker' = [worker EXCEPT ![p].pc = pc, ![p].k = Len(entries), ![p].now = LastTime]
  /\ UNCHANGED told

(* What an unreadable journal means: W2 holds still at its first two       *)
(* steps, everybody else is refused.                                       *)
Unreadable(p) == End(p, IF worker[p].k \in {5, Claim} THEN "UNKNOWN" ELSE "AMBIGUOUS")

(* What a worker does once step k is on file. *)
Continue(p, k) ==
  CASE k = 4 -> Go(p, "w2")
    [] k = 5 -> IF Capable THEN RecordStep(p, Claim) ELSE End(p, "REJECTED")
    [] k = Marker -> IF Capable THEN Go(p, "call") ELSE End(p, "REJECTED")
    [] k = 12 -> End(p, "COMPLETE")
    [] k = 15 -> Go(p, "inspect")
    [] k = PlanLength -> Go(p, "validate")
    [] OTHER -> RecordStep(p, k + 1)

(* A step found on file: a claim is somebody else's, a result must agree.  *)
Existing(p) ==
  LET k == worker[p].k IN
  CASE k = Claim -> End(p, "UNKNOWN")
    [] k = Marker /\ entries[k].owner # p -> End(p, "AMBIGUOUS")
    [] k = Result /\ entries[k].result # worker[p].result -> End(p, "AMBIGUOUS")
    [] OTHER -> Continue(p, k)

-----------------------------------------------------------------------------
(* A process starts as the recovery worker or as the finalizer. *)
StartProcess(p) ==
  /\ worker[p].pc = "idle" /\ starts < MaxStarts
  /\ starts' = starts + 1
  /\ told' = [told EXCEPT ![p] = "none"]
  /\ \/ worker' = [worker EXCEPT ![p] = [Idle EXCEPT !.pc = "w1"]]
     \/ worker' = [worker EXCEPT ![p] = [Idle EXCEPT !.pc = "read", !.k = 13]]
  /\ UNCHANGED <<files, hour, results, asked, calls, issuedFor>>

(* W1: resume when its four steps are on file, otherwise persist the intent. *)
W1(p) ==
  /\ worker[p].pc = "w1"
  /\ CASE intent = "none" -> Go(p, "intent")
       [] intent # "none" /\ ~EntriesReadable -> End(p, "AMBIGUOUS")
       [] EntriesReadable /\ Len(entries) >= 4 -> Go(p, "w2")
       [] OTHER -> Go(p, "intent")
  /\ UNCHANGED <<files, world>>

PersistIntent(p) ==
  /\ worker[p].pc = "intent"
  /\ CASE intent = "none" -> intent' = "empty" /\ Go(p, "intentWrite")
       [] intent = "empty" -> End(p, "AMBIGUOUS") /\ UNCHANGED intent
       [] OTHER -> (IF Capable THEN RecordStep(p, 1) ELSE End(p, "REJECTED")) /\ UNCHANGED intent
  /\ UNCHANGED <<entries, unknown, world>>

WriteIntent(p) ==
  /\ worker[p].pc = "intentWrite"
  /\ intent' = "whole"
  /\ IF Capable THEN RecordStep(p, 1) ELSE End(p, "REJECTED")
  /\ UNCHANGED <<entries, unknown, world>>

(* recordStep, first half: read the journal and decide. *)
ReadStep(p) ==
  LET k == worker[p].k IN
  /\ worker[p].pc = "read"
  /\ CASE ~EntriesReadable -> Unreadable(p)
       [] EntriesReadable /\ Len(entries) >= k -> Existing(p)
       [] EntriesReadable /\ Len(entries) = k - 1 /\ hour >= LastTime ->
            /\ worker' = [worker EXCEPT ![p].pc = "create", ![p].now = hour]
            /\ UNCHANGED told
       [] OTHER -> End(p, "REJECTED")
  /\ UNCHANGED <<files, world>>

(* The entry that process p records at its step. *)
NewEntry(p) ==
  [file |-> "empty",
   owner |-> IF worker[p].k \in {Claim, Marker} THEN p ELSE Nobody,
   result |-> IF worker[p].k = Result THEN worker[p].result ELSE NoResult,
   at |-> worker[p].now]

(* Fault: a worker whose claim was taken goes on as if it were its own. *)
CreateStepShared(p) ==
  LET k == worker[p].k IN
  /\ worker[p].pc = "create"
  /\ IF Len(entries) >= k
       THEN /\ IF k \in {Claim, Marker} THEN Continue(p, k) ELSE Go(p, "raced")
            /\ UNCHANGED entries
       ELSE entries' = Append(entries, NewEntry(p)) /\ Go(p, "write")
  /\ UNCHANGED <<intent, unknown, world>>

(* recordStep, second half: the exclusive create decides a race. *)
CreateStep(p) ==
  LET k == worker[p].k IN
  /\ worker[p].pc = "create"
  /\ IF Len(entries) >= k
       THEN /\ IF k = Claim THEN End(p, "UNKNOWN") ELSE Go(p, "raced")
            /\ UNCHANGED entries
       ELSE entries' = Append(entries, NewEntry(p)) /\ Go(p, "write")
  /\ UNCHANGED <<intent, unknown, world>>

WriteStep(p) ==
  LET k == worker[p].k IN
  /\ worker[p].pc = "write"
  /\ entries' = [entries EXCEPT ![k].file = "whole"]
  /\ Continue(p, k)
  /\ UNCHANGED <<intent, unknown, world>>

(* The loser of a race reads again. *)
Raced(p) ==
  /\ worker[p].pc = "raced"
  /\ IF EntriesReadable THEN Existing(p) ELSE Unreadable(p)
  /\ UNCHANGED <<files, world>>

-----------------------------------------------------------------------------
(* Fault: the dispatch marker is taken for the result. *)
W2Hasty(p) ==
  LET n == Len(entries) IN
  /\ worker[p].pc = "w2"
  /\ CASE ~EntriesReadable -> End(p, "UNKNOWN")
       [] EntriesReadable /\ n >= Marker /\ unknown = "none" -> RecordStep(p, Result)
       [] OTHER -> IF Capable THEN RecordStep(p, 5) ELSE End(p, "REJECTED")
  /\ UNCHANGED <<files, world>>

(* W2's decision: complete, hold, reconcile or begin. *)
W2(p) ==
  LET n == Len(entries) IN
  /\ worker[p].pc = "w2"
  /\ CASE ~EntriesReadable -> End(p, "UNKNOWN")
       [] EntriesReadable /\ n < 4 -> End(p, "REJECTED")
       [] EntriesReadable /\ n >= 4 /\ unknown # "none" ->
            End(p, IF n >= Result THEN "AMBIGUOUS" ELSE "UNKNOWN")
       [] EntriesReadable /\ unknown = "none" /\ n = Marker -> Hold(p, "reconcile")
       [] EntriesReadable /\ unknown = "none" /\ n = Claim -> Hold(p, "unknown")
       [] EntriesReadable /\ unknown = "none" /\ n >= Result ->
            /\ worker' = [worker EXCEPT ![p].pc = "read", ![p].k = Result + 1,
                                    ![p].result = entries[Result].result]
            /\ UNCHANGED told
       [] OTHER -> IF Capable THEN RecordStep(p, 5) ELSE End(p, "REJECTED")
  /\ UNCHANGED <<files, world>>

(* The broker behind the call: the evidence on file is returned; otherwise, *)
(* while the authorization lasts, the request goes out, once in all, and   *)
(* its transcript is put on file - or the call fails, before or after that. *)
Answered ==
  /\ results # {} \/ Capable
  /\ asked' = IF results = {} THEN 1 ELSE asked
  /\ results' = IF results = {} THEN {asked'} ELSE results

Unanswered ==
  /\ results = {}
  /\ asked' \in {asked} \cup (IF Capable THEN {1} ELSE {})
  /\ results' \in {{}} \cup (IF Capable /\ asked' = 1 THEN {{1}} ELSE {})

(* mcpCall: on failure the journal is read again and the call is held. *)
Call(p) ==
  /\ worker[p].pc = "call"
  /\ calls' = Append(calls, p)
  /\ \/ /\ Answered /\ UNCHANGED told
        /\ worker' = [worker EXCEPT ![p].pc = "check", ![p].result = CHOOSE r \in results' : TRUE]
     \/ /\ Unanswered
        /\ IF EntriesReadable THEN Hold(p, "unknown") ELSE End(p, "AMBIGUOUS")
  /\ UNCHANGED <<files, hour, issuedFor, starts>>

(* After the call: the look for an UNKNOWN written meanwhile. *)
CheckUnknown(p) ==
  /\ worker[p].pc = "check"
  /\ CASE ~EntriesReadable -> End(p, "AMBIGUOUS")
       [] EntriesReadable /\ unknown # "none" -> End(p, "UNKNOWN")
       [] OTHER -> RecordStep(p, Result)
  /\ UNCHANGED <<files, world>>

(* A marker without a result: ask for the durable result; without one, hold. *)
Reconcile(p) ==
  /\ worker[p].pc = "reconcile"
  /\ \/ /\ Answered /\ UNCHANGED told
        /\ worker' = [worker EXCEPT ![p].pc = "read", ![p].k = Result,
                                ![p].result = CHOOSE r \in results' : TRUE]
     \/ Unanswered /\ Go(p, "unknown")
  /\ UNCHANGED <<files, hour, calls, issuedFor, starts>>

(* persistUnknownDisposition, judged by the journal as it was read. *)
PersistUnknown(p) ==
  /\ worker[p].pc = "unknown"
  /\ CASE unknown # "none" -> End(p, "UNKNOWN") /\ UNCHANGED unknown
       [] unknown = "none" /\ worker[p].k < Result /\ hour >= worker[p].now ->
            unknown' = "empty" /\ Go(p, "unknownWrite")
       [] OTHER -> End(p, "AMBIGUOUS") /\ UNCHANGED unknown
  /\ UNCHANGED <<intent, entries, world>>

WriteUnknown(p) ==
  /\ worker[p].pc = "unknownWrite"
  /\ unknown' = "whole" /\ End(p, "UNKNOWN")
  /\ UNCHANGED <<intent, entries, world>>

-----------------------------------------------------------------------------
(* W5 begins with an inspection and ends with the receipt. *)
Inspect(p) ==
  /\ worker[p].pc = "inspect"
  /\ IF EntriesReadable /\ unknown = "none" /\ Len(entries) >= Result
       THEN RecordStep(p, 16) ELSE End(p, "AMBIGUOUS")
  /\ UNCHANGED <<files, world>>

Validate(p) ==
  /\ worker[p].pc = "validate"
  /\ IF /\ EntriesReadable /\ unknown = "none" /\ Len(entries) = PlanLength
        /\ entries[Claim].owner = entries[Marker].owner
       THEN /\ End(p, "RECEIPT")
            /\ issuedFor' = issuedFor \cup {[entries |-> entries, unknown |-> unknown]}
       ELSE End(p, "AMBIGUOUS") /\ UNCHANGED issuedFor
  /\ UNCHANGED <<files, hour, results, asked, calls, starts>>

(* A process dies; what it was writing stays as it is. *)
Die(p) ==
  /\ worker[p].pc # "idle"
  /\ worker' = [worker EXCEPT ![p] = Idle] /\ told' = [told EXCEPT ![p] = "none"]
  /\ UNCHANGED <<files, world>>

Tick ==
  /\ hour' \in (0 .. MaxHour) \ {hour}
  /\ UNCHANGED <<files, results, asked, calls, worker, told, issuedFor, starts>>

CNext ==
  \/ \E p \in Workers :
       \/ StartProcess(p) \/ W1(p) \/ PersistIntent(p) \/ WriteIntent(p)
       \/ ReadStep(p) \/ CreateStep(p) \/ WriteStep(p) \/ Raced(p)
       \/ W2(p) \/ Call(p) \/ CheckUnknown(p) \/ Reconcile(p)
       \/ PersistUnknown(p) \/ WriteUnknown(p)
       \/ Inspect(p) \/ Validate(p) \/ Die(p)
  \/ Tick

CSpec == CInit /\ [][CNext]_cvars

-----------------------------------------------------------------------------
(* The call that follows the dispatch marker is made at most once, whoever *)
(* is started how often, and only by the process whose claim and whose     *)
(* marker are on file (MCP_CALL_CLAIMED, attemptOwnershipToken); and when   *)
(* inspectIntegratedLiveDrillRecoveryContinuity permits a retry, because no *)
(* claim is on file, the request was never sent, by anyone.                *)
RetryPermitted == EntriesReadable /\ unknown = "none" /\ Len(entries) < Claim
SentOnce ==
  /\ Len(calls) <= 1
  /\ \A i \in DOMAIN calls : /\ Len(entries) >= Marker
                             /\ entries[Claim].owner = calls[i]
                             /\ entries[Marker].owner = calls[i]
  /\ RetryPermitted => asked = 0 /\ calls = <<>>

(* The result on file, and the result in any process's hands, is the one   *)
(* that the provider's evidence holds; a process told COMPLETE has left    *)
(* the result and the end of W3 on file; and a journal that was given a    *)
(* receipt was complete and without an UNKNOWN on file, stays what it was, *)
(* and records a request sent exactly once.                                *)
ReceiptIsBacked ==
  /\ Len(entries) >= Result => entries[Result].result \in results
  /\ \A p \in Workers : /\ worker[p].result # NoResult => worker[p].result \in results
                        /\ told[p] = "COMPLETE" => /\ Len(entries) >= 12
                                                      /\ entries[Result].result \in results
  /\ \A r \in issuedFor :
       /\ r.entries = entries /\ Len(entries) = PlanLength /\ r.unknown = "none" /\ asked = 1
       /\ \A i \in DOMAIN entries : entries[i].file = "whole"
       /\ entries[Claim].owner = entries[Marker].owner
=============================================================================
