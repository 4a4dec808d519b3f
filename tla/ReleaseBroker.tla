---------------------------- MODULE ReleaseBroker ----------------------------
(***************************************************************************)
(* The workflow runs of a release (release-provider-one-shot-broker.js and  *)
(* the phase scripts that call it), around the table of ReleaseStore:       *)
(*                                                                          *)
(*   reserve     consumes the approval, appends the intent, publishes a     *)
(*               lookup of it;                                              *)
(*   dispatch    strongly reads the intent, twice, and makes the provider's *)
(*               mutating calls with the intent as idempotency token;       *)
(*   finalize    reads the provider back on its own and writes the terminal *)
(*               record;                                                    *)
(*   terminalize writes the terminal record of an expired approval;         *)
(*   single      does all of it in one process (runProviderOneShotBroker).  *)
(*                                                                          *)
(* The provider's effect has two mutations that matter: the first and the   *)
(* last (upload and CreateChangeSet; ExecuteChangeSet and termination       *)
(* protection).  A readback confirms only the last.                         *)
(***************************************************************************)
EXTENDS ReleaseStore

CONSTANTS
  Job,              \* Job[r]: the phase that r runs
  ApprovalOf,       \* ApprovalOf[r]: the approval it was given
  Reserve,          \* TEARDOWN_BUDGET_RESERVE_USD
  Age,              \* how long a run's authority receipts are fresh
  MaxTime           \* bound: the last instant

VARIABLES
  now,
  run,              \* run[r]: where the run is, since when, and its intent
  lookups,          \* the intents published by reserve runs
  provider,         \* external: provider[k]: tokens used and mutations made
  report            \* report[r]: the status of the run's receipt

brokerVars == <<now, run, lookups, provider, report>>
releaseVars == <<storeVars, brokerVars>>

Reports == {"INTENT_RECORDED", "INTENT_ALREADY_RECORDED", "CONFIRMED",
            "TERMINAL_FAILURE", "UNKNOWN_DO_NOT_ACT", "REJECTED", "DISPATCH_OBSERVED"}

ASSUME ReleaseAssumption ==
  /\ Job \in [Runs -> {"reserve", "dispatch", "finalize", "terminalize", "single"}]
  /\ ApprovalOf \in [Runs -> Approvals]
  /\ \A a \in Approvals : a.amount \in Nat
  /\ Cap \in Nat /\ Reserve \in 0..Cap /\ Age \in Nat /\ MaxTime \in Nat
  /\ MaxFaults \in Nat
  /\ None \notin Runs /\ None \notin Approvals
  /\ None \notin Outcomes \cup Answers \cup Reports

\* An approval is spent by one single-process run or by the phases, never by
\* both: the shipped scripts call the phases only, and runProviderOneShotBroker
\* is called by tests alone.  A terminalizer goes with either.
ASSUME OneBrokerAssumption ==
  \A r, s \in Runs :
    /\ Job[r] = "single" /\ Job[s] \in {"reserve", "dispatch", "finalize"}
    => ApprovalOf[r] # ApprovalOf[s]

ReleaseTypeOK ==
  /\ StoreTypeOK
  /\ now \in 0..MaxTime
  /\ run \in [Runs -> [at : {"idle", "consume", "replayed", "recovered", "append",
                             "confirm", "intent", "permit", "first", "last",
                             "readback", "finalize", "settle", "expired",
                             "ended"},
                       since : 0..MaxTime, intent : Maybe(Runs)]]
  /\ lookups \subseteq [approval : Approvals, intent : Runs]
  /\ provider \in [Keys -> [tokens : SUBSET Runs, done : 0..2]]
  /\ report \in [Runs -> Maybe(Reports)]

ReleaseInit ==
  /\ StoreInit
  /\ now = 0
  /\ run = [r \in Runs |-> [at |-> "idle", since |-> 0, intent |-> None]]
  /\ lookups = {}
  /\ provider = [k \in Keys |-> [tokens |-> {}, done |-> 0]]
  /\ report = [r \in Runs |-> None]

-----------------------------------------------------------------------------
(* Approval and authority.                                                  *)

\* validateBudget: every lane but the teardown leaves the reserve alone.
BudgetValid(a) ==
  /\ a.prior + a.amount <= Cap
  /\ IF a.lane = "TEARDOWN" THEN a.amount <= Reserve
     ELSE a.prior + a.amount <= Cap - Reserve

ApprovalOfJob(r) ==
  LET a == ApprovalOf[r]
  IN  /\ BudgetValid(a)
      /\ Job[r] = "single" => a.lane # "PREPARE"

AuthorityFresh(r) == now - run[r].since <= Age

\* validateFreshPhaseBoundary, around every request.
Fresh(r) == now < ApprovalOf[r].expires /\ AuthorityFresh(r)

\* runProviderOneShotBroker samples the clock once, at its start.
SingleFresh(r) == run[r].since < ApprovalOf[r].expires

\* validateFreshTerminalizerBoundary.
Due(r) == now >= ApprovalOf[r].expires /\ AuthorityFresh(r)

-----------------------------------------------------------------------------

At(r, at) == run[r].at = at
Goto(r, at) == run' = [run EXCEPT ![r].at = at]
End(r, status) ==
  /\ run' = [run EXCEPT ![r].at = "ended"]
  /\ report' = [report EXCEPT ![r] = status]
  /\ UNCHANGED <<now, lookups, provider>>

Ask(r, op, consumption, intent, outcome) ==
  call' = [call EXCEPT ![r] = [Idle EXCEPT
             !.op = op, !.at = "read", !.approval = ApprovalOf[r],
             !.consumption = consumption, !.intent = intent, !.outcome = outcome]]
AskRead(r) == Ask(r, "readStrong", None, None, None)
Answered(r) == call[r].at = "done"
Status(r) == call[r].answer
Seen(r) == call[r].seen
Forget(r) == call' = [call EXCEPT ![r] = Idle]
tableUnchanged == UNCHANGED <<effects, budget, late, faults>>
brokerRest == UNCHANGED <<now, lookups, provider, report>>

\* phaseStatusForOutcome.
ReportOf(outcome) == CASE outcome = "CONFIRMED"       -> "CONFIRMED"
                       [] outcome = "FAILED_TERMINAL" -> "TERMINAL_FAILURE"
                       [] outcome = "AMBIGUOUS"       -> "UNKNOWN_DO_NOT_ACT"

\* Time passes; a run that dies simply takes no further step.
Tick == /\ now < MaxTime
        /\ now' = now + 1
        /\ UNCHANGED <<storeVars, run, lookups, provider, report>>

-----------------------------------------------------------------------------
(* reserveProviderOneShotIntent, and the start of the single-process broker. *)

StartConsume(r) ==
  /\ Job[r] \in {"reserve", "single"} /\ At(r, "idle")
  /\ ApprovalOfJob(r) /\ now < ApprovalOf[r].expires
  /\ run' = [run EXCEPT ![r].at = "consume", ![r].since = now]
  /\ Ask(r, "consumeOnce", None, None, None)
  /\ brokerRest /\ tableUnchanged

\* An expired run reports UNKNOWN_DO_NOT_ACT, whatever the store answered.
ReserveExpires(r) ==
  /\ Job[r] = "reserve" /\ Answered(r) /\ ~Fresh(r)
  /\ run[r].at \in {"consume", "replayed", "recovered", "append", "confirm"}
  /\ Forget(r) /\ End(r, "UNKNOWN_DO_NOT_ACT") /\ tableUnchanged

MayGoOn(r) == IF Job[r] = "reserve" THEN Fresh(r) ELSE SingleFresh(r)

ConsumedFirst(r) ==
  /\ At(r, "consume") /\ Status(r) = "CONSUMED" /\ MayGoOn(r)
  /\ Goto(r, "append") /\ Ask(r, "appendIntent", r, None, None)
  /\ brokerRest /\ tableUnchanged

\* A REPLAY, also of this run's own ambiguous write, is read again.
ConsumedBefore(r) ==
  /\ At(r, "consume") /\ Status(r) = "REPLAY" /\ MayGoOn(r)
  /\ Goto(r, "replayed") /\ AskRead(r)
  /\ brokerRest /\ tableUnchanged

\* The phased broker reads the record of a failed consumption; the single one
\* stops.
ConsumeFailed(r) ==
  /\ At(r, "consume") /\ Status(r) = "ERROR" /\ MayGoOn(r)
  /\ IF Job[r] = "reserve"
     THEN Goto(r, "recovered") /\ AskRead(r) /\ brokerRest
     ELSE Forget(r) /\ End(r, "UNKNOWN_DO_NOT_ACT")
  /\ tableUnchanged

\* The lookup of the record's intent is published; by a PREPARE run only while
\* the record is an INTENT.  A lookup without an intent serves no run.
LookupOf(r) ==
  IF Seen(r).intent = None \/ (Seen(r).state = "TERMINAL" /\ ApprovalOf[r].lane = "PREPARE")
  THEN {} ELSE {[approval |-> ApprovalOf[r], intent |-> Seen(r).intent]}

\* The receipt of a terminal record carries its outcome.
ReportRecord(r) ==
  /\ run' = [run EXCEPT ![r].at = "ended"]
  /\ report' = [report EXCEPT ![r] = IF Seen(r).state = "TERMINAL"
                                     THEN ReportOf(Seen(r).outcome)
                                     ELSE "INTENT_ALREADY_RECORDED"]
  /\ lookups' = lookups \cup LookupOf(r)
  /\ UNCHANGED <<now, provider>>

\* After a failed consumption a CONSUMED record, whoever wrote it, lets the
\* run append; after a REPLAY the store refuses to append.
ReserveReadsRecord(r) ==
  /\ Job[r] = "reserve" /\ Answered(r) /\ Fresh(r)
  /\ run[r].at \in {"replayed", "recovered"}
  /\ CASE Status(r) = "ERROR" ->
            /\ Forget(r)
            /\ End(r, IF At(r, "recovered") THEN "UNKNOWN_DO_NOT_ACT" ELSE "REJECTED")
       [] Status(r) = "RECORD" /\ Seen(r).state # "CONSUMED" ->
            Forget(r) /\ ReportRecord(r)
       [] Status(r) = "RECORD" /\ Seen(r).state = "CONSUMED" /\ At(r, "recovered") ->
            /\ Goto(r, "append") /\ brokerRest
            /\ Ask(r, "appendIntent", Seen(r).consumption, None, None)
       [] Status(r) = "RECORD" /\ Seen(r).state = "CONSUMED" /\ At(r, "replayed") ->
            Goto(r, "confirm") /\ AskRead(r) /\ brokerRest
  /\ tableUnchanged

\* recoverReplay: the single-process broker reports and never dispatches.
SingleReadsReplay(r) ==
  /\ Job[r] = "single" /\ At(r, "replayed") /\ Answered(r)
  /\ Forget(r)
  /\ IF Status(r) = "RECORD" /\ Seen(r).state = "TERMINAL"
     THEN End(r, ReportOf(Seen(r).outcome))
     ELSE End(r, "UNKNOWN_DO_NOT_ACT")
  /\ tableUnchanged

IntentOf(r) == IF call[r].seen.intent # None THEN call[r].seen.intent ELSE r

\* The intent was appended, or found: appendIntent returns the stored one.
IntentKnown(r) ==
  /\ \/ At(r, "append") /\ Status(r) = "INTENT"
     \/ At(r, "confirm") /\ Status(r) = "RECORD" /\ Seen(r).state = "INTENT"
  /\ MayGoOn(r) /\ Forget(r)
  /\ IF Job[r] = "reserve"
     THEN /\ run' = [run EXCEPT ![r].at = "ended"]
          /\ report' = [report EXCEPT ![r] = "INTENT_RECORDED"]
          /\ lookups' = lookups \cup {[approval |-> ApprovalOf[r],
                                       intent |-> IntentOf(r)]}
          /\ UNCHANGED <<now, provider>>
     ELSE /\ run' = [run EXCEPT ![r].at = "first", ![r].intent = IntentOf(r)]
          /\ brokerRest
  /\ tableUnchanged

AppendFailed(r) ==
  /\ At(r, "append") /\ Status(r) = "ERROR" /\ MayGoOn(r)
  /\ IF Job[r] = "reserve" THEN Goto(r, "confirm") /\ AskRead(r) /\ brokerRest
     ELSE Forget(r) /\ End(r, "UNKNOWN_DO_NOT_ACT")
  /\ tableUnchanged

IntentNotConfirmed(r) ==
  /\ At(r, "confirm") /\ Answered(r) /\ Fresh(r)
  /\ Status(r) = "RECORD" => Seen(r).state # "INTENT"
  /\ Forget(r) /\ End(r, "UNKNOWN_DO_NOT_ACT") /\ tableUnchanged

-----------------------------------------------------------------------------
(* dispatchReservedProviderOneShotIntent: two strong reads of the intent,    *)
(* then the provider's calls.                                                *)

StartWithLookup(r) ==
  /\ Job[r] \in {"dispatch", "finalize"} /\ At(r, "idle")
  /\ ApprovalOfJob(r) /\ now < ApprovalOf[r].expires
  /\ \E l \in lookups :
       /\ l.approval = ApprovalOf[r]
       /\ run' = [run EXCEPT ![r] = [at |-> "intent", since |-> now,
                                     intent |-> l.intent]]
  /\ AskRead(r) /\ brokerRest /\ tableUnchanged

\* The record must be this INTENT, at both reads; anything else ends the run.
DispatchReads(r) ==
  /\ Job[r] = "dispatch" /\ Answered(r) /\ run[r].at \in {"intent", "permit"}
  /\ IF /\ Fresh(r) /\ Status(r) = "RECORD"
        /\ Seen(r).state = "INTENT" /\ Seen(r).intent = run[r].intent
     THEN IF At(r, "intent") THEN Goto(r, "permit") /\ AskRead(r) /\ brokerRest
          ELSE Goto(r, "first") /\ Forget(r) /\ brokerRest
     ELSE Forget(r) /\ End(r, IF Fresh(r) THEN "REJECTED" ELSE "UNKNOWN_DO_NOT_ACT")
  /\ tableUnchanged

\* External: the provider accepts a call once per token and only for a change
\* set that no other token has used.
Mutate(r, done) ==
  LET k == ApprovalOf[r].key
  IN  /\ provider[k].tokens \subseteq {run[r].intent}
      /\ provider' = [provider EXCEPT ![k] =
                        [tokens |-> @.tokens \cup {run[r].intent},
                         done |-> IF @.done < done THEN done ELSE @.done]]

\* The mutations in order.  The authority is checked before each call is made,
\* not when the provider carries it out; a call may fail without an effect, or
\* have one and not be acknowledged.
DispatchFirst(r) ==
  /\ At(r, "first")
  /\ Mutate(r, 1)
  /\ Goto(r, IF Job[r] = "dispatch" => AuthorityFresh(r) THEN "last" ELSE "ended")
  /\ UNCHANGED <<storeVars, now, lookups, report>>

DispatchLast(r) ==
  /\ At(r, "last")
  /\ Mutate(r, 2)
  /\ IF Job[r] = "single" THEN Goto(r, "readback") /\ UNCHANGED report
     ELSE /\ run' = [run EXCEPT ![r].at = "ended"]
          /\ report' = [report EXCEPT ![r] = "UNKNOWN_DO_NOT_ACT"]
  /\ UNCHANGED <<storeVars, now, lookups>>

\* A dispatch run stops with DISPATCH_OUTCOME_UNKNOWN and writes nothing; an
\* EXECUTE run whose preflight fails before the first mutation has observed
\* that nothing was attempted, while its authority is fresh.
DispatchStops(r) ==
  /\ Job[r] = "dispatch" /\ run[r].at \in {"first", "last"}
  /\ \/ End(r, "UNKNOWN_DO_NOT_ACT")
     \/ /\ At(r, "first") /\ ApprovalOf[r].lane = "EXECUTE" /\ Fresh(r)
        /\ End(r, "DISPATCH_OBSERVED")
  /\ UNCHANGED storeVars

-----------------------------------------------------------------------------
(* Terminal records.                                                         *)

AskTerminal(r, outcome) ==
  /\ Ask(r, "writeTerminal", None, run[r].intent, outcome)
  /\ brokerRest /\ tableUnchanged

\* The single-process broker finalizes with what its dispatcher told it: not
\* attempted, acknowledged, or unknown.
SingleOutcome(r) ==
  /\ Job[r] = "single" /\ run[r].at \in {"first", "last", "readback"}
  /\ Goto(r, "finalize")
  /\ \/ At(r, "first") /\ AskTerminal(r, "FAILED_TERMINAL")
     \/ At(r, "readback") /\ AskTerminal(r, "CONFIRMED")
     \/ AskTerminal(r, "AMBIGUOUS")

SingleFinalized(r) ==
  /\ Job[r] = "single" /\ run[r].at \in {"finalize", "settle"} /\ Answered(r)
  /\ CASE Status(r) = "TERMINAL" -> Forget(r) /\ End(r, ReportOf(call[r].outcome))
       [] Status(r) = "ERROR" /\ At(r, "finalize") /\ call[r].outcome # "AMBIGUOUS" ->
            /\ Goto(r, "settle") /\ brokerRest
            /\ Ask(r, "writeTerminal", None, run[r].intent, "AMBIGUOUS")
       [] OTHER -> Forget(r) /\ End(r, "UNKNOWN_DO_NOT_ACT")
  /\ tableUnchanged

\* finalizeProviderOneShotIntent: the record, then the independent readback.
FinalizeReads(r) ==
  /\ Job[r] = "finalize" /\ At(r, "intent") /\ Answered(r)
  /\ Forget(r)
  /\ CASE ~Fresh(r) -> End(r, "UNKNOWN_DO_NOT_ACT")
       [] Fresh(r) /\ Status(r) = "RECORD" /\ Seen(r).intent = run[r].intent ->
            IF Seen(r).state = "TERMINAL" THEN End(r, ReportOf(Seen(r).outcome))
            ELSE Goto(r, "readback") /\ brokerRest
       [] OTHER -> End(r, "REJECTED")
  /\ tableUnchanged

\* Fault: a stack that is not there yet is read back as not applied.
ReadbacksNegative(r) ==
  IF provider[ApprovalOf[r].key].done = 2 THEN {"CONFIRMED", "AMBIGUOUS"}
  ELSE {"FAILED_TERMINAL", "AMBIGUOUS"}

\* A readback that is not the whole effect under this token is UNKNOWN; so is
\* one that fails.  It never says that nothing was applied.
Readbacks(r) ==
  {"AMBIGUOUS"} \cup
  IF provider[ApprovalOf[r].key] = [tokens |-> {run[r].intent}, done |-> 2]
  THEN {"CONFIRMED"} ELSE {}

Readback(r) ==
  /\ Job[r] = "finalize" /\ At(r, "readback")
  /\ IF Fresh(r)
     THEN \E outcome \in Readbacks(r) : Goto(r, "finalize") /\ AskTerminal(r, outcome)
     ELSE End(r, "UNKNOWN_DO_NOT_ACT") /\ UNCHANGED storeVars

\* An unacknowledged terminal record is read back and reported as it stands.
Finalized(r) ==
  /\ Job[r] = "finalize" /\ run[r].at \in {"finalize", "settle"} /\ Answered(r)
  /\ CASE At(r, "finalize") /\ Status(r) = "TERMINAL" ->
            Forget(r) /\ End(r, ReportOf(call[r].outcome))
       [] At(r, "finalize") /\ Status(r) # "TERMINAL" /\ Fresh(r) ->
            Goto(r, "settle") /\ AskRead(r) /\ brokerRest
       [] /\ At(r, "settle") /\ Fresh(r)
          /\ Status(r) = "RECORD" /\ Seen(r).state = "TERMINAL" ->
            Forget(r) /\ End(r, ReportOf(Seen(r).outcome))
       [] OTHER -> Forget(r) /\ End(r, "UNKNOWN_DO_NOT_ACT")
  /\ tableUnchanged

\* terminalizeExpiredProviderOneShotBroker.
StartTerminalize(r) ==
  /\ Job[r] = "terminalize" /\ At(r, "idle") /\ ApprovalOfJob(r)
  /\ now >= ApprovalOf[r].expires
  /\ run' = [run EXCEPT ![r].at = "expired", ![r].since = now]
  /\ AskRead(r) /\ brokerRest /\ tableUnchanged

TerminalizeReads(r) ==
  /\ Job[r] = "terminalize" /\ At(r, "expired") /\ Answered(r)
  /\ IF Due(r) /\ Status(r) = "RECORD"
     THEN IF Seen(r).state = "TERMINAL"
          THEN Forget(r) /\ End(r, ReportOf(Seen(r).outcome))
          ELSE /\ run' = [run EXCEPT ![r].at = "settle", ![r].intent = Seen(r).intent]
               /\ Ask(r, "writeTerminal", Seen(r).consumption, Seen(r).intent,
                      IF Seen(r).state = "INTENT" THEN "AMBIGUOUS"
                      ELSE "FAILED_TERMINAL")
               /\ brokerRest
     ELSE Forget(r) /\ End(r, "REJECTED")
  /\ tableUnchanged

Terminalized(r) ==
  /\ Job[r] = "terminalize" /\ At(r, "settle") /\ Answered(r)
  /\ Forget(r)
  /\ End(r, IF Status(r) = "TERMINAL" THEN ReportOf(call[r].outcome) ELSE "REJECTED")
  /\ tableUnchanged

-----------------------------------------------------------------------------

ReserveSteps(r) == \/ StartConsume(r) \/ ReserveExpires(r) \/ ConsumedFirst(r)
                   \/ ConsumedBefore(r) \/ ConsumeFailed(r) \/ ReserveReadsRecord(r)
                   \/ SingleReadsReplay(r) \/ IntentKnown(r) \/ AppendFailed(r)
                   \/ IntentNotConfirmed(r)
DispatchSteps(r) == \/ StartWithLookup(r) \/ DispatchReads(r) \/ DispatchFirst(r)
                    \/ DispatchLast(r) \/ DispatchStops(r)
TerminalSteps(r) == \/ SingleOutcome(r) \/ SingleFinalized(r) \/ FinalizeReads(r)
                    \/ Readback(r) \/ Finalized(r) \/ StartTerminalize(r)
                    \/ TerminalizeReads(r) \/ Terminalized(r)

ReleaseNext ==
  \/ \E r \in Runs : \/ ReserveSteps(r) \/ DispatchSteps(r) \/ TerminalSteps(r)
                     \/ StoreStep(r) /\ UNCHANGED brokerVars
  \/ StoreNetwork /\ UNCHANGED brokerVars
  \/ Tick

ReleaseSpec == ReleaseInit /\ [][ReleaseNext]_releaseVars

-----------------------------------------------------------------------------
(* Properties.                                                              *)

\* Whatever reaches the provider carries the intent that is durable for its
\* effect, and no other: the idempotency token makes two dispatches of one
\* intent one effect, and no second approval or run brings a second token.
OneTokenPerEffect ==
  \A k \in Keys :
    /\ provider[k].tokens # {} => provider[k].tokens = {effects[k].intent}
    /\ \A r \in Runs : /\ ApprovalOf[r].key = k
                       /\ run[r].at \in {"first", "last"}
                       => effects[k].intent = run[r].intent

\* A terminal record is true of the provider: CONFIRMED only when the whole
\* effect is there, FAILED_TERMINAL only when nothing was applied, and, the
\* invariant holding in all later states too, nothing ever will be.
TerminalRecordIsTrue ==
  \A k \in Keys :
    /\ effects[k].outcome = "CONFIRMED" => provider[k].done = 2
    /\ effects[k].outcome = "FAILED_TERMINAL" => provider[k].done = 0

\* ... and a receipt that says CONFIRMED or TERMINAL_FAILURE repeats that record,
\* so no two runs ever publish contradicting receipts, whatever was lost on the
\* way and whichever phase or terminalizer wrote the record.
ReceiptsAreTrue ==
  /\ TerminalRecordIsTrue
  /\ \A r \in Runs :
       LET outcome == effects[ApprovalOf[r].key].outcome
       IN  /\ report[r] = "CONFIRMED" => outcome = "CONFIRMED"
           /\ report[r] = "TERMINAL_FAILURE" => outcome = "FAILED_TERMINAL"

\* The account never exceeds the cap, and until a teardown has been charged it
\* keeps the reserve that a teardown may cost, whatever approvals are consumed
\* before it and whichever write arrives late.
ReserveIsKept ==
  /\ budget.cumulative <= Cap
  /\ (\A k \in Occupied : effects[k].approval.lane # "TEARDOWN") =>
       budget.cumulative + Reserve <= Cap

\* The budget is the sum of what is journalled, and keeps the reserve.
BudgetIsKept == BudgetMatchesTheJournal /\ ReserveIsKept
=============================================================================
