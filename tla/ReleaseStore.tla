---------------------------- MODULE ReleaseStore ----------------------------
(***************************************************************************)
(* The DynamoDB table behind a release: one EFFECT item per provider effect *)
(* and one BUDGET item for the account, written only by conditional         *)
(* requests (release-control-dynamodb-store.js).  An operation of the store *)
(* is several requests: a strong read, the conditional write, and after an  *)
(* error a strong read that decides what is reported.  The operations of    *)
(* several workflow runs interleave between the requests, a request may     *)
(* fail, its answer may be lost, and a request its caller has given up on   *)
(* may still be applied later.                                              *)
(*                                                                          *)
(* A run consumes at most once and appends at most one intent, so the run   *)
(* names the consumption (storeRequestId) and the intent (intentId) it      *)
(* creates.                                                                 *)
(***************************************************************************)
EXTENDS Integers, FiniteSets, FiniteSetsExt

CONSTANTS
  Runs,             \* workflow runs
  Approvals,        \* signed approvals: id, key, lane, prior, amount, expires
  Cap,              \* CAP_MICRO_USD
  MaxFaults,        \* bound: how many requests or answers are lost
  None

VARIABLES
  effects,          \* effects[k]: the EFFECT item of the effect k
  budget,           \* the BUDGET item: cumulative and version
  call,             \* call[r]: the store operation of r and its progress
  late,             \* writes whose caller has given up on them
  faults            \* requests and answers lost so far

storeVars == <<effects, budget, call, late, faults>>

Keys == {a.key : a \in Approvals}
Outcomes == {"CONFIRMED", "AMBIGUOUS", "FAILED_TERMINAL"}
Maybe(S) == S \cup {None}

Absent == [state |-> "ABSENT", approval |-> None, consumption |-> None,
           intent |-> None, outcome |-> None, terminalBy |-> None]
Items == [state : {"ABSENT", "CONSUMED", "INTENT", "TERMINAL"},
          approval : Maybe(Approvals), consumption : Maybe(Runs),
          intent : Maybe(Runs), outcome : Maybe(Outcomes),
          terminalBy : Maybe(Runs)]
Operations == {"consumeOnce", "appendIntent", "writeTerminal", "readStrong"}
Answers == {"CONSUMED", "REPLAY", "INTENT", "TERMINAL", "RECORD", "ERROR"}

\* A store operation: what it was asked, where it is, what it read, and the
\* status of its answer.  A consumption or an intent is presented by name.
Idle == [op |-> None, at |-> "idle", approval |-> None, consumption |-> None,
         intent |-> None, outcome |-> None, seen |-> Absent, prior |-> 0,
         version |-> 0, answer |-> None]
Calls == [op : Maybe(Operations),
          at : {"idle", "read", "budget", "write", "recover", "done"},
          approval : Maybe(Approvals), consumption : Maybe(Runs),
          intent : Maybe(Runs), outcome : Maybe(Outcomes), seen : Items,
          prior : Nat, version : Nat, answer : Maybe(Answers)]

StoreTypeOK ==
  /\ effects \in [Keys -> Items]
  /\ budget \in [cumulative : Nat, version : Nat]
  /\ call \in [Runs -> Calls]
  /\ late \subseteq [by : Runs, request : Calls]
  /\ faults \in 0..MaxFaults

StoreInit ==
  /\ effects = [k \in Keys |-> Absent]
  /\ budget = [cumulative |-> 0, version |-> 0]
  /\ call = [r \in Runs |-> Idle]
  /\ late = {}
  /\ faults = 0

-----------------------------------------------------------------------------
(* The conditional writes.                                                  *)

\* Fault: the transaction does not compare the budget with what was read.
ConsumeHoldsUncompared(c) == effects[c.approval.key] = Absent

\* consumeOnce: the budget as it was read, and no item for the effect.
ConsumeHolds(c) ==
  /\ budget = [cumulative |-> c.prior, version |-> c.version]
  /\ effects[c.approval.key] = Absent

ConsumeApplied(r, c) ==
  /\ effects' = [effects EXCEPT ![c.approval.key] =
                   [Absent EXCEPT !.state = "CONSUMED", !.approval = c.approval,
                                  !.consumption = r]]
  /\ budget' = [cumulative |-> c.prior + c.approval.amount,
                version |-> c.version + 1]

\* Fault: the update that appends the intent carries no condition on the state.
IntentHoldsAlways(c) == effects[c.approval.key].approval = c.approval

\* appendIntent: CONSUMED at version 1 with this consumption and no intent.
IntentHolds(c) ==
  /\ effects[c.approval.key].state = "CONSUMED"
  /\ effects[c.approval.key].approval = c.approval
  /\ effects[c.approval.key].consumption = c.consumption

IntentApplied(r, c) ==
  /\ effects' = [effects EXCEPT ![c.approval.key].state = "INTENT",
                                ![c.approval.key].intent = r]
  /\ UNCHANGED budget

\* writeTerminal: the state and version of the predecessor, and no terminal.
Predecessor(c, item) ==
  /\ item.approval = c.approval
  /\ item.intent = c.intent
  /\ c.intent = None => item.consumption = c.consumption

TerminalHolds(c) ==
  /\ Predecessor(c, effects[c.approval.key])
  /\ effects[c.approval.key].state = IF c.intent = None THEN "CONSUMED" ELSE "INTENT"

TerminalApplied(r, c) ==
  /\ effects' = [effects EXCEPT ![c.approval.key].state = "TERMINAL",
                                ![c.approval.key].outcome = c.outcome,
                                ![c.approval.key].terminalBy = r]
  /\ UNCHANGED budget

Holds(c) == CASE c.op = "consumeOnce"   -> ConsumeHolds(c)
              [] c.op = "appendIntent"  -> IntentHolds(c)
              [] c.op = "writeTerminal" -> TerminalHolds(c)

Applied(r, c) == CASE c.op = "consumeOnce"   -> ConsumeApplied(r, c)
                   [] c.op = "appendIntent"  -> IntentApplied(r, c)
                   [] c.op = "writeTerminal" -> TerminalApplied(r, c)

-----------------------------------------------------------------------------
(* The requests of an operation.                                            *)

Answer(r, c, status) == call' = [call EXCEPT ![r] = [c EXCEPT !.at = "done",
                                                              !.answer = status]]
Continue(r, c, at) == call' = [call EXCEPT ![r] = [c EXCEPT !.at = at]]

Fault == faults < MaxFaults /\ faults' = faults + 1

\* A read that fails is an error to the caller.
ReadFails(r) == Fault /\ Answer(r, call[r], "ERROR")

\* The item of the approval's effect belongs to this very command.
Own(c, item) == item.approval = c.approval

\* What the first strong read decides.
AfterRead(r, c) ==
  CASE c.op = "readStrong" ->
         Answer(r, c, IF Own(c, c.seen) THEN "RECORD" ELSE "ERROR")
    [] c.op = "consumeOnce" ->
         IF c.seen = Absent THEN Continue(r, c, "budget")
         ELSE Answer(r, c, IF Own(c, c.seen) THEN "REPLAY" ELSE "ERROR")
    [] c.op = "appendIntent" ->
         IF ~Own(c, c.seen) \/ c.seen.consumption # c.consumption
         THEN Answer(r, c, "ERROR")
         ELSE CASE c.seen.state = "INTENT" -> Answer(r, c, "INTENT")
                [] c.seen.state = "CONSUMED" -> Continue(r, c, "write")
                [] OTHER -> Answer(r, c, "ERROR")
    [] c.op = "writeTerminal" ->
         IF ~Predecessor(c, c.seen) THEN Answer(r, c, "ERROR")
         ELSE IF c.seen.state = "TERMINAL"
         THEN Answer(r, c, IF c.seen.terminalBy = r /\ c.seen.outcome = c.outcome
                           THEN "TERMINAL" ELSE "ERROR")
         ELSE Continue(r, c, "write")

ReadEffect(r) ==
  /\ call[r].at = "read"
  /\ \/ ReadFails(r)
     \/ /\ AfterRead(r, [call[r] EXCEPT !.seen = effects[call[r].approval.key]])
        /\ UNCHANGED faults
  /\ UNCHANGED <<effects, budget, late>>

\* The budget must be exactly what the approval was signed against.
ReadBudget(r) ==
  LET c == [call[r] EXCEPT !.prior = budget.cumulative, !.version = budget.version]
  IN  /\ call[r].at = "budget"
      /\ \/ ReadFails(r)
         \/ /\ IF /\ c.prior = c.approval.prior
                  /\ c.prior + c.approval.amount <= Cap
               THEN Continue(r, c, "write")
               ELSE Answer(r, c, "ERROR")
            /\ UNCHANGED faults
      /\ UNCHANGED <<effects, budget, late>>

Success(op) == CASE op = "consumeOnce"   -> "CONSUMED"
                 [] op = "appendIntent"  -> "INTENT"
                 [] op = "writeTerminal" -> "TERMINAL"

\* The write is applied and answered; or refused, or applied and its answer
\* lost, or lost itself or left behind in the network: in all but the first
\* case the caller goes on to the recovery read.
Write(r) ==
  /\ call[r].at = "write"
  /\ \/ /\ Holds(call[r]) /\ Applied(r, call[r])
        /\ \/ Answer(r, call[r], Success(call[r].op)) /\ UNCHANGED faults
           \/ Continue(r, call[r], "recover") /\ Fault
        /\ UNCHANGED late
     \/ /\ ~Holds(call[r]) /\ Continue(r, call[r], "recover")
        /\ UNCHANGED <<effects, budget, late, faults>>
     \/ /\ Fault /\ Continue(r, call[r], "recover")
        /\ late' \in {late, late \cup {[by |-> r, request |-> call[r]]}}
        /\ UNCHANGED <<effects, budget>>

\* A write that was given up on reaches the table.
WriteArrivesLate(w) ==
  /\ w \in late
  /\ late' = late \ {w}
  /\ IF Holds(w.request) THEN Applied(w.by, w.request)
     ELSE UNCHANGED <<effects, budget>>
  /\ UNCHANGED <<call, faults>>

\* recoverExact: only the very write that was attempted counts.
Recovered(r, c, item) ==
  /\ Own(c, item)
  /\ \/ c.op = "consumeOnce"
     \/ c.op = "appendIntent" /\ item.intent = r /\ item.state = "INTENT"
     \/ /\ c.op = "writeTerminal"
        /\ item.terminalBy = r /\ item.outcome = c.outcome /\ item.intent = c.intent

Recover(r) ==
  LET item == effects[call[r].approval.key]
  IN  /\ call[r].at = "recover"
      /\ \/ ReadFails(r)
         \/ /\ IF Recovered(r, call[r], item)
               THEN Answer(r, [call[r] EXCEPT !.seen = item],
                           IF call[r].op = "consumeOnce" THEN "REPLAY"
                           ELSE Success(call[r].op))
               ELSE Answer(r, call[r], "ERROR")
            /\ UNCHANGED faults
      /\ UNCHANGED <<effects, budget, late>>

StoreStep(r) == ReadEffect(r) \/ ReadBudget(r) \/ Write(r) \/ Recover(r)
StoreNetwork == \E w \in late : WriteArrivesLate(w)

-----------------------------------------------------------------------------
(* What the table promises.                                                 *)

Occupied == {k \in Keys : effects[k] # Absent}

\* The amounts that the effects in S journal, together.
Charged(items, S) == MapThenSumSet(LAMBDA k : items[k].approval.amount, S)

\* The budget of the account is exactly the sum of the reservations that are
\* journalled, one version for each: no lost answer, late request or race
\* between approvals makes consumeOnce charge twice or occupy an effect without
\* a charge.
BudgetMatchesTheJournal ==
  /\ budget.cumulative = Charged(effects, Occupied)
  /\ budget.version = Cardinality(Occupied)
=============================================================================
