---------------------------- MODULE PrivateQuery ----------------------------
(***************************************************************************)
(* The private recovery query, asked once for an operation                 *)
(* (src/cloud/private-recovery-query*.js, lambda/private-recovery-query.js, *)
(* scripts/run-private-recovery-query.js): an operator run reserves the     *)
(* operation in the release-control table and invokes one version of the   *)
(* function; the invocation marks its dispatch, asks managed-mcp and        *)
(* records how it ended.  Updates of the item are conditional, their        *)
(* answers may be lost, and an update whose caller gave up may be applied  *)
(* later.                                                                   *)
(*                                                                         *)
(* The table holds the item of the one operation.  A command differs from  *)
(* another of the same operation in the function version.  A dispatch and a *)
(* receipt name the invocation, as their lambdaRequestIdSha256 does; the     *)
(* version of the item follows its status.                                 *)
(***************************************************************************)
EXTENDS Naturals, FiniteSets

CONSTANTS
  QueryRuns,        \* operator runs; each invokes the function at most once
  CommandOf,        \* CommandOf[r]: the command a run builds
  NoRun,
  MaxQueryFaults    \* lost answers, failed reads and deaths

ASSUME QueryAssumption == NoRun \notin QueryRuns

VARIABLES
  record,           \* the item
  delayed,          \* updates that may still be applied
  operator,         \* operator[r]
  function,         \* function[r]: the invocation of run r
  asked,            \* asked[r]: queries the invocation sent to managed-mcp
  valid,            \* invocations that got the one signed row they expect
  told,             \* told[r]: what the run published
  mishaps

queryVars == <<record, delayed, operator, function, asked, valid, told, mishaps>>

NoReceipt == [status |-> "none", by |-> NoRun]
Receipt(status, r) == [status |-> status, by |-> r]
Entry(status, command, dispatch, receipt) ==
  [status |-> status, command |-> command, dispatch |-> dispatch, receipt |-> receipt]
NoEntry == Entry("ABSENT", "none", NoRun, NoReceipt)
Terminal == {"FINAL", "FAILED", "UNKNOWN"}

QueryInit ==
  /\ record = NoEntry
  /\ delayed = {}
  /\ operator = [r \in QueryRuns |-> [at |-> "idle", reread |-> FALSE, sent |-> FALSE]]
  /\ function = [r \in QueryRuns |-> [at |-> "idle", reread |-> FALSE, seen |-> NoRun, reply |-> NoReceipt]]
  /\ asked = [r \in QueryRuns |-> 0]
  /\ valid = {}
  /\ told = [r \in QueryRuns |-> NoReceipt]
  /\ mishaps = 0

-----------------------------------------------------------------------------
(* The store *)

\* decodeItem: another command under the operation's key is a conflict.
Decodes(r) == record.status # "ABSENT" /\ record.command = CommandOf[r]

\* The condition of an update: status, command and, once there is one,
\* the dispatch.
ConditionHolds(w) ==
  /\ record.status = w.from
  /\ w.from # "ABSENT" => record.command = w.new.command
  /\ w.from = "DISPATCHING" => record.dispatch = w.dispatch

Ending(status) ==
  CASE status = "PASS" -> "FINAL"
    [] status = "FAILED_NO_PROVIDER_CALL" -> "FAILED"
    [] status = "UNKNOWN_DO_NOT_RETRY" -> "UNKNOWN"

\* The dispatch is removed when the receipt is set.
TerminalUpdate(r, from, dispatch, status) ==
  [from |-> from, dispatch |-> dispatch,
   new |-> Entry(Ending(status), CommandOf[r], NoRun, Receipt(status, r))]

Reservation(r) ==
  [from |-> "ABSENT", dispatch |-> NoRun,
   new |-> Entry("RESERVED", CommandOf[r], NoRun, NoReceipt)]

MarkDispatch(r) ==
  [from |-> "RESERVED", dispatch |-> NoRun,
   new |-> Entry("DISPATCHING", CommandOf[r], r, NoReceipt)]

\* The update each step of an invocation sends.
UpdateOf(r) ==
  CASE function[r].at = "mark" -> MarkDispatch(r)
    [] function[r].at = "finalize" -> TerminalUpdate(r, "DISPATCHING", r, "PASS")
    [] function[r].at = "fail" -> TerminalUpdate(r, "RESERVED", NoRun, "FAILED_NO_PROVIDER_CALL")
    [] function[r].at = "settle" -> TerminalUpdate(r, "DISPATCHING", function[r].seen, "UNKNOWN_DO_NOT_RETRY")

Mishap == mishaps < MaxQueryFaults /\ mishaps' = mishaps + 1

\* apply, first half: the update is answered, refused by its condition, or
\* unanswered.
UpdateApplied(w) == ConditionHolds(w) /\ record' = w.new /\ UNCHANGED <<delayed, mishaps>>
Refused(w) == ~ConditionHolds(w) /\ UNCHANGED <<record, delayed, mishaps>>
Unanswered(w) ==
  /\ Mishap
  /\ \/ ConditionHolds(w) /\ record' = w.new /\ UNCHANGED delayed
     \/ delayed' = delayed \cup {w} /\ UNCHANGED record

LandsLate ==
  \E w \in delayed :
    /\ delayed' = delayed \ {w}
    /\ record' = IF ConditionHolds(w) THEN w.new ELSE record
    /\ UNCHANGED <<operator, function, asked, valid, told, mishaps>>

\* Fault: any dispatch of the operation is taken for the invocation's own.
AnyDispatch(r) ==
  Decodes(r) /\ record.status = UpdateOf(r).new.status /\ record.receipt = UpdateOf(r).new.receipt

\* apply, second half: what the strong read after a failed update must show.
Reconciled(r) == Decodes(r) /\ record = UpdateOf(r).new

-----------------------------------------------------------------------------
(* runPrivateRecoveryQuery *)

FnAt(r, step) == function[r].at = step
FnGoes(r, step) == function' = [function EXCEPT ![r].at = step, ![r].reread = FALSE]
FnEnds(r, receipt) ==
  function' = [function EXCEPT ![r].at = "ended", ![r].reread = FALSE, ![r].reply = receipt]
FnThrows(r) == FnEnds(r, NoReceipt)
storeRest == UNCHANGED <<record, delayed>>
fnRest == UNCHANGED <<operator, asked, valid, told>>

\* The request reaches the function, at once or after its caller gave up; an
\* approval outside its window is refused before the store is looked at.
Invoked(r) ==
  /\ FnAt(r, "idle") /\ operator[r].sent
  /\ FnGoes(r, "read") \/ FnThrows(r)
  /\ storeRest /\ fnRest /\ UNCHANGED mishaps

\* The stored receipt is returned; nothing but a reservation is gone on with,
\* and the secret and the rendered request are checked first.
ReadState(r) ==
  /\ FnAt(r, "read")
  /\ \/ Mishap /\ FnGoes(r, "fail")
     \/ /\ UNCHANGED mishaps
        /\ IF Decodes(r) /\ record.status \in Terminal THEN FnEnds(r, record.receipt)
           ELSE \/ Decodes(r) /\ record.status = "RESERVED" /\ FnGoes(r, "mark")
                \/ FnGoes(r, "fail")
  /\ storeRest /\ fnRest

Accepted(r) ==
  CASE FnAt(r, "mark") -> FnGoes(r, "call")
    [] FnAt(r, "finalize") -> FnEnds(r, Receipt("PASS", r))
    [] FnAt(r, "fail") -> FnEnds(r, Receipt("FAILED_NO_PROVIDER_CALL", r))
    [] FnAt(r, "settle") -> FnEnds(r, Receipt("UNKNOWN_DO_NOT_RETRY", r))

\* The catch clause: before the dispatch is confirmed the operation has
\* failed, after it its outcome is unknown; an error in the clause itself
\* leaves the function.
Throws(r) ==
  CASE FnAt(r, "mark") -> FnGoes(r, "fail")
    [] FnAt(r, "finalize") -> FnGoes(r, "unknown")
    [] OTHER -> FnThrows(r)

FnUpdate(r) ==
  /\ function[r].at \in {"mark", "finalize", "fail", "settle"} /\ ~function[r].reread
  /\ \/ UpdateApplied(UpdateOf(r)) /\ Accepted(r)
     \/ /\ Refused(UpdateOf(r)) \/ Unanswered(UpdateOf(r))
        /\ function' = [function EXCEPT ![r].reread = TRUE]
  /\ fnRest

FnReread(r) ==
  /\ function[r].reread
  /\ \/ Mishap /\ Throws(r)
     \/ UNCHANGED mishaps /\ IF Reconciled(r) THEN Accepted(r) ELSE Throws(r)
  /\ storeRest /\ fnRest

\* selectQuery: it fails before tools/call, or after it, or its answer is not
\* the one signed row that was approved.
SelectQuery(r) ==
  /\ FnAt(r, "call")
  /\ \/ FnGoes(r, "unknown") /\ UNCHANGED <<asked, valid>>
     \/ /\ asked' = [asked EXCEPT ![r] = @ + 1]
        /\ \/ FnGoes(r, "finalize") /\ valid' = valid \cup {r}
           \/ FnGoes(r, "unknown") /\ UNCHANGED valid
  /\ storeRest /\ UNCHANGED <<operator, told, mishaps>>

\* markUnknown looks before it writes: a receipt that is there is returned.
MarkUnknown(r) ==
  /\ FnAt(r, "unknown")
  /\ \/ Mishap /\ FnThrows(r)
     \/ /\ UNCHANGED mishaps
        /\ CASE Decodes(r) /\ record.status \in Terminal -> FnEnds(r, record.receipt)
             [] Decodes(r) /\ record.status = "DISPATCHING" ->
                  function' = [function EXCEPT ![r].at = "settle", ![r].seen = record.dispatch]
             [] OTHER -> FnThrows(r)
  /\ storeRest /\ fnRest

-----------------------------------------------------------------------------
(* executePrivateRecoveryQueryOnce and reconcilePrivateRecoveryQuery *)

RunAt(r, step) == operator[r].at = step
OpGoes(r, step) ==
  operator' = [operator EXCEPT ![r].at = step, ![r].reread = FALSE] /\ UNCHANGED told
Sends(r) ==
  operator' = [operator EXCEPT ![r] = [at |-> "wait", reread |-> FALSE, sent |-> TRUE]] /\ UNCHANGED told
Tells(r, what) ==
  /\ operator' = [operator EXCEPT ![r].at = "ended", ![r].reread = FALSE]
  /\ told' = [told EXCEPT ![r] = what]
Stops(r) == OpGoes(r, "ended")
opRest == UNCHANGED <<function, asked, valid>>

StartOperator(r) ==
  /\ RunAt(r, "idle")
  /\ OpGoes(r, "reserve") \/ OpGoes(r, "lookup")
  /\ storeRest /\ opRest /\ UNCHANGED mishaps

ReserveOperation(r) ==
  /\ RunAt(r, "reserve") /\ ~operator[r].reread
  /\ \/ UpdateApplied(Reservation(r)) /\ Sends(r)
     \/ /\ Refused(Reservation(r)) \/ Unanswered(Reservation(r))
        /\ operator' = [operator EXCEPT ![r].reread = TRUE] /\ UNCHANGED told
  /\ opRest

\* The reservation of another run of the same command is as good as one's own.
ReservedBefore(r) ==
  /\ RunAt(r, "reserve") /\ operator[r].reread
  /\ \/ Mishap /\ Stops(r)
     \/ /\ UNCHANGED mishaps
        /\ CASE Decodes(r) /\ record.status \in Terminal -> Tells(r, record.receipt)
             [] Decodes(r) /\ record.status = "RESERVED" -> Sends(r)
             [] OTHER -> Stops(r)
  /\ storeRest /\ opRest

\* The answer of the invocation; an error and a timeout are reconciled.
InvocationReturns(r) ==
  /\ RunAt(r, "wait")
  /\ \/ /\ FnAt(r, "ended") /\ UNCHANGED mishaps
        /\ OpGoes(r, IF function[r].reply = NoReceipt THEN "reconcile" ELSE "readback")
     \/ Mishap /\ OpGoes(r, "reconcile")
  /\ storeRest /\ opRest

\* The receipt counts once the store shows the same one.
FinalReadback(r) ==
  /\ RunAt(r, "readback")
  /\ \/ Mishap /\ Stops(r)
     \/ /\ UNCHANGED mishaps
        /\ IF Decodes(r) /\ record.receipt = function[r].reply
           THEN Tells(r, function[r].reply) ELSE Stops(r)
  /\ storeRest /\ opRest

Reconcile(r) ==
  /\ operator[r].at \in {"reconcile", "lookup"}
  /\ \/ Mishap /\ Stops(r)
     \/ /\ UNCHANGED mishaps
        /\ CASE ~Decodes(r) -> Stops(r)
             [] Decodes(r) /\ record.status \in Terminal -> Tells(r, record.receipt)
             [] Decodes(r) /\ record.status = "RESERVED" ->
                  Tells(r, Receipt("INVOCATION_ACK_UNKNOWN_WAIT", NoRun))
             [] Decodes(r) /\ record.status = "DISPATCHING" ->
                  Tells(r, Receipt("PROVIDER_OUTCOME_UNKNOWN_DO_NOT_RETRY", NoRun))
  /\ storeRest /\ opRest

\* The function is killed or times out, or the operator's job is.
QueryDies(r) ==
  /\ Mishap
  /\ \/ ~(function[r].at \in {"idle", "ended"}) /\ FnThrows(r) /\ fnRest
     \/ ~(operator[r].at \in {"idle", "ended"}) /\ Stops(r) /\ opRest
  /\ storeRest

QueryStep(r) ==
  \/ StartOperator(r) \/ ReserveOperation(r) \/ ReservedBefore(r)
  \/ InvocationReturns(r) \/ FinalReadback(r) \/ Reconcile(r)
  \/ Invoked(r) \/ ReadState(r) \/ FnUpdate(r) \/ FnReread(r) \/ SelectQuery(r) \/ MarkUnknown(r)
  \/ QueryDies(r)

QueryNext == LandsLate \/ \E r \in QueryRuns : QueryStep(r)

QuerySpec == QueryInit /\ [][QueryNext]_queryVars

-----------------------------------------------------------------------------
Asking == {r \in QueryRuns : asked[r] > 0}

\* managed-mcp is asked at most once for the operation, by whatever runs and
\* invocations overlap; FAILED_NO_PROVIDER_CALL means that it was not and will
\* not be asked, PASS that the invocation named got its row; every receipt a
\* run published is the recorded one for good; and an operation once reported
\* as PROVIDER_OUTCOME_UNKNOWN never turns out to have failed before its call.
QueryReceiptsAreTrue ==
  /\ Cardinality(Asking) <= 1 /\ \A r \in QueryRuns : asked[r] <= 1
  /\ record.status = "FAILED" => Asking = {}
  /\ record.status = "FINAL" => valid = {record.receipt.by}
  /\ \A r \in QueryRuns :
       /\ told[r].by # NoRun => told[r] = record.receipt
       /\ told[r].status = "PROVIDER_OUTCOME_UNKNOWN_DO_NOT_RETRY" =>
            record.status \in {"DISPATCHING", "FINAL", "UNKNOWN"}
=============================================================================
