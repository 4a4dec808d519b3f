---------------------------- MODULE ReleaseProofs ----------------------------
(***************************************************************************)
(* For any runs, approvals, bounds and losses: one idempotency token per    *)
(* provider effect, receipts that are true of the provider, and one query   *)
(* of managed-mcp with receipts that are true of it.                        *)
(*                                                                          *)
(* The invariant has one part per piece of state.  An item goes through its *)
(* four states in order and keeps what it was given (ItemInv, Precedes), so *)
(* whatever a run read stays true of it (CallInv).  A run that may reach    *)
(* the provider holds the intent of its item (RunInv); and FAILED_TERMINAL  *)
(* is asked for only where there is no intent, or by the one process that   *)
(* owns the intent and did not dispatch (FailedInv).                        *)
(*                                                                          *)
(* Of the private query: any update, on time or late, takes the item one    *)
(* status on (LegalUpdate), and an invocation asks only once it has read    *)
(* its own dispatch in the item, of which there is one (Dispatched).        *)
(***************************************************************************)
EXTENDS ReleaseBroker, PrivateQuery, FiniteSetTheorems, WellFoundedInduction, TLAPS

KeyOf(r) == ApprovalOf[r].key
Places == {"idle", "consume", "replayed", "recovered", "append", "confirm", "intent",
           "permit", "first", "last", "readback", "finalize", "settle", "expired",
           "ended"}
RunShape == [at : Places, since : 0..MaxTime, intent : Maybe(Runs)]
Closing == {"finalize", "settle", "ended"}
Writing == {"consumeOnce", "appendIntent", "writeTerminal"}

\* An item has the fields that belong to its state.
ItemInv(k, i) ==
  /\ i \in Items
  /\ i.state = "ABSENT" => i = Absent
  /\ i.state # "ABSENT" =>
       /\ i.approval \in Approvals /\ i.approval.key = k
       /\ i.consumption \in Runs /\ ApprovalOf[i.consumption] = i.approval
  /\ i.state \in {"ABSENT", "CONSUMED"} => i.intent = None
  /\ i.state = "INTENT" => i.intent \in Runs
  /\ i.state # "TERMINAL" => i.outcome = None
  /\ i.state = "TERMINAL" => i.outcome \in Outcomes

\* What an item had in state i it still has in state j.
Precedes(i, j) ==
  /\ i.state # "ABSENT" => j.approval = i.approval /\ j.consumption = i.consumption
  /\ i.intent # None => j.intent = i.intent
  /\ i.state = "TERMINAL" => j = i

\* The effect belongs to a single-process run that did not dispatch it and no
\* longer can.
Harmless(k) ==
  LET r == effects[k].consumption
  IN  /\ r \in Runs /\ Job[r] = "single" /\ KeyOf(r) = k
      /\ run[r].at \in Closing
      /\ provider[k].tokens = {}

\* A request asks for the approval of its run, and for CONFIRMED only what is.
RequestInv(r, c) ==
  /\ c.approval = ApprovalOf[r]
  /\ c.op = "writeTerminal" => c.outcome \in Outcomes
  /\ c.op = "writeTerminal" /\ c.outcome = "CONFIRMED" => provider[KeyOf(r)].done = 2

FailedInv(r, c) ==
  c.op = "writeTerminal" /\ c.outcome = "FAILED_TERMINAL" =>
    c.intent = None \/ Harmless(KeyOf(r))

\* An operation in progress, and what its answer says of the item.
CallInv(r, c) ==
  /\ c.at # "idle" => RequestInv(r, c)
  /\ ItemInv(KeyOf(r), c.seen)
  /\ Precedes(c.seen, effects[KeyOf(r)])
  /\ c.at # "done" => c.answer = None
  /\ c.at \in {"write", "recover"} => c.op \in Writing
  /\ c.at = "budget" => c.op = "consumeOnce"
  /\ c.at = "read" => c.op \in Operations
  /\ c.at \in {"write", "recover"} /\ c.op = "appendIntent" =>
       c.seen.state = "CONSUMED" /\ c.seen.consumption = c.consumption
  /\ c.op = "readStrong" /\ c.at = "done" => c.answer \in {"RECORD", "ERROR"}
  /\ c.op = "readStrong" /\ c.answer = "RECORD" => c.seen.approval = c.approval
  /\ c.op = "appendIntent" /\ c.answer = "INTENT" =>
       /\ effects[KeyOf(r)].approval = c.approval
       /\ effects[KeyOf(r)].consumption = c.consumption
       /\ effects[KeyOf(r)].intent = IF c.seen.intent # None THEN c.seen.intent ELSE r
  /\ c.op = "writeTerminal" /\ c.answer = "TERMINAL" =>
       effects[KeyOf(r)].outcome = c.outcome

\* The operation that a run waits for at each place.
OpAt(r, at) ==
  CASE at = "consume" -> "consumeOnce"
    [] at = "append" -> "appendIntent"
    [] at = "finalize" -> "writeTerminal"
    [] at = "settle" -> IF Job[r] = "finalize" THEN "readStrong" ELSE "writeTerminal"
    [] OTHER -> "readStrong"
Calling == {"consume", "append", "finalize", "settle", "replayed", "recovered",
            "confirm", "intent", "permit", "expired"}

\* A run at x whose operation is c: from the lookup to the readback it holds
\* the intent of the item, and a single-process run owns the item as well.
RunInv(r, x, c) ==
  /\ x.at \in Calling => c.op = OpAt(r, x.at)
  /\ x.at \notin Calling => c = Idle
  /\ x.at \in {"consume", "replayed", "append"} => Job[r] \in {"reserve", "single"}
  /\ x.at \in {"recovered", "confirm"} => Job[r] = "reserve"
  /\ x.at \in {"first", "last"} => Job[r] \in {"dispatch", "single"}
  /\ x.at \in {"intent", "permit"} => Job[r] \in {"dispatch", "finalize"}
  /\ x.at = "append" /\ Job[r] = "single" => c.consumption = r
  /\ x.at \in {"intent", "permit", "first", "last", "readback"} =>
       /\ effects[KeyOf(r)].approval = ApprovalOf[r]
       /\ effects[KeyOf(r)].intent = x.intent
       /\ x.intent \in Runs
  /\ x.at \in {"first", "last", "readback"} /\ Job[r] = "single" =>
       effects[KeyOf(r)].consumption = r
  /\ x.at = "readback" /\ Job[r] = "single" => provider[KeyOf(r)].done = 2
  /\ Job[r] = "single" /\ effects[KeyOf(r)].consumption = r
       /\ x.at \notin {"last", "readback", "finalize", "settle", "ended"} =>
       provider[KeyOf(r)].tokens = {}

\* The table and the provider agree about an effect.
EffectInv(k) ==
  /\ ItemInv(k, effects[k])
  /\ provider[k].tokens = {} => provider[k].done = 0
  /\ provider[k].tokens # {} => provider[k].tokens = {effects[k].intent}
  /\ effects[k].outcome = "CONFIRMED" => provider[k].done = 2
  /\ effects[k].outcome = "FAILED_TERMINAL" => effects[k].intent = None \/ Harmless(k)

LookupInv(l) ==
  /\ effects[l.approval.key].approval = l.approval
  /\ effects[l.approval.key].intent = l.intent

ReportInv(r, p) ==
  /\ p = "CONFIRMED" => effects[KeyOf(r)].outcome = "CONFIRMED"
  /\ p = "TERMINAL_FAILURE" => effects[KeyOf(r)].outcome = "FAILED_TERMINAL"

ReleaseInv ==
  /\ ReleaseTypeOK
  /\ \A k \in Keys : EffectInv(k)
  /\ \A r \in Runs : RunInv(r, run[r], call[r])
  /\ \A r \in Runs : CallInv(r, call[r])
  /\ \A r \in Runs : FailedInv(r, call[r])
  /\ \A r \in Runs : ReportInv(r, report[r])
  /\ \A w \in late : /\ RequestInv(w.by, w.request)
                     /\ FailedInv(w.by, w.request)
                     /\ w.request.op \in Writing
  /\ \A l \in lookups : LookupInv(l)

-----------------------------------------------------------------------------
(* Facts about the constants and the items.                                 *)

\* Every approval of a run is one of Approvals, and its effect one of Keys.
LEMMA KeyOfRun ==
  ASSUME NEW r \in Runs
  PROVE  ApprovalOf[r] \in Approvals /\ KeyOf(r) \in Keys
BY ReleaseAssumption DEF KeyOf, Keys

\* An item that has an approval, a consumption or an intent is not absent.
LEMMA Present ==
  ASSUME NEW k, NEW i, ItemInv(k, i),
         i.approval \in Approvals \/ i.consumption \in Runs \/ i.intent \in Runs
  PROVE  i.state # "ABSENT"
BY ReleaseAssumption DEF ItemInv, Absent

\* A record with an outcome is terminal.
LEMMA OutcomeIsTerminal ==
  ASSUME NEW k, NEW i, ItemInv(k, i), i.outcome \in Outcomes
  PROVE  i.state = "TERMINAL"
BY ReleaseAssumption DEF ItemInv

\* A record precedes itself: an answer may be up to date.
LEMMA PrecedesItself == ASSUME NEW i PROVE Precedes(i, i)
BY DEF Precedes

\* An absent record precedes every record of its key.
LEMMA AbsentPrecedes == ASSUME NEW j PROVE Precedes(Absent, j)
BY DEF Precedes, Absent

\* An absent record is a sound one.
LEMMA AbsentItem == ASSUME NEW k PROVE ItemInv(k, Absent)
BY DEF ItemInv, Absent, Items, Maybe

\* What was read before still precedes the item after a further step.
LEMMA PrecedesTransitive ==
  ASSUME NEW k, NEW h, NEW i, NEW j, ItemInv(k, h), ItemInv(k, i),
         Precedes(h, i), Precedes(i, j)
  PROVE  Precedes(h, j)
<1>1. h.state # "ABSENT" => i.state # "ABSENT"
  BY Present DEF ItemInv, Precedes
<1>2. QED BY <1>1 DEF Precedes

-----------------------------------------------------------------------------
(* A step of a run that leaves the table and the provider alone.            *)

\* The run that did not dispatch stays where it cannot.
LEMMA HarmlessStays ==
  ASSUME NEW r \in Runs, NEW x \in RunShape, NEW k \in Keys, Harmless(k),
         run \in [Runs -> RunShape], run' = [run EXCEPT ![r] = x],
         run[r].at \in Closing => x.at \in Closing,
         UNCHANGED <<effects, provider>>
  PROVE  Harmless(k)'
BY DEF Harmless

\* Such a step keeps the invariant when the run's own new state, operation and
\* receipt satisfy it.
LEMMA BrokerFrame ==
  ASSUME ReleaseInv, NEW r \in Runs, NEW x \in RunShape, NEW c \in Calls,
         NEW p \in Maybe(Reports),
         run' = [run EXCEPT ![r] = x], call' = [call EXCEPT ![r] = c],
         report' = [report EXCEPT ![r] = p],
         UNCHANGED <<effects, budget, late, faults, now, provider>>,
         lookups' \subseteq [approval : Approvals, intent : Runs],
         \A l \in lookups' : LookupInv(l),
         run[r].at \in Closing => x.at \in Closing,
         RunInv(r, x, c), CallInv(r, c), ReportInv(r, p), FailedInv(r, c)'
  PROVE  ReleaseInv'
<1>1. /\ run \in [Runs -> RunShape] /\ call \in [Runs -> Calls]
      /\ report \in [Runs -> Maybe(Reports)]
      /\ late \subseteq [by : Runs, request : Calls]
  BY DEF ReleaseInv, ReleaseTypeOK, StoreTypeOK, RunShape, Places
<1>2. /\ run' \in [Runs -> RunShape] /\ call' \in [Runs -> Calls]
      /\ report' \in [Runs -> Maybe(Reports)]
  BY <1>1
<1>3. ReleaseTypeOK'
  BY <1>2 DEF ReleaseInv, ReleaseTypeOK, StoreTypeOK, RunShape, Places
<1>4. \A k \in Keys : Harmless(k) => Harmless(k)'
  BY <1>1, HarmlessStays
<1>5. ASSUME NEW k \in Keys PROVE EffectInv(k)'
  <2>1. EffectInv(k) BY DEF ReleaseInv
  <2>2. QED BY <2>1, <1>4 DEF EffectInv
<1>6. ASSUME NEW s \in Runs PROVE RunInv(s, run[s], call[s])'
  <2>1. RunInv(s, run[s], call[s]) BY DEF ReleaseInv
  <2>2. CASE s = r BY <2>2, <1>1 DEF RunInv
  <2>3. CASE s # r BY <2>3, <2>1, <1>1 DEF RunInv
  <2>4. QED BY <2>2, <2>3
<1>7. ASSUME NEW s \in Runs PROVE CallInv(s, call[s])'
  <2>1. CallInv(s, call[s]) BY DEF ReleaseInv
  <2>2. CASE s = r BY <2>2, <1>1 DEF CallInv, RequestInv
  <2>3. CASE s # r BY <2>3, <2>1, <1>1 DEF CallInv, RequestInv
  <2>4. QED BY <2>2, <2>3
<1>8. ASSUME NEW s \in Runs PROVE FailedInv(s, call[s])'
  <2>1. FailedInv(s, call[s]) BY DEF ReleaseInv
  <2>2. CASE s = r BY <2>2, <1>1 DEF FailedInv
  <2>3. CASE s # r BY <2>3, <2>1, <1>1, <1>4, KeyOfRun DEF FailedInv
  <2>4. QED BY <2>2, <2>3
<1>9. ASSUME NEW s \in Runs PROVE ReportInv(s, report[s])'
  <2>1. ReportInv(s, report[s]) BY DEF ReleaseInv
  <2>2. QED BY <2>1, <1>1 DEF ReportInv
<1>10. ASSUME NEW w \in late'
       PROVE  (/\ RequestInv(w.by, w.request)
               /\ FailedInv(w.by, w.request)
               /\ w.request.op \in Writing)'
  <2>1. w \in late /\ w.by \in Runs BY <1>1
  <2>2. RequestInv(w.by, w.request) /\ FailedInv(w.by, w.request)
        /\ w.request.op \in Writing
    BY <2>1 DEF ReleaseInv
  <2>3. QED BY <2>1, <2>2, <1>4, KeyOfRun DEF RequestInv, FailedInv
<1>11. ASSUME NEW l \in lookups' PROVE LookupInv(l)'
  <2>1. LookupInv(l) OBVIOUS
  <2>2. QED BY <2>1 DEF LookupInv
<1>12. QED BY <1>3, <1>5, <1>6, <1>7, <1>8, <1>9, <1>10, <1>11 DEF ReleaseInv

-----------------------------------------------------------------------------
(* The two ways a run goes on: it asks the store, or it ends.               *)

Request(r, op, consumption, intent, outcome) ==
  [Idle EXCEPT !.op = op, !.at = "read", !.approval = ApprovalOf[r],
               !.consumption = consumption, !.intent = intent, !.outcome = outcome]

\* A fresh request has read nothing and has no answer.
LEMMA RequestIsFresh ==
  ASSUME NEW r \in Runs, NEW op \in Operations, NEW consumption \in Maybe(Runs),
         NEW intent \in Maybe(Runs), NEW outcome \in Maybe(Outcomes),
         op = "writeTerminal" =>
           outcome \in Outcomes /\ (outcome = "CONFIRMED" => provider[KeyOf(r)].done = 2)
  PROVE  LET c == Request(r, op, consumption, intent, outcome)
         IN  c \in Calls /\ CallInv(r, c)
<1> DEFINE c == Request(r, op, consumption, intent, outcome)
<1>1. /\ c.op = op /\ c.at = "read" /\ c.approval = ApprovalOf[r]
      /\ c.consumption = consumption /\ c.intent = intent /\ c.outcome = outcome
      /\ c.seen = Absent /\ c.prior = 0 /\ c.version = 0 /\ c.answer = None
  BY DEF Request, Idle
<1>2. Absent \in Items BY DEF Absent, Items, Maybe
<1>3. c \in Calls
  BY <1>1, <1>2, KeyOfRun DEF Calls, Maybe, Request, Idle
<1>4. RequestInv(r, c) BY <1>1 DEF RequestInv
<1>5. ItemInv(KeyOf(r), c.seen) /\ Precedes(c.seen, effects[KeyOf(r)])
  BY <1>1, AbsentItem, AbsentPrecedes
<1>6. CallInv(r, c)
  BY <1>1, <1>4, <1>5, ReleaseAssumption DEF CallInv, Answers
<1>7. QED BY <1>3, <1>6

\* A request that was never made is sound.
LEMMA IdleIsFresh ==
  ASSUME NEW r \in Runs
  PROVE  Idle \in Calls /\ CallInv(r, Idle) /\ FailedInv(r, Idle)'
<1>1. Absent \in Items BY DEF Absent, Items, Maybe
<1>2. Idle \in Calls BY <1>1 DEF Idle, Calls, Maybe
<1>3. ItemInv(KeyOf(r), Idle.seen) /\ Precedes(Idle.seen, effects[KeyOf(r)])
  BY AbsentItem, AbsentPrecedes DEF Idle
<1>4. Idle.answer = None /\ Idle.at = "idle" /\ Idle.outcome = None BY DEF Idle
<1>5. CallInv(r, Idle)
  BY <1>3, <1>4, ReleaseAssumption DEF CallInv, Answers
<1>6. FailedInv(r, Idle)'
  BY <1>4, ReleaseAssumption DEF FailedInv, Outcomes
<1>7. QED BY <1>2, <1>5, <1>6

\* A new request of run r keeps the invariant when the run may make it.
LEMMA AskFrame ==
  ASSUME ReleaseInv, NEW r \in Runs, NEW x \in RunShape, NEW op \in Operations,
         NEW consumption \in Maybe(Runs), NEW intent \in Maybe(Runs),
         NEW outcome \in Maybe(Outcomes),
         run' = [run EXCEPT ![r] = x], Ask(r, op, consumption, intent, outcome),
         brokerRest, tableUnchanged,
         run[r].at \in Closing => x.at \in Closing,
         RunInv(r, x, Request(r, op, consumption, intent, outcome)),
         op = "writeTerminal" =>
           outcome \in Outcomes /\ (outcome = "CONFIRMED" => provider[KeyOf(r)].done = 2),
         op = "writeTerminal" /\ outcome = "FAILED_TERMINAL" =>
           intent = None \/ Harmless(KeyOf(r))'
  PROVE  ReleaseInv'
<1>1. PICK c : c = Request(r, op, consumption, intent, outcome) OBVIOUS
<1>2. c \in Calls /\ CallInv(r, c) BY <1>1, RequestIsFresh
<1>3. call' = [call EXCEPT ![r] = c] BY <1>1 DEF Ask, Request
<1>4. c.op = op /\ c.intent = intent /\ c.outcome = outcome
  BY <1>1 DEF Request, Idle
<1>5. FailedInv(r, c)' BY <1>4 DEF FailedInv
<1>6. PICK p : p = report[r] OBVIOUS
<1>7. p \in Maybe(Reports) /\ ReportInv(r, p) /\ report' = [report EXCEPT ![r] = p]
  BY <1>6 DEF ReleaseInv, ReleaseTypeOK, brokerRest
<1>8. /\ lookups' \subseteq [approval : Approvals, intent : Runs]
      /\ \A l \in lookups' : LookupInv(l)
  BY DEF ReleaseInv, ReleaseTypeOK, brokerRest
<1>9. UNCHANGED <<effects, budget, late, faults, now, provider>>
  BY DEF brokerRest, tableUnchanged
<1>10. RunInv(r, x, c) BY <1>1
<1>11. QED BY <1>2, <1>3, <1>5, <1>7, <1>8, <1>9, <1>10, BrokerFrame

\* A run that ends makes no operation of its own any more.
LEMMA EndFrame ==
  ASSUME ReleaseInv, NEW r \in Runs, NEW p \in Reports,
         run' = [run EXCEPT ![r].at = "ended"], call' = [call EXCEPT ![r] = Idle],
         report' = [report EXCEPT ![r] = p], ReportInv(r, p),
         lookups' \subseteq [approval : Approvals, intent : Runs],
         \A l \in lookups' : LookupInv(l),
         UNCHANGED <<effects, budget, late, faults, now, provider>>
  PROVE  ReleaseInv'
<1>1. run \in [Runs -> RunShape]
  BY DEF ReleaseInv, ReleaseTypeOK, RunShape, Places
<1>2. PICK x : x = [run[r] EXCEPT !.at = "ended"] OBVIOUS
<1>3. /\ x \in RunShape /\ x.at = "ended"
      /\ run' = [run EXCEPT ![r] = x]
  BY <1>1, <1>2 DEF RunShape, Places
<1>4. RunInv(r, x, Idle) BY <1>3 DEF RunInv, Calling
<1>5. x.at \in Closing /\ p \in Maybe(Reports) BY <1>3 DEF Closing, Maybe
<1>6. QED BY <1>3, <1>4, <1>5, IdleIsFresh, BrokerFrame

\* The common end: nothing is published, and the receipt is not a verdict.
LEMMA EndsWith ==
  ASSUME ReleaseInv, NEW r \in Runs, NEW p \in Reports, Forget(r), End(r, p),
         tableUnchanged, ReportInv(r, p)
  PROVE  ReleaseInv'
<1>1. /\ lookups' \subseteq [approval : Approvals, intent : Runs]
      /\ \A l \in lookups' : LookupInv(l)
  BY DEF ReleaseInv, ReleaseTypeOK, End
<1>2. QED BY <1>1, EndFrame DEF End, Forget, tableUnchanged

\* A run may always end with UNKNOWN_DO_NOT_ACT, REJECTED or DISPATCH_OBSERVED:
\* none of them claims anything about the record of the effect.
LEMMA EndsUnknown ==
  ASSUME ReleaseInv, NEW r \in Runs,
         NEW p \in {"UNKNOWN_DO_NOT_ACT", "REJECTED", "DISPATCH_OBSERVED"},
         Forget(r), End(r, p), tableUnchanged
  PROVE  ReleaseInv'
<1>1. p \in Reports /\ ReportInv(r, p) BY DEF Reports, ReportInv
<1>2. QED BY <1>1, EndsWith

\* phaseStatusForOutcome: a receipt that repeats the outcome of the item.
LEMMA EndsReporting ==
  ASSUME ReleaseInv, NEW r \in Runs, NEW outcome \in Outcomes,
         effects[KeyOf(r)].outcome = outcome,
         Forget(r), End(r, ReportOf(outcome)), tableUnchanged
  PROVE  ReleaseInv'
<1>1. PICK p : p = ReportOf(outcome) OBVIOUS
<1>2. p \in Reports /\ ReportInv(r, p)
  BY <1>1 DEF Outcomes, ReportOf, Reports, ReportInv
<1>3. QED BY <1>1, <1>2, EndsWith

-----------------------------------------------------------------------------
(* Reserve runs and the start of single-process runs.                       *)

\* What the invariant says of one run.
LEMMA OwnFacts ==
  ASSUME ReleaseInv, NEW r \in Runs
  PROVE  /\ run \in [Runs -> RunShape] /\ run[r] \in RunShape
         /\ call \in [Runs -> Calls] /\ call[r] \in Calls
         /\ RunInv(r, run[r], call[r]) /\ CallInv(r, call[r])
         /\ FailedInv(r, call[r]) /\ EffectInv(KeyOf(r))
         /\ effects \in [Keys -> Items] /\ now \in 0..MaxTime
         /\ lookups \subseteq [approval : Approvals, intent : Runs]
<1>1. run \in [Runs -> RunShape] /\ call \in [Runs -> Calls]
  BY DEF ReleaseInv, ReleaseTypeOK, StoreTypeOK, RunShape, Places
<1>2. /\ effects \in [Keys -> Items] /\ now \in 0..MaxTime
      /\ lookups \subseteq [approval : Approvals, intent : Runs]
  BY DEF ReleaseInv, ReleaseTypeOK, StoreTypeOK
<1>3. EffectInv(KeyOf(r)) BY KeyOfRun DEF ReleaseInv
<1>4. QED BY <1>1, <1>2, <1>3 DEF ReleaseInv

\* A run that moves to a place where it waits for the store.
LEMMA GoAsk ==
  ASSUME ReleaseInv, NEW r \in Runs, NEW at \in Calling, NEW op \in Operations,
         NEW consumption \in Maybe(Runs), NEW intent \in Maybe(Runs),
         NEW outcome \in Maybe(Outcomes),
         Goto(r, at), Ask(r, op, consumption, intent, outcome),
         brokerRest, tableUnchanged, op = OpAt(r, at),
         run[r].at \in Closing \cup {"last", "readback"} => at \in Closing,
         at \in {"consume", "replayed", "append"} => Job[r] \in {"reserve", "single"},
         at \in {"recovered", "confirm"} => Job[r] = "reserve",
         at \in {"intent", "permit"} => run[r].at = "intent",
         at = "append" /\ Job[r] = "single" => consumption = r,
         op = "writeTerminal" =>
           outcome \in Outcomes /\ (outcome = "CONFIRMED" => provider[KeyOf(r)].done = 2),
         op = "writeTerminal" /\ outcome = "FAILED_TERMINAL" =>
           intent = None \/ Harmless(KeyOf(r))'
  PROVE  ReleaseInv'
<1>1. run \in [Runs -> RunShape] /\ run[r] \in RunShape /\ RunInv(r, run[r], call[r])
  BY OwnFacts
<1>2. PICK x : x = [run[r] EXCEPT !.at = at] OBVIOUS
<1>3. /\ x \in RunShape /\ x.at = at /\ x.intent = run[r].intent
      /\ run' = [run EXCEPT ![r] = x]
  BY <1>1, <1>2 DEF RunShape, Places, Goto, Calling
<1>4. PICK c : c = Request(r, op, consumption, intent, outcome) OBVIOUS
<1>5. c.op = op /\ c.consumption = consumption BY <1>4 DEF Request, Idle
<1>6. RunInv(r, x, c)
  BY <1>1, <1>3, <1>5 DEF RunInv, Calling, Closing
<1>7. RunInv(r, x, Request(r, op, consumption, intent, outcome)) BY <1>4, <1>6
<1>8. run[r].at \in Closing => x.at \in Closing BY <1>3
<1>9. QED BY <1>3, <1>7, <1>8, AskFrame

\* The same with a strong read.
LEMMA GoRead ==
  ASSUME ReleaseInv, NEW r \in Runs,
         NEW at \in {"replayed", "recovered", "confirm", "permit"},
         Goto(r, at), AskRead(r), brokerRest, tableUnchanged,
         run[r].at \notin Closing \cup {"last", "readback"},
         at = "replayed" => Job[r] \in {"reserve", "single"},
         at \in {"recovered", "confirm"} => Job[r] = "reserve",
         at = "permit" => run[r].at = "intent"
  PROVE  ReleaseInv'
<1>1. at \in Calling /\ "readStrong" \in Operations /\ "readStrong" = OpAt(r, at)
  BY DEF Calling, Operations, OpAt
<1>2. None \in Maybe(Runs) /\ None \in Maybe(Outcomes) BY DEF Maybe
<1>3. QED BY <1>1, <1>2, GoAsk DEF AskRead

\* The first request of a reserve and of the single-process broker.
LEMMA StartConsumeKeeps ==
  ASSUME ReleaseInv, NEW r \in Runs, StartConsume(r)
  PROVE  ReleaseInv'
<1>1. /\ run \in [Runs -> RunShape] /\ run[r] \in RunShape
      /\ RunInv(r, run[r], call[r]) /\ now \in 0..MaxTime
  BY OwnFacts
<1>2. PICK x : x = [run[r] EXCEPT !.at = "consume", !.since = now] OBVIOUS
<1>3. /\ x \in RunShape /\ x.at = "consume" /\ Job[r] \in {"reserve", "single"}
      /\ run' = [run EXCEPT ![r] = x] /\ run[r].at = "idle"
  BY <1>1, <1>2 DEF RunShape, Places, StartConsume, At
<1>4. PICK c : c = Request(r, "consumeOnce", None, None, None) OBVIOUS
<1>5. c.op = "consumeOnce" BY <1>4 DEF Request, Idle
<1>6. RunInv(r, x, c) BY <1>1, <1>3, <1>5 DEF RunInv, Calling, OpAt
<1>7. RunInv(r, x, Request(r, "consumeOnce", None, None, None)) BY <1>4, <1>6
<1>8. /\ "consumeOnce" \in Operations /\ None \in Maybe(Runs) /\ None \in Maybe(Outcomes)
      /\ run[r].at \notin Closing
  BY <1>3 DEF Operations, Maybe, Closing
<1>9. /\ Ask(r, "consumeOnce", None, None, None) /\ brokerRest /\ tableUnchanged
  BY DEF StartConsume
<1>10. QED BY <1>3, <1>7, <1>8, <1>9, AskFrame

\* A reserve that finds its approval stale between two requests.
LEMMA ReserveExpiresKeeps ==
  ASSUME ReleaseInv, NEW r \in Runs, ReserveExpires(r)
  PROVE  ReleaseInv'
BY EndsUnknown DEF ReserveExpires

\* The consumption was accepted: the intent follows.
LEMMA ConsumedFirstKeeps ==
  ASSUME ReleaseInv, NEW r \in Runs, ConsumedFirst(r)
  PROVE  ReleaseInv'
<1>1. /\ Goto(r, "append") /\ Ask(r, "appendIntent", r, None, None)
      /\ brokerRest /\ tableUnchanged /\ run[r].at = "consume"
  BY DEF ConsumedFirst, At
<1>2. /\ "append" \in Calling /\ "appendIntent" \in Operations
      /\ "appendIntent" = OpAt(r, "append")
      /\ r \in Maybe(Runs) /\ None \in Maybe(Runs) /\ None \in Maybe(Outcomes)
      /\ run[r].at \notin Closing \cup {"last", "readback"}
  BY <1>1 DEF Calling, Operations, OpAt, Maybe, Closing
<1>3. Job[r] \in {"reserve", "single"} BY <1>1, OwnFacts DEF RunInv
<1>4. QED BY <1>1, <1>2, <1>3, GoAsk

\* The consumption is a REPLAY: the record is read.
LEMMA ConsumedBeforeKeeps ==
  ASSUME ReleaseInv, NEW r \in Runs, ConsumedBefore(r)
  PROVE  ReleaseInv'
<1>1. run[r].at = "consume" BY DEF ConsumedBefore, At
<1>2. Job[r] \in {"reserve", "single"} BY <1>1, OwnFacts DEF RunInv
<1>3. QED BY <1>1, <1>2, GoRead DEF ConsumedBefore, Closing

\* The consumption failed: the record is read, or the run ends.
LEMMA ConsumeFailedKeeps ==
  ASSUME ReleaseInv, NEW r \in Runs, ConsumeFailed(r)
  PROVE  ReleaseInv'
<1>1. CASE Job[r] = "reserve"
  BY <1>1, GoRead DEF ConsumeFailed, At, Closing
<1>2. CASE Job[r] # "reserve"
  BY <1>2, EndsUnknown DEF ConsumeFailed
<1>3. QED BY <1>1, <1>2

\* The record that a strong read returned: it is the run's own, and still true.
LEMMA SeenRecord ==
  ASSUME ReleaseInv, NEW r \in Runs, call[r].op = "readStrong", Status(r) = "RECORD"
  PROVE  /\ Seen(r).state \in {"CONSUMED", "INTENT", "TERMINAL"}
         /\ effects[KeyOf(r)].approval = ApprovalOf[r]
         /\ Seen(r).consumption \in Runs /\ Seen(r).intent \in Maybe(Runs)
         /\ Seen(r).state = "CONSUMED" => Seen(r).intent = None
         /\ Seen(r).state = "INTENT" => Seen(r).intent \in Runs
         /\ Seen(r).intent \in Runs => effects[KeyOf(r)].intent = Seen(r).intent
         /\ Seen(r).state = "TERMINAL" =>
              Seen(r).outcome \in Outcomes /\ effects[KeyOf(r)].outcome = Seen(r).outcome
<1>1. CallInv(r, call[r]) BY OwnFacts
<1>2. "RECORD" # None BY ReleaseAssumption DEF Answers
<1>3. call[r].at = "done" /\ call[r].approval = ApprovalOf[r]
      /\ Seen(r).approval = ApprovalOf[r]
  BY <1>1, <1>2 DEF CallInv, RequestInv, Status, Seen
<1>4. /\ ItemInv(KeyOf(r), Seen(r)) /\ Precedes(Seen(r), effects[KeyOf(r)])
  BY <1>1 DEF CallInv, Seen
<1>5. Seen(r).state # "ABSENT" BY <1>3, <1>4, Present, KeyOfRun
<1>6. Seen(r) \in Items BY <1>4 DEF ItemInv
<1>7. QED BY <1>3, <1>4, <1>5, <1>6, ReleaseAssumption DEF ItemInv, Precedes, Items

\* Publishing the intent of the item.
LEMMA Publishes ==
  ASSUME ReleaseInv, NEW r \in Runs, NEW i \in Runs,
         effects[KeyOf(r)].approval = ApprovalOf[r], effects[KeyOf(r)].intent = i,
         lookups' \in {lookups, lookups \cup {[approval |-> ApprovalOf[r], intent |-> i]}}
  PROVE  /\ lookups' \subseteq [approval : Approvals, intent : Runs]
         /\ \A l \in lookups' : LookupInv(l)
<1>1. /\ lookups \subseteq [approval : Approvals, intent : Runs]
      /\ \A l \in lookups : LookupInv(l)
  BY DEF ReleaseInv, ReleaseTypeOK
<1>2. PICK l : l = [approval |-> ApprovalOf[r], intent |-> i] OBVIOUS
<1>3. l \in [approval : Approvals, intent : Runs] BY <1>2, KeyOfRun
<1>4. LookupInv(l) BY <1>2 DEF LookupInv, KeyOf
<1>5. QED BY <1>1, <1>2, <1>3, <1>4

\* The record a reserve found decides how it goes on.
LEMMA ReserveReadsRecordKeeps ==
  ASSUME ReleaseInv, NEW r \in Runs, ReserveReadsRecord(r)
  PROVE  ReleaseInv'
<1>1. /\ RunInv(r, run[r], call[r]) /\ run[r].at \in {"replayed", "recovered"}
      /\ tableUnchanged /\ Job[r] = "reserve"
  BY OwnFacts DEF ReserveReadsRecord
<1>2. call[r].op = "readStrong" BY <1>1 DEF RunInv, Calling, OpAt
<1>3. run[r].at \notin Closing \cup {"last", "readback"} BY <1>1 DEF Closing
<1>4. CASE Status(r) = "ERROR"
  <2>1. PICK p : p = IF At(r, "recovered") THEN "UNKNOWN_DO_NOT_ACT" ELSE "REJECTED"
    OBVIOUS
  <2>2. p \in {"UNKNOWN_DO_NOT_ACT", "REJECTED"} BY <2>1
  <2>3. Forget(r) /\ End(r, p) BY <2>1, <1>4 DEF ReserveReadsRecord
  <2>4. QED BY <2>2, <2>3, <1>1, EndsUnknown
<1>5. CASE Status(r) = "RECORD" /\ Seen(r).state # "CONSUMED"
  <2>1. Forget(r) /\ ReportRecord(r) BY <1>5 DEF ReserveReadsRecord
  <2>2. PICK i : i = Seen(r).intent OBVIOUS
  <2>3. PICK o : o = Seen(r).outcome OBVIOUS
  <2>4. /\ lookups' \subseteq [approval : Approvals, intent : Runs]
        /\ \A l \in lookups' : LookupInv(l)
    <3>1. CASE i = None
      <4>1. lookups' = lookups BY <3>1, <2>1, <2>2 DEF ReportRecord, LookupOf
      <4>2. QED BY <4>1, <2>1 DEF ReleaseInv, ReleaseTypeOK, LookupInv, ReportRecord, Forget,
                                  ReserveReadsRecord, tableUnchanged
    <3>2. CASE i # None
      <4>1. /\ i \in Runs /\ effects[KeyOf(r)].approval = ApprovalOf[r]
            /\ effects[KeyOf(r)].intent = i
        BY <3>2, <2>2, <1>2, <1>5, SeenRecord DEF Maybe
      <4>2. lookups' \in {lookups, lookups \cup {[approval |-> ApprovalOf[r], intent |-> i]}}
        BY <2>1, <2>2 DEF ReportRecord, LookupOf
      <4>3. QED BY <4>1, <4>2, Publishes
    <3>3. QED BY <3>1, <3>2
  <2>5. PICK p : p = IF Seen(r).state = "TERMINAL" THEN ReportOf(o)
                     ELSE "INTENT_ALREADY_RECORDED"
    OBVIOUS
  <2>6. Seen(r).state = "TERMINAL" => o \in Outcomes /\ effects[KeyOf(r)].outcome = o
    BY <2>3, <1>2, <1>5, SeenRecord
  <2>7. p \in Reports /\ ReportInv(r, p)
    BY <2>5, <2>6 DEF Outcomes, ReportOf, Reports, ReportInv
  <2>8. report' = [report EXCEPT ![r] = p]
    BY <2>1, <2>3, <2>5 DEF ReportRecord
  <2>9. QED BY <2>1, <2>4, <2>7, <2>8, <1>1, EndFrame DEF ReportRecord, Forget, tableUnchanged
<1>6. CASE Status(r) = "RECORD" /\ Seen(r).state = "CONSUMED" /\ At(r, "recovered")
  <2>1. PICK n : n = Seen(r).consumption OBVIOUS
  <2>2. n \in Maybe(Runs) BY <2>1, <1>2, <1>6, SeenRecord DEF Maybe
  <2>3. /\ Goto(r, "append") /\ brokerRest /\ Ask(r, "appendIntent", n, None, None)
    BY <2>1, <1>6 DEF ReserveReadsRecord, At
  <2>4. /\ "append" \in Calling /\ "appendIntent" \in Operations
        /\ "appendIntent" = OpAt(r, "append")
        /\ None \in Maybe(Runs) /\ None \in Maybe(Outcomes)
    BY DEF Calling, Operations, OpAt, Maybe
  <2>5. QED BY <2>2, <2>3, <2>4, <1>1, <1>3, GoAsk
<1>7. CASE Status(r) = "RECORD" /\ Seen(r).state = "CONSUMED" /\ At(r, "replayed")
  <2>1. Goto(r, "confirm") /\ AskRead(r) /\ brokerRest
    BY <1>7 DEF ReserveReadsRecord, At
  <2>2. QED BY <2>1, <1>1, <1>3, GoRead
<1>8. Status(r) \in {"ERROR", "RECORD"}
  BY <1>2, OwnFacts DEF ReserveReadsRecord, Answered, Status, CallInv
<1>9. QED BY <1>1, <1>4, <1>5, <1>6, <1>7, <1>8 DEF At

\* recoverReplay of the single-process broker.
LEMMA SingleReadsReplayKeeps ==
  ASSUME ReleaseInv, NEW r \in Runs, SingleReadsReplay(r)
  PROVE  ReleaseInv'
<1>1. /\ RunInv(r, run[r], call[r]) /\ run[r].at = "replayed" /\ Forget(r)
      /\ tableUnchanged
  BY OwnFacts DEF SingleReadsReplay, At
<1>2. call[r].op = "readStrong" BY <1>1 DEF RunInv, Calling, OpAt
<1>3. CASE Status(r) = "RECORD" /\ Seen(r).state = "TERMINAL"
  <2>1. PICK o : o = Seen(r).outcome OBVIOUS
  <2>2. o \in Outcomes /\ effects[KeyOf(r)].outcome = o
    BY <2>1, <1>2, <1>3, SeenRecord
  <2>3. End(r, ReportOf(o)) BY <2>1, <1>3 DEF SingleReadsReplay
  <2>4. QED BY <2>2, <2>3, <1>1, EndsReporting
<1>4. CASE ~(Status(r) = "RECORD" /\ Seen(r).state = "TERMINAL")
  BY <1>1, <1>4, EndsUnknown DEF SingleReadsReplay
<1>5. QED BY <1>3, <1>4

\* The intent a run goes on with is the one of the item; a single-process run
\* owns the item.
LEMMA IntentIsStored ==
  ASSUME ReleaseInv, NEW r \in Runs, IntentKnown(r)
  PROVE  /\ IntentOf(r) \in Runs
         /\ effects[KeyOf(r)].approval = ApprovalOf[r]
         /\ effects[KeyOf(r)].intent = IntentOf(r)
         /\ Job[r] = "single" =>
              run[r].at = "append" /\ effects[KeyOf(r)].consumption = r
<1>1. RunInv(r, run[r], call[r]) /\ CallInv(r, call[r]) BY OwnFacts
<1>2. CASE At(r, "append") /\ Status(r) = "INTENT"
  <2>1. call[r].op = "appendIntent" /\ (Job[r] = "single" => call[r].consumption = r)
    BY <1>1, <1>2 DEF RunInv, At, Calling, OpAt
  <2>2. call[r].at = "done" /\ call[r].approval = ApprovalOf[r]
    BY <1>1, <1>2, ReleaseAssumption DEF CallInv, RequestInv, Status, Answers
  <2>3. /\ effects[KeyOf(r)].approval = call[r].approval
        /\ effects[KeyOf(r)].consumption = call[r].consumption
        /\ effects[KeyOf(r)].intent = IntentOf(r)
    BY <1>1, <1>2, <2>1 DEF CallInv, Status, IntentOf
  <2>4. call[r].seen.intent \in Maybe(Runs)
    BY <1>1 DEF CallInv, ItemInv, Items
  <2>5. IntentOf(r) \in Runs BY <2>4 DEF IntentOf, Maybe
  <2>6. QED BY <2>1, <2>2, <2>3, <2>5, <1>2 DEF At
<1>3. CASE At(r, "confirm") /\ Status(r) = "RECORD" /\ Seen(r).state = "INTENT"
  <2>1. call[r].op = "readStrong" /\ Job[r] = "reserve"
    BY <1>1, <1>3 DEF RunInv, At, Calling, OpAt
  <2>2. /\ effects[KeyOf(r)].approval = ApprovalOf[r]
        /\ Seen(r).intent \in Runs /\ effects[KeyOf(r)].intent = Seen(r).intent
    BY <2>1, <1>3, SeenRecord
  <2>3. IntentOf(r) = Seen(r).intent
    BY <2>2, ReleaseAssumption DEF IntentOf, Seen
  <2>4. QED BY <2>1, <2>2, <2>3
<1>4. QED BY <1>2, <1>3 DEF IntentKnown

\* The intent is on file: a reserve reports it, a single-process run dispatches.
LEMMA IntentKnownKeeps ==
  ASSUME ReleaseInv, NEW r \in Runs, IntentKnown(r)
  PROVE  ReleaseInv'
<1>1. PICK i : i = IntentOf(r) OBVIOUS
<1>2. /\ i \in Runs /\ effects[KeyOf(r)].approval = ApprovalOf[r]
      /\ effects[KeyOf(r)].intent = i
      /\ Job[r] = "single" =>
           run[r].at = "append" /\ effects[KeyOf(r)].consumption = r
  BY <1>1, IntentIsStored
<1>3. Forget(r) /\ tableUnchanged BY DEF IntentKnown
<1>4. run[r].at \in {"append", "confirm"} BY DEF IntentKnown, At
<1>5. /\ run \in [Runs -> RunShape] /\ run[r] \in RunShape
      /\ RunInv(r, run[r], call[r])
  BY OwnFacts
<1>7. CASE Job[r] = "reserve"
  <2>1. /\ run' = [run EXCEPT ![r].at = "ended"]
        /\ report' = [report EXCEPT ![r] = "INTENT_RECORDED"]
        /\ lookups' = lookups \cup {[approval |-> ApprovalOf[r], intent |-> i]}
        /\ UNCHANGED <<now, provider>>
    BY <1>1, <1>7 DEF IntentKnown
  <2>2. /\ lookups' \subseteq [approval : Approvals, intent : Runs]
        /\ \A l \in lookups' : LookupInv(l)
    BY <2>1, <1>2, Publishes
  <2>3. "INTENT_RECORDED" \in Reports /\ ReportInv(r, "INTENT_RECORDED")
    BY DEF Reports, ReportInv
  <2>4. QED BY <2>1, <2>2, <2>3, <1>3, EndFrame DEF Forget, tableUnchanged
<1>8. CASE Job[r] # "reserve"
  <2>1. run' = [run EXCEPT ![r].at = "first", ![r].intent = i] /\ brokerRest
    BY <1>1, <1>8 DEF IntentKnown
  <2>2. PICK x : x = [run[r] EXCEPT !.at = "first", !.intent = i] OBVIOUS
  <2>3. /\ x \in RunShape /\ x.at = "first" /\ x.intent = i
        /\ run' = [run EXCEPT ![r] = x]
    BY <2>1, <2>2, <1>2, <1>5 DEF RunShape, Places, Maybe
  <2>4. Job[r] = "single"
    BY <1>4, <1>5, <1>8 DEF RunInv
  <2>5. provider[KeyOf(r)].tokens = {}
    BY <2>4, <1>2, <1>5 DEF RunInv
  <2>6. RunInv(r, x, Idle)
    BY <2>3, <2>4, <2>5, <1>2 DEF RunInv, Calling
  <2>7. PICK p : p = report[r] OBVIOUS
  <2>8. p \in Maybe(Reports) /\ ReportInv(r, p) /\ report' = [report EXCEPT ![r] = p]
    BY <2>1, <2>7 DEF ReleaseInv, ReleaseTypeOK, brokerRest
  <2>9. /\ lookups' \subseteq [approval : Approvals, intent : Runs]
        /\ \A l \in lookups' : LookupInv(l)
    BY <2>1 DEF ReleaseInv, ReleaseTypeOK, brokerRest
  <2>10. UNCHANGED <<effects, budget, late, faults, now, provider>>
    BY <2>1, <1>3 DEF brokerRest, tableUnchanged
  <2>11. call' = [call EXCEPT ![r] = Idle] /\ run[r].at \notin Closing
    BY <1>3, <1>4 DEF Forget, Closing
  <2>12. QED BY <2>3, <2>6, <2>8, <2>9, <2>10, <2>11, IdleIsFresh, BrokerFrame
<1>9. QED BY <1>7, <1>8

\* The intent was not acknowledged.
LEMMA AppendFailedKeeps ==
  ASSUME ReleaseInv, NEW r \in Runs, AppendFailed(r)
  PROVE  ReleaseInv'
<1>1. CASE Job[r] = "reserve"
  BY <1>1, GoRead DEF AppendFailed, At, Closing
<1>2. CASE Job[r] # "reserve"
  BY <1>2, EndsUnknown DEF AppendFailed
<1>3. QED BY <1>1, <1>2

\* The read that was to confirm the intent did not.
LEMMA IntentNotConfirmedKeeps ==
  ASSUME ReleaseInv, NEW r \in Runs, IntentNotConfirmed(r)
  PROVE  ReleaseInv'
BY EndsUnknown DEF IntentNotConfirmed

-----------------------------------------------------------------------------
(* Dispatch runs: the reads, and the mutations of the provider.             *)

\* A dispatch and a finalization begin by reading the record.
LEMMA StartWithLookupKeeps ==
  ASSUME ReleaseInv, NEW r \in Runs, StartWithLookup(r)
  PROVE  ReleaseInv'
<1>1. PICK l \in lookups :
        /\ l.approval = ApprovalOf[r]
        /\ run' = [run EXCEPT ![r] = [at |-> "intent", since |-> now,
                                      intent |-> l.intent]]
  BY DEF StartWithLookup
<1>2. /\ run \in [Runs -> RunShape] /\ run[r] \in RunShape /\ now \in 0..MaxTime
      /\ RunInv(r, run[r], call[r])
      /\ lookups \subseteq [approval : Approvals, intent : Runs]
  BY OwnFacts
<1>3. LookupInv(l) /\ l.intent \in Runs BY <1>1, <1>2 DEF ReleaseInv
<1>4. PICK x : x = [at |-> "intent", since |-> now, intent |-> l.intent] OBVIOUS
<1>5. /\ x \in RunShape /\ x.at = "intent" /\ x.intent = l.intent
      /\ run' = [run EXCEPT ![r] = x]
  BY <1>1, <1>2, <1>3, <1>4 DEF RunShape, Places, Maybe
<1>6. PICK c : c = Request(r, "readStrong", None, None, None) OBVIOUS
<1>7. c.op = "readStrong" BY <1>6 DEF Request, Idle
<1>8. /\ run[r].at = "idle" /\ Job[r] \in {"dispatch", "finalize"}
      /\ AskRead(r) /\ brokerRest /\ tableUnchanged
  BY DEF StartWithLookup, At
<1>9. RunInv(r, x, c)
  BY <1>1, <1>2, <1>3, <1>5, <1>7, <1>8 DEF RunInv, Calling, OpAt, LookupInv, KeyOf
<1>10. RunInv(r, x, Request(r, "readStrong", None, None, None)) BY <1>6, <1>9
<1>11. /\ "readStrong" \in Operations /\ None \in Maybe(Runs) /\ None \in Maybe(Outcomes)
       /\ run[r].at \notin Closing
  BY <1>8 DEF Operations, Maybe, Closing
<1>12. QED BY <1>5, <1>8, <1>10, <1>11, AskFrame DEF AskRead

\* A run that forgets its operation and goes on without one.
LEMMA GoOn ==
  ASSUME ReleaseInv, NEW r \in Runs, NEW at \in {"first", "readback"},
         Goto(r, at), Forget(r), brokerRest, tableUnchanged,
         run[r].at \in {"intent", "permit"},
         at = "first" => Job[r] = "dispatch", at = "readback" => Job[r] = "finalize"
  PROVE  ReleaseInv'
<1>1. /\ run \in [Runs -> RunShape] /\ run[r] \in RunShape
      /\ RunInv(r, run[r], call[r])
  BY OwnFacts
<1>2. PICK x : x = [run[r] EXCEPT !.at = at] OBVIOUS
<1>3. /\ x \in RunShape /\ x.at = at /\ x.intent = run[r].intent
      /\ run' = [run EXCEPT ![r] = x]
  BY <1>1, <1>2 DEF RunShape, Places, Goto
<1>4. RunInv(r, x, Idle) BY <1>1, <1>3 DEF RunInv, Calling
<1>5. PICK p : p = report[r] OBVIOUS
<1>6. p \in Maybe(Reports) /\ ReportInv(r, p) /\ report' = [report EXCEPT ![r] = p]
  BY <1>5 DEF ReleaseInv, ReleaseTypeOK, brokerRest
<1>7. /\ lookups' \subseteq [approval : Approvals, intent : Runs]
      /\ \A l \in lookups' : LookupInv(l)
  BY DEF ReleaseInv, ReleaseTypeOK, brokerRest
<1>8. UNCHANGED <<effects, budget, late, faults, now, provider>>
  BY DEF brokerRest, tableUnchanged
<1>9. call' = [call EXCEPT ![r] = Idle] /\ run[r].at \notin Closing
  BY DEF Forget, Closing
<1>10. QED BY <1>3, <1>4, <1>6, <1>7, <1>8, <1>9, IdleIsFresh, BrokerFrame

\* The record a dispatch found is its INTENT: it may mutate.
LEMMA DispatchReadsKeeps ==
  ASSUME ReleaseInv, NEW r \in Runs, DispatchReads(r)
  PROVE  ReleaseInv'
<1>1. /\ run[r].at \in {"intent", "permit"} /\ Job[r] = "dispatch" /\ tableUnchanged
      /\ run[r].at \notin Closing \cup {"last", "readback"}
  BY DEF DispatchReads, Closing
<1> DEFINE Same == /\ Fresh(r) /\ Status(r) = "RECORD"
                   /\ Seen(r).state = "INTENT" /\ Seen(r).intent = run[r].intent
<1>2. CASE Same /\ At(r, "intent")
  BY <1>1, <1>2, GoRead DEF DispatchReads, At
<1>3. CASE Same /\ ~At(r, "intent")
  BY <1>1, <1>3, GoOn DEF DispatchReads
<1>4. CASE ~Same
  <2>1. PICK p : p = IF Fresh(r) THEN "REJECTED" ELSE "UNKNOWN_DO_NOT_ACT" OBVIOUS
  <2>2. p \in {"UNKNOWN_DO_NOT_ACT", "REJECTED"} BY <2>1
  <2>3. Forget(r) /\ End(r, p) BY <2>1, <1>4 DEF DispatchReads
  <2>4. QED BY <2>2, <2>3, <1>1, EndsUnknown
<1>5. QED BY <1>2, <1>3, <1>4

\* A dispatch that stops before the provider is called.
LEMMA DispatchStopsKeeps ==
  ASSUME ReleaseInv, NEW r \in Runs, DispatchStops(r)
  PROVE  ReleaseInv'
<1>1. /\ RunInv(r, run[r], call[r]) /\ call \in [Runs -> Calls]
  BY OwnFacts
<1>2. call[r] = Idle BY <1>1 DEF DispatchStops, RunInv, Calling
<1>3. Forget(r) BY <1>1, <1>2 DEF Forget, DispatchStops, storeVars
<1>4. PICK p \in {"UNKNOWN_DO_NOT_ACT", "DISPATCH_OBSERVED"} : End(r, p)
  BY DEF DispatchStops
<1>5. tableUnchanged BY DEF DispatchStops, storeVars, tableUnchanged
<1>6. QED BY <1>3, <1>4, <1>5, EndsUnknown

\* While a run is dispatching, the item of its effect belongs to no other
\* single-process run.
LEMMA DispatchIsExclusive ==
  ASSUME ReleaseInv, NEW r \in Runs, run[r].at \in {"first", "last"},
         NEW s \in Runs, Job[s] = "single", effects[KeyOf(r)].consumption = s
  PROVE  s = r
<1>1. /\ RunInv(r, run[r], call[r]) /\ ItemInv(KeyOf(r), effects[KeyOf(r)])
  BY OwnFacts DEF EffectInv
<1>2. effects[KeyOf(r)].approval = ApprovalOf[r] /\ Job[r] \in {"dispatch", "single"}
      /\ (Job[r] = "single" => effects[KeyOf(r)].consumption = r)
  BY <1>1 DEF RunInv
<1>3. ApprovalOf[s] = ApprovalOf[r]
  BY <1>1, <1>2, Present, KeyOfRun DEF ItemInv
<1>4. QED BY <1>2, <1>3, OneBrokerAssumption

\* So nobody has said of it that nothing was dispatched.
LEMMA DispatchIsNotHarmless ==
  ASSUME ReleaseInv, NEW r \in Runs, run[r].at \in {"first", "last"}
  PROVE  ~Harmless(KeyOf(r))
<1>1. SUFFICES ASSUME Harmless(KeyOf(r)) PROVE FALSE OBVIOUS
<1>2. PICK s : s = effects[KeyOf(r)].consumption OBVIOUS
<1>3. s \in Runs /\ Job[s] = "single" /\ run[s].at \in Closing
  BY <1>1, <1>2 DEF Harmless
<1>4. s = r BY <1>2, <1>3, DispatchIsExclusive
<1>5. QED BY <1>3, <1>4 DEF Closing

\* A call of the provider keeps the invariant.
LEMMA MutateFrame ==
  ASSUME ReleaseInv, NEW r \in Runs, run[r].at \in {"first", "last"},
         NEW d \in {1, 2}, Mutate(r, d), NEW at \in {"last", "readback", "ended"},
         Goto(r, at), NEW p \in Maybe(Reports), report' = [report EXCEPT ![r] = p],
         ReportInv(r, p), UNCHANGED <<storeVars, now, lookups>>,
         at = "readback" => d = 2 /\ Job[r] = "single"
  PROVE  ReleaseInv'
<1> DEFINE k == KeyOf(r)
           i == run[r].intent
<1>1. /\ run \in [Runs -> RunShape] /\ run[r] \in RunShape
      /\ RunInv(r, run[r], call[r]) /\ EffectInv(k)
  BY OwnFacts
<1>2. provider \in [Keys -> [tokens : SUBSET Runs, done : 0..2]]
      /\ report \in [Runs -> Maybe(Reports)]
      /\ late \subseteq [by : Runs, request : Calls]
  BY DEF ReleaseInv, ReleaseTypeOK, StoreTypeOK
<1>3. k \in Keys BY KeyOfRun
<1>4. i \in Runs /\ effects[k].intent = i /\ effects[k].approval = ApprovalOf[r]
      /\ Job[r] \in {"dispatch", "single"}
      /\ (Job[r] = "single" => effects[k].consumption = r) /\ call[r] = Idle
  BY <1>1 DEF RunInv, Calling
<1>5. /\ provider' \in [Keys -> [tokens : SUBSET Runs, done : 0..2]]
      /\ provider'[k].tokens = {i} /\ provider'[k].done \in d..2
      /\ provider[k].done = 2 => provider'[k].done = 2
      /\ \A h \in Keys : h # k => provider'[h] = provider[h]
  <2>1. PICK q : q = [tokens |-> provider[k].tokens \cup {i},
                      done |-> IF provider[k].done < d THEN d ELSE provider[k].done]
    OBVIOUS
  <2>2. provider' = [provider EXCEPT ![k] = q] /\ provider[k].tokens \subseteq {i}
    BY <2>1 DEF Mutate, KeyOf
  <2>3. q \in [tokens : SUBSET Runs, done : 0..2]
    BY <2>1, <1>2, <1>3, <1>4
  <2>4. q.tokens = {i} /\ q.done \in d..2 /\ (provider[k].done = 2 => q.done = 2)
    BY <2>1, <2>2, <1>2, <1>3
  <2>5. QED BY <2>2, <2>3, <2>4, <1>2, <1>3
<1>6. \A h \in Keys : provider[h].done = 2 => provider'[h].done = 2
  BY <1>5
<1>7. PICK x : x = [run[r] EXCEPT !.at = at] OBVIOUS
<1>8. /\ x \in RunShape /\ x.at = at /\ x.intent = i
      /\ run' = [run EXCEPT ![r] = x]
  BY <1>1, <1>7 DEF RunShape, Places, Goto
<1>9. UNCHANGED <<effects, budget, call, late, faults, now, lookups>>
  BY DEF storeVars
<1>10. ReleaseTypeOK'
  <2>1. run' \in [Runs -> RunShape] /\ report' \in [Runs -> Maybe(Reports)]
    BY <1>1, <1>2, <1>8
  <2>2. QED BY <2>1, <1>5, <1>9
            DEF ReleaseInv, ReleaseTypeOK, StoreTypeOK, RunShape, Places
<1>11. ~Harmless(k) BY DispatchIsNotHarmless
<1>12. ASSUME NEW h \in Keys, Harmless(h) PROVE Harmless(h)'
  <2>1. h # k BY <1>11, <1>12
  <2>2. provider'[h] = provider[h] BY <2>1, <1>5
  <2>3. effects[h].consumption # r BY <2>1, <1>12 DEF Harmless
  <2>4. QED BY <1>1, <1>8, <1>9, <1>12, <2>2, <2>3 DEF Harmless
<1>13. ASSUME NEW h \in Keys PROVE EffectInv(h)'
  <2>1. EffectInv(h) BY DEF ReleaseInv
  <2>2. CASE h = k
    <3>1. effects[k].outcome # "FAILED_TERMINAL"
      BY <1>1, <1>4, <1>11, ReleaseAssumption DEF EffectInv
    <3>2. QED BY <2>1, <2>2, <3>1, <1>4, <1>5, <1>9 DEF EffectInv
  <2>3. CASE h # k
    BY <2>1, <2>3, <1>5, <1>9, <1>12 DEF EffectInv
  <2>4. QED BY <2>2, <2>3
<1>14. RunInv(r, x, Idle)'
  BY <1>1, <1>3, <1>4, <1>5, <1>8, <1>9 DEF RunInv, Calling
<1>15. ASSUME NEW s \in Runs PROVE RunInv(s, run[s], call[s])'
  <2>1. RunInv(s, run[s], call[s]) /\ KeyOf(s) \in Keys BY KeyOfRun DEF ReleaseInv
  <2>2. CASE s = r BY <2>2, <1>1, <1>4, <1>8, <1>9, <1>14
  <2>3. CASE s # r /\ KeyOf(s) # k
    BY <2>1, <2>3, <1>1, <1>5, <1>8, <1>9 DEF RunInv
  <2>4. CASE s # r /\ KeyOf(s) = k
    <3>1. ~(Job[s] = "single" /\ effects[k].consumption = s)
      BY <2>4, DispatchIsExclusive
    <3>2. QED BY <2>1, <2>4, <3>1, <1>1, <1>5, <1>8, <1>9 DEF RunInv
  <2>5. QED BY <2>2, <2>3, <2>4
<1>16. ASSUME NEW s \in Runs PROVE CallInv(s, call[s])' /\ FailedInv(s, call[s])'
  <2>1. CallInv(s, call[s]) /\ FailedInv(s, call[s]) /\ KeyOf(s) \in Keys
    BY KeyOfRun DEF ReleaseInv
  <2>2. CallInv(s, call[s])' BY <2>1, <1>6, <1>9 DEF CallInv, RequestInv
  <2>3. FailedInv(s, call[s])' BY <2>1, <1>9, <1>12 DEF FailedInv
  <2>4. QED BY <2>2, <2>3
<1>17. ASSUME NEW s \in Runs PROVE ReportInv(s, report[s])'
  <2>1. ReportInv(s, report[s]) BY DEF ReleaseInv
  <2>2. QED BY <2>1, <1>2, <1>9 DEF ReportInv
<1>18. ASSUME NEW w \in late'
       PROVE  (/\ RequestInv(w.by, w.request)
               /\ FailedInv(w.by, w.request)
               /\ w.request.op \in Writing)'
  <2>1. w \in late /\ w.by \in Runs BY <1>2, <1>9
  <2>2. RequestInv(w.by, w.request) /\ FailedInv(w.by, w.request)
        /\ w.request.op \in Writing /\ KeyOf(w.by) \in Keys
    BY <2>1, KeyOfRun DEF ReleaseInv
  <2>3. QED BY <2>2, <1>6, <1>12 DEF RequestInv, FailedInv
<1>19. ASSUME NEW l \in lookups' PROVE LookupInv(l)'
  <2>1. LookupInv(l) BY <1>9 DEF ReleaseInv
  <2>2. QED BY <2>1, <1>9 DEF LookupInv
<1>20. QED BY <1>10, <1>13, <1>15, <1>16, <1>17, <1>18, <1>19 DEF ReleaseInv

\* The first call of the provider, with the intent as its token.
LEMMA DispatchFirstKeeps ==
  ASSUME ReleaseInv, NEW r \in Runs, DispatchFirst(r)
  PROVE  ReleaseInv'
<1>1. PICK at : at = IF Job[r] = "dispatch" => AuthorityFresh(r) THEN "last" ELSE "ended"
  OBVIOUS
<1>2. at \in {"last", "readback", "ended"} /\ at # "readback" /\ Goto(r, at)
  BY <1>1 DEF DispatchFirst
<1>3. PICK p : p = report[r] OBVIOUS
<1>4. p \in Maybe(Reports) /\ ReportInv(r, p) /\ report' = [report EXCEPT ![r] = p]
  BY <1>3 DEF ReleaseInv, ReleaseTypeOK, DispatchFirst
<1>5. /\ run[r].at \in {"first", "last"} /\ Mutate(r, 1)
      /\ UNCHANGED <<storeVars, now, lookups>>
  BY DEF DispatchFirst, At
<1>6. QED BY <1>2, <1>4, <1>5, MutateFrame

\* The second call of the provider, with the same token.
LEMMA DispatchLastKeeps ==
  ASSUME ReleaseInv, NEW r \in Runs, DispatchLast(r)
  PROVE  ReleaseInv'
<1>1. /\ run[r].at \in {"first", "last"} /\ Mutate(r, 2)
      /\ UNCHANGED <<storeVars, now, lookups>>
  BY DEF DispatchLast, At
<1>2. CASE Job[r] = "single"
  <2>1. PICK p : p = report[r] OBVIOUS
  <2>2. p \in Maybe(Reports) /\ ReportInv(r, p) /\ report' = [report EXCEPT ![r] = p]
    BY <2>1, <1>2 DEF ReleaseInv, ReleaseTypeOK, DispatchLast
  <2>3. Goto(r, "readback") BY <1>2 DEF DispatchLast
  <2>4. QED BY <2>2, <2>3, <1>1, <1>2, MutateFrame
<1>3. CASE Job[r] # "single"
  <2>1. /\ "UNKNOWN_DO_NOT_ACT" \in Maybe(Reports) /\ ReportInv(r, "UNKNOWN_DO_NOT_ACT")
    BY DEF Maybe, Reports, ReportInv
  <2>2. Goto(r, "ended") /\ report' = [report EXCEPT ![r] = "UNKNOWN_DO_NOT_ACT"]
    BY <1>3 DEF DispatchLast, Goto
  <2>3. QED BY <2>1, <2>2, <1>1, MutateFrame
<1>4. QED BY <1>2, <1>3

-----------------------------------------------------------------------------
(* Terminal records.                                                        *)

\* A single-process run, at first, holds an effect that nobody has touched.
LEMMA SingleOutcomeKeeps ==
  ASSUME ReleaseInv, NEW r \in Runs, SingleOutcome(r)
  PROVE  ReleaseInv'
<1>1. /\ run \in [Runs -> RunShape] /\ run[r] \in RunShape
      /\ RunInv(r, run[r], call[r])
  BY OwnFacts
<1>2. /\ Job[r] = "single" /\ Goto(r, "finalize")
      /\ run[r].at \in {"first", "last", "readback"}
  BY DEF SingleOutcome
<1>3. PICK o \in Outcomes : /\ AskTerminal(r, o)
                            /\ o = "CONFIRMED" => run[r].at = "readback"
                            /\ o = "FAILED_TERMINAL" => run[r].at = "first"
  BY DEF SingleOutcome, At, Outcomes
<1>4. PICK i : i = run[r].intent OBVIOUS
<1>5. i \in Maybe(Runs) BY <1>1, <1>4 DEF RunShape
<1>6. /\ Ask(r, "writeTerminal", None, i, o) /\ brokerRest /\ tableUnchanged
  BY <1>3, <1>4 DEF AskTerminal
<1>7. /\ "finalize" \in Calling /\ "writeTerminal" \in Operations
      /\ "writeTerminal" = OpAt(r, "finalize") /\ "finalize" \in Closing
      /\ None \in Maybe(Runs) /\ o \in Maybe(Outcomes)
  BY <1>3 DEF Calling, Operations, OpAt, Maybe, Closing
<1>8. o = "CONFIRMED" => provider[KeyOf(r)].done = 2 BY <1>1, <1>2, <1>3 DEF RunInv
<1>9. o = "FAILED_TERMINAL" => Harmless(KeyOf(r))'
  <2>1. SUFFICES ASSUME o = "FAILED_TERMINAL" PROVE Harmless(KeyOf(r))' OBVIOUS
  <2>2. effects[KeyOf(r)].consumption = r /\ provider[KeyOf(r)].tokens = {}
    BY <2>1, <1>1, <1>2, <1>3 DEF RunInv
  <2>3. run'[r].at = "finalize" BY <1>1, <1>2 DEF Goto, RunShape
  <2>4. UNCHANGED <<effects, provider>> BY <1>6 DEF brokerRest, tableUnchanged
  <2>5. QED BY <2>2, <2>3, <2>4, <1>2 DEF Harmless, Closing
<1>10. QED BY <1>2, <1>3, <1>5, <1>6, <1>7, <1>8, <1>9, GoAsk

\* The answer TERMINAL repeats what the item says.
LEMMA TerminalAnswer ==
  ASSUME ReleaseInv, NEW r \in Runs, call[r].op = "writeTerminal", Status(r) = "TERMINAL"
  PROVE  /\ call[r].outcome \in Outcomes
         /\ effects[KeyOf(r)].outcome = call[r].outcome
<1>1. CallInv(r, call[r]) BY OwnFacts
<1>2. call[r].at = "done" BY <1>1, ReleaseAssumption DEF CallInv, Status, Answers
<1>3. QED BY <1>1, <1>2 DEF CallInv, RequestInv, Status

\* The terminal record of the single-process broker is answered.
LEMMA SingleFinalizedKeeps ==
  ASSUME ReleaseInv, NEW r \in Runs, SingleFinalized(r)
  PROVE  ReleaseInv'
<1>1. /\ run[r] \in RunShape /\ RunInv(r, run[r], call[r])
  BY OwnFacts
<1>2. /\ Job[r] = "single" /\ run[r].at \in {"finalize", "settle"} /\ tableUnchanged
  BY DEF SingleFinalized
<1>3. call[r].op = "writeTerminal" BY <1>1, <1>2 DEF RunInv, Calling, OpAt
<1> DEFINE Again == /\ Status(r) = "ERROR" /\ At(r, "finalize")
                    /\ call[r].outcome # "AMBIGUOUS"
<1>4. CASE Status(r) = "TERMINAL"
  <2>1. PICK o : o = call[r].outcome OBVIOUS
  <2>2. o \in Outcomes /\ effects[KeyOf(r)].outcome = o
    BY <2>1, <1>3, <1>4, TerminalAnswer
  <2>3. Forget(r) /\ End(r, ReportOf(o)) BY <2>1, <1>4 DEF SingleFinalized
  <2>4. QED BY <2>2, <2>3, <1>2, EndsReporting
<1>5. CASE Again
  <2>1. PICK i : i = run[r].intent OBVIOUS
  <2>2. /\ Goto(r, "settle") /\ brokerRest
        /\ Ask(r, "writeTerminal", None, i, "AMBIGUOUS")
    BY <2>1, <1>5 DEF SingleFinalized
  <2>3. i \in Maybe(Runs) BY <2>1, <1>1 DEF RunShape
  <2>4. /\ "settle" \in Calling /\ "writeTerminal" \in Operations
        /\ "writeTerminal" = OpAt(r, "settle") /\ "settle" \in Closing
        /\ None \in Maybe(Runs) /\ "AMBIGUOUS" \in Outcomes
        /\ "AMBIGUOUS" \in Maybe(Outcomes)
    BY <1>2 DEF Calling, Operations, OpAt, Maybe, Closing, Outcomes
  <2>5. QED BY <2>2, <2>3, <2>4, <1>2, GoAsk
<1>6. CASE Status(r) # "TERMINAL" /\ ~Again
  BY <1>2, <1>6, EndsUnknown DEF SingleFinalized
<1>7. QED BY <1>4, <1>5, <1>6

\* The record a finalization found.
LEMMA FinalizeReadsKeeps ==
  ASSUME ReleaseInv, NEW r \in Runs, FinalizeReads(r)
  PROVE  ReleaseInv'
<1>1. /\ Job[r] = "finalize" /\ run[r].at = "intent" /\ Forget(r) /\ tableUnchanged
  BY DEF FinalizeReads, At
<1>2. call[r].op = "readStrong" BY <1>1, OwnFacts DEF RunInv, Calling, OpAt
<1> DEFINE Mine == /\ Fresh(r) /\ Status(r) = "RECORD"
                   /\ Seen(r).intent = run[r].intent
<1>3. CASE ~Fresh(r) BY <1>1, <1>3, EndsUnknown DEF FinalizeReads
<1>4. CASE Mine /\ Seen(r).state = "TERMINAL"
  <2>1. PICK o : o = Seen(r).outcome OBVIOUS
  <2>2. o \in Outcomes /\ effects[KeyOf(r)].outcome = o
    BY <2>1, <1>2, <1>4, SeenRecord
  <2>3. End(r, ReportOf(o)) BY <2>1, <1>4 DEF FinalizeReads
  <2>4. QED BY <2>2, <2>3, <1>1, EndsReporting
<1>5. CASE Mine /\ Seen(r).state # "TERMINAL"
  BY <1>1, <1>5, GoOn DEF FinalizeReads
<1>6. CASE Fresh(r) /\ ~Mine BY <1>1, <1>6, EndsUnknown DEF FinalizeReads
<1>7. QED BY <1>3, <1>4, <1>5, <1>6

\* The independent readback: CONFIRMED only for the whole effect of this token.
LEMMA ReadbackKeeps ==
  ASSUME ReleaseInv, NEW r \in Runs, Readback(r)
  PROVE  ReleaseInv'
<1>1. /\ run[r] \in RunShape /\ RunInv(r, run[r], call[r]) /\ call \in [Runs -> Calls]
  BY OwnFacts
<1>2. Job[r] = "finalize" /\ run[r].at = "readback" BY DEF Readback, At
<1>3. CASE Fresh(r)
  <2>1. PICK o \in Readbacks(r) : Goto(r, "finalize") /\ AskTerminal(r, o)
    BY <1>3 DEF Readback
  <2>2. /\ o \in Outcomes /\ o # "FAILED_TERMINAL"
        /\ o = "CONFIRMED" => provider[KeyOf(r)].done = 2
    BY <2>1 DEF Readbacks, Outcomes, KeyOf
  <2>3. PICK i : i = run[r].intent OBVIOUS
  <2>4. i \in Maybe(Runs) BY <1>1, <2>3 DEF RunShape
  <2>5. Ask(r, "writeTerminal", None, i, o) /\ brokerRest /\ tableUnchanged
    BY <2>1, <2>3 DEF AskTerminal
  <2>6. /\ "finalize" \in Calling /\ "writeTerminal" \in Operations
        /\ "writeTerminal" = OpAt(r, "finalize") /\ "finalize" \in Closing
        /\ None \in Maybe(Runs) /\ o \in Maybe(Outcomes)
    BY <2>2 DEF Calling, Operations, OpAt, Maybe, Closing
  <2>7. QED BY <2>1, <2>2, <2>4, <2>5, <2>6, GoAsk
<1>4. CASE ~Fresh(r)
  <2>1. End(r, "UNKNOWN_DO_NOT_ACT") /\ UNCHANGED storeVars BY <1>4 DEF Readback
  <2>2. call[r] = Idle BY <1>1, <1>2 DEF RunInv, Calling
  <2>3. Forget(r) /\ tableUnchanged
    BY <2>1, <2>2, <1>1 DEF Forget, storeVars, tableUnchanged
  <2>4. QED BY <2>1, <2>3, EndsUnknown
<1>5. QED BY <1>3, <1>4

\* The terminal record of a finalization is answered or read back.
LEMMA FinalizedKeeps ==
  ASSUME ReleaseInv, NEW r \in Runs, Finalized(r)
  PROVE  ReleaseInv'
<1>1. /\ RunInv(r, run[r], call[r]) BY OwnFacts
<1>2. /\ Job[r] = "finalize" /\ run[r].at \in {"finalize", "settle"} /\ tableUnchanged
  BY DEF Finalized
<1> DEFINE Written == At(r, "finalize") /\ Status(r) = "TERMINAL"
           Unsure == At(r, "finalize") /\ Status(r) # "TERMINAL" /\ Fresh(r)
           Found == /\ At(r, "settle") /\ Fresh(r)
                    /\ Status(r) = "RECORD" /\ Seen(r).state = "TERMINAL"
<1>3. CASE Written
  <2>1. call[r].op = "writeTerminal" BY <1>1, <1>3 DEF RunInv, Calling, OpAt, At
  <2>2. PICK o : o = call[r].outcome OBVIOUS
  <2>3. o \in Outcomes /\ effects[KeyOf(r)].outcome = o
    BY <2>1, <2>2, <1>3, TerminalAnswer
  <2>4. Forget(r) /\ End(r, ReportOf(o)) BY <2>2, <1>3 DEF Finalized, At
  <2>5. QED BY <2>3, <2>4, <1>2, EndsReporting
<1>4. CASE Unsure
  <2>1. /\ Goto(r, "settle") /\ brokerRest
        /\ Ask(r, "readStrong", None, None, None)
    BY <1>4 DEF Finalized, At, AskRead
  <2>2. /\ "settle" \in Calling /\ "readStrong" \in Operations
        /\ "readStrong" = OpAt(r, "settle") /\ "settle" \in Closing
        /\ None \in Maybe(Runs) /\ None \in Maybe(Outcomes)
    BY <1>2 DEF Calling, Operations, OpAt, Maybe, Closing
  <2>3. QED BY <2>1, <2>2, <1>2, GoAsk
<1>5. CASE Found
  <2>1. call[r].op = "readStrong" BY <1>1, <1>2, <1>5 DEF RunInv, Calling, OpAt, At
  <2>2. PICK o : o = Seen(r).outcome OBVIOUS
  <2>3. o \in Outcomes /\ effects[KeyOf(r)].outcome = o
    BY <2>1, <2>2, <1>5, SeenRecord
  <2>4. Forget(r) /\ End(r, ReportOf(o)) BY <2>2, <1>5 DEF Finalized, At
  <2>5. QED BY <2>3, <2>4, <1>2, EndsReporting
<1>6. CASE ~Written /\ ~Unsure /\ ~Found
  BY <1>2, <1>6, EndsUnknown DEF Finalized
<1>7. QED BY <1>3, <1>4, <1>5, <1>6

\* terminalizeExpiredProviderOneShotBroker begins.
LEMMA StartTerminalizeKeeps ==
  ASSUME ReleaseInv, NEW r \in Runs, StartTerminalize(r)
  PROVE  ReleaseInv'
<1>1. /\ run \in [Runs -> RunShape] /\ run[r] \in RunShape /\ now \in 0..MaxTime
      /\ RunInv(r, run[r], call[r])
  BY OwnFacts
<1>2. PICK x : x = [run[r] EXCEPT !.at = "expired", !.since = now] OBVIOUS
<1>3. /\ x \in RunShape /\ x.at = "expired" /\ Job[r] = "terminalize"
      /\ run' = [run EXCEPT ![r] = x] /\ run[r].at = "idle"
  BY <1>1, <1>2 DEF RunShape, Places, StartTerminalize, At
<1>4. PICK c : c = Request(r, "readStrong", None, None, None) OBVIOUS
<1>5. c.op = "readStrong" BY <1>4 DEF Request, Idle
<1>6. RunInv(r, x, c) BY <1>1, <1>3, <1>5 DEF RunInv, Calling, OpAt
<1>7. RunInv(r, x, Request(r, "readStrong", None, None, None)) BY <1>4, <1>6
<1>8. /\ "readStrong" \in Operations /\ None \in Maybe(Runs) /\ None \in Maybe(Outcomes)
      /\ run[r].at \notin Closing
  BY <1>3 DEF Operations, Maybe, Closing
<1>9. AskRead(r) /\ brokerRest /\ tableUnchanged BY DEF StartTerminalize
<1>10. QED BY <1>3, <1>7, <1>8, <1>9, AskFrame DEF AskRead

\* An expired CONSUMED record has no intent, so nothing was dispatched under it.
LEMMA TerminalizeReadsKeeps ==
  ASSUME ReleaseInv, NEW r \in Runs, TerminalizeReads(r)
  PROVE  ReleaseInv'
<1>1. /\ run \in [Runs -> RunShape] /\ run[r] \in RunShape
      /\ RunInv(r, run[r], call[r])
  BY OwnFacts
<1>2. /\ Job[r] = "terminalize" /\ run[r].at = "expired" /\ tableUnchanged
  BY DEF TerminalizeReads, At
<1>3. call[r].op = "readStrong" BY <1>1, <1>2 DEF RunInv, Calling, OpAt
<1>4. CASE ~(Due(r) /\ Status(r) = "RECORD")
  BY <1>2, <1>4, EndsUnknown DEF TerminalizeReads
<1>5. CASE Due(r) /\ Status(r) = "RECORD" /\ Seen(r).state = "TERMINAL"
  <2>1. PICK o : o = Seen(r).outcome OBVIOUS
  <2>2. o \in Outcomes /\ effects[KeyOf(r)].outcome = o
    BY <2>1, <1>3, <1>5, SeenRecord
  <2>3. Forget(r) /\ End(r, ReportOf(o)) BY <2>1, <1>5 DEF TerminalizeReads
  <2>4. QED BY <2>2, <2>3, <1>2, EndsReporting
<1>6. CASE Due(r) /\ Status(r) = "RECORD" /\ Seen(r).state # "TERMINAL"
  <2>1. PICK n : n = Seen(r).consumption OBVIOUS
  <2>2. PICK i : i = Seen(r).intent OBVIOUS
  <2>3. PICK o : o = IF Seen(r).state = "INTENT" THEN "AMBIGUOUS" ELSE "FAILED_TERMINAL"
    OBVIOUS
  <2>4. /\ n \in Maybe(Runs) /\ i \in Maybe(Runs)
        /\ o = "FAILED_TERMINAL" => i = None
    BY <2>1, <2>2, <2>3, <1>3, <1>6, SeenRecord DEF Maybe
  <2>5. o \in Outcomes /\ o # "CONFIRMED" /\ o \in Maybe(Outcomes)
    BY <2>3 DEF Outcomes, Maybe
  <2>6. /\ run' = [run EXCEPT ![r].at = "settle", ![r].intent = i] /\ brokerRest
        /\ Ask(r, "writeTerminal", n, i, o)
    BY <2>1, <2>2, <2>3, <1>6 DEF TerminalizeReads
  <2>7. PICK x : x = [run[r] EXCEPT !.at = "settle", !.intent = i] OBVIOUS
  <2>8. /\ x \in RunShape /\ x.at = "settle" /\ run' = [run EXCEPT ![r] = x]
    BY <2>4, <2>6, <2>7, <1>1 DEF RunShape, Places
  <2>9. PICK c : c = Request(r, "writeTerminal", n, i, o) OBVIOUS
  <2>10. c.op = "writeTerminal" BY <2>9 DEF Request, Idle
  <2>11. RunInv(r, x, c) BY <1>2, <2>8, <2>10 DEF RunInv, Calling, OpAt
  <2>12. RunInv(r, x, Request(r, "writeTerminal", n, i, o)) BY <2>9, <2>11
  <2>13. x.at \in Closing /\ "writeTerminal" \in Operations
    BY <2>8 DEF Closing, Operations
  <2>14. QED BY <2>4, <2>5, <2>6, <2>8, <2>12, <2>13, <1>2, AskFrame
<1>7. QED BY <1>4, <1>5, <1>6

\* The terminal record of an expired approval is answered.
LEMMA TerminalizedKeeps ==
  ASSUME ReleaseInv, NEW r \in Runs, Terminalized(r)
  PROVE  ReleaseInv'
<1>1. /\ Job[r] = "terminalize" /\ run[r].at = "settle" /\ tableUnchanged /\ Forget(r)
  BY DEF Terminalized, At
<1>2. call[r].op = "writeTerminal" BY <1>1, OwnFacts DEF RunInv, Calling, OpAt
<1>3. CASE Status(r) = "TERMINAL"
  <2>1. PICK o : o = call[r].outcome OBVIOUS
  <2>2. o \in Outcomes /\ effects[KeyOf(r)].outcome = o
    BY <2>1, <1>2, <1>3, TerminalAnswer
  <2>3. End(r, ReportOf(o)) BY <2>1, <1>3 DEF Terminalized
  <2>4. QED BY <2>2, <2>3, <1>1, EndsReporting
<1>4. CASE Status(r) # "TERMINAL"
  BY <1>1, <1>4, EndsUnknown DEF Terminalized
<1>5. QED BY <1>3, <1>4

-----------------------------------------------------------------------------
(* The requests of the store.                                               *)

\* What an operation knows of the item it still knows after the item went on.
LEMMA CallLater ==
  ASSUME NEW r \in Runs, NEW c, CallInv(r, c),
         ItemInv(KeyOf(r), effects[KeyOf(r)]),
         Precedes(effects[KeyOf(r)], effects'[KeyOf(r)]), UNCHANGED provider
  PROVE  CallInv(r, c)'
<1> DEFINE i == effects[KeyOf(r)]
           j == effects'[KeyOf(r)]
<1>1. Precedes(c.seen, j) BY PrecedesTransitive DEF CallInv
<1>2. ASSUME c.op = "appendIntent", c.answer = "INTENT"
      PROVE  /\ j.approval = c.approval /\ j.consumption = c.consumption
             /\ j.intent = IF c.seen.intent # None THEN c.seen.intent ELSE r
  <2>1. /\ i.approval = c.approval /\ i.consumption = c.consumption
        /\ i.intent = IF c.seen.intent # None THEN c.seen.intent ELSE r
    BY <1>2 DEF CallInv
  <2>2. i.intent # None BY <2>1, ReleaseAssumption
  <2>3. i.intent \in Runs BY <2>2 DEF ItemInv, Items, Maybe
  <2>4. i.state # "ABSENT" BY <2>3, Present
  <2>5. QED BY <2>1, <2>2, <2>4 DEF Precedes
<1>3. ASSUME c.op = "writeTerminal", c.answer = "TERMINAL"
      PROVE  j.outcome = c.outcome
  <2>1. c.at = "done" BY <1>3, ReleaseAssumption DEF CallInv, Answers
  <2>2. i.outcome = c.outcome /\ c.outcome \in Outcomes
    BY <2>1, <1>3 DEF CallInv, RequestInv
  <2>3. i.state = "TERMINAL" BY <2>2, OutcomeIsTerminal
  <2>4. QED BY <2>2, <2>3 DEF Precedes
<1>4. c.at # "idle" => RequestInv(r, c)' BY DEF CallInv, RequestInv
<1>5. QED BY <1>1, <1>2, <1>3, <1>4 DEF CallInv

\* A step of the table keeps the invariant when every item goes on as items do
\* and its new outcome is true.
LEMMA TableFrame ==
  ASSUME ReleaseInv, UNCHANGED brokerVars,
         effects' \in [Keys -> Items], budget' \in [cumulative : Nat, version : Nat],
         call' \in [Runs -> Calls], late' \subseteq [by : Runs, request : Calls],
         faults' \in 0..MaxFaults,
         \A k \in Keys :
           /\ ItemInv(k, effects'[k]) /\ Precedes(effects[k], effects'[k])
           /\ effects'[k].outcome = "CONFIRMED" => provider[k].done = 2
           /\ effects'[k].outcome = "FAILED_TERMINAL" =>
                effects'[k].intent = None \/ Harmless(k),
         \A s \in Runs : RunInv(s, run[s], call'[s]),
         \A s \in Runs : CallInv(s, call[s])',
         \A s \in Runs : FailedInv(s, call'[s]),
         \A w \in late' : /\ RequestInv(w.by, w.request)
                          /\ FailedInv(w.by, w.request)
                          /\ w.request.op \in Writing
  PROVE  ReleaseInv'
<1>1. UNCHANGED <<now, run, lookups, provider, report>> BY DEF brokerVars
<1>2. ReleaseTypeOK' BY <1>1 DEF ReleaseInv, ReleaseTypeOK, StoreTypeOK
<1>3. ASSUME NEW k \in Keys PROVE ItemInv(k, effects[k])
  BY DEF ReleaseInv, EffectInv
<1>4. ASSUME NEW k \in Keys, effects[k].consumption \in Runs \/ effects[k].intent \in Runs
      PROVE  /\ effects'[k].approval = effects[k].approval
             /\ effects'[k].consumption = effects[k].consumption
  BY <1>3, <1>4, Present DEF Precedes
<1>5. ASSUME NEW k \in Keys, effects[k].intent \in Runs
      PROVE  effects'[k].intent = effects[k].intent
  BY <1>5, ReleaseAssumption DEF Precedes
<1>6. ASSUME NEW k \in Keys, Harmless(k) PROVE Harmless(k)'
  BY <1>1, <1>4, <1>6 DEF Harmless
<1>7. ASSUME NEW k \in Keys, provider[k].tokens # {} PROVE effects[k].intent \in Runs
  <2>1. provider[k].tokens \subseteq Runs BY DEF ReleaseInv, ReleaseTypeOK
  <2>2. provider[k].tokens = {effects[k].intent} BY <1>7 DEF ReleaseInv, EffectInv
  <2>3. QED BY <2>1, <2>2
<1>8. ASSUME NEW k \in Keys PROVE EffectInv(k)'
  <2>1. EffectInv(k) BY DEF ReleaseInv
  <2>2. provider'[k].tokens # {} => provider'[k].tokens = {effects'[k].intent}
    BY <2>1, <1>1, <1>5, <1>7 DEF EffectInv
  <2>3. QED BY <2>1, <2>2, <1>1, <1>6 DEF EffectInv
<1>9. ASSUME NEW s \in Runs PROVE RunInv(s, run[s], call[s])'
  <2>1. RunInv(s, run[s], call'[s]) /\ KeyOf(s) \in Keys BY KeyOfRun
  <2>2. Job[s] = "single" /\ effects'[KeyOf(s)].consumption = s
          /\ run[s].at \notin {"last", "readback", "finalize", "settle", "ended"} =>
          provider[KeyOf(s)].tokens = {}
    BY <2>1, <1>4, <1>7 DEF RunInv
  <2>3. run[s].at \in {"intent", "permit", "first", "last", "readback"} =>
          /\ effects'[KeyOf(s)].approval = ApprovalOf[s]
          /\ effects'[KeyOf(s)].intent = run[s].intent
          /\ effects'[KeyOf(s)].consumption = effects[KeyOf(s)].consumption
    BY <2>1, <1>4, <1>5 DEF RunInv
  <2>4. QED BY <2>1, <2>2, <2>3, <1>1 DEF RunInv
<1>10. ASSUME NEW s \in Runs PROVE FailedInv(s, call[s])'
  BY <1>6, KeyOfRun DEF FailedInv
<1>11. ASSUME NEW s \in Runs PROVE ReportInv(s, report[s])'
  <2>1. ReportInv(s, report[s]) /\ KeyOf(s) \in Keys BY KeyOfRun DEF ReleaseInv
  <2>2. ASSUME effects[KeyOf(s)].outcome \in Outcomes
        PROVE  effects'[KeyOf(s)] = effects[KeyOf(s)]
    BY <2>1, <2>2, <1>3, OutcomeIsTerminal DEF Precedes
  <2>3. QED BY <2>1, <2>2, <1>1 DEF ReportInv, Outcomes
<1>12. ASSUME NEW w \in late'
       PROVE  (/\ RequestInv(w.by, w.request)
               /\ FailedInv(w.by, w.request)
               /\ w.request.op \in Writing)'
  <2>1. /\ RequestInv(w.by, w.request) /\ FailedInv(w.by, w.request)
        /\ w.request.op \in Writing /\ w.by \in Runs /\ KeyOf(w.by) \in Keys
    BY KeyOfRun
  <2>2. QED BY <2>1, <1>1, <1>6 DEF RequestInv, FailedInv
<1>13. ASSUME NEW l \in lookups' PROVE LookupInv(l)'
  <2>1. /\ LookupInv(l) /\ l.intent \in Runs /\ l.approval.key \in Keys
    BY <1>1 DEF ReleaseInv, ReleaseTypeOK, Keys
  <2>2. QED BY <2>1, <1>4, <1>5 DEF LookupInv
<1>14. QED BY <1>2, <1>8, <1>9, <1>10, <1>11, <1>12, <1>13 DEF ReleaseInv

\* What a conditional write does to the table.
GoesOn(k) ==
  /\ ItemInv(k, effects'[k]) /\ Precedes(effects[k], effects'[k])
  /\ effects'[k].outcome = "CONFIRMED" => provider[k].done = 2
  /\ effects'[k].outcome = "FAILED_TERMINAL" =>
       effects'[k].intent = None \/ Harmless(k)

\* A table that stays as it was goes on in the order of its records.
LEMMA StaysPut ==
  ASSUME ReleaseInv, NEW k \in Keys, effects'[k] = effects[k]
  PROVE  GoesOn(k)
<1>1. EffectInv(k) BY DEF ReleaseInv
<1>2. QED BY <1>1, PrecedesItself DEF EffectInv, GoesOn

\* A conditional write that is applied replaces a record by a later one.
LEMMA AppliedGoesOn ==
  ASSUME ReleaseInv, NEW r \in Runs, NEW c \in Calls, c.op \in Writing,
         RequestInv(r, c), FailedInv(r, c), Holds(c), Applied(r, c)
  PROVE  /\ effects' \in [Keys -> Items]
         /\ budget' \in [cumulative : Nat, version : Nat]
         /\ \A k \in Keys : GoesOn(k)
         /\ c.op = "appendIntent" =>
              /\ effects'[KeyOf(r)].approval = c.approval
              /\ effects'[KeyOf(r)].consumption = c.consumption
              /\ effects'[KeyOf(r)].intent = r
         /\ c.op = "writeTerminal" => effects'[KeyOf(r)].outcome = c.outcome
<1> DEFINE K == KeyOf(r)
<1>1. /\ c.approval = ApprovalOf[r] /\ c.approval.key = K /\ K \in Keys
      /\ ApprovalOf[r] \in Approvals
  BY KeyOfRun DEF RequestInv, KeyOf
<1>2. /\ effects \in [Keys -> Items] /\ EffectInv(K) /\ ItemInv(K, effects[K])
      /\ budget \in [cumulative : Nat, version : Nat]
  BY OwnFacts DEF EffectInv, ReleaseInv, ReleaseTypeOK, StoreTypeOK
<1>3. c.prior + c.approval.amount \in Nat /\ c.version + 1 \in Nat
  BY <1>1, ReleaseAssumption DEF Calls
<1>4. CASE c.op = "consumeOnce"
  <2>1. ConsumeHolds(c) /\ ConsumeApplied(r, c) BY <1>4 DEF Holds, Applied
  <2>2. PICK i : i = [Absent EXCEPT !.state = "CONSUMED", !.approval = c.approval,
                                    !.consumption = r]
    OBVIOUS
  <2>3. effects' = [effects EXCEPT ![K] = i] /\ effects[K] = Absent
    BY <2>1, <2>2, <1>1 DEF ConsumeApplied, ConsumeHolds
  <2>4. /\ i.state = "CONSUMED" /\ i.approval = ApprovalOf[r] /\ i.consumption = r
        /\ i.intent = None /\ i.outcome = None
    BY <2>2, <1>1 DEF Absent
  <2>5. i \in Items BY <2>2, <1>1 DEF Absent, Items, Maybe
  <2>6. ItemInv(K, i) BY <2>4, <2>5, <1>1 DEF ItemInv
  <2>7. effects'[K] = i /\ effects' \in [Keys -> Items] BY <2>3, <2>5, <1>1, <1>2
  <2>8. GoesOn(K)
    BY <2>3, <2>4, <2>6, <2>7, AbsentPrecedes, ReleaseAssumption DEF GoesOn, Outcomes
  <2>9. ASSUME NEW k \in Keys, k # K PROVE GoesOn(k)
    BY <2>3, <2>9, <1>2, StaysPut
  <2>10. budget' \in [cumulative : Nat, version : Nat]
    BY <2>1, <1>3 DEF ConsumeApplied
  <2>11. QED BY <1>4, <2>7, <2>8, <2>9, <2>10
<1>5. CASE c.op = "appendIntent"
  <2>1. IntentHolds(c) /\ IntentApplied(r, c) BY <1>5 DEF Holds, Applied
  <2>2. PICK i : i = [effects[K] EXCEPT !.state = "INTENT", !.intent = r] OBVIOUS
  <2>3. /\ effects' = [effects EXCEPT ![K] = i]
        /\ effects[K].state = "CONSUMED" /\ effects[K].approval = c.approval
        /\ effects[K].consumption = c.consumption
    BY <2>1, <2>2, <1>1, <1>2 DEF IntentApplied, IntentHolds
  <2>4. effects[K] \in Items BY <1>1, <1>2
  <2>5. /\ i.state = "INTENT" /\ i.approval = effects[K].approval
        /\ i.consumption = effects[K].consumption
        /\ i.intent = r /\ i.outcome = effects[K].outcome
    BY <2>2, <2>4 DEF Items
  <2>6. i \in Items BY <2>2, <2>4 DEF Items, Maybe
  <2>7. ItemInv(K, i) BY <2>3, <2>5, <2>6, <1>2 DEF ItemInv
  <2>8. Precedes(effects[K], i) BY <2>3, <2>5, <1>2 DEF Precedes, ItemInv
  <2>9. effects'[K] = i /\ effects' \in [Keys -> Items] BY <2>3, <2>6, <1>1, <1>2
  <2>10. i.outcome = None BY <2>5, <2>7 DEF ItemInv
  <2>11. GoesOn(K)
    BY <2>7, <2>8, <2>9, <2>10, ReleaseAssumption DEF GoesOn, Outcomes
  <2>12. ASSUME NEW k \in Keys, k # K PROVE GoesOn(k)
    BY <2>3, <2>12, <1>2, StaysPut
  <2>13. budget' \in [cumulative : Nat, version : Nat]
    BY <2>1, <1>2 DEF IntentApplied
  <2>14. QED BY <1>5, <2>3, <2>5, <2>9, <2>11, <2>12, <2>13
<1>6. CASE c.op = "writeTerminal"
  <2>1. TerminalHolds(c) /\ TerminalApplied(r, c) BY <1>6 DEF Holds, Applied
  <2>2. PICK i : i = [effects[K] EXCEPT !.state = "TERMINAL", !.outcome = c.outcome,
                                        !.terminalBy = r]
    OBVIOUS
  <2>3. effects' = [effects EXCEPT ![K] = i]
    BY <2>1, <2>2, <1>1, <1>2 DEF TerminalApplied
  <2>4. effects[K].state \in {"CONSUMED", "INTENT"} /\ effects[K].intent = c.intent
    BY <2>1, <1>1 DEF TerminalHolds, Predecessor
  <2>5. c.outcome \in Outcomes BY <1>6 DEF RequestInv
  <2>6. effects[K] \in Items BY <1>1, <1>2
  <2>7. /\ i.state = "TERMINAL" /\ i.approval = effects[K].approval
        /\ i.consumption = effects[K].consumption
        /\ i.intent = effects[K].intent /\ i.outcome = c.outcome
    BY <2>2, <2>6 DEF Items
  <2>8. i \in Items BY <2>2, <2>5, <2>6 DEF Items, Maybe
  <2>9. ItemInv(K, i) BY <2>4, <2>5, <2>7, <2>8, <1>2 DEF ItemInv
  <2>10. Precedes(effects[K], i) BY <2>4, <2>7 DEF Precedes
  <2>11. effects'[K] = i /\ effects' \in [Keys -> Items] BY <2>3, <2>8, <1>1, <1>2
  <2>12. GoesOn(K)
    BY <2>4, <2>7, <2>9, <2>10, <2>11, <1>6 DEF GoesOn, RequestInv, FailedInv
  <2>13. ASSUME NEW k \in Keys, k # K PROVE GoesOn(k)
    BY <2>3, <2>13, <1>2, StaysPut
  <2>14. budget' \in [cumulative : Nat, version : Nat]
    BY <2>1, <1>2 DEF TerminalApplied
  <2>15. QED BY <1>6, <2>7, <2>11, <2>12, <2>13, <2>14
<1>7. QED BY <1>4, <1>5, <1>6 DEF Writing

\* A request of r that leaves its operation what it was asked for.
LEMMA RequestFrame ==
  ASSUME ReleaseInv, NEW r \in Runs, NEW c \in Calls, UNCHANGED brokerVars,
         call' = [call EXCEPT ![r] = c], call[r].at # "idle",
         c.op = call[r].op, c.consumption = call[r].consumption,
         c.intent = call[r].intent, c.outcome = call[r].outcome,
         effects' \in [Keys -> Items], budget' \in [cumulative : Nat, version : Nat],
         \A k \in Keys : GoesOn(k), faults' \in 0..MaxFaults,
         late' \in {late, late \cup {[by |-> r, request |-> call[r]]}},
         late' # late => call[r].op \in Writing,
         CallInv(r, c)'
  PROVE  ReleaseInv'
<1>1. /\ call \in [Runs -> Calls] /\ RunInv(r, run[r], call[r]) /\ CallInv(r, call[r])
      /\ FailedInv(r, call[r])
  BY OwnFacts
<1>2. call' \in [Runs -> Calls] BY <1>1
<1>3. ASSUME NEW s \in Runs PROVE RunInv(s, run[s], call'[s])
  <2>1. CASE s = r
    <3>1. run[r].at \in Calling BY <1>1 DEF RunInv, Idle
    <3>2. RunInv(r, run[r], c) BY <3>1, <1>1 DEF RunInv
    <3>3. QED BY <2>1, <3>2, <1>1
  <2>2. CASE s # r BY <2>2, <1>1 DEF ReleaseInv
  <2>3. QED BY <2>1, <2>2
<1>4. ASSUME NEW s \in Runs PROVE CallInv(s, call[s])'
  <2>1. CASE s = r BY <2>1, <1>1
  <2>2. CASE s # r
    <3>1. PICK d : d = call[s] OBVIOUS
    <3>2. d = call'[s] BY <3>1, <2>2, <1>1
    <3>3. CallInv(s, d) /\ KeyOf(s) \in Keys BY <3>1, KeyOfRun DEF ReleaseInv
    <3>4. /\ ItemInv(KeyOf(s), effects[KeyOf(s)])
          /\ Precedes(effects[KeyOf(s)], effects'[KeyOf(s)])
      BY <3>3 DEF ReleaseInv, EffectInv, GoesOn
    <3>5. CallInv(s, d)' BY <3>3, <3>4, CallLater DEF brokerVars
    <3>6. QED BY <3>2, <3>5
  <2>3. QED BY <2>1, <2>2
<1>5. ASSUME NEW s \in Runs PROVE FailedInv(s, call'[s])
  <2>1. FailedInv(s, call[s]) BY DEF ReleaseInv
  <2>2. QED BY <2>1, <1>1 DEF FailedInv
<1>6. /\ late \subseteq [by : Runs, request : Calls]
      /\ \A w \in late : /\ RequestInv(w.by, w.request)
                         /\ FailedInv(w.by, w.request)
                         /\ w.request.op \in Writing
  BY DEF ReleaseInv, ReleaseTypeOK, StoreTypeOK
<1>7. PICK v : v = [by |-> r, request |-> call[r]] OBVIOUS
<1>8. /\ v \in [by : Runs, request : Calls] /\ v.by = r /\ v.request = call[r]
  BY <1>1, <1>7
<1>9. RequestInv(r, call[r]) BY <1>1 DEF CallInv
<1>10. /\ late' \subseteq [by : Runs, request : Calls]
       /\ \A w \in late' : /\ RequestInv(w.by, w.request)
                           /\ FailedInv(w.by, w.request)
                           /\ w.request.op \in Writing
  BY <1>1, <1>6, <1>7, <1>8, <1>9
<1>11. \A k \in Keys :
         /\ ItemInv(k, effects'[k]) /\ Precedes(effects[k], effects'[k])
         /\ effects'[k].outcome = "CONFIRMED" => provider[k].done = 2
         /\ effects'[k].outcome = "FAILED_TERMINAL" =>
              effects'[k].intent = None \/ Harmless(k)
  BY DEF GoesOn
<1>12. QED BY <1>2, <1>3, <1>4, <1>5, <1>10, <1>11, TableFrame

\* The same for a request that leaves the table alone.
LEMMA QuietRequest ==
  ASSUME ReleaseInv, NEW r \in Runs, NEW c \in Calls, UNCHANGED brokerVars,
         call' = [call EXCEPT ![r] = c], call[r].at # "idle",
         c.op = call[r].op, c.consumption = call[r].consumption,
         c.intent = call[r].intent, c.outcome = call[r].outcome,
         UNCHANGED <<effects, budget>>, faults' \in 0..MaxFaults,
         late' \in {late, late \cup {[by |-> r, request |-> call[r]]}},
         late' # late => call[r].op \in Writing, CallInv(r, c)
  PROVE  ReleaseInv'
<1>1. /\ effects' \in [Keys -> Items] /\ budget' \in [cumulative : Nat, version : Nat]
  BY DEF ReleaseInv, ReleaseTypeOK, StoreTypeOK
<1>2. \A k \in Keys : GoesOn(k) BY StaysPut
<1>3. CallInv(r, c)' BY DEF CallInv, RequestInv, brokerVars
<1>4. QED BY <1>1, <1>2, <1>3, RequestFrame

\* The count of faults stays within MaxFaults.
LEMMA FaultsBounded ==
  ASSUME ReleaseInv, Fault \/ UNCHANGED faults
  PROVE  faults' \in 0..MaxFaults
BY ReleaseAssumption DEF ReleaseInv, ReleaseTypeOK, StoreTypeOK, Fault

\* A request that fails is an error to the caller, and says nothing.
LEMMA ErrorKeeps ==
  ASSUME ReleaseInv, NEW r \in Runs, UNCHANGED brokerVars, call[r].at # "idle",
         Answer(r, call[r], "ERROR"), Fault \/ UNCHANGED faults,
         UNCHANGED <<effects, budget, late>>
  PROVE  ReleaseInv'
<1>1. call[r] \in Calls /\ CallInv(r, call[r]) BY OwnFacts
<1>2. PICK c : c = [call[r] EXCEPT !.at = "done", !.answer = "ERROR"] OBVIOUS
<1>3. call' = [call EXCEPT ![r] = c] BY <1>2 DEF Answer
<1>4. /\ c.op = call[r].op /\ c.consumption = call[r].consumption
      /\ c.intent = call[r].intent /\ c.outcome = call[r].outcome
      /\ c.approval = call[r].approval /\ c.seen = call[r].seen
      /\ c.at = "done" /\ c.answer = "ERROR" /\ c \in Calls
  BY <1>1, <1>2 DEF Calls, Answers, Maybe
<1>5. CallInv(r, c) BY <1>1, <1>4 DEF CallInv, RequestInv
<1>6. faults' \in 0..MaxFaults BY FaultsBounded
<1>7. QED BY <1>3, <1>4, <1>5, <1>6, QuietRequest

\* The strong read that each operation of the store begins with.
LEMMA ReadEffectKeeps ==
  ASSUME ReleaseInv, NEW r \in Runs, ReadEffect(r), UNCHANGED brokerVars
  PROVE  ReleaseInv'
<1>1. /\ call[r] \in Calls /\ CallInv(r, call[r]) /\ effects \in [Keys -> Items]
      /\ ItemInv(KeyOf(r), effects[KeyOf(r)])
  BY OwnFacts DEF EffectInv
<1>2. /\ call[r].at = "read" /\ UNCHANGED <<effects, budget, late>>
  BY DEF ReadEffect
<1>3. CASE ReadFails(r) BY <1>2, <1>3, ErrorKeeps DEF ReadFails
<1>4. CASE /\ AfterRead(r, [call[r] EXCEPT !.seen = effects[call[r].approval.key]])
           /\ UNCHANGED faults
  <2>1. PICK d : d = [call[r] EXCEPT !.seen = effects[call[r].approval.key]] OBVIOUS
  <2>2. /\ call[r].approval = ApprovalOf[r] /\ call[r].op \in Operations
        /\ call[r].answer = None
    BY <1>1, <1>2 DEF CallInv, RequestInv
  <2>3. effects[KeyOf(r)] \in Items BY <1>1, KeyOfRun
  <2>4. /\ d \in Calls /\ d.op = call[r].op /\ d.consumption = call[r].consumption
        /\ d.intent = call[r].intent /\ d.outcome = call[r].outcome
        /\ d.approval = ApprovalOf[r] /\ d.seen = effects[KeyOf(r)] /\ d.answer = None
        /\ d.at = "read"
    BY <2>1, <2>2, <2>3, <1>1, <1>2 DEF Calls, KeyOf
  <2>5. AfterRead(r, d) BY <2>1, <1>4
  <2>6. RequestInv(r, d) BY <2>4, <1>1, <1>2 DEF CallInv, RequestInv
  <2>7. /\ ItemInv(KeyOf(r), d.seen) /\ Precedes(d.seen, effects[KeyOf(r)])
    BY <2>4, <1>1, PrecedesItself
  <2>8. faults' \in 0..MaxFaults BY <1>4, FaultsBounded
  <2>9. ASSUME NEW a \in Answers, Answer(r, d, a),
               d.op = "readStrong" => a \in {"RECORD", "ERROR"},
               d.op = "readStrong" /\ a = "RECORD" => d.seen.approval = d.approval,
               d.op = "appendIntent" /\ a = "INTENT" =>
                 /\ d.seen.approval = d.approval /\ d.seen.consumption = d.consumption
                 /\ d.seen.state = "INTENT",
               d.op = "writeTerminal" /\ a = "TERMINAL" => d.seen.outcome = d.outcome
        PROVE  ReleaseInv'
    <3>1. PICK c : c = [d EXCEPT !.at = "done", !.answer = a] OBVIOUS
    <3>2. call' = [call EXCEPT ![r] = c] BY <3>1, <2>9 DEF Answer
    <3>3. /\ c \in Calls /\ c.op = d.op /\ c.consumption = d.consumption
          /\ c.intent = d.intent /\ c.outcome = d.outcome /\ c.approval = d.approval
          /\ c.seen = d.seen /\ c.at = "done" /\ c.answer = a
      BY <3>1, <2>4, <2>9 DEF Calls, Maybe
    <3>4. d.op = "appendIntent" /\ a = "INTENT" => d.seen.intent # None
      BY <2>7, <2>9, ReleaseAssumption DEF ItemInv
    <3>5. RequestInv(r, c) BY <3>3, <2>6 DEF RequestInv
    <3>6. CallInv(r, c) BY <3>3, <3>4, <3>5, <2>4, <2>7, <2>9 DEF CallInv
    <3>7. QED BY <3>2, <3>3, <3>6, <2>4, <2>8, <1>2, QuietRequest
  <2>10. ASSUME NEW at \in {"budget", "write"}, Continue(r, d, at),
                at = "budget" => d.op = "consumeOnce",
                at = "write" => /\ d.op \in Writing
                                /\ d.op = "appendIntent" =>
                                     /\ d.seen.state = "CONSUMED"
                                     /\ d.seen.consumption = d.consumption
         PROVE  ReleaseInv'
    <3>1. PICK c : c = [d EXCEPT !.at = at] OBVIOUS
    <3>2. call' = [call EXCEPT ![r] = c] BY <3>1, <2>10 DEF Continue
    <3>3. /\ c \in Calls /\ c.op = d.op /\ c.consumption = d.consumption
          /\ c.intent = d.intent /\ c.outcome = d.outcome /\ c.approval = d.approval
          /\ c.seen = d.seen /\ c.at = at /\ c.answer = None
      BY <3>1, <2>4 DEF Calls
    <3>4. at \in {"write", "recover"} => at = "write" OBVIOUS
    <3>5. RequestInv(r, c) BY <3>3, <2>6 DEF RequestInv
    <3>6. CallInv(r, c)
      BY <3>3, <3>4, <3>5, <2>7, <2>10, ReleaseAssumption DEF CallInv, Answers
    <3>7. QED BY <3>2, <3>3, <3>6, <2>4, <2>8, <1>2, QuietRequest
  <2>11. CASE d.op = "readStrong"
    <3>1. PICK a : a = IF Own(d, d.seen) THEN "RECORD" ELSE "ERROR" OBVIOUS
    <3>2. Answer(r, d, a) BY <3>1, <2>5, <2>11 DEF AfterRead
    <3>3. a \in Answers /\ a \in {"RECORD", "ERROR"}
          /\ (a = "RECORD" => d.seen.approval = d.approval)
      BY <3>1 DEF Own, Answers
    <3>4. QED BY <3>2, <3>3, <2>9, <2>11
  <2>12. CASE d.op = "consumeOnce"
    <3>1. CASE d.seen = Absent
      <4>1. Continue(r, d, "budget") BY <3>1, <2>5, <2>12 DEF AfterRead
      <4>2. QED BY <4>1, <2>10, <2>12
    <3>2. CASE d.seen # Absent
      <4>1. PICK a : a = IF Own(d, d.seen) THEN "REPLAY" ELSE "ERROR" OBVIOUS
      <4>2. Answer(r, d, a) /\ a \in Answers
        BY <4>1, <3>2, <2>5, <2>12 DEF AfterRead, Answers
      <4>3. QED BY <4>2, <2>9, <2>12
    <3>3. QED BY <3>1, <3>2
  <2>13. CASE d.op = "appendIntent"
    <3> DEFINE Other == ~Own(d, d.seen) \/ d.seen.consumption # d.consumption
    <3>0. "ERROR" \in Answers /\ "INTENT" \in Answers BY DEF Answers
    <3>1. CASE Other
      <4>1. Answer(r, d, "ERROR") BY <3>1, <2>5, <2>13 DEF AfterRead
      <4>2. QED BY <4>1, <3>0, <2>9, <2>13
    <3>2. CASE ~Other /\ d.seen.state = "INTENT"
      <4>1. Answer(r, d, "INTENT") BY <3>2, <2>5, <2>13 DEF AfterRead
      <4>2. QED BY <4>1, <3>0, <3>2, <2>9, <2>13 DEF Own
    <3>3. CASE ~Other /\ d.seen.state = "CONSUMED"
      <4>1. Continue(r, d, "write") BY <3>3, <2>5, <2>13 DEF AfterRead
      <4>2. QED BY <4>1, <3>3, <2>10, <2>13 DEF Writing
    <3>4. CASE ~Other /\ d.seen.state \notin {"INTENT", "CONSUMED"}
      <4>1. Answer(r, d, "ERROR") BY <3>4, <2>5, <2>13 DEF AfterRead
      <4>2. QED BY <4>1, <3>0, <2>9, <2>13
    <3>5. QED BY <3>1, <3>2, <3>3, <3>4
  <2>14. CASE d.op = "writeTerminal"
    <3>1. CASE ~Predecessor(d, d.seen)
      <4>1. Answer(r, d, "ERROR") /\ "ERROR" \in Answers
        BY <3>1, <2>5, <2>14 DEF AfterRead, Answers
      <4>2. QED BY <4>1, <2>9, <2>14
    <3>2. CASE Predecessor(d, d.seen) /\ d.seen.state = "TERMINAL"
      <4>1. PICK a : a = IF d.seen.terminalBy = r /\ d.seen.outcome = d.outcome
                         THEN "TERMINAL" ELSE "ERROR"
        OBVIOUS
      <4>2. Answer(r, d, a) BY <4>1, <3>2, <2>5, <2>14 DEF AfterRead
      <4>3. a \in Answers /\ (a = "TERMINAL" => d.seen.outcome = d.outcome)
        BY <4>1 DEF Answers
      <4>4. QED BY <4>2, <4>3, <2>9, <2>14
    <3>3. CASE Predecessor(d, d.seen) /\ d.seen.state # "TERMINAL"
      <4>1. Continue(r, d, "write") BY <3>3, <2>5, <2>14 DEF AfterRead
      <4>2. QED BY <4>1, <2>10, <2>14 DEF Writing
    <3>4. QED BY <3>1, <3>2, <3>3
  <2>15. QED BY <2>2, <2>4, <2>11, <2>12, <2>13, <2>14 DEF Operations
<1>5. QED BY <1>3, <1>4 DEF ReadEffect

\* The read of the budget that a consumption makes.
LEMMA ReadBudgetKeeps ==
  ASSUME ReleaseInv, NEW r \in Runs, ReadBudget(r), UNCHANGED brokerVars
  PROVE  ReleaseInv'
<1>1. /\ call[r] \in Calls /\ CallInv(r, call[r]) BY OwnFacts
<1>2. budget \in [cumulative : Nat, version : Nat]
  BY DEF ReleaseInv, ReleaseTypeOK, StoreTypeOK
<1>3. /\ call[r].at = "budget" /\ UNCHANGED <<effects, budget, late>>
  BY DEF ReadBudget
<1>4. CASE ReadFails(r) BY <1>3, <1>4, ErrorKeeps DEF ReadFails
<1>5. PICK d : d = [call[r] EXCEPT !.prior = budget.cumulative,
                                   !.version = budget.version]
  OBVIOUS
<1>6. /\ d \in Calls /\ d.op = call[r].op /\ d.consumption = call[r].consumption
      /\ d.intent = call[r].intent /\ d.outcome = call[r].outcome
      /\ d.approval = call[r].approval /\ d.seen = call[r].seen
      /\ d.answer = call[r].answer
  BY <1>1, <1>2, <1>5 DEF Calls
<1>7. /\ call[r].op = "consumeOnce" /\ call[r].answer = None
  BY <1>1, <1>3 DEF CallInv
<1>8. CASE Continue(r, d, "write") /\ UNCHANGED faults
  <2>1. PICK c : c = [d EXCEPT !.at = "write"] OBVIOUS
  <2>2. call' = [call EXCEPT ![r] = c] BY <2>1, <1>8 DEF Continue
  <2>3. /\ c \in Calls /\ c.op = d.op /\ c.consumption = d.consumption
        /\ c.intent = d.intent /\ c.outcome = d.outcome /\ c.approval = d.approval
        /\ c.seen = d.seen /\ c.at = "write" /\ c.answer = None
    BY <2>1, <1>6, <1>7 DEF Calls
  <2>4. CallInv(r, c)
    BY <2>3, <1>1, <1>3, <1>6, <1>7, ReleaseAssumption
       DEF CallInv, RequestInv, Writing, Answers
  <2>5. faults' \in 0..MaxFaults BY <1>8, FaultsBounded
  <2>6. QED BY <2>2, <2>3, <2>4, <2>5, <1>3, <1>6, QuietRequest
<1>9. CASE Answer(r, d, "ERROR") /\ UNCHANGED faults
  <2>1. PICK c : c = [d EXCEPT !.at = "done", !.answer = "ERROR"] OBVIOUS
  <2>2. call' = [call EXCEPT ![r] = c] BY <2>1, <1>9 DEF Answer
  <2>3. /\ c \in Calls /\ c.op = d.op /\ c.consumption = d.consumption
        /\ c.intent = d.intent /\ c.outcome = d.outcome /\ c.approval = d.approval
        /\ c.seen = d.seen /\ c.at = "done" /\ c.answer = "ERROR"
    BY <2>1, <1>6 DEF Calls, Answers, Maybe
  <2>4. CallInv(r, c) BY <2>3, <1>1, <1>3, <1>6, <1>7 DEF CallInv, RequestInv
  <2>5. faults' \in 0..MaxFaults BY <1>9, FaultsBounded
  <2>6. QED BY <2>2, <2>3, <2>4, <2>5, <1>3, <1>6, QuietRequest
<1>10. \/ ReadFails(r)
       \/ Continue(r, d, "write") /\ UNCHANGED faults
       \/ Answer(r, d, "ERROR") /\ UNCHANGED faults
  BY <1>5 DEF ReadBudget
<1>11. QED BY <1>4, <1>8, <1>9, <1>10

\* An operation that goes on to the recovery read knows nothing new.
LEMMA ContinueToRecover ==
  ASSUME ReleaseInv, NEW r \in Runs, call[r].at = "write", NEW c,
         c = [call[r] EXCEPT !.at = "recover"]
  PROVE  /\ c \in Calls /\ c.op = call[r].op /\ c.consumption = call[r].consumption
         /\ c.intent = call[r].intent /\ c.outcome = call[r].outcome
         /\ CallInv(r, c)
<1>1. call[r] \in Calls /\ CallInv(r, call[r]) BY OwnFacts
<1>2. /\ c \in Calls /\ c.op = call[r].op /\ c.consumption = call[r].consumption
      /\ c.intent = call[r].intent /\ c.outcome = call[r].outcome
      /\ c.approval = call[r].approval /\ c.seen = call[r].seen
      /\ c.at = "recover" /\ c.answer = call[r].answer
  BY <1>1 DEF Calls
<1>3. CallInv(r, c) BY <1>1, <1>2 DEF CallInv, RequestInv
<1>4. QED BY <1>2, <1>3

\* The conditional write: applied, refused, lost, or delayed.
LEMMA WriteKeeps ==
  ASSUME ReleaseInv, NEW r \in Runs, Write(r), UNCHANGED brokerVars
  PROVE  ReleaseInv'
<1>1. /\ call[r] \in Calls /\ CallInv(r, call[r]) /\ FailedInv(r, call[r])
      /\ EffectInv(KeyOf(r)) /\ KeyOf(r) \in Keys
  BY OwnFacts, KeyOfRun
<1>2. call[r].at = "write" BY DEF Write
<1>3. /\ call[r].op \in Writing /\ RequestInv(r, call[r]) /\ call[r].answer = None
      /\ call[r].op = "appendIntent" => call[r].seen.intent = None
  BY <1>1, <1>2 DEF CallInv, ItemInv
<1>4. PICK d : d = [call[r] EXCEPT !.at = "recover"] OBVIOUS
<1>5. /\ d \in Calls /\ d.op = call[r].op /\ d.consumption = call[r].consumption
      /\ d.intent = call[r].intent /\ d.outcome = call[r].outcome
      /\ CallInv(r, d)
  BY <1>2, <1>4, ContinueToRecover
<1>6. CASE /\ Holds(call[r]) /\ Applied(r, call[r])
           /\ \/ Answer(r, call[r], Success(call[r].op)) /\ UNCHANGED faults
              \/ Continue(r, call[r], "recover") /\ Fault
           /\ UNCHANGED late
  <2>1. PICK b : b = call[r] OBVIOUS
  <2>2. /\ effects' \in [Keys -> Items]
        /\ budget' \in [cumulative : Nat, version : Nat]
        /\ \A k \in Keys : GoesOn(k)
        /\ b.op = "appendIntent" =>
             /\ effects'[KeyOf(r)].approval = b.approval
             /\ effects'[KeyOf(r)].consumption = b.consumption
             /\ effects'[KeyOf(r)].intent = r
        /\ b.op = "writeTerminal" => effects'[KeyOf(r)].outcome = b.outcome
    BY <2>1, <1>1, <1>3, <1>6, AppliedGoesOn
  <2>3. /\ ItemInv(KeyOf(r), effects[KeyOf(r)])
        /\ Precedes(effects[KeyOf(r)], effects'[KeyOf(r)])
    BY <2>2, <1>1 DEF EffectInv, GoesOn
  <2>4. faults' \in 0..MaxFaults BY <1>6, FaultsBounded
  <2>5. UNCHANGED provider BY DEF brokerVars
  <2>6. CASE Continue(r, call[r], "recover")
    <3>1. call' = [call EXCEPT ![r] = d] BY <2>6, <1>4 DEF Continue
    <3>2. CallInv(r, d)' BY <1>5, <2>3, <2>5, CallLater
    <3>3. QED BY <3>1, <3>2, <2>2, <2>4, <1>2, <1>5, <1>6, RequestFrame
  <2>7. CASE Answer(r, call[r], Success(call[r].op))
    <3>1. PICK a : a = Success(call[r].op) OBVIOUS
    <3>2. /\ a \in Answers /\ a # "RECORD"
      BY <3>1, <1>3 DEF Success, Writing, Answers
    <3>3. PICK c : c = [b EXCEPT !.at = "done", !.answer = a] OBVIOUS
    <3>4. call' = [call EXCEPT ![r] = c] BY <2>1, <2>7, <3>1, <3>3 DEF Answer
    <3>5. /\ c \in Calls /\ c.op = b.op /\ c.consumption = b.consumption
          /\ c.intent = b.intent /\ c.outcome = b.outcome /\ c.approval = b.approval
          /\ c.seen = b.seen /\ c.at = "done" /\ c.answer = a
      BY <2>1, <3>2, <3>3, <1>1 DEF Calls, Maybe
    <3>6. CallInv(r, b)' BY <2>1, <2>3, <2>5, <1>1, CallLater
    <3>7. RequestInv(r, c)' BY <3>5, <2>1, <2>5, <1>3 DEF RequestInv
    <3>8. b.op # "readStrong" /\ (b.op = "appendIntent" => b.seen.intent = None)
      BY <2>1, <1>3 DEF Writing
    <3>9. CallInv(r, c)'
      BY <2>2, <3>5, <3>6, <3>7, <3>8 DEF CallInv
    <3>10. QED BY <2>1, <2>2, <2>4, <3>4, <3>5, <3>9, <1>2, <1>6, RequestFrame
  <2>8. QED BY <1>6, <2>6, <2>7
<1>7. CASE /\ ~Holds(call[r]) /\ Continue(r, call[r], "recover")
           /\ UNCHANGED <<effects, budget, late, faults>>
  <2>1. call' = [call EXCEPT ![r] = d] BY <1>7, <1>4 DEF Continue
  <2>2. faults' \in 0..MaxFaults BY <1>7, FaultsBounded
  <2>3. QED BY <2>1, <2>2, <1>2, <1>5, <1>7, QuietRequest
<1>8. CASE /\ Fault /\ Continue(r, call[r], "recover")
           /\ late' \in {late, late \cup {[by |-> r, request |-> call[r]]}}
           /\ UNCHANGED <<effects, budget>>
  <2>1. call' = [call EXCEPT ![r] = d] BY <1>8, <1>4 DEF Continue
  <2>2. faults' \in 0..MaxFaults BY <1>8, FaultsBounded
  <2>3. QED BY <2>1, <2>2, <1>2, <1>3, <1>5, <1>8, QuietRequest
<1>9. QED BY <1>6, <1>7, <1>8 DEF Write

\* recoverExact: a success is reported only of an item that shows it.
LEMMA RecoverKeeps ==
  ASSUME ReleaseInv, NEW r \in Runs, Recover(r), UNCHANGED brokerVars
  PROVE  ReleaseInv'
<1>1. /\ call[r] \in Calls /\ CallInv(r, call[r]) /\ effects \in [Keys -> Items]
      /\ ItemInv(KeyOf(r), effects[KeyOf(r)])
  BY OwnFacts DEF EffectInv
<1>2. /\ call[r].at = "recover" /\ UNCHANGED <<effects, budget, late>>
  BY DEF Recover
<1>3. /\ call[r].op \in Writing /\ RequestInv(r, call[r])
      /\ call[r].approval = ApprovalOf[r]
  BY <1>1, <1>2 DEF CallInv, RequestInv
<1>4. PICK i : i = effects[KeyOf(r)] OBVIOUS
<1>5. i = effects[call[r].approval.key] /\ i \in Items
  BY <1>1, <1>3, <1>4, KeyOfRun DEF KeyOf
<1>6. CASE ReadFails(r) BY <1>2, <1>6, ErrorKeeps DEF ReadFails
<1>7. CASE Answer(r, call[r], "ERROR") /\ UNCHANGED faults
  BY <1>2, <1>7, ErrorKeeps
<1>8. CASE /\ Recovered(r, call[r], i) /\ UNCHANGED faults
           /\ Answer(r, [call[r] EXCEPT !.seen = i],
                     IF call[r].op = "consumeOnce" THEN "REPLAY"
                     ELSE Success(call[r].op))
  <2>1. PICK a : a = IF call[r].op = "consumeOnce" THEN "REPLAY" ELSE Success(call[r].op)
    OBVIOUS
  <2>2. /\ a \in Answers /\ a # "RECORD"
    BY <2>1, <1>3 DEF Success, Writing, Answers
  <2>3. PICK c : c = [[call[r] EXCEPT !.seen = i] EXCEPT !.at = "done", !.answer = a]
    OBVIOUS
  <2>4. call' = [call EXCEPT ![r] = c] BY <2>1, <2>3, <1>8 DEF Answer
  <2>5. /\ c \in Calls /\ c.op = call[r].op /\ c.consumption = call[r].consumption
        /\ c.intent = call[r].intent /\ c.outcome = call[r].outcome
        /\ c.approval = call[r].approval
        /\ c.seen = i /\ c.at = "done" /\ c.answer = a
    BY <2>2, <2>3, <1>1, <1>5 DEF Calls, Maybe
  <2>6. RequestInv(r, c) BY <2>5, <1>3 DEF RequestInv
  <2>7. ItemInv(KeyOf(r), i) /\ Precedes(i, effects[KeyOf(r)])
    BY <1>1, <1>4, PrecedesItself
  <2>8. call[r].op = "appendIntent" =>
          /\ i.approval = call[r].approval /\ i.intent = r
          /\ i.consumption = call[r].consumption
    BY <1>1, <1>2, <1>4, <1>8 DEF Recovered, Own, CallInv, Precedes
  <2>9. call[r].op = "writeTerminal" => i.outcome = call[r].outcome
    BY <1>8 DEF Recovered
  <2>10. CallInv(r, c)
    BY <2>2, <2>5, <2>6, <2>7, <2>8, <2>9, <1>3, <1>4 DEF CallInv, Writing
  <2>11. faults' \in 0..MaxFaults BY <1>8, FaultsBounded
  <2>12. QED BY <2>4, <2>5, <2>10, <2>11, <1>2, QuietRequest
<1>9. QED BY <1>5, <1>6, <1>7, <1>8 DEF Recover

\* A write that its caller has given up on does what it would have done.
LEMMA WriteArrivesLateKeeps ==
  ASSUME ReleaseInv, NEW w \in late, WriteArrivesLate(w), UNCHANGED brokerVars
  PROVE  ReleaseInv'
<1>1. PICK r : r = w.by OBVIOUS
<1>2. PICK c : c = w.request OBVIOUS
<1>3. /\ late \subseteq [by : Runs, request : Calls] /\ call \in [Runs -> Calls]
      /\ effects \in [Keys -> Items] /\ budget \in [cumulative : Nat, version : Nat]
      /\ faults \in 0..MaxFaults
  BY DEF ReleaseInv, ReleaseTypeOK, StoreTypeOK
<1>4. /\ r \in Runs /\ c \in Calls /\ RequestInv(r, c) /\ FailedInv(r, c)
      /\ c.op \in Writing
  BY <1>1, <1>2, <1>3 DEF ReleaseInv
<1>5. /\ late' = late \ {w} /\ call' = call /\ faults' = faults
      /\ IF Holds(c) THEN Applied(r, c) ELSE UNCHANGED <<effects, budget>>
  BY <1>1, <1>2 DEF WriteArrivesLate
<1>6. /\ effects' \in [Keys -> Items]
      /\ budget' \in [cumulative : Nat, version : Nat]
      /\ \A k \in Keys : GoesOn(k)
  <2>1. CASE Holds(c) BY <2>1, <1>4, <1>5, AppliedGoesOn
  <2>2. CASE ~Holds(c) BY <2>2, <1>3, <1>5, StaysPut
  <2>3. QED BY <2>1, <2>2
<1>7. ASSUME NEW s \in Runs PROVE CallInv(s, call[s])'
  <2>1. PICK d : d = call[s] OBVIOUS
  <2>2. CallInv(s, d) /\ KeyOf(s) \in Keys BY <2>1, KeyOfRun DEF ReleaseInv
  <2>3. /\ ItemInv(KeyOf(s), effects[KeyOf(s)])
        /\ Precedes(effects[KeyOf(s)], effects'[KeyOf(s)])
    BY <2>2, <1>6 DEF ReleaseInv, EffectInv, GoesOn
  <2>4. CallInv(s, d)' BY <2>2, <2>3, CallLater DEF brokerVars
  <2>5. QED BY <2>1, <2>4, <1>5
<1>8. /\ \A s \in Runs : RunInv(s, run[s], call'[s])
      /\ \A s \in Runs : FailedInv(s, call'[s])
  BY <1>5 DEF ReleaseInv
<1>9. /\ late' \subseteq [by : Runs, request : Calls]
      /\ \A v \in late' : /\ RequestInv(v.by, v.request)
                          /\ FailedInv(v.by, v.request)
                          /\ v.request.op \in Writing
  BY <1>3, <1>5 DEF ReleaseInv
<1>10. \A k \in Keys :
         /\ ItemInv(k, effects'[k]) /\ Precedes(effects[k], effects'[k])
         /\ effects'[k].outcome = "CONFIRMED" => provider[k].done = 2
         /\ effects'[k].outcome = "FAILED_TERMINAL" =>
              effects'[k].intent = None \/ Harmless(k)
  BY <1>6 DEF GoesOn
<1>11. QED BY <1>3, <1>5, <1>6, <1>7, <1>8, <1>9, <1>10, TableFrame

\* The parts of the invariant read no clock.
LEMMA ClockKeeps ==
  ASSUME ReleaseInv, now' \in 0..MaxTime,
         UNCHANGED <<storeVars, run, lookups, provider, report>>
  PROVE  ReleaseInv'
<1>1. UNCHANGED <<effects, budget, call, late, faults, run, lookups, provider, report>>
  BY DEF storeVars
<1>2. ReleaseTypeOK' BY <1>1 DEF ReleaseInv, ReleaseTypeOK, StoreTypeOK
<1>3. \A k \in Keys : EffectInv(k)'
  BY <1>1 DEF ReleaseInv, EffectInv, Harmless
<1>4. \A r \in Runs : RunInv(r, run[r], call[r])'
  BY <1>1 DEF ReleaseInv, RunInv
<1>5. \A r \in Runs : CallInv(r, call[r])'
  BY <1>1 DEF ReleaseInv, CallInv, RequestInv
<1>6. \A r \in Runs : FailedInv(r, call[r])' /\ ReportInv(r, report[r])'
  BY <1>1 DEF ReleaseInv, FailedInv, Harmless, ReportInv
<1>7. \A w \in late' : (/\ RequestInv(w.by, w.request)
                        /\ FailedInv(w.by, w.request)
                        /\ w.request.op \in Writing)'
  BY <1>1 DEF ReleaseInv, RequestInv, FailedInv, Harmless
<1>8. \A l \in lookups' : LookupInv(l)' BY <1>1 DEF ReleaseInv, LookupInv
<1>9. QED BY <1>2, <1>3, <1>4, <1>5, <1>6, <1>7, <1>8 DEF ReleaseInv

-----------------------------------------------------------------------------

\* The invariant holds before any run.
LEMMA ReleaseStarts == ReleaseInit => ReleaseInv
<1>1. SUFFICES ASSUME ReleaseInit PROVE ReleaseInv OBVIOUS
<1>2. /\ effects = [k \in Keys |-> Absent] /\ call = [r \in Runs |-> Idle]
      /\ budget = [cumulative |-> 0, version |-> 0] /\ late = {} /\ faults = 0
      /\ now = 0 /\ lookups = {}
      /\ run = [r \in Runs |-> [at |-> "idle", since |-> 0, intent |-> None]]
      /\ provider = [k \in Keys |-> [tokens |-> {}, done |-> 0]]
      /\ report = [r \in Runs |-> None]
  BY <1>1 DEF ReleaseInit, StoreInit
<1>3. Absent \in Items BY DEF Absent, Items, Maybe
<1>4. Idle \in Calls BY <1>3 DEF Idle, Calls, Maybe
<1>5. StoreTypeOK
  BY <1>2, <1>3, <1>4, ReleaseAssumption DEF StoreTypeOK
<1>6. ReleaseTypeOK
  BY <1>2, <1>5, ReleaseAssumption DEF ReleaseTypeOK, Maybe
<1>7. \A k \in Keys : EffectInv(k)
  BY <1>2, AbsentItem, ReleaseAssumption DEF EffectInv, Absent, Outcomes
<1>8. ASSUME NEW r \in Runs
      PROVE  /\ CallInv(r, call[r]) /\ FailedInv(r, call[r])
             /\ ReportInv(r, report[r])
  <2>1. CallInv(r, Idle) BY IdleIsFresh
  <2>2. FailedInv(r, Idle)
    BY ReleaseAssumption DEF FailedInv, Idle, Outcomes
  <2>3. ReportInv(r, None) BY ReleaseAssumption DEF ReportInv, Reports
  <2>4. QED BY <2>1, <2>2, <2>3, <1>2
<1>9. ASSUME NEW r \in Runs PROVE RunInv(r, run[r], call[r])
  <2>1. /\ run[r].at = "idle" /\ call[r] = Idle
        /\ provider[KeyOf(r)].tokens = {}
    BY <1>2, KeyOfRun
  <2>2. QED BY <2>1 DEF RunInv, Calling
<1>10. QED BY <1>2, <1>6, <1>7, <1>8, <1>9 DEF ReleaseInv

\* Every step keeps the invariant.
LEMMA ReleaseSteps == ReleaseInv /\ [ReleaseNext]_releaseVars => ReleaseInv'
<1>1. SUFFICES ASSUME ReleaseInv, [ReleaseNext]_releaseVars PROVE ReleaseInv' OBVIOUS
<1>2. ASSUME NEW r \in Runs, ReserveSteps(r) PROVE ReleaseInv'
  BY <1>1, <1>2, StartConsumeKeeps, ReserveExpiresKeeps, ConsumedFirstKeeps,
     ConsumedBeforeKeeps, ConsumeFailedKeeps, ReserveReadsRecordKeeps,
     SingleReadsReplayKeeps, IntentKnownKeeps, AppendFailedKeeps, IntentNotConfirmedKeeps
     DEF ReserveSteps
<1>3. ASSUME NEW r \in Runs, DispatchSteps(r) PROVE ReleaseInv'
  BY <1>1, <1>3, StartWithLookupKeeps, DispatchReadsKeeps, DispatchFirstKeeps,
     DispatchLastKeeps, DispatchStopsKeeps
     DEF DispatchSteps
<1>4. ASSUME NEW r \in Runs, TerminalSteps(r) PROVE ReleaseInv'
  BY <1>1, <1>4, SingleOutcomeKeeps, SingleFinalizedKeeps, FinalizeReadsKeeps,
     ReadbackKeeps, FinalizedKeeps, StartTerminalizeKeeps, TerminalizeReadsKeeps,
     TerminalizedKeeps
     DEF TerminalSteps
<1>5. ASSUME NEW r \in Runs, StoreStep(r), UNCHANGED brokerVars PROVE ReleaseInv'
  BY <1>1, <1>5, ReadEffectKeeps, ReadBudgetKeeps, WriteKeeps, RecoverKeeps DEF StoreStep
<1>6. CASE StoreNetwork /\ UNCHANGED brokerVars
  BY <1>1, <1>6, WriteArrivesLateKeeps DEF StoreNetwork
<1>7. CASE Tick
  <2>1. now' \in 0..MaxTime
    BY <1>1, <1>7, ReleaseAssumption DEF Tick, ReleaseInv, ReleaseTypeOK
  <2>2. QED BY <1>1, <1>7, <2>1, ClockKeeps DEF Tick
<1>8. CASE UNCHANGED releaseVars
  <2>1. now' \in 0..MaxTime
    BY <1>1, <1>8 DEF releaseVars, brokerVars, ReleaseInv, ReleaseTypeOK
  <2>2. QED BY <1>1, <1>8, <2>1, ClockKeeps DEF releaseVars, brokerVars
<1>9. QED BY <1>1, <1>2, <1>3, <1>4, <1>5, <1>6, <1>7, <1>8 DEF ReleaseNext

\* The invariant holds throughout.
LEMMA ReleaseAlways == ReleaseSpec => []ReleaseInv
BY ReleaseStarts, ReleaseSteps, PTL DEF ReleaseSpec

\* For any runs, approvals and losses, whatever reaches the provider carries the
\* intent that is durable for its effect, and only that one: release-provider-
\* one-shot-broker.js may dispatch one intent from several runs, never two.
THEOREM TokensAreIntents == ReleaseSpec => []OneTokenPerEffect
<1>1. ASSUME ReleaseInv PROVE OneTokenPerEffect
  <2>1. SUFFICES ASSUME NEW k \in Keys
        PROVE  /\ provider[k].tokens # {} => provider[k].tokens = {effects[k].intent}
               /\ \A r \in Runs : /\ ApprovalOf[r].key = k
                                  /\ run[r].at \in {"first", "last"}
                                  => effects[k].intent = run[r].intent
    BY DEF OneTokenPerEffect
  <2>2. provider[k].tokens # {} => provider[k].tokens = {effects[k].intent}
    BY <1>1 DEF ReleaseInv, EffectInv
  <2>3. ASSUME NEW r \in Runs, ApprovalOf[r].key = k, run[r].at \in {"first", "last"}
        PROVE  effects[k].intent = run[r].intent
    BY <1>1, <2>3 DEF ReleaseInv, RunInv, KeyOf
  <2>4. QED BY <2>2, <2>3
<1>2. QED BY <1>1, ReleaseAlways, PTL

\* For any runs, approvals and losses, a terminal record is true of the provider
\* and every receipt that gives a verdict repeats it, so two runs never publish
\* contradicting receipts.
THEOREM ReceiptsHold == ReleaseSpec => []ReceiptsAreTrue
<1>1. ASSUME ReleaseInv PROVE ReceiptsAreTrue
  <2>1. ASSUME NEW k \in Keys
        PROVE  /\ effects[k].outcome = "CONFIRMED" => provider[k].done = 2
               /\ effects[k].outcome = "FAILED_TERMINAL" => provider[k].done = 0
    <3>1. EffectInv(k) /\ provider[k].tokens \subseteq Runs
      BY <1>1 DEF ReleaseInv, ReleaseTypeOK
    <3>2. effects[k].intent = None => provider[k].tokens = {}
      BY <3>1, ReleaseAssumption DEF EffectInv
    <3>3. Harmless(k) => provider[k].tokens = {} BY DEF Harmless
    <3>4. QED BY <3>1, <3>2, <3>3 DEF EffectInv
  <2>2. ASSUME NEW r \in Runs PROVE ReportInv(r, report[r]) BY <1>1 DEF ReleaseInv
  <2>3. QED BY <2>1, <2>2 DEF ReceiptsAreTrue, TerminalRecordIsTrue, ReportInv, KeyOf
<1>2. QED BY <1>1, ReleaseAlways, PTL

\* The state of the table, of its operations and of the runs keeps its shape.
THEOREM ReleaseTypesHold == ReleaseSpec => []ReleaseTypeOK
<1>1. ReleaseInv => ReleaseTypeOK BY DEF ReleaseInv
<1>2. QED BY <1>1, ReleaseAlways, PTL

-----------------------------------------------------------------------------
(* The budget.  A consumption was read against the account and the approval  *)
(* before it is written, and the condition of the write makes what was read  *)
(* the account as it is.                                                     *)

ConsumeInv(r, c) ==
  c.op = "consumeOnce" /\ c.at # "idle" =>
    /\ BudgetValid(ApprovalOf[r])
    /\ c.at = "write" => c.prior = ApprovalOf[r].prior

BudgetInv ==
  /\ ReserveIsKept
  /\ \A r \in Runs : ConsumeInv(r, call[r])
  /\ \A w \in late : ConsumeInv(w.by, w.request) /\ w.request.at = "write"

\* What the step of a run does to its operation.
AsksOrForgets(r) ==
  /\ UNCHANGED <<effects, budget, late>>
  /\ \E c : /\ call' = [call EXCEPT ![r] = c]
            /\ \/ c = call[r] \/ c.at = "idle"
               \/ c.at = "read" /\ (c.op = "consumeOnce" => BudgetValid(ApprovalOf[r]))

\* A run asks for a consumption only with an approval whose budget is valid.
LEMMA AsksWell ==
  ASSUME NEW r \in Runs, UNCHANGED <<effects, budget, late>>,
         \/ Forget(r)
         \/ AskRead(r)
         \/ \E n, i, o : Ask(r, "appendIntent", n, i, o)
         \/ \E n, i, o : Ask(r, "writeTerminal", n, i, o)
         \/ BudgetValid(ApprovalOf[r]) /\ \E n, i, o : Ask(r, "consumeOnce", n, i, o)
  PROVE  AsksOrForgets(r)
<1>1. CASE Forget(r)
  <2>1. Idle.at = "idle" BY DEF Idle
  <2>2. QED BY <1>1, <2>1 DEF Forget, AsksOrForgets
<1>2. ASSUME NEW op, NEW n, NEW i, NEW o, Ask(r, op, n, i, o),
             op = "consumeOnce" => BudgetValid(ApprovalOf[r])
      PROVE  AsksOrForgets(r)
  <2>1. PICK c : c = Request(r, op, n, i, o) OBVIOUS
  <2>2. call' = [call EXCEPT ![r] = c] BY <2>1, <1>2 DEF Ask, Request
  <2>3. c.at = "read" /\ c.op = op BY <2>1 DEF Request, Idle
  <2>4. QED BY <2>2, <2>3, <1>2 DEF AsksOrForgets
<1>3. QED BY <1>1, <1>2 DEF AskRead

\* A step of a reserve leaves the table alone and asks at most for one request,
\* for its own approval.
LEMMA ReserveStepsAsk ==
  ASSUME ReleaseInv, NEW r \in Runs, ReserveSteps(r) PROVE AsksOrForgets(r)
<1>1. CASE StartConsume(r)
  BY <1>1, AsksWell DEF StartConsume, tableUnchanged, ApprovalOfJob
<1>2. CASE ReserveExpires(r) BY <1>2, AsksWell DEF ReserveExpires, tableUnchanged
<1>3. CASE ConsumedFirst(r) BY <1>3, AsksWell DEF ConsumedFirst, tableUnchanged
<1>4. CASE ConsumedBefore(r) BY <1>4, AsksWell DEF ConsumedBefore, tableUnchanged
<1>5. CASE ConsumeFailed(r) BY <1>5, AsksWell DEF ConsumeFailed, tableUnchanged
<1>6. CASE ReserveReadsRecord(r)
  <2>1. UNCHANGED <<effects, budget, late>>
    BY <1>6 DEF ReserveReadsRecord, tableUnchanged
  <2>2. call[r].op = "readStrong" /\ (At(r, "replayed") \/ At(r, "recovered"))
    BY <1>6, OwnFacts DEF ReserveReadsRecord, RunInv, Calling, OpAt, At
  <2>3. Status(r) \in {"ERROR", "RECORD"}
    BY <1>6, <2>2, OwnFacts DEF ReserveReadsRecord, Answered, Status, CallInv
  <2>4. CASE Status(r) = "ERROR" BY <1>6, <2>1, <2>4, AsksWell DEF ReserveReadsRecord
  <2>5. CASE Status(r) = "RECORD" /\ Seen(r).state # "CONSUMED"
    BY <1>6, <2>1, <2>5, AsksWell DEF ReserveReadsRecord
  <2>6. CASE Status(r) = "RECORD" /\ Seen(r).state = "CONSUMED" /\ At(r, "recovered")
    BY <1>6, <2>1, <2>6, AsksWell DEF ReserveReadsRecord, At
  <2>7. CASE Status(r) = "RECORD" /\ Seen(r).state = "CONSUMED" /\ At(r, "replayed")
    BY <1>6, <2>1, <2>7, AsksWell DEF ReserveReadsRecord, At
  <2>8. QED BY <2>2, <2>3, <2>4, <2>5, <2>6, <2>7
<1>7. CASE SingleReadsReplay(r) BY <1>7, AsksWell DEF SingleReadsReplay, tableUnchanged
<1>8. CASE IntentKnown(r) BY <1>8, AsksWell DEF IntentKnown, tableUnchanged
<1>9. CASE AppendFailed(r) BY <1>9, AsksWell DEF AppendFailed, tableUnchanged
<1>10. CASE IntentNotConfirmed(r)
  BY <1>10, AsksWell DEF IntentNotConfirmed, tableUnchanged
<1>11. QED BY <1>1, <1>2, <1>3, <1>4, <1>5, <1>6, <1>7, <1>8, <1>9, <1>10
           DEF ReserveSteps

\* The same for the steps of a dispatch.
LEMMA DispatchStepsAsk ==
  ASSUME NEW r \in Runs, DispatchSteps(r), call \in [Runs -> Calls]
  PROVE  AsksOrForgets(r)
<1>1. CASE StartWithLookup(r) BY <1>1, AsksWell DEF StartWithLookup, tableUnchanged
<1>2. CASE DispatchReads(r) BY <1>2, AsksWell DEF DispatchReads, tableUnchanged
<1>3. CASE DispatchFirst(r) \/ DispatchLast(r) \/ DispatchStops(r)
  <2>1. UNCHANGED storeVars BY <1>3 DEF DispatchFirst, DispatchLast, DispatchStops
  <2>2. call' = [call EXCEPT ![r] = call[r]] BY <2>1 DEF storeVars
  <2>3. QED BY <2>1, <2>2 DEF AsksOrForgets, storeVars
<1>4. QED BY <1>1, <1>2, <1>3 DEF DispatchSteps

\* The same for the steps that end a run.
LEMMA TerminalStepsAsk ==
  ASSUME NEW r \in Runs, TerminalSteps(r), call \in [Runs -> Calls]
  PROVE  AsksOrForgets(r)
<1>1. ASSUME NEW o, AskTerminal(r, o) PROVE AsksOrForgets(r)
  BY <1>1, AsksWell DEF AskTerminal, tableUnchanged
<1>2. CASE SingleOutcome(r) BY <1>1, <1>2 DEF SingleOutcome
<1>3. CASE SingleFinalized(r)
  <2>1. UNCHANGED <<effects, budget, late>> BY <1>3 DEF SingleFinalized, tableUnchanged
  <2>2. Forget(r) \/ \E n, i, o : Ask(r, "writeTerminal", n, i, o)
    BY <1>3 DEF SingleFinalized
  <2>3. QED BY <2>1, <2>2, AsksWell
<1>4. CASE FinalizeReads(r) BY <1>4, AsksWell DEF FinalizeReads, tableUnchanged
<1>5. CASE Readback(r)
  <2>1. CASE UNCHANGED storeVars
    <3>1. call' = [call EXCEPT ![r] = call[r]] BY <2>1 DEF storeVars
    <3>2. QED BY <2>1, <3>1 DEF AsksOrForgets, storeVars
  <2>2. QED BY <1>1, <1>5, <2>1 DEF Readback
<1>6. CASE Finalized(r)
  <2>1. UNCHANGED <<effects, budget, late>> BY <1>6 DEF Finalized, tableUnchanged
  <2>2. Forget(r) \/ AskRead(r) BY <1>6 DEF Finalized
  <2>3. QED BY <2>1, <2>2, AsksWell
<1>7. CASE StartTerminalize(r) BY <1>7, AsksWell DEF StartTerminalize, tableUnchanged
<1>8. CASE TerminalizeReads(r) BY <1>8, AsksWell DEF TerminalizeReads, tableUnchanged
<1>9. CASE Terminalized(r) BY <1>9, AsksWell DEF Terminalized, tableUnchanged
<1>10. QED BY <1>2, <1>3, <1>4, <1>5, <1>6, <1>7, <1>8, <1>9 DEF TerminalSteps

\* Asking changes no account.
LEMMA AskingKeepsBudget ==
  ASSUME ReleaseInv, BudgetInv, NEW r \in Runs, AsksOrForgets(r)
  PROVE  BudgetInv'
<1>1. call \in [Runs -> Calls] BY OwnFacts
<1>2. PICK c : /\ call' = [call EXCEPT ![r] = c]
               /\ \/ c = call[r] \/ c.at = "idle"
                  \/ c.at = "read" /\ (c.op = "consumeOnce" => BudgetValid(ApprovalOf[r]))
  BY DEF AsksOrForgets
<1>3. UNCHANGED <<effects, budget, late>> BY DEF AsksOrForgets
<1>4. ReserveIsKept' BY <1>3 DEF BudgetInv, ReserveIsKept, Occupied
<1>5. ASSUME NEW s \in Runs PROVE ConsumeInv(s, call'[s])
  <2>1. ConsumeInv(s, call[s]) BY DEF BudgetInv
  <2>2. QED BY <2>1, <1>1, <1>2 DEF ConsumeInv
<1>6. QED BY <1>3, <1>4, <1>5 DEF BudgetInv, ConsumeInv

\* What a conditional write makes of the account.
LEMMA AppliedKeepsReserve ==
  ASSUME ReleaseInv, BudgetInv, NEW r \in Runs, NEW c \in Calls, c.op \in Writing,
         c.at = "write", RequestInv(r, c), FailedInv(r, c), ConsumeInv(r, c),
         Holds(c), Applied(r, c)
  PROVE  ReserveIsKept'
<1>1. /\ budget \in [cumulative : Nat, version : Nat] /\ effects \in [Keys -> Items]
  BY DEF ReleaseInv, ReleaseTypeOK, StoreTypeOK
<1>2. /\ effects' \in [Keys -> Items] /\ \A k \in Keys : GoesOn(k)
  BY AppliedGoesOn
<1>3. ASSUME NEW k \in Occupied
      PROVE  k \in Occupied' /\ effects'[k].approval = effects[k].approval
  <2>1. k \in Keys /\ ItemInv(k, effects[k]) /\ effects[k] # Absent
    BY DEF Occupied, ReleaseInv, EffectInv
  <2>2. effects[k].state # "ABSENT" /\ effects[k].approval \in Approvals
    BY <2>1 DEF ItemInv
  <2>3. effects'[k].approval = effects[k].approval
    BY <2>1, <2>2, <1>2 DEF GoesOn, Precedes
  <2>4. effects'[k] # Absent BY <2>2, <2>3, ReleaseAssumption DEF Absent
  <2>5. QED BY <2>1, <2>3, <2>4 DEF Occupied
<1>4. CASE c.op = "consumeOnce"
  <2>1. PICK a : a = ApprovalOf[r] OBVIOUS
  <2>2. /\ c.approval = a /\ a \in Approvals /\ a.key \in Keys /\ a.amount \in Nat
        /\ BudgetValid(a) /\ c.prior = a.prior /\ c.prior \in Nat
    BY <2>1, <1>4, ReleaseAssumption DEF RequestInv, ConsumeInv, Calls, Keys
  <2>3. ConsumeHolds(c) /\ ConsumeApplied(r, c) BY <1>4 DEF Holds, Applied
  <2>4. budget'.cumulative = a.prior + a.amount
    BY <2>2, <2>3 DEF ConsumeApplied
  <2>5. Cap \in Nat /\ Reserve \in Nat BY ReleaseAssumption
  <2>6. budget'.cumulative <= Cap BY <2>2, <2>4, <2>5 DEF BudgetValid
  <2>7. effects'[a.key].approval = a
    <3>1. PICK i : i = [Absent EXCEPT !.state = "CONSUMED", !.approval = c.approval,
                                      !.consumption = r]
      OBVIOUS
    <3>2. i.approval = a BY <3>1, <2>2 DEF Absent
    <3>3. effects' = [effects EXCEPT ![a.key] = i]
      BY <3>1, <2>2, <2>3 DEF ConsumeApplied
    <3>4. QED BY <3>2, <3>3, <2>2, <1>1
  <2>8. a.key \in Occupied'
    BY <2>2, <2>7, ReleaseAssumption DEF Occupied, Absent
  <2>9. a.lane # "TEARDOWN" => budget'.cumulative + Reserve <= Cap
    BY <2>2, <2>4, <2>5 DEF BudgetValid
  <2>10. QED BY <2>6, <2>7, <2>8, <2>9 DEF ReserveIsKept
<1>5. CASE c.op \in {"appendIntent", "writeTerminal"}
  <2>1. budget' = budget
    BY <1>5 DEF Applied, IntentApplied, TerminalApplied
  <2>2. QED BY <2>1, <1>3 DEF BudgetInv, ReserveIsKept
<1>6. QED BY <1>4, <1>5 DEF Writing

\* A request of the store that leaves the table alone: only the read of the
\* budget sends a consumption on to its write.
LEMMA QuietKeepsBudget ==
  ASSUME ReleaseInv, BudgetInv, NEW r \in Runs, NEW c,
         call' = [call EXCEPT ![r] = c], call[r].at # "idle", c.op = call[r].op,
         c.op = "consumeOnce" /\ c.at = "write" => c.prior = ApprovalOf[r].prior,
         UNCHANGED <<effects, budget>>,
         \A w \in late' : w \in late \/ (ConsumeInv(w.by, w.request) /\ w.request.at = "write")
  PROVE  BudgetInv'
<1>1. call \in [Runs -> Calls] BY OwnFacts
<1>2. ReserveIsKept' BY DEF BudgetInv, ReserveIsKept, Occupied
<1>3. ASSUME NEW s \in Runs PROVE ConsumeInv(s, call'[s])
  <2>1. ConsumeInv(s, call[s]) BY DEF BudgetInv
  <2>2. QED BY <2>1, <1>1 DEF ConsumeInv
<1>4. QED BY <1>2, <1>3 DEF BudgetInv, ConsumeInv

\* Nor does an answer,
LEMMA AnswerKeepsBudget ==
  ASSUME ReleaseInv, BudgetInv, NEW r \in Runs, NEW d \in Calls, NEW a, Answer(r, d, a),
         call[r].at # "idle", d.op = call[r].op, UNCHANGED <<effects, budget, late>>
  PROVE  BudgetInv'
<1>1. PICK c : c = [d EXCEPT !.at = "done", !.answer = a] OBVIOUS
<1>2. call' = [call EXCEPT ![r] = c] BY <1>1 DEF Answer
<1>3. c.op = d.op /\ c.at = "done" BY <1>1 DEF Calls
<1>4. QED BY <1>2, <1>3, QuietKeepsBudget

\* nor going on to the next request of the operation,
LEMMA ContinueKeepsBudget ==
  ASSUME ReleaseInv, BudgetInv, NEW r \in Runs, NEW d \in Calls, NEW at,
         Continue(r, d, at), call[r].at # "idle", d.op = call[r].op,
         d.op = "consumeOnce" /\ at = "write" => d.prior = ApprovalOf[r].prior,
         UNCHANGED <<effects, budget>>,
         \A w \in late' : w \in late \/ (ConsumeInv(w.by, w.request) /\ w.request.at = "write")
  PROVE  BudgetInv'
<1>1. PICK c : c = [d EXCEPT !.at = at] OBVIOUS
<1>2. call' = [call EXCEPT ![r] = c] BY <1>1 DEF Continue
<1>3. c.op = d.op /\ c.at = at /\ c.prior = d.prior BY <1>1 DEF Calls
<1>4. QED BY <1>2, <1>3, QuietKeepsBudget

\* nor the read of the record.
LEMMA ReadKeepsBudget ==
  ASSUME ReleaseInv, BudgetInv, NEW r \in Runs, ReadEffect(r)
  PROVE  BudgetInv'
<1>1. /\ call[r] \in Calls /\ effects \in [Keys -> Items] /\ CallInv(r, call[r])
  BY OwnFacts
<1>2. call[r].at = "read" /\ UNCHANGED <<effects, budget, late>> BY DEF ReadEffect
<1>3. CASE ReadFails(r) BY <1>1, <1>2, <1>3, AnswerKeepsBudget DEF ReadFails
<1>4. CASE AfterRead(r, [call[r] EXCEPT !.seen = effects[call[r].approval.key]])
  <2>1. PICK d : d = [call[r] EXCEPT !.seen = effects[call[r].approval.key]] OBVIOUS
  <2>2. /\ call[r].approval = ApprovalOf[r] /\ call[r].op \in Operations
    BY <1>1, <1>2 DEF CallInv, RequestInv
  <2>3. effects[KeyOf(r)] \in Items BY <1>1, KeyOfRun
  <2>4. d \in Calls /\ d.op = call[r].op
    BY <2>1, <2>2, <2>3, <1>1 DEF Calls, KeyOf
  <2>5. \/ \E a : Answer(r, d, a)
        \/ \E at : Continue(r, d, at) /\ (d.op = "consumeOnce" => at = "budget")
    <3>1. AfterRead(r, d) BY <2>1, <1>4
    <3>2. CASE d.op = "readStrong" BY <3>1, <3>2 DEF AfterRead
    <3>3. CASE d.op = "consumeOnce" BY <3>1, <3>3 DEF AfterRead
    <3>4. CASE d.op = "appendIntent" BY <3>1, <3>4 DEF AfterRead
    <3>5. CASE d.op = "writeTerminal" BY <3>1, <3>5 DEF AfterRead
    <3>6. QED BY <2>2, <2>4, <3>2, <3>3, <3>4, <3>5 DEF Operations
  <2>6. QED BY <2>4, <2>5, <1>2, AnswerKeepsBudget, ContinueKeepsBudget
<1>5. QED BY <1>3, <1>4 DEF ReadEffect

\* The read of the budget goes on to the write only when the account is the one
\* that the approval names.
LEMMA BudgetReadKeepsBudget ==
  ASSUME ReleaseInv, BudgetInv, NEW r \in Runs, ReadBudget(r)
  PROVE  BudgetInv'
<1>1. /\ call[r] \in Calls /\ CallInv(r, call[r]) BY OwnFacts
<1>2. budget \in [cumulative : Nat, version : Nat]
  BY DEF ReleaseInv, ReleaseTypeOK, StoreTypeOK
<1>3. call[r].at = "budget" /\ UNCHANGED <<effects, budget, late>> BY DEF ReadBudget
<1>4. PICK d : d = [call[r] EXCEPT !.prior = budget.cumulative,
                                   !.version = budget.version]
  OBVIOUS
<1>5. d \in Calls /\ d.op = call[r].op /\ d.approval = ApprovalOf[r]
  BY <1>1, <1>2, <1>3, <1>4 DEF Calls, CallInv, RequestInv
<1>6. \/ ReadFails(r)
      \/ Continue(r, d, "write") /\ d.prior = d.approval.prior
      \/ Answer(r, d, "ERROR")
  BY <1>4 DEF ReadBudget
<1>7. QED
  BY <1>1, <1>3, <1>5, <1>6, AnswerKeepsBudget, ContinueKeepsBudget DEF ReadFails

\* The write charges the account within the cap, or leaves it.
LEMMA WriteKeepsBudget ==
  ASSUME ReleaseInv, BudgetInv, NEW r \in Runs, Write(r), UNCHANGED brokerVars
  PROVE  BudgetInv'
<1>1. /\ call \in [Runs -> Calls] /\ call[r] \in Calls /\ CallInv(r, call[r])
      /\ FailedInv(r, call[r])
  BY OwnFacts
<1>2. /\ call[r].at = "write" /\ call[r].op \in Writing /\ RequestInv(r, call[r])
      /\ ConsumeInv(r, call[r])
  BY <1>1 DEF Write, CallInv, BudgetInv
<1>3. CASE /\ Holds(call[r]) /\ Applied(r, call[r]) /\ UNCHANGED late
           /\ \/ Answer(r, call[r], Success(call[r].op))
              \/ Continue(r, call[r], "recover")
  <2>1. PICK b : b = call[r] OBVIOUS
  <2>2. ReserveIsKept' BY <2>1, <1>1, <1>2, <1>3, AppliedKeepsReserve
  <2>3. \E c : /\ call' = [call EXCEPT ![r] = c] /\ c.op = call[r].op
              /\ c.at \in {"done", "recover"}
    <3>1. CASE Answer(r, b, Success(b.op))
      <4>1. PICK a : a = Success(b.op) OBVIOUS
      <4>2. PICK c : c = [b EXCEPT !.at = "done", !.answer = a] OBVIOUS
      <4>3. c.op = b.op /\ c.at = "done" BY <4>2, <2>1, <1>1 DEF Calls
      <4>4. call' = [call EXCEPT ![r] = c] BY <3>1, <4>1, <4>2 DEF Answer
      <4>5. QED BY <4>3, <4>4, <2>1
    <3>2. CASE Continue(r, b, "recover")
      <4>1. PICK c : c = [b EXCEPT !.at = "recover"] OBVIOUS
      <4>2. c.op = b.op /\ c.at = "recover" BY <4>1, <2>1, <1>1 DEF Calls
      <4>3. call' = [call EXCEPT ![r] = c] BY <3>2, <4>1 DEF Continue
      <4>4. QED BY <4>2, <4>3, <2>1
    <3>3. QED BY <3>1, <3>2, <1>3, <2>1
  <2>4. ASSUME NEW s \in Runs PROVE ConsumeInv(s, call'[s])
    <3>1. ConsumeInv(s, call[s]) BY DEF BudgetInv
    <3>2. PICK c : /\ call' = [call EXCEPT ![r] = c] /\ c.op = call[r].op
                   /\ c.at \in {"done", "recover"}
      BY <2>3
    <3>3. QED BY <3>1, <3>2, <1>1, <1>2 DEF ConsumeInv
  <2>5. QED BY <2>2, <2>4, <1>3 DEF BudgetInv, ConsumeInv
<1>4. CASE /\ Continue(r, call[r], "recover") /\ UNCHANGED <<effects, budget>>
           /\ late' \in {late, late \cup {[by |-> r, request |-> call[r]]}}
  <2>1. \A w \in late' : w \in late \/ (ConsumeInv(w.by, w.request) /\ w.request.at = "write")
    BY <1>2, <1>4
  <2>2. QED BY <2>1, <1>1, <1>2, <1>4, ContinueKeepsBudget
<1>5. QED BY <1>3, <1>4 DEF Write

\* The read after a failed write charges nothing.
LEMMA RecoverKeepsBudget ==
  ASSUME ReleaseInv, BudgetInv, NEW r \in Runs, Recover(r)
  PROVE  BudgetInv'
<1>1. /\ call[r] \in Calls /\ CallInv(r, call[r]) /\ effects \in [Keys -> Items]
  BY OwnFacts
<1>2. call[r].at = "recover" /\ UNCHANGED <<effects, budget, late>> BY DEF Recover
<1>3. PICK i : i = effects[call[r].approval.key] OBVIOUS
<1>4. i \in Items BY <1>1, <1>2, <1>3, KeyOfRun DEF CallInv, RequestInv, KeyOf
<1>5. PICK d : d = [call[r] EXCEPT !.seen = i] OBVIOUS
<1>6. d \in Calls /\ d.op = call[r].op BY <1>1, <1>4, <1>5 DEF Calls
<1>7. (\E a : Answer(r, d, a)) \/ \E a : Answer(r, call[r], a)
  BY <1>3, <1>5 DEF Recover, ReadFails
<1>8. QED BY <1>1, <1>2, <1>6, <1>7, AnswerKeepsBudget

\* A write that arrives late still carries the account it was made for.
LEMMA LateKeepsBudget ==
  ASSUME ReleaseInv, BudgetInv, NEW w \in late, WriteArrivesLate(w), UNCHANGED brokerVars
  PROVE  BudgetInv'
<1>1. PICK r : r = w.by OBVIOUS
<1>2. PICK c : c = w.request OBVIOUS
<1>3. late \subseteq [by : Runs, request : Calls]
  BY DEF ReleaseInv, ReleaseTypeOK, StoreTypeOK
<1>4. /\ r \in Runs /\ c \in Calls /\ RequestInv(r, c) /\ FailedInv(r, c)
      /\ c.op \in Writing /\ ConsumeInv(r, c) /\ c.at = "write"
  BY <1>1, <1>2, <1>3 DEF ReleaseInv, BudgetInv
<1>5. /\ late' = late \ {w} /\ call' = call
      /\ IF Holds(c) THEN Applied(r, c) ELSE UNCHANGED <<effects, budget>>
  BY <1>1, <1>2 DEF WriteArrivesLate
<1>6. ReserveIsKept'
  <2>1. CASE Holds(c) BY <2>1, <1>4, <1>5, AppliedKeepsReserve
  <2>2. CASE ~Holds(c) BY <2>2, <1>5 DEF BudgetInv, ReserveIsKept, Occupied
  <2>3. QED BY <2>1, <2>2
<1>7. QED BY <1>5, <1>6 DEF BudgetInv, ConsumeInv

\* Every step keeps the account within its bounds.
LEMMA BudgetSteps == ReleaseInv /\ BudgetInv /\ [ReleaseNext]_releaseVars => BudgetInv'
<1>1. SUFFICES ASSUME ReleaseInv, BudgetInv, [ReleaseNext]_releaseVars PROVE BudgetInv'
  OBVIOUS
<1>2. call \in [Runs -> Calls] BY <1>1 DEF ReleaseInv, ReleaseTypeOK, StoreTypeOK
<1>3. ASSUME NEW r \in Runs, ReserveSteps(r) \/ DispatchSteps(r) \/ TerminalSteps(r)
      PROVE  BudgetInv'
  BY <1>1, <1>2, <1>3, ReserveStepsAsk, DispatchStepsAsk, TerminalStepsAsk,
     AskingKeepsBudget
<1>4. ASSUME NEW r \in Runs, StoreStep(r), UNCHANGED brokerVars PROVE BudgetInv'
  BY <1>1, <1>4, ReadKeepsBudget, BudgetReadKeepsBudget, WriteKeepsBudget,
     RecoverKeepsBudget DEF StoreStep
<1>5. CASE StoreNetwork /\ UNCHANGED brokerVars
  BY <1>1, <1>5, LateKeepsBudget DEF StoreNetwork
<1>6. CASE Tick \/ UNCHANGED releaseVars
  <2>1. UNCHANGED <<effects, budget, call, late>>
    BY <1>6 DEF Tick, releaseVars, storeVars
  <2>2. QED BY <1>1, <2>1 DEF BudgetInv, ReserveIsKept, Occupied, ConsumeInv
<1>7. QED BY <1>1, <1>3, <1>4, <1>5, <1>6 DEF ReleaseNext

\* For any approvals and any interleaving, loss and late arrival of consumptions,
\* the account stays within CAP_MICRO_USD and, until a teardown was charged, keeps
\* TEARDOWN_BUDGET_RESERVE_USD.
THEOREM ReserveHolds == ReleaseSpec => []ReserveIsKept
<1>1. ReleaseInit => BudgetInv
  <2>1. SUFFICES ASSUME ReleaseInit PROVE BudgetInv OBVIOUS
  <2>2. /\ call = [r \in Runs |-> Idle] /\ budget = [cumulative |-> 0, version |-> 0]
        /\ late = {}
    BY <2>1 DEF ReleaseInit, StoreInit
  <2>3. ReserveIsKept BY <2>2, ReleaseAssumption DEF ReserveIsKept
  <2>4. QED BY <2>2, <2>3 DEF BudgetInv, ConsumeInv, Idle
<1>2. BudgetInv => ReserveIsKept BY DEF BudgetInv
<1>3. QED BY <1>1, <1>2, BudgetSteps, ReleaseAlways, PTL DEF ReleaseSpec

-----------------------------------------------------------------------------
(* The account and the journal.  The sum of the journal takes the effects    *)
(* one at a time, in the order that CHOOSE picks; it does not depend on that *)
(* order, so that a new effect adds its amount.                              *)

\* A set of parts of a finite set has a smallest one: what is left of it when
\* something is taken away is not in the set.
LEMMA SmallestPart ==
  ASSUME NEW S, IsFiniteSet(S), NEW B \in SUBSET (SUBSET S), B # {}
  PROVE  \E s \in B : \A x \in s : s \ {x} \notin B
<1> DEFINE T == {Cardinality(s) : s \in B}
<1>1. \A s \in SUBSET S : /\ IsFiniteSet(s) /\ Cardinality(s) \in Nat
                          /\ \A x \in s : Cardinality(s \ {x}) = Cardinality(s) - 1
  BY FS_Subset, FS_CardinalityType, FS_RemoveElement
<1>2. T \in SUBSET Nat /\ T # {} BY <1>1
<1>3. PICK n \in T : \A m \in T : ~(<<m, n>> \in OpToRel(<, Nat))
  <2> HIDE DEF T
  <2> QED BY <1>2, NatLessThanWellFounded, WFMin, Zenon
<1>4. \A m \in T : ~(m < n)
  <2> HIDE DEF T
  <2> QED BY <1>2, <1>3 DEF OpToRel
<1>5. PICK s \in B : n = Cardinality(s) OBVIOUS
<1>6. ASSUME NEW x \in s, s \ {x} \in B PROVE FALSE
  <2>1. Cardinality(s \ {x}) \in T BY <1>6
  <2>2. Cardinality(s \ {x}) = n - 1 /\ n \in Nat BY <1>1, <1>5, <1>6
  <2>3. ~(n - 1 < n) BY <1>4, <2>1, <2>2
  <2> QED BY <2>2, <2>3
<1> QED BY <1>6

Chosen(s) == CHOOSE x \in s : TRUE

LEMMA ChosenIn == \A s : s # {} => Chosen(s) \in s
BY DEF Chosen

\* g is the sum of the weights w over the parts of S.
Tally(g, w, S) ==
  g = [s \in SUBSET S |-> IF s = {} THEN 0 ELSE w[Chosen(s)] + g[s \ {Chosen(s)}]]

LEMMA TallyStep ==
  ASSUME NEW S, NEW w, NEW g, Tally(g, w, S)
  PROVE  /\ g[{}] = 0
         /\ \A s \in SUBSET S :
              s # {} => /\ Chosen(s) \in s
                        /\ g[s] = w[Chosen(s)] + g[s \ {Chosen(s)}]
<1> HIDE DEF Chosen
<1>1. g[{}] = 0 BY DEF Tally
<1> QED BY <1>1, ChosenIn DEF Tally

\* There is such a sum.  If it could not be formed up to some size, take a
\* smallest part for which it cannot.
LEMMA TallyExists ==
  ASSUME NEW S, IsFiniteSet(S), NEW w \in [S -> Nat]
  PROVE  \E g : Tally(g, w, S)
<1> DEFINE Next0(g) == [s \in SUBSET S |-> IF s = {} THEN 0
                                           ELSE w[Chosen(s)] + g[s \ {Chosen(s)}]]
           UpTo(n) == \E g \in [SUBSET S -> Nat] :
                        \A s \in SUBSET S : Cardinality(s) <= n => g[s] = Next0(g)[s]
<1>1. \A s \in SUBSET S : /\ IsFiniteSet(s) /\ Cardinality(s) \in Nat
                          /\ Cardinality(s) = 0 <=> s = {}
                          /\ \A x \in s : Cardinality(s \ {x}) = Cardinality(s) - 1
  BY FS_Subset, FS_CardinalityType, FS_RemoveElement, FS_EmptySet
<1>2. ASSUME NEW g \in [SUBSET S -> Nat] PROVE Next0(g) \in [SUBSET S -> Nat]
  <2> SUFFICES ASSUME NEW s \in SUBSET S, s # {}
               PROVE  w[Chosen(s)] + g[s \ {Chosen(s)}] \in Nat
    BY <1>2
  <2> HIDE DEF Chosen
  <2>1. Chosen(s) \in S BY ChosenIn
  <2>2. w[Chosen(s)] \in Nat /\ g[s \ {Chosen(s)}] \in Nat BY <2>1, <1>2
  <2> QED BY <2>2
<1>3. UpTo(0)
  <2> DEFINE z == [s \in SUBSET S |-> 0]
  <2>1. z \in [SUBSET S -> Nat] OBVIOUS
  <2>2. ASSUME NEW s \in SUBSET S, Cardinality(s) <= 0 PROVE z[s] = Next0(z)[s]
    <3>1. s = {} BY <1>1, <2>2
    <3> QED BY <3>1
  <2> HIDE DEF z, Next0
  <2> QED BY <2>1, <2>2
<1>4. ASSUME NEW n \in Nat \ {0}, UpTo(n - 1) PROVE UpTo(n)
  <2>1. PICK g \in [SUBSET S -> Nat] :
          \A s \in SUBSET S : Cardinality(s) <= n - 1 => g[s] = Next0(g)[s]
    BY <1>4
  <2>2. PICK h : h = Next0(g) OBVIOUS
  <2>3. h \in [SUBSET S -> Nat] BY <1>2, <2>2
  <2>4. ASSUME NEW s \in SUBSET S, Cardinality(s) <= n PROVE h[s] = Next0(h)[s]
    <3>1. CASE s = {} BY <2>2, <3>1
    <3>2. CASE s # {}
      <4> HIDE DEF Chosen
      <4>1. Chosen(s) \in s BY <3>2, ChosenIn
      <4>2. PICK t \in SUBSET S : t = s \ {Chosen(s)} OBVIOUS
      <4>3. Cardinality(t) = Cardinality(s) - 1 BY <1>1, <4>1, <4>2
      <4>4. Cardinality(t) <= n - 1 BY <1>1, <2>4, <4>3
      <4>5. g[t] = h[t] BY <2>1, <2>2, <4>4
      <4> QED BY <2>2, <3>2, <4>2, <4>5
    <3> QED BY <3>1, <3>2
  <2> HIDE DEF Next0
  <2> QED BY <2>3, <2>4
<1>5. \A n \in Nat : UpTo(n)
  <2> DEFINE Without == {n \in Nat : ~UpTo(n)}
  <2> HIDE DEF UpTo
  <2> SUFFICES ASSUME Without # {} PROVE FALSE OBVIOUS
  <2>1. PICK n \in Without : \A m \in Without : ~(<<m, n>> \in OpToRel(<, Nat))
    <3>1. Without \in SUBSET Nat OBVIOUS
    <3> HIDE DEF Without
    <3> QED BY <3>1, NatLessThanWellFounded, WFMin, Zenon
  <2>2. \A m \in Without : ~(m < n) BY <2>1 DEF OpToRel
  <2>3. n \in Nat \ {0} /\ ~UpTo(n) BY <1>3, <2>1
  <2>4. n - 1 \in Nat /\ n - 1 < n BY <2>3
  <2>5. UpTo(n - 1) BY <2>2, <2>4
  <2> QED BY <1>4, <2>3, <2>5
<1>6. PICK g \in [SUBSET S -> Nat] :
        \A s \in SUBSET S : Cardinality(s) <= Cardinality(S) => g[s] = Next0(g)[s]
  BY <1>1, <1>5
<1>7. \A s \in SUBSET S : Cardinality(s) <= Cardinality(S) BY FS_Subset
<1>8. g = Next0(g)
  <2> HIDE DEF Chosen
  <2>1. \A s \in SUBSET S : g[s] = Next0(g)[s] BY <1>6, <1>7
  <2> QED BY <2>1
<1> QED BY <1>8 DEF Tally

\* Taking any element away takes its weight away, whatever CHOOSE picked.
LEMMA TallyRemoves ==
  ASSUME NEW S, IsFiniteSet(S), NEW w \in [S -> Nat], NEW g, Tally(g, w, S)
  PROVE  \A s \in SUBSET S : /\ g[s] \in Nat
                             /\ \A x \in s : g[s] = w[x] + g[s \ {x}]
<1> HIDE DEF Chosen
<1>0. /\ g[{}] = 0
      /\ \A s \in SUBSET S : s # {} => /\ Chosen(s) \in s
                                       /\ g[s] = w[Chosen(s)] + g[s \ {Chosen(s)}]
  BY TallyStep
<1>1. \A s \in SUBSET S : g[s] \in Nat
  <2> DEFINE B == {s \in SUBSET S : g[s] \notin Nat}
  <2> SUFFICES ASSUME B # {} PROVE FALSE OBVIOUS
  <2>1. PICK s \in B : \A x \in s : s \ {x} \notin B
    <3>1. B \in SUBSET (SUBSET S) OBVIOUS
    <3> HIDE DEF B
    <3> QED BY <3>1, SmallestPart
  <2>2. s # {}
    <3>1. g[s] \notin Nat BY <2>1
    <3>2. s = {} => g[s] = 0 BY <1>0, Zenon
    <3> QED BY <3>1, <3>2
  <2>3. Chosen(s) \in s /\ g[s] = w[Chosen(s)] + g[s \ {Chosen(s)}]
    <3>1. s \in SUBSET S BY <2>1
    <3> QED BY <1>0, <2>2, <3>1
  <2>4. g[s \ {Chosen(s)}] \in Nat /\ w[Chosen(s)] \in Nat BY <2>1, <2>3
  <2> QED BY <2>1, <2>3, <2>4
<1>2. \A s \in SUBSET S : \A x \in s : g[s] = w[x] + g[s \ {x}]
  <2> DEFINE B == {s \in SUBSET S : \E x \in s : g[s] # w[x] + g[s \ {x}]}
  <2> SUFFICES ASSUME B # {} PROVE FALSE OBVIOUS
  <2>1. PICK s \in B : \A x \in s : s \ {x} \notin B
    <3>1. B \in SUBSET (SUBSET S) OBVIOUS
    <3> HIDE DEF B
    <3> QED BY <3>1, SmallestPart
  <2>2. PICK x \in s : g[s] # w[x] + g[s \ {x}] BY <2>1
  <2>3. PICK c : c = Chosen(s) OBVIOUS
  <2>4. c \in s /\ g[s] = w[c] + g[s \ {c}]
    <3>1. s \in SUBSET S /\ s # {} BY <2>1, <2>2
    <3> QED BY <1>0, <2>3, <3>1
  <2>5. x # c BY <2>2, <2>4
  <2>6. g[s \ {c}] = w[x] + g[(s \ {c}) \ {x}] BY <2>1, <2>2, <2>4, <2>5
  <2>7. g[s \ {x}] = w[c] + g[(s \ {x}) \ {c}] BY <2>1, <2>2, <2>4, <2>5
  <2>8. (s \ {c}) \ {x} = (s \ {x}) \ {c} OBVIOUS
  <2>9. /\ (s \ {x}) \ {c} \in SUBSET S /\ x \in S /\ c \in S
    BY <2>1, <2>2, <2>4
  <2>10. g[(s \ {x}) \ {c}] \in Nat /\ w[x] \in Nat /\ w[c] \in Nat
    BY <2>9, <1>1
  <2>11. g[s] = w[c] + (w[x] + g[(s \ {x}) \ {c}]) BY <2>4, <2>6, <2>8
  <2>12. w[x] + g[s \ {x}] = w[x] + (w[c] + g[(s \ {x}) \ {c}]) BY <2>7
  <2>13. \A i, j, l \in Nat : i + (j + l) = j + (i + l) OBVIOUS
  <2>14. g[s] = w[x] + g[s \ {x}] BY <2>10, <2>11, <2>12, <2>13
  <2> QED BY <2>2, <2>14
<1> QED BY <1>1, <1>2

\* Sums of the same weights are the same.
LEMMA TallyAgrees ==
  ASSUME NEW S, IsFiniteSet(S), NEW w, NEW g, Tally(g, w, S),
         NEW R, S \subseteq R, NEW v, NEW h, Tally(h, v, R),
         \A x \in S : w[x] = v[x]
  PROVE  g[S] = h[S]
<1> HIDE DEF Chosen
<1> DEFINE B == {s \in SUBSET S : g[s] # h[s]}
<1> SUFFICES ASSUME B # {} PROVE FALSE OBVIOUS
<1>1. PICK s \in B : \A x \in s : s \ {x} \notin B
  <2>1. B \in SUBSET (SUBSET S) OBVIOUS
  <2> HIDE DEF B
  <2> QED BY <2>1, SmallestPart
<1>2. s \in SUBSET R BY <1>1
<1>3. s # {} BY <1>1, TallyStep
<1>4. Chosen(s) \in s /\ g[s] = w[Chosen(s)] + g[s \ {Chosen(s)}]
  BY <1>1, <1>3, TallyStep
<1>5. h[s] = v[Chosen(s)] + h[s \ {Chosen(s)}]
  BY <1>2, <1>3, TallyStep
<1>6. w[Chosen(s)] = v[Chosen(s)] /\ g[s \ {Chosen(s)}] = h[s \ {Chosen(s)}]
  BY <1>1, <1>4
<1> QED BY <1>1, <1>4, <1>5, <1>6

Amounts(items, S) == [k \in S |-> items[k].approval.amount]

\* Charged is that sum of the amounts.
LEMMA ChargedIs ==
  ASSUME NEW items, NEW S, IsFiniteSet(S), \A k \in S : items[k].approval.amount \in Nat
  PROVE  \E g : Tally(g, Amounts(items, S), S) /\ Charged(items, S) = g[S]
<1>1. Amounts(items, S) \in [S -> Nat] BY DEF Amounts
<1>2. PICK g : Tally(g, Amounts(items, S), S) BY <1>1, TallyExists
<1> DEFINE Sum(h) == [s \in SUBSET S |->
                        IF s = {} THEN 0
                        ELSE items[CHOOSE x \in s : TRUE].approval.amount
                               + h[s \ {CHOOSE x \in s : TRUE}]]
           Total == CHOOSE h : h = Sum(h)
<1>3. ASSUME NEW h PROVE Tally(h, Amounts(items, S), S) <=> h = Sum(h)
  <2>1. \A s \in SUBSET S : s # {} => Amounts(items, S)[Chosen(s)]
                                        = items[CHOOSE x \in s : TRUE].approval.amount
    <3> SUFFICES ASSUME NEW s \in SUBSET S, s # {}
                 PROVE  Amounts(items, S)[Chosen(s)] = items[Chosen(s)].approval.amount
      BY DEF Chosen
    <3>1. Chosen(s) \in S BY ChosenIn
    <3> QED BY <3>1 DEF Amounts
  <2> HIDE DEF Amounts
  <2>2. Sum(h) = [s \in SUBSET S |->
                    IF s = {} THEN 0
                    ELSE Amounts(items, S)[Chosen(s)] + h[s \ {Chosen(s)}]]
    <3> SUFFICES ASSUME NEW s \in SUBSET S, s # {}
                 PROVE  items[CHOOSE x \in s : TRUE].approval.amount
                          + h[s \ {CHOOSE x \in s : TRUE}]
                          = Amounts(items, S)[Chosen(s)] + h[s \ {Chosen(s)}]
      BY Zenon
    <3>1. Amounts(items, S)[Chosen(s)] = items[CHOOSE x \in s : TRUE].approval.amount
      BY <2>1
    <3>2. Chosen(s) = CHOOSE x \in s : TRUE BY DEF Chosen
    <3> QED BY <3>1, <3>2, Zenon
  <2> QED BY <2>2 DEF Tally
<1>4. Total = Sum(Total)
  <2> HIDE DEF Sum
  <2> QED BY <1>2, <1>3, Zenon
<1>5. Charged(items, S) = Total[S]
  BY Zenon DEF Charged, MapThenSumSet, MapThenFoldSet
<1> HIDE DEF Sum, Total
<1> QED BY <1>3, <1>4, <1>5

\* A sum does not change when the amounts do not.
LEMMA ChargedSame ==
  ASSUME NEW items, NEW other, NEW S, IsFiniteSet(S),
         \A k \in S : /\ items[k].approval.amount \in Nat
                      /\ other[k].approval.amount = items[k].approval.amount
  PROVE  Charged(other, S) = Charged(items, S)
<1>1. \A k \in S : other[k].approval.amount \in Nat OBVIOUS
<1>2. PICK g : Tally(g, Amounts(items, S), S) /\ Charged(items, S) = g[S]
  BY ChargedIs
<1>3. PICK h : Tally(h, Amounts(other, S), S) /\ Charged(other, S) = h[S]
  BY <1>1, ChargedIs
<1>4. \A k \in S : Amounts(items, S)[k] = Amounts(other, S)[k] BY DEF Amounts
<1>5. g[S] = h[S] BY <1>2, <1>3, <1>4, TallyAgrees
<1> QED BY <1>2, <1>3, <1>5

\* The items other journal k and, with the same amounts, what items do.
JournalsOneMore(items, other, S, k) ==
  /\ IsFiniteSet(S) /\ k \notin S
  /\ \A x \in S : /\ items[x].approval.amount \in Nat
                  /\ other[x].approval.amount = items[x].approval.amount
  /\ other[k].approval.amount \in Nat

\* An effect that is new in the journal adds its amount.
LEMMA ChargedAdds ==
  ASSUME NEW items, NEW other, NEW S, NEW k, JournalsOneMore(items, other, S, k)
  PROVE  /\ Charged(items, S) \in Nat
         /\ Charged(other, S \cup {k}) = Charged(items, S) + other[k].approval.amount
<1> USE DEF JournalsOneMore
<1>1. PICK R : R = S \cup {k} OBVIOUS
<1>2. IsFiniteSet(R) /\ S \in SUBSET R /\ k \in R /\ R \ {k} = S
  BY <1>1, FS_AddElement
<1>3. \A x \in R : other[x].approval.amount \in Nat BY <1>1
<1>4. PICK g : Tally(g, Amounts(items, S), S) /\ Charged(items, S) = g[S]
  BY ChargedIs
<1>5. PICK h : Tally(h, Amounts(other, R), R) /\ Charged(other, R) = h[R]
  BY <1>2, <1>3, ChargedIs
<1>6. Amounts(other, R) \in [R -> Nat] /\ Amounts(items, S) \in [S -> Nat]
  BY <1>3 DEF Amounts
<1>7. \A x \in S : Amounts(items, S)[x] = Amounts(other, R)[x] BY <1>1 DEF Amounts
<1>8. g[S] = h[S] BY <1>2, <1>4, <1>5, <1>7, TallyAgrees
<1>9. \A s \in SUBSET R : /\ h[s] \in Nat
                          /\ \A x \in s : h[s] = Amounts(other, R)[x] + h[s \ {x}]
  BY <1>2, <1>5, <1>6, TallyRemoves
<1>10. h[R] = Amounts(other, R)[k] + h[S] /\ h[S] \in Nat BY <1>2, <1>9
<1>11. Amounts(other, R)[k] = other[k].approval.amount BY <1>2 DEF Amounts
<1> QED BY <1>1, <1>4, <1>5, <1>8, <1>10, <1>11

\* Nothing is charged for nothing.
LEMMA ChargedNothing == \A items : Charged(items, {}) = 0
<1> SUFFICES ASSUME NEW items PROVE Charged(items, {}) = 0 OBVIOUS
<1>1. IsFiniteSet({}) BY FS_EmptySet
<1>2. PICK g : Tally(g, Amounts(items, {}), {}) /\ Charged(items, {}) = g[{}]
  BY <1>1, ChargedIs
<1> QED BY <1>2, TallyStep

JournalInv == IsFiniteSet(Occupied) /\ BudgetMatchesTheJournal

\* The journal is what it was, when the same effects are in it under the same
\* approvals.
LEMMA JournalStands ==
  ASSUME ReleaseInv, JournalInv, budget' = budget, Occupied' = Occupied,
         \A k \in Occupied : effects'[k].approval = effects[k].approval
  PROVE  JournalInv'
<1>1. \A k \in Occupied : effects[k].approval.amount \in Nat
  <2> SUFFICES ASSUME NEW k \in Occupied PROVE effects[k].approval.amount \in Nat
    OBVIOUS
  <2>1. k \in Keys /\ ItemInv(k, effects[k]) /\ effects[k] # Absent
    BY DEF Occupied, ReleaseInv, EffectInv
  <2>2. effects[k].approval \in Approvals BY <2>1 DEF ItemInv
  <2> QED BY <2>2, ReleaseAssumption
<1>2. Charged(effects', Occupied) = Charged(effects, Occupied)
  BY <1>1, ChargedSame DEF JournalInv
<1>3. /\ IsFiniteSet(Occupied) /\ budget.cumulative = Charged(effects, Occupied)
      /\ budget.version = Cardinality(Occupied)
  BY DEF JournalInv, BudgetMatchesTheJournal
<1>4. Charged(effects', Occupied') = Charged(effects, Occupied) BY <1>2
<1> QED BY <1>3, <1>4 DEF JournalInv, BudgetMatchesTheJournal

\* A conditional write that holds charges what it journals: the transaction of
\* consumeOnce compares the budget with what was read and finds no item.
LEMMA AppliedKeepsJournal ==
  ASSUME ReleaseInv, JournalInv, NEW r \in Runs, NEW c \in Calls, c.op \in Writing,
         RequestInv(r, c), FailedInv(r, c), Holds(c), Applied(r, c)
  PROVE  JournalInv'
<1>1. /\ budget \in [cumulative : Nat, version : Nat] /\ effects \in [Keys -> Items]
  BY DEF ReleaseInv, ReleaseTypeOK, StoreTypeOK
<1>2. /\ effects' \in [Keys -> Items] /\ \A k \in Keys : GoesOn(k)
  BY AppliedGoesOn
<1>3. ASSUME NEW k \in Occupied
      PROVE  /\ k \in Occupied' /\ effects'[k].approval = effects[k].approval
             /\ effects[k].approval.amount \in Nat
  <2>1. k \in Keys /\ ItemInv(k, effects[k]) /\ effects[k] # Absent
    BY DEF Occupied, ReleaseInv, EffectInv
  <2>2. effects[k].state # "ABSENT" /\ effects[k].approval \in Approvals
    BY <2>1 DEF ItemInv
  <2>3. effects'[k].approval = effects[k].approval
    BY <2>1, <2>2, <1>2 DEF GoesOn, Precedes
  <2>4. effects'[k] # Absent BY <2>2, <2>3, ReleaseAssumption DEF Absent
  <2>5. effects[k].approval.amount \in Nat BY <2>2, ReleaseAssumption
  <2> QED BY <2>1, <2>3, <2>4, <2>5 DEF Occupied
<1>4. CASE c.op = "consumeOnce"
  <2>1. PICK a : a = ApprovalOf[r] OBVIOUS
  <2>2. c.approval = a /\ a \in Approvals /\ a.key \in Keys /\ a.amount \in Nat
    BY <2>1, <1>4, ReleaseAssumption DEF RequestInv, Keys
  <2>3. ConsumeHolds(c) /\ ConsumeApplied(r, c) BY <1>4 DEF Holds, Applied
  <2>4. PICK i : i = [Absent EXCEPT !.state = "CONSUMED", !.approval = c.approval,
                                    !.consumption = r]
    OBVIOUS
  <2>5. effects' = [effects EXCEPT ![a.key] = i] /\ i.approval = a
    BY <2>2, <2>3, <2>4 DEF ConsumeApplied, Absent
  <2>6. effects'[a.key].approval = a /\ a.key \notin Occupied
    BY <1>1, <2>2, <2>3, <2>5 DEF ConsumeHolds, Occupied
  <2>7. Occupied' = Occupied \cup {a.key}
    <3>1. a.key \in Occupied'
      BY <2>2, <2>6, ReleaseAssumption DEF Occupied, Absent
    <3>2. \A k \in Occupied' : k = a.key \/ k \in Occupied
      BY <1>1, <2>5 DEF Occupied
    <3> QED BY <1>3, <3>1, <3>2
  <2>8. IsFiniteSet(Occupied) BY DEF JournalInv
  <2>9. /\ Charged(effects, Occupied) \in Nat
        /\ Charged(effects', Occupied \cup {a.key})
             = Charged(effects, Occupied) + a.amount
    <3>1. effects'[a.key].approval.amount = a.amount BY <2>6
    <3>2. JournalsOneMore(effects, effects', Occupied, a.key)
      BY <1>3, <2>2, <2>6, <2>8, <3>1 DEF JournalsOneMore
    <3>3. Charged(effects', Occupied \cup {a.key})
            = Charged(effects, Occupied) + effects'[a.key].approval.amount
      BY <3>2, ChargedAdds
    <3> QED BY <3>1, <3>2, <3>3, ChargedAdds
  <2>10. /\ IsFiniteSet(Occupied \cup {a.key})
         /\ Cardinality(Occupied \cup {a.key}) = Cardinality(Occupied) + 1
    BY <2>6, <2>8, FS_AddElement
  <2>11. /\ c.prior = Charged(effects, Occupied) /\ c.version = Cardinality(Occupied)
    BY <2>3 DEF ConsumeHolds, JournalInv, BudgetMatchesTheJournal
  <2>12. /\ budget'.cumulative = c.prior + a.amount
         /\ budget'.version = c.version + 1
    BY <2>2, <2>3 DEF ConsumeApplied
  <2>13. Charged(effects', Occupied') = Charged(effects, Occupied) + a.amount
    BY <2>7, <2>9
  <2>14. Cardinality(Occupied') = Cardinality(Occupied) + 1 /\ IsFiniteSet(Occupied')
    BY <2>7, <2>10
  <2> QED BY <2>11, <2>12, <2>13, <2>14 DEF JournalInv, BudgetMatchesTheJournal
<1>5. CASE c.op \in {"appendIntent", "writeTerminal"}
  <2>1. budget' = budget
    BY <1>5 DEF Applied, IntentApplied, TerminalApplied
  <2>2. c.approval.key \in Occupied
    <3>1. c.approval.key \in Keys
      BY <1>5, ReleaseAssumption DEF RequestInv, Keys
    <3>2. effects[c.approval.key].state # "ABSENT"
      BY <1>5 DEF Holds, IntentHolds, TerminalHolds
    <3> QED BY <3>1, <3>2 DEF Occupied, Absent
  <2>3. \A k \in Keys : k # c.approval.key => effects'[k] = effects[k]
    BY <1>1, <1>5 DEF Applied, IntentApplied, TerminalApplied
  <2>4. Occupied' = Occupied
    <3>1. \A k \in Occupied' : k \in Occupied BY <2>2, <2>3 DEF Occupied
    <3> QED BY <1>3, <3>1
  <2> QED BY <1>3, <2>1, <2>4, JournalStands
<1> QED BY <1>4, <1>5 DEF Writing

\* Every step keeps the account and the journal together.
LEMMA JournalSteps == ReleaseInv /\ JournalInv /\ [ReleaseNext]_releaseVars => JournalInv'
<1> SUFFICES ASSUME ReleaseInv, JournalInv, [ReleaseNext]_releaseVars PROVE JournalInv'
  OBVIOUS
<1>1. UNCHANGED <<effects, budget>> => JournalInv'
  <2> SUFFICES ASSUME UNCHANGED <<effects, budget>> PROVE JournalInv' OBVIOUS
  <2>1. Occupied' = Occupied BY DEF Occupied
  <2> QED BY <2>1, JournalStands
<1>2. ASSUME NEW r \in Runs, ReserveSteps(r) \/ DispatchSteps(r) \/ TerminalSteps(r)
      PROVE  JournalInv'
  <2>1. AsksOrForgets(r)
    <3>1. call \in [Runs -> Calls]
      BY DEF ReleaseInv, ReleaseTypeOK, StoreTypeOK
    <3> QED BY <1>2, <3>1, ReserveStepsAsk, DispatchStepsAsk, TerminalStepsAsk
  <2> QED BY <1>1, <2>1 DEF AsksOrForgets
<1>3. ASSUME NEW r \in Runs, Write(r) PROVE JournalInv'
  <2>1. /\ call[r] \in Calls /\ CallInv(r, call[r]) /\ FailedInv(r, call[r])
    BY OwnFacts
  <2>2. /\ call[r].at = "write" /\ call[r].op \in Writing /\ RequestInv(r, call[r])
    BY <2>1, <1>3 DEF Write, CallInv
  <2>3. (Holds(call[r]) /\ Applied(r, call[r])) \/ UNCHANGED <<effects, budget>>
    BY <1>3 DEF Write
  <2> QED BY <1>1, <2>1, <2>2, <2>3, AppliedKeepsJournal
<1>4. ASSUME NEW r \in Runs, ReadEffect(r) \/ ReadBudget(r) \/ Recover(r)
      PROVE  JournalInv'
  BY <1>1, <1>4 DEF ReadEffect, ReadBudget, Recover
<1>5. ASSUME NEW w \in late, WriteArrivesLate(w) PROVE JournalInv'
  <2>1. PICK r, c : r = w.by /\ c = w.request OBVIOUS
  <2>2. late \subseteq [by : Runs, request : Calls]
    BY DEF ReleaseInv, ReleaseTypeOK, StoreTypeOK
  <2>3. /\ r \in Runs /\ c \in Calls /\ RequestInv(r, c) /\ FailedInv(r, c)
        /\ c.op \in Writing
    BY <2>1, <2>2 DEF ReleaseInv
  <2>4. (Holds(c) /\ Applied(r, c)) \/ UNCHANGED <<effects, budget>>
    BY <1>5, <2>1 DEF WriteArrivesLate
  <2> QED BY <1>1, <2>3, <2>4, AppliedKeepsJournal
<1>6. CASE Tick \/ UNCHANGED releaseVars
  BY <1>1, <1>6 DEF Tick, releaseVars, storeVars
<1> QED
  BY <1>2, <1>3, <1>4, <1>5, <1>6 DEF ReleaseNext, StoreStep, StoreNetwork

\* For any approvals and any interleaving, loss and late arrival of consumptions,
\* the account is the sum of what is journalled, with one version for each, and
\* keeps within CAP_MICRO_USD and the reserve of a teardown.
THEOREM BudgetHolds == ReleaseSpec => []BudgetIsKept
<1>1. ReleaseInit => JournalInv
  <2> SUFFICES ASSUME ReleaseInit PROVE JournalInv OBVIOUS
  <2>1. /\ budget.cumulative = 0 /\ budget.version = 0 /\ Occupied = {}
    BY DEF ReleaseInit, StoreInit, Occupied
  <2>2. IsFiniteSet({}) /\ Cardinality({}) = 0 BY FS_EmptySet
  <2>3. Charged(effects, {}) = 0 BY ChargedNothing
  <2> QED BY <2>1, <2>2, <2>3 DEF JournalInv, BudgetMatchesTheJournal
<1>2. JournalInv /\ ReserveIsKept => BudgetIsKept BY DEF JournalInv, BudgetIsKept
<1> QED BY <1>1, <1>2, JournalSteps, ReleaseAlways, ReserveHolds, PTL DEF ReleaseSpec

-----------------------------------------------------------------------------
(* PrivateQuery.                                                             *)

Verdicts == {"none", "PASS", "FAILED_NO_PROVIDER_CALL", "UNKNOWN_DO_NOT_RETRY"}
QueryReceipts == [status : Verdicts, by : QueryRuns \cup {NoRun}]
Steps == {"idle", "read", "mark", "call", "finalize", "unknown", "fail", "settle", "ended"}
Updating == {"mark", "finalize", "fail", "settle"}

QueryTypeOK ==
  /\ operator \in [QueryRuns -> [at : {"idle", "reserve", "lookup", "wait", "readback",
                                       "reconcile", "ended"},
                                 reread : BOOLEAN, sent : BOOLEAN]]
  /\ function \in [QueryRuns -> [at : Steps, reread : BOOLEAN, seen : QueryRuns \cup {NoRun},
                                 reply : QueryReceipts]]
  /\ asked \in [QueryRuns -> {0, 1}]
  /\ valid \subseteq {r \in QueryRuns : asked[r] > 0}
  /\ told \in [QueryRuns -> [status : Verdicts \cup {"INVOCATION_ACK_UNKNOWN_WAIT",
                                                   "PROVIDER_OUTCOME_UNKNOWN_DO_NOT_RETRY"},
                             by : QueryRuns \cup {NoRun}]]

\* The item, as it is or as an update would make it: a terminal item has the
\* receipt of an invocation, and PASS is the receipt of one that got its row.
EntryIs(e) ==
  /\ e.status \in {"ABSENT", "RESERVED", "DISPATCHING"} \cup Terminal
  /\ e.receipt \in QueryReceipts
  /\ e.status \in Terminal <=> e.receipt.by # NoRun
  /\ e.status = "DISPATCHING" => e.dispatch \in QueryRuns
  /\ e.status = "FINAL" => e.receipt.by \in valid

\* An update takes the item one status on.
LegalUpdate(w) ==
  /\ EntryIs(w.new)
  /\ \/ w.from = "ABSENT" /\ w.new.status = "RESERVED"
     \/ w.from = "RESERVED" /\ w.new.status \in {"DISPATCHING", "FAILED"}
     \/ w.from = "DISPATCHING" /\ w.new.status \in {"FINAL", "UNKNOWN"}

\* The invocation has read its own dispatch in the item, and may ask.
Dispatched(r) == function[r].at \in {"call", "finalize", "unknown", "settle"} \/ asked[r] > 0

InvocationInv(r) ==
  /\ function[r].reread => function[r].at \in Updating
  /\ function[r].at \in {"idle", "read", "mark", "call", "fail"} => asked[r] = 0
  /\ function[r].at = "finalize" => r \in valid
  /\ Dispatched(r) =>
       /\ record.status \in {"DISPATCHING", "FINAL", "UNKNOWN"}
       /\ record.status = "DISPATCHING" => record.dispatch = r

OneDispatched == \A r, s \in QueryRuns : Dispatched(r) /\ Dispatched(s) => r = s

ToldIsTrue ==
  \A r \in QueryRuns :
    /\ told[r].by # NoRun => told[r] = record.receipt
    /\ told[r].status = "PROVIDER_OUTCOME_UNKNOWN_DO_NOT_RETRY" =>
         record.status \in {"DISPATCHING", "FINAL", "UNKNOWN"}

StoreInv == EntryIs(record) /\ \A w \in delayed : LegalUpdate(w)

QueryInv ==
  /\ QueryTypeOK /\ StoreInv /\ OneDispatched /\ ToldIsTrue
  /\ \A r \in QueryRuns : InvocationInv(r)

\* What the store does under any step: the item goes on, or stays.
StoreGoesOn ==
  /\ StoreInv'
  /\ record.status \in Terminal => record' = record
  /\ record.status = "DISPATCHING" => record' = record \/ record'.status \in {"FINAL", "UNKNOWN"}

\* An update that is applied, refused or left in the air is the store going on.
LEMMA UpdateGoesOn ==
  ASSUME QueryInv, valid \subseteq valid', NEW w, LegalUpdate(w),
         \/ ConditionHolds(w) /\ record' = w.new
         \/ record' = record,
         \A u \in delayed' : u \in delayed \/ u = w
  PROVE  StoreGoesOn
  <1>1. \A e : EntryIs(e) => EntryIs(e)'
    BY DEF EntryIs
  <1>2. EntryIs(w.new) /\ EntryIs(record) /\ (\A u \in delayed : LegalUpdate(u))
    BY DEF LegalUpdate, QueryInv, StoreInv
  <1>3. EntryIs(record)'
    <2>1. CASE record' = w.new
      BY <2>1, <1>2 DEF EntryIs
    <2>2. CASE record' = record
      BY <2>2, <1>2 DEF EntryIs
    <2> QED BY <2>1, <2>2
  <1>4. \A u \in delayed' : LegalUpdate(u)'
    <2>1. \A u : LegalUpdate(u) => LegalUpdate(u)'
      BY DEF LegalUpdate, EntryIs
    <2> QED BY <2>1, <1>2
  <1>5. ASSUME ConditionHolds(w), record' = w.new
        PROVE  /\ record.status \notin Terminal
               /\ record.status = "DISPATCHING" => record'.status \in {"FINAL", "UNKNOWN"}
    BY <1>5 DEF ConditionHolds, LegalUpdate, Terminal
  <1> QED BY <1>3, <1>4, <1>5 DEF StoreGoesOn, StoreInv

\* Nothing happens to the store.
LEMMA StoreRests ==
  ASSUME QueryInv, UNCHANGED <<record, delayed>>, valid \subseteq valid'
  PROVE  StoreGoesOn
  <1>1. EntryIs(record)'
    BY DEF QueryInv, StoreInv, EntryIs
  <1>2. \A u \in delayed' : LegalUpdate(u)'
    <2>1. \A u : LegalUpdate(u) => LegalUpdate(u)'
      BY DEF LegalUpdate, EntryIs
    <2> QED BY <2>1 DEF QueryInv, StoreInv
  <1> QED BY <1>1, <1>2 DEF StoreGoesOn, StoreInv

\* What was told stays true while the store goes on.
LEMMA ToldStays ==
  ASSUME QueryInv, StoreGoesOn, told' = told
  PROVE  ToldIsTrue'
  <1>1. ASSUME NEW r \in QueryRuns, told[r].by # NoRun
        PROVE  told[r] = record'.receipt
    <2>1. told[r] = record.receipt
      BY <1>1 DEF QueryInv, ToldIsTrue
    <2>2. record.status \in Terminal
      BY <1>1, <2>1 DEF QueryInv, StoreInv, EntryIs
    <2> QED BY <2>1, <2>2 DEF StoreGoesOn
  <1>2. record.status \in {"DISPATCHING", "FINAL", "UNKNOWN"} =>
          record'.status \in {"DISPATCHING", "FINAL", "UNKNOWN"}
    BY DEF StoreGoesOn, Terminal
  <1> QED BY <1>1, <1>2 DEF QueryInv, ToldIsTrue

\* An invocation that does not move keeps its invariant.
LEMMA InvocationStays ==
  ASSUME QueryInv, StoreGoesOn, NEW r \in QueryRuns, function'[r] = function[r], asked'[r] = asked[r],
         valid \subseteq valid'
  PROVE  InvocationInv(r)' /\ (Dispatched(r)' <=> Dispatched(r))
  <1>1. Dispatched(r)' <=> Dispatched(r)
    BY DEF Dispatched
  <1>2. record.status \in {"DISPATCHING", "FINAL", "UNKNOWN"} =>
          record'.status \in {"DISPATCHING", "FINAL", "UNKNOWN"}
    BY DEF StoreGoesOn, Terminal
  <1>3. record.status \in {"DISPATCHING", "FINAL", "UNKNOWN"} /\ record'.status = "DISPATCHING" =>
          record' = record
    BY DEF StoreGoesOn, Terminal
  <1> QED BY <1>1, <1>2, <1>3 DEF QueryInv, InvocationInv

\* A step of the operator, or of nobody.
LEMMA OperatorMoves ==
  ASSUME QueryInv, StoreGoesOn, UNCHANGED <<function, asked, valid>>, QueryTypeOK', ToldIsTrue'
  PROVE  QueryInv'
  <1>1. \A r \in QueryRuns : InvocationInv(r)' /\ (Dispatched(r)' <=> Dispatched(r))
    BY InvocationStays
  <1>2. OneDispatched'
    BY <1>1 DEF QueryInv, OneDispatched
  <1> QED BY <1>1, <1>2 DEF QueryInv, StoreGoesOn

\* A step of an invocation, which does not come to be dispatched by it, or
\* has just read its own dispatch.
LEMMA InvocationMoves ==
  ASSUME QueryInv, StoreGoesOn, NEW r \in QueryRuns, valid \subseteq valid',
         \A s \in QueryRuns : s # r => function'[s] = function[s] /\ asked'[s] = asked[s],
         UNCHANGED told, QueryTypeOK', InvocationInv(r)',
         \/ Dispatched(r)' => Dispatched(r)
         \/ \A s \in QueryRuns : ~Dispatched(s)
         \/ record.status = "DISPATCHING" /\ record.dispatch = r
  PROVE  QueryInv'
  <1>1. \A s \in QueryRuns : s # r => InvocationInv(s)' /\ (Dispatched(s)' <=> Dispatched(s))
    BY InvocationStays
  <1>2. OneDispatched'
    <2>1. CASE (Dispatched(r)' => Dispatched(r)) \/ \A s \in QueryRuns : ~Dispatched(s)
      BY <1>1, <2>1 DEF QueryInv, OneDispatched
    <2>2. CASE record.status = "DISPATCHING" /\ record.dispatch = r
      <3>1. \A s \in QueryRuns : Dispatched(s) => s = r
        BY <2>2 DEF QueryInv, InvocationInv
      <3> QED BY <1>1, <3>1 DEF OneDispatched
    <2> QED BY <2>1, <2>2
  <1>3. ToldIsTrue'
    BY ToldStays
  <1> QED BY <1>1, <1>2, <1>3 DEF QueryInv, StoreGoesOn

\* The updates that runs and invocations send.
LEMMA UpdatesAre ==
  ASSUME QueryInv, NEW r \in QueryRuns
  PROVE  /\ LegalUpdate(Reservation(r))
         /\ function[r].at \in Updating => LegalUpdate(UpdateOf(r))
         /\ function[r].at = "mark" =>
              UpdateOf(r).new.status = "DISPATCHING" /\ UpdateOf(r).new.dispatch = r
              /\ UpdateOf(r).from = "RESERVED"
  <1>1. NoReceipt \in QueryReceipts /\ NoReceipt.by = NoRun
    BY DEF NoReceipt, QueryReceipts, Verdicts
  <1>2. \A status \in Verdicts : Receipt(status, r) \in QueryReceipts /\ Receipt(status, r).by = r
    BY DEF Receipt, QueryReceipts
  <1>3. r # NoRun
    BY QueryAssumption
  <1>4. LegalUpdate(Reservation(r))
    BY <1>1 DEF LegalUpdate, Reservation, EntryIs, Entry, Terminal
  <1>5. LegalUpdate(MarkDispatch(r))
    BY <1>1 DEF LegalUpdate, MarkDispatch, EntryIs, Entry, Terminal
  <1>6. function[r].at = "finalize" => LegalUpdate(TerminalUpdate(r, "DISPATCHING", r, "PASS"))
    <2>1. function[r].at = "finalize" => r \in valid
      BY DEF QueryInv, InvocationInv
    <2>2. Receipt("PASS", r) \in QueryReceipts /\ Receipt("PASS", r).by = r
      BY <1>2 DEF Verdicts
    <2> QED BY <1>3, <2>1, <2>2 DEF LegalUpdate, TerminalUpdate, Ending, EntryIs, Entry, Terminal
  <1>7. LegalUpdate(TerminalUpdate(r, "RESERVED", NoRun, "FAILED_NO_PROVIDER_CALL"))
    <2>2. /\ Receipt("FAILED_NO_PROVIDER_CALL", r) \in QueryReceipts
          /\ Receipt("FAILED_NO_PROVIDER_CALL", r).by = r
      BY <1>2 DEF Verdicts
    <2> QED BY <1>3, <2>2 DEF LegalUpdate, TerminalUpdate, Ending, EntryIs, Entry, Terminal
  <1>8. LegalUpdate(TerminalUpdate(r, "DISPATCHING", function[r].seen, "UNKNOWN_DO_NOT_RETRY"))
    <2>2. /\ Receipt("UNKNOWN_DO_NOT_RETRY", r) \in QueryReceipts
          /\ Receipt("UNKNOWN_DO_NOT_RETRY", r).by = r
      BY <1>2 DEF Verdicts
    <2> QED BY <1>3, <2>2 DEF LegalUpdate, TerminalUpdate, Ending, EntryIs, Entry, Terminal
  <1>9. function[r].at \in Updating => LegalUpdate(UpdateOf(r))
    BY <1>5, <1>6, <1>7, <1>8 DEF UpdateOf, Updating
  <1>10. function[r].at = "mark" =>
              UpdateOf(r).new.status = "DISPATCHING" /\ UpdateOf(r).new.dispatch = r
              /\ UpdateOf(r).from = "RESERVED"
    BY DEF UpdateOf, MarkDispatch, Entry
  <1> QED BY <1>4, <1>9, <1>10

\* How an update is answered.
LEMMA UpdateMoves ==
  ASSUME QueryInv, valid \subseteq valid', NEW w, LegalUpdate(w),
         UpdateApplied(w) \/ Refused(w) \/ Unanswered(w)
  PROVE  StoreGoesOn
  BY UpdateGoesOn DEF UpdateApplied, Refused, Unanswered

-----------------------------------------------------------------------------
(* The invocation.                                                           *)

FunctionShape ==
  [QueryRuns -> [at : Steps, reread : BOOLEAN, seen : QueryRuns \cup {NoRun}, reply : QueryReceipts]]

\* An invocation goes to a step.
LEMMA FunctionMoves ==
  ASSUME QueryInv, StoreGoesOn, NEW r \in QueryRuns, function' \in FunctionShape,
         \A s \in QueryRuns : s # r => function'[s] = function[s],
         UNCHANGED <<operator, asked, valid, told>>,
         function'[r].reread => function'[r].at \in Updating,
         function'[r].at \in {"idle", "read", "mark", "call", "fail"} => asked[r] = 0,
         function'[r].at = "finalize" => r \in valid,
         function'[r].at \in {"call", "finalize", "unknown", "settle"} =>
           \/ Dispatched(r)
           \/ /\ record'.status = "DISPATCHING" /\ record'.dispatch = r
              /\ \/ \A s \in QueryRuns : ~Dispatched(s)
                 \/ record.status = "DISPATCHING" /\ record.dispatch = r
  PROVE  QueryInv'
  <1>1. QueryTypeOK'
    BY DEF QueryInv, QueryTypeOK, FunctionShape
  <1>2. Dispatched(r)' <=> function'[r].at \in {"call", "finalize", "unknown", "settle"} \/ asked[r] > 0
    BY DEF Dispatched
  <1>3. ASSUME Dispatched(r)
        PROVE  /\ record'.status \in {"DISPATCHING", "FINAL", "UNKNOWN"}
               /\ record'.status = "DISPATCHING" => record'.dispatch = r
    <2>1. /\ record.status \in {"DISPATCHING", "FINAL", "UNKNOWN"}
          /\ record.status = "DISPATCHING" => record.dispatch = r
      BY <1>3 DEF QueryInv, InvocationInv
    <2> QED BY <2>1 DEF StoreGoesOn, Terminal
  <1>4. asked[r] > 0 => Dispatched(r)
    BY DEF Dispatched
  <1>5. InvocationInv(r)'
    <2>1. Dispatched(r)' => /\ record'.status \in {"DISPATCHING", "FINAL", "UNKNOWN"}
                            /\ record'.status = "DISPATCHING" => record'.dispatch = r
      BY <1>2, <1>3, <1>4
    <2> QED BY <2>1 DEF InvocationInv
  <1>6. \/ Dispatched(r)' => Dispatched(r)
        \/ \A s \in QueryRuns : ~Dispatched(s)
        \/ record.status = "DISPATCHING" /\ record.dispatch = r
    BY <1>2, <1>4
  <1> QED BY <1>1, <1>5, <1>6, InvocationMoves

\* The forms of a step of an invocation.
LEMMA FunctionGoes ==
  ASSUME QueryInv, NEW r \in QueryRuns
  PROVE  /\ \A step \in Steps : FnGoes(r, step) =>
              /\ function' \in FunctionShape /\ function'[r].at = step /\ ~function'[r].reread
              /\ \A s \in QueryRuns : s # r => function'[s] = function[s]
         /\ \A receipt \in QueryReceipts : FnEnds(r, receipt) =>
              /\ function' \in FunctionShape /\ function'[r].at = "ended" /\ ~function'[r].reread
              /\ \A s \in QueryRuns : s # r => function'[s] = function[s]
         /\ function \in FunctionShape
  <1>1. function \in FunctionShape
    BY DEF QueryInv, QueryTypeOK, FunctionShape
  <1>2. ASSUME NEW step \in Steps, FnGoes(r, step)
        PROVE  /\ function' \in FunctionShape /\ function'[r].at = step /\ ~function'[r].reread
               /\ \A s \in QueryRuns : s # r => function'[s] = function[s]
    BY <1>1, <1>2 DEF FnGoes, FunctionShape
  <1>3. ASSUME NEW receipt \in QueryReceipts, FnEnds(r, receipt)
        PROVE  /\ function' \in FunctionShape /\ function'[r].at = "ended" /\ ~function'[r].reread
               /\ \A s \in QueryRuns : s # r => function'[s] = function[s]
    BY <1>1, <1>3 DEF FnEnds, FunctionShape, Steps
  <1> QED BY <1>1, <1>2, <1>3

\* An invocation ends, with a receipt or with none.
LEMMA FunctionEnds ==
  ASSUME QueryInv, StoreGoesOn, NEW r \in QueryRuns, NEW receipt \in QueryReceipts,
         FnEnds(r, receipt), fnRest
  PROVE  QueryInv'
  BY FunctionGoes, FunctionMoves DEF fnRest

\* The receipts there are.
LEMMA QueryReceiptsAre ==
  ASSUME QueryInv
  PROVE  /\ NoReceipt \in QueryReceipts /\ record.receipt \in QueryReceipts
         /\ \A r \in QueryRuns : \A status \in Verdicts : Receipt(status, r) \in QueryReceipts
  BY DEF NoReceipt, QueryReceipts, Verdicts, Receipt, QueryInv, StoreInv, EntryIs

\* An error, before and in the catch clause.
LEMMA ThrowsMoves ==
  ASSUME QueryInv, StoreGoesOn, NEW r \in QueryRuns, function[r].at \in Updating, Throws(r), fnRest
  PROVE  QueryInv'
  <1>1. CASE function[r].at = "mark"
    <2>1. FnGoes(r, "fail")
      BY <1>1 DEF Throws, FnAt
    <2>2. asked[r] = 0
      BY <1>1 DEF QueryInv, InvocationInv
    <2> QED BY <2>1, <2>2, FunctionGoes, FunctionMoves DEF fnRest, Steps
  <1>2. CASE function[r].at = "finalize"
    <2>1. FnGoes(r, "unknown")
      BY <1>2 DEF Throws, FnAt
    <2>2. Dispatched(r)
      BY <1>2 DEF Dispatched
    <2> QED BY <2>1, <2>2, FunctionGoes, FunctionMoves DEF fnRest, Steps
  <1>3. CASE function[r].at \in {"fail", "settle"}
    <2>1. FnEnds(r, NoReceipt)
      BY <1>3 DEF Throws, FnAt, FnThrows
    <2> QED BY <2>1, QueryReceiptsAre, FunctionEnds
  <1> QED BY <1>1, <1>2, <1>3 DEF Updating

\* An update that is confirmed: the mark of the dispatch lets the invocation ask.
LEMMA AcceptedMoves ==
  ASSUME QueryInv, StoreGoesOn, NEW r \in QueryRuns, function[r].at \in Updating, Accepted(r), fnRest,
         function[r].at = "mark" =>
           /\ record'.status = "DISPATCHING" /\ record'.dispatch = r
           /\ \/ record.status = "RESERVED"
              \/ record.status = "DISPATCHING" /\ record.dispatch = r
  PROVE  QueryInv'
  <1>1. CASE function[r].at = "mark"
    <2>1. FnGoes(r, "call")
      BY <1>1 DEF Accepted, FnAt
    <2>2. asked[r] = 0
      BY <1>1 DEF QueryInv, InvocationInv
    <2>3. record.status = "RESERVED" => \A s \in QueryRuns : ~Dispatched(s)
      BY DEF QueryInv, InvocationInv
    <2> QED BY <1>1, <2>1, <2>2, <2>3, FunctionGoes, FunctionMoves DEF fnRest, Steps
  <1>2. CASE function[r].at \in {"finalize", "fail", "settle"}
    <2>1. PICK status \in Verdicts : FnEnds(r, Receipt(status, r))
      BY <1>2 DEF Accepted, FnAt, Verdicts
    <2> QED BY <2>1, QueryReceiptsAre, FunctionEnds
  <1> QED BY <1>1, <1>2 DEF Updating

\* The request reaches the function.
LEMMA DoInvoked ==
  ASSUME QueryInv, NEW r \in QueryRuns, Invoked(r)
  PROVE  QueryInv'
  <1>1. StoreGoesOn /\ fnRest
    BY StoreRests DEF Invoked, storeRest, fnRest
  <1>2. CASE FnGoes(r, "read")
    <2>1. asked[r] = 0
      BY DEF Invoked, FnAt, QueryInv, InvocationInv
    <2> QED BY <1>1, <1>2, <2>1, FunctionGoes, FunctionMoves DEF fnRest, Steps
  <1>3. CASE FnThrows(r)
    BY <1>1, <1>3, QueryReceiptsAre, FunctionEnds DEF FnThrows
  <1> QED BY <1>2, <1>3 DEF Invoked

\* The first read of the item.
LEMMA DoReadState ==
  ASSUME QueryInv, NEW r \in QueryRuns, ReadState(r)
  PROVE  QueryInv'
  <1>1. StoreGoesOn /\ fnRest
    BY StoreRests DEF ReadState, storeRest, fnRest
  <1>2. asked[r] = 0
    BY DEF ReadState, FnAt, QueryInv, InvocationInv
  <1>3. FnGoes(r, "fail") \/ FnGoes(r, "mark") \/ FnEnds(r, record.receipt)
    BY DEF ReadState
  <1>4. CASE FnGoes(r, "fail")
    BY <1>1, <1>2, <1>4, FunctionGoes, FunctionMoves DEF fnRest, Steps
  <1>5. CASE FnGoes(r, "mark")
    BY <1>1, <1>2, <1>5, FunctionGoes, FunctionMoves DEF fnRest, Steps
  <1>6. CASE FnEnds(r, record.receipt)
    BY <1>1, <1>6, QueryReceiptsAre, FunctionEnds
  <1> QED BY <1>3, <1>4, <1>5, <1>6

\* An update of the invocation: answered, refused, unanswered.
LEMMA DoFnUpdate ==
  ASSUME QueryInv, NEW r \in QueryRuns, FnUpdate(r)
  PROVE  QueryInv'
  <1>1. /\ function[r].at \in Updating /\ fnRest /\ LegalUpdate(UpdateOf(r))
        /\ UpdateApplied(UpdateOf(r)) \/ Refused(UpdateOf(r)) \/ Unanswered(UpdateOf(r))
    BY UpdatesAre DEF FnUpdate, Updating
  <1>2. StoreGoesOn
    BY <1>1, UpdateMoves DEF fnRest
  <1>3. CASE UpdateApplied(UpdateOf(r)) /\ Accepted(r)
    <2>1. function[r].at = "mark" =>
            record'.status = "DISPATCHING" /\ record'.dispatch = r /\ record.status = "RESERVED"
      BY <1>3, UpdatesAre DEF UpdateApplied, ConditionHolds
    <2> QED BY <1>1, <1>2, <1>3, <2>1, AcceptedMoves
  <1>4. CASE function' = [function EXCEPT ![r].reread = TRUE]
    <2>1. /\ function' \in FunctionShape /\ function'[r].at = function[r].at /\ function'[r].reread
          /\ \A s \in QueryRuns : s # r => function'[s] = function[s]
      BY <1>4, FunctionGoes DEF FunctionShape
    <2>2. /\ function[r].at \in {"idle", "read", "mark", "call", "fail"} => asked[r] = 0
          /\ function[r].at = "finalize" => r \in valid
          /\ function[r].at \in {"call", "finalize", "unknown", "settle"} => Dispatched(r)
      BY DEF QueryInv, InvocationInv, Dispatched
    <2> QED BY <1>1, <1>2, <2>1, <2>2, FunctionMoves DEF fnRest
  <1> QED BY <1>3, <1>4 DEF FnUpdate

\* The strong read after an update that was not answered with success.
LEMMA DoFnReread ==
  ASSUME QueryInv, NEW r \in QueryRuns, FnReread(r)
  PROVE  QueryInv'
  <1>1. StoreGoesOn /\ fnRest
    BY StoreRests DEF FnReread, storeRest, fnRest
  <1>2. function[r].at \in Updating
    BY DEF FnReread, QueryInv, InvocationInv
  <1>3. CASE Throws(r)
    BY <1>1, <1>2, <1>3, ThrowsMoves
  <1>4. CASE Reconciled(r) /\ Accepted(r)
    <2>1. record' = record
      BY DEF FnReread, storeRest
    <2>2. function[r].at = "mark" => record.status = "DISPATCHING" /\ record.dispatch = r
      BY <1>4, UpdatesAre DEF Reconciled
    <2> QED BY <1>1, <1>2, <1>4, <2>1, <2>2, AcceptedMoves
  <1> QED BY <1>3, <1>4 DEF FnReread

\* The query: not sent, or sent once, with the row that was approved or without.
LEMMA DoSelectQuery ==
  ASSUME QueryInv, NEW r \in QueryRuns, SelectQuery(r)
  PROVE  QueryInv'
  <1>1. /\ function[r].at = "call" /\ storeRest /\ UNCHANGED <<operator, told, mishaps>>
        /\ asked[r] = 0 /\ Dispatched(r)
    BY DEF SelectQuery, FnAt, QueryInv, InvocationInv, Dispatched
  <1>2. CASE FnGoes(r, "unknown") /\ UNCHANGED <<asked, valid>>
    <2>1. StoreGoesOn
      BY <1>1, <1>2, StoreRests DEF storeRest
    <2> QED BY <1>1, <1>2, <2>1, FunctionGoes, FunctionMoves DEF Steps
  <1>3. CASE /\ asked' = [asked EXCEPT ![r] = @ + 1]
             /\ \/ FnGoes(r, "finalize") /\ valid' = valid \cup {r}
                \/ FnGoes(r, "unknown") /\ UNCHANGED valid
    <2>1. valid \subseteq valid' /\ StoreGoesOn
      BY <1>1, <1>3, StoreRests DEF storeRest
    <2>2. asked \in [QueryRuns -> {0, 1}] /\ valid \subseteq {s \in QueryRuns : asked[s] > 0}
      BY DEF QueryInv, QueryTypeOK
    <2>3. /\ asked' \in [QueryRuns -> {0, 1}] /\ asked'[r] = 1
          /\ \A s \in QueryRuns : s # r => asked'[s] = asked[s]
      BY <1>1, <1>3, <2>2
    <2>4. /\ function' \in FunctionShape /\ function'[r].at \in {"finalize", "unknown"} /\ ~function'[r].reread
          /\ \A s \in QueryRuns : s # r => function'[s] = function[s]
          /\ function'[r].at = "finalize" => r \in valid'
      BY <1>3, FunctionGoes DEF Steps
    <2>5. valid' \subseteq {s \in QueryRuns : asked'[s] > 0}
      BY <1>3, <2>2, <2>3
    <2>6. QueryTypeOK'
      BY <1>1, <2>3, <2>4, <2>5 DEF QueryInv, QueryTypeOK, FunctionShape
    <2>7. /\ record'.status \in {"DISPATCHING", "FINAL", "UNKNOWN"}
          /\ record'.status = "DISPATCHING" => record'.dispatch = r
      BY <1>1 DEF QueryInv, InvocationInv, storeRest
    <2>8. InvocationInv(r)'
      BY <2>3, <2>4, <2>7 DEF InvocationInv
    <2> QED BY <1>1, <2>1, <2>3, <2>4, <2>6, <2>8, InvocationMoves
  <1> QED BY <1>2, <1>3 DEF SelectQuery

\* An outcome that is not known, looked for before it is written.
LEMMA DoMarkUnknown ==
  ASSUME QueryInv, NEW r \in QueryRuns, MarkUnknown(r)
  PROVE  QueryInv'
  <1>1. StoreGoesOn /\ fnRest
    BY StoreRests DEF MarkUnknown, storeRest, fnRest
  <1>2. function[r].at = "unknown" /\ Dispatched(r)
    BY DEF MarkUnknown, FnAt, Dispatched
  <1>3. \/ FnThrows(r) \/ FnEnds(r, record.receipt)
        \/ /\ record.status = "DISPATCHING"
           /\ function' = [function EXCEPT ![r].at = "settle", ![r].seen = record.dispatch]
    BY DEF MarkUnknown
  <1>4. CASE FnThrows(r)
    BY <1>1, <1>4, QueryReceiptsAre, FunctionEnds DEF FnThrows
  <1>5. CASE FnEnds(r, record.receipt)
    BY <1>1, <1>5, QueryReceiptsAre, FunctionEnds
  <1>6. CASE /\ record.status = "DISPATCHING"
             /\ function' = [function EXCEPT ![r].at = "settle", ![r].seen = record.dispatch]
    <2>1. record.dispatch \in QueryRuns
      BY <1>6 DEF QueryInv, StoreInv, EntryIs
    <2>2. /\ function' \in FunctionShape /\ function'[r].at = "settle"
          /\ function'[r].reread = function[r].reread
          /\ \A s \in QueryRuns : s # r => function'[s] = function[s]
      BY <1>6, <2>1, FunctionGoes DEF FunctionShape, Steps
    <2>3. ~function[r].reread
      BY <1>2 DEF QueryInv, InvocationInv, Updating
    <2> QED BY <1>1, <1>2, <2>2, <2>3, FunctionMoves DEF fnRest
  <1> QED BY <1>3, <1>4, <1>5, <1>6

-----------------------------------------------------------------------------
(* The operator's run, and every step.                                       *)

OperatorShape ==
  [QueryRuns -> [at : {"idle", "reserve", "lookup", "wait", "readback", "reconcile", "ended"},
                 reread : BOOLEAN, sent : BOOLEAN]]

\* A run goes on without a word.
LEMMA OperatorGoes ==
  ASSUME QueryInv, StoreGoesOn, operator' \in OperatorShape, UNCHANGED told,
         UNCHANGED <<function, asked, valid>>
  PROVE  QueryInv'
  <1>1. QueryTypeOK'
    BY DEF QueryInv, QueryTypeOK, OperatorShape
  <1> QED BY <1>1, ToldStays, OperatorMoves

\* The forms of a step of a run.
LEMMA OperatorSteps ==
  ASSUME QueryInv, NEW r \in QueryRuns
  PROVE  /\ \A step \in {"reserve", "lookup", "wait", "readback", "reconcile", "ended"} :
              OpGoes(r, step) => operator' \in OperatorShape /\ UNCHANGED told
         /\ Sends(r) => operator' \in OperatorShape /\ UNCHANGED told
         /\ \A what : Tells(r, what) =>
              operator' \in OperatorShape /\ told' = [told EXCEPT ![r] = what]
         /\ operator' = [operator EXCEPT ![r].reread = TRUE] => operator' \in OperatorShape
  <1>1. operator \in OperatorShape
    BY DEF QueryInv, QueryTypeOK, OperatorShape
  <1>2. ASSUME NEW step \in {"reserve", "lookup", "wait", "readback", "reconcile", "ended"}, OpGoes(r, step)
        PROVE  operator' \in OperatorShape /\ UNCHANGED told
    BY <1>1, <1>2 DEF OpGoes, OperatorShape
  <1>3. Sends(r) => operator' \in OperatorShape /\ UNCHANGED told
    BY <1>1 DEF Sends, OperatorShape
  <1>4. ASSUME NEW what, Tells(r, what)
        PROVE  operator' \in OperatorShape /\ told' = [told EXCEPT ![r] = what]
    BY <1>1, <1>4 DEF Tells, OperatorShape
  <1>5. operator' = [operator EXCEPT ![r].reread = TRUE] => operator' \in OperatorShape
    BY <1>1 DEF OperatorShape
  <1> QED BY <1>2, <1>3, <1>4, <1>5

\* What a run publishes is the receipt of the item, or that there is none yet.
LEMMA RunTells ==
  ASSUME QueryInv, NEW r \in QueryRuns, NEW what, Tells(r, what), storeRest, opRest,
         \/ what = record.receipt
         \/ what = Receipt("INVOCATION_ACK_UNKNOWN_WAIT", NoRun)
         \/ /\ what = Receipt("PROVIDER_OUTCOME_UNKNOWN_DO_NOT_RETRY", NoRun)
            /\ record.status = "DISPATCHING"
  PROVE  QueryInv'
  <1>1. StoreGoesOn /\ record' = record
    BY StoreRests DEF storeRest, opRest
  <1>2. operator' \in OperatorShape /\ told' = [told EXCEPT ![r] = what]
    BY OperatorSteps
  <1>3. record.receipt \in QueryReceipts
    BY QueryReceiptsAre
  <1>4. /\ what \in [status : Verdicts \cup {"INVOCATION_ACK_UNKNOWN_WAIT",
                                             "PROVIDER_OUTCOME_UNKNOWN_DO_NOT_RETRY"},
                     by : QueryRuns \cup {NoRun}]
        /\ what.by # NoRun => what = record.receipt
        /\ what.status = "PROVIDER_OUTCOME_UNKNOWN_DO_NOT_RETRY" => record.status = "DISPATCHING"
    <2>1. CASE what = record.receipt
      BY <1>3, <2>1 DEF QueryReceipts, Verdicts
    <2>2. CASE what = Receipt("INVOCATION_ACK_UNKNOWN_WAIT", NoRun)
      BY <2>2 DEF Receipt
    <2>3. CASE /\ what = Receipt("PROVIDER_OUTCOME_UNKNOWN_DO_NOT_RETRY", NoRun)
               /\ record.status = "DISPATCHING"
      BY <2>3 DEF Receipt
    <2> QED BY <2>1, <2>2, <2>3
  <1>5. /\ told' \in [QueryRuns -> [status : Verdicts \cup {"INVOCATION_ACK_UNKNOWN_WAIT",
                                                          "PROVIDER_OUTCOME_UNKNOWN_DO_NOT_RETRY"},
                                    by : QueryRuns \cup {NoRun}]]
        /\ told'[r] = what /\ \A s \in QueryRuns : s # r => told'[s] = told[s]
    BY <1>2, <1>4 DEF QueryInv, QueryTypeOK
  <1>6. QueryTypeOK'
    BY <1>2, <1>5 DEF QueryInv, QueryTypeOK, OperatorShape, opRest
  <1>7. ToldIsTrue'
    BY <1>1, <1>4, <1>5 DEF QueryInv, ToldIsTrue
  <1> QED BY <1>1, <1>6, <1>7, OperatorMoves DEF opRest

\* The reservation: answered, refused, unanswered.
LEMMA DoReserveOperation ==
  ASSUME QueryInv, NEW r \in QueryRuns, ReserveOperation(r)
  PROVE  QueryInv'
  <1>1. opRest /\ LegalUpdate(Reservation(r))
    BY UpdatesAre DEF ReserveOperation
  <1>2. StoreGoesOn
    BY <1>1, UpdateMoves DEF ReserveOperation, opRest
  <1>3. operator' \in OperatorShape /\ UNCHANGED told
    BY OperatorSteps DEF ReserveOperation
  <1> QED BY <1>1, <1>2, <1>3, OperatorGoes DEF opRest

\* The other steps of a run: its start, what it finds reserved, the answer of
\* the invocation, the readback and the reconciliation.
LEMMA DoOperator ==
  ASSUME QueryInv, NEW r \in QueryRuns,
         StartOperator(r) \/ ReservedBefore(r) \/ InvocationReturns(r) \/ FinalReadback(r) \/ Reconcile(r)
  PROVE  QueryInv'
  <1>1. storeRest /\ opRest /\ StoreGoesOn
    BY StoreRests DEF StartOperator, ReservedBefore, InvocationReturns, FinalReadback, Reconcile,
                      storeRest, opRest
  <1>2. ASSUME NEW step \in {"reserve", "lookup", "wait", "readback", "reconcile", "ended"}, OpGoes(r, step)
        PROVE  QueryInv'
    BY <1>1, <1>2, OperatorSteps, OperatorGoes DEF opRest
  <1>3. CASE StartOperator(r)
    BY <1>2, <1>3 DEF StartOperator
  <1>4. CASE ReservedBefore(r)
    <2>1. Stops(r) \/ Tells(r, record.receipt) \/ Sends(r)
      BY <1>4 DEF ReservedBefore
    <2>2. CASE Sends(r)
      BY <1>1, <2>2, OperatorSteps, OperatorGoes DEF opRest
    <2>3. CASE Tells(r, record.receipt)
      BY <1>1, <2>3, RunTells
    <2>4. CASE Stops(r)
      BY <1>2, <2>4 DEF Stops
    <2> QED BY <2>1, <2>2, <2>3, <2>4
  <1>5. CASE InvocationReturns(r)
    BY <1>2, <1>5 DEF InvocationReturns
  <1>6. CASE FinalReadback(r)
    <2>1. Stops(r) \/ Tells(r, record.receipt)
      BY <1>6 DEF FinalReadback
    <2> QED BY <1>1, <1>2, <2>1, RunTells DEF Stops
  <1>7. CASE Reconcile(r)
    <2>1. \/ Stops(r) \/ Tells(r, record.receipt)
          \/ Tells(r, Receipt("INVOCATION_ACK_UNKNOWN_WAIT", NoRun))
          \/ /\ Tells(r, Receipt("PROVIDER_OUTCOME_UNKNOWN_DO_NOT_RETRY", NoRun))
             /\ record.status = "DISPATCHING"
      <3>1. record.status \in {"ABSENT", "RESERVED", "DISPATCHING"} \cup Terminal
        BY DEF QueryInv, StoreInv, EntryIs
      <3>2. CASE ~Decodes(r) BY <1>7, <3>2 DEF Reconcile
      <3>3. CASE Decodes(r) /\ record.status \in Terminal
        BY <1>7, <3>3 DEF Reconcile, Terminal
      <3>4. CASE Decodes(r) /\ record.status = "RESERVED"
        BY <1>7, <3>4 DEF Reconcile, Terminal
      <3>5. CASE Decodes(r) /\ record.status = "DISPATCHING"
        BY <1>7, <3>5 DEF Reconcile, Terminal
      <3>6. Decodes(r) => record.status # "ABSENT"
        BY DEF Decodes
      <3> QED BY <3>1, <3>2, <3>3, <3>4, <3>5, <3>6
    <2>2. CASE Stops(r)
      BY <1>2, <2>2 DEF Stops
    <2>3. CASE Tells(r, record.receipt)
      BY <1>1, <2>3, RunTells
    <2>4. CASE Tells(r, Receipt("INVOCATION_ACK_UNKNOWN_WAIT", NoRun))
      BY <1>1, <2>4, RunTells
    <2>5. CASE /\ Tells(r, Receipt("PROVIDER_OUTCOME_UNKNOWN_DO_NOT_RETRY", NoRun))
               /\ record.status = "DISPATCHING"
      BY <1>1, <2>5, RunTells
    <2> QED BY <2>1, <2>2, <2>3, <2>4, <2>5
  <1> QED BY <1>3, <1>4, <1>5, <1>6, <1>7

\* The death of an invocation or of a run.
LEMMA DoQueryDies ==
  ASSUME QueryInv, NEW r \in QueryRuns, QueryDies(r)
  PROVE  QueryInv'
  <1>1. CASE FnThrows(r) /\ fnRest
    <2>1. StoreGoesOn
      BY <1>1, StoreRests DEF QueryDies, storeRest, fnRest
    <2> QED BY <1>1, <2>1, QueryReceiptsAre, FunctionEnds DEF FnThrows
  <1>2. CASE Stops(r) /\ opRest
    <2>1. StoreGoesOn
      BY <1>2, StoreRests DEF QueryDies, storeRest, opRest
    <2> QED BY <1>2, <2>1, OperatorSteps, OperatorGoes DEF Stops, opRest
  <1> QED BY <1>1, <1>2 DEF QueryDies

\* An update that its caller gave up is applied, if its condition still holds.
LEMMA DoLandsLate ==
  ASSUME QueryInv, LandsLate \/ UNCHANGED queryVars
  PROVE  QueryInv'
  <1>1. UNCHANGED <<operator, function, asked, valid, told>>
    BY DEF LandsLate, queryVars
  <1>2. StoreGoesOn
    <2>1. CASE UNCHANGED queryVars
      BY <2>1, StoreRests DEF queryVars
    <2>2. CASE LandsLate
      <3>1. PICK w \in delayed : /\ delayed' = delayed \ {w}
                                 /\ record' = IF ConditionHolds(w) THEN w.new ELSE record
        BY <2>2 DEF LandsLate
      <3>2. LegalUpdate(w)
        BY DEF QueryInv, StoreInv
      <3> QED BY <1>1, <3>1, <3>2, UpdateGoesOn
    <2> QED BY <2>1, <2>2
  <1>3. operator' \in OperatorShape
    BY <1>1 DEF QueryInv, QueryTypeOK, OperatorShape
  <1> QED BY <1>1, <1>2, <1>3, OperatorGoes

\* At the start nothing is recorded.
LEMMA QueryStarts == QueryInit => QueryInv
  <1> SUFFICES ASSUME QueryInit PROVE QueryInv
    OBVIOUS
  <1>1. NoReceipt \in QueryReceipts /\ NoReceipt.by = NoRun /\ NoReceipt.status = "none"
    BY DEF NoReceipt, QueryReceipts, Verdicts
  <1>2. QueryTypeOK
    BY <1>1 DEF QueryInit, QueryTypeOK, Steps, NoReceipt, Verdicts
  <1>3. StoreInv
    BY <1>1 DEF QueryInit, StoreInv, EntryIs, NoEntry, Entry, Terminal
  <1>4. \A r \in QueryRuns : ~Dispatched(r)
    BY DEF QueryInit, Dispatched
  <1>5. OneDispatched /\ \A r \in QueryRuns : InvocationInv(r)
    BY <1>4 DEF OneDispatched, InvocationInv, QueryInit
  <1>6. ToldIsTrue
    BY <1>1 DEF QueryInit, ToldIsTrue
  <1> QED BY <1>2, <1>3, <1>5, <1>6 DEF QueryInv

\* Every step keeps the invariant.
LEMMA QueryGoesOn == QueryInv /\ [QueryNext]_queryVars => QueryInv'
  <1> SUFFICES ASSUME QueryInv, [QueryNext]_queryVars PROVE QueryInv'
    OBVIOUS
  <1>1. CASE LandsLate \/ UNCHANGED queryVars
    BY <1>1, DoLandsLate
  <1>2. ASSUME NEW r \in QueryRuns, QueryStep(r)
        PROVE  QueryInv'
    <2>1. CASE StartOperator(r) \/ ReservedBefore(r) \/ InvocationReturns(r) \/ FinalReadback(r) \/ Reconcile(r)
      BY <2>1, DoOperator
    <2>2. CASE ReserveOperation(r) BY <2>2, DoReserveOperation
    <2>3. CASE Invoked(r) BY <2>3, DoInvoked
    <2>4. CASE ReadState(r) BY <2>4, DoReadState
    <2>5. CASE FnUpdate(r) BY <2>5, DoFnUpdate
    <2>6. CASE FnReread(r) BY <2>6, DoFnReread
    <2>7. CASE SelectQuery(r) BY <2>7, DoSelectQuery
    <2>8. CASE MarkUnknown(r) BY <2>8, DoMarkUnknown
    <2>9. CASE QueryDies(r) BY <2>9, DoQueryDies
    <2> QED BY <1>2, <2>1, <2>2, <2>3, <2>4, <2>5, <2>6, <2>7, <2>8, <2>9 DEF QueryStep
  <1> QED BY <1>1, <1>2 DEF QueryNext

\* The item, the updates in the air, the invocations and what was published,
\* at every step of the private recovery query (private-recovery-query.js).
THEOREM QueryInvariant == QuerySpec => []QueryInv
  BY QueryStarts, QueryGoesOn, PTL DEF QuerySpec

\* However many runs and invocations overlap and whatever the store loses or
\* applies late, managed-mcp is asked at most once for the operation, every
\* published receipt is the recorded one for good, and what a receipt says of
\* the query is so (runPrivateRecoveryQuery, reconcilePrivateRecoveryQuery).
THEOREM QueryTellsTheTruth == QuerySpec => []QueryReceiptsAreTrue
  <1>1. QueryInv => QueryReceiptsAreTrue
    <2> SUFFICES ASSUME QueryInv PROVE QueryReceiptsAreTrue
      OBVIOUS
    <2>1. asked \in [QueryRuns -> {0, 1}] /\ valid \subseteq {r \in QueryRuns : asked[r] > 0}
      BY DEF QueryInv, QueryTypeOK
    <2>2. \A r \in Asking : r \in QueryRuns /\ Dispatched(r)
      BY DEF Asking, Dispatched
    <2>3. \A r, s \in Asking : r = s
      BY <2>2 DEF QueryInv, OneDispatched
    <2>4. Asking = {} \/ \E r \in Asking : Asking = {r}
      BY <2>3
    <2>5. Cardinality(Asking) <= 1
      <3>1. Cardinality({}) = 0 BY FS_EmptySet
      <3>2. \A r : Cardinality({r}) = 1 BY FS_Singleton
      <3>3. CASE Asking = {} BY <3>1, <3>3
      <3>4. ASSUME NEW r \in Asking, Asking = {r}
            PROVE  Cardinality(Asking) = 1
        BY <3>2, <3>4
      <3>5. CASE \E r \in Asking : Asking = {r}
        <4>1. Cardinality(Asking) = 1
          BY <3>4, <3>5
        <4> QED BY <4>1
      <3> QED BY <2>4, <3>3, <3>5
    <2>6. record.status = "FAILED" => Asking = {}
      BY <2>2 DEF QueryInv, InvocationInv
    <2>7. record.status = "FINAL" => valid = {record.receipt.by}
      <3>1. record.status = "FINAL" => record.receipt.by \in valid
        BY DEF QueryInv, StoreInv, EntryIs
      <3>2. valid \subseteq Asking
        BY <2>1 DEF Asking
      <3> QED BY <3>1, <3>2, <2>3
    <2>8. \A r \in QueryRuns : asked[r] <= 1
      BY <2>1
    <2> QED BY <2>5, <2>6, <2>7, <2>8 DEF QueryReceiptsAreTrue, QueryInv, ToldIsTrue
  <1> QED BY <1>1, QueryInvariant, PTL

=============================================================================
