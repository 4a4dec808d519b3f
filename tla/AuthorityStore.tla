--------------------------- MODULE AuthorityStore ---------------------------
(***************************************************************************)
(* The one-shot authority of AuthorityStore, on top of its evidence:        *)
(* authorizeDviProposal, spendAuthority, recordProtectedEffect and          *)
(* reconcileRequest against one tenant's tables.                            *)
(*                                                                          *)
(* Every mutating method runs in #runSerializable.  A call opens a          *)
(* transaction at `start'; its statements read statement_timestamp() at     *)
(* nondecreasing instants up to the moment COMMIT is dispatched, and what   *)
(* they computed (the plan) is fixed then.  SERIALIZABLE means that the     *)
(* transaction lands only if, at the point of the serial order where it     *)
(* lands, its statements would compute the same plan again.  Whatever goes  *)
(* wrong after the dispatch, the caller learns nothing: the commit may have *)
(* landed, may land later, or may never land.                               *)
(***************************************************************************)
EXTENDS EvidenceStore

CONSTANTS
  Clients,          \* concurrent callers, each with one database session
  Actions,          \* logical actions (logicalActionDigest)
  Action,           \* Action[a]: the resource it wants and the acting agency
  Resources,
  Runs,
  Proposals,        \* proposals (proposalDigest)
  Prop,             \* Prop[p]: the content of proposal p
  Ops,              \* operation ids
  Requests,         \* requests (requestDigest: everything but the operation id)
  Req,              \* Req[r]: the content of request r
  CallsInScope,     \* the calls that callers make
  MaxInt8,          \* the largest fencing token, 2^63 - 1 in the code
  MaxTime,          \* bound on database time
  NoOp, NoReq, NoRun

VARIABLES
  now,              \* database time
  selections,       \* proposals a DVI selection receipt stands behind
  epochs,           \* epochs[a]: -1 for no row, else current_epoch
  proposals,        \* rows of g1_dvi_proposal_receipts
  receipts,         \* rows of g1_authority_receipts
  outbox,           \* rows of g1_outbox_intents
  effects,          \* rows of g1_protected_effects
  resources,        \* rows of g1_resources
  session           \* session[c]: the transaction of caller c, if any

ledgerVars == <<selections, epochs, proposals, receipts, outbox, effects,
                resources>>
vars == <<now, ledgerVars, session, evidenceVars>>

ShapeOfProposal ==
  [action: Actions, run: Runs, envelope: Envelopes,
   admittedAt: Nat, expiresAt: Nat]

ShapeOfRequest ==
  [proposal: Proposals, agent: STRING, effectKey: STRING, leaseMs: Nat \ {0}]

ASSUME AuthorityAssumption ==
  /\ Action \in [Actions -> [resource: Resources, agency: Agencies]]
  /\ Prop \in [Proposals -> ShapeOfProposal]
  /\ Req \in [Requests -> ShapeOfRequest]
  /\ MaxInt8 \in Nat
  /\ MaxTime \in Nat
  /\ NoOp \notin Ops /\ NoReq \notin Requests /\ NoRun \notin Runs

ActionOf(r) == Prop[Req[r].proposal].action
ResourceOf(r) == Action[ActionOf(r)].resource
RunOf(r) == Prop[Req[r].proposal].run

-----------------------------------------------------------------------------
(* Rows.  The columns a request determines (proposal, logical action, agent,
   effect key, payload digest, run) are functions of its `req' column. *)

\* `seen' is observed_holder_operation_id; a held denial keeps observed_fence
\* in `fence'.
Receipt ==
  [op: Ops, req: Requests, fence: Nat, lease: Nat, seen: Ops \cup {NoOp},
   outcome: {"authorization_denied", "resource_held_denied",
             "resource_reserved"}]

Intent == [op: Ops, req: Requests, fence: Nat]

Resource ==
  [run: Runs \cup {NoRun}, fence: Nat, op: Ops \cup {NoOp},
   req: Requests \cup {NoReq}, lease: Nat]

Calls ==
  [kind: {"authorize"}, prop: Proposals]
    \cup [kind: {"spend"}, op: Ops, req: Requests]
    \cup [kind: {"effect"}, op: Ops, req: Requests, fence: Nat]

ASSUME CallsAssumption == CallsInScope \subseteq Calls

Verdicts ==
  {"authorized", "authorization_replay", "authorization_refused",
   "authorization_refused_locked",
   "denied_not_durable", "replay_denied", "replay_reserved", "denied",
   "held", "reserved",
   "effect_recorded", "effect_already_recorded", "effect_denied", "throws"}

\* What the statements of one execution computed: the decision, the operation
\* whose receipt it reports (for a held denial the holder it saw), fence and
\* lease, and whether it calls the authority current.
Plans ==
  [verdict: Verdicts, op: Ops \cup {NoOp}, fence: Nat, lease: Nat,
   current: BOOLEAN]

Plan(verdict, op, fence, lease, current) ==
  [verdict |-> verdict, op |-> op, fence |-> fence, lease |-> lease,
   current |-> current]

\* A refusal reports nothing but its verdict.
Refusal(verdict) == Plan(verdict, NoOp, 0, 0, FALSE)

Time == 0..MaxTime

\* The clock readings of one transaction between two instants: its statements
\* run one after the other, so they never decrease.
ReadingsBetween ==
  [w \in Time \X Time |->
     {t \in [1..5 -> w[1]..w[2]] : \A i \in 1..4 : t[i] <= t[i + 1]}]

Reserved == {x \in receipts : x.outcome = "resource_reserved"}

ReservedFor(a) == {x \in Reserved : ActionOf(x.req) = a}

-----------------------------------------------------------------------------
(* authorizeDviProposal: t[1] is read with the proposal or the evidence row,
   t[2] after the epoch row is locked, t[3] after the insert. *)

ReplayedAuthorization(p, t) ==
  Refusal(IF ReservedFor(Prop[p].action) = {} /\ Prop[p].expiresAt > t[1]
          THEN "authorization_replay" ELSE "authorization_refused")

\* Selection receipt, evidence row and validity window, before the epoch row
\* is touched.
AdmittedForAuthorization(p, t) ==
  /\ p \in selections
  /\ \E x \in rows : x.env = Prop[p].envelope
  /\ Prop[p].expiresAt > t[1]
  /\ Prop[p].admittedAt <= t[1]

\* The answer once the epoch row is locked.  A proposal that expired by the
\* final check is deleted again and its epoch restored to 0.
LockedAuthorization(p, t) ==
  LET a == Prop[p].action
  IN  Refusal(IF /\ Prop[p].expiresAt > t[2]
                 /\ ReservedFor(a) = {}
                 /\ epochs[a] # 1
                 /\ Prop[p].expiresAt > t[3]
              THEN "authorized" ELSE "authorization_refused_locked")

AuthorizeDviProposal(call, t) ==
  IF call.prop \in proposals THEN ReplayedAuthorization(call.prop, t)
  ELSE IF ~AdmittedForAuthorization(call.prop, t)
       THEN Refusal("authorization_refused")
       ELSE LockedAuthorization(call.prop, t)

\* A refusal under the lock leaves the epoch row it inserted behind.
WriteAuthorization(call, plan) ==
  LET a == Prop[call.prop].action
  IN  /\ \/ /\ plan.verdict = "authorized"
            /\ proposals' = proposals \cup {call.prop}
            /\ epochs' = [epochs EXCEPT ![a] = 1]
         \/ /\ plan.verdict = "authorization_refused_locked"
            /\ epochs' = IF epochs[a] = -1 THEN [epochs EXCEPT ![a] = 0]
                         ELSE epochs
            /\ UNCHANGED proposals
         \/ /\ plan.verdict \in {"authorization_replay",
                                 "authorization_refused"}
            /\ UNCHANGED <<epochs, proposals>>
      /\ UNCHANGED <<selections, receipts, outbox, effects, resources>>

-----------------------------------------------------------------------------
(* spendAuthority: t[1] is read with the proposal, t[2] with the evidence (or
   with the holder of a replayed receipt), t[3] when the resource row is
   locked, t[4] by the acquiring UPDATE, and t[5] by the statement after it.
   #runSerializable reads databaseNow of the reply last, just before it
   dispatches COMMIT. *)

\* Fault: the reserved receipt of the action before the caller's own operation.
ExistingReceiptsActionFirst(op, r) ==
  LET byLogicalAuthority == ReservedFor(ActionOf(r))
  IN  IF byLogicalAuthority # {} THEN byLogicalAuthority
      ELSE {x \in receipts : x.op = op \/ x.req = r}

\* #existingReceipt: by operation id, else the reserved receipt of the logical
\* action, else by request digest.
ExistingReceipts(op, r) ==
  LET byOperation == {x \in receipts : x.op = op}
      byLogicalAuthority == ReservedFor(ActionOf(r))
  IN  IF byOperation # {} THEN byOperation
      ELSE IF byLogicalAuthority # {} THEN byLogicalAuthority
      ELSE {x \in receipts : x.req = r}

\* #receiptAuthorityCurrent
AuthorityCurrent(x, t) ==
  LET res == resources[ResourceOf(x.req)]
  IN  /\ x.outcome = "resource_reserved"
      /\ [op |-> x.op, req |-> x.req, fence |-> x.fence] \in outbox
      /\ res.fence = x.fence
      /\ res.run = RunOf(x.req)
      /\ res.op = x.op
      /\ res.req = x.req
      /\ x.lease > t
      /\ res.lease > t
      /\ Prop[Req[x.req].proposal].expiresAt > t

ReplayedSpend(op, r, t) ==
  LET x == CHOOSE y \in ExistingReceipts(op, r) : TRUE
  IN  IF x.op = op /\ x.req # r THEN Refusal("throws")
      ELSE IF x.outcome # "resource_reserved"
           THEN Plan("replay_denied", x.op, x.fence, x.lease, FALSE)
           ELSE Plan("replay_reserved", x.op, x.fence, x.lease,
                     AuthorityCurrent(x, t[2]))

EvidenceAdmitted(r, t) ==
  \E x \in rows : /\ x.env = Prop[Req[r].proposal].envelope
                  /\ Admissible(x, Action[ActionOf(r)].agency, t)

\* The WHERE clause of the acquiring UPDATE.
Acquirable(res, r, t) ==
  /\ res.fence < MaxInt8
  /\ res.op = NoOp \/ res.lease <= t
  /\ Prop[Req[r].proposal].expiresAt > t

\* The unique indexes of g1_outbox_intents.
IntentInsertable(op, r) ==
  \A o \in outbox : /\ o.op # op
                    /\ Req[o.req].effectKey # Req[r].effectKey
                    /\ ActionOf(o.req) # ActionOf(r)

\* lease_expires_at of the acquiring UPDATE.
LeaseUntil(r, t) == t[4] + Req[r].leaseMs

\* Fault: a new holder keeps the fence of the one before.
SameFence(res) == IF res.fence = 0 THEN 1 ELSE res.fence

\* current_fence of the acquiring UPDATE.
NextFence(res) == res.fence + 1

AcquireResource(op, r, t) ==
  LET res == resources[ResourceOf(r)]
      expires == Prop[Req[r].proposal].expiresAt
      lease == LeaseUntil(r, t)
  IN  IF res.run # RunOf(r) THEN Refusal("denied")
      ELSE IF res.op # NoOp /\ res.lease > t[3]
           THEN Plan("held", res.op, res.fence, 0, FALSE)
      ELSE IF ~Acquirable(res, r, t[4])
           THEN Refusal(IF expires <= t[5] THEN "denied" ELSE "throws")
      ELSE IF ~IntentInsertable(op, r) THEN Refusal("throws")
      ELSE Plan("reserved", op, NextFence(res), lease,
                lease > t[5] /\ expires > t[5])

SpendAuthority(call, t) ==
  LET r == call.req
      p == Req[r].proposal
  IN  IF p \notin proposals THEN Refusal("denied_not_durable")
      ELSE IF ExistingReceipts(call.op, r) # {}
           THEN ReplayedSpend(call.op, r, t)
      ELSE IF epochs[Prop[p].action] # 1 \/ Prop[p].expiresAt <= t[1]
           THEN Refusal("denied_not_durable")
      ELSE IF ~EvidenceAdmitted(r, t[2]) THEN Refusal("denied")
      ELSE AcquireResource(call.op, r, t)

\* The receipt as COMMIT leaves it: it is inserted as `pending' and given its
\* outcome by a later statement of the same transaction.
ReceiptOf(call, plan) ==
  [op |-> call.op, req |-> call.req, fence |-> plan.fence,
   lease |-> plan.lease,
   seen |-> IF plan.verdict = "held" THEN plan.op ELSE NoOp,
   outcome |-> IF plan.verdict = "denied" THEN "authorization_denied"
               ELSE IF plan.verdict = "held" THEN "resource_held_denied"
               ELSE "resource_reserved"]

\* Fault: the dispatch intent is left to a later transaction.
WriteSpendWithoutIntent(call, plan) ==
  /\ \/ /\ plan.verdict \in {"denied", "held", "reserved"}
        /\ receipts' = receipts \cup {ReceiptOf(call, plan)}
        /\ resources' = IF plan.verdict # "reserved" THEN resources
             ELSE [resources EXCEPT ![ResourceOf(call.req)] =
                    [run |-> @.run, fence |-> plan.fence, op |-> call.op,
                     req |-> call.req, lease |-> plan.lease]]
     \/ /\ plan.verdict \in {"denied_not_durable", "replay_denied",
                             "replay_reserved"}
        /\ UNCHANGED <<receipts, resources>>
  /\ UNCHANGED <<selections, epochs, proposals, effects, outbox>>

WriteSpend(call, plan) ==
  LET q == ResourceOf(call.req)
  IN  /\ \/ /\ plan.verdict \in {"denied", "held"}
            /\ receipts' = receipts \cup {ReceiptOf(call, plan)}
            /\ UNCHANGED <<outbox, resources>>
         \/ /\ plan.verdict = "reserved"
            /\ receipts' = receipts \cup {ReceiptOf(call, plan)}
            /\ outbox' = outbox \cup {[op |-> call.op, req |-> call.req,
                                       fence |-> plan.fence]}
            /\ resources' = [resources EXCEPT ![q] =
                 [run |-> @.run, fence |-> plan.fence, op |-> call.op,
                  req |-> call.req, lease |-> plan.lease]]
         \/ /\ plan.verdict \in {"denied_not_durable", "replay_denied",
                                 "replay_reserved"}
            /\ UNCHANGED <<receipts, outbox, resources>>
      /\ UNCHANGED <<selections, epochs, proposals, effects>>

-----------------------------------------------------------------------------
(* recordProtectedEffect: t[1] is read with the proposal, t[2] by the
   INSERT ... SELECT and t[3] by the final check, which deletes the effect
   again when lease or proposal expired in between. *)

MatchingEffects(op, r) ==
  {e \in effects : \/ Req[e.req].effectKey = Req[r].effectKey
                   \/ e.op = op
                   \/ ActionOf(e.req) = ActionOf(r)}

\* Fault: the join leaves out the holder and the fence of the resource row.
HoldsIntent(call) ==
  /\ [op |-> call.op, req |-> call.req, fence |-> call.fence] \in outbox
  /\ \E x \in Reserved : x.op = call.op /\ x.req = call.req

\* The join of resource, outbox, receipt and proposal.
HoldsFence(call) ==
  LET res == resources[ResourceOf(call.req)]
  IN  /\ [op |-> call.op, req |-> call.req, fence |-> call.fence] \in outbox
      /\ \E x \in Reserved : x.op = call.op /\ x.req = call.req
      /\ res.run = RunOf(call.req)
      /\ res.op = call.op
      /\ res.req = call.req
      /\ res.fence = call.fence

InForce(r, t) ==
  /\ resources[ResourceOf(r)].lease > t
  /\ Prop[Req[r].proposal].expiresAt > t

RecordProtectedEffect(call, t) ==
  LET r == call.req
      existing == MatchingEffects(call.op, r)
  IN  Refusal(
        IF \/ Req[r].proposal \notin proposals
           \/ Prop[Req[r].proposal].expiresAt <= t[1]
        THEN "effect_denied"
        ELSE IF existing # {}
             THEN IF /\ Cardinality(existing) = 1
                     /\ \A e \in existing : ActionOf(e.req) = ActionOf(r)
                  THEN "effect_already_recorded" ELSE "throws"
        ELSE IF HoldsFence(call) /\ InForce(r, t[2]) /\ InForce(r, t[3])
             THEN "effect_recorded" ELSE "effect_denied")

WriteEffect(call, plan) ==
  /\ \/ /\ plan.verdict = "effect_recorded"
        /\ effects' = effects \cup {[op |-> call.op, req |-> call.req,
                                     fence |-> call.fence]}
     \/ /\ plan.verdict \in {"effect_already_recorded", "effect_denied"}
        /\ UNCHANGED effects
  /\ UNCHANGED <<selections, epochs, proposals, receipts, outbox, resources>>

-----------------------------------------------------------------------------
(* #runSerializable and its callers. *)

Evaluate(call, t) ==
  IF call.kind = "authorize" THEN AuthorizeDviProposal(call, t)
  ELSE IF call.kind = "spend" THEN SpendAuthority(call, t)
  ELSE RecordProtectedEffect(call, t)

Write(call, plan) ==
  \/ call.kind = "authorize" /\ WriteAuthorization(call, plan)
  \/ call.kind = "spend" /\ WriteSpend(call, plan)
  \/ call.kind = "effect" /\ WriteEffect(call, plan)

Idle == [stage |-> "idle"]

\* open: statements run, COMMIT not dispatched.  dispatched: the caller waits
\* for the acknowledgement.  orphaned: the caller has got AmbiguousCommitError
\* while the commit is still on its way.  landed: committed, not acknowledged.
\* `end' is the instant of the dispatch, and databaseNow of the reply.
Sessions ==
  [stage: {"idle"}]
    \cup [stage: {"open"}, call: Calls, start: Time]
    \cup [stage: {"dispatched", "orphaned", "landed"}, call: Calls,
          start: Time, end: Time, plan: Plans]

SpendCalls == {call \in CallsInScope : call.kind = "spend"}

BeginCall(c, call) ==
  /\ session[c].stage = "idle"
  /\ session' = [session EXCEPT ![c] =
                   [stage |-> "open", call |-> call, start |-> now]]
  /\ UNCHANGED <<now, ledgerVars, evidenceVars>>

\* A 40001 before COMMIT is dispatched: roll back and run again.
RetryCall(c) ==
  /\ session[c].stage = "open"
  /\ session[c].start < now
  /\ session' = [session EXCEPT ![c].start = now]
  /\ UNCHANGED <<now, ledgerVars, evidenceVars>>

\* Any other error, or retries exhausted, before COMMIT is dispatched.
FailCall(c) ==
  /\ session[c].stage = "open"
  /\ session' = [session EXCEPT ![c] = Idle]
  /\ UNCHANGED <<now, ledgerVars, evidenceVars>>

DispatchCommit(c) ==
  /\ session[c].stage = "open"
  /\ \E plan \in {Evaluate(session[c].call, t) :
                     t \in ReadingsBetween[<<session[c].start, now>>]} :
       /\ plan.verdict # "throws"
       /\ session' = [session EXCEPT ![c] =
            [stage |-> "dispatched", call |-> session[c].call,
             start |-> session[c].start, end |-> now, plan |-> plan]]
  /\ UNCHANGED <<now, ledgerVars, evidenceVars>>

\* Fault: a weaker isolation level, under which stale reads may commit.
StaleReadsCommit(s) == TRUE

\* SERIALIZABLE: at this point of the serial order the statements would
\* compute the plan again.
Serializable(s) ==
  \E t \in ReadingsBetween[<<s.start, s.end>>] : Evaluate(s.call, t) = s.plan

\* The commit takes its place in the serial order, whether or not anybody
\* still waits for it.
LandCommit(c) ==
  /\ session[c].stage \in {"dispatched", "orphaned"}
  /\ Serializable(session[c])
  /\ Write(session[c].call, session[c].plan)
  /\ session' = [session EXCEPT ![c] =
                   IF session[c].stage = "dispatched"
                   THEN [session[c] EXCEPT !.stage = "landed"] ELSE Idle]
  /\ UNCHANGED <<now, evidenceVars>>

\* The database gives a dispatched COMMIT up (40001, XX000, a lost session).
\* A caller still waiting gets AmbiguousCommitError all the same.
DropCommit(c) ==
  /\ session[c].stage \in {"dispatched", "orphaned"}
  /\ session' = [session EXCEPT ![c] = Idle]
  /\ UNCHANGED <<now, ledgerVars, evidenceVars>>

\* The connection breaks: AmbiguousCommitError, whatever became of COMMIT.
LoseAcknowledgement(c) ==
  /\ \/ /\ session[c].stage = "dispatched"
        /\ session' = [session EXCEPT ![c].stage = "orphaned"]
     \/ /\ session[c].stage = "landed"
        /\ session' = [session EXCEPT ![c] = Idle]
  /\ UNCHANGED <<now, ledgerVars, evidenceVars>>

Acknowledge(c) ==
  /\ session[c].stage = "landed"
  /\ session' = [session EXCEPT ![c] = Idle]
  /\ UNCHANGED <<now, ledgerVars, evidenceVars>>

-----------------------------------------------------------------------------
(* What a caller is told. *)

\* The commit envelope of an acknowledged or reconciled spend
\* (committedDatabaseResult, nonDurableDatabaseResult).
CommitStatus(plan) ==
  IF plan.verdict = "denied_not_durable" THEN "DENIED_NOT_DURABLE"
  ELSE IF plan.verdict \in {"reserved", "replay_reserved"} /\ ~plan.current
       THEN "COMMITTED_BUT_NO_LONGER_CURRENT"
       ELSE "COMMITTED"

\* reconcileRequest: a read-only transaction on a fresh connection.  It
\* changes nothing, so it is an operator that may be asked in any state.
Reconciliation(call) ==
  LET existing == ExistingReceipts(call.op, call.req)
      x == CHOOSE y \in existing : TRUE
  IN  IF \/ Req[call.req].proposal \notin proposals
         \/ existing = {}
         \/ x.op = call.op /\ x.req # call.req
      THEN Refusal("throws")
      ELSE Plan(IF x.outcome = "resource_reserved"
                THEN "replay_reserved" ELSE "replay_denied",
                x.op, x.fence, x.lease, AuthorityCurrent(x, now))

ReconcileStatus(call) ==
  LET found == Reconciliation(call)
  IN  IF found.verdict = "throws" THEN "UNKNOWN_DO_NOT_ACT"
      ELSE CommitStatus(found)

-----------------------------------------------------------------------------
PrepareResource(q, run) ==
  /\ resources[q].run = NoRun
  /\ resources' = [resources EXCEPT ![q].run = run]
  /\ UNCHANGED <<now, selections, epochs, proposals, receipts, outbox,
                 effects, session, evidenceVars>>

RecordDviSelectionReceipt(p) ==
  /\ selections' = selections \cup {p}
  /\ UNCHANGED <<now, epochs, proposals, receipts, outbox, effects,
                 resources, session, evidenceVars>>

Tick ==
  /\ now < MaxTime
  /\ now' = now + 1
  /\ UNCHANGED <<ledgerVars, session, evidenceVars>>

EvidenceStep ==
  /\ EvidenceNext
  /\ UNCHANGED <<now, ledgerVars, session>>

NoResource == [run |-> NoRun, fence |-> 0, op |-> NoOp, req |-> NoReq,
               lease |-> 0]

Init ==
  /\ EvidenceInit
  /\ now = 0
  /\ selections = {}
  /\ epochs = [a \in Actions |-> -1]
  /\ proposals = {}
  /\ receipts = {}
  /\ outbox = {}
  /\ effects = {}
  /\ resources = [q \in Resources |-> NoResource]
  /\ session = [c \in Clients |-> Idle]

ClientStep(c) ==
  \/ \E call \in CallsInScope : BeginCall(c, call)
  \/ RetryCall(c)
  \/ FailCall(c)
  \/ DispatchCommit(c)
  \/ LandCommit(c)
  \/ DropCommit(c)
  \/ LoseAcknowledgement(c)
  \/ Acknowledge(c)

Next ==
  \/ \E c \in Clients : ClientStep(c)
  \/ \E q \in Resources, run \in Runs : PrepareResource(q, run)
  \/ \E p \in Proposals : RecordDviSelectionReceipt(p)
  \/ EvidenceStep
  \/ Tick

Spec == Init /\ [][Next]_vars

-----------------------------------------------------------------------------
(* Properties. *)

TypeOK ==
  /\ EvidenceTypeOK
  /\ now \in Time
  /\ selections \subseteq Proposals
  /\ epochs \in [Actions -> {-1, 0, 1}]
  /\ proposals \subseteq Proposals
  /\ receipts \subseteq Receipt
  /\ outbox \subseteq Intent
  /\ effects \subseteq Intent
  /\ resources \in [Resources -> Resource]
  /\ session \in [Clients -> Sessions]

\* However many callers, operation ids, retries and lost acknowledgements, a
\* logical action is reserved at most once (#existingReceipt, the epoch lock
\* and the unique indexes of spendAuthority).
OneReservationPerAction ==
  \A x, y \in Reserved : ActionOf(x.req) = ActionOf(y.req) => x = y

From(x) == x.lease - Req[x.req].leaseMs

\* The reservations of one resource carry different fences, and one with a
\* later fence starts only when every earlier lease is over, although each
\* transaction reads the clock several times before it commits.
LeasesNeverOverlap ==
  \A x, y \in Reserved :
    x # y /\ ResourceOf(x.req) = ResourceOf(y.req) =>
      \/ x.fence < y.fence /\ x.lease <= From(y)
      \/ y.fence < x.fence /\ y.lease <= From(x)

\* The resource row agrees with the history of reservations: its fence counts
\* them without a gap, and its holder and lease are those of the newest one.
ResourceFollowsReservations ==
  \A q \in Resources :
    LET on == {x \in Reserved : ResourceOf(x.req) = q}
    IN  /\ {x.fence : x \in on} = 1..resources[q].fence
        /\ Cardinality(on) = resources[q].fence
        /\ \A x \in on : x.fence = resources[q].fence =>
             /\ resources[q].op = x.op
             /\ resources[q].req = x.req
             /\ resources[q].lease = x.lease

\* The inductive core of the two properties above: the resource row bounds
\* the fence and the lease of every reservation made on it.
ResourceBoundsReservations ==
  \A x \in Reserved :
    LET res == resources[ResourceOf(x.req)]
    IN  res.op # NoOp /\ x.fence <= res.fence /\ x.lease <= res.lease

\* The epoch of an action is 1 exactly when one proposal for it is durable;
\* there is never a second one, even after the first has expired unspent, and
\* whatever is reserved was reserved under that proposal.
OneAuthorizationPerAction ==
  /\ \A p, r \in proposals : Prop[p].action = Prop[r].action => p = r
  /\ \A a \in Actions :
       epochs[a] = 1 <=> \E p \in proposals : Prop[p].action = a
  /\ \A x \in Reserved : Req[x.req].proposal \in proposals

\* Every reservation has its dispatch intent and every intent and every effect
\* its reservation: the rows of one transaction are all there or none is.
IntentsFollowReservations ==
  /\ outbox = {[op |-> x.op, req |-> x.req, fence |-> x.fence] :
                 x \in Reserved}
  /\ effects \subseteq outbox

\* Nothing is reserved on a caller's word: behind every reservation stand a
\* durable proposal, its DVI selection receipt and a verification receipt for
\* exactly the evidence it names, made under a key that was registered.  A
\* bare appendEvidence that claims to be verified opens no way around this.
ReservationsAreEvidenced ==
  /\ proposals \subseteq selections
  /\ \A x \in Reserved :
       LET p == Req[x.req].proposal
       IN  /\ p \in proposals
           /\ [env |-> Prop[p].envelope, outcome |-> "verified"]
                \in verifications
           /\ keyStatus[Env[Prop[p].envelope].key] # "absent"

\* What spendAuthority promises of the rows it leaves, in one formula: one
\* reservation and one authorization for an action, disjoint leases, an intent
\* for each reservation, and evidence behind all of them.
SpendIsSafe ==
  /\ OneReservationPerAction
  /\ LeasesNeverOverlap
  /\ OneAuthorizationPerAction
  /\ IntentsFollowReservations
  /\ ReservationsAreEvidenced

\* An effect is recorded only under the newest fence of its resource: once a
\* later reservation is durable, a delayed recordProtectedEffect of the
\* earlier holder cannot commit.
EffectsUnderNewestFence ==
  [][\A e \in effects' \ effects, x \in Reserved :
       ResourceOf(x.req) = ResourceOf(e.req) => x.fence <= e.fence]_vars

\* A reservation never commits after the key behind its evidence was revoked,
\* although the evidence was read earlier in the transaction.
NoReservationAfterRevocation ==
  [][\A x \in Reserved' \ Reserved :
       keyStatus[Env[Prop[Req[x.req].proposal].envelope].key] = "active"]_vars

\* An operation id belongs to the request of the first receipt stored under
\* it.  A spend that was answered with another operation's receipt stores none:
\* its operation id may still be given to another request, and from then on
\* the first one is answered UNKNOWN_DO_NOT_ACT (OperationDigestMismatchError).
OperationTaken(call) == \E x \in receipts : x.op = call.op /\ x.req # call.req

\* The two plans report one receipt.
SameReport(after, before) ==
  /\ after.verdict = before.verdict
  /\ after.op = before.op
  /\ after.fence = before.fence
  /\ after.lease = before.lease

\* What reconcileRequest reports of a reservation, or of the caller's own
\* operation, it reports for ever: same verdict, operation, fence and lease,
\* unless the caller gives the operation id to another request.
\* (Its currentness may lapse; a denial found by request digest alone may give
\* way to a later reservation of the same action.)
ReconciliationIsFinal ==
  [][ledgerVars' # ledgerVars =>
     \A call \in SpendCalls :
       LET before == Reconciliation(call)
           after == Reconciliation(call)'
       IN  \/ before.verdict = "replay_reserved"
           \/ before.verdict = "replay_denied" /\ before.op = call.op
           => \/ SameReport(after, before)
              \/ before.op # call.op /\ OperationTaken(call)']_vars

\* A spend about to be acknowledged as COMMITTED is one that reconciliation
\* would also find, with the same operation, fence and lease, unless its
\* operation id was given to another request since.
AcknowledgedIsReconcilable ==
  \A c \in Clients :
    LET s == session[c]
    IN  /\ s.stage = "landed"
        /\ s.call.kind = "spend"
        /\ s.plan.verdict \in {"reserved", "replay_reserved"}
        => LET found == Reconciliation(s.call)
           IN  \/ /\ found.verdict = "replay_reserved"
                  /\ found.op = s.plan.op
                  /\ found.fence = s.plan.fence
                  /\ found.lease = s.plan.lease
               \/ s.plan.op # s.call.op /\ OperationTaken(s.call)

\* "A formerly positive authority receipt becomes
\* COMMITTED_BUT_NO_LONGER_CURRENT when database time, proposal expiry, ... no
\* longer permits its use" (docs/COMMIT_RECONCILIATION.md): a direct reply that
\* calls the authority current carries a databaseNow before the lease ends.
CurrentAtDatabaseNow ==
  \A c \in Clients :
    LET s == session[c]
    IN  s.stage = "landed" /\ s.call.kind = "spend" /\ s.plan.current
        => s.plan.lease > s.end

Authority == INSTANCE FencedAuthority WITH
  ResourceOf <- LAMBDA a : Action[a].resource,
  grants <- {[action |-> ActionOf(x.req), fence |-> x.fence,
              from |-> From(x), until |-> x.lease] : x \in Reserved},
  performed <- {[action |-> ActionOf(e.req), fence |-> e.fence] :
                  e \in effects}

\* The store implements FencedAuthority: every step of a caller, a clock or an
\* administrator is a Grant, a Perform or invisible.
ImplementsFencedAuthority == Authority!Spec
=============================================================================
