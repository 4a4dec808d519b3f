------------------------ MODULE AuthorityStoreProofs ------------------------
(***************************************************************************)
(* Proofs about AuthorityStore for any number of callers, actions,          *)
(* requests and resources and any length of time.                           *)
(***************************************************************************)
EXTENDS AuthorityStore, FiniteSetTheorems, TLAPS

\* The three kinds of call have the fields their handlers read.
LEMMA CallShape ==
  ASSUME NEW call \in Calls
  PROVE  /\ call.kind \in {"authorize", "spend", "effect"}
         /\ call.kind = "authorize" => call.prop \in Proposals
         /\ call.kind = "spend" => call.op \in Ops /\ call.req \in Requests
         /\ call.kind = "effect" =>
              call.op \in Ops /\ call.req \in Requests /\ call.fence \in Nat
  BY DEF Calls

\* A session past its dispatch has a call, two instants and a plan; the clock
\* readings between two instants are natural numbers that never decrease.
LEMMA ReadingShape ==
  ASSUME NEW lo \in Time, NEW hi \in Time,
         NEW t \in ReadingsBetween[<<lo, hi>>]
  PROVE  /\ t \in [1..5 -> Nat]
         /\ t[1] <= t[2] /\ t[2] <= t[3] /\ t[3] <= t[4] /\ t[4] <= t[5]
  <1>1. t \in [1..5 -> lo..hi] /\ \A i \in 1..4 : t[i] <= t[i + 1]
    BY DEF ReadingsBetween
  <1>2. lo \in Nat /\ hi \in Nat
    BY DEF Time
  <1>3. t \in [1..5 -> Nat]
    BY <1>1, <1>2
  <1>4. /\ t[1] <= t[1 + 1] /\ t[2] <= t[2 + 1]
        /\ t[3] <= t[3 + 1] /\ t[4] <= t[4 + 1]
    BY <1>1
  <1> QED BY <1>3, <1>4

\* A request names a proposal, an action and a resource that exist.
LEMMA RequestShape ==
  ASSUME NEW r \in Requests
  PROVE  /\ Req[r].proposal \in Proposals
         /\ ActionOf(r) \in Actions
         /\ ResourceOf(r) \in Resources
         /\ RunOf(r) \in Runs
         /\ Req[r].leaseMs \in Nat
         /\ Prop[Req[r].proposal].expiresAt \in Nat
  BY AuthorityAssumption
     DEF ActionOf, ResourceOf, RunOf, ShapeOfRequest, ShapeOfProposal

\* A refusal is a plan that carries its verdict.
LEMMA RefusalShape ==
  ASSUME NEW v \in Verdicts
  PROVE  Refusal(v) \in Plans /\ Refusal(v).verdict = v
  BY DEF Refusal, Plan, Plans

\* The decision of every handler is a plan.
LEMMA EvaluateShape ==
  ASSUME TypeOK, NEW call \in Calls, NEW t \in [1..5 -> Nat]
  PROVE  Evaluate(call, t) \in Plans
  <1>1. CASE call.kind = "authorize"
    BY <1>1, RefusalShape
       DEF Evaluate, AuthorizeDviProposal, ReplayedAuthorization,
           LockedAuthorization, Verdicts
  <1>2. CASE call.kind = "spend"
    <2>1. call.op \in Ops /\ call.req \in Requests
      BY <1>2, CallShape
    <2>2. ASSUME ExistingReceipts(call.op, call.req) # {}
          PROVE  ReplayedSpend(call.op, call.req, t) \in Plans
      <3> DEFINE x == CHOOSE y \in ExistingReceipts(call.op, call.req) : TRUE
      <3>1. x \in ExistingReceipts(call.op, call.req)
        BY <2>2
      <3>2. ExistingReceipts(call.op, call.req) \subseteq receipts
        BY DEF ExistingReceipts, ReservedFor, Reserved
      <3>3. x \in Receipt
        BY <3>1, <3>2 DEF TypeOK
      <3>4. x.op \in Ops /\ x.fence \in Nat /\ x.lease \in Nat
        BY <3>3 DEF Receipt
      <3>5. AuthorityCurrent(x, t[2]) \in BOOLEAN
        BY DEF AuthorityCurrent
      <3> HIDE DEF x
      <3>6. /\ Plan("replay_denied", x.op, x.fence, x.lease, FALSE) \in Plans
            /\ Plan("replay_reserved", x.op, x.fence, x.lease,
                    AuthorityCurrent(x, t[2])) \in Plans
        BY <3>4, <3>5 DEF Plan, Plans, Verdicts
      <3>7. Refusal("throws") \in Plans
        BY RefusalShape DEF Verdicts
      <3> QED BY <3>6, <3>7 DEF ReplayedSpend, x
    <2>3. AcquireResource(call.op, call.req, t) \in Plans
      <3> DEFINE r == call.req
                 res == resources[ResourceOf(r)]
                 lease == t[4] + Req[r].leaseMs
      <3>1. res \in Resource /\ lease \in Nat
        BY <2>1, RequestShape DEF TypeOK
      <3>2. res.fence + 1 \in Nat /\ res.fence \in Nat
            /\ res.op \in Ops \cup {NoOp}
        BY <3>1 DEF Resource
      <3>3. Plan("held", res.op, res.fence, 0, FALSE) \in Plans
        BY <3>2 DEF Plan, Plans, Verdicts
      <3>4. ASSUME NEW b \in BOOLEAN
            PROVE  Plan("reserved", call.op, res.fence + 1, lease, b) \in Plans
        BY <2>1, <3>1, <3>2 DEF Plan, Plans, Verdicts
      <3>5. /\ Refusal("denied") \in Plans
            /\ Refusal("throws") \in Plans
        BY RefusalShape DEF Verdicts
      <3> HIDE DEF res, lease, r
      <3>6. (lease > t[5] /\ Prop[Req[r].proposal].expiresAt > t[5])
              \in BOOLEAN
        OBVIOUS
      <3> QED BY <3>3, <3>4, <3>5, <3>6 DEF AcquireResource, LeaseUntil, NextFence, r, res, lease
    <2>4. /\ Refusal("denied_not_durable") \in Plans
          /\ Refusal("denied") \in Plans
      BY RefusalShape DEF Verdicts
    <2>5. Evaluate(call, t) = SpendAuthority(call, t)
      BY <1>2 DEF Evaluate
    <2> QED BY <2>2, <2>3, <2>4, <2>5 DEF SpendAuthority
  <1>3. CASE call.kind = "effect"
    BY <1>3, RefusalShape DEF Evaluate, RecordProtectedEffect, Verdicts
  <1> QED BY <1>1, <1>2, <1>3, CallShape

-----------------------------------------------------------------------------
(* Type correctness. *)

\* What a session that holds a call looks like.
LEMMA SessionShape ==
  ASSUME TypeOK, NEW c \in Clients
  PROVE  /\ session[c].stage = "open" =>
              session[c].call \in Calls /\ session[c].start \in Time
         /\ session[c].stage \in {"dispatched", "orphaned", "landed"} =>
              /\ session[c].call \in Calls
              /\ session[c].start \in Time
              /\ session[c].end \in Time
              /\ session[c].plan \in Plans
              /\ session[c] = [stage |-> session[c].stage,
                               call |-> session[c].call,
                               start |-> session[c].start,
                               end |-> session[c].end,
                               plan |-> session[c].plan]
  <1>1. session[c] \in Sessions
    BY DEF TypeOK
  <1>2. ASSUME session[c] \in [stage: {"open"}, call: Calls, start: Time]
        PROVE  /\ session[c].stage = "open"
               /\ session[c].call \in Calls /\ session[c].start \in Time
    BY <1>2
  <1>3. ASSUME session[c] \in [stage: {"dispatched", "orphaned", "landed"},
                               call: Calls, start: Time, end: Time,
                               plan: Plans]
        PROVE  /\ session[c].stage \in {"dispatched", "orphaned", "landed"}
               /\ session[c].call \in Calls
               /\ session[c].start \in Time
               /\ session[c].end \in Time
               /\ session[c].plan \in Plans
               /\ session[c] = [stage |-> session[c].stage,
                                call |-> session[c].call,
                                start |-> session[c].start,
                                end |-> session[c].end,
                                plan |-> session[c].plan]
    BY <1>3
  <1>4. ASSUME session[c] \in [stage: {"idle"}]
        PROVE  session[c].stage = "idle"
    BY <1>4
  <1> QED BY <1>1, <1>2, <1>3, <1>4 DEF Sessions

\* What a landing transaction writes has the types of the tables.
LEMMA WriteShape ==
  ASSUME TypeOK, NEW call \in Calls, NEW plan \in Plans, Write(call, plan)
  PROVE  /\ selections' \subseteq Proposals
         /\ epochs' \in [Actions -> {-1, 0, 1}]
         /\ proposals' \subseteq Proposals
         /\ receipts' \subseteq Receipt
         /\ outbox' \subseteq Intent
         /\ effects' \subseteq Intent
         /\ resources' \in [Resources -> Resource]
  <1> USE DEF TypeOK
  <1>1. CASE call.kind = "authorize" /\ WriteAuthorization(call, plan)
    BY <1>1, CallShape, AuthorityAssumption
       DEF WriteAuthorization, ShapeOfProposal
  <1>2. CASE call.kind = "spend" /\ WriteSpend(call, plan)
    <2>1. call.op \in Ops /\ call.req \in Requests
      BY <1>2, CallShape
    <2>2. /\ plan.fence \in Nat /\ plan.lease \in Nat
          /\ plan.op \in Ops \cup {NoOp}
      BY DEF Plans
    <2>3. ReceiptOf(call, plan) \in Receipt
      BY <2>1, <2>2 DEF ReceiptOf, Receipt
    <2>4. [op |-> call.op, req |-> call.req, fence |-> plan.fence] \in Intent
      BY <2>1, <2>2 DEF Intent
    <2>5. ResourceOf(call.req) \in Resources
      BY <2>1, RequestShape
    <2>6. resources' \in [Resources -> Resource]
      <3>1. CASE UNCHANGED resources
        BY <3>1
      <3>2. CASE resources' = [resources EXCEPT ![ResourceOf(call.req)] =
                   [run |-> resources[ResourceOf(call.req)].run,
                    fence |-> plan.fence, op |-> call.op,
                    req |-> call.req, lease |-> plan.lease]]
        BY <3>2, <2>1, <2>2, <2>5 DEF Resource
      <3> QED BY <1>2, <3>1, <3>2 DEF WriteSpend
    <2>7. receipts' \subseteq Receipt /\ outbox' \subseteq Intent
      BY <1>2, <2>3, <2>4 DEF WriteSpend
    <2> QED BY <1>2, <2>6, <2>7 DEF WriteSpend
  <1>3. CASE call.kind = "effect" /\ WriteEffect(call, plan)
    BY <1>3, CallShape DEF WriteEffect, Intent
  <1> QED BY <1>1, <1>2, <1>3 DEF Write

\* The evidence store keeps its own types, whatever the ledger does.
LEMMA EvidenceShape ==
  ASSUME EvidenceTypeOK, [EvidenceNext]_evidenceVars
  PROVE  EvidenceTypeOK'
  <1> USE DEF EvidenceTypeOK
  <1>1. CASE UNCHANGED evidenceVars
    BY <1>1 DEF evidenceVars
  <1>2. ASSUME NEW k \in Keys,
               RegisterVerificationKey(k) \/ RevokeVerificationKey(k)
        PROVE  EvidenceTypeOK'
    BY <1>2 DEF RegisterVerificationKey, RevokeVerificationKey
  <1>3. ASSUME NEW s \in Envelopes, AppendSignedEvidence(s)
        PROVE  EvidenceTypeOK'
    BY <1>3 DEF AppendSignedEvidence, Verification, Row
  <1>4. ASSUME NEW s \in Envelopes, NEW p \in {"verified", "unverified"},
               AppendEvidence(s, p)
        PROVE  EvidenceTypeOK'
    BY <1>4 DEF AppendEvidence, Row
  <1> QED BY <1>1, <1>2, <1>3, <1>4 DEF EvidenceNext

\* Every step of a caller keeps the types of the session table, and changes
\* the ledger only by landing a commit whose plan its statements would compute
\* again at that moment.
LEMMA ClientStepShape ==
  ASSUME TypeOK, NEW c \in Clients, ClientStep(c)
  PROVE  /\ session' \in [Clients -> Sessions]
         /\ UNCHANGED <<now, evidenceVars>>
         /\ \/ UNCHANGED ledgerVars
            \/ \E call \in Calls, plan \in Plans, t \in [1..5 -> Nat] :
                 /\ Evaluate(call, t) = plan
                 /\ Write(call, plan)
                 /\ t[1] <= t[2] /\ t[2] <= t[3]
                 /\ t[3] <= t[4] /\ t[4] <= t[5]
  <1> USE DEF TypeOK
  <1>1. Idle \in Sessions
    BY DEF Idle, Sessions
  <1>2. ASSUME NEW call \in CallsInScope, BeginCall(c, call)
        PROVE  session' \in [Clients -> Sessions]
    BY <1>2, CallsAssumption DEF BeginCall, Sessions
  <1>3. ASSUME RetryCall(c) PROVE session' \in [Clients -> Sessions]
    <2>1. session[c] \in [stage: {"open"}, call: Calls, start: Time]
      BY <1>3 DEF RetryCall, Sessions
    <2>2. [session[c] EXCEPT !.start = now] \in Sessions
      BY <2>1 DEF Sessions
    <2> QED BY <1>3, <2>2 DEF RetryCall
  <1>4. ASSUME \/ FailCall(c) \/ DropCommit(c) \/ Acknowledge(c)
        PROVE  session' \in [Clients -> Sessions]
    BY <1>1, <1>4 DEF FailCall, DropCommit, Acknowledge
  <1>5. ASSUME DispatchCommit(c) PROVE session' \in [Clients -> Sessions]
    <2>1. session[c].call \in Calls /\ session[c].start \in Time
      BY <1>5, SessionShape DEF DispatchCommit
    <2>2. PICK t \in ReadingsBetween[<<session[c].start, now>>] :
            session' = [session EXCEPT ![c] =
              [stage |-> "dispatched", call |-> session[c].call,
               start |-> session[c].start, end |-> now,
               plan |-> Evaluate(session[c].call, t)]]
      BY <1>5 DEF DispatchCommit
    <2>3. t \in [1..5 -> Nat]
      BY <2>1, ReadingShape
    <2>4. Evaluate(session[c].call, t) \in Plans
      BY <2>1, <2>3, EvaluateShape
    <2> QED BY <2>1, <2>2, <2>4 DEF Sessions
  <1>6. ASSUME LoseAcknowledgement(c)
        PROVE  session' \in [Clients -> Sessions]
    <2>1. CASE session[c].stage = "landed"
      BY <1>1, <1>6, <2>1 DEF LoseAcknowledgement
    <2>2. CASE session[c].stage = "dispatched"
      <3>1. session[c] \in [stage: {"dispatched", "orphaned", "landed"},
                            call: Calls, start: Time, end: Time, plan: Plans]
        BY <2>2 DEF Sessions
      <3>2. [session[c] EXCEPT !.stage = "orphaned"] \in Sessions
        BY <3>1 DEF Sessions
      <3> QED BY <1>6, <2>2, <3>2 DEF LoseAcknowledgement
    <2> QED BY <1>6, <2>1, <2>2 DEF LoseAcknowledgement
  <1>7. ASSUME LandCommit(c)
        PROVE  /\ session' \in [Clients -> Sessions]
               /\ \E call \in Calls, plan \in Plans, t \in [1..5 -> Nat] :
                    /\ Evaluate(call, t) = plan
                    /\ Write(call, plan)
                    /\ t[1] <= t[2] /\ t[2] <= t[3]
                    /\ t[3] <= t[4] /\ t[4] <= t[5]
    <2>1. session[c] \in [stage: {"dispatched", "orphaned", "landed"},
                          call: Calls, start: Time, end: Time, plan: Plans]
      BY <1>7 DEF LandCommit, Sessions
    <2>2. [session[c] EXCEPT !.stage = "landed"] \in Sessions
      BY <2>1 DEF Sessions
    <2>3. session' \in [Clients -> Sessions]
      BY <1>1, <1>7, <2>2 DEF LandCommit
    <2>4. PICK t \in ReadingsBetween[<<session[c].start, session[c].end>>] :
            Evaluate(session[c].call, t) = session[c].plan
      BY <1>7 DEF LandCommit, Serializable
    <2>5. /\ t \in [1..5 -> Nat]
          /\ t[1] <= t[2] /\ t[2] <= t[3] /\ t[3] <= t[4] /\ t[4] <= t[5]
      BY <2>1, ReadingShape
    <2> QED BY <1>7, <2>1, <2>3, <2>4, <2>5 DEF LandCommit
  <1>8. session' \in [Clients -> Sessions]
    BY <1>2, <1>3, <1>4, <1>5, <1>6, <1>7 DEF ClientStep
  <1>9. UNCHANGED <<now, evidenceVars>>
    BY DEF ClientStep, BeginCall, RetryCall, FailCall, DispatchCommit,
           LandCommit, DropCommit, LoseAcknowledgement, Acknowledge
  <1>10. LandCommit(c) \/ UNCHANGED ledgerVars
    BY DEF ClientStep, BeginCall, RetryCall, FailCall, DispatchCommit,
           DropCommit, LoseAcknowledgement, Acknowledge
  <1> QED BY <1>7, <1>8, <1>9, <1>10

\* Every reachable state has the types of the tables: the plans, rows and
\* sessions the handlers build are well formed for any constants.
THEOREM TypeCorrect == Spec => []TypeOK
  <1>1. Init => TypeOK
    BY AuthorityAssumption
       DEF Init, TypeOK, EvidenceInit, EvidenceTypeOK, NoResource, Resource,
           Idle, Sessions, Time
  <1>2. TypeOK /\ [Next]_vars => TypeOK'
    <2> SUFFICES ASSUME TypeOK, [Next]_vars PROVE TypeOK'
      OBVIOUS
    <2>1. CASE UNCHANGED vars
      BY <2>1 DEF TypeOK, EvidenceTypeOK, vars, ledgerVars, evidenceVars
    <2>2. ASSUME NEW c \in Clients, ClientStep(c) PROVE TypeOK'
      <3>1. session' \in [Clients -> Sessions] /\ UNCHANGED <<now, evidenceVars>>
        BY <2>2, ClientStepShape
      <3>2. EvidenceTypeOK' /\ now' \in Time
        BY <3>1, EvidenceShape DEF TypeOK
      <3>3. CASE UNCHANGED ledgerVars
        BY <3>1, <3>2, <3>3 DEF TypeOK, ledgerVars
      <3>4. ASSUME NEW call \in Calls, NEW plan \in Plans, Write(call, plan)
            PROVE  TypeOK'
        BY <3>1, <3>2, <3>4, WriteShape DEF TypeOK
      <3> QED BY <2>2, <3>3, <3>4, ClientStepShape
    <2>3. ASSUME NEW q \in Resources, NEW run \in Runs, PrepareResource(q, run)
          PROVE  TypeOK'
      <3>1. [resources[q] EXCEPT !.run = run] \in Resource
        BY DEF TypeOK, Resource
      <3> QED BY <2>3, <3>1
             DEF PrepareResource, TypeOK, EvidenceTypeOK, evidenceVars
    <2>4. ASSUME NEW p \in Proposals, RecordDviSelectionReceipt(p)
          PROVE  TypeOK'
      BY <2>4 DEF RecordDviSelectionReceipt, TypeOK, EvidenceTypeOK,
                  evidenceVars
    <2>5. CASE EvidenceStep
      BY <2>5, EvidenceShape DEF EvidenceStep, TypeOK, ledgerVars
    <2>6. CASE Tick
      BY <2>6, AuthorityAssumption
         DEF Tick, TypeOK, EvidenceTypeOK, ledgerVars, evidenceVars, Time
    <2> QED BY <2>1, <2>2, <2>3, <2>4, <2>5, <2>6 DEF Next
  <1> QED BY <1>1, <1>2, PTL DEF Spec

-----------------------------------------------------------------------------
(* Safety.  None of the three invariants about reservations is inductive
   without the type invariant; LeasesNeverOverlap also needs that the resource
   row bounds every earlier reservation, and effects and intents are tied to
   reservations only together. *)

LedgerInv ==
  /\ OneReservationPerAction
  /\ ResourceBoundsReservations
  /\ LeasesNeverOverlap
  /\ OneAuthorizationPerAction
  /\ IntentsFollowReservations

\* When the plan is a reservation, the action was not reserved before, its
\* proposal is durable, and the UPDATE that acquired the resource read the
\* clock at t[4], after the lease it found there.
LEMMA ReservedPlan ==
  ASSUME TypeOK, NEW call \in Calls, NEW t \in [1..5 -> Nat],
         call.kind = "spend", Evaluate(call, t).verdict = "reserved"
  PROVE  LET res == resources[ResourceOf(call.req)]
             plan == Evaluate(call, t)
         IN  /\ ReservedFor(ActionOf(call.req)) = {}
             /\ Req[call.req].proposal \in proposals
             /\ res.op = NoOp \/ res.lease <= t[4]
             /\ plan.fence = res.fence + 1
             /\ plan.lease = t[4] + Req[call.req].leaseMs
             /\ EvidenceAdmitted(call.req, t[2])
  <1> DEFINE r == call.req
             plan == Evaluate(call, t)
  <1>1. plan = SpendAuthority(call, t)
    BY DEF Evaluate
  <1>2. \A v \in Verdicts : Refusal(v).verdict = v
    BY RefusalShape
  <1>3. ReplayedSpend(call.op, r, t).verdict # "reserved"
    BY DEF ReplayedSpend, Plan, Refusal
  <1>4. /\ Req[r].proposal \in proposals
        /\ EvidenceAdmitted(r, t[2])
        /\ ExistingReceipts(call.op, r) = {}
        /\ plan = AcquireResource(call.op, r, t)
    BY <1>1, <1>2, <1>3 DEF SpendAuthority, Verdicts
  <1>5. ReservedFor(ActionOf(r)) = {}
    BY <1>4 DEF ExistingReceipts
  <1> DEFINE res == resources[ResourceOf(r)]
             lease == t[4] + Req[r].leaseMs
             current == /\ lease > t[5]
                        /\ Prop[Req[r].proposal].expiresAt > t[5]
  <1>6. /\ Acquirable(res, r, t[4])
        /\ plan = Plan("reserved", call.op, res.fence + 1, lease, current)
    <2>1. Refusal("denied").verdict = "denied"
          /\ Refusal("throws").verdict = "throws"
      BY <1>2 DEF Verdicts
    <2>2. Plan("held", res.op, res.fence, 0, FALSE).verdict = "held"
      BY DEF Plan
    <2> QED BY <1>4, <2>1, <2>2 DEF AcquireResource, LeaseUntil, NextFence
  <1>7. plan.fence = res.fence + 1 /\ plan.lease = lease
    BY <1>6 DEF Plan
  <1> QED BY <1>4, <1>5, <1>6, <1>7 DEF Acquirable

\* A spend that lands keeps the invariant.
LEMMA SpendKeepsLedger ==
  ASSUME TypeOK, LedgerInv, NEW call \in Calls, NEW t \in [1..5 -> Nat],
         call.kind = "spend", WriteSpend(call, Evaluate(call, t))
  PROVE  LedgerInv'
  <1> DEFINE plan == Evaluate(call, t)
             r == call.req
             new == ReceiptOf(call, plan)
  <1>0. call.op \in Ops /\ r \in Requests
    BY CallShape
  <1>1. UNCHANGED <<epochs, proposals, effects>>
    BY DEF WriteSpend
  <1>2. CASE plan.verdict # "reserved"
    <2>1. UNCHANGED <<outbox, resources>>
      BY <1>2 DEF WriteSpend
    <2>2. new.outcome = "resource_reserved" =>
            plan.verdict \notin {"denied", "held"}
      BY DEF ReceiptOf
    <2>3. receipts' = receipts \/
            (receipts' = receipts \cup {new} /\ new.outcome # "resource_reserved")
      BY <1>2, <2>2 DEF WriteSpend
    <2>4. Reserved' = Reserved
      BY <2>3 DEF Reserved
    <2> QED BY <1>1, <2>1, <2>4
         DEF LedgerInv, OneReservationPerAction, ResourceBoundsReservations,
             LeasesNeverOverlap, OneAuthorizationPerAction,
             IntentsFollowReservations, From
  <1>3. CASE plan.verdict = "reserved"
    <2> DEFINE q == ResourceOf(r)
               res == resources[q]
    <2>1. /\ ReservedFor(ActionOf(r)) = {}
          /\ Req[r].proposal \in proposals
          /\ res.op = NoOp \/ res.lease <= t[4]
          /\ plan.fence = res.fence + 1
          /\ plan.lease = t[4] + Req[r].leaseMs
      BY <1>3, ReservedPlan
    <2>2. /\ receipts' = receipts \cup {new}
          /\ outbox' = outbox \cup {[op |-> call.op, req |-> r,
                                     fence |-> plan.fence]}
          /\ resources' = [resources EXCEPT ![q] =
                 [run |-> resources[q].run, fence |-> plan.fence,
                  op |-> call.op, req |-> r, lease |-> plan.lease]]
      BY <1>3 DEF WriteSpend
    <2>3. /\ new.op = call.op /\ new.req = r /\ new.fence = plan.fence
          /\ new.lease = plan.lease /\ new.outcome = "resource_reserved"
      BY <1>3 DEF ReceiptOf
    <2>4. Reserved' = Reserved \cup {new}
      BY <2>2, <2>3 DEF Reserved
    <2>5. /\ q \in Resources /\ Req[r].leaseMs \in Nat
          /\ res.fence \in Nat /\ res.lease \in Nat /\ t[4] \in Nat
      BY <1>0, RequestShape DEF TypeOK, Resource
    <2>6. \A x \in Reserved : /\ x.req \in Requests
                              /\ x.fence \in Nat /\ x.lease \in Nat
      BY DEF Reserved, TypeOK, Receipt
    <2>7. \A x \in Reserved : ResourceOf(x.req) = q =>
            x.fence < plan.fence /\ x.lease <= t[4] /\ x.lease <= plan.lease
      BY <2>1, <2>5, <2>6 DEF LedgerInv, ResourceBoundsReservations
    <2>8. From(new) = t[4]
      BY <2>1, <2>3, <2>5 DEF From
    <2> HIDE DEF new, plan, r, q, res
    <2>9. OneReservationPerAction'
      BY <2>1, <2>3, <2>4
         DEF LedgerInv, OneReservationPerAction, ReservedFor
    <2>10. LeasesNeverOverlap'
      <3>1. \A x \in Reserved : ResourceOf(x.req) = q =>
              x.fence < new.fence /\ x.lease <= From(new)
        BY <2>3, <2>7, <2>8
      <3>2. ResourceOf(new.req) = q
        BY <2>3 DEF q
      <3> QED BY <2>4, <3>1, <3>2 DEF LedgerInv, LeasesNeverOverlap, From
    <2>11. ResourceBoundsReservations'
      <3>1. /\ resources'[q].op = call.op /\ resources'[q].fence = plan.fence
            /\ resources'[q].lease = plan.lease
        BY <2>2, <2>5 DEF TypeOK
      <3>2. \A x \in Reserved : ResourceOf(x.req) # q =>
              resources'[ResourceOf(x.req)] = resources[ResourceOf(x.req)]
        BY <2>2, <2>6, RequestShape DEF TypeOK
      <3>3. call.op # NoOp
        BY <1>0, AuthorityAssumption
      <3>4. plan.fence \in Nat /\ plan.lease \in Nat
        BY <2>1, <2>5
      <3>5. ASSUME NEW x \in Reserved'
            PROVE  LET y == resources'[ResourceOf(x.req)]
                   IN  y.op # NoOp /\ x.fence <= y.fence /\ x.lease <= y.lease
        <4>1. CASE x = new
          BY <4>1, <2>3, <3>1, <3>3, <3>4 DEF q
        <4>2. CASE x \in Reserved /\ ResourceOf(x.req) = q
          BY <4>2, <2>6, <2>7, <3>1, <3>3, <3>4
        <4>3. CASE x \in Reserved /\ ResourceOf(x.req) # q
          BY <4>3, <3>2 DEF LedgerInv, ResourceBoundsReservations
        <4> QED BY <2>4, <4>1, <4>2, <4>3
      <3> QED BY <3>5 DEF ResourceBoundsReservations
    <2>12. OneAuthorizationPerAction'
      BY <1>1, <2>1, <2>3, <2>4 DEF LedgerInv, OneAuthorizationPerAction
    <2>13. IntentsFollowReservations'
      BY <1>1, <2>2, <2>3, <2>4 DEF LedgerInv, IntentsFollowReservations
    <2> QED BY <2>9, <2>10, <2>11, <2>12, <2>13 DEF LedgerInv
  <1> QED BY <1>2, <1>3

\* A proposal becomes durable only while its action has no epoch-1 proposal.
LEMMA AuthorizationKeepsLedger ==
  ASSUME TypeOK, LedgerInv, NEW call \in Calls, NEW t \in [1..5 -> Nat],
         call.kind = "authorize", WriteAuthorization(call, Evaluate(call, t))
  PROVE  LedgerInv'
  <1> DEFINE plan == Evaluate(call, t)
             p == call.prop
             a == Prop[p].action
  <1>0. p \in Proposals /\ a \in Actions
    BY CallShape, AuthorityAssumption DEF ShapeOfProposal
  <1>1. UNCHANGED <<receipts, outbox, effects, resources>>
    BY DEF WriteAuthorization
  <1>2. Reserved' = Reserved
    BY <1>1 DEF Reserved
  <1>3. OneAuthorizationPerAction'
    <2>1. CASE plan.verdict = "authorized"
      <3>1. plan = AuthorizeDviProposal(call, t)
        BY DEF Evaluate
      <3>2. \A v \in Verdicts : Refusal(v).verdict = v
        BY RefusalShape
      <3>3. epochs[a] # 1
        <4>1. ReplayedAuthorization(p, t).verdict # "authorized"
          BY <3>2 DEF ReplayedAuthorization, Verdicts
        <4>2. Refusal("authorization_refused").verdict # "authorized"
          BY <3>2 DEF Verdicts
        <4>3. plan = LockedAuthorization(p, t)
          BY <2>1, <3>1, <4>1, <4>2 DEF AuthorizeDviProposal
        <4>4. Refusal("authorization_refused_locked").verdict # "authorized"
          BY <3>2 DEF Verdicts
        <4> QED BY <2>1, <4>3, <4>4 DEF LockedAuthorization
      <3>4. \A r \in proposals : Prop[r].action # a
        BY <1>0, <3>3 DEF LedgerInv, OneAuthorizationPerAction
      <3>5. proposals' = proposals \cup {p} /\ epochs' = [epochs EXCEPT ![a] = 1]
        BY <2>1 DEF WriteAuthorization
      <3> HIDE DEF p
      <3> QED BY <1>0, <1>2, <3>4, <3>5
           DEF TypeOK, LedgerInv, OneAuthorizationPerAction
    <2>2. CASE plan.verdict # "authorized"
      <3>1. proposals' = proposals
        BY <2>2 DEF WriteAuthorization
      <3>2. epochs' = epochs \/
              (epochs[a] = -1 /\ epochs' = [epochs EXCEPT ![a] = 0])
        BY <2>2 DEF WriteAuthorization
      <3>3. \A b \in Actions : epochs'[b] = 1 <=> epochs[b] = 1
        BY <1>0, <3>2 DEF TypeOK
      <3> QED BY <1>2, <3>1, <3>3 DEF LedgerInv, OneAuthorizationPerAction
    <2> QED BY <2>1, <2>2
  <1> QED BY <1>1, <1>2, <1>3
       DEF LedgerInv, OneReservationPerAction, ResourceBoundsReservations,
           LeasesNeverOverlap, IntentsFollowReservations, From

\* When the plan is to record an effect, the call holds the newest fence.
LEMMA RecordedPlan ==
  ASSUME NEW call, NEW t, call.kind = "effect",
         Evaluate(call, t).verdict = "effect_recorded"
  PROVE  HoldsFence(call)
  <1>1. Evaluate(call, t) = RecordProtectedEffect(call, t)
    BY DEF Evaluate
  <1>2. \A v \in Verdicts : Refusal(v).verdict = v
    BY RefusalShape
  <1>3. /\ Refusal("effect_denied").verdict # "effect_recorded"
        /\ Refusal("effect_already_recorded").verdict # "effect_recorded"
        /\ Refusal("throws").verdict # "effect_recorded"
    BY <1>2 DEF Verdicts
  <1> QED BY <1>1, <1>3 DEF RecordProtectedEffect

\* An effect that lands keeps the invariant.
LEMMA EffectKeepsLedger ==
  ASSUME LedgerInv, NEW call \in Calls, NEW t \in [1..5 -> Nat],
         call.kind = "effect", WriteEffect(call, Evaluate(call, t))
  PROVE  LedgerInv'
  <1>1. UNCHANGED <<epochs, proposals, receipts, outbox, resources>>
    BY DEF WriteEffect
  <1>2. effects' \subseteq outbox
    <2>1. CASE Evaluate(call, t).verdict = "effect_recorded"
      BY <2>1, RecordedPlan
         DEF WriteEffect, HoldsFence, LedgerInv, IntentsFollowReservations
    <2>2. CASE Evaluate(call, t).verdict # "effect_recorded"
      BY <2>2 DEF WriteEffect, LedgerInv, IntentsFollowReservations
    <2> QED BY <2>1, <2>2
  <1>3. Reserved' = Reserved
    BY <1>1 DEF Reserved
  <1> QED BY <1>1, <1>2, <1>3
       DEF LedgerInv, OneReservationPerAction, ResourceBoundsReservations,
           LeasesNeverOverlap, OneAuthorizationPerAction,
           IntentsFollowReservations, From

\* Steps that leave the ledger tables alone, and prepareResource, which only
\* writes the run of a fresh row.
LEMMA QuietKeepsLedger ==
  ASSUME TypeOK, LedgerInv,
         UNCHANGED <<epochs, proposals, receipts, outbox, effects>>,
         \/ UNCHANGED resources
         \/ \E q \in Resources, run \in Runs :
              resources' = [resources EXCEPT ![q].run = run]
  PROVE  LedgerInv'
  <1>1. Reserved' = Reserved
    BY DEF Reserved
  <1>2. \A q \in Resources : /\ resources'[q].op = resources[q].op
                             /\ resources'[q].fence = resources[q].fence
                             /\ resources'[q].lease = resources[q].lease
    BY DEF TypeOK, Resource
  <1>3. \A x \in Reserved : ResourceOf(x.req) \in Resources
    BY RequestShape DEF Reserved, TypeOK, Receipt
  <1>4. ResourceBoundsReservations'
    BY <1>1, <1>2, <1>3 DEF LedgerInv, ResourceBoundsReservations
  <1> QED BY <1>1, <1>4
       DEF LedgerInv, OneReservationPerAction, LeasesNeverOverlap,
           OneAuthorizationPerAction, IntentsFollowReservations, From

\* Every step keeps the invariant.
LEMMA NextKeepsLedger == TypeOK /\ LedgerInv /\ [Next]_vars => LedgerInv'
  <1> SUFFICES ASSUME TypeOK, LedgerInv, [Next]_vars PROVE LedgerInv'
    OBVIOUS
  <1>1. CASE UNCHANGED vars
    BY <1>1, QuietKeepsLedger DEF vars, ledgerVars
  <1>2. ASSUME NEW c \in Clients, ClientStep(c) PROVE LedgerInv'
    <2>1. CASE UNCHANGED ledgerVars
      BY <2>1, QuietKeepsLedger DEF ledgerVars
    <2>2. ASSUME NEW call \in Calls, NEW t \in [1..5 -> Nat],
                 Write(call, Evaluate(call, t))
          PROVE  LedgerInv'
      BY <2>2, SpendKeepsLedger, AuthorizationKeepsLedger, EffectKeepsLedger
         DEF Write
    <2> QED BY <1>2, <2>1, <2>2, ClientStepShape
  <1>3. ASSUME NEW q \in Resources, NEW run \in Runs, PrepareResource(q, run)
        PROVE  LedgerInv'
    BY <1>3, QuietKeepsLedger DEF PrepareResource
  <1>4. ASSUME NEW p \in Proposals, RecordDviSelectionReceipt(p)
        PROVE  LedgerInv'
    BY <1>4, QuietKeepsLedger DEF RecordDviSelectionReceipt
  <1>5. CASE EvidenceStep
    BY <1>5, QuietKeepsLedger DEF EvidenceStep, ledgerVars
  <1>6. CASE Tick
    BY <1>6, QuietKeepsLedger DEF Tick, ledgerVars
  <1> QED BY <1>1, <1>2, <1>3, <1>4, <1>5, <1>6 DEF Next

\* The inductive invariant of the ledger holds in every reachable state.
THEOREM LedgerSafe == Spec => [](TypeOK /\ LedgerInv)
  <1>1. Init => LedgerInv
    BY DEF Init, LedgerInv, OneReservationPerAction, LeasesNeverOverlap,
           ResourceBoundsReservations, OneAuthorizationPerAction,
           IntentsFollowReservations, Reserved
  <1> QED BY <1>1, TypeCorrect, NextKeepsLedger, PTL DEF Spec

\* A logical action is reserved at most once, for any number of callers,
\* operation ids, retries and lost acknowledgements.
THEOREM AtMostOneReservation == Spec => []OneReservationPerAction
  <1>1. LedgerInv => OneReservationPerAction
    BY DEF LedgerInv
  <1> QED BY <1>1, LedgerSafe, PTL

\* The leases of one resource never overlap and its fences order them.
THEOREM DisjointLeases == Spec => []LeasesNeverOverlap
  <1>1. LedgerInv => LeasesNeverOverlap
    BY DEF LedgerInv
  <1> QED BY <1>1, LedgerSafe, PTL

\* An action has at most one durable proposal, and its epoch says so.
THEOREM SingleAuthorization == Spec => []OneAuthorizationPerAction
  <1>1. LedgerInv => OneAuthorizationPerAction
    BY DEF LedgerInv
  <1> QED BY <1>1, LedgerSafe, PTL

\* Intents, effects and reservations stay together.
THEOREM IntentsAndReservations == Spec => []IntentsFollowReservations
  <1>1. LedgerInv => IntentsFollowReservations
    BY DEF LedgerInv
  <1> QED BY <1>1, LedgerSafe, PTL

\* The only step that adds an effect lands a call that holds the newest fence.
LEMMA EffectStep ==
  ASSUME TypeOK, LedgerInv, [Next]_vars,
         NEW e \in effects' \ effects, NEW x \in Reserved,
         ResourceOf(x.req) = ResourceOf(e.req)
  PROVE  x.fence <= e.fence
  <1>1. PICK c \in Clients : ClientStep(c)
    BY DEF Next, PrepareResource, RecordDviSelectionReceipt, EvidenceStep,
           Tick, ledgerVars, vars
  <1>2. ~UNCHANGED ledgerVars
    BY DEF ledgerVars
  <1>3. PICK call \in Calls, t \in [1..5 -> Nat] :
          Write(call, Evaluate(call, t))
    BY <1>1, <1>2, ClientStepShape
  <1>4. call.kind = "effect" /\ WriteEffect(call, Evaluate(call, t))
    BY <1>3 DEF Write, WriteSpend, WriteAuthorization
  <1>5. /\ Evaluate(call, t).verdict = "effect_recorded"
        /\ e = [op |-> call.op, req |-> call.req, fence |-> call.fence]
    BY <1>4 DEF WriteEffect
  <1>6. resources[ResourceOf(call.req)].fence = call.fence
    BY <1>4, <1>5, RecordedPlan DEF HoldsFence
  <1> QED BY <1>5, <1>6 DEF LedgerInv, ResourceBoundsReservations

\* No delayed effect of an earlier holder commits once a later reservation of
\* the resource is durable.
THEOREM FencedEffects == Spec => EffectsUnderNewestFence
  <1>1. TypeOK /\ LedgerInv /\ [Next]_vars =>
          [\A e \in effects' \ effects, x \in Reserved :
             ResourceOf(x.req) = ResourceOf(e.req) => x.fence <= e.fence]_vars
    BY EffectStep
  <1> QED BY <1>1, LedgerSafe, PTL DEF Spec, EffectsUnderNewestFence

\* The only step that adds a reservation lands a spend whose evidence is
\* admissible at that moment, hence under an active key.
LEMMA ReservationStep ==
  ASSUME TypeOK, [Next]_vars, NEW x \in Reserved' \ Reserved
  PROVE  LET p == Req[x.req].proposal
         IN  /\ p \in proposals
             /\ keyStatus[Env[Prop[p].envelope].key] = "active"
             /\ [env |-> Prop[p].envelope, outcome |-> "verified"]
                  \in verifications
  <1>1. receipts' # receipts
    BY DEF Reserved
  <1>2. PICK c \in Clients : ClientStep(c)
    BY <1>1 DEF Next, PrepareResource, RecordDviSelectionReceipt, EvidenceStep,
                Tick, ledgerVars, vars
  <1>3. PICK call \in Calls, t \in [1..5 -> Nat] :
          Write(call, Evaluate(call, t))
    BY <1>1, <1>2, ClientStepShape DEF ledgerVars
  <1>4. call.kind = "spend" /\ WriteSpend(call, Evaluate(call, t))
    BY <1>1, <1>3 DEF Write, WriteEffect, WriteAuthorization
  <1>5. x = ReceiptOf(call, Evaluate(call, t))
    BY <1>4 DEF WriteSpend, Reserved
  <1>6. Evaluate(call, t).verdict = "reserved" /\ x.req = call.req
    BY <1>4, <1>5 DEF WriteSpend, Reserved, ReceiptOf
  <1>7. /\ EvidenceAdmitted(call.req, t[2])
        /\ Req[call.req].proposal \in proposals
    BY <1>4, <1>6, ReservedPlan
  <1>8. PICK y \in rows, v \in verifications :
          /\ y.env = Prop[Req[call.req].proposal].envelope
          /\ v.env = y.env /\ v.outcome = "verified"
          /\ keyStatus[Env[y.env].key] = "active"
    BY <1>7 DEF EvidenceAdmitted, Admissible, CurrentlyVerified
  <1>9. v = [env |-> y.env, outcome |-> "verified"]
    BY <1>8 DEF TypeOK, EvidenceTypeOK, Verification
  <1> QED BY <1>6, <1>7, <1>8, <1>9

\* Whatever a reservation rests on is never taken away again: proposals,
\* selections and verification receipts only grow, a key keeps its row, and a
\* proposal becomes durable only behind its selection receipt.
LEMMA FoundationsGrow ==
  ASSUME TypeOK, ReservationsAreEvidenced, [Next]_vars
  PROVE  /\ proposals \subseteq proposals'
         /\ proposals' \subseteq selections'
         /\ verifications \subseteq verifications'
         /\ \A k \in Keys : keyStatus[k] # "absent" => keyStatus'[k] # "absent"
  <1> DEFINE Grown ==
        /\ proposals \subseteq proposals'
        /\ proposals' \subseteq selections'
        /\ verifications \subseteq verifications'
        /\ \A k \in Keys :
             keyStatus[k] # "absent" => keyStatus'[k] # "absent"
  <1>1. CASE UNCHANGED vars
    BY <1>1 DEF vars, ledgerVars, evidenceVars, ReservationsAreEvidenced
  <1>2. ASSUME NEW c \in Clients, ClientStep(c) PROVE Grown
    <2>1. UNCHANGED evidenceVars
      BY <1>2 DEF ClientStep, BeginCall, RetryCall, FailCall, DispatchCommit,
                  LandCommit, DropCommit, LoseAcknowledgement, Acknowledge
    <2>2. CASE UNCHANGED ledgerVars
      BY <2>1, <2>2 DEF ledgerVars, evidenceVars, ReservationsAreEvidenced
    <2>3. CASE ~UNCHANGED ledgerVars
      <3>1. PICK call \in Calls, t \in [1..5 -> Nat] :
              Write(call, Evaluate(call, t))
        BY <1>2, <2>3, ClientStepShape
      <3>2. CASE call.kind = "authorize" /\ WriteAuthorization(call, Evaluate(call, t))
        <4>1. Evaluate(call, t).verdict = "authorized" =>
                call.prop \in selections
          BY <3>2, RefusalShape
             DEF Evaluate, AuthorizeDviProposal, ReplayedAuthorization,
                 AdmittedForAuthorization, Verdicts
        <4> QED BY <2>1, <3>2, <4>1
                DEF WriteAuthorization, evidenceVars, ReservationsAreEvidenced
      <3>3. CASE ~(call.kind = "authorize" /\ WriteAuthorization(call, Evaluate(call, t)))
        BY <2>1, <3>1, <3>3 DEF Write, WriteSpend, WriteEffect, evidenceVars,
                                ReservationsAreEvidenced
      <3> QED BY <3>2, <3>3
    <2> QED BY <2>2, <2>3
  <1>3. ASSUME NEW q \in Resources, NEW run \in Runs, PrepareResource(q, run)
        PROVE  Grown
    BY <1>3 DEF PrepareResource, evidenceVars, ReservationsAreEvidenced
  <1>4. ASSUME NEW p \in Proposals, RecordDviSelectionReceipt(p) PROVE Grown
    BY <1>4 DEF RecordDviSelectionReceipt, evidenceVars,
                ReservationsAreEvidenced
  <1>5. CASE EvidenceStep
    <2>1. proposals \subseteq proposals' /\ proposals' \subseteq selections'
      BY <1>5 DEF EvidenceStep, ledgerVars, ReservationsAreEvidenced
    <2> QED BY <1>5, <2>1
            DEF EvidenceStep, EvidenceNext, RegisterVerificationKey,
                RevokeVerificationKey, AppendSignedEvidence, AppendEvidence,
                TypeOK, EvidenceTypeOK
  <1>6. CASE Tick
    BY <1>6 DEF Tick, ledgerVars, evidenceVars, ReservationsAreEvidenced
  <1> QED BY <1>1, <1>2, <1>3, <1>4, <1>5, <1>6 DEF Next

\* Every reservation rests on a proposal, a selection receipt and a verified
\* submission of its evidence, whatever else is appended to the store.
THEOREM EvidencedReservations == Spec => []ReservationsAreEvidenced
  <1>1. Init => ReservationsAreEvidenced
    BY DEF Init, ReservationsAreEvidenced, Reserved
  <1>2. TypeOK /\ ReservationsAreEvidenced /\ TypeOK' /\ [Next]_vars =>
          ReservationsAreEvidenced'
    <2> SUFFICES ASSUME TypeOK, ReservationsAreEvidenced, TypeOK', [Next]_vars,
                        NEW x \in Reserved'
                 PROVE  LET p == Req[x.req].proposal
                        IN  /\ p \in proposals'
                            /\ [env |-> Prop[p].envelope,
                                outcome |-> "verified"] \in verifications'
                            /\ keyStatus'[Env[Prop[p].envelope].key] # "absent"
      BY FoundationsGrow DEF ReservationsAreEvidenced
    <2> DEFINE p == Req[x.req].proposal
    <2>1. /\ p \in proposals
          /\ [env |-> Prop[p].envelope, outcome |-> "verified"]
               \in verifications
          /\ keyStatus[Env[Prop[p].envelope].key] # "absent"
      <3>1. CASE x \in Reserved
        BY <3>1 DEF ReservationsAreEvidenced
      <3>2. CASE x \notin Reserved
        BY <3>2, ReservationStep
      <3> QED BY <3>1, <3>2
    <2>2. Env[Prop[p].envelope].key \in Keys
      BY <2>1, AuthorityAssumption, EvidenceAssumption
         DEF TypeOK, ShapeOfProposal, ShapeOfEnvelope
    <2> QED BY <2>1, <2>2, FoundationsGrow
  <1> QED BY <1>1, <1>2, TypeCorrect, PTL DEF Spec

\* A reservation never commits after the key behind its evidence was revoked.
THEOREM RevocationStopsSpending == Spec => NoReservationAfterRevocation
  <1>1. TypeOK /\ [Next]_vars =>
          [\A x \in Reserved' \ Reserved :
             keyStatus[Env[Prop[Req[x.req].proposal].envelope].key]
               = "active"]_vars
    BY ReservationStep
  <1> QED BY <1>1, TypeCorrect, PTL DEF Spec, NoReservationAfterRevocation

\* What spendAuthority promises of the rows it leaves, for any number of
\* callers, operations, retries and lost acknowledgements.
THEOREM SpendSafe == Spec => []SpendIsSafe
  <1>1. /\ OneReservationPerAction /\ LeasesNeverOverlap
        /\ OneAuthorizationPerAction /\ IntentsFollowReservations
        /\ ReservationsAreEvidenced
        => SpendIsSafe
    BY DEF SpendIsSafe
  <1> QED BY <1>1, AtMostOneReservation, DisjointLeases, SingleAuthorization,
             IntentsAndReservations, EvidencedReservations, PTL

-----------------------------------------------------------------------------
(* The resource row and the reservations made on it. *)

\* A set whose members are numbered 1..n has n members.
LEMMA NumberedSet ==
  ASSUME NEW S, NEW n \in Nat, {x.fence : x \in S} = 1..n,
         \A x, y \in S : x.fence = y.fence => x = y
  PROVE  Cardinality(S) = n
  <1> DEFINE f == [x \in S |-> x.fence]
  <1>1. f \in Injection(S, 1..n) /\ f \in Surjection(S, 1..n)
    <2>1. \A x \in S : x.fence \in 1..n /\ f[x] = x.fence
      OBVIOUS
    <2>2. \A i \in 1..n : \E x \in S : f[x] = i
      OBVIOUS
    <2>3. f \in [S -> 1..n] /\ DOMAIN f = S
      BY <2>1
    <2> HIDE DEF f
    <2> QED BY <2>1, <2>2, <2>3 DEF Injection, Surjection, IsInjective
  <1>2. IsFiniteSet(1..n) /\ Cardinality(1..n) = n
    BY FS_Interval
  <1> HIDE DEF f
  <1> QED BY <1>1, <1>2, FS_Injection

\* x is reserved next: its action was not reserved, its fence is the next of
\* its resource, and it starts when the lease found there is over.
Reserves(x) ==
  LET q == ResourceOf(x.req)
      res == resources[q]
  IN  /\ x \in Receipt /\ x.outcome = "resource_reserved"
      /\ ReservedFor(ActionOf(x.req)) = {}
      /\ x.fence = res.fence + 1
      /\ res.op = NoOp \/ res.lease <= From(x)
      /\ x.lease = From(x) + Req[x.req].leaseMs
      /\ Reserved' = Reserved \cup {x}
      /\ UNCHANGED effects
      /\ resources'[q].fence = x.fence /\ resources'[q].op = x.op
      /\ resources'[q].req = x.req /\ resources'[q].lease = x.lease
      /\ \A z \in Resources \ {q} : resources'[z] = resources[z]

\* Every step reserves one action, or changes neither the reservations nor
\* the holder, the fence and the lease of a resource row.
LEMMA ReservedSteps ==
  ASSUME TypeOK, [Next]_vars
  PROVE  \/ \E x : Reserves(x)
         \/ /\ Reserved' = Reserved
            /\ \A q \in Resources :
                 /\ resources'[q].fence = resources[q].fence
                 /\ resources'[q].op = resources[q].op
                 /\ resources'[q].req = resources[q].req
                 /\ resources'[q].lease = resources[q].lease
  <1> DEFINE Same ==
        /\ Reserved' = Reserved
        /\ \A q \in Resources :
             /\ resources'[q].fence = resources[q].fence
             /\ resources'[q].op = resources[q].op
             /\ resources'[q].req = resources[q].req
             /\ resources'[q].lease = resources[q].lease
  <1>1. ASSUME UNCHANGED <<receipts, resources>> PROVE Same
    BY <1>1 DEF Reserved
  <1>2. ASSUME NEW q \in Resources, NEW run \in Runs, PrepareResource(q, run) PROVE Same
    BY <1>2 DEF PrepareResource, Reserved, TypeOK, Resource
  <1>3. ASSUME NEW call \in Calls, NEW t \in [1..5 -> Nat], call.kind = "spend",
               WriteSpend(call, Evaluate(call, t))
        PROVE  Same \/ \E x : Reserves(x)
    <2> DEFINE plan == Evaluate(call, t)
               new == ReceiptOf(call, plan)
               q == ResourceOf(call.req)
    <2>1. CASE plan.verdict # "reserved"
      <3>1. /\ UNCHANGED resources
            /\ receipts' = receipts \/
                 (receipts' = receipts \cup {new} /\ plan.verdict \in {"denied", "held"})
        BY <1>3, <2>1 DEF WriteSpend
      <3>2. plan.verdict \in {"denied", "held"} => new.outcome # "resource_reserved"
        BY DEF ReceiptOf
      <3> QED BY <3>1, <3>2 DEF Reserved
    <2>2. CASE plan.verdict = "reserved"
      <3>1. /\ call.op \in Ops /\ call.req \in Requests /\ plan \in Plans
            /\ q \in Resources /\ Req[call.req].leaseMs \in Nat
        BY <1>3, CallShape, EvaluateShape, RequestShape
      <3>2. /\ ReservedFor(ActionOf(call.req)) = {}
            /\ resources[q].op = NoOp \/ resources[q].lease <= t[4]
            /\ plan.fence = resources[q].fence + 1
            /\ plan.lease = t[4] + Req[call.req].leaseMs
        BY <1>3, <2>2, ReservedPlan
      <3>3. /\ new.op = call.op /\ new.req = call.req /\ new.fence = plan.fence
            /\ new.lease = plan.lease /\ new.outcome = "resource_reserved"
        BY <2>2 DEF ReceiptOf
      <3>4. new \in Receipt
        BY <2>2, <3>1 DEF ReceiptOf, Receipt, Plans
      <3>5. /\ receipts' = receipts \cup {new}
            /\ resources' = [resources EXCEPT ![q] =
                 [run |-> resources[q].run, fence |-> plan.fence, op |-> call.op,
                  req |-> call.req, lease |-> plan.lease]]
            /\ UNCHANGED effects
        BY <1>3, <2>2 DEF WriteSpend
      <3>6. Reserved' = Reserved \cup {new}
        BY <3>3, <3>5 DEF Reserved
      <3>7. From(new) = t[4] /\ t[4] \in Nat
        BY <3>1, <3>2, <3>3 DEF From
      <3>8. /\ resources'[q].fence = plan.fence /\ resources'[q].op = call.op
            /\ resources'[q].req = call.req /\ resources'[q].lease = plan.lease
            /\ \A z \in Resources \ {q} : resources'[z] = resources[z]
        BY <3>1, <3>5 DEF TypeOK
      <3> HIDE DEF new, plan
      <3>9. Reserves(new)
        BY <3>2, <3>3, <3>4, <3>5, <3>6, <3>7, <3>8 DEF Reserves
      <3> QED BY <3>9
    <2> QED BY <2>1, <2>2
  <1>4. ASSUME NEW c \in Clients, ClientStep(c) PROVE Same \/ \E x : Reserves(x)
    <2>1. CASE UNCHANGED ledgerVars
      BY <1>1, <2>1 DEF ledgerVars
    <2>2. ASSUME NEW call \in Calls, NEW t \in [1..5 -> Nat], Write(call, Evaluate(call, t))
          PROVE  Same \/ \E x : Reserves(x)
      BY <1>1, <1>3, <2>2 DEF Write, WriteAuthorization, WriteEffect
    <2> QED BY <1>4, <2>1, <2>2, ClientStepShape
  <1> HIDE DEF Same
  <1>5. Same \/ \E x : Reserves(x)
    BY <1>1, <1>2, <1>4 DEF Next, RecordDviSelectionReceipt, EvidenceStep, Tick, vars, ledgerVars
  <1> QED BY <1>5 DEF Same

\* The fences of a resource are given out one by one, and its row has the
\* holder and the lease of the newest reservation.
FencesAreNumbered ==
  \A q \in Resources :
    LET on == {x \in Reserved : ResourceOf(x.req) = q}
    IN  /\ {x.fence : x \in on} = 1..resources[q].fence
        /\ \A x \in on : x.fence = resources[q].fence =>
             /\ resources[q].op = x.op
             /\ resources[q].req = x.req
             /\ resources[q].lease = x.lease

\* Every step keeps the numbering.
LEMMA StepKeepsNumbering ==
  TypeOK /\ LedgerInv /\ FencesAreNumbered /\ [Next]_vars => FencesAreNumbered'
  <1> SUFFICES ASSUME TypeOK, LedgerInv, FencesAreNumbered, [Next]_vars, NEW q \in Resources
               PROVE  LET on == {x \in Reserved' : ResourceOf(x.req) = q}
                      IN  /\ {x.fence : x \in on} = 1..resources'[q].fence
                          /\ \A x \in on : x.fence = resources'[q].fence =>
                               /\ resources'[q].op = x.op
                               /\ resources'[q].req = x.req
                               /\ resources'[q].lease = x.lease
    BY DEF FencesAreNumbered
  <1>1. CASE /\ Reserved' = Reserved
             /\ resources'[q].fence = resources[q].fence
             /\ resources'[q].op = resources[q].op
             /\ resources'[q].req = resources[q].req
             /\ resources'[q].lease = resources[q].lease
    BY <1>1 DEF FencesAreNumbered
  <1>2. ASSUME NEW n, Reserves(n)
        PROVE  LET on == {x \in Reserved' : ResourceOf(x.req) = q}
               IN  /\ {x.fence : x \in on} = 1..resources'[q].fence
                   /\ \A x \in on : x.fence = resources'[q].fence =>
                        /\ resources'[q].op = x.op
                        /\ resources'[q].req = x.req
                        /\ resources'[q].lease = x.lease
    <2> DEFINE on == {x \in Reserved : ResourceOf(x.req) = q}
               on2 == {x \in Reserved' : ResourceOf(x.req) = q}
    <2>1. CASE ResourceOf(n.req) # q
      <3>1. on2 = on /\ resources'[q] = resources[q]
        BY <1>2, <2>1 DEF Reserves
      <3> QED BY <3>1 DEF FencesAreNumbered
    <2>2. CASE ResourceOf(n.req) = q
      <3>1. on2 = on \cup {n} /\ n.fence = resources[q].fence + 1 /\ resources[q].fence \in Nat
        BY <1>2, <2>2 DEF Reserves, TypeOK, Resource
      <3>2. {x.fence : x \in on} = 1..resources[q].fence
        BY DEF FencesAreNumbered
      <3>3. {x.fence : x \in on2} = {x.fence : x \in on} \cup {n.fence}
        BY <3>1
      <3>4. {x.fence : x \in on2} = 1..n.fence
        BY <3>1, <3>2, <3>3
      <3>5. \A x \in on : x.fence # n.fence
        <4>1. \A x \in on : x.fence \in 1..resources[q].fence
          BY <3>2
        <4> QED BY <3>1, <4>1
      <3>6. /\ resources'[q].fence = n.fence /\ resources'[q].op = n.op
            /\ resources'[q].req = n.req /\ resources'[q].lease = n.lease
        BY <1>2, <2>2 DEF Reserves
      <3> QED BY <3>1, <3>4, <3>5, <3>6
    <2> QED BY <2>1, <2>2
  <1> QED BY <1>1, <1>2, ReservedSteps

\* The resource row follows the reservations: no fence is skipped or given
\* out twice, and the row is that of the newest holder.
THEOREM ResourceRowIsTrue == Spec => []ResourceFollowsReservations
  <1>1. Init => FencesAreNumbered
    BY DEF Init, FencesAreNumbered, Reserved, NoResource
  <1>2. TypeOK /\ LedgerInv /\ FencesAreNumbered => ResourceFollowsReservations
    <2> SUFFICES ASSUME TypeOK, LedgerInv, FencesAreNumbered, NEW q \in Resources
                 PROVE  Cardinality({x \in Reserved : ResourceOf(x.req) = q}) = resources[q].fence
      BY DEF FencesAreNumbered, ResourceFollowsReservations
    <2> DEFINE on == {x \in Reserved : ResourceOf(x.req) = q}
    <2>1. resources[q].fence \in Nat
      BY DEF TypeOK, Resource
    <2>2. \A x, y \in on : x.fence = y.fence => x = y
      BY DEF LedgerInv, LeasesNeverOverlap, Reserved, TypeOK, Receipt
    <2>3. {x.fence : x \in on} = 1..resources[q].fence
      BY DEF FencesAreNumbered
    <2> HIDE DEF on
    <2>4. Cardinality(on) = resources[q].fence
      BY <2>1, <2>2, <2>3, NumberedSet
    <2> QED BY <2>4 DEF on
  <1> QED BY <1>1, <1>2, LedgerSafe, StepKeepsNumbering, PTL DEF Spec

-----------------------------------------------------------------------------
(* The store implements FencedAuthority. *)

\* The grant a reservation stands for.
GrantOf(x) == [action |-> ActionOf(x.req), fence |-> x.fence, from |-> From(x), until |-> x.lease]

\* The performance an effect stands for.
PerformanceOf(e) == [action |-> ActionOf(e.req), fence |-> e.fence]

\* A new reservation is a Grant.
LEMMA ReservingGrants ==
  ASSUME TypeOK, LedgerInv, FencesAreNumbered, NEW x, Reserves(x)
  PROVE  Authority!Next
  <1> DEFINE gs == {GrantOf(y) : y \in Reserved}
             g == GrantOf(x)
             q == ResourceOf(x.req)
             on == {h \in gs : Action[h.action].resource = q}
  <1>1. /\ x.req \in Requests /\ q \in Resources /\ resources[q].fence \in Nat
        /\ Req[x.req].leaseMs \in Nat \ {0} /\ x.lease \in Nat
    BY RequestShape, AuthorityAssumption DEF Reserves, Receipt, TypeOK, Resource, ShapeOfRequest
  <1>2. /\ g.action = ActionOf(x.req) /\ g.fence = x.fence /\ g.from = From(x) /\ g.until = x.lease
        /\ \A y \in Reserved : /\ GrantOf(y).action = ActionOf(y.req) /\ GrantOf(y).fence = y.fence
                               /\ GrantOf(y).from = From(y) /\ GrantOf(y).until = y.lease
    BY DEF GrantOf
  <1>3. \A h \in gs : h.action # g.action
    BY <1>2 DEF Reserves, ReservedFor
  <1>4. Cardinality(on) = resources[q].fence
    <2>1. {y.fence : y \in {z \in Reserved : ResourceOf(z.req) = q}} = 1..resources[q].fence
      BY <1>1 DEF FencesAreNumbered
    <2>2. on = {GrantOf(y) : y \in {z \in Reserved : ResourceOf(z.req) = q}}
      BY <1>2 DEF ResourceOf
    <2>3. {h.fence : h \in on} = 1..resources[q].fence
      BY <1>2, <2>1, <2>2
    <2>4. \A y, z \in {w \in Reserved : ResourceOf(w.req) = q} : y.fence = z.fence => y = z
      BY DEF LedgerInv, LeasesNeverOverlap, Reserved, TypeOK, Receipt
    <2>5. \A h, k \in on : h.fence = k.fence => h = k
      BY <1>2, <2>2, <2>4
    <2> HIDE DEF on
    <2> QED BY <1>1, <2>3, <2>5, NumberedSet
  <1>5. g.from < g.until
    BY <1>1, <1>2 DEF From
  <1>6. \A h \in on : h.until <= g.from
    <2>1. \A y \in Reserved : ResourceOf(y.req) = q =>
            /\ resources[q].op # NoOp /\ y.lease <= resources[q].lease
            /\ y.lease \in Nat
      BY DEF LedgerInv, ResourceBoundsReservations, Reserved, TypeOK, Receipt
    <2>2. resources[q].op = NoOp \/ resources[q].lease <= From(x)
      BY DEF Reserves
    <2>3. resources[q].lease \in Nat /\ From(x) \in Int
      BY <1>1 DEF TypeOK, Resource, From
    <2>4. \A y \in Reserved : ResourceOf(y.req) = q => y.lease <= From(x)
      BY <2>1, <2>2, <2>3
    <2> QED BY <1>2, <2>4 DEF ResourceOf
  <1>7. {GrantOf(y) : y \in Reserved'} = gs \cup {g}
    BY DEF Reserves
  <1>8. g \notin gs
    BY <1>3
  <1>9. q = Action[g.action].resource /\ g.fence = Cardinality(on) + 1
    BY <1>2, <1>4 DEF Reserves, ResourceOf
  <1>10. UNCHANGED effects
    BY DEF Reserves
  <1> HIDE DEF g
  <1>11. Authority!Cardinality(on) = Cardinality(on)
    BY DEF Authority!Cardinality, Cardinality
  <1>12. Authority!Grant(g.action, g)
    BY <1>3, <1>5, <1>6, <1>7, <1>9, <1>10, <1>11 DEF Authority!Grant, Authority!GrantsOn, GrantOf
  <1> QED BY <1>7, <1>8, <1>12 DEF Authority!Next, GrantOf

\* A recorded effect is the first of its action, and under the newest fence.
LEMMA RecordedIsFirst ==
  ASSUME NEW call, NEW t, call.kind = "effect",
         Evaluate(call, t).verdict = "effect_recorded"
  PROVE  HoldsFence(call) /\ MatchingEffects(call.op, call.req) = {}
  <1>1. Evaluate(call, t) = RecordProtectedEffect(call, t)
    BY DEF Evaluate
  <1>2. \A v \in Verdicts : Refusal(v).verdict = v
    BY RefusalShape
  <1>3. /\ Refusal("effect_denied").verdict # "effect_recorded"
        /\ Refusal("effect_already_recorded").verdict # "effect_recorded"
        /\ Refusal("throws").verdict # "effect_recorded"
    BY <1>2 DEF Verdicts
  <1> QED BY <1>1, <1>3, RecordedPlan DEF RecordProtectedEffect

\* An effect that lands is a Perform.
LEMMA EffectPerforms ==
  ASSUME TypeOK, LedgerInv, NEW call \in Calls, NEW t \in [1..5 -> Nat], call.kind = "effect",
         WriteEffect(call, Evaluate(call, t)), Evaluate(call, t).verdict = "effect_recorded"
  PROVE  Authority!Next
  <1> DEFINE e == [op |-> call.op, req |-> call.req, fence |-> call.fence]
  <1>1. effects' = effects \cup {e} /\ UNCHANGED receipts
    BY DEF WriteEffect
  <1>2. HoldsFence(call) /\ MatchingEffects(call.op, call.req) = {}
    BY RecordedIsFirst
  <1>3. e.op = call.op /\ e.req = call.req /\ e.fence = call.fence
    OBVIOUS
  <1>4. PICK x \in Reserved : x.req = e.req /\ x.fence = e.fence
    <2>1. e \in outbox
      BY <1>2 DEF HoldsFence
    <2> HIDE DEF e
    <2>2. PICK x \in Reserved : e = [op |-> x.op, req |-> x.req, fence |-> x.fence]
      BY <2>1 DEF LedgerInv, IntentsFollowReservations
    <2> QED BY <2>2
  <1> DEFINE g == GrantOf(x)
  <1>5. g.action = ActionOf(e.req) /\ g.fence = e.fence
    BY <1>4 DEF GrantOf
  <1>6. \A y \in Reserved : ResourceOf(y.req) = ResourceOf(e.req) => y.fence <= e.fence
    BY <1>2, <1>3 DEF HoldsFence, LedgerInv, ResourceBoundsReservations
  <1>7. \A h \in {GrantOf(y) : y \in Reserved} :
          Action[h.action].resource = Action[g.action].resource => h.fence <= g.fence
    BY <1>5, <1>6 DEF ResourceOf, GrantOf
  <1>8. \A d \in {PerformanceOf(f) : f \in effects} : d.action # g.action
    BY <1>2, <1>3, <1>5 DEF MatchingEffects, PerformanceOf
  <1>9. PerformanceOf(e) = [action |-> g.action, fence |-> g.fence]
    BY <1>5 DEF PerformanceOf
  <1> HIDE DEF e
  <1>10. {PerformanceOf(f) : f \in effects'} =
           {PerformanceOf(f) : f \in effects} \cup {[action |-> g.action, fence |-> g.fence]}
    BY <1>1, <1>9
  <1>11. Reserved' = Reserved
    BY <1>1 DEF Reserved
  <1> HIDE DEF g
  <1>12. Authority!Perform(g)
    BY <1>7, <1>8, <1>10, <1>11 DEF Authority!Perform, Authority!GrantsOn, GrantOf, PerformanceOf
  <1> QED BY <1>12 DEF Authority!Next, g, GrantOf

\* Any other step leaves the effects alone.
LEMMA EffectSteps ==
  ASSUME TypeOK, [Next]_vars, effects' # effects
  PROVE  \E call \in Calls, t \in [1..5 -> Nat] :
           /\ call.kind = "effect" /\ WriteEffect(call, Evaluate(call, t))
           /\ Evaluate(call, t).verdict = "effect_recorded"
  <1>1. PICK c \in Clients : ClientStep(c)
    BY DEF Next, PrepareResource, RecordDviSelectionReceipt, EvidenceStep, Tick, ledgerVars, vars
  <1>2. PICK call \in Calls, t \in [1..5 -> Nat] : Write(call, Evaluate(call, t))
    BY <1>1, ClientStepShape DEF ledgerVars
  <1>3. call.kind = "effect" /\ WriteEffect(call, Evaluate(call, t))
    BY <1>2 DEF Write, WriteSpend, WriteAuthorization
  <1> QED BY <1>3 DEF WriteEffect

\* Every step of a caller, a clock or an administrator is a Grant, a Perform,
\* or invisible, for any number of callers and whatever becomes of COMMIT.
THEOREM StoreImplementsFencedAuthority == Spec => ImplementsFencedAuthority
  <1>1. Init => Authority!Init /\ FencesAreNumbered
    BY DEF Init, Authority!Init, Reserved, FencesAreNumbered, NoResource
  <1>2. TypeOK /\ LedgerInv /\ FencesAreNumbered /\ [Next]_vars
          => [Authority!Next]_Authority!authorityVars
    <2> SUFFICES ASSUME TypeOK, LedgerInv, FencesAreNumbered, [Next]_vars
                 PROVE  [Authority!Next]_Authority!authorityVars
      OBVIOUS
    <2>1. CASE effects' # effects
      BY <2>1, EffectSteps, EffectPerforms
    <2>2. CASE \E x : Reserves(x)
      BY <2>2, ReservingGrants
    <2>3. CASE effects' = effects /\ Reserved' = Reserved
      BY <2>3 DEF Authority!authorityVars
    <2> QED BY <2>1, <2>2, <2>3, ReservedSteps
  <1> QED BY <1>1, <1>2, LedgerSafe, StepKeepsNumbering, PTL
        DEF Spec, ImplementsFencedAuthority, Authority!Spec

-----------------------------------------------------------------------------
(* Reconciliation. *)

\* The primary key of g1_authority_receipts.
OneReceiptPerOperation == \A x, y \in receipts : x.op = y.op => x = y

\* A receipt is stored only where #existingReceipt finds none.
LEMMA StoredPlan ==
  ASSUME NEW call, NEW t, call.kind = "spend",
         Evaluate(call, t).verdict \in {"denied", "held", "reserved"}
  PROVE  /\ ExistingReceipts(call.op, call.req) = {}
         /\ Req[call.req].proposal \in proposals
  <1>1. Evaluate(call, t) = SpendAuthority(call, t)
    BY DEF Evaluate
  <1>2. Refusal("denied_not_durable").verdict = "denied_not_durable"
    BY RefusalShape DEF Verdicts
  <1>3. ReplayedSpend(call.op, call.req, t).verdict \notin {"denied", "held", "reserved"}
    BY DEF ReplayedSpend, Plan, Refusal
  <1> QED BY <1>1, <1>2, <1>3 DEF SpendAuthority

\* Receipts are stored one by one, each under an operation and for a request
\* that have none, and proposals stay.
LEMMA ReceiptSteps ==
  ASSUME TypeOK, [Next]_vars
  PROVE  /\ proposals \subseteq proposals'
         /\ \/ receipts' = receipts
            \/ \E y \in Receipt : /\ receipts' = receipts \cup {y}
                                  /\ ExistingReceipts(y.op, y.req) = {}
  <1> DEFINE Grown ==
        /\ proposals \subseteq proposals'
        /\ \/ receipts' = receipts
           \/ \E y \in Receipt : /\ receipts' = receipts \cup {y}
                                 /\ ExistingReceipts(y.op, y.req) = {}
  <1>1. ASSUME UNCHANGED <<proposals, receipts>> PROVE Grown
    BY <1>1
  <1>2. ASSUME NEW call \in Calls, NEW t \in [1..5 -> Nat], call.kind = "spend",
               WriteSpend(call, Evaluate(call, t))
        PROVE  Grown
    <2> DEFINE plan == Evaluate(call, t)
               new == ReceiptOf(call, plan)
    <2>1. CASE plan.verdict \in {"denied", "held", "reserved"}
      <3>1. new.op = call.op /\ new.req = call.req
        BY DEF ReceiptOf
      <3>2. ExistingReceipts(call.op, call.req) = {}
        BY <1>2, <2>1, StoredPlan
      <3>3. plan \in Plans /\ call.op \in Ops /\ call.req \in Requests
        BY <1>2, EvaluateShape, CallShape
      <3>4. new \in Receipt
        BY <3>3 DEF ReceiptOf, Receipt, Plans
      <3>5. receipts' = receipts \cup {new} /\ UNCHANGED proposals
        BY <1>2, <2>1 DEF WriteSpend
      <3> HIDE DEF new
      <3> QED BY <3>1, <3>2, <3>4, <3>5
    <2>2. CASE plan.verdict \notin {"denied", "held", "reserved"}
      BY <1>2, <2>2 DEF WriteSpend
    <2> QED BY <2>1, <2>2
  <1>3. ASSUME NEW c \in Clients, ClientStep(c) PROVE Grown
    <2>1. CASE UNCHANGED ledgerVars
      BY <1>1, <2>1 DEF ledgerVars
    <2>2. ASSUME NEW call \in Calls, NEW t \in [1..5 -> Nat], Write(call, Evaluate(call, t))
          PROVE  Grown
      <3>1. CASE call.kind = "authorize" /\ WriteAuthorization(call, Evaluate(call, t))
        BY <3>1 DEF WriteAuthorization
      <3>2. CASE call.kind = "effect" /\ WriteEffect(call, Evaluate(call, t))
        BY <1>1, <3>2 DEF WriteEffect
      <3> QED BY <1>2, <2>2, <3>1, <3>2 DEF Write
    <2> QED BY <1>3, <2>1, <2>2, ClientStepShape
  <1> HIDE DEF Grown
  <1>4. Grown
    BY <1>1, <1>3 DEF Next, PrepareResource, RecordDviSelectionReceipt, EvidenceStep, Tick, vars,
       ledgerVars
  <1> QED BY <1>4 DEF Grown

\* The invariant of the receipts.
LEMMA StepKeepsReceipts ==
  TypeOK /\ OneReceiptPerOperation /\ [Next]_vars => OneReceiptPerOperation'
  BY ReceiptSteps DEF OneReceiptPerOperation, ExistingReceipts

\* The report is that of receipt x.
Reports(found, x) ==
  /\ found.verdict = IF x.outcome = "resource_reserved" THEN "replay_reserved" ELSE "replay_denied"
  /\ found.op = x.op /\ found.fence = x.fence /\ found.lease = x.lease

\* The receipt reconcileRequest looks up for a caller: its own, or that of the
\* operation that reserved its action.
OwnReceipt(call, x) == x \in receipts /\ x.op = call.op /\ x.req = call.req
ReceiptOfAction(call, x) ==
  /\ x \in Reserved /\ ActionOf(x.req) = ActionOf(call.req)
  /\ \A y \in receipts : y.op # call.op

\* What reconcileRequest reports, in terms of those receipts.
ReconciliationReports ==
  \A call \in Calls : call.kind = "spend" =>
    /\ \A x \in receipts :
         /\ Req[call.req].proposal \in proposals
         /\ OwnReceipt(call, x) \/ ReceiptOfAction(call, x)
         => Reports(Reconciliation(call), x)
    /\ LET found == Reconciliation(call)
       IN  \/ found.verdict = "replay_reserved"
           \/ found.verdict = "replay_denied" /\ found.op = call.op
           => /\ Req[call.req].proposal \in proposals
              /\ \E x \in receipts : OwnReceipt(call, x) \/ ReceiptOfAction(call, x)

\* That is what it reports, in every reachable state.
LEMMA ReconciliationReportsReceipts ==
  TypeOK /\ LedgerInv /\ OneReceiptPerOperation => ReconciliationReports
  <1> SUFFICES ASSUME TypeOK, LedgerInv, OneReceiptPerOperation,
                      NEW call \in Calls, call.kind = "spend"
               PROVE  /\ \A x \in receipts :
                           /\ Req[call.req].proposal \in proposals
                           /\ OwnReceipt(call, x) \/ ReceiptOfAction(call, x)
                           => Reports(Reconciliation(call), x)
                      /\ LET found == Reconciliation(call)
                         IN  \/ found.verdict = "replay_reserved"
                             \/ found.verdict = "replay_denied" /\ found.op = call.op
                             => /\ Req[call.req].proposal \in proposals
                                /\ \E x \in receipts :
                                     OwnReceipt(call, x) \/ ReceiptOfAction(call, x)
    BY DEF ReconciliationReports
  <1> DEFINE existing == ExistingReceipts(call.op, call.req)
             found == Reconciliation(call)
             z == CHOOSE y \in existing : TRUE
  <1>1. ASSUME NEW x \in receipts, Req[call.req].proposal \in proposals,
               OwnReceipt(call, x) \/ ReceiptOfAction(call, x)
        PROVE  Reports(found, x)
    <2>1. existing = {x}
      <3>1. CASE OwnReceipt(call, x)
        BY <3>1 DEF OwnReceipt, ExistingReceipts, OneReceiptPerOperation
      <3>2. CASE ReceiptOfAction(call, x)
        <4>1. {y \in receipts : y.op = call.op} = {}
          BY <3>2 DEF ReceiptOfAction
        <4>2. ReservedFor(ActionOf(call.req)) = {x}
          BY <3>2 DEF ReceiptOfAction, ReservedFor, LedgerInv, OneReservationPerAction
        <4> QED BY <4>1, <4>2 DEF ExistingReceipts
      <3> QED BY <1>1, <3>1, <3>2
    <2>2. z = x
      BY <2>1
    <2>3. ~(x.op = call.op /\ x.req # call.req)
      BY <1>1 DEF OwnReceipt, ReceiptOfAction, Reserved
    <2>4. found = Plan(IF x.outcome = "resource_reserved" THEN "replay_reserved" ELSE "replay_denied",
                       x.op, x.fence, x.lease, AuthorityCurrent(x, now))
      BY <1>1, <2>1, <2>2, <2>3 DEF Reconciliation
    <2> QED BY <2>4 DEF Plan, Reports
  <1>2. ASSUME \/ found.verdict = "replay_reserved"
               \/ found.verdict = "replay_denied" /\ found.op = call.op
        PROVE  /\ Req[call.req].proposal \in proposals
               /\ \E x \in receipts : OwnReceipt(call, x) \/ ReceiptOfAction(call, x)
    <2>1. Refusal("throws").verdict = "throws"
      BY RefusalShape DEF Verdicts
    <2>2. /\ Req[call.req].proposal \in proposals
          /\ existing # {} /\ ~(z.op = call.op /\ z.req # call.req)
      BY <1>2, <2>1 DEF Reconciliation
    <2>3. z \in existing /\ z \in receipts
      BY <2>2 DEF ExistingReceipts, ReservedFor, Reserved
    <2>4. /\ found.op = z.op
          /\ found.verdict = "replay_reserved" => z.outcome = "resource_reserved"
      BY <1>2, <2>1, <2>2 DEF Reconciliation, Plan
    <2> HIDE DEF z, found
    <2>5. CASE z.op = call.op
      BY <2>2, <2>3, <2>5 DEF OwnReceipt
    <2>6. CASE z.op # call.op
      <3>1. {y \in receipts : y.op = call.op} = {}
        BY <2>3, <2>6 DEF ExistingReceipts
      <3>2. z \in Reserved
        BY <1>2, <2>3, <2>4, <2>6 DEF Reserved
      <3>3. ActionOf(z.req) = ActionOf(call.req)
        BY <2>3, <3>1 DEF ExistingReceipts, ReservedFor
      <3> QED BY <2>2, <2>3, <3>1, <3>2, <3>3 DEF ReceiptOfAction
    <2> QED BY <2>2, <2>5, <2>6
  <1> QED BY <1>1, <1>2

\* The inductive invariant of the receipts, and what follows from it.
ReceiptInv == TypeOK /\ LedgerInv /\ OneReceiptPerOperation /\ ReconciliationReports

\* It holds in every reachable state.
LEMMA ReceiptsSafe == Spec => []ReceiptInv
  <1>1. Init => OneReceiptPerOperation
    BY DEF Init, OneReceiptPerOperation
  <1>2. TypeOK /\ LedgerInv /\ OneReceiptPerOperation => ReceiptInv
    BY ReconciliationReportsReceipts DEF ReceiptInv
  <1> QED BY <1>1, <1>2, LedgerSafe, StepKeepsReceipts, PTL DEF Spec

\* A step never changes a report, except that an operation id which stored no
\* receipt is taken by another request.
LEMMA ReportStays ==
  ASSUME ReceiptInv, ReceiptInv', [Next]_vars, NEW call \in Calls, call.kind = "spend",
         \/ Reconciliation(call).verdict = "replay_reserved"
         \/ Reconciliation(call).verdict = "replay_denied" /\ Reconciliation(call).op = call.op
  PROVE  \/ SameReport(Reconciliation(call)', Reconciliation(call))
         \/ Reconciliation(call).op # call.op /\ OperationTaken(call)'
  <1>1. /\ Req[call.req].proposal \in proposals
        /\ \E x \in receipts : OwnReceipt(call, x) \/ ReceiptOfAction(call, x)
    BY DEF ReceiptInv, ReconciliationReports
  <1>2. PICK x \in receipts : OwnReceipt(call, x) \/ ReceiptOfAction(call, x)
    BY <1>1
  <1>3. Reports(Reconciliation(call), x)
    BY <1>1, <1>2 DEF ReceiptInv, ReconciliationReports
  <1>4. proposals \subseteq proposals' /\ receipts \subseteq receipts'
    BY ReceiptSteps DEF ReceiptInv
  <1>5. ASSUME OwnReceipt(call, x)' \/ ReceiptOfAction(call, x)'
        PROVE  SameReport(Reconciliation(call)', Reconciliation(call))
    <2>1. Reports(Reconciliation(call)', x)
      BY <1>1, <1>2, <1>4, <1>5 DEF ReceiptInv, ReconciliationReports, Reports
    <2> QED BY <1>3, <2>1 DEF Reports, SameReport
  <1>6. CASE OwnReceipt(call, x)
    BY <1>4, <1>5, <1>6 DEF OwnReceipt
  <1>7. CASE ReceiptOfAction(call, x) /\ \A y \in receipts' : y.op # call.op
    BY <1>4, <1>5, <1>7 DEF ReceiptOfAction, Reserved
  <1>8. ASSUME ReceiptOfAction(call, x), NEW y \in receipts', y.op = call.op
        PROVE  Reconciliation(call).op # call.op /\ OperationTaken(call)'
    <2>1. Reconciliation(call).op # call.op
      BY <1>2, <1>3, <1>8 DEF Reports, ReceiptOfAction
    <2>2. ExistingReceipts(y.op, y.req) = {}
      BY <1>8, ReceiptSteps DEF ReceiptInv, ReceiptOfAction
    <2>3. y.req # call.req
      BY <1>8, <2>2 DEF ExistingReceipts, ReservedFor, ReceiptOfAction
    <2> QED BY <1>8, <2>1, <2>3 DEF OperationTaken
  <1> QED BY <1>2, <1>6, <1>7, <1>8

\* What reconcileRequest reports of a reservation, or of the caller's own
\* operation, stays what it reports.
THEOREM FinalReconciliation == Spec => ReconciliationIsFinal
  <1>1. ReceiptInv /\ ReceiptInv' /\ [Next]_vars =>
          [ledgerVars' # ledgerVars =>
             \A call \in SpendCalls :
               LET before == Reconciliation(call)
                   after == Reconciliation(call)'
               IN  \/ before.verdict = "replay_reserved"
                   \/ before.verdict = "replay_denied" /\ before.op = call.op
                   => \/ SameReport(after, before)
                      \/ before.op # call.op /\ OperationTaken(call)']_vars
    BY ReportStays, CallsAssumption DEF SpendCalls
  <1> QED BY <1>1, ReceiptsSafe, PTL DEF Spec, ReconciliationIsFinal

\* What a landed spend reports is what reconcileRequest finds.
LEMMA LandingIsReconcilable ==
  ASSUME ReceiptInv, ReceiptInv', NEW call \in Calls, NEW t \in [1..5 -> Nat], call.kind = "spend",
         WriteSpend(call, Evaluate(call, t)),
         Evaluate(call, t).verdict \in {"reserved", "replay_reserved"}
  PROVE  LET found == Reconciliation(call)'
             plan == Evaluate(call, t)
         IN  /\ found.verdict = "replay_reserved"
             /\ found.op = plan.op /\ found.fence = plan.fence /\ found.lease = plan.lease
  <1> DEFINE plan == Evaluate(call, t)
             r == call.req
  <1>1. plan = SpendAuthority(call, t)
    BY DEF Evaluate
  <1>2. UNCHANGED proposals
    BY DEF WriteSpend
  <1>3. CASE plan.verdict = "reserved"
    <2>0. PICK new : new = ReceiptOf(call, plan)
      OBVIOUS
    <2>1. receipts' = receipts \cup {new}
      BY <1>3, <2>0 DEF WriteSpend
    <2>2. /\ new.op = call.op /\ new.req = r /\ new.fence = plan.fence
          /\ new.lease = plan.lease /\ new.outcome = "resource_reserved"
      BY <1>3, <2>0 DEF ReceiptOf
    <2>3. Req[r].proposal \in proposals'
      BY <1>2, <1>3, StoredPlan
    <2>4. plan.op = call.op
      <3>1. ReplayedSpend(call.op, r, t).verdict # "reserved"
        BY DEF ReplayedSpend, Plan, Refusal
      <3>2. /\ Refusal("denied_not_durable").verdict # "reserved"
            /\ Refusal("denied").verdict # "reserved"
            /\ Refusal("throws").verdict # "reserved"
        BY DEF Refusal, Plan
      <3>3. plan = AcquireResource(call.op, r, t)
        BY <1>1, <1>3, <3>1, <3>2 DEF SpendAuthority
      <3> QED BY <1>3, <3>2, <3>3 DEF AcquireResource, Plan, Refusal
    <2>5. OwnReceipt(call, new)'
      BY <2>1, <2>2 DEF OwnReceipt
    <2>6. Reports(Reconciliation(call)', new)
      BY <2>1, <2>3, <2>5 DEF ReceiptInv, ReconciliationReports, Reports
    <2> QED BY <2>2, <2>4, <2>6 DEF Reports
  <1>4. CASE plan.verdict = "replay_reserved"
    <2> DEFINE existing == ExistingReceipts(call.op, r)
               x == CHOOSE y \in existing : TRUE
    <2>1. UNCHANGED receipts
      BY <1>4 DEF WriteSpend
    <2>2. /\ Refusal("denied_not_durable").verdict # "replay_reserved"
          /\ Refusal("denied").verdict # "replay_reserved"
          /\ Refusal("throws").verdict # "replay_reserved"
      BY DEF Refusal, Plan
    <2>3. AcquireResource(call.op, r, t).verdict # "replay_reserved"
      BY <2>2 DEF AcquireResource, Plan, Refusal
    <2>4. /\ Req[r].proposal \in proposals /\ existing # {}
          /\ plan = ReplayedSpend(call.op, r, t)
      BY <1>1, <1>4, <2>2, <2>3 DEF SpendAuthority
    <2>5. /\ ~(x.op = call.op /\ x.req # r)
          /\ x.outcome = "resource_reserved"
          /\ plan.op = x.op /\ plan.fence = x.fence /\ plan.lease = x.lease
      BY <1>4, <2>2, <2>4 DEF ReplayedSpend, Plan
    <2>6. ExistingReceipts(call.op, r)' = existing
      BY <2>1 DEF ExistingReceipts, ReservedFor, Reserved
    <2> HIDE DEF plan
    <2>7. Reconciliation(call)' = Plan("replay_reserved", x.op, x.fence, x.lease,
                                       AuthorityCurrent(x, now)')
      BY <1>2, <2>4, <2>5, <2>6 DEF Reconciliation
    <2> QED BY <2>5, <2>7 DEF Plan, plan
  <1> QED BY <1>3, <1>4

\* A session that is landed after a step was landed before it, or lands by it.
LEMMA LandedSteps ==
  ASSUME TypeOK, [Next]_vars, NEW c \in Clients, session'[c].stage = "landed"
  PROVE  \/ session'[c] = session[c]
         \/ /\ session[c].stage \in {"dispatched", "orphaned"}
            /\ Serializable(session[c]) /\ Write(session[c].call, session[c].plan)
            /\ session'[c].call = session[c].call /\ session'[c].plan = session[c].plan
  <1> USE DEF TypeOK
  <1>1. CASE UNCHANGED session
    BY <1>1
  <1>2. ASSUME NEW d \in Clients, ClientStep(d)
        PROVE  \/ session'[c] = session[c]
               \/ /\ session[c].stage \in {"dispatched", "orphaned"}
                  /\ Serializable(session[c]) /\ Write(session[c].call, session[c].plan)
                  /\ session'[c].call = session[c].call /\ session'[c].plan = session[c].plan
    <2>1. CASE d # c
      BY <1>2, <2>1 DEF ClientStep, BeginCall, RetryCall, FailCall, DispatchCommit, LandCommit,
         DropCommit, LoseAcknowledgement, Acknowledge
    <2>2. CASE d = c /\ ~LandCommit(c)
      <3>1. CASE RetryCall(c)
        <4>1. session'[c] = [session[c] EXCEPT !.start = now] /\ session[c].stage = "open"
          BY <3>1 DEF RetryCall
        <4>2. session[c] \in [stage: {"open"}, call: Calls, start: Time]
          BY <4>1 DEF Sessions
        <4>3. session'[c].stage = "open"
          BY <4>1, <4>2
        <4> QED BY <4>3
      <3>2. CASE LoseAcknowledgement(c)
        <4>1. session'[c] = Idle \/
                (session'[c] = [session[c] EXCEPT !.stage = "orphaned"]
                   /\ session[c].stage = "dispatched")
          BY <3>2 DEF LoseAcknowledgement
        <4>2. session[c].stage = "dispatched" => session'[c].stage # "landed"
          <5>1. session[c].stage = "dispatched" =>
                  session[c] \in [stage: {"dispatched", "orphaned", "landed"}, call: Calls,
                                  start: Time, end: Time, plan: Plans]
            BY DEF Sessions
          <5> QED BY <4>1, <5>1 DEF Idle
        <4> QED BY <4>1, <4>2 DEF Idle
      <3> QED BY <1>2, <2>2, <3>1, <3>2 DEF ClientStep, BeginCall, FailCall, DispatchCommit,
            DropCommit, Acknowledge, Idle
    <2>3. CASE d = c /\ LandCommit(c)
      <3>1. /\ session[c].stage \in {"dispatched", "orphaned"}
            /\ Serializable(session[c]) /\ Write(session[c].call, session[c].plan)
            /\ session'[c] = Idle \/ session'[c] = [session[c] EXCEPT !.stage = "landed"]
        BY <2>3 DEF LandCommit
      <3>2. session[c] \in [stage: {"dispatched", "orphaned", "landed"}, call: Calls,
                            start: Time, end: Time, plan: Plans]
        BY <3>1 DEF Sessions
      <3>3. session'[c] # Idle
        BY DEF Idle
      <3> QED BY <3>1, <3>2, <3>3
    <2> QED BY <2>1, <2>2, <2>3
  <1> QED BY <1>1, <1>2 DEF Next, PrepareResource, RecordDviSelectionReceipt, EvidenceStep, Tick, vars

\* The report of plan is still what reconcileRequest finds for call.
Reconcilable(call, plan) ==
  LET found == Reconciliation(call)
  IN  \/ /\ found.verdict = "replay_reserved"
         /\ found.op = plan.op /\ found.fence = plan.fence /\ found.lease = plan.lease
      \/ plan.op # call.op /\ OperationTaken(call)

\* AcknowledgedIsReconcilable, of the call and the plan of a session.
LandedIsReconcilable ==
  \A c \in Clients, call \in Calls, plan \in Plans :
    /\ session[c].stage = "landed" /\ session[c].call = call /\ session[c].plan = plan
    /\ call.kind = "spend" /\ plan.verdict \in {"reserved", "replay_reserved"}
    => Reconcilable(call, plan)

\* A reserved or replayed spend that is about to be acknowledged is one that
\* reconcileRequest finds, whatever other callers do in between.
THEOREM AcknowledgedReconcilable == Spec => []AcknowledgedIsReconcilable
  <1>1. Init => LandedIsReconcilable
    BY DEF Init, LandedIsReconcilable, Idle
  <1>2. ReceiptInv /\ ReceiptInv' /\ LandedIsReconcilable /\ [Next]_vars => LandedIsReconcilable'
    <2> SUFFICES ASSUME ReceiptInv, ReceiptInv', LandedIsReconcilable, [Next]_vars,
                        NEW c \in Clients, NEW call \in Calls, NEW plan \in Plans,
                        session'[c].stage = "landed",
                        session'[c].call = call, session'[c].plan = plan,
                        call.kind = "spend", plan.verdict \in {"reserved", "replay_reserved"}
                 PROVE  Reconcilable(call, plan)'
      BY DEF LandedIsReconcilable
    <2>1. TypeOK
      BY DEF ReceiptInv
    <2>2. CASE session'[c] = session[c]
      <3>1. Reconcilable(call, plan)
        BY <2>2 DEF LandedIsReconcilable
      <3>2. OperationTaken(call) => OperationTaken(call)'
        BY <2>1, ReceiptSteps DEF OperationTaken
      <3>3. Reconciliation(call).verdict = "replay_reserved" =>
              \/ SameReport(Reconciliation(call)', Reconciliation(call))
              \/ Reconciliation(call).op # call.op /\ OperationTaken(call)'
        BY ReportStays
      <3> QED BY <3>1, <3>2, <3>3 DEF Reconcilable, SameReport
    <2>3. CASE /\ session[c].stage \in {"dispatched", "orphaned"}
               /\ Serializable(session[c]) /\ Write(session[c].call, session[c].plan)
               /\ session'[c].call = session[c].call /\ session'[c].plan = session[c].plan
      <3>1. /\ call = session[c].call /\ plan = session[c].plan
            /\ session[c].start \in Time /\ session[c].end \in Time
        BY <2>1, <2>3, SessionShape
      <3>2. PICK t \in ReadingsBetween[<<session[c].start, session[c].end>>] :
              Evaluate(call, t) = plan
        BY <2>3, <3>1 DEF Serializable
      <3>3. t \in [1..5 -> Nat]
        BY <3>1, ReadingShape
      <3>4. WriteSpend(call, plan)
        BY <2>3, <3>1 DEF Write
      <3> QED BY <3>2, <3>3, <3>4, LandingIsReconcilable DEF Reconcilable
    <2> QED BY <2>1, <2>2, <2>3, LandedSteps
  <1>3. TypeOK /\ LandedIsReconcilable => AcknowledgedIsReconcilable
    BY SessionShape DEF LandedIsReconcilable, AcknowledgedIsReconcilable, Reconcilable
  <1> QED BY <1>1, <1>2, <1>3, ReceiptsSafe, TypeCorrect, PTL DEF Spec

-----------------------------------------------------------------------------
(* Evidence. *)

\* The primary keys of the evidence tables, and what a verified submission
\* leaves: its row, under a key of its issuer that covers the observation.
EvidenceInv ==
  /\ EvidenceTypeOK
  /\ \A x, y \in rows : Env[x.env].id = Env[y.env].id => x = y
  /\ \A v, w \in verifications : Env[v.env].id = Env[w.env].id => v = w
  /\ \A v \in verifications : v.outcome = "verified" =>
       /\ [env |-> v.env, provenance |-> "verified"] \in rows
       /\ Key[Env[v.env].key].issuer = Env[v.env].issuer
       /\ ObservedUnderKey(Env[v.env])

\* Every call of the evidence store keeps them.
LEMMA EvidenceKeepsInv ==
  EvidenceInv /\ [EvidenceNext]_evidenceVars => EvidenceInv'
  <1> SUFFICES ASSUME EvidenceInv, [EvidenceNext]_evidenceVars PROVE EvidenceInv'
    OBVIOUS
  <1>1. EvidenceTypeOK'
    BY EvidenceShape DEF EvidenceInv
  <1>2. CASE UNCHANGED <<verifications, rows>>
    BY <1>1, <1>2 DEF EvidenceInv, ObservedUnderKey
  <1>3. ASSUME NEW s \in Envelopes, AppendSignedEvidence(s) PROVE EvidenceInv'
    <2>1. VerificationsOf(Env[s].id) = {}
      BY <1>3 DEF AppendSignedEvidence
    <2>2. CASE ~Accepts(Env[s])
      <3> DEFINE v == [env |-> s, outcome |-> "rejected"]
      <3>1. verifications' = verifications \cup {v} /\ UNCHANGED rows
        BY <1>3, <2>2 DEF AppendSignedEvidence
      <3>2. v.env = s /\ v.outcome = "rejected"
        OBVIOUS
      <3> HIDE DEF v
      <3> QED BY <1>1, <2>1, <3>1, <3>2 DEF EvidenceInv, VerificationsOf, ObservedUnderKey
    <2>3. CASE Accepts(Env[s])
      <3> DEFINE v == [env |-> s, outcome |-> "verified"]
                 x == [env |-> s, provenance |-> "verified"]
      <3>1. /\ RowsOf(Env[s].id) = {}
            /\ verifications' = verifications \cup {v} /\ rows' = rows \cup {x}
        BY <1>3, <2>3 DEF AppendSignedEvidence
      <3>2. v.env = s /\ v.outcome = "verified" /\ x.env = s /\ [env |-> v.env, provenance |-> "verified"] = x
        OBVIOUS
      <3>3. Key[Env[s].key].issuer = Env[s].issuer /\ ObservedUnderKey(Env[s])
        BY <2>3 DEF Accepts
      <3> HIDE DEF v, x
      <3>4. \A y, z \in rows' : Env[y.env].id = Env[z.env].id => y = z
        BY <3>1, <3>2 DEF EvidenceInv, RowsOf
      <3>5. \A y, z \in verifications' : Env[y.env].id = Env[z.env].id => y = z
        BY <2>1, <3>1, <3>2 DEF EvidenceInv, VerificationsOf
      <3>6. \A w \in verifications' : w.outcome = "verified" =>
              /\ [env |-> w.env, provenance |-> "verified"] \in rows'
              /\ Key[Env[w.env].key].issuer = Env[w.env].issuer
              /\ ObservedUnderKey(Env[w.env])
        BY <3>1, <3>2, <3>3 DEF EvidenceInv
      <3> QED BY <1>1, <3>4, <3>5, <3>6 DEF EvidenceInv, ObservedUnderKey
    <2> QED BY <2>2, <2>3
  <1>4. ASSUME NEW s \in Envelopes, NEW p \in {"verified", "unverified"}, AppendEvidence(s, p)
        PROVE  EvidenceInv'
    <2> DEFINE x == [env |-> s, provenance |-> p]
    <2>1. /\ RowsOf(Env[s].id) = {} /\ rows' = rows \cup {x}
          /\ UNCHANGED <<keyStatus, verifications>>
      BY <1>4 DEF AppendEvidence
    <2>2. x.env = s
      OBVIOUS
    <2> HIDE DEF x
    <2> QED BY <1>1, <2>1, <2>2 DEF EvidenceInv, RowsOf, ObservedUnderKey
  <1> QED BY <1>2, <1>3, <1>4 DEF EvidenceNext, RegisterVerificationKey, RevokeVerificationKey,
        evidenceVars

\* Beside the ledger the evidence store behaves as it does alone.
LEMMA EvidenceAlone == TypeOK /\ [Next]_vars => [EvidenceNext]_evidenceVars
  <1> SUFFICES ASSUME TypeOK, [Next]_vars PROVE [EvidenceNext]_evidenceVars
    OBVIOUS
  <1>1. ASSUME NEW c \in Clients, ClientStep(c) PROVE UNCHANGED evidenceVars
    BY <1>1, ClientStepShape
  <1> QED BY <1>1 DEF Next, PrepareResource, RecordDviSelectionReceipt, EvidenceStep, Tick, vars

\* The invariant of the evidence holds beside any callers.
LEMMA EvidenceSafe == Spec => []EvidenceInv
  <1>1. Init => EvidenceInv
    BY DEF Init, EvidenceInit, EvidenceInv, EvidenceTypeOK
  <1> QED BY <1>1, EvidenceKeepsInv, EvidenceAlone, TypeCorrect, PTL DEF Spec

\* The audit's shorter expression and that of spendAuthority agree on every
\* row, agency and instant of every state the store can reach.
THEOREM AuditAgreesAlways == Spec => []AuditAgreesWithSpend
  <1>1. EvidenceInv => AuditAgreesWithSpend
    <2> SUFFICES ASSUME EvidenceInv, NEW x \in rows, NEW agency \in Agencies, NEW t \in Instants
                 PROVE  Admissible(x, agency, t) <=> AuditAdmissible(x, agency, t)
      BY DEF AuditAgreesWithSpend
    <2>1. Admissible(x, agency, t) => AuditAdmissible(x, agency, t)
      BY DEF Admissible, CurrentlyVerified, AuditAdmissible, VerificationsOf
    <2>2. ASSUME AuditAdmissible(x, agency, t) PROVE Admissible(x, agency, t)
      <3>1. PICK v \in verifications : Env[v.env].id = Env[x.env].id /\ v.outcome = "verified"
        BY <2>2 DEF AuditAdmissible, VerificationsOf
      <3>2. x = [env |-> v.env, provenance |-> "verified"]
        <4> DEFINE y == [env |-> v.env, provenance |-> "verified"]
        <4>1. y \in rows /\ y.env = v.env
          BY <3>1 DEF EvidenceInv
        <4> HIDE DEF y
        <4>2. x = y
          BY <3>1, <4>1 DEF EvidenceInv
        <4> QED BY <4>2 DEF y
      <3>3. x.env = v.env /\ x.provenance = "verified"
        BY <3>2
      <3> QED BY <2>2, <3>1, <3>3 DEF AuditAdmissible, Admissible, CurrentlyVerified, EvidenceInv
    <2> QED BY <2>1, <2>2
  <1> QED BY <1>1, EvidenceSafe, PTL

\* Of two rows that contradict each other spendAuthority admits neither or
\* one, whatever their scopes and windows.
THEOREM ContradictionsExclude == Spec => []ContradictionsNeverBothAdmissible
  <1>1. ContradictionsNeverBothAdmissible
    BY DEF ContradictionsNeverBothAdmissible, Admissible, Conflicted, Contradicts
  <1> QED BY <1>1, PTL

\* A revoked key stays revoked and a stored verdict stays the only one of its
\* evidence id, so that what they exclude is never admitted later.
THEOREM JudgementsStick == Spec => VerdictsStick
  <1>1. EvidenceInv /\ EvidenceInv' /\ [EvidenceNext]_evidenceVars => RevokedStaysOut /\ RejectedStaysOut
    <2> SUFFICES ASSUME EvidenceInv, EvidenceInv', [EvidenceNext]_evidenceVars
                 PROVE  RevokedStaysOut /\ RejectedStaysOut
      OBVIOUS
    <2>1. ASSUME NEW k \in Keys, keyStatus[k] = "revoked" PROVE keyStatus'[k] = "revoked"
      BY <2>1 DEF EvidenceInv, EvidenceTypeOK, EvidenceNext, RegisterVerificationKey,
         RevokeVerificationKey, AppendSignedEvidence, AppendEvidence, evidenceVars
    <2>2. \A x \in rows : Env[x.env].key \in Keys
      BY EvidenceAssumption DEF EvidenceInv, EvidenceTypeOK, Row, ShapeOfEnvelope
    <2>3. RevokedStaysOut
      BY <2>1, <2>2 DEF RevokedStaysOut, Admissible, CurrentlyVerified
    <2>4. verifications \subseteq verifications'
      BY DEF EvidenceNext, RegisterVerificationKey, RevokeVerificationKey, AppendSignedEvidence,
         AppendEvidence, evidenceVars
    <2>5. RejectedStaysOut
      BY <2>4 DEF RejectedStaysOut, Admissible, CurrentlyVerified, EvidenceInv
    <2> QED BY <2>3, <2>5
  <1> QED BY <1>1, EvidenceSafe, EvidenceAlone, TypeCorrect, PTL DEF Spec, VerdictsStick
=============================================================================
