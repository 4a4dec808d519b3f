------------------------- MODULE AuthorityFunctions -------------------------
(***************************************************************************)
(* The authority functions of primary-security.js: authorization of a       *)
(* selection, the one-shot spend, the protected effect, and the source a    *)
(* recovery may start from.  They are the database's own version of the     *)
(* decisions AuthorityStore takes statement by statement.                   *)
(*                                                                          *)
(* A call is one step, but it reads the clock several times: evidence is    *)
(* judged at statement_timestamp(), the start of the call; everything else  *)
(* at clock_timestamp(), read again after each row lock was waited for.  So *)
(* a call takes time, and the clock stands at its last reading when it ends.*)
(***************************************************************************)
EXTENDS VectorRetrieval

CONSTANTS
  Actions,          \* logical actions: [name, resource]
  Ops,              \* operation ids
  Requests,         \* [nonce, action, retrieval, run, lease, agent]
  RunOf,            \* RunOf[q]: active_run_id of resource q
  FreshLease,       \* the 30 minute lease
  MaxLease,
  MaxFence          \* 2^63 - 1 in the code

VARIABLES
  epochs,           \* logical actions with a row at epoch 1
  proposals,        \* g1_dvi_proposal_receipts
  receipts,         \* g1_authority_receipts
  resource,         \* g1_resources
  effects,          \* g1_protected_effects
  sources           \* snapshots g1_recovery_source_snapshot_v1 gave out

authorityVars == <<epochs, proposals, receipts, resource, effects, sources>>
functionVars == <<vectorVars, authorityVars>>

ASSUME FunctionAssumption ==
  /\ MaxFence \in Nat /\ MaxLease \in Nat /\ Nil \notin Ops
  /\ \A r \in Requests : r.action \in Actions /\ r.retrieval \in Retrievals
                           /\ r.lease \in Nat \ {0}

Proposal == [action: Actions, selection: Selection]

Outcomes == {"authorization_denied", "resource_held_denied", "resource_reserved"}

\* `judged' is the statement time the evidence was held against, `from' the
\* instant the lease starts at.  The outbox row is written with every
\* reservation and repeats its columns, so it is not kept apart.
Receipt ==
  [op: Ops, request: Requests, outcome: Outcomes, fence: Nat, judged: Time,
   from: Time, lease: Nat]

Held == [fence: Nat, holder: Ops \cup {Nil}, lease: Nat]

FunctionTypeOK ==
  /\ VectorTypeOK
  /\ epochs \subseteq Actions
  /\ proposals \subseteq Proposal
  /\ receipts \subseteq Receipt
  /\ resource \in [DOMAIN RunOf -> Held]
  /\ effects \subseteq [op: Ops, fence: Nat, at: Time]
  /\ sources \subseteq [op: Ops, at: Time]

FunctionInit ==
  /\ epochs = {} /\ proposals = {} /\ receipts = {}
  /\ resource = [q \in DOMAIN RunOf |-> [fence |-> 0, holder |-> Nil, lease |-> 0]]
  /\ effects = {} /\ sources = {}

\* The call ends at t and leaves the retrieval side alone.
EndsAt(t) ==
  /\ dbNow' = t
  /\ UNCHANGED <<tableVars, landing, client, mishaps>>

Reserved == {x \in receipts : x.outcome = "resource_reserved"}

SpentBy(a) == {x \in Reserved : x.request.action = a}

-----------------------------------------------------------------------------
(* g1_authorize_dvi_proposal_v1 *)

\* The selection the caller describes, in force at t.
Selected(id, row, t) ==
  {s \in selections : s.id = id /\ s.selected = row /\ s.admitted <= t /\ t < s.expires}

\* Judged at the start of the call; the digest of the row is part of the row.
StillAdmissible(s, t) == s.selected \in evidence /\ Admissible(s.selected, t)

\* First authorization of the action: epoch 0 becomes 1, once and for all.
\* t is read after the row of the epoch is locked.
Authorize(a, id, row, t) ==
  \E s \in Selected(id, row, dbNow) :
    /\ StillAdmissible(s, dbNow)
    /\ t < s.expires
    /\ SpentBy(a) = {}
    /\ a \notin epochs
    /\ epochs' = epochs \cup {a}
    /\ proposals' = proposals \cup {[action |-> a, selection |-> s]}
    /\ EndsAt(t)
    /\ UNCHANGED <<receipts, resource, effects, sources>>

\* A replay, or a denial: nothing changes but the time, and the row of the
\* epoch, if there was none, is at 0.
AuthorizeAgain(a, id, row, t) ==
  /\ \/ Selected(id, row, dbNow) = {}
     \/ \E s \in Selected(id, row, dbNow) :
          ~StillAdmissible(s, dbNow) \/ t >= s.expires \/ SpentBy(a) # {} \/ a \in epochs
  /\ EndsAt(t)
  /\ UNCHANGED authorityVars

-----------------------------------------------------------------------------
(* g1_spend_authority_v1 *)

\* The proposal row every column of the request agrees with.
ProposalOf(r) ==
  {p \in proposals : p.action = r.action /\ p.selection.id = r.retrieval}

LeaseInPolicy(r, p) ==
  \/ r.lease <= MaxLease
  \/ /\ r.lease = FreshLease
     /\ p.selection.expires - p.selection.admitted = FreshTtl

\* The receipts that answer a call in place of a decision, in the order they
\* are looked for: of the operation, of the logical action, of the request.
\* One of another request under the same operation id raises an exception.
Answering(op, r) ==
  LET byOp == {x \in receipts : x.op = op}
      byRequest == {x \in receipts : x.request = r}
  IN  IF byOp # {} THEN {x \in byOp : x.request = r}
      ELSE IF SpentBy(r.action) # {} THEN SpentBy(r.action)
      ELSE byRequest

\* Fault: the receipt of another operation on the same action is not seen.
UnansweredByAction(op, r) ==
  \A x \in receipts : x.op # op /\ x.request # r

Unanswered(op, r) ==
  \A x \in receipts : x.op # op /\ x.request # r /\ x \notin SpentBy(r.action)

ReceiptFor(op, r, outcome, fence, from, lease) ==
  [op |-> op, request |-> r, outcome |-> outcome, fence |-> fence,
   judged |-> dbNow, from |-> from, lease |-> lease]

\* A decision of this call: the proposal was found, the epoch row was locked,
\* no receipt answers, the epoch is current and the proposal has time left at t.
Decides(op, r, p, t) ==
  /\ p \in ProposalOf(r)
  /\ LeaseInPolicy(r, p)
  /\ Unanswered(op, r)
  /\ r.action \in epochs
  /\ t < p.selection.expires

Deny(op, r, outcome, fence, t) ==
  /\ receipts' = receipts \cup {ReceiptFor(op, r, outcome, fence, t, 0)}
  /\ EndsAt(t)
  /\ UNCHANGED <<epochs, proposals, resource, effects, sources>>

\* A durable denial: the evidence is not admissible any more, the resource is
\* unknown, its run is another one, or the proposal ran out while the call
\* waited for the resource row until u.
SpendDenied(op, r, t, u) ==
  \E p \in ProposalOf(r) :
    /\ Decides(op, r, p, t)
    /\ \/ ~StillAdmissible(p.selection, dbNow) /\ u = t
       \/ r.action.resource \notin DOMAIN RunOf /\ u = t
       \/ r.action.resource \in DOMAIN RunOf /\ RunOf[r.action.resource] # r.run
       \/ u >= p.selection.expires
    /\ Deny(op, r, "authorization_denied", 0, u)

Unheld(q, t) == resource[q].holder = Nil \/ resource[q].lease <= t

Acquirable(op, r, p, t, u) ==
  /\ Decides(op, r, p, t)
  /\ StillAdmissible(p.selection, dbNow)
  /\ r.action.resource \in DOMAIN RunOf
  /\ RunOf[r.action.resource] = r.run
  /\ u < p.selection.expires

SpendHeld(op, r, t, u) ==
  \E p \in ProposalOf(r) :
    /\ Acquirable(op, r, p, t, u)
    /\ ~Unheld(r.action.resource, u)
    /\ Deny(op, r, "resource_held_denied", resource[r.action.resource].fence, u)

\* The next fence, the lease from the reading after the resource row was
\* locked, the receipt and the outbox row.  At the last fence the UPDATE
\* matches nothing and the call raises.
SpendReserved(op, r, t, u) ==
  LET q == r.action.resource
  IN  \E p \in ProposalOf(r) :
        /\ Acquirable(op, r, p, t, u)
        /\ Unheld(q, u)
        /\ resource[q].fence < MaxFence
        /\ resource' = [resource EXCEPT ![q] =
                          [fence |-> @.fence + 1, holder |-> op, lease |-> u + r.lease]]
        /\ receipts' = receipts \cup
             {ReceiptFor(op, r, "resource_reserved", resource[q].fence + 1, u, u + r.lease)}
        /\ EndsAt(u)
        /\ UNCHANGED <<epochs, proposals, effects, sources>>

\* No proposal, a superseded epoch or a proposal that ran out before the
\* receipt is written leave no trace; nor does a replay.
SpendAnswered(op, r, t) ==
  /\ \/ ProposalOf(r) = {}
     \/ Answering(op, r) # {}
     \/ \E p \in ProposalOf(r) : Unanswered(op, r) /\ t >= p.selection.expires
  /\ EndsAt(t)
  /\ UNCHANGED authorityVars

Spend(op, r, t, u) ==
  \/ SpendDenied(op, r, t, u) \/ SpendHeld(op, r, t, u) \/ SpendReserved(op, r, t, u)
  \/ u = t /\ SpendAnswered(op, r, t)

\* The wrapper for the race on AWS: two agents, by name.
SpendRace(op, r, t, u) ==
  /\ r.agent \in {"aws-authority-alpha", "aws-authority-bravo"}
  /\ Spend(op, r, t, u)

-----------------------------------------------------------------------------
(* g1_record_protected_effect_v1 *)

\* Fault: the reservation is looked up, but its lease is not held against t.
CurrentByHolder(x, t) ==
  /\ x \in Reserved
  /\ resource[x.request.action.resource] = [fence |-> x.fence, holder |-> x.op, lease |-> x.lease]
  /\ \E p \in ProposalOf(x.request) : t < p.selection.expires

\* The receipt holds its resource and neither lease nor proposal has run out;
\* what g1_authority_receipt_current_v2 answers as well.
Current(x, t) ==
  /\ x \in Reserved
  /\ resource[x.request.action.resource] = [fence |-> x.fence, holder |-> x.op, lease |-> x.lease]
  /\ t < x.lease
  /\ \E p \in ProposalOf(x.request) : t < p.selection.expires

\* The row is inserted at the first reading and stands if the authority is
\* current at the second one too; otherwise it is deleted again.
RecordProtectedEffect(x, t) ==
  /\ Current(x, dbNow)
  /\ \A e \in effects : e.op # x.op
  /\ effects' = IF Current(x, t) THEN effects \cup {[op |-> x.op, fence |-> x.fence, at |-> t]}
                ELSE effects
  /\ EndsAt(t)
  /\ UNCHANGED <<epochs, proposals, receipts, resource, sources>>

-----------------------------------------------------------------------------
(* g1_recovery_source_snapshot_v1 *)

\* One reservation that is current, whose evidence is in force and not
\* contradicted at t: contradictions are collected first and their windows
\* held against the one late reading of the clock.  (That the receipt is less
\* than 50 minutes old follows from its lease of at most 30.)
SourceSnapshot(x, t) ==
  /\ Current(x, t)
  /\ \E p \in ProposalOf(x.request) :
       p.selection.selected \in evidence /\ Admissible(p.selection.selected, t)
  /\ sources' = sources \cup {[op |-> x.op, at |-> t]}
  /\ EndsAt(t)
  /\ UNCHANGED <<epochs, proposals, receipts, resource, effects>>

FunctionStep ==
  \E t \in dbNow..MaxClock :
    \/ \E a \in Actions, id \in Retrievals, row \in Rows :
         Authorize(a, id, row, t) \/ AuthorizeAgain(a, id, row, t)
    \/ \E op \in Ops, r \in Requests, u \in t..MaxClock :
         Spend(op, r, t, u) \/ SpendRace(op, r, t, u)
    \/ \E x \in receipts : RecordProtectedEffect(x, t) \/ SourceSnapshot(x, t)

FunctionNext ==
  \/ VectorNext /\ UNCHANGED authorityVars
  \/ FunctionStep

FunctionSpec == VectorInit /\ FunctionInit /\ [][FunctionNext]_functionVars

-----------------------------------------------------------------------------
(* Properties. *)

\* Whatever is replayed, raced or waited for: an action is reserved once, on a
\* proposal that was authorized from a selection; the reservations of a
\* resource carry consecutive fences and leases that follow each other; an
\* effect was recorded within the lease and the proposal of the reservation
\* that then held the resource, once.
SpendIsBacked ==
  /\ \A x \in Reserved :
       /\ SpentBy(x.request.action) = {x}
       /\ \E p \in ProposalOf(x.request) :
            /\ p.selection \in selections
            /\ x.judged < p.selection.expires /\ x.from < p.selection.expires
       /\ \A y \in Reserved \ {x} : y.request.action.resource = x.request.action.resource =>
            IF x.fence < y.fence THEN x.lease <= y.from ELSE y.fence < x.fence
       /\ Cardinality({y \in Reserved : y.request.action.resource = x.request.action.resource})
            = resource[x.request.action.resource].fence
  /\ \A e \in effects : \E x \in Reserved :
       /\ e.op = x.op /\ e.fence = x.fence /\ x.from <= e.at /\ e.at < x.lease
       /\ \A y \in Reserved : y.request.action.resource = x.request.action.resource
                                /\ y.fence > x.fence => e.at <= y.from
       /\ \A d \in effects : d.op = e.op => d = e

\* A recovery starts from a reservation that held its resource, within the
\* validity of its lease, its proposal and its evidence, at the instant the
\* snapshot was given out, however long the function had waited by then.
SourcesWereCurrent ==
  \A s \in sources : \E x \in Reserved :
    /\ x.op = s.op /\ x.from <= s.at /\ s.at < x.lease
    /\ \E p \in ProposalOf(x.request) :
         s.at < p.selection.expires /\ s.at < p.selection.selected.until
    /\ \A y \in Reserved : y.request.action.resource = x.request.action.resource
                             /\ y.fence > x.fence => s.at <= y.from
=============================================================================
