-------------------------- MODULE ProofToActMemory --------------------------
(***************************************************************************)
(* ProofToActMemory of src/protocol.js, the store of the local drill: one   *)
(* process, synchronous methods, so each method is one atomic step.  A      *)
(* record is judged against its contradictions once, when it is ingested;   *)
(* its validity is judged again at every use.                               *)
(***************************************************************************)
EXTENDS Integers, Sequences, FiniteSets

CONSTANTS
  Records,          \* evidence ids
  Rec,              \* Rec[e]: what is ingested under id e
  Incidents, Agencies, Agents, Resources,
  LeaseKeys,
  LeaseKey,         \* LeaseKey[<<i, q>>]: the string `${incident}:${resource}`
  Ops,              \* operation ids
  Requests, Req,    \* Req[r]: the parameters of a reservation
  EvidenceSets,     \* lastEvidenceIds that agents checkpoint
  MaxTime,          \* bound on the clock
  MaxCheckpoints,   \* bound on the number of checkpoints
  NoOp

VARIABLES
  now, available,
  status,           \* status[e]: the stored status field, "absent" if no record
  conflicted,       \* the records whose conflicted flag is set
  fences, leases, receipts,
  checkpoints

memVars == <<now, available, status, conflicted, fences, leases, receipts,
             checkpoints>>

ShapeOfRecord ==
  [incident: Incidents, claim: STRING, value: STRING,
   scopes: SUBSET (Agencies \cup {"*"}), from: Nat, until: Nat,
   signed: BOOLEAN]

ShapeOfReservation ==
  [incident: Incidents, resource: Resources, agent: Agents, agency: Agencies,
   evidence: Seq(Records), leaseMs: Nat \ {0}]

ASSUME MemoryAssumption ==
  /\ Rec \in [Records -> ShapeOfRecord]
  /\ \A e \in Records : Rec[e].from < Rec[e].until /\ Rec[e].scopes # {}
  /\ LeaseKey \in [Incidents \X Resources -> LeaseKeys]
  /\ Req \in [Requests -> ShapeOfReservation]
  /\ \A r \in Requests : Req[r].evidence # << >>
  /\ EvidenceSets \subseteq SUBSET Records
  /\ MaxTime \in Nat /\ MaxCheckpoints \in Nat
  /\ NoOp \notin Ops

\* The lease key is a concatenation, so two pairs may share one.
KeyOf(r) == LeaseKey[<<Req[r].incident, Req[r].resource>>]

Statuses == {"admitted", "conflicted", "invalid_provenance", "not_yet_valid",
             "expired"}

NoReceipt == [outcome |-> "none"]

Receipts ==
  [outcome: {"none"}]
    \cup [outcome: {"authorization_denied", "resource_held_denied",
                    "resource_reserved"},
          req: Requests, fence: Nat, at: Nat]

NoLease == [op |-> NoOp, fence |-> 0, until |-> 0]

MemTypeOK ==
  /\ now \in 0..MaxTime
  /\ available \in BOOLEAN
  /\ status \in [Records -> Statuses \cup {"absent"}]
  /\ conflicted \subseteq Records
  /\ fences \in [LeaseKeys -> Nat]
  /\ leases \in [LeaseKeys -> [op: Ops \cup {NoOp}, fence: Nat, until: Nat]]
  /\ receipts \in [Ops -> Receipts]
  /\ checkpoints \in Seq([incident: Incidents, agent: Agents,
                          evidence: SUBSET Records, op: Ops \cup {NoOp},
                          summary: {"none", "authorization_denied",
                                    "resource_held_denied",
                                    "resource_reserved"}])

MemInit ==
  /\ now = 0
  /\ available = TRUE
  /\ status = [e \in Records |-> "absent"]
  /\ conflicted = {}
  /\ fences = [k \in LeaseKeys |-> 0]
  /\ leases = [k \in LeaseKeys |-> NoLease]
  /\ receipts = [op \in Ops |-> NoReceipt]
  /\ checkpoints = << >>

Ingested == {e \in Records : status[e] # "absent"}

-----------------------------------------------------------------------------
(* Evidence. *)

\* What #statusAt says of a record before its conflicted flag is looked at.
ValidityAt(e, at) ==
  IF ~Rec[e].signed THEN "invalid_provenance"
  ELSE IF at < Rec[e].from THEN "not_yet_valid"
  ELSE IF at >= Rec[e].until THEN "expired"
  ELSE "admitted"

\* #statusAt
StatusAt(e, at) ==
  IF ValidityAt(e, at) = "admitted" /\ e \in conflicted THEN "conflicted"
  ELSE ValidityAt(e, at)

\* Fault: only the scopes that both records name are compared.
OverlappingByName(e, f) == Rec[e].scopes \cap Rec[f].scopes # {}

Overlapping(e, f) ==
  "*" \in Rec[e].scopes \cup Rec[f].scopes
    \/ Rec[e].scopes \cap Rec[f].scopes # {}

Contradict(e, f) ==
  /\ Rec[e].incident = Rec[f].incident
  /\ Rec[e].claim = Rec[f].claim
  /\ Rec[e].value # Rec[f].value

\* The stored records that ingestEvidence finds in conflict with e.
Opponents(e) ==
  {f \in Ingested : /\ Contradict(e, f)
                    /\ Overlapping(e, f)
                    /\ StatusAt(f, now) \in {"admitted", "conflicted"}}

ArrivalStatus(e) == ValidityAt(e, now)

\* A record that is not admitted when it arrives is stored unexamined.
IngestEvidence(e) ==
  /\ available
  /\ status[e] = "absent"
  /\ LET arrival == ArrivalStatus(e)
         met == IF arrival = "admitted" THEN Opponents(e) ELSE {}
         marked == IF met = {} THEN {} ELSE met \cup {e}
     IN  /\ conflicted' = conflicted \cup marked
         /\ status' = [f \in Records |->
                         IF f \in marked THEN "conflicted"
                         ELSE IF f = e THEN arrival ELSE status[f]]
  /\ UNCHANGED <<now, available, fences, leases, receipts, checkpoints>>

InScope(e, agency) == Rec[e].scopes \cap {agency, "*"} # {}

\* The filter of retrieveEvidence, applied before anything is ranked.
Candidates(incident, agency, at) ==
  {e \in Ingested : /\ Rec[e].incident = incident
                    /\ StatusAt(e, at) = "admitted"
                    /\ InScope(e, agency)}

\* evaluateDecision on one evidence id.
VerdictOn(incident, agency, e, at) ==
  IF e \notin Ingested \/ Rec[e].incident # incident THEN "missing_evidence"
  ELSE IF StatusAt(e, at) # "admitted" THEN StatusAt(e, at)
  ELSE IF ~InScope(e, agency) THEN "out_of_scope"
  ELSE "evidence_admissible"

\* evaluateDecision: the first id that fails decides.
EvaluateDecision(incident, agency, ids, at) ==
  LET failing == {k \in DOMAIN ids :
        VerdictOn(incident, agency, ids[k], at) # "evidence_admissible"}
      first == CHOOSE k \in failing : \A m \in failing : k <= m
  IN  IF ids = << >> THEN "no_evidence"
      ELSE IF failing = {} THEN "evidence_admissible"
      ELSE VerdictOn(incident, agency, ids[first], at)

-----------------------------------------------------------------------------
(* Reservations. *)

Receipt(r, outcome, fence) ==
  [outcome |-> outcome, req |-> r, fence |-> fence, at |-> now]

Allowed(r) ==
  EvaluateDecision(Req[r].incident, Req[r].agency, Req[r].evidence, now)
    = "evidence_admissible"

\* Fault: a lease is given up one instant before it ends.
HeldTooShort(k) == leases[k].op # NoOp /\ leases[k].until > now + 1

Held(k) == leases[k].op # NoOp /\ leases[k].until > now

\* Fault: the operation id is not looked up first.
ReserveResourceAnew(op, r) ==
  LET k == KeyOf(r)
  IN  /\ available
      /\ IF Allowed(r) /\ ~Held(k)
         THEN /\ fences' = [fences EXCEPT ![k] = @ + 1]
              /\ leases' = [leases EXCEPT ![k] =
                   [op |-> op, fence |-> fences[k] + 1,
                    until |-> now + Req[r].leaseMs]]
              /\ receipts' = [receipts EXCEPT ![op] =
                   Receipt(r, "resource_reserved", fences[k] + 1)]
         ELSE /\ receipts' = [receipts EXCEPT ![op] =
                   Receipt(r, "authorization_denied", 0)]
              /\ UNCHANGED <<fences, leases>>
      /\ UNCHANGED <<now, available, status, conflicted, checkpoints>>

\* An operation id that has a receipt is a replay or a mismatch and changes
\* nothing; every other call leaves a receipt, denials included.
ReserveResource(op, r) ==
  LET k == KeyOf(r)
  IN  /\ available
      /\ receipts[op] = NoReceipt
      /\ \/ /\ ~Allowed(r)
            /\ receipts' = [receipts EXCEPT ![op] =
                              Receipt(r, "authorization_denied", 0)]
            /\ UNCHANGED <<fences, leases>>
         \/ /\ Allowed(r) /\ Held(k)
            /\ receipts' = [receipts EXCEPT ![op] =
                 Receipt(r, "resource_held_denied", leases[k].fence)]
            /\ UNCHANGED <<fences, leases>>
         \/ /\ Allowed(r) /\ ~Held(k)
            /\ fences' = [fences EXCEPT ![k] = @ + 1]
            /\ leases' = [leases EXCEPT ![k] =
                 [op |-> op, fence |-> fences[k] + 1,
                  until |-> now + Req[r].leaseMs]]
            /\ receipts' = [receipts EXCEPT ![op] =
                 Receipt(r, "resource_reserved", fences[k] + 1)]
      /\ UNCHANGED <<now, available, status, conflicted, checkpoints>>

-----------------------------------------------------------------------------
(* Checkpoints and recovery. *)

OwnReceipts(incident, agent) ==
  {op \in Ops : /\ receipts[op] # NoReceipt
                /\ Req[receipts[op].req].incident = incident
                /\ Req[receipts[op].req].agent = agent}

\* The ids of a receipt, sorted, are those of the checkpoint: a repeated id in
\* the request never matches.
SameEvidence(ids, evidence) ==
  /\ {ids[k] : k \in DOMAIN ids} = evidence
  /\ Len(ids) = Cardinality(evidence)

\* `named' is receiptOperationId; without one the agent's only receipt is
\* bound, and an agent with several is refused.
BoundReceipt(incident, agent, named) ==
  IF named # NoOp THEN OwnReceipts(incident, agent) \cap {named}
  ELSE OwnReceipts(incident, agent)

Bindable(evidence, bound, named) ==
  /\ Cardinality(bound) <= 1
  /\ named # NoOp => bound # {}
  /\ \A op \in bound : SameEvidence(Req[receipts[op].req].evidence, evidence)

CheckpointAgent(incident, agent, evidence, named) ==
  LET bound == BoundReceipt(incident, agent, named)
      op == IF bound = {} THEN NoOp ELSE CHOOSE o \in bound : TRUE
  IN  /\ available
      /\ Len(checkpoints) < MaxCheckpoints
      /\ \A e \in evidence : e \in Ingested /\ Rec[e].incident = incident
      /\ Bindable(evidence, bound, named)
      /\ checkpoints' = Append(checkpoints,
           [incident |-> incident, agent |-> agent, evidence |-> evidence,
            op |-> op,
            summary |-> IF op = NoOp THEN "none" ELSE receipts[op].outcome])
      /\ UNCHANGED <<now, available, status, conflicted, fences, leases,
                     receipts>>

\* recoverSuccessor reads the newest checkpoint of the failed agent and counts
\* its evidence as it stands now.
RecoverSuccessor(incident, failed) ==
  LET own == {k \in DOMAIN checkpoints : /\ checkpoints[k].incident = incident
                                         /\ checkpoints[k].agent = failed}
      last == checkpoints[CHOOSE k \in own : \A m \in own : m <= k]
      evidence == IF own = {} THEN {} ELSE last.evidence
  IN  [found |-> own # {},
       admitted |-> {e \in evidence : StatusAt(e, now) = "admitted"},
       quarantined |-> {e \in evidence : StatusAt(e, now) = "conflicted"},
       op |-> IF own = {} THEN NoOp ELSE last.op,
       summary |-> IF own = {} THEN "none" ELSE last.summary]

-----------------------------------------------------------------------------
SetAvailable(b) ==
  /\ available' = b
  /\ UNCHANGED <<now, status, conflicted, fences, leases, receipts,
                 checkpoints>>

MemTick ==
  /\ now < MaxTime
  /\ now' = now + 1
  /\ UNCHANGED <<available, status, conflicted, fences, leases, receipts,
                 checkpoints>>

MemNext ==
  \/ \E b \in BOOLEAN : SetAvailable(b)
  \/ \E e \in Records : IngestEvidence(e)
  \/ \E op \in Ops, r \in Requests : ReserveResource(op, r)
  \/ \E incident \in Incidents, agent \in Agents, evidence \in EvidenceSets,
        named \in Ops \cup {NoOp} :
       CheckpointAgent(incident, agent, evidence, named)
  \/ MemTick

MemSpec == MemInit /\ [][MemNext]_memVars

-----------------------------------------------------------------------------
(* Properties. *)

ReservedOn(k) ==
  {op \in Ops : /\ receipts[op].outcome = "resource_reserved"
                /\ KeyOf(receipts[op].req) = k}

\* The reservations under one lease key carry the fences 1, 2, 3, ..., each
\* starts only when the lease before it is over, and the lease in the table is
\* that of the newest one (reserveResource).
ReservationsFollowEachOther ==
  \A k \in LeaseKeys :
    /\ {receipts[op].fence : op \in ReservedOn(k)} = 1..fences[k]
    /\ leases[k].fence = fences[k]
    /\ \A op, o \in ReservedOn(k) :
         receipts[op].fence < receipts[o].fence =>
           receipts[op].at + Req[receipts[op].req].leaseMs <= receipts[o].at
    /\ \A op \in ReservedOn(k) : receipts[op].fence = fences[k] =>
         /\ leases[k].op = op
         /\ leases[k].until = receipts[op].at + Req[receipts[op].req].leaseMs

\* Contradictory records that one agency could act on at the same time are
\* quarantined, with one exception, which the stored status field shows: a
\* record that was not yet valid when it arrived is never compared again.
OnlyEarlyEvidenceEscapesQuarantine ==
  \A agency \in Agencies, i \in Incidents :
    \A e, f \in Candidates(i, agency, now) :
      Contradict(e, f) => "not_yet_valid" \in {status[e], status[f]}

\* "unresolved-conflict detection and fail-closed authorization" (README.md):
\* no agency is ever allowed to act on each of two contradictory records.
ContradictionsNeverAuthorize ==
  \A agency \in Agencies, e, f \in Records :
    Contradict(e, f) =>
      ~\A g \in {e, f} :
         EvaluateDecision(Rec[e].incident, agency, <<g>>, now)
           = "evidence_admissible"

\* What recoverSuccessor hands over about the failed agent is a receipt of
\* that agent and incident, over exactly the checkpointed evidence, with the
\* outcome the store still holds for that operation, however long ago the
\* checkpoint was taken.
RecoveryReportsTheReceipt ==
  \A i \in Incidents, failed \in Agents :
    LET context == RecoverSuccessor(i, failed)
    IN  context.op # NoOp =>
          /\ context.op \in OwnReceipts(i, failed)
          /\ receipts[context.op].outcome = context.summary
          /\ context.summary # "none"
          /\ context.admitted \cup context.quarantined \subseteq
               {Req[receipts[context.op].req].evidence[k] :
                  k \in DOMAIN Req[receipts[context.op].req].evidence}
=============================================================================
