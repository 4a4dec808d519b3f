---------------------------- MODULE MemoryProofs ----------------------------
(***************************************************************************)
(* Proofs about ProofToActMemory: the leases of one key follow each other,  *)
(* the quarantine misses early evidence only, and a recovery reports the    *)
(* receipt the store still holds.                                           *)
(***************************************************************************)
EXTENDS ProofToActMemory, WellFoundedInduction, TLAPS

-----------------------------------------------------------------------------
(* Type correctness. *)

\* A new store is empty and has its shape.
LEMMA MemStarts == MemInit => MemTypeOK
  <1> SUFFICES ASSUME MemInit PROVE MemTypeOK
    OBVIOUS
  <1>1. now \in 0..MaxTime
    BY MemoryAssumption DEF MemInit
  <1>2. available \in BOOLEAN
    BY DEF MemInit
  <1>3. leases \in [LeaseKeys -> [op: Ops \cup {NoOp}, fence: Nat, until: Nat]]
    BY DEF MemInit, NoLease
  <1>4. receipts \in [Ops -> Receipts]
    BY DEF MemInit, NoReceipt, Receipts
  <1> QED BY <1>1, <1>2, <1>3, <1>4 DEF MemInit, MemTypeOK, Statuses

\* #statusAt says one of five things.
LEMMA ValidityType ==
  ASSUME NEW e \in Records, NEW at
  PROVE  ValidityAt(e, at) \in Statuses
  BY DEF ValidityAt, Statuses

\* Every call of reserveResource leaves a receipt of a known shape.
LEMMA ReceiptType ==
  ASSUME MemTypeOK, NEW r \in Requests, NEW n \in Nat,
         NEW o \in {"authorization_denied", "resource_held_denied", "resource_reserved"}
  PROVE  /\ Receipt(r, o, n) \in Receipts
         /\ Receipt(r, o, n) # NoReceipt
         /\ Receipt(r, o, n).outcome = o /\ Receipt(r, o, n).req = r
         /\ Receipt(r, o, n).fence = n /\ Receipt(r, o, n).at = now
  <1>1. now \in Nat
    BY MemoryAssumption DEF MemTypeOK
  <1> QED BY <1>1 DEF Receipt, Receipts, NoReceipt

\* What a stored receipt holds.
LEMMA StoredReceipt ==
  ASSUME MemTypeOK, NEW op \in Ops, receipts[op] # NoReceipt
  PROVE  /\ receipts[op].outcome \in {"authorization_denied", "resource_held_denied",
                                      "resource_reserved"}
         /\ receipts[op].req \in Requests
         /\ receipts[op].fence \in Nat /\ receipts[op].at \in Nat
  BY DEF MemTypeOK, Receipts, NoReceipt

\* What a reservation request holds.
LEMMA KeyType ==
  ASSUME NEW r \in Requests
  PROVE  /\ KeyOf(r) \in LeaseKeys
         /\ Req[r].leaseMs \in Nat /\ Req[r].leaseMs > 0
         /\ Req[r].incident \in Incidents /\ Req[r].agent \in Agents
         /\ Req[r].evidence \in Seq(Records)
  BY MemoryAssumption DEF ShapeOfReservation, KeyOf

\* The operation a checkpoint is bound to.
LEMMA BoundOperation ==
  ASSUME MemTypeOK, NEW incident, NEW agent, NEW named \in Ops \cup {NoOp},
         NEW op, op = IF BoundReceipt(incident, agent, named) = {} THEN NoOp
                      ELSE CHOOSE o \in BoundReceipt(incident, agent, named) : TRUE
  PROVE  /\ op \in Ops \cup {NoOp}
         /\ op # NoOp => /\ op \in Ops
                         /\ op \in OwnReceipts(incident, agent)
                         /\ op \in BoundReceipt(incident, agent, named)
  BY DEF BoundReceipt, OwnReceipts

\* Every method of the store keeps its shape.
LEMMA MemStepKeepsType ==
  ASSUME MemTypeOK, [MemNext]_memVars
  PROVE  MemTypeOK'
  <1>1. ASSUME NEW b \in BOOLEAN, SetAvailable(b) PROVE MemTypeOK'
    BY <1>1 DEF SetAvailable, MemTypeOK
  <1>2. ASSUME NEW e \in Records, IngestEvidence(e) PROVE MemTypeOK'
    <2>1. status' \in [Records -> Statuses \cup {"absent"}]
      BY <1>2, ValidityType DEF IngestEvidence, MemTypeOK, ArrivalStatus, Statuses
    <2>2. conflicted' \subseteq Records
      BY <1>2 DEF IngestEvidence, MemTypeOK, Opponents, Ingested
    <2> QED BY <1>2, <2>1, <2>2 DEF IngestEvidence, MemTypeOK
  <1>3. ASSUME NEW op \in Ops, NEW r \in Requests, ReserveResource(op, r) PROVE MemTypeOK'
    <2>1. now \in Nat /\ \A k \in LeaseKeys : leases[k].fence \in Nat /\ fences[k] \in Nat
      BY MemoryAssumption DEF MemTypeOK
    <2>2. receipts' \in [Ops -> Receipts]
      <3> DEFINE R(o, n) == Receipt(r, o, n)
      <3>1. \E o \in {"authorization_denied", "resource_held_denied", "resource_reserved"},
               n \in Nat : receipts' = [receipts EXCEPT ![op] = R(o, n)]
        BY <1>3, <2>1, KeyType DEF ReserveResource
      <3>2. \A o \in {"authorization_denied", "resource_held_denied", "resource_reserved"},
               n \in Nat : R(o, n) \in Receipts
        BY ReceiptType
      <3> HIDE DEF R
      <3> QED BY <3>1, <3>2 DEF MemTypeOK
    <2> DEFINE k == KeyOf(r)
    <2>a. fences[k] + 1 \in Nat /\ now + Req[r].leaseMs \in Nat /\ k \in LeaseKeys
      BY <2>1, KeyType
    <2>3. /\ fences' \in [LeaseKeys -> Nat]
          /\ leases' \in [LeaseKeys -> [op: Ops \cup {NoOp}, fence: Nat, until: Nat]]
      <3>1. CASE UNCHANGED <<fences, leases>>
        BY <3>1 DEF MemTypeOK
      <3>2. CASE /\ fences' = [fences EXCEPT ![k] = @ + 1]
                 /\ leases' = [leases EXCEPT ![k] = [op |-> op, fence |-> fences[k] + 1,
                                                    until |-> now + Req[r].leaseMs]]
        <4> HIDE DEF k
        <4> QED BY <3>2, <2>a DEF MemTypeOK
      <3> QED BY <1>3, <3>1, <3>2 DEF ReserveResource
    <2> QED BY <1>3, <2>2, <2>3 DEF ReserveResource, MemTypeOK
  <1>4. ASSUME NEW incident \in Incidents, NEW agent \in Agents, NEW evidence \in EvidenceSets,
               NEW named \in Ops \cup {NoOp},
               CheckpointAgent(incident, agent, evidence, named)
        PROVE  MemTypeOK'
    <2>1. PICK op : op = IF BoundReceipt(incident, agent, named) = {} THEN NoOp
                         ELSE CHOOSE o \in BoundReceipt(incident, agent, named) : TRUE
      OBVIOUS
    <2>2. op \in Ops \cup {NoOp} /\ (op # NoOp => op \in Ops /\ receipts[op] # NoReceipt)
      BY <2>1, BoundOperation DEF OwnReceipts
    <2>3. evidence \in SUBSET Records
      BY MemoryAssumption
    <2> DEFINE s == IF op = NoOp THEN "none" ELSE receipts[op].outcome
    <2>4. s \in {"none", "authorization_denied", "resource_held_denied", "resource_reserved"}
      BY <2>2, StoredReceipt
    <2> DEFINE d == [incident |-> incident, agent |-> agent, evidence |-> evidence,
                     op |-> op, summary |-> s]
    <2>5. checkpoints' = Append(checkpoints, d)
      BY <1>4, <2>1 DEF CheckpointAgent
    <2>6. d \in [incident: Incidents, agent: Agents, evidence: SUBSET Records,
                 op: Ops \cup {NoOp},
                 summary: {"none", "authorization_denied", "resource_held_denied",
                           "resource_reserved"}]
      <3> HIDE DEF s
      <3> QED BY <2>2, <2>3, <2>4
    <2>7. UNCHANGED <<now, available, status, conflicted, fences, leases, receipts>>
      BY <1>4 DEF CheckpointAgent
    <2> HIDE DEF d
    <2> QED BY <2>5, <2>6, <2>7 DEF MemTypeOK
  <1>5. ASSUME MemTick PROVE MemTypeOK'
    BY <1>5, MemoryAssumption DEF MemTick, MemTypeOK
  <1>6. ASSUME UNCHANGED memVars PROVE MemTypeOK'
    BY <1>6 DEF memVars, MemTypeOK
  <1> QED BY <1>1, <1>2, <1>3, <1>4, <1>5, <1>6 DEF MemNext

\* The store of src/protocol.js keeps its shape.
THEOREM MemTypeCorrect == MemSpec => []MemTypeOK
  BY MemStarts, MemStepKeepsType, PTL DEF MemSpec

-----------------------------------------------------------------------------
(* Leases. *)

\* A reservation that the clock has passed does not hold the key any more, so
\* the next one starts after all before it.
LEMMA LeaseStepKeeps ==
  ASSUME MemTypeOK, MemTypeOK', ReservationsFollowEachOther, [MemNext]_memVars
  PROVE  ReservationsFollowEachOther'
  <1>1. ASSUME UNCHANGED <<receipts, fences, leases>> PROVE ReservationsFollowEachOther'
    BY <1>1 DEF ReservationsFollowEachOther, ReservedOn
  <1>2. ASSUME NEW op \in Ops, NEW r \in Requests, ReserveResource(op, r)
        PROVE  ReservationsFollowEachOther'
    <2>1. /\ \A o \in Ops : o # op => receipts'[o] = receipts[o]
          /\ receipts[op] = NoReceipt /\ receipts[op].outcome = "none"
      BY <1>2 DEF ReserveResource, NoReceipt, MemTypeOK
    <2>2. CASE UNCHANGED <<fences, leases>> /\ receipts'[op].outcome # "resource_reserved"
      <3>1. \A k \in LeaseKeys : ReservedOn(k)' = ReservedOn(k)
        BY <2>1, <2>2 DEF ReservedOn
      <3>2. \A k \in LeaseKeys : \A o \in ReservedOn(k) : receipts'[o] = receipts[o]
        BY <2>1 DEF ReservedOn
      <3> QED BY <2>2, <3>1, <3>2 DEF ReservationsFollowEachOther
    <2>3. CASE /\ ~Held(KeyOf(r))
               /\ fences' = [fences EXCEPT ![KeyOf(r)] = @ + 1]
               /\ leases' = [leases EXCEPT ![KeyOf(r)] =
                     [op |-> op, fence |-> fences[KeyOf(r)] + 1,
                      until |-> now + Req[r].leaseMs]]
               /\ receipts' = [receipts EXCEPT ![op] =
                     Receipt(r, "resource_reserved", fences[KeyOf(r)] + 1)]
      <3>1. PICK k \in LeaseKeys : k = KeyOf(r)
        BY KeyType
      <3>2. /\ fences[k] \in Nat /\ now \in Nat /\ fences[k] + 1 \in Nat
            /\ Req[r].leaseMs \in Nat
        BY MemoryAssumption, KeyType DEF MemTypeOK
      <3>3. /\ receipts'[op].outcome = "resource_reserved" /\ receipts'[op].req = r
            /\ receipts'[op].fence = fences[k] + 1 /\ receipts'[op].at = now
        BY <2>3, <3>1, <3>2, ReceiptType DEF MemTypeOK
      <3>4. /\ ReservedOn(k)' = ReservedOn(k) \cup {op} /\ op \notin ReservedOn(k)
            /\ \A j \in LeaseKeys : j # k => ReservedOn(j)' = ReservedOn(j)
            /\ \A j \in LeaseKeys : \A o \in ReservedOn(j) : o \in Ops /\ receipts'[o] = receipts[o]
        BY <2>1, <3>1, <3>3 DEF ReservedOn
      <3>5. \A j \in LeaseKeys : \A o \in ReservedOn(j) :
              /\ receipts[o].fence \in Nat /\ receipts[o].at \in Nat
              /\ Req[receipts[o].req].leaseMs \in Nat
        BY StoredReceipt, KeyType DEF ReservedOn, NoReceipt
      <3>6. /\ fences'[k] = fences[k] + 1 /\ leases'[k].fence = fences[k] + 1
            /\ leases'[k].op = op /\ leases'[k].until = now + Req[r].leaseMs
            /\ \A j \in LeaseKeys : j # k => fences'[j] = fences[j] /\ leases'[j] = leases[j]
        BY <2>3, <3>1 DEF MemTypeOK
      <3>7. \A o \in ReservedOn(k) :
              /\ receipts[o].fence \in 1..fences[k]
              /\ receipts[o].at + Req[receipts[o].req].leaseMs <= now
        <4>1. {receipts[o].fence : o \in ReservedOn(k)} = 1..fences[k]
          BY DEF ReservationsFollowEachOther
        <4> SUFFICES ASSUME NEW o \in ReservedOn(k)
                     PROVE  receipts[o].at + Req[receipts[o].req].leaseMs <= now
          BY <4>1
        <4>2. fences[k] \in 1..fences[k]
          BY <4>1, <3>2
        <4>3. PICK top \in ReservedOn(k) : receipts[top].fence = fences[k]
          BY <4>1, <4>2
        <4>4. /\ leases[k].op = top
              /\ leases[k].until = receipts[top].at + Req[receipts[top].req].leaseMs
          BY <4>3 DEF ReservationsFollowEachOther
        <4>5. receipts[top].at + Req[receipts[top].req].leaseMs <= now
          BY <2>3, <3>1, <3>2, <3>4, <3>5, <4>4, MemoryAssumption DEF Held
        <4>6. receipts[o].fence \in 1..fences[k]
          BY <4>1
        <4>7. CASE receipts[o].fence = fences[k]
          BY <4>4, <4>5, <4>7 DEF ReservationsFollowEachOther
        <4>8. CASE receipts[o].fence < receipts[top].fence
          <5>1. receipts[o].at + Req[receipts[o].req].leaseMs <= receipts[top].at
            BY <4>8 DEF ReservationsFollowEachOther
          <5> QED BY <5>1, <4>5, <3>5, <3>2
        <4> QED BY <4>3, <4>6, <4>7, <4>8, <3>2
      <3> SUFFICES ASSUME NEW j \in LeaseKeys
                   PROVE  /\ {receipts'[o].fence : o \in ReservedOn(j)'} = 1..fences'[j]
                          /\ leases'[j].fence = fences'[j]
                          /\ \A p, o \in ReservedOn(j)' :
                               receipts'[p].fence < receipts'[o].fence =>
                                 receipts'[p].at + Req[receipts'[p].req].leaseMs <= receipts'[o].at
                          /\ \A o \in ReservedOn(j)' : receipts'[o].fence = fences'[j] =>
                               /\ leases'[j].op = o
                               /\ leases'[j].until = receipts'[o].at + Req[receipts'[o].req].leaseMs
        BY DEF ReservationsFollowEachOther
      <3>8. CASE j # k
        BY <3>8, <3>4, <3>6 DEF ReservationsFollowEachOther
      <3>9. CASE j = k
        <4>1. {receipts'[o].fence : o \in ReservedOn(k)'} = 1..fences'[k]
          <5>1. {receipts[o].fence : o \in ReservedOn(k)} = 1..fences[k]
            BY DEF ReservationsFollowEachOther
          <5>2. {receipts'[o].fence : o \in ReservedOn(k)'} = (1..fences[k]) \cup {fences[k] + 1}
            BY <5>1, <3>3, <3>4
          <5>3. (1..fences[k]) \cup {fences[k] + 1} = 1..(fences[k] + 1)
            BY <3>2
          <5> QED BY <5>2, <5>3, <3>6
        <4>2. ASSUME NEW p \in ReservedOn(k)', NEW o \in ReservedOn(k)',
                     receipts'[p].fence < receipts'[o].fence
              PROVE  receipts'[p].at + Req[receipts'[p].req].leaseMs <= receipts'[o].at
          <5>1. p # op
            BY <4>2, <3>2, <3>3, <3>4, <3>5, <3>7
          <5>2. CASE o = op
            BY <5>1, <5>2, <3>3, <3>4, <3>7
          <5>3. CASE o # op
            BY <5>1, <5>3, <4>2, <3>4 DEF ReservationsFollowEachOther
          <5> QED BY <5>2, <5>3
        <4>3. ASSUME NEW o \in ReservedOn(k)', receipts'[o].fence = fences'[k] PROVE o = op
          BY <4>3, <3>2, <3>4, <3>5, <3>6, <3>7
        <4> QED BY <3>9, <3>3, <3>6, <4>1, <4>2, <4>3
      <3> QED BY <3>8, <3>9
    <2>4. \A n \in Nat : /\ Receipt(r, "authorization_denied", n).outcome # "resource_reserved"
                         /\ Receipt(r, "resource_held_denied", n).outcome # "resource_reserved"
      BY ReceiptType
    <2> QED BY <1>2, <2>2, <2>3, <2>4, KeyType DEF ReserveResource, MemTypeOK
  <1> QED BY <1>1, <1>2 DEF MemNext, SetAvailable, IngestEvidence, CheckpointAgent, MemTick, memVars

\* The leases of one key, of whatever requests and agents, never overlap, and
\* the lease table shows the newest one (reserveResource).
THEOREM LeasesFollowEachOther == MemSpec => []ReservationsFollowEachOther
  <1>1. MemInit => ReservationsFollowEachOther
    BY DEF MemInit, ReservationsFollowEachOther, ReservedOn, NoReceipt, NoLease
  <1> QED BY <1>1, MemTypeCorrect, LeaseStepKeeps, PTL DEF MemSpec

-----------------------------------------------------------------------------
(* Quarantine. *)

\* A record that is not valid yet still shows it in its stored status.
EarlyIsMarked ==
  \A e \in Ingested : ValidityAt(e, now) = "not_yet_valid" => status[e] = "not_yet_valid"

\* Of two valid records that contradict each other, and that were both valid
\* when they arrived, one is quarantined.
ContradictionsMet ==
  \A e, f \in Ingested :
    /\ Contradict(e, f) /\ Overlapping(e, f)
    /\ ValidityAt(e, now) = "admitted" /\ ValidityAt(f, now) = "admitted"
    /\ status[e] # "not_yet_valid" /\ status[f] # "not_yet_valid"
    => e \in conflicted \/ f \in conflicted

QuarantineInv == EarlyIsMarked /\ ContradictionsMet

\* One tick makes an early record valid or a valid one expired, never the
\* other way round.
LEMMA ValidityAges ==
  ASSUME NEW e \in Records, now \in Nat
  PROVE  /\ ValidityAt(e, now + 1) = "not_yet_valid" => ValidityAt(e, now) = "not_yet_valid"
         /\ ValidityAt(e, now + 1) = "admitted" => ValidityAt(e, now) \in {"not_yet_valid", "admitted"}
  <1>1. Rec[e].from \in Nat /\ Rec[e].until \in Nat
    BY MemoryAssumption DEF ShapeOfRecord
  <1> QED BY <1>1 DEF ValidityAt

\* Contradiction and overlap do not depend on the order of two records.
LEMMA OppositionIsMutual ==
  ASSUME NEW e, NEW f
  PROVE  /\ Contradict(e, f) => Contradict(f, e)
         /\ Overlapping(e, f) => Overlapping(f, e)
  BY DEF Contradict, Overlapping

\* ingestEvidence, and the clock, keep what the quarantine guarantees.
LEMMA QuarantineStep ==
  ASSUME MemTypeOK, QuarantineInv, [MemNext]_memVars
  PROVE  QuarantineInv'
  <1>1. ASSUME UNCHANGED <<now, status, conflicted>> PROVE QuarantineInv'
    BY <1>1 DEF QuarantineInv, EarlyIsMarked, ContradictionsMet, Ingested
  <1>2. ASSUME MemTick PROVE QuarantineInv'
    <2>1. /\ now \in Nat /\ now' = now + 1 /\ UNCHANGED <<status, conflicted>>
          /\ Ingested' = Ingested /\ Ingested \subseteq Records
      BY <1>2, MemoryAssumption DEF MemTick, MemTypeOK, Ingested
    <2>2. \A e \in Ingested :
            /\ ValidityAt(e, now') = "not_yet_valid" => ValidityAt(e, now) = "not_yet_valid"
            /\ ValidityAt(e, now') = "admitted" =>
                 ValidityAt(e, now) \in {"not_yet_valid", "admitted"}
      BY <2>1, ValidityAges
    <2>3. EarlyIsMarked'
      BY <2>1, <2>2 DEF QuarantineInv, EarlyIsMarked
    <2>4. ContradictionsMet'
      BY <2>1, <2>2 DEF QuarantineInv, EarlyIsMarked, ContradictionsMet
    <2> QED BY <2>3, <2>4 DEF QuarantineInv
  <1>3. ASSUME NEW e \in Records, IngestEvidence(e) PROVE QuarantineInv'
    <2> DEFINE met == IF ValidityAt(e, now) = "admitted" THEN Opponents(e) ELSE {}
               marked == IF met = {} THEN {} ELSE met \cup {e}
    <2>1. /\ now' = now /\ conflicted' = conflicted \cup marked /\ status[e] = "absent"
          /\ status' = [f \in Records |-> IF f \in marked THEN "conflicted"
                                         ELSE IF f = e THEN ValidityAt(e, now) ELSE status[f]]
      BY <1>3 DEF IngestEvidence, ArrivalStatus
    <2>2. \A f \in marked : f \in Records /\ ValidityAt(f, now) = "admitted"
      BY DEF Opponents, StatusAt, Ingested, ValidityAt
    <2>3. /\ \A f \in Records : status'[f] = IF f \in marked THEN "conflicted"
                                         ELSE IF f = e THEN ValidityAt(e, now) ELSE status[f]
          /\ \A f \in Ingested' : f = e \/ f \in Ingested
          /\ \A f \in Ingested' : f \in Records
      <3>1. \A f \in marked : f = e \/ f \in Ingested
        BY DEF Opponents
      <3>2. \A f \in Records : status'[f] = IF f \in marked THEN "conflicted"
                                         ELSE IF f = e THEN ValidityAt(e, now) ELSE status[f]
        BY <2>1
      <3> HIDE DEF marked
      <3> QED BY <3>1, <3>2 DEF Ingested
    <2>4. EarlyIsMarked'
      <3> HIDE DEF marked
      <3> QED BY <2>1, <2>2, <2>3 DEF QuarantineInv, EarlyIsMarked
    <2>5. ASSUME NEW f \in Ingested, Contradict(e, f), Overlapping(e, f),
                 ValidityAt(e, now) = "admitted", ValidityAt(f, now) = "admitted"
          PROVE  e \in marked
      BY <2>5 DEF Opponents, StatusAt
    <2>6. ASSUME NEW f \in Ingested', NEW g \in Ingested', Contradict(f, g), Overlapping(f, g),
                 ValidityAt(f, now') = "admitted", ValidityAt(g, now') = "admitted",
                 status'[f] # "not_yet_valid", status'[g] # "not_yet_valid",
                 f \notin conflicted', g \notin conflicted'
          PROVE  FALSE
      <3> HIDE DEF marked
      <3>1. f # e
        <4> SUFFICES ASSUME f = e PROVE FALSE
          OBVIOUS
        <4>1. g \in Ingested
          BY <2>3, <2>6 DEF Contradict
        <4> QED BY <4>1, <2>1, <2>5, <2>6
      <3>2. g # e
        BY <3>1, <2>1, <2>3, <2>5, <2>6, OppositionIsMutual
      <3>3. f \in Ingested /\ g \in Ingested /\ status'[f] = status[f] /\ status'[g] = status[g]
        BY <3>1, <3>2, <2>1, <2>3, <2>6
      <3> QED BY <3>3, <2>1, <2>6 DEF QuarantineInv, ContradictionsMet
    <2> QED BY <2>4, <2>6 DEF QuarantineInv, ContradictionsMet
  <1> QED BY <1>1, <1>2, <1>3 DEF MemNext, SetAvailable, ReserveResource, CheckpointAgent, memVars

\* Records that contradict each other are both usable by one agency only if
\* one of them was not yet valid when it arrived (ingestEvidence judges a
\* record against the others once).
THEOREM QuarantineMissesEarlyOnly == MemSpec => []OnlyEarlyEvidenceEscapesQuarantine
  <1>1. MemInit => QuarantineInv
    BY DEF MemInit, QuarantineInv, EarlyIsMarked, ContradictionsMet, Ingested
  <1>2. QuarantineInv => OnlyEarlyEvidenceEscapesQuarantine
    <2> SUFFICES ASSUME QuarantineInv, NEW agency \in Agencies, NEW i \in Incidents,
                        NEW e \in Candidates(i, agency, now), NEW f \in Candidates(i, agency, now),
                        Contradict(e, f)
                 PROVE  "not_yet_valid" \in {status[e], status[f]}
      BY DEF OnlyEarlyEvidenceEscapesQuarantine
    <2>1. Overlapping(e, f)
      BY DEF Candidates, InScope, Overlapping
    <2>2. /\ e \in Ingested /\ ValidityAt(e, now) = "admitted" /\ e \notin conflicted
          /\ f \in Ingested /\ ValidityAt(f, now) = "admitted" /\ f \notin conflicted
      BY DEF Candidates, StatusAt
    <2> QED BY <2>1, <2>2 DEF QuarantineInv, ContradictionsMet
  <1> QED BY <1>1, <1>2, MemTypeCorrect, QuarantineStep, PTL DEF MemSpec

-----------------------------------------------------------------------------
(* Recovery. *)

\* A set of positions has a last one.
LEMMA LastPosition ==
  ASSUME NEW n \in Nat, NEW S \in SUBSET (1..n), S # {}
  PROVE  \E k \in S : \A m \in S : m <= k
  <1> DEFINE T == {n - k : k \in S}
  <1>0. \A k \in S : k \in 1..n /\ k \in Nat /\ n - k \in Nat
    OBVIOUS
  <1>1. T \subseteq Nat /\ T # {}
    BY <1>0
  <1>2. PICK x \in T : \A y \in T : ~(<<y, x>> \in OpToRel(<, Nat))
    <2> HIDE DEF T
    <2> QED BY <1>1, NatLessThanWellFounded, WFMin
  <1>3. \A y \in T : ~(y < x)
    BY <1>1, <1>2 DEF OpToRel
  <1>4. PICK k \in S : x = n - k
    OBVIOUS
  <1>5. \A m \in S : n - m \in T
    OBVIOUS
  <1>6. \A m \in S : m <= k
    <2> HIDE DEF T
    <2> SUFFICES ASSUME NEW m \in S PROVE m <= k
      OBVIOUS
    <2>1. ~(n - m < n - k)
      BY <1>3, <1>4, <1>5
    <2> QED BY <2>1, <1>0
  <1> QED BY <1>6

\* A checkpoint that is bound to an operation tells the truth about it.
BoundCheckpointsAreTrue ==
  \A k \in DOMAIN checkpoints :
    checkpoints[k].op # NoOp =>
      /\ checkpoints[k].op \in OwnReceipts(checkpoints[k].incident, checkpoints[k].agent)
      /\ receipts[checkpoints[k].op].outcome = checkpoints[k].summary
      /\ checkpoints[k].summary # "none"
      /\ SameEvidence(Req[receipts[checkpoints[k].op].req].evidence, checkpoints[k].evidence)

\* A receipt never changes, so what checkpointAgent bound stays true.
LEMMA CheckpointStep ==
  ASSUME MemTypeOK, BoundCheckpointsAreTrue, [MemNext]_memVars
  PROVE  BoundCheckpointsAreTrue'
  <1>1. ASSUME UNCHANGED <<receipts, checkpoints>> PROVE BoundCheckpointsAreTrue'
    BY <1>1 DEF BoundCheckpointsAreTrue, OwnReceipts
  <1>2. ASSUME NEW op \in Ops, NEW r \in Requests, ReserveResource(op, r)
        PROVE  BoundCheckpointsAreTrue'
    <2>1. /\ \A o \in Ops : receipts[o] # NoReceipt => receipts'[o] = receipts[o]
          /\ checkpoints' = checkpoints
      BY <1>2 DEF ReserveResource, MemTypeOK
    <2>2. \A i, a : OwnReceipts(i, a) \subseteq OwnReceipts(i, a)'
      BY <2>1 DEF OwnReceipts
    <2> QED BY <2>1, <2>2 DEF BoundCheckpointsAreTrue, OwnReceipts
  <1>3. ASSUME NEW incident \in Incidents, NEW agent \in Agents, NEW evidence \in EvidenceSets,
               NEW named \in Ops \cup {NoOp},
               CheckpointAgent(incident, agent, evidence, named)
        PROVE  BoundCheckpointsAreTrue'
    <2>1. PICK op : op = IF BoundReceipt(incident, agent, named) = {} THEN NoOp
                         ELSE CHOOSE o \in BoundReceipt(incident, agent, named) : TRUE
      OBVIOUS
    <2>2. op # NoOp =>
            /\ op \in Ops /\ op \in OwnReceipts(incident, agent)
            /\ op \in BoundReceipt(incident, agent, named)
      BY <2>1, BoundOperation
    <2> DEFINE s == IF op = NoOp THEN "none" ELSE receipts[op].outcome
               d == [incident |-> incident, agent |-> agent, evidence |-> evidence,
                     op |-> op, summary |-> s]
    <2>3. checkpoints' = Append(checkpoints, d) /\ receipts' = receipts
      BY <1>3, <2>1 DEF CheckpointAgent
    <2>4. \A o \in BoundReceipt(incident, agent, named) :
            SameEvidence(Req[receipts[o].req].evidence, evidence)
      BY <1>3 DEF CheckpointAgent, Bindable
    <2>5. /\ d.incident = incident /\ d.agent = agent /\ d.evidence = evidence /\ d.op = op
          /\ op # NoOp => d.summary = receipts[op].outcome /\ d.summary # "none"
      BY <2>2, StoredReceipt DEF OwnReceipts
    <2>6. \A i, a : OwnReceipts(i, a)' = OwnReceipts(i, a)
      BY <2>3 DEF OwnReceipts
    <2> HIDE DEF d
    <2>7. \A k \in DOMAIN checkpoints' :
            \/ k \in DOMAIN checkpoints /\ checkpoints'[k] = checkpoints[k]
            \/ checkpoints'[k] = d
      BY <2>3 DEF MemTypeOK
    <2>8. op # NoOp => /\ op \in OwnReceipts(incident, agent)
                       /\ SameEvidence(Req[receipts[op].req].evidence, evidence)
      BY <2>2, <2>4
    <2> QED BY <2>3, <2>5, <2>6, <2>7, <2>8 DEF BoundCheckpointsAreTrue
  <1> QED BY <1>1, <1>2, <1>3 DEF MemNext, SetAvailable, IngestEvidence, MemTick, memVars

\* recoverSuccessor hands over the receipt which the store still holds, of the
\* failed agent and over the checkpointed evidence, whenever it is asked.
THEOREM RecoveryIsTrue == MemSpec => []RecoveryReportsTheReceipt
  <1>1. MemInit => BoundCheckpointsAreTrue
    BY DEF MemInit, BoundCheckpointsAreTrue
  <1>2. MemTypeOK /\ BoundCheckpointsAreTrue => RecoveryReportsTheReceipt
    <2> SUFFICES ASSUME MemTypeOK, BoundCheckpointsAreTrue,
                        NEW i \in Incidents, NEW failed \in Agents,
                        RecoverSuccessor(i, failed).op # NoOp
                 PROVE  LET context == RecoverSuccessor(i, failed)
                        IN  /\ context.op \in OwnReceipts(i, failed)
                            /\ receipts[context.op].outcome = context.summary
                            /\ context.summary # "none"
                            /\ context.admitted \cup context.quarantined \subseteq
                                 {Req[receipts[context.op].req].evidence[k] :
                                    k \in DOMAIN Req[receipts[context.op].req].evidence}
      BY DEF RecoveryReportsTheReceipt
    <2> DEFINE own == {k \in DOMAIN checkpoints : /\ checkpoints[k].incident = i
                                                  /\ checkpoints[k].agent = failed}
    <2>1. PICK k : k = CHOOSE n \in own : \A m \in own : m <= n
      OBVIOUS
    <2>2. own # {}
      BY DEF RecoverSuccessor
    <2>3. k \in own
      <3>1. Len(checkpoints) \in Nat /\ own \in SUBSET (1..Len(checkpoints))
        BY DEF MemTypeOK
      <3> HIDE DEF own
      <3>2. \E n \in own : \A m \in own : m <= n
        BY <3>1, <2>2, LastPosition
      <3> QED BY <3>2, <2>1
    <2>4. /\ RecoverSuccessor(i, failed).op = checkpoints[k].op
          /\ RecoverSuccessor(i, failed).summary = checkpoints[k].summary
          /\ RecoverSuccessor(i, failed).admitted \subseteq checkpoints[k].evidence
          /\ RecoverSuccessor(i, failed).quarantined \subseteq checkpoints[k].evidence
      BY <2>1, <2>2 DEF RecoverSuccessor
    <2>5. /\ checkpoints[k].incident = i /\ checkpoints[k].agent = failed
          /\ k \in DOMAIN checkpoints /\ checkpoints[k].op # NoOp
      BY <2>3, <2>4
    <2>6. checkpoints[k].evidence =
            {Req[receipts[checkpoints[k].op].req].evidence[n] :
               n \in DOMAIN Req[receipts[checkpoints[k].op].req].evidence}
      BY <2>5 DEF BoundCheckpointsAreTrue, SameEvidence
    <2> QED BY <2>4, <2>5, <2>6 DEF BoundCheckpointsAreTrue
  <1> QED BY <1>1, <1>2, MemTypeCorrect, CheckpointStep, PTL DEF MemSpec
=============================================================================
