--------------------------- MODULE EvidenceStore ---------------------------
(***************************************************************************)
(* Signed evidence and its verification keys: the tables                    *)
(* g1_verification_keys, g1_evidence_verification_receipts and g1_evidence  *)
(* of AuthorityStore, one tenant.  Every method is one SERIALIZABLE         *)
(* transaction (or one INSERT), so every method is one atomic action here.  *)
(*                                                                          *)
(* An envelope stands for one complete signed submission: its evidence id   *)
(* and everything its verification-request digest covers.  Two envelopes    *)
(* may carry the same evidence id with different content.  Key material is  *)
(* written once (ON CONFLICT DO NOTHING) and never updated, so the          *)
(* comparisons of public-key digests are constantly true and are left out.  *)
(***************************************************************************)
EXTENDS Integers, FiniteSets

CONSTANTS
  Keys,             \* verification key ids
  Key,              \* Key[k]: issuer and validity window [from, until)
  Envelopes,        \* signed submissions
  Env,              \* Env[e]: the content of submission e
  EvidenceIds,
  Agencies,
  Instants,         \* the database times at which a status may be asked for
  ObservationSkew   \* the five minutes an observation may lie in the future

VARIABLES
  keyStatus,        \* keyStatus[k]: no row, or the status column
  verifications,    \* rows of g1_evidence_verification_receipts
  rows              \* rows of g1_evidence

evidenceVars == <<keyStatus, verifications, rows>>

ShapeOfKey == [issuer: STRING, from: Int, until: Int]

ShapeOfEnvelope ==
  [id: EvidenceIds, issuer: STRING, key: Keys, genuine: BOOLEAN,
   observed: Int, from: Int, until: Int, scope: Agencies \cup {"*"},
   claim: STRING, value: STRING, unresolved: BOOLEAN]

ASSUME EvidenceAssumption ==
  /\ Key \in [Keys -> ShapeOfKey]
  /\ Env \in [Envelopes -> ShapeOfEnvelope]
  /\ \A k \in Keys : Key[k].from < Key[k].until
  /\ Instants \subseteq Int
  /\ ObservationSkew \in Nat

Verification == [env: Envelopes, outcome: {"verified", "rejected"}]

Row == [env: Envelopes, provenance: {"verified", "unverified"}]

EvidenceTypeOK ==
  /\ keyStatus \in [Keys -> {"absent", "active", "revoked"}]
  /\ verifications \subseteq Verification
  /\ rows \subseteq Row

EvidenceInit ==
  /\ keyStatus = [k \in Keys |-> "absent"]
  /\ verifications = {}
  /\ rows = {}

-----------------------------------------------------------------------------
(* What the SELECTs read. *)

VerificationsOf(id) == {v \in verifications : Env[v.env].id = id}

RowsOf(id) == {x \in rows : Env[x.env].id = id}

ObservedUnderKey(e) ==
  /\ e.observed >= Key[e.key].from
  /\ e.observed < Key[e.key].until

\* The signature check of appendSignedEvidence: the key is known, belongs to
\* the issuer, is active, covers the observation, and the signature is valid.
Accepts(e) ==
  /\ keyStatus[e.key] = "active"
  /\ Key[e.key].issuer = e.issuer
  /\ ObservedUnderKey(e)
  /\ e.genuine

\* A row that another row of the same claim must not contradict at time t.
CurrentlyVerified(x, agency, t) ==
  LET e == Env[x.env]
  IN  /\ x.provenance = "verified"
      /\ \E v \in verifications : v.env = x.env /\ v.outcome = "verified"
      /\ keyStatus[e.key] = "active"
      /\ Key[e.key].issuer = e.issuer
      /\ ObservedUnderKey(e)
      /\ e.observed <= t + ObservationSkew
      /\ e.from <= t
      /\ e.until > t
      /\ e.scope \in {agency, "*"}

\* Fault: the subquery compares the two scopes instead of testing the other
\* row's scope against the acting agency.
ContradictsSameScopeOnly(y, x, agency, t) ==
  /\ Env[y.env].id # Env[x.env].id
  /\ Env[y.env].claim = Env[x.env].claim
  /\ Env[y.env].value # Env[x.env].value
  /\ Env[y.env].scope = Env[x.env].scope
  /\ CurrentlyVerified(y, agency, t)

Contradicts(y, x, agency, t) ==
  /\ Env[y.env].id # Env[x.env].id
  /\ Env[y.env].claim = Env[x.env].claim
  /\ Env[y.env].value # Env[x.env].value
  /\ CurrentlyVerified(y, agency, t)

Conflicted(x, agency, t) ==
  \/ Env[x.env].unresolved
  \/ \E y \in rows : Contradicts(y, x, agency, t)

\* The CASE expression of spendAuthority evaluated at statement time t.
Admissible(x, agency, t) ==
  /\ CurrentlyVerified(x, agency, t)
  /\ ~Conflicted(x, agency, t)

\* The shorter CASE expression of auditEvidenceStatusAt: the verification row
\* is found by evidence id alone, and neither the issuer, the observation
\* window nor the provenance column is compared again.
AuditAdmissible(x, agency, t) ==
  LET e == Env[x.env]
  IN  /\ \E v \in VerificationsOf(e.id) : v.outcome = "verified"
      /\ keyStatus[e.key] = "active"
      /\ e.observed <= t + ObservationSkew
      /\ e.from <= t
      /\ e.until > t
      /\ e.scope \in {agency, "*"}
      /\ ~Conflicted(x, agency, t)

-----------------------------------------------------------------------------
\* Fault: an upsert that sets the status of an existing row to active.
RegisterVerificationKeyUpsert(k) ==
  /\ keyStatus' = [keyStatus EXCEPT ![k] = "active"]
  /\ UNCHANGED <<verifications, rows>>

\* Registering a key that has a row, revoked or not, changes nothing.
RegisterVerificationKey(k) ==
  /\ keyStatus[k] = "absent"
  /\ keyStatus' = [keyStatus EXCEPT ![k] = "active"]
  /\ UNCHANGED <<verifications, rows>>

RevokeVerificationKey(k) ==
  /\ keyStatus[k] # "absent"
  /\ keyStatus' = [keyStatus EXCEPT ![k] = "revoked"]
  /\ UNCHANGED <<verifications, rows>>

\* Fault: the evidence row is inserted with ON CONFLICT DO NOTHING.
AppendSignedEvidenceKeepingRow(s) ==
  /\ VerificationsOf(Env[s].id) = {}
  /\ UNCHANGED keyStatus
  /\ verifications' =
       verifications \cup {[env |-> s, outcome |->
                              IF Accepts(Env[s]) THEN "verified" ELSE "rejected"]}
  /\ rows' = IF Accepts(Env[s]) /\ RowsOf(Env[s].id) = {}
             THEN rows \cup {[env |-> s, provenance |-> "verified"]}
             ELSE rows

\* A second submission of the evidence id is a replay or a mismatch error and
\* writes nothing.  A rejection is stored without an evidence row; an
\* acceptance stores both, or neither when the row's primary key is taken.
AppendSignedEvidence(s) ==
  /\ VerificationsOf(Env[s].id) = {}
  /\ UNCHANGED keyStatus
  /\ \/ /\ ~Accepts(Env[s])
        /\ verifications' =
             verifications \cup {[env |-> s, outcome |-> "rejected"]}
        /\ UNCHANGED rows
     \/ /\ Accepts(Env[s])
        /\ RowsOf(Env[s].id) = {}
        /\ verifications' =
             verifications \cup {[env |-> s, outcome |-> "verified"]}
        /\ rows' = rows \cup {[env |-> s, provenance |-> "verified"]}

\* appendEvidence: a bare INSERT with the provenance the caller states and no
\* verification receipt.
AppendEvidence(s, provenance) ==
  /\ RowsOf(Env[s].id) = {}
  /\ rows' = rows \cup {[env |-> s, provenance |-> provenance]}
  /\ UNCHANGED <<keyStatus, verifications>>

EvidenceNext ==
  \/ \E k \in Keys : RegisterVerificationKey(k) \/ RevokeVerificationKey(k)
  \/ \E s \in Envelopes :
       \/ AppendSignedEvidence(s)
       \/ \E p \in {"verified", "unverified"} : AppendEvidence(s, p)

EvidenceSpec == EvidenceInit /\ [][EvidenceNext]_evidenceVars

-----------------------------------------------------------------------------
(* Properties. *)

\* spendAuthority and auditEvidenceStatusAt decide admissibility with two
\* different CASE expressions.  The audit compares fewer columns, yet on every
\* state the store can reach the two agree, for every row, agency and instant:
\* an audit never calls admissible what a spend would deny, nor the converse.
AuditAgreesWithSpend ==
  \A x \in rows, agency \in Agencies, t \in Instants :
    Admissible(x, agency, t) <=> AuditAdmissible(x, agency, t)

\* Two rows that assert different values for one claim are never both
\* admissible for one agency at one instant, whatever their scopes (the
\* unresolved_conflict branch of spendAuthority).
ContradictionsNeverBothAdmissible ==
  \A x, y \in rows, agency \in Agencies, t \in Instants :
    /\ Env[x.env].claim = Env[y.env].claim
    /\ Env[x.env].value # Env[y.env].value
    /\ Env[x.env].id # Env[y.env].id
    => ~(Admissible(x, agency, t) /\ Admissible(y, agency, t))

\* Once the key of a row is revoked, no later step (registering the key again,
\* submitting the evidence again) makes that row admissible at any instant.
RevokedStaysOut ==
  \A x \in rows, agency \in Agencies, t \in Instants :
    keyStatus[Env[x.env].key] = "revoked" => ~Admissible(x, agency, t)'

\* The first verdict on an evidence id is the only one it will ever have: a
\* submission rejected because its key was not registered yet stays rejected
\* after the key is registered, and no row of that id becomes admissible.
RejectedStaysOut ==
  \A v \in verifications :
    v.outcome = "rejected" =>
      /\ v \in verifications'
      /\ \A x \in rows', agency \in Agencies, t \in Instants :
           Env[x.env].id = Env[v.env].id => ~Admissible(x, agency, t)'

\* A judgement sticks: neither a revoked key nor a rejected submission is ever
\* overcome by a later call of registerVerificationKey, appendSignedEvidence or
\* appendEvidence.
VerdictsStick == [][RevokedStaysOut /\ RejectedStaysOut]_evidenceVars
=============================================================================
