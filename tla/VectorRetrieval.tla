--------------------------- MODULE VectorRetrieval ---------------------------
(***************************************************************************)
(* Admissible vector retrieval: the evidence functions and vector-set       *)
(* functions of primary-security.js, and the two clients of                 *)
(* admissible-vector-retrieval.js, AdmissibleVectorRetriever.retrieve and   *)
(* proveAdmissibleVectorSnapshotWithBoundary.                               *)
(*                                                                          *)
(* A function of the database is one serializable statement, so one step;   *)
(* one that raises an exception changes nothing.  A client goes from call   *)
(* to call, may lose the answer to the COMMIT of its preparation, and may   *)
(* stop anywhere.  A commit without an answer may still land later.         *)
(***************************************************************************)
EXTENDS Integers, FiniteSets

CONSTANTS
  Rows,             \* evidence that may be appended
  Keys,             \* verification keys: [id, from, until]
  Agency,           \* the agency of the caller
  Retrievers, Retrievals,
  Ttls, FreshTtl,   \* lifetimes a client may ask for; the 30 minute one
  FreshCount,       \* admitted rows the 30 minute lifetime is reserved for
  Limit,            \* results a proof asks for
  Skew,             \* five minutes of tolerated clock difference
  MaxClock, MaxMishaps,
  Nil

VARIABLES
  dbNow,            \* the database clock
  active,           \* ids of the keys that are not revoked
  evidence,         \* g1_evidence joined with its verification receipt
  sets,             \* g1_vector_retrieval_sets
  candidates,       \* g1_vector_candidates: <<retrieval, row>>
  exclusions,       \* g1_vector_exclusions: <<retrieval, row>>
  selections,       \* g1_dvi_selection_receipts
  landing,          \* preparations whose COMMIT is still on its way
  client, mishaps

tableVars == <<active, evidence, sets, candidates, exclusions, selections>>
vectorVars == <<dbNow, tableVars, landing, client, mishaps>>

Time == 0..MaxClock

\* A row names the key that signed it, or Nil when it came in unverified
\* through g1_append_evidence_v1; `near' orders the rows by their distance
\* from the query and then by their id.
ASSUME VectorAssumption ==
  /\ MaxClock \in Nat /\ MaxMishaps \in Nat /\ Skew \in Nat
  /\ Limit \in Nat \ {0} /\ FreshCount \in Nat
  /\ FreshTtl \notin Ttls /\ Ttls \cup {FreshTtl} \subseteq Nat \ {0}
  /\ \A r \in Rows : r.near \in Nat
  /\ \A r, q \in Rows : r.near = q.near => r = q
  /\ \A r \in Rows : r.key \in {k.id : k \in Keys} \cup {Nil}

RetrievalSet ==
  [id: Retrievals, admitted: Time, expires: Nat, count: Nat, cleaned: BOOLEAN]

\* All that one preparation writes.
Snapshots == [set: RetrievalSet, admitted: SUBSET Rows, excluded: SUBSET Rows]

Selection ==
  [id: Retrievals, admitted: Time, expires: Nat, ranked: SUBSET Rows,
   selected: Rows]

States == {"idle", "unknown", "prepared", "ranked", "selected", "failing",
           "failed", "found", "proved"}

\* `set' is what the client knows of its preparation, `top' its results.
ClientState ==
  [state: States, id: Retrievals \cup {Nil}, ttl: Nat, proof: BOOLEAN,
   set: RetrievalSet \cup {Nil}, top: SUBSET Rows]

FreshClient ==
  [state |-> "idle", id |-> Nil, ttl |-> 0, proof |-> FALSE, set |-> Nil,
   top |-> {}]

VectorTypeOK ==
  /\ dbNow \in Time
  /\ active \subseteq {k.id : k \in Keys}
  /\ evidence \subseteq Rows
  /\ sets \subseteq RetrievalSet
  /\ candidates \subseteq Retrievals \X Rows
  /\ exclusions \subseteq Retrievals \X Rows
  /\ selections \subseteq Selection
  /\ landing \subseteq Snapshots
  /\ client \in [Retrievers -> ClientState]
  /\ mishaps \in 0..MaxMishaps

VectorInit ==
  /\ dbNow = 0
  /\ active = {k.id : k \in Keys}
  /\ evidence = {}
  /\ sets = {} /\ candidates = {} /\ exclusions = {} /\ selections = {}
  /\ landing = {}
  /\ client = [c \in Retrievers |-> FreshClient]
  /\ mishaps = 0

-----------------------------------------------------------------------------
(* Evidence. *)

KeyOf(r) == CHOOSE k \in Keys : k.id = r.key

\* The signing key is known, active, and was valid at the observation.
Verified(r) ==
  /\ r.key \in active
  /\ KeyOf(r).from <= r.observed /\ r.observed < KeyOf(r).until

InForce(r, t) ==
  /\ Verified(r)
  /\ r.observed <= t + Skew
  /\ r.from <= t /\ t < r.until

InScope(r) == r.scope \in {Agency, "*"}

\* Another row that counts and says something else of the same claim.
Contradicted(r, t) ==
  \E o \in evidence : o.claim = r.claim /\ o.value # r.value
                        /\ InForce(o, t) /\ InScope(o)

Admissible(r, t) ==
  InForce(r, t) /\ InScope(r) /\ ~r.disputed /\ ~Contradicted(r, t)

OutOfScope(r, t) == InForce(r, t) /\ ~InScope(r)

AdmittedRows(t) == {r \in evidence : Admissible(r, t)}

Excluded(t) == evidence \ AdmittedRows(t)

ClockTicks ==
  /\ dbNow < MaxClock
  /\ dbNow' = dbNow + 1
  /\ UNCHANGED <<tableVars, landing, client, mishaps>>

RevokeKey(k) ==
  /\ active' = active \ {k.id}
  /\ UNCHANGED <<dbNow, evidence, sets, candidates, exclusions, selections, landing, client,
                 mishaps>>

AppendRow(r) ==
  /\ evidence' = evidence \cup {r}
  /\ UNCHANGED <<dbNow, active, sets, candidates, exclusions, selections, landing, client, mishaps>>

\* One id has one row: a second envelope for it is refused.
NotYetHere(r) == \A e \in evidence : e.id = r.id => e = r

AppendEvidence(r) ==
  /\ r.key = Nil
  /\ NotYetHere(r)
  /\ AppendRow(r)

AppendVerifiedEvidence(r) ==
  /\ Verified(r)
  /\ NotYetHere(r)
  /\ AppendRow(r)

-----------------------------------------------------------------------------
(* Vector sets. *)

SetOf(id) == {s \in sets : s.id = id}

CandidatesOf(id) == {r \in Rows : <<id, r>> \in candidates}

\* The 30 minute lifetime is for the one shape of a fresh recovery.
TtlInPolicy(ttl, t) ==
  \/ ttl \in Ttls
  \/ /\ ttl = FreshTtl
     /\ Cardinality(AdmittedRows(t)) = FreshCount
     /\ Cardinality(Excluded(t)) = 1
     /\ \A r \in Excluded(t) : OutOfScope(r, t)

Unused(id) ==
  /\ SetOf(id) = {}
  /\ \A x \in candidates \cup exclusions : x[1] # id

Preparation(id, ttl, t) ==
  [id |-> id, admitted |-> t, expires |-> t + ttl,
   count |-> Cardinality(AdmittedRows(t)), cleaned |-> FALSE]

MayPrepare(id, ttl, t) == TtlInPolicy(ttl, t) /\ Unused(id)

\* What a call of g1_prepare_vector_set_v1 that starts at t is about to write.
SnapshotOf(id, ttl, t) ==
  [set |-> Preparation(id, ttl, t), admitted |-> AdmittedRows(t), excluded |-> Excluded(t)]

\* The rows of a snapshot are written, whenever its COMMIT takes effect.
PreparesSet(p) ==
  /\ Unused(p.set.id)
  /\ sets' = sets \cup {p.set}
  /\ candidates' = candidates \cup ({p.set.id} \X p.admitted)
  /\ exclusions' = exclusions \cup ({p.set.id} \X p.excluded)
  /\ UNCHANGED <<dbNow, active, evidence, selections>>

Resolved(id, ttl) ==
  {s \in SetOf(id) : s.expires = s.admitted + ttl
                       /\ s.count = Cardinality(CandidatesOf(id))}

Live(id) == {s \in SetOf(id) : ~s.cleaned /\ s.expires > dbNow}

\* ORDER BY distance, evidence_id LIMIT n.
Nearest(rows, n) ==
  {r \in rows : Cardinality({q \in rows : q.near < r.near}) < n}

First(rows) == CHOOSE r \in rows : \A q \in rows : r.near <= q.near

\* Fault: retiring a set also forgets its row, so that its id may be used again.
RetireForgets(ids) ==
  /\ candidates' = {x \in candidates : x[1] \notin ids}
  /\ exclusions' = {x \in exclusions : x[1] \notin ids}
  /\ sets' = {s \in sets : s.id \notin ids}

\* Candidates and exclusions go; the row of the set stays, so its id is spent.
Retire(ids) ==
  /\ candidates' = {x \in candidates : x[1] \notin ids}
  /\ exclusions' = {x \in exclusions : x[1] \notin ids}
  /\ sets' = {IF s.id \in ids THEN [s EXCEPT !.cleaned = TRUE] ELSE s : s \in sets}

PurgeExpired ==
  LET due == {s.id : s \in {x \in sets : ~x.cleaned /\ x.expires <= dbNow}}
  IN  /\ due # {}
      /\ Retire(due)
      /\ UNCHANGED <<dbNow, active, evidence, selections, landing, client, mishaps>>

SelectionOf(s, top) ==
  [id |-> s.id, admitted |-> s.admitted, expires |-> s.expires,
   ranked |-> top, selected |-> First(CandidatesOf(s.id))]

\* g1_commit_dvi_selection_v1 ranks again and compares the binding digest the
\* client claims; one selection per retrieval id.
CommitsSelection(claim, top) ==
  /\ \E s \in Live(claim.id) :
       /\ s.admitted = claim.admitted /\ s.expires = claim.expires
       /\ top = Nearest(CandidatesOf(s.id), Limit)
       /\ Cardinality(top) = Limit
       /\ \A x \in selections : x.id = s.id => x = SelectionOf(s, top)
       /\ selections' = selections \cup {SelectionOf(s, top)}
  /\ UNCHANGED <<dbNow, active, evidence, sets, candidates, exclusions>>

-----------------------------------------------------------------------------
(* The clients. *)

\* To another state, with whatever else it has learned.
Becomes(c, s) == client' = [client EXCEPT ![c] = s]

ClientGoes(c, state) == Becomes(c, [client[c] EXCEPT !.state = state])

Knows(c, s) == [client[c] EXCEPT !.state = "prepared", !.set = s]

Mishap ==
  /\ mishaps < MaxMishaps
  /\ mishaps' = mishaps + 1

Call(c, id, ttl, proof) ==
  [FreshClient EXCEPT !.id = id, !.ttl = ttl, !.proof = proof]

\* BEGIN, the function, COMMIT, and the acknowledgement of the COMMIT.
PrepareAnswered(c, id, ttl, proof) ==
  /\ client[c].state = "idle"
  /\ proof \/ ttl # FreshTtl
  /\ MayPrepare(id, ttl, dbNow)
  /\ PreparesSet(SnapshotOf(id, ttl, dbNow))
  /\ Becomes(c, [Call(c, id, ttl, proof) EXCEPT
                   !.state = "prepared", !.set = Preparation(id, ttl, dbNow)])
  /\ UNCHANGED <<landing, mishaps>>

\* The function raises, or the connection fails before the COMMIT is sent:
\* nothing was prepared, nothing is cleaned up.
PrepareRefused(c, id, ttl, proof) ==
  /\ client[c].state = "idle"
  /\ proof \/ ttl # FreshTtl
  /\ \/ ~MayPrepare(id, ttl, dbNow) /\ UNCHANGED mishaps
     \/ Mishap
  /\ Becomes(c, [Call(c, id, ttl, proof) EXCEPT !.state = "failed"])
  /\ UNCHANGED <<dbNow, tableVars, landing>>

\* The COMMIT is sent and no answer comes back.
PrepareUnanswered(c, id, ttl, proof) ==
  /\ client[c].state = "idle"
  /\ proof \/ ttl # FreshTtl
  /\ MayPrepare(id, ttl, dbNow)
  /\ Mishap
  /\ landing' = landing \cup {SnapshotOf(id, ttl, dbNow)}
  /\ Becomes(c, [Call(c, id, ttl, proof) EXCEPT !.state = "unknown"])
  /\ UNCHANGED <<dbNow, tableVars>>

\* Its COMMIT takes effect after all, or never will.
LandsLate(p) ==
  /\ p \in landing
  /\ landing' = landing \ {p}
  /\ \/ PreparesSet(p)
     \/ UNCHANGED <<dbNow, tableVars>>
  /\ UNCHANGED <<client, mishaps>>

\* The function reads: one row, or the unknown outcome is raised.
ResolvePreparation(c) ==
  /\ client[c].state = "unknown"
  /\ \/ \E s \in Resolved(client[c].id, client[c].ttl) : Becomes(c, Knows(c, s))
     \/ Resolved(client[c].id, client[c].ttl) = {} /\ ClientGoes(c, "failed")
  /\ UNCHANGED <<dbNow, tableVars, landing, mishaps>>

\* A retrieval takes what there is, a proof insists on its count.  The fresh
\* proof has the auditor rank the candidates, which looks at no expiry; the
\* others call g1_rank_vector_set_v1.
Rank(c) ==
  LET top == Nearest(CandidatesOf(client[c].id), Limit)
  IN  /\ client[c].state = "prepared"
      /\ Live(client[c].id) # {} \/ client[c].ttl = FreshTtl
      /\ client[c].proof => Cardinality(top) = Limit
      /\ Becomes(c, [client[c] EXCEPT !.state = "ranked", !.top = top])
      /\ UNCHANGED <<dbNow, tableVars, landing, mishaps>>

\* Expired or retired meanwhile, too few results, or the connection failed.
RankFails(c) ==
  /\ client[c].state = "prepared"
  /\ \/ Live(client[c].id) = {} /\ UNCHANGED mishaps
     \/ client[c].proof /\ Cardinality(CandidatesOf(client[c].id)) < Limit /\ UNCHANGED mishaps
     \/ Mishap
  /\ ClientGoes(c, "failing")
  /\ UNCHANGED <<dbNow, tableVars, landing>>

CommitSelection(c) ==
  /\ client[c].state = "ranked" /\ client[c].proof
  /\ CommitsSelection(client[c].set, client[c].top)
  /\ ClientGoes(c, "selected")
  /\ UNCHANGED <<landing, mishaps>>

\* An exception, or an answer that never comes after the row was written.
SelectionFails(c) ==
  /\ client[c].state = "ranked" /\ client[c].proof
  /\ \/ Live(client[c].id) = {} /\ UNCHANGED <<dbNow, tableVars, mishaps>>
     \/ Mishap /\ CommitsSelection(client[c].set, client[c].top)
     \/ Mishap /\ UNCHANGED <<dbNow, tableVars>>
  /\ ClientGoes(c, "failing")
  /\ UNCHANGED landing

\* The `finally' of both clients: the snapshot is deleted, and as many
\* candidates must go as were prepared.
Cleanup(c) ==
  /\ client[c].state \in {"ranked", "selected", "failing"}
  /\ client[c].state = "ranked" => ~client[c].proof
  /\ LET here == CandidatesOf(client[c].id)
         exact == Cardinality(here) = client[c].set.count
     IN  ClientGoes(c, CASE client[c].state = "failing" \/ ~exact -> "failed"
                         [] client[c].state = "ranked" /\ exact -> "found"
                         [] client[c].state = "selected" /\ exact -> "proved")
  /\ Retire({client[c].id})
  /\ UNCHANGED <<dbNow, active, evidence, selections, landing, mishaps>>

\* The delete fails, or the process is gone: the snapshot is left behind.
Abandon(c) ==
  /\ client[c].state \notin {"idle", "failed", "found", "proved"}
  /\ Mishap
  /\ ClientGoes(c, "failed")
  /\ UNCHANGED <<dbNow, tableVars, landing>>

\* A client that is done makes its next call.
Again(c) ==
  /\ client[c].state \in {"failed", "found"}
  /\ Becomes(c, FreshClient)
  /\ UNCHANGED <<dbNow, tableVars, landing, mishaps>>

ClientStep(c) ==
  \/ \E id \in Retrievals, ttl \in Ttls \cup {FreshTtl}, proof \in BOOLEAN :
       PrepareAnswered(c, id, ttl, proof) \/ PrepareRefused(c, id, ttl, proof)
         \/ PrepareUnanswered(c, id, ttl, proof)
  \/ ResolvePreparation(c) \/ Rank(c) \/ RankFails(c)
  \/ CommitSelection(c) \/ SelectionFails(c) \/ Cleanup(c) \/ Abandon(c) \/ Again(c)

EvidenceStep ==
  \/ ClockTicks
  \/ \E k \in Keys : RevokeKey(k)
  \/ \E r \in Rows : AppendEvidence(r) \/ AppendVerifiedEvidence(r)

VectorNext ==
  \/ EvidenceStep \/ PurgeExpired
  \/ \E p \in landing : LandsLate(p)
  \/ \E c \in Retrievers : ClientStep(c)

VectorSpec == VectorInit /\ [][VectorNext]_vectorVars

-----------------------------------------------------------------------------
(* Properties. *)

\* A retrieval id stands for one snapshot for ever, whoever prepared it and
\* however its commit was learned of: every selection under an id, and every
\* proof a client holds, repeats the times of the row that is kept when the
\* snapshot is retired, has the first of that snapshot's ranking selected, and
\* nothing is left of the snapshot once a proof has been given out.
SelectionsAreSnapshots ==
  /\ \A x \in selections :
       /\ \E s \in sets : s.id = x.id /\ s.admitted = x.admitted /\ s.expires = x.expires
       /\ \A y \in selections : y.id = x.id => y = x
       /\ x.selected = First(x.ranked)
       /\ \A s \in SetOf(x.id) : ~s.cleaned => x.ranked = Nearest(CandidatesOf(x.id), Limit)
  /\ \A c \in Retrievers : client[c].state = "proved" =>
       /\ \E x \in selections : x.id = client[c].id /\ x.ranked = client[c].top
                                  /\ x.admitted = client[c].set.admitted
       /\ CandidatesOf(client[c].id) = {}
=============================================================================
