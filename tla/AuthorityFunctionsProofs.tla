---------------------- MODULE AuthorityFunctionsProofs ----------------------
(***************************************************************************)
(* Proofs about the functions of primary-security.js and their clients,     *)
(* VectorRetrieval and AuthorityFunctions, and about the bootstrap that      *)
(* installs them, PrimaryBootstrap.                                         *)
(***************************************************************************)
EXTENDS AuthorityFunctions, PrimaryBootstrap, FiniteSetTheorems, TLAPS

-----------------------------------------------------------------------------
(* Ranking. *)

\* Some row of a set is nearest.
LEMMA NearestExists ==
  ASSUME NEW S \in SUBSET Rows, S # {}
  PROVE  \E r \in S : \A q \in S : r.near <= q.near
  <1> DEFINE T == {r.near : r \in S}
  <1>0. \A r \in S : r.near \in Nat
    BY VectorAssumption
  <1>1. T \subseteq Nat /\ T # {}
    BY <1>0
  <1>2. PICK n \in T : \A m \in T : ~(<<m, n>> \in OpToRel(<, Nat))
    <2> HIDE DEF T
    <2> QED BY <1>1, NatLessThanWellFounded, WFMin
  <1>3. \A m \in T : ~(m < n)
    BY <1>1, <1>2 DEF OpToRel
  <1>4. PICK r \in S : n = r.near
    OBVIOUS
  <1>5. \A q \in S : q.near \in T
    OBVIOUS
  <1>6. \A q \in S : r.near <= q.near
    <2> HIDE DEF T
    <2> QED BY <1>0, <1>3, <1>4, <1>5
  <1> QED BY <1>6

\* First is that row, and it is the only one.
LEMMA FirstIsNearest ==
  ASSUME NEW S \in SUBSET Rows, S # {}
  PROVE  /\ First(S) \in S
         /\ \A q \in S : First(S).near <= q.near
         /\ \A r \in S : (\A q \in S : r.near <= q.near) => r = First(S)
  <1>1. First(S) \in S /\ \A q \in S : First(S).near <= q.near
    <2>1. \E r \in S : \A q \in S : r.near <= q.near
      BY NearestExists
    <2> QED BY <2>1 DEF First
  <1> HIDE DEF First
  <1>2. ASSUME NEW r \in S, \A q \in S : r.near <= q.near PROVE r = First(S)
    <2>1. r.near = First(S).near
      BY <1>1, <1>2, VectorAssumption
    <2> QED BY <1>1, <2>1, VectorAssumption
  <1> QED BY <1>1, <1>2

\* A selection that fills its limit has the first of its ranking selected:
\* g1_commit_dvi_selection_v1 takes it from all candidates, the client from
\* the ranked ones.
LEMMA FirstOfRanking ==
  ASSUME NEW S \in SUBSET Rows, Cardinality(Nearest(S, Limit)) = Limit
  PROVE  /\ First(S) \in Rows
         /\ First(S) = First(Nearest(S, Limit))
  <1>1. Nearest(S, Limit) \subseteq S
    BY DEF Nearest
  <1>2. Nearest(S, Limit) # {}
    <2> SUFFICES ASSUME Nearest(S, Limit) = {} PROVE FALSE
      OBVIOUS
    <2> QED BY FS_EmptySet, VectorAssumption
  <1>3. S # {}
    BY <1>1, <1>2
  <1>4. First(S) \in S /\ \A q \in S : First(S).near <= q.near
    BY <1>3, FirstIsNearest
  <1>5. First(S) \in Nearest(S, Limit)
    <2>1. {q \in S : q.near < First(S).near} = {}
      BY <1>4, VectorAssumption
    <2>2. Cardinality({q \in S : q.near < First(S).near}) = 0
      BY <2>1, FS_EmptySet
    <2> QED BY <1>4, <2>2, VectorAssumption DEF Nearest
  <1>6. First(S) = First(Nearest(S, Limit))
    <2> DEFINE N == Nearest(S, Limit)
    <2>1. N \in SUBSET Rows /\ N # {} /\ First(S) \in N /\ \A q \in N : First(S).near <= q.near
      BY <1>1, <1>2, <1>4, <1>5
    <2> HIDE DEF N
    <2>2. First(S) = First(N)
      BY <2>1, FirstIsNearest
    <2> QED BY <2>2 DEF N
  <1> QED BY <1>1, <1>4, <1>6

-----------------------------------------------------------------------------
(* The shape of the tables and of the clients. *)

\* Evidence is appended one row at a time.
EvidenceIsFinite == IsFiniteSet(evidence)

\* A prepared row is one of g1_vector_retrieval_sets.
LEMMA PreparationType ==
  ASSUME VectorTypeOK, EvidenceIsFinite, NEW id \in Retrievals, NEW ttl \in Nat, NEW t \in Time
  PROVE  /\ Preparation(id, ttl, t) \in RetrievalSet
         /\ Preparation(id, ttl, t).id = id
  <1>1. Cardinality(AdmittedRows(t)) \in Nat
    BY FS_Subset, FS_CardinalityType DEF AdmittedRows, EvidenceIsFinite
  <1>2. t + ttl \in Nat
    BY VectorAssumption DEF Time
  <1> QED BY <1>1, <1>2 DEF Preparation, RetrievalSet

\* So is all that a preparation is about to write.
LEMMA SnapshotType ==
  ASSUME VectorTypeOK, EvidenceIsFinite, NEW id \in Retrievals, NEW ttl \in Nat, NEW t \in Time
  PROVE  SnapshotOf(id, ttl, t) \in Snapshots /\ SnapshotOf(id, ttl, t).set = Preparation(id, ttl, t)
  <1>1. AdmittedRows(t) \subseteq Rows /\ Excluded(t) \subseteq Rows
    BY DEF AdmittedRows, Excluded, VectorTypeOK
  <1>2. Preparation(id, ttl, t) \in RetrievalSet
    BY PreparationType
  <1> QED BY <1>1, <1>2 DEF SnapshotOf, Snapshots

\* Preparing and retiring keep the shape of the tables.
LEMMA TablesType ==
  ASSUME VectorTypeOK, EvidenceIsFinite
  PROVE  /\ \A p \in Snapshots : PreparesSet(p) =>
              /\ sets' \subseteq RetrievalSet /\ candidates' \subseteq Retrievals \X Rows
              /\ exclusions' \subseteq Retrievals \X Rows
         /\ \A ids : Retire(ids) =>
              /\ sets' \subseteq RetrievalSet /\ candidates' \subseteq Retrievals \X Rows
              /\ exclusions' \subseteq Retrievals \X Rows
  <1>1. ASSUME NEW p \in Snapshots, PreparesSet(p)
        PROVE  /\ sets' \subseteq RetrievalSet /\ candidates' \subseteq Retrievals \X Rows
               /\ exclusions' \subseteq Retrievals \X Rows
    <2>1. p.set \in RetrievalSet /\ p.set.id \in Retrievals
      BY DEF Snapshots, RetrievalSet
    <2>2. p.admitted \subseteq Rows /\ p.excluded \subseteq Rows
      BY DEF Snapshots
    <2> QED BY <1>1, <2>1, <2>2 DEF PreparesSet, VectorTypeOK
  <1>2. ASSUME NEW ids, Retire(ids)
        PROVE  /\ sets' \subseteq RetrievalSet /\ candidates' \subseteq Retrievals \X Rows
               /\ exclusions' \subseteq Retrievals \X Rows
    <2>1. \A s \in RetrievalSet : [s EXCEPT !.cleaned = TRUE] \in RetrievalSet
      BY DEF RetrievalSet
    <2> QED BY <1>2, <2>1 DEF Retire, VectorTypeOK
  <1> QED BY <1>1, <1>2

\* What a client may become.
LEMMA ClientType ==
  ASSUME VectorTypeOK, NEW c \in Retrievers
  PROVE  /\ \A s \in ClientState : Becomes(c, s) =>
              /\ client' \in [Retrievers -> ClientState] /\ client'[c] = s
              /\ \A d \in Retrievers : d # c => client'[d] = client[d]
         /\ \A state \in States : ClientGoes(c, state) =>
              /\ client' \in [Retrievers -> ClientState]
              /\ client'[c].state = state /\ client'[c].id = client[c].id
              /\ client'[c].set = client[c].set /\ client'[c].top = client[c].top
              /\ \A d \in Retrievers : d # c => client'[d] = client[d]
  <1>1. client \in [Retrievers -> ClientState]
    BY DEF VectorTypeOK
  <1>2. ASSUME NEW s \in ClientState, Becomes(c, s)
        PROVE  /\ client' \in [Retrievers -> ClientState] /\ client'[c] = s
               /\ \A d \in Retrievers : d # c => client'[d] = client[d]
    BY <1>1, <1>2 DEF Becomes
  <1>3. ASSUME NEW state \in States, ClientGoes(c, state)
        PROVE  /\ client' \in [Retrievers -> ClientState]
               /\ client'[c].state = state /\ client'[c].id = client[c].id
               /\ client'[c].set = client[c].set /\ client'[c].top = client[c].top
               /\ \A d \in Retrievers : d # c => client'[d] = client[d]
    <2> DEFINE s == [client[c] EXCEPT !.state = state]
    <2>1. /\ s \in ClientState /\ s.state = state /\ s.id = client[c].id
          /\ s.set = client[c].set /\ s.top = client[c].top
      BY <1>1 DEF ClientState
    <2>2. Becomes(c, s)
      BY <1>3 DEF ClientGoes
    <2> HIDE DEF s
    <2> QED BY <1>2, <2>1, <2>2
  <1> QED BY <1>2, <1>3

-----------------------------------------------------------------------------
(* Snapshots and selections. *)

\* A retrieval id has one row, cleaned or not.
OneSetPerId == \A s, t \in sets : s.id = t.id => s = t

\* The part of SelectionsAreSnapshots that is about the tables.
SelectionsAreTrue ==
  \A x \in selections :
    /\ \E s \in sets : s.id = x.id /\ s.admitted = x.admitted /\ s.expires = x.expires
    /\ \A y \in selections : y.id = x.id => y = x
    /\ x.selected = First(x.ranked)
    /\ \A s \in SetOf(x.id) : ~s.cleaned => x.ranked = Nearest(CandidatesOf(x.id), Limit)

\* A client that goes on knows the row of its own preparation.
Informed == {"prepared", "ranked", "selected", "failing", "found", "proved"}

KnowsItsSet(c) ==
  client[c].state \in Informed =>
    client[c].set \in RetrievalSet /\ client[c].set.id = client[c].id

\* The selection of a proof stands, and its snapshot is gone once it is given
\* out.
ProofStands(c) ==
  /\ client[c].state \in {"selected", "proved"} =>
       \E x \in selections : /\ x.id = client[c].id /\ x.ranked = client[c].top
                             /\ x.admitted = client[c].set.admitted
  /\ client[c].state = "proved" => CandidatesOf(client[c].id) = {}

VectorInv ==
  /\ VectorTypeOK /\ EvidenceIsFinite
  /\ OneSetPerId /\ SelectionsAreTrue
  /\ \A c \in Retrievers : KnowsItsSet(c) /\ ProofStands(c)

\* What a step on the tables owes to everybody.
TablesKept ==
  /\ OneSetPerId' /\ SelectionsAreTrue'
  /\ selections \subseteq selections'
  /\ \A x \in selections : CandidatesOf(x.id) = {} => CandidatesOf(x.id)' = {}

\* The id of a selection is never prepared again, whoever prepared it.
LEMMA PreparationKeepsTables ==
  ASSUME VectorInv, NEW p, PreparesSet(p)
  PROVE  TablesKept
  <1> DEFINE id == p.set.id
  <1>1. /\ Unused(id) /\ sets' = sets \cup {p.set}
        /\ candidates' = candidates \cup ({id} \X p.admitted) /\ selections' = selections
    BY DEF PreparesSet
  <1>2. p.set.id = id
    OBVIOUS
  <1>3. \A s \in sets : s.id # id
    BY <1>1 DEF Unused, SetOf
  <1> HIDE DEF id
  <1>4. OneSetPerId'
    BY <1>1, <1>2, <1>3 DEF OneSetPerId, VectorInv
  <1>5. ASSUME NEW x \in selections
        PROVE  /\ SetOf(x.id)' = SetOf(x.id) /\ CandidatesOf(x.id)' = CandidatesOf(x.id)
               /\ \E s \in sets' : s.id = x.id /\ s.admitted = x.admitted /\ s.expires = x.expires
    <2>1. PICK s \in sets : s.id = x.id /\ s.admitted = x.admitted /\ s.expires = x.expires
      BY DEF VectorInv, SelectionsAreTrue
    <2>2. x.id # id
      BY <1>3, <2>1
    <2>3. SetOf(x.id)' = SetOf(x.id)
      BY <1>1, <1>2, <2>2 DEF SetOf
    <2>4. CandidatesOf(x.id)' = CandidatesOf(x.id)
      BY <1>1, <2>2 DEF CandidatesOf
    <2> QED BY <1>1, <2>1, <2>3, <2>4
  <1>6. SelectionsAreTrue'
    BY <1>1, <1>5 DEF SelectionsAreTrue, VectorInv
  <1> QED BY <1>1, <1>4, <1>5, <1>6 DEF TablesKept

\* Retiring a snapshot keeps its row.
LEMMA RetirementKeepsTables ==
  ASSUME VectorInv, NEW ids, Retire(ids), UNCHANGED selections
  PROVE  /\ TablesKept
         /\ \A id \in ids : CandidatesOf(id)' = {}
  <1> DEFINE R(s) == IF s.id \in ids THEN [s EXCEPT !.cleaned = TRUE] ELSE s
  <1>1. /\ sets' = {R(s) : s \in sets}
        /\ candidates' = {x \in candidates : x[1] \notin ids}
    BY DEF Retire
  <1>2. \A s \in sets : /\ R(s).id = s.id /\ R(s).admitted = s.admitted /\ R(s).expires = s.expires
                        /\ s.id \in ids => R(s).cleaned
                        /\ s.id \notin ids => R(s) = s
    BY DEF VectorInv, VectorTypeOK, RetrievalSet
  <1> HIDE DEF R
  <1>3. OneSetPerId'
    BY <1>1, <1>2 DEF OneSetPerId, VectorInv
  <1>4. \A id : CandidatesOf(id)' = IF id \in ids THEN {} ELSE CandidatesOf(id)
    BY <1>1 DEF CandidatesOf
  <1>5. ASSUME NEW x \in selections
        PROVE  /\ \E s \in sets' : s.id = x.id /\ s.admitted = x.admitted /\ s.expires = x.expires
               /\ \A s \in SetOf(x.id)' : ~s.cleaned => x.ranked = Nearest(CandidatesOf(x.id)', Limit)
    <2>1. \E s \in sets' : s.id = x.id /\ s.admitted = x.admitted /\ s.expires = x.expires
      BY <1>1, <1>2 DEF VectorInv, SelectionsAreTrue
    <2>2. ASSUME NEW s \in SetOf(x.id)', ~s.cleaned PROVE x.ranked = Nearest(CandidatesOf(x.id)', Limit)
      <3>1. PICK r \in sets : s = R(r)
        BY <1>1 DEF SetOf
      <3>2. r.id = x.id /\ x.id \notin ids /\ s = r
        BY <1>2, <2>2, <3>1 DEF SetOf
      <3>3. r \in SetOf(x.id) /\ ~r.cleaned
        BY <2>2, <3>2 DEF SetOf
      <3>4. CandidatesOf(x.id)' = CandidatesOf(x.id)
        BY <1>4, <3>2
      <3> QED BY <3>3, <3>4 DEF VectorInv, SelectionsAreTrue
    <2> QED BY <2>1, <2>2
  <1>6. SelectionsAreTrue'
    BY <1>5 DEF VectorInv, SelectionsAreTrue
  <1> QED BY <1>3, <1>4, <1>6 DEF TablesKept

\* A second selection under an id is the first one.
LEMMA SelectionKeepsTables ==
  ASSUME VectorInv, NEW claim, NEW top, CommitsSelection(claim, top)
  PROVE  /\ TablesKept /\ selections' \subseteq Selection
         /\ \E x \in selections' : x.id = claim.id /\ x.ranked = top /\ x.admitted = claim.admitted
  <1>1. PICK s \in Live(claim.id) :
          /\ s.admitted = claim.admitted /\ s.expires = claim.expires
          /\ top = Nearest(CandidatesOf(s.id), Limit) /\ Cardinality(top) = Limit
          /\ \A x \in selections : x.id = s.id => x = SelectionOf(s, top)
          /\ selections' = selections \cup {SelectionOf(s, top)}
    BY DEF CommitsSelection
  <1>2. UNCHANGED <<sets, candidates>>
    BY DEF CommitsSelection
  <1>3. s \in sets /\ s \in RetrievalSet /\ s.id = claim.id
    BY <1>1 DEF Live, SetOf, VectorInv, VectorTypeOK
  <1>4. PICK n : n = SelectionOf(s, top)
    OBVIOUS
  <1>5. /\ n.id = s.id /\ n.admitted = s.admitted /\ n.expires = s.expires /\ n.ranked = top
        /\ n.selected = First(CandidatesOf(s.id))
    BY <1>4 DEF SelectionOf
  <1>6. CandidatesOf(s.id) \in SUBSET Rows
    BY DEF CandidatesOf
  <1>7. First(CandidatesOf(s.id)) \in Rows /\ First(CandidatesOf(s.id)) = First(top)
    BY <1>1, <1>6, FirstOfRanking
  <1>8. n \in Selection
    <2>1. top \in SUBSET Rows
      BY <1>1, <1>6 DEF Nearest
    <2> QED BY <1>3, <1>4, <1>7, <2>1 DEF SelectionOf, Selection, RetrievalSet
  <1>9. \A id : CandidatesOf(id)' = CandidatesOf(id) /\ SetOf(id)' = SetOf(id)
    BY <1>2 DEF CandidatesOf, SetOf
  <1>10. SelectionsAreTrue'
    <2> SUFFICES ASSUME NEW x \in selections'
                 PROVE  /\ \E r \in sets : r.id = x.id /\ r.admitted = x.admitted /\ r.expires = x.expires
                        /\ \A y \in selections' : y.id = x.id => y = x
                        /\ x.selected = First(x.ranked)
                        /\ \A r \in SetOf(x.id) : ~r.cleaned => x.ranked = Nearest(CandidatesOf(x.id), Limit)
      BY <1>2, <1>9 DEF SelectionsAreTrue
    <2>1. CASE x = n
      <3>1. \A y \in selections' : y.id = x.id => y = x
        BY <1>1, <1>4, <1>5, <2>1
      <3>2. \A r \in SetOf(x.id) : x.ranked = Nearest(CandidatesOf(x.id), Limit)
        BY <1>1, <1>5, <2>1
      <3> QED BY <1>3, <1>5, <1>7, <2>1, <3>1, <3>2
    <2>2. CASE x # n
      <3>1. x \in selections
        BY <1>1, <1>4, <2>2
      <3>2. x.id # n.id
        BY <1>1, <1>4, <1>5, <2>2, <3>1
      <3> QED BY <1>1, <1>4, <3>1, <3>2 DEF VectorInv, SelectionsAreTrue
    <2> QED BY <2>1, <2>2
  <1>11. OneSetPerId'
    BY <1>2 DEF OneSetPerId, VectorInv
  <1> QED BY <1>1, <1>3, <1>4, <1>5, <1>8, <1>9, <1>10, <1>11 DEF TablesKept, VectorInv, VectorTypeOK

\* Nothing changes in the tables.
LEMMA QuietTables ==
  ASSUME VectorInv, UNCHANGED <<sets, candidates, selections>>
  PROVE  TablesKept
  BY DEF VectorInv, TablesKept, OneSetPerId, SelectionsAreTrue, SetOf, CandidatesOf

\* A client that does not move keeps what it knows, whatever happens to the
\* tables.
LEMMA OtherClientsKeep ==
  ASSUME VectorInv, TablesKept, NEW d \in Retrievers, client'[d] = client[d]
  PROVE  KnowsItsSet(d)' /\ ProofStands(d)'
  <1>1. KnowsItsSet(d) /\ ProofStands(d)
    BY DEF VectorInv
  <1>2. KnowsItsSet(d)'
    BY <1>1 DEF KnowsItsSet
  <1>3. ASSUME client[d].state = "proved" PROVE CandidatesOf(client[d].id)' = {}
    BY <1>1, <1>3 DEF ProofStands, TablesKept
  <1>4. ProofStands(d)'
    BY <1>1, <1>3 DEF ProofStands, TablesKept, CandidatesOf
  <1> QED BY <1>2, <1>4

\* A step of the tables and of at most one client.
LEMMA ClientMoves ==
  ASSUME VectorInv, TablesKept, VectorTypeOK', EvidenceIsFinite', NEW c \in Retrievers,
         \A d \in Retrievers : d # c => client'[d] = client[d],
         KnowsItsSet(c)', ProofStands(c)'
  PROVE  VectorInv'
  <1>1. \A d \in Retrievers : KnowsItsSet(d)' /\ ProofStands(d)'
    BY OtherClientsKeep
  <1> QED BY <1>1 DEF VectorInv, TablesKept

\* A step of the tables alone.
LEMMA TablesMove ==
  ASSUME VectorInv, TablesKept, VectorTypeOK', EvidenceIsFinite', UNCHANGED client
  PROVE  VectorInv'
  <1>1. \A d \in Retrievers : KnowsItsSet(d)' /\ ProofStands(d)'
    BY OtherClientsKeep
  <1> QED BY <1>1 DEF VectorInv, TablesKept

\* A client without a selection has nothing that must stand.
LEMMA NothingToStand ==
  ASSUME NEW c \in Retrievers, client'[c].state \notin {"selected", "proved"}
  PROVE  ProofStands(c)'
  BY DEF ProofStands

\* The calls of a client.
LEMMA ClientStepKeeps ==
  ASSUME VectorInv, NEW c \in Retrievers, ClientStep(c)
  PROVE  VectorInv'
  <1>0. /\ VectorTypeOK /\ EvidenceIsFinite /\ KnowsItsSet(c) /\ ProofStands(c)
        /\ client[c] \in ClientState /\ dbNow \in Time
    BY DEF VectorInv, VectorTypeOK
  <1>a. ASSUME UNCHANGED tableVars PROVE TablesKept /\ EvidenceIsFinite'
    BY <1>0, <1>a, QuietTables DEF tableVars, EvidenceIsFinite
  <1>b. ASSUME UNCHANGED <<dbNow, tableVars, landing>>, client' \in [Retrievers -> ClientState],
               mishaps' \in 0..MaxMishaps
        PROVE  VectorTypeOK'
    BY <1>0, <1>b DEF tableVars, VectorTypeOK
  <1>c. /\ mishaps \in 0..MaxMishaps /\ (Mishap => mishaps' \in 0..MaxMishaps)
    BY <1>0, VectorAssumption DEF VectorTypeOK, Mishap
  <1>d. ASSUME NEW state \in States, ClientGoes(c, state), UNCHANGED <<dbNow, tableVars, landing>>,
               mishaps' \in 0..MaxMishaps,
               state \in Informed => client[c].state \in Informed,
               state \notin {"selected", "proved"}
        PROVE  VectorInv'
    <2>1. /\ client' \in [Retrievers -> ClientState]
          /\ client'[c].state = state /\ client'[c].id = client[c].id
          /\ client'[c].set = client[c].set
          /\ \A d \in Retrievers : d # c => client'[d] = client[d]
      BY <1>0, <1>d, ClientType
    <2>2. KnowsItsSet(c)'
      BY <1>0, <1>d, <2>1 DEF KnowsItsSet
    <2>3. ProofStands(c)'
      BY <1>d, <2>1, NothingToStand
    <2> QED BY <1>a, <1>b, <1>d, <2>1, <2>2, <2>3, ClientMoves
  <1>1. ASSUME NEW id \in Retrievals, NEW ttl \in Ttls \cup {FreshTtl}, NEW proof \in BOOLEAN
        PROVE  PrepareAnswered(c, id, ttl, proof) \/ PrepareRefused(c, id, ttl, proof)
                 \/ PrepareUnanswered(c, id, ttl, proof) => VectorInv'
    <2>0. ttl \in Nat
      BY VectorAssumption
    <2>2. \A state \in States :
            /\ [Call(c, id, ttl, proof) EXCEPT !.state = state] \in ClientState
            /\ [Call(c, id, ttl, proof) EXCEPT !.state = state].state = state
      BY <2>0 DEF Call, FreshClient, ClientState, States
    <2>3. ASSUME PrepareAnswered(c, id, ttl, proof) PROVE VectorInv'
      <3>1. /\ PreparesSet(SnapshotOf(id, ttl, dbNow)) /\ UNCHANGED <<landing, mishaps>>
            /\ Becomes(c, [Call(c, id, ttl, proof) EXCEPT
                             !.state = "prepared", !.set = Preparation(id, ttl, dbNow)])
        BY <2>3 DEF PrepareAnswered
      <3>2. PICK n : n = [Call(c, id, ttl, proof) EXCEPT
                             !.state = "prepared", !.set = Preparation(id, ttl, dbNow)]
        OBVIOUS
      <3>3. Preparation(id, ttl, dbNow) \in RetrievalSet /\ Preparation(id, ttl, dbNow).id = id
        BY <1>0, <2>0, PreparationType
      <3>4. n \in ClientState /\ n.state = "prepared" /\ n.id = id /\ n.set = Preparation(id, ttl, dbNow)
        <4>1. "prepared" \in States
          BY DEF States
        <4>2. PICK set : set = Preparation(id, ttl, dbNow)
          OBVIOUS
        <4>3. set \in RetrievalSet \cup {Nil}
          BY <3>3, <4>2
        <4>4. n = [Call(c, id, ttl, proof) EXCEPT !.state = "prepared", !.set = set]
          BY <3>2, <4>2
        <4>5. n \in ClientState /\ n.state = "prepared" /\ n.id = id /\ n.set = set
          BY <2>0, <4>1, <4>3, <4>4 DEF Call, FreshClient, ClientState
        <4> QED BY <4>2, <4>5
      <3>5. /\ client' \in [Retrievers -> ClientState] /\ client'[c] = n
            /\ \A d \in Retrievers : d # c => client'[d] = client[d]
        BY <1>0, <3>1, <3>2, <3>4, ClientType
      <3>6. KnowsItsSet(c)'
        BY <3>3, <3>4, <3>5 DEF KnowsItsSet
      <3>7. ProofStands(c)'
        BY <3>4, <3>5, NothingToStand
      <3>8. TablesKept
        BY <3>1, PreparationKeepsTables
      <3>9. VectorTypeOK' /\ EvidenceIsFinite'
        <4>1. /\ sets' \subseteq RetrievalSet /\ candidates' \subseteq Retrievals \X Rows
              /\ exclusions' \subseteq Retrievals \X Rows
          BY <1>0, <2>0, <3>1, SnapshotType, TablesType
        <4>2. UNCHANGED <<dbNow, active, evidence, selections>>
          BY <3>1 DEF PreparesSet
        <4> QED BY <1>0, <3>1, <3>5, <4>1, <4>2 DEF VectorTypeOK, EvidenceIsFinite
      <3> QED BY <3>5, <3>6, <3>7, <3>8, <3>9, ClientMoves
    <2>4. ASSUME PrepareRefused(c, id, ttl, proof) PROVE VectorInv'
      <3>1. /\ client' \in [Retrievers -> ClientState] /\ client'[c].state = "failed"
            /\ \A d \in Retrievers : d # c => client'[d] = client[d]
        BY <1>0, <2>2, <2>4, ClientType DEF PrepareRefused, States
      <3>2. KnowsItsSet(c)' /\ ProofStands(c)'
        BY <3>1 DEF KnowsItsSet, ProofStands, Informed
      <3>3. mishaps' \in 0..MaxMishaps /\ UNCHANGED <<dbNow, tableVars, landing>>
        BY <1>c, <2>4 DEF PrepareRefused
      <3> QED BY <1>a, <1>b, <3>1, <3>2, <3>3, ClientMoves
    <2>5. ASSUME PrepareUnanswered(c, id, ttl, proof) PROVE VectorInv'
      <3>1. /\ client' \in [Retrievers -> ClientState] /\ client'[c].state = "unknown"
            /\ \A d \in Retrievers : d # c => client'[d] = client[d]
        <4>1. "unknown" \in States
          BY DEF States
        <4>2. Becomes(c, [Call(c, id, ttl, proof) EXCEPT !.state = "unknown"])
          BY <2>5 DEF PrepareUnanswered
        <4>3. PICK n : n = [Call(c, id, ttl, proof) EXCEPT !.state = "unknown"]
          OBVIOUS
        <4>4. n \in ClientState /\ n.state = "unknown"
          BY <2>2, <4>1, <4>3
        <4> QED BY <1>0, <4>2, <4>3, <4>4, ClientType
      <3>2. KnowsItsSet(c)' /\ ProofStands(c)'
        BY <3>1 DEF KnowsItsSet, ProofStands, Informed
      <3>3. landing' \subseteq Snapshots
        BY <1>0, <2>0, <2>5, SnapshotType DEF PrepareUnanswered, VectorTypeOK
      <3>4. VectorTypeOK'
        BY <1>0, <1>c, <2>5, <3>1, <3>3 DEF PrepareUnanswered, VectorTypeOK, tableVars
      <3> QED BY <1>a, <2>5, <3>1, <3>2, <3>4, ClientMoves DEF PrepareUnanswered
    <2> QED BY <2>3, <2>4, <2>5
  <1>2. ASSUME ResolvePreparation(c) PROVE VectorInv'
    <2>1. UNCHANGED <<dbNow, tableVars, landing, mishaps>>
      BY <1>2 DEF ResolvePreparation
    <2>2. CASE ClientGoes(c, "failed")
      BY <1>c, <1>d, <2>1, <2>2 DEF States, Informed
    <2>3. ASSUME NEW s \in Resolved(client[c].id, client[c].ttl), Becomes(c, Knows(c, s))
          PROVE  VectorInv'
      <3>1. s \in RetrievalSet /\ s.id = client[c].id
        BY <1>0 DEF Resolved, SetOf, VectorTypeOK
      <3>2. PICK n : n = Knows(c, s)
        OBVIOUS
      <3>3. n \in ClientState /\ n.state = "prepared" /\ n.set = s /\ n.id = client[c].id
        BY <1>0, <3>1, <3>2 DEF Knows, ClientState, States
      <3>4. /\ client' \in [Retrievers -> ClientState] /\ client'[c] = n
            /\ \A d \in Retrievers : d # c => client'[d] = client[d]
        BY <1>0, <2>3, <3>2, <3>3, ClientType
      <3>5. KnowsItsSet(c)' /\ ProofStands(c)'
        BY <3>1, <3>3, <3>4 DEF KnowsItsSet, ProofStands
      <3> QED BY <1>a, <1>b, <1>c, <2>1, <3>4, <3>5, ClientMoves
    <2> QED BY <1>2, <2>2, <2>3 DEF ResolvePreparation
  <1>3. ASSUME Rank(c) PROVE VectorInv'
    <2> DEFINE top == Nearest(CandidatesOf(client[c].id), Limit)
    <2>0. top \in SUBSET Rows
      BY DEF Nearest, CandidatesOf
    <2>1. /\ UNCHANGED <<dbNow, tableVars, landing, mishaps>> /\ client[c].state = "prepared"
          /\ Becomes(c, [client[c] EXCEPT !.state = "ranked", !.top = top])
      BY <1>3 DEF Rank
    <2> HIDE DEF top
    <2>2. PICK n : n = [client[c] EXCEPT !.state = "ranked", !.top = top]
      OBVIOUS
    <2>3. n \in ClientState /\ n.state = "ranked" /\ n.set = client[c].set /\ n.id = client[c].id
      BY <1>0, <2>0, <2>2 DEF ClientState, States
    <2>4. /\ client' \in [Retrievers -> ClientState] /\ client'[c] = n
          /\ \A d \in Retrievers : d # c => client'[d] = client[d]
      BY <1>0, <2>1, <2>2, <2>3, ClientType
    <2>5. KnowsItsSet(c)' /\ ProofStands(c)'
      BY <1>0, <2>1, <2>3, <2>4 DEF KnowsItsSet, ProofStands, Informed
    <2> QED BY <1>a, <1>b, <1>c, <2>1, <2>4, <2>5, ClientMoves
  <1>4. ASSUME RankFails(c) PROVE VectorInv'
    BY <1>c, <1>d, <1>4 DEF RankFails, States, Informed
  <1>5. ASSUME NEW state \in {"selected", "failing"}, ClientGoes(c, state),
               client[c].state = "ranked", mishaps' \in 0..MaxMishaps, UNCHANGED landing,
               CommitsSelection(client[c].set, client[c].top)
        PROVE  VectorInv'
    <2>1. /\ client' \in [Retrievers -> ClientState]
          /\ client'[c].state = state /\ client'[c].id = client[c].id
          /\ client'[c].set = client[c].set /\ client'[c].top = client[c].top
          /\ \A d \in Retrievers : d # c => client'[d] = client[d]
      BY <1>0, <1>5, ClientType DEF States
    <2>2. /\ TablesKept /\ selections' \subseteq Selection
          /\ \E x \in selections' : /\ x.id = client[c].set.id /\ x.ranked = client[c].top
                                   /\ x.admitted = client[c].set.admitted
      BY <1>5, SelectionKeepsTables
    <2>3. client[c].set \in RetrievalSet /\ client[c].set.id = client[c].id
      BY <1>0, <1>5 DEF KnowsItsSet, Informed
    <2>4. KnowsItsSet(c)'
      BY <2>1, <2>3 DEF KnowsItsSet
    <2>5. ProofStands(c)'
      BY <2>1, <2>2, <2>3 DEF ProofStands
    <2>6. VectorTypeOK' /\ EvidenceIsFinite'
      BY <1>0, <1>5, <2>1, <2>2 DEF CommitsSelection, VectorTypeOK, EvidenceIsFinite
    <2> QED BY <2>1, <2>2, <2>4, <2>5, <2>6, ClientMoves
  <1>6. ASSUME CommitSelection(c) PROVE VectorInv'
    BY <1>c, <1>5, <1>6 DEF CommitSelection
  <1>7. ASSUME SelectionFails(c) PROVE VectorInv'
    <2>1. CASE CommitsSelection(client[c].set, client[c].top) /\ Mishap
      BY <1>c, <1>5, <1>7, <2>1 DEF SelectionFails
    <2>2. CASE UNCHANGED <<dbNow, tableVars>> /\ mishaps' \in 0..MaxMishaps
      BY <1>d, <1>7, <2>2 DEF SelectionFails, States, Informed
    <2> QED BY <1>c, <1>7, <2>1, <2>2 DEF SelectionFails
  <1>8. ASSUME Cleanup(c) PROVE VectorInv'
    <2>1. PICK state \in {"failed", "found", "proved"} :
            /\ ClientGoes(c, state) /\ (state = "proved" => client[c].state = "selected")
            /\ client[c].state \in Informed
      BY <1>8 DEF Cleanup, Informed
    <2>2. Retire({client[c].id}) /\ UNCHANGED <<dbNow, active, evidence, selections, landing, mishaps>>
      BY <1>8 DEF Cleanup
    <2>3. /\ client' \in [Retrievers -> ClientState]
          /\ client'[c].state = state /\ client'[c].id = client[c].id
          /\ client'[c].set = client[c].set /\ client'[c].top = client[c].top
          /\ \A d \in Retrievers : d # c => client'[d] = client[d]
      BY <1>0, <2>1, ClientType DEF States
    <2>4. TablesKept /\ \A id \in {client[c].id} : CandidatesOf(id)' = {}
      BY <2>2, RetirementKeepsTables
    <2>5. KnowsItsSet(c)'
      BY <1>0, <2>1, <2>3 DEF KnowsItsSet
    <2>6. ProofStands(c)'
      <3>1. CandidatesOf(client[c].id)' = {}
        <4>1. PICK id : id = client[c].id
          OBVIOUS
        <4>2. CandidatesOf(id)' = {}
          BY <2>4, <4>1
        <4> QED BY <2>3, <4>1, <4>2 DEF CandidatesOf
      <3> QED BY <1>0, <2>1, <2>2, <2>3, <3>1 DEF ProofStands, CandidatesOf
    <2>7. VectorTypeOK' /\ EvidenceIsFinite'
      <3>1. /\ sets' \subseteq RetrievalSet /\ candidates' \subseteq Retrievals \X Rows
            /\ exclusions' \subseteq Retrievals \X Rows
        BY <1>0, <2>2, TablesType
      <3> QED BY <1>0, <2>2, <2>3, <3>1 DEF VectorTypeOK, EvidenceIsFinite
    <2> QED BY <2>3, <2>4, <2>5, <2>6, <2>7, ClientMoves
  <1>9. ASSUME Abandon(c) PROVE VectorInv'
    BY <1>c, <1>d, <1>9 DEF Abandon, States, Informed
  <1>10. ASSUME Again(c) PROVE VectorInv'
    <2>1. FreshClient \in ClientState /\ FreshClient.state = "idle"
      BY DEF FreshClient, ClientState, States
    <2>2. /\ client' \in [Retrievers -> ClientState] /\ client'[c].state = "idle"
          /\ \A d \in Retrievers : d # c => client'[d] = client[d]
      BY <1>0, <1>10, <2>1, ClientType DEF Again
    <2>3. KnowsItsSet(c)' /\ ProofStands(c)'
      BY <2>2 DEF KnowsItsSet, ProofStands, Informed
    <2> QED BY <1>a, <1>b, <1>c, <1>10, <2>2, <2>3, ClientMoves DEF Again
  <1> QED BY <1>1, <1>2, <1>3, <1>4, <1>6, <1>7, <1>8, <1>9, <1>10 DEF ClientStep

\* The evidence, the clock, a commit that lands late and the purge.
LEMMA OtherStepsKeep ==
  ASSUME VectorInv, EvidenceStep \/ PurgeExpired \/ \E p \in landing : LandsLate(p)
  PROVE  VectorInv'
  <1>0. /\ VectorTypeOK /\ EvidenceIsFinite
        /\ MaxClock \in Nat /\ dbNow \in Time
    BY VectorAssumption DEF VectorInv, VectorTypeOK
  <1>1. ASSUME UNCHANGED <<sets, candidates, selections, client, exclusions, landing, mishaps>>,
               dbNow' \in Time, active' \subseteq {k.id : k \in Keys}, evidence' \subseteq Rows,
               EvidenceIsFinite'
        PROVE  VectorInv'
    <2>1. VectorTypeOK'
      BY <1>0, <1>1 DEF VectorTypeOK
    <2> QED BY <1>1, <2>1, QuietTables, TablesMove
  <1>2. ASSUME ClockTicks PROVE VectorInv'
    BY <1>0, <1>1, <1>2 DEF ClockTicks, tableVars, Time, VectorTypeOK, EvidenceIsFinite
  <1>3. ASSUME NEW k \in Keys, RevokeKey(k) PROVE VectorInv'
    BY <1>0, <1>1, <1>3 DEF RevokeKey, VectorTypeOK, EvidenceIsFinite
  <1>4. ASSUME NEW r \in Rows, AppendRow(r) PROVE VectorInv'
    <2>1. EvidenceIsFinite'
      BY <1>0, <1>4, FS_AddElement DEF AppendRow, EvidenceIsFinite
    <2> QED BY <1>0, <1>1, <1>4, <2>1 DEF AppendRow, VectorTypeOK
  <1>5. ASSUME PurgeExpired PROVE VectorInv'
    <2>1. PICK due : Retire(due)
      BY <1>5 DEF PurgeExpired
    <2>2. UNCHANGED <<dbNow, active, evidence, selections, landing, client, mishaps>>
      BY <1>5 DEF PurgeExpired
    <2>3. /\ sets' \subseteq RetrievalSet /\ candidates' \subseteq Retrievals \X Rows
          /\ exclusions' \subseteq Retrievals \X Rows
      BY <1>0, <2>1, TablesType
    <2>4. VectorTypeOK' /\ EvidenceIsFinite'
      BY <1>0, <2>2, <2>3 DEF VectorTypeOK, EvidenceIsFinite
    <2> QED BY <2>1, <2>2, <2>4, RetirementKeepsTables, TablesMove
  <1>6. ASSUME NEW p \in landing, LandsLate(p) PROVE VectorInv'
    <2>0. p \in Snapshots
      BY <1>0 DEF VectorTypeOK
    <2>1. landing' \subseteq landing /\ UNCHANGED <<client, mishaps>>
      BY <1>6 DEF LandsLate
    <2>2. CASE PreparesSet(p)
      <3>1. /\ sets' \subseteq RetrievalSet /\ candidates' \subseteq Retrievals \X Rows
            /\ exclusions' \subseteq Retrievals \X Rows
        BY <1>0, <2>0, <2>2, TablesType
      <3>2. UNCHANGED <<dbNow, active, evidence, selections>>
        BY <2>2 DEF PreparesSet
      <3>3. VectorTypeOK' /\ EvidenceIsFinite'
        BY <1>0, <2>1, <3>1, <3>2 DEF VectorTypeOK, EvidenceIsFinite
      <3> QED BY <2>1, <2>2, <3>3, PreparationKeepsTables, TablesMove
    <2>3. CASE UNCHANGED <<dbNow, tableVars>>
      <3>1. VectorTypeOK' /\ EvidenceIsFinite'
        BY <1>0, <2>1, <2>3 DEF VectorTypeOK, EvidenceIsFinite, tableVars
      <3> QED BY <2>1, <2>3, <3>1, QuietTables, TablesMove DEF tableVars
    <2> QED BY <1>6, <2>2, <2>3 DEF LandsLate
  <1> QED BY <1>2, <1>3, <1>4, <1>5, <1>6 DEF EvidenceStep, AppendEvidence, AppendVerifiedEvidence

-----------------------------------------------------------------------------
(* What every function call does to the clock. *)

\* A function ends at a reading of the clock that is not before its start.
LEMMA StepsEnd ==
  ASSUME dbNow \in Time, FunctionStep
  PROVE  \E t \in Time : dbNow <= t /\ EndsAt(t)
  <1>0. MaxClock \in Nat /\ dbNow \in Nat
    BY VectorAssumption DEF Time
  <1>1. PICK t \in dbNow..MaxClock :
          \/ \E a \in Actions, id \in Retrievals, row \in Rows :
               Authorize(a, id, row, t) \/ AuthorizeAgain(a, id, row, t)
          \/ \E op \in Ops, r \in Requests, u \in t..MaxClock :
               Spend(op, r, t, u) \/ SpendRace(op, r, t, u)
          \/ \E x \in receipts : RecordProtectedEffect(x, t) \/ SourceSnapshot(x, t)
    BY DEF FunctionStep
  <1>2. t \in Time /\ dbNow <= t /\ \A u \in t..MaxClock : u \in Time /\ dbNow <= u
    BY <1>0 DEF Time
  <1>3. CASE \E a \in Actions, id \in Retrievals, row \in Rows :
               Authorize(a, id, row, t) \/ AuthorizeAgain(a, id, row, t)
    BY <1>2, <1>3 DEF Authorize, AuthorizeAgain
  <1>4. ASSUME NEW op \in Ops, NEW r \in Requests, NEW u \in t..MaxClock, Spend(op, r, t, u)
        PROVE  \E v \in Time : dbNow <= v /\ EndsAt(v)
    BY <1>2, <1>4 DEF Spend, SpendDenied, SpendHeld, SpendReserved, SpendAnswered, Deny
  <1>5. CASE \E x \in receipts : RecordProtectedEffect(x, t) \/ SourceSnapshot(x, t)
    BY <1>2, <1>5 DEF RecordProtectedEffect, SourceSnapshot
  <1> QED BY <1>1, <1>3, <1>4, <1>5 DEF SpendRace

-----------------------------------------------------------------------------
(* The invariant of the retrieval side, within the whole of the functions. *)

\* It holds at first, and no call of a client or of a function breaks it.
LEMMA VectorInvHolds ==
  /\ VectorInit => VectorInv
  /\ VectorInv /\ [FunctionNext]_functionVars => VectorInv'
  <1>1. ASSUME VectorInit PROVE VectorInv
    <2>1. FreshClient \in ClientState /\ FreshClient.state = "idle"
      BY DEF FreshClient, ClientState, States
    <2>2. VectorTypeOK
      BY <1>1, <2>1, VectorAssumption DEF VectorInit, VectorTypeOK, Time
    <2>3. EvidenceIsFinite
      BY <1>1, FS_EmptySet DEF VectorInit, EvidenceIsFinite
    <2>4. OneSetPerId /\ SelectionsAreTrue
      BY <1>1 DEF VectorInit, OneSetPerId, SelectionsAreTrue
    <2>5. \A c \in Retrievers : KnowsItsSet(c) /\ ProofStands(c)
      BY <1>1, <2>1 DEF VectorInit, KnowsItsSet, ProofStands, Informed
    <2> QED BY <2>2, <2>3, <2>4, <2>5 DEF VectorInv
  <1>2. ASSUME VectorInv, NEW t \in Time, EndsAt(t) PROVE VectorInv'
    <2>1. VectorTypeOK' /\ EvidenceIsFinite'
      BY <1>2 DEF VectorInv, VectorTypeOK, EvidenceIsFinite, EndsAt, tableVars
    <2> QED BY <1>2, <2>1, QuietTables, TablesMove DEF EndsAt, tableVars
  <1>3. ASSUME VectorInv, FunctionStep PROVE \E t \in Time : EndsAt(t)
    BY <1>3, StepsEnd DEF VectorInv, VectorTypeOK
  <1>4. ASSUME VectorInv, UNCHANGED functionVars PROVE VectorInv'
    <2>1. UNCHANGED <<dbNow, tableVars, landing, client, mishaps>>
      BY <1>4 DEF functionVars, vectorVars
    <2>2. VectorTypeOK' /\ EvidenceIsFinite'
      BY <1>4, <2>1 DEF VectorInv, VectorTypeOK, EvidenceIsFinite, tableVars
    <2> QED BY <1>4, <2>1, <2>2, QuietTables, TablesMove DEF tableVars
  <1>5. ASSUME VectorInv, VectorNext PROVE VectorInv'
    BY <1>5, ClientStepKeeps, OtherStepsKeep DEF VectorNext
  <1> QED BY <1>1, <1>2, <1>3, <1>4, <1>5 DEF FunctionNext

\* VectorRetrieval.SelectionsAreSnapshots: a retrieval id stands for one
\* snapshot for ever, and the proof of proveAdmissibleVectorSnapshotWithBoundary
\* repeats the row of its selection and leaves no candidate behind, whatever
\* commits land late, however many clients share an id, for every set of rows,
\* keys, lifetimes and limits.
THEOREM SnapshotsStand == FunctionSpec => []SelectionsAreSnapshots
  <1>1. VectorInv => SelectionsAreSnapshots
    BY DEF VectorInv, SelectionsAreTrue, ProofStands, SelectionsAreSnapshots
  <1> QED BY <1>1, VectorInvHolds, PTL DEF FunctionSpec

-----------------------------------------------------------------------------
(* Reservations, effects and sources. *)

\* The reservations of a resource.
On(q) == {y \in Reserved : y.request.action.resource = q}

\* An action is authorized once, from a selection that stays.
ProposalStands(p) ==
  /\ p.action \in epochs /\ p.selection \in selections
  /\ \A q \in proposals : q.action = p.action => q = p

\* The row of the resource is at least as far as each of its reservations.
Placed(x) ==
  /\ x.request.action.resource \in DOMAIN RunOf
  /\ x.fence <= resource[x.request.action.resource].fence
  /\ x.lease <= resource[x.request.action.resource].lease
  /\ resource[x.request.action.resource].holder # Nil
  /\ x.from <= dbNow

Backed(x) ==
  \E p \in ProposalOf(x.request) :
    p.selection \in selections /\ x.judged < p.selection.expires /\ x.from < p.selection.expires

Apart(x, y) ==
  x # y => /\ x.request.action # y.request.action
           /\ x.request.action.resource = y.request.action.resource =>
                IF x.fence < y.fence THEN x.lease <= y.from ELSE y.fence < x.fence

\* The fence of a resource counts its reservations.
Counted(q) == Cardinality(On(q)) = resource[q].fence

\* x held its resource at the instant `at'.
WasHolding(x, at) ==
  /\ x.from <= at /\ at < x.lease
  /\ \A y \in Reserved : y.request.action.resource = x.request.action.resource
                           /\ y.fence > x.fence => at <= y.from

EffectStands(e) ==
  /\ e.at <= dbNow
  /\ \E x \in Reserved : e.op = x.op /\ e.fence = x.fence /\ WasHolding(x, e.at)
  /\ \A d \in effects : d.op = e.op => d = e

SourceStands(s) ==
  /\ s.at <= dbNow
  /\ \E x \in Reserved :
       /\ x.op = s.op /\ WasHolding(x, s.at)
       /\ \E p \in ProposalOf(x.request) :
            s.at < p.selection.expires /\ s.at < p.selection.selected.until

ReservationInv ==
  /\ \A x \in Reserved : Placed(x) /\ Backed(x)
  /\ \A x, y \in Reserved : Apart(x, y)
  /\ \A q \in DOMAIN RunOf : Counted(q)

FunctionInv ==
  /\ VectorInv /\ FunctionTypeOK /\ IsFiniteSet(receipts)
  /\ \A p \in proposals : ProposalStands(p)
  /\ ReservationInv
  /\ \A e \in effects : EffectStands(e)
  /\ \A s \in sources : SourceStands(s)

\* Selections stay and the clock does not go back, whatever a client does.
LEMMA ClockAndSelections ==
  ASSUME VectorInv, [FunctionNext]_functionVars
  PROVE  dbNow' \in Time /\ dbNow <= dbNow' /\ selections \subseteq selections'
  <1>0. dbNow \in Time /\ dbNow \in Nat /\ MaxClock \in Nat
    BY VectorAssumption DEF VectorInv, VectorTypeOK, Time
  <1>1. ASSUME FunctionStep PROVE dbNow <= dbNow' /\ selections \subseteq selections'
    <2>1. PICK t \in Time : dbNow <= t /\ EndsAt(t)
      BY <1>0, <1>1, StepsEnd
    <2> QED BY <2>1 DEF EndsAt, tableVars
  <1>2. ASSUME UNCHANGED <<dbNow, selections>> PROVE dbNow <= dbNow' /\ selections \subseteq selections'
    BY <1>0, <1>2
  <1>3. ASSUME EvidenceStep PROVE dbNow <= dbNow' /\ selections \subseteq selections'
    BY <1>0, <1>3 DEF EvidenceStep, ClockTicks, RevokeKey, AppendEvidence, AppendVerifiedEvidence, AppendRow, tableVars
  <1>4. ASSUME PurgeExpired PROVE UNCHANGED <<dbNow, selections>>
    BY <1>4 DEF PurgeExpired
  <1>5. ASSUME NEW p \in landing, LandsLate(p) PROVE UNCHANGED <<dbNow, selections>>
    BY <1>5 DEF LandsLate, PreparesSet, tableVars
  <1>6. ASSUME NEW claim, NEW top, CommitsSelection(claim, top)
        PROVE  dbNow <= dbNow' /\ selections \subseteq selections'
    BY <1>0, <1>6 DEF CommitsSelection
  <1>7. ASSUME NEW c \in Retrievers, ClientStep(c) PROVE dbNow <= dbNow' /\ selections \subseteq selections'
    <2>1. ASSUME NEW id, NEW ttl, NEW proof,
                 PrepareAnswered(c, id, ttl, proof) \/ PrepareRefused(c, id, ttl, proof)
                   \/ PrepareUnanswered(c, id, ttl, proof)
          PROVE  UNCHANGED <<dbNow, selections>>
      BY <2>1 DEF PrepareAnswered, PreparesSet, PrepareRefused, PrepareUnanswered, tableVars
    <2>2. ASSUME \/ ResolvePreparation(c) \/ Rank(c) \/ RankFails(c)
                 \/ Cleanup(c) \/ Abandon(c) \/ Again(c)
          PROVE  UNCHANGED <<dbNow, selections>>
      BY <2>2 DEF ResolvePreparation, Rank, RankFails, Cleanup, Abandon, Again, tableVars
    <2>3. ASSUME CommitSelection(c) \/ SelectionFails(c)
          PROVE  UNCHANGED <<dbNow, selections>> \/ CommitsSelection(client[c].set, client[c].top)
      BY <2>3 DEF CommitSelection, SelectionFails, tableVars
    <2> QED BY <1>2, <1>6, <1>7, <2>1, <2>2, <2>3 DEF ClientStep
  <1>8. ASSUME UNCHANGED functionVars PROVE UNCHANGED <<dbNow, selections>>
    BY <1>8 DEF functionVars, vectorVars, tableVars
  <1>9. dbNow' \in Time
    BY VectorInvHolds DEF VectorInv, VectorTypeOK
  <1> QED BY <1>1, <1>2, <1>3, <1>4, <1>5, <1>7, <1>8, <1>9 DEF FunctionNext, VectorNext

\* What was held, recorded or given out stays so, while proposals and
\* reservations are only added and a new reservation starts later.
LEMMA PastStands ==
  ASSUME FunctionInv, dbNow' \in Time, dbNow <= dbNow', selections \subseteq selections',
         proposals \subseteq proposals', Reserved \subseteq Reserved',
         \A y \in Reserved' : y \in Reserved \/ (y.from \in Time /\ dbNow <= y.from)
  PROVE  /\ \A x \in Reserved : Backed(x)'
         /\ \A e \in effects : e.at <= dbNow' /\
              \E x \in Reserved' : e.op = x.op /\ e.fence = x.fence /\ WasHolding(x, e.at)'
         /\ \A s \in sources : SourceStands(s)'
  <1>0. dbNow \in Nat /\ dbNow' \in Nat
    BY VectorAssumption DEF FunctionInv, VectorInv, VectorTypeOK, Time
  <1>1. \A r : ProposalOf(r) \subseteq ProposalOf(r)'
    BY DEF ProposalOf
  <1>2. ASSUME NEW x \in Reserved PROVE Backed(x)'
    <2>1. Backed(x)
      BY DEF FunctionInv, ReservationInv
    <2> QED BY <1>1, <2>1 DEF Backed
  <1>3. ASSUME NEW x \in Reserved, NEW at \in Nat, at <= dbNow, WasHolding(x, at)
        PROVE  WasHolding(x, at)'
    <2>1. \A y \in Reserved' : y \in Reserved \/ (y.from \in Nat /\ dbNow <= y.from)
      BY VectorAssumption DEF Time
    <2> QED BY <1>0, <1>3, <2>1 DEF WasHolding
  <1>4. ASSUME NEW e \in effects
        PROVE  e.at <= dbNow' /\
               \E x \in Reserved' : e.op = x.op /\ e.fence = x.fence /\ WasHolding(x, e.at)'
    <2>1. EffectStands(e) /\ e.at \in Nat
      BY VectorAssumption DEF FunctionInv, FunctionTypeOK, Time
    <2>2. PICK x \in Reserved : e.op = x.op /\ e.fence = x.fence /\ WasHolding(x, e.at)
      BY <2>1 DEF EffectStands
    <2>3. e.at <= dbNow /\ e.at <= dbNow'
      BY <1>0, <2>1 DEF EffectStands
    <2> QED BY <1>3, <2>1, <2>2, <2>3
  <1>5. ASSUME NEW s \in sources PROVE SourceStands(s)'
    <2>1. SourceStands(s) /\ s.at \in Nat
      BY VectorAssumption DEF FunctionInv, FunctionTypeOK, Time
    <2>2. PICK x \in Reserved :
            /\ x.op = s.op /\ WasHolding(x, s.at)
            /\ \E p \in ProposalOf(x.request) :
                 s.at < p.selection.expires /\ s.at < p.selection.selected.until
      BY <2>1 DEF SourceStands
    <2>3. s.at <= dbNow /\ s.at <= dbNow'
      BY <1>0, <2>1 DEF SourceStands
    <2>4. WasHolding(x, s.at)'
      BY <1>3, <2>1, <2>2, <2>3
    <2> QED BY <1>1, <2>2, <2>3, <2>4 DEF SourceStands
  <1> QED BY <1>2, <1>4, <1>5

\* Without a new reservation the resource rows stay as they are.
LEMMA NoReservation ==
  ASSUME FunctionInv, dbNow' \in Time, dbNow <= dbNow', selections \subseteq selections',
         proposals \subseteq proposals', Reserved' = Reserved, UNCHANGED resource
  PROVE  ReservationInv'
  <1>0. dbNow \in Nat /\ dbNow' \in Nat
    BY VectorAssumption DEF FunctionInv, VectorInv, VectorTypeOK, Time
  <1>1. \A x \in Reserved : Backed(x)'
    BY PastStands
  <1>2. ASSUME NEW x \in Reserved PROVE Placed(x)'
    <2>1. Placed(x) /\ x.from \in Nat
      BY VectorAssumption DEF FunctionInv, ReservationInv, FunctionTypeOK, Receipt, Reserved, Time
    <2> QED BY <1>0, <2>1 DEF Placed
  <1>3. \A x, y \in Reserved : Apart(x, y)'
    BY DEF FunctionInv, ReservationInv, Apart
  <1>4. \A q \in DOMAIN RunOf : Counted(q)'
    BY DEF FunctionInv, ReservationInv, Counted, On
  <1> QED BY <1>1, <1>2, <1>3, <1>4 DEF ReservationInv

\* A reservation takes the next fence, once everything before it has run out.
LEMMA ReservationKeeps ==
  ASSUME FunctionInv, NEW op \in Ops, NEW r \in Requests, NEW t \in Time, NEW u \in Time,
         dbNow <= t, t <= u, SpendReserved(op, r, t, u)
  PROVE  /\ ReservationInv' /\ IsFiniteSet(receipts') /\ receipts' \subseteq Receipt
         /\ resource' \in [DOMAIN RunOf -> Held] /\ Reserved \subseteq Reserved'
         /\ \A y \in Reserved' : y \in Reserved \/ (y.from \in Time /\ dbNow <= y.from)
  <1> DEFINE q == r.action.resource
  <1>1. PICK p \in ProposalOf(r) :
          /\ Acquirable(op, r, p, t, u) /\ Unheld(q, u)
          /\ resource' = [resource EXCEPT ![q] =
                            [fence |-> @.fence + 1, holder |-> op, lease |-> u + r.lease]]
          /\ receipts' = receipts \cup
               {ReceiptFor(op, r, "resource_reserved", resource[q].fence + 1, u, u + r.lease)}
          /\ EndsAt(u) /\ UNCHANGED <<epochs, proposals, effects, sources>>
    BY DEF SpendReserved
  <1>2. /\ Unanswered(op, r) /\ q \in DOMAIN RunOf /\ u < p.selection.expires
    BY <1>1 DEF Acquirable, Decides
  <1> HIDE DEF q
  <1>3. PICK n : n = ReceiptFor(op, r, "resource_reserved", resource[q].fence + 1, u, u + r.lease)
    OBVIOUS
  <1>4. /\ n.op = op /\ n.request = r /\ n.outcome = "resource_reserved"
        /\ n.fence = resource[q].fence + 1 /\ n.judged = dbNow /\ n.from = u /\ n.lease = u + r.lease
    BY <1>3 DEF ReceiptFor
  <1>5. /\ dbNow \in Nat /\ t \in Nat /\ u \in Nat /\ r.lease \in Nat /\ dbNow <= u
        /\ dbNow \in Time /\ dbNow' = u
    BY <1>1, VectorAssumption, FunctionAssumption
       DEF FunctionInv, VectorInv, VectorTypeOK, Time, EndsAt
  <1>6. /\ resource \in [DOMAIN RunOf -> Held] /\ resource[q] \in Held
        /\ resource[q].fence \in Nat /\ resource[q].lease \in Nat
    BY <1>2 DEF FunctionInv, FunctionTypeOK, Held
  <1>7. /\ \A o \in DOMAIN RunOf : o # q => resource'[o] = resource[o]
        /\ resource'[q].fence = resource[q].fence + 1 /\ resource'[q].holder = op
        /\ resource'[q].lease = u + r.lease
        /\ resource' \in [DOMAIN RunOf -> Held]
    BY <1>1, <1>2, <1>5, <1>6 DEF Held
  <1>8. n \in Receipt
    BY <1>3, <1>5, <1>6 DEF ReceiptFor, Receipt, Outcomes
  <1>9. receipts' \subseteq Receipt /\ IsFiniteSet(receipts')
    BY <1>1, <1>3, <1>8, FS_AddElement DEF FunctionInv, FunctionTypeOK
  <1>10. /\ Reserved' = Reserved \cup {n} /\ n \notin Reserved
         /\ \A x \in Reserved : x.request.action # r.action
    BY <1>1, <1>2, <1>3, <1>4 DEF Reserved, Unanswered, SpentBy
  <1>11. \A x \in Reserved : /\ x.fence \in Nat /\ x.lease \in Nat /\ x.from \in Nat
                              /\ Placed(x) /\ Backed(x)
    BY VectorAssumption DEF FunctionInv, FunctionTypeOK, ReservationInv, Reserved, Receipt, Time
  <1>12. \A x \in Reserved : x.request.action.resource = q =>
           x.lease <= u /\ x.fence <= resource[q].fence
    BY <1>1, <1>5, <1>6, <1>11 DEF Placed, Unheld
  <1>13. ASSUME NEW x \in Reserved' PROVE Placed(x)'
    <2>1. CASE x = n
      <3>1. x.request.action.resource = q
        BY <1>4, <2>1 DEF q
      <3> QED BY <1>2, <1>4, <1>5, <1>6, <1>7, <2>1, <3>1, FunctionAssumption DEF Placed
    <2>2. CASE x \in Reserved
      <3>1. Placed(x) /\ x.fence \in Nat /\ x.lease \in Nat /\ x.from \in Nat
        BY <1>11, <2>2
      <3>2. x.from <= dbNow'
        BY <1>5, <3>1 DEF Placed
      <3>3. CASE x.request.action.resource = q
        <4>1. x.lease <= u /\ x.fence <= resource[q].fence
          BY <1>12, <2>2, <3>3
        <4>2. x.fence <= resource'[q].fence /\ x.lease <= resource'[q].lease /\ resource'[q].holder # Nil
          BY <1>5, <1>6, <1>7, <3>1, <4>1, FunctionAssumption
        <4> QED BY <1>2, <3>2, <3>3, <4>2 DEF Placed
      <3>4. CASE x.request.action.resource # q
        <4>1. resource'[x.request.action.resource] = resource[x.request.action.resource]
          BY <1>7, <3>1, <3>4 DEF Placed
        <4> QED BY <3>1, <3>2, <4>1 DEF Placed
      <3> QED BY <3>3, <3>4
    <2> QED BY <1>10, <2>1, <2>2
  <1>14. selections' = selections /\ proposals' = proposals
    BY <1>1 DEF EndsAt, tableVars
  <1>15. ASSUME NEW x \in Reserved' PROVE Backed(x)'
    <2>1. ProposalOf(x.request)' = ProposalOf(x.request)
      BY <1>14 DEF ProposalOf
    <2>2. CASE x = n
      <3>1. /\ p \in proposals /\ p.selection \in selections /\ p.selection.expires \in Nat
        BY DEF ProposalOf, FunctionInv, ProposalStands, FunctionTypeOK, VectorTypeOK, Selection
      <3>2. x.judged < p.selection.expires /\ x.from < p.selection.expires
        BY <1>2, <1>4, <1>5, <2>2, <3>1
      <3> QED BY <1>4, <1>14, <2>1, <2>2, <3>1, <3>2 DEF Backed
    <2>3. CASE x \in Reserved
      BY <1>11, <1>14, <2>1, <2>3 DEF Backed
    <2> QED BY <1>10, <2>2, <2>3
  <1>16. ASSUME NEW x \in Reserved', NEW y \in Reserved' PROVE Apart(x, y)
    <2>1. CASE x \in Reserved /\ y \in Reserved
      BY <2>1 DEF FunctionInv, ReservationInv
    <2>2. CASE x = n /\ y \in Reserved
      <3>1. y.request.action # x.request.action
        BY <1>4, <1>10, <2>2
      <3>2. x.request.action.resource = y.request.action.resource => y.fence < x.fence /\ ~(x.fence < y.fence)
        BY <1>4, <1>6, <1>11, <1>12, <2>2 DEF q
      <3> QED BY <3>1, <3>2 DEF Apart
    <2>3. CASE x \in Reserved /\ y = n
      <3>1. y.request.action # x.request.action
        BY <1>4, <1>10, <2>3
      <3>2. x.request.action.resource = y.request.action.resource => x.fence < y.fence /\ x.lease <= y.from
        BY <1>4, <1>6, <1>11, <1>12, <2>3 DEF q
      <3> QED BY <3>1, <3>2 DEF Apart
    <2>4. CASE x = n /\ y = n
      BY <2>4 DEF Apart
    <2> QED BY <1>10, <2>1, <2>2, <2>3, <2>4
  <1>17. ASSUME NEW o \in DOMAIN RunOf PROVE Counted(o)'
    <2>1. Counted(o) /\ IsFiniteSet(On(o))
      BY FS_Subset DEF FunctionInv, ReservationInv, On, Reserved
    <2>2. CASE o = q
      <3>1. On(o)' = On(o) \cup {n} /\ n \notin On(o)
        BY <1>4, <1>10, <2>2 DEF On, q
      <3>2. Cardinality(On(o) \cup {n}) = Cardinality(On(o)) + 1
        BY <2>1, <3>1, FS_AddElement
      <3> QED BY <1>7, <2>1, <2>2, <3>1, <3>2 DEF Counted
    <2>3. CASE o # q
      <3>1. On(o)' = On(o)
        BY <1>4, <1>10, <2>3 DEF On, q
      <3> QED BY <1>7, <2>1, <2>3, <3>1 DEF Counted
    <2> QED BY <2>2, <2>3
  <1>18. ReservationInv'
    BY <1>13, <1>15, <1>16, <1>17 DEF ReservationInv, Apart
  <1> QED BY <1>4, <1>5, <1>7, <1>9, <1>10, <1>18

\* A receipt that is current holds its resource now.
LEMMA CurrentHolds ==
  ASSUME FunctionInv, NEW x, NEW t \in Time, dbNow <= t, Current(x, t)
  PROVE  x \in Reserved /\ WasHolding(x, t)
  <1>1. x \in Reserved /\ t < x.lease
        /\ resource[x.request.action.resource] = [fence |-> x.fence, holder |-> x.op, lease |-> x.lease]
    BY DEF Current
  <1>2. dbNow \in Nat /\ t \in Nat
    BY VectorAssumption DEF FunctionInv, VectorInv, VectorTypeOK, Time
  <1>3. \A y \in Reserved : Placed(y) /\ y.fence \in Nat /\ y.from \in Nat
    BY VectorAssumption DEF FunctionInv, FunctionTypeOK, ReservationInv, Reserved, Receipt, Time
  <1>4. x.from <= t
    BY <1>1, <1>2, <1>3 DEF Placed
  <1>5. resource[x.request.action.resource].fence = x.fence
    BY <1>1
  <1>6. \A y \in Reserved : y.request.action.resource = x.request.action.resource => ~(y.fence > x.fence)
    BY <1>1, <1>3, <1>5 DEF Placed
  <1> QED BY <1>1, <1>4, <1>6 DEF WasHolding

\* Only SpendReserved adds a reservation; every other step leaves the
\* receipts, or adds a denial.
LEMMA FunctionInvStep ==
  ASSUME FunctionInv, [FunctionNext]_functionVars
  PROVE  FunctionInv'
  <1>0. /\ VectorInv' /\ VectorTypeOK' /\ dbNow' \in Time /\ dbNow <= dbNow' /\ selections \subseteq selections'
        /\ dbNow \in Time /\ dbNow \in Nat /\ MaxClock \in Nat
    BY ClockAndSelections, VectorInvHolds, VectorAssumption DEF FunctionInv, VectorInv, VectorTypeOK, Time
  <1>a. FunctionTypeOK /\ IsFiniteSet(receipts)
    BY DEF FunctionInv
  <1>1. ASSUME UNCHANGED authorityVars PROVE FunctionInv'
    <2>0. UNCHANGED <<epochs, proposals, receipts, resource, effects, sources>>
      BY <1>1 DEF authorityVars
    <2>1. Reserved' = Reserved
      BY <2>0 DEF Reserved
    <2>2. ReservationInv'
      BY <1>0, <2>0, <2>1, NoReservation
    <2>3. \A e \in effects' : EffectStands(e)'
      BY <1>0, <2>0, <2>1, PastStands DEF EffectStands, FunctionInv
    <2>4. \A x \in sources' : SourceStands(x)'
      BY <1>0, <2>0, <2>1, PastStands
    <2>5. \A p \in proposals' : ProposalStands(p)'
      BY <1>0, <2>0 DEF FunctionInv, ProposalStands
    <2>6. FunctionTypeOK' /\ IsFiniteSet(receipts')
      BY <1>0, <1>a, <2>0 DEF FunctionTypeOK
    <2> QED BY <1>0, <2>2, <2>3, <2>4, <2>5, <2>6 DEF FunctionInv
  <1>2. ASSUME NEW t \in dbNow..MaxClock, NEW a \in Actions, NEW id, NEW row, Authorize(a, id, row, t)
        PROVE  FunctionInv'
    <2>1. PICK s \in selections :
            /\ a \notin epochs /\ epochs' = epochs \cup {a}
            /\ proposals' = proposals \cup {[action |-> a, selection |-> s]}
            /\ UNCHANGED <<receipts, resource, effects, sources>>
      BY <1>2 DEF Authorize, Selected
    <2>2. Reserved' = Reserved /\ proposals \subseteq proposals'
      BY <2>1 DEF Reserved
    <2>3. ReservationInv'
      BY <1>0, <2>1, <2>2, NoReservation
    <2>4. \A e \in effects' : EffectStands(e)'
      BY <1>0, <2>1, <2>2, PastStands DEF EffectStands, FunctionInv
    <2>5. \A x \in sources' : SourceStands(x)'
      BY <1>0, <2>1, <2>2, PastStands
    <2>6. PICK n : n = [action |-> a, selection |-> s]
      OBVIOUS
    <2>7. /\ n.action = a /\ n.selection = s /\ n \in Proposal
      BY <1>a, <2>6 DEF Proposal, FunctionTypeOK, VectorTypeOK
    <2>8. ASSUME NEW p \in proposals' PROVE ProposalStands(p)'
      <3>1. \A q \in proposals : ProposalStands(q) /\ q.action # a
        BY <2>1 DEF FunctionInv, ProposalStands
      <3>2. p \in proposals \/ p = n
        BY <2>1, <2>6
      <3>3. p.action \in epochs' /\ p.selection \in selections'
        BY <1>0, <2>1, <2>7, <3>1, <3>2 DEF ProposalStands
      <3>4. \A q \in proposals' : q.action = p.action => q = p
        BY <2>1, <2>6, <2>7, <3>1, <3>2 DEF ProposalStands
      <3> QED BY <3>3, <3>4 DEF ProposalStands
    <2>9. FunctionTypeOK' /\ IsFiniteSet(receipts')
      BY <1>0, <1>a, <2>1, <2>6, <2>7 DEF FunctionTypeOK
    <2> QED BY <1>0, <2>3, <2>4, <2>5, <2>8, <2>9 DEF FunctionInv
  <1>3. ASSUME NEW op \in Ops, NEW r \in Requests, NEW outcome \in Outcomes \ {"resource_reserved"},
               NEW fence \in Nat, NEW u \in Time, Deny(op, r, outcome, fence, u)
        PROVE  FunctionInv'
    <2>1. /\ receipts' = receipts \cup {ReceiptFor(op, r, outcome, fence, u, 0)}
          /\ UNCHANGED <<epochs, proposals, resource, effects, sources>>
      BY <1>3 DEF Deny
    <2>2. PICK n : n = ReceiptFor(op, r, outcome, fence, u, 0)
      OBVIOUS
    <2>3. n \in Receipt /\ n.outcome = outcome
      BY <1>0, <2>2 DEF ReceiptFor, Receipt
    <2>4. Reserved' = Reserved
      BY <2>1, <2>2, <2>3 DEF Reserved
    <2>5. ReservationInv'
      BY <1>0, <2>1, <2>4, NoReservation
    <2>6. \A e \in effects' : EffectStands(e)'
      BY <1>0, <2>1, <2>4, PastStands DEF EffectStands, FunctionInv
    <2>7. \A x \in sources' : SourceStands(x)'
      BY <1>0, <2>1, <2>4, PastStands
    <2>8. \A p \in proposals' : ProposalStands(p)'
      BY <1>0, <2>1 DEF FunctionInv, ProposalStands
    <2>9. FunctionTypeOK' /\ IsFiniteSet(receipts')
      BY <1>0, <1>a, <2>1, <2>2, <2>3, FS_AddElement DEF FunctionTypeOK
    <2> QED BY <1>0, <2>5, <2>6, <2>7, <2>8, <2>9 DEF FunctionInv
  <1>4. ASSUME NEW t \in dbNow..MaxClock, NEW op \in Ops, NEW r \in Requests, NEW u \in t..MaxClock,
               SpendReserved(op, r, t, u)
        PROVE  FunctionInv'
    <2>0. t \in Time /\ u \in Time /\ dbNow <= t /\ t <= u
      BY <1>0 DEF Time
    <2>1. /\ ReservationInv' /\ IsFiniteSet(receipts') /\ receipts' \subseteq Receipt
          /\ resource' \in [DOMAIN RunOf -> Held] /\ Reserved \subseteq Reserved'
          /\ \A y \in Reserved' : y \in Reserved \/ (y.from \in Time /\ dbNow <= y.from)
      BY <1>4, <2>0, ReservationKeeps
    <2>2. UNCHANGED <<epochs, proposals, effects, sources>>
      BY <1>4 DEF SpendReserved
    <2>3. \A e \in effects' : EffectStands(e)'
      BY <1>0, <2>1, <2>2, PastStands DEF EffectStands, FunctionInv
    <2>4. \A x \in sources' : SourceStands(x)'
      BY <1>0, <2>1, <2>2, PastStands
    <2>5. \A p \in proposals' : ProposalStands(p)'
      BY <1>0, <2>2 DEF FunctionInv, ProposalStands
    <2>6. FunctionTypeOK'
      BY <1>0, <1>a, <2>1, <2>2 DEF FunctionTypeOK
    <2> QED BY <1>0, <2>1, <2>3, <2>4, <2>5, <2>6 DEF FunctionInv
  <1>5. ASSUME NEW t \in dbNow..MaxClock, NEW op \in Ops, NEW r \in Requests, NEW u \in t..MaxClock,
               Spend(op, r, t, u)
        PROVE  FunctionInv'
    <2>0. u \in Time
      BY <1>0 DEF Time
    <2>1. ASSUME SpendDenied(op, r, t, u) PROVE FunctionInv'
      <3>1. Deny(op, r, "authorization_denied", 0, u)
        BY <2>1 DEF SpendDenied
      <3> QED BY <1>3, <2>0, <3>1 DEF Outcomes
    <2>2. ASSUME SpendHeld(op, r, t, u) PROVE FunctionInv'
      <3>1. /\ Deny(op, r, "resource_held_denied", resource[r.action.resource].fence, u)
            /\ r.action.resource \in DOMAIN RunOf
        BY <2>2 DEF SpendHeld, Acquirable
      <3>2. PICK fence : fence = resource[r.action.resource].fence
        OBVIOUS
      <3>3. fence \in Nat
        BY <1>a, <3>1, <3>2 DEF FunctionTypeOK, Held
      <3>4. "resource_held_denied" \in Outcomes \ {"resource_reserved"}
        BY DEF Outcomes
      <3> QED BY <1>3, <2>0, <3>1, <3>2, <3>3, <3>4
    <2>3. ASSUME SpendAnswered(op, r, t) PROVE FunctionInv'
      BY <1>1, <2>3 DEF SpendAnswered
    <2> QED BY <1>4, <1>5, <2>1, <2>2, <2>3 DEF Spend
  <1>6. ASSUME NEW t \in dbNow..MaxClock, NEW x \in receipts, RecordProtectedEffect(x, t) PROVE FunctionInv'
    <2>0. t \in Time /\ dbNow <= t
      BY <1>0 DEF Time
    <2>1. /\ UNCHANGED <<epochs, proposals, receipts, resource, sources>> /\ dbNow' = t
          /\ \A e \in effects : e.op # x.op
          /\ effects' = effects \/ (Current(x, t) /\
               effects' = effects \cup {[op |-> x.op, fence |-> x.fence, at |-> t]})
      BY <1>6 DEF RecordProtectedEffect, EndsAt
    <2>2. Reserved' = Reserved
      BY <2>1 DEF Reserved
    <2>3. ReservationInv'
      BY <1>0, <2>1, <2>2, NoReservation
    <2>4. \A s \in sources' : SourceStands(s)'
      BY <1>0, <2>1, <2>2, PastStands
    <2>5. \A p \in proposals' : ProposalStands(p)'
      BY <1>0, <2>1 DEF FunctionInv, ProposalStands
    <2>6. PICK n : n = [op |-> x.op, fence |-> x.fence, at |-> t]
      OBVIOUS
    <2>7. n.op = x.op /\ n.fence = x.fence /\ n.at = t /\ n \in [op: Ops, fence: Nat, at: Time]
      BY <1>a, <2>0, <2>6 DEF FunctionTypeOK, Receipt
    <2>8. FunctionTypeOK' /\ IsFiniteSet(receipts')
      BY <1>0, <1>a, <2>1, <2>6, <2>7 DEF FunctionTypeOK
    <2>9. \A e \in effects : e.at <= dbNow' /\
            \E y \in Reserved' : e.op = y.op /\ e.fence = y.fence /\ WasHolding(y, e.at)'
      BY <1>0, <2>1, <2>2, PastStands
    <2>10. ASSUME Current(x, t)
           PROVE  n.at <= dbNow' /\
                  \E y \in Reserved' : n.op = y.op /\ n.fence = y.fence /\ WasHolding(y, n.at)'
      <3>1. x \in Reserved /\ WasHolding(x, t)
        BY <2>0, <2>10, CurrentHolds
      <3>2. WasHolding(x, t)'
        BY <2>2, <3>1 DEF WasHolding
      <3>3. t <= t
        BY <2>0, <1>0
      <3> QED BY <2>1, <2>2, <2>7, <3>1, <3>2, <3>3
    <2>11. ASSUME NEW e \in effects' PROVE EffectStands(e)'
      <3>1. \A d \in effects' : d.op = e.op => d = e
        BY <2>1, <2>6, <2>7 DEF FunctionInv, EffectStands
      <3>2. e \in effects \/ (e = n /\ Current(x, t))
        BY <2>1, <2>6
      <3> QED BY <2>9, <2>10, <3>1, <3>2 DEF EffectStands
    <2> QED BY <1>0, <2>3, <2>4, <2>5, <2>8, <2>11 DEF FunctionInv
  <1>7. ASSUME NEW t \in dbNow..MaxClock, NEW x \in receipts, SourceSnapshot(x, t) PROVE FunctionInv'
    <2>0. t \in Time /\ dbNow <= t
      BY <1>0 DEF Time
    <2>1. /\ UNCHANGED <<epochs, proposals, receipts, resource, effects>> /\ dbNow' = t
          /\ sources' = sources \cup {[op |-> x.op, at |-> t]}
      BY <1>7 DEF SourceSnapshot, EndsAt
    <2>2. Reserved' = Reserved
      BY <2>1 DEF Reserved
    <2>3. ReservationInv'
      BY <1>0, <2>1, <2>2, NoReservation
    <2>4. \A e \in effects' : EffectStands(e)'
      BY <1>0, <2>1, <2>2, PastStands DEF EffectStands, FunctionInv
    <2>5. \A p \in proposals' : ProposalStands(p)'
      BY <1>0, <2>1 DEF FunctionInv, ProposalStands
    <2>6. PICK n : n = [op |-> x.op, at |-> t]
      OBVIOUS
    <2>7. n.op = x.op /\ n.at = t /\ n \in [op: Ops, at: Time]
      BY <1>a, <2>0, <2>6 DEF FunctionTypeOK, Receipt
    <2>8. FunctionTypeOK' /\ IsFiniteSet(receipts')
      BY <1>0, <1>a, <2>1, <2>6, <2>7 DEF FunctionTypeOK
    <2>9. x \in Reserved /\ WasHolding(x, t)
      BY <1>7, <2>0, CurrentHolds DEF SourceSnapshot
    <2>10. WasHolding(x, t)'
      BY <2>2, <2>9 DEF WasHolding
    <2>11. \E p \in ProposalOf(x.request) : t < p.selection.expires /\ t < p.selection.selected.until
      <3>1. PICK p \in ProposalOf(x.request) : t < p.selection.expires
        BY <1>7 DEF SourceSnapshot, Current
      <3>2. PICK q \in ProposalOf(x.request) : Admissible(q.selection.selected, t)
        BY <1>7 DEF SourceSnapshot
      <3>3. p = q
        BY DEF ProposalOf, FunctionInv, ProposalStands
      <3> QED BY <3>1, <3>2, <3>3 DEF Admissible, InForce
    <2>12. SourceStands(n)'
      <3>1. \E p \in ProposalOf(x.request)' : n.at < p.selection.expires /\ n.at < p.selection.selected.until
        BY <2>1, <2>7, <2>11 DEF ProposalOf
      <3>2. n.at <= dbNow' /\ WasHolding(x, n.at)'
        BY <1>0, <2>0, <2>1, <2>7, <2>10 DEF Time
      <3> QED BY <2>2, <2>7, <2>9, <3>1, <3>2 DEF SourceStands
    <2>13. \A s \in sources' : SourceStands(s)'
      BY <1>0, <2>1, <2>2, <2>6, <2>12, PastStands
    <2> QED BY <1>0, <2>3, <2>4, <2>5, <2>8, <2>13 DEF FunctionInv
  <1>8. ASSUME FunctionStep PROVE FunctionInv'
    BY <1>1, <1>2, <1>5, <1>6, <1>7, <1>8 DEF FunctionStep, AuthorizeAgain, SpendRace
  <1>9. ASSUME UNCHANGED functionVars PROVE UNCHANGED authorityVars
    BY <1>9 DEF functionVars
  <1> QED BY <1>1, <1>8, <1>9 DEF FunctionNext

\* At first there is nothing to stand for.
LEMMA FunctionInvInit ==
  ASSUME VectorInit, FunctionInit
  PROVE  FunctionInv
  <1>1. VectorInv /\ VectorTypeOK
    BY VectorInvHolds DEF VectorInv
  <1>2. FunctionTypeOK /\ IsFiniteSet(receipts)
    BY <1>1, FS_EmptySet DEF FunctionInit, FunctionTypeOK, Held
  <1>3. Reserved = {}
    BY DEF FunctionInit, Reserved
  <1>4. \A q \in DOMAIN RunOf : Counted(q)
    <2>1. ASSUME NEW q \in DOMAIN RunOf PROVE On(q) = {} /\ resource[q].fence = 0
      BY <1>3 DEF On, FunctionInit
    <2> QED BY <2>1, FS_EmptySet DEF Counted
  <1> QED BY <1>1, <1>2, <1>3, <1>4 DEF FunctionInit, FunctionInv, ReservationInv

\* AuthorityFunctions.SpendIsBacked: g1_spend_authority_v1 reserves an action
\* once, on a proposal that was authorized from a selection, the fences of a
\* resource count its reservations and their leases follow each other, and
\* g1_record_protected_effect_v1 records one effect, while its reservation
\* held the resource, however long each call waits for its row locks and for
\* every set of requests, operation ids, leases and resources.
THEOREM SpendsAreBacked == FunctionSpec => []SpendIsBacked
  <1>1. ASSUME FunctionInv PROVE SpendIsBacked
    <2>1. ASSUME NEW x \in Reserved
          PROVE  /\ SpentBy(x.request.action) = {x} /\ Backed(x)
                 /\ Counted(x.request.action.resource)
                 /\ \A y \in Reserved : Apart(x, y)
      <3>1. SpentBy(x.request.action) = {x}
        BY <1>1 DEF FunctionInv, ReservationInv, Apart, SpentBy
      <3>2. x.request.action.resource \in DOMAIN RunOf
        BY <1>1 DEF FunctionInv, ReservationInv, Placed
      <3> QED BY <1>1, <3>1, <3>2 DEF FunctionInv, ReservationInv
    <2>2. \A e \in effects : EffectStands(e)
      BY <1>1 DEF FunctionInv
    <2> QED BY <2>1, <2>2 DEF SpendIsBacked, Backed, Counted, On, Apart, EffectStands, WasHolding
  <1> QED BY <1>1, FunctionInvInit, FunctionInvStep, PTL DEF FunctionSpec

\* AuthorityFunctions.SourcesWereCurrent: g1_recovery_source_snapshot_v1 gives
\* out a reservation that holds its resource at the reading it returns, within
\* its lease, its proposal and its evidence.  That the proposal of the lease
\* check and the one of the evidence check are the same row needs
\* ProposalStands: an action is authorized once.
THEOREM SourcesAreCurrent == FunctionSpec => []SourcesWereCurrent
  <1>1. FunctionInv => SourcesWereCurrent
    BY DEF FunctionInv, SourceStands, WasHolding, SourcesWereCurrent
  <1> QED BY <1>1, FunctionInvInit, FunctionInvStep, PTL DEF FunctionSpec

-----------------------------------------------------------------------------
(* bootstrapPrimarySecurity. *)

AnyItem == Roles \cup Users \cup {"public"} \cup (Roles \X Users) \cup Created

\* The items of a step.
TodoAt(k) == IF k \in 1..17 THEN Items(Program[k]) ELSE {}

BootTyped ==
  /\ boot \in [Boots -> [at : 0..19, todo : SUBSET AnyItem, root : Roots \cup {"none"}]]
  /\ \A b \in Boots : boot[b].todo \subseteq TodoAt(boot[b].at)

BootTypes ==
  /\ BootTyped
  /\ password \in [Users -> Boots \cup {"none", "old"}]
  /\ cut \in BOOLEAN

\* How far a process is says what it has seen to: the first look at the posture,
\* the routine defaults, the privileges, the memberships and the passwords.
\* Nothing that follows, in this or in another process, undoes any of it.
FarEnough(b) ==
  LET k == boot[b].at
      todo == boot[b].todo
  IN  /\ k \in 2..18 => Within(WithRetired)
      /\ k \in 3..18 => ~openDefault
      /\ k = 6 => \A g \in executes : g[1] \in todo \/ g \in Granted(Policy)
      /\ k \in 7..18 => executes \subseteq Granted(Policy)
      /\ k = 8 => \A m \in members : m \in todo \/ password[m[2]] # "old"
      /\ k \in 9..18 => cut
      /\ k = 9 => \A u \in Users \ todo : password[u] # "old"
      /\ k \in 10..18 => \A u \in Users : password[u] # "old"

CutInv ==
  cut => /\ executes \subseteq Granted(Policy) /\ members \subseteq RoleBindings
         /\ \A m \in members : password[m[2]] # "old"

BootInv == BootTypes /\ CutInv /\ \A b \in Boots : FarEnough(b)

\* Where the steps of the program are.
LEMMA Places ==
  /\ DOMAIN Program = 1..17
  /\ Program[1] = "preflight" /\ Program[2] = "lock" /\ Program[3] = "shells"
  /\ Program[4] = "posture" /\ Program[5] = "relock" /\ Program[6] = "scrub"
  /\ Program[7] = "payload" /\ Program[8] = "memberships" /\ Program[9] = "credentials"
  /\ Program[10] = "root" /\ Program[11] = "occupancy" /\ Program[12] = "functions"
  /\ Program[13] = "ownership" /\ Program[14] = "rescrub" /\ Program[15] = "grant"
  /\ Program[16] = "bind" /\ Program[17] = "attest"
  /\ Attested = 18 /\ Rejected = 19
BY DEF Program, Attested, Rejected

\* What a statement may do to the database, whoever executes it.
Careful ==
  /\ executes' \subseteq executes \cup Granted(Policy)
  /\ members' \subseteq members \cup RoleBindings
  /\ openDefault' => openDefault
  /\ cut => cut'
  /\ \A u \in Users : password'[u] = password[u] \/ password'[u] # "old"
  /\ members' \subseteq members \/ \A u \in Users : password[u] # "old"

\* A process that stays where it is stays right behind a careful statement.
LEMMA Stays ==
  ASSUME BootInv, NEW c \in Boots, Careful, boot'[c] = boot[c]
  PROVE  FarEnough(c)'
<1>1. FarEnough(c) BY DEF BootInv
<1>2. Granted(Policy) \subseteq Granted(WithRetired) BY DEF Granted, WithRetired
<1>3. \A m \in RoleBindings : m[2] \in Users BY DEF RoleBindings, Users
<1>4. boot[c].at \in 2..18 => Within(WithRetired)'
  BY <1>1, <1>2 DEF FarEnough, Within, Careful
<1>5. boot[c].at = 8 =>
        \A m \in members' : m \in boot[c].todo \/ password'[m[2]] # "old"
  <2>1. SUFFICES ASSUME boot[c].at = 8, NEW m \in members'
                 PROVE  m \in boot[c].todo \/ password'[m[2]] # "old"
    OBVIOUS
  <2>2. members \subseteq RoleBindings BY <1>1, <2>1 DEF FarEnough, Within
  <2>3. m[2] \in Users BY <2>1, <2>2, <1>3 DEF Careful
  <2>4. QED BY <2>1, <2>3, <1>1 DEF FarEnough, Careful
<1>6. QED BY <1>1, <1>4, <1>5 DEF FarEnough, Careful

\* The memberships that are left after the cut stay under new passwords.
LEMMA CutStays ==
  ASSUME BootInv, Careful, cut' = cut
  PROVE  CutInv'
<1>1. SUFFICES ASSUME cut PROVE CutInv' BY DEF CutInv
<1>2. \A m \in RoleBindings : m[2] \in Users BY DEF RoleBindings, Users
<1>3. /\ executes' \subseteq Granted(Policy) /\ members' \subseteq RoleBindings
  BY <1>1 DEF BootInv, CutInv, Careful
<1>4. ASSUME NEW m \in members' PROVE password'[m[2]] # "old"
  <2>1. m[2] \in Users BY <1>2, <1>3
  <2>2. QED BY <2>1, <1>1 DEF BootInv, CutInv, Careful
<1>5. QED BY <1>3, <1>4 DEF CutInv

\* The items of the steps that matter.
LEMMA ItemsOfSteps ==
  /\ \A k \in 1..17 : Items(Program[k]) \subseteq AnyItem
  /\ Items("scrub") = Roles \cup Users /\ Items("memberships") = Roles \X Users
  /\ Items("credentials") = Users
<1>1. RoleBindings \subseteq Roles \X Users BY DEF RoleBindings, Users
<1>2. QED BY <1>1, Places DEF Items, AnyItem

\* The other processes stay where they are.
BootFrame(b) == \A c \in Boots : c # b => boot'[c] = boot[c]

\* A process moves to a step, with the items of that step.
LEMMA EntersForm ==
  ASSUME BootTyped, NEW b \in Boots, NEW k \in 0..19, Enters(b, k)
  PROVE  /\ BootTyped' /\ BootFrame(b)
         /\ boot'[b].at = k /\ boot'[b].todo = TodoAt(k)
<1>1. PICK t : t = TodoAt(k) OBVIOUS
<1>2. t \subseteq AnyItem BY <1>1, ItemsOfSteps DEF TodoAt
<1>3. boot' = [boot EXCEPT ![b].at = k, ![b].todo = t]
  BY <1>1, Places DEF Enters, TodoAt
<1>4. QED BY <1>1, <1>2, <1>3 DEF BootTyped, BootFrame

\* It is done with an item, and with the step behind the last one.
LEMMA ItemForm ==
  ASSUME BootTyped, NEW b \in Boots, NEW x, Item(b, x), boot[b].at \in 1..17
  PROVE  /\ BootTyped' /\ BootFrame(b)
         /\ \/ boot'[b].at = boot[b].at /\ boot'[b].todo = boot[b].todo \ {x}
            \/ /\ boot[b].todo = {x} /\ boot'[b].at = boot[b].at + 1
               /\ boot'[b].todo = TodoAt(boot[b].at + 1)
<1>1. CASE boot[b].todo = {x}
  <2>1. PICK k : k = boot[b].at + 1 OBVIOUS
  <2>2. k \in 0..19 /\ Enters(b, k) BY <1>1, <2>1 DEF Item, Advances
  <2>3. QED BY <1>1, <2>1, <2>2, EntersForm
<1>2. CASE boot' = [boot EXCEPT ![b].todo = @ \ {x}]
  BY <1>2 DEF BootTyped, BootFrame
<1>3. QED BY <1>1, <1>2 DEF Item

\* The place of a named step.
LEMMA AtStep ==
  ASSUME BootTyped, NEW b \in Boots
  PROVE  /\ StepName(b) = "none" \/ boot[b].at \in 1..17
         /\ boot[b].at \in 1..17 => StepName(b) = Program[boot[b].at]
BY Places DEF BootTyped, StepName

\* A careful statement that leaves the cut, by a process that is right afterwards.
LEMMA CarefulStep ==
  ASSUME BootInv, NEW b \in Boots, Careful, cut' = cut, BootTyped', BootFrame(b),
         password' \in [Users -> Boots \cup {"none", "old"}], FarEnough(b)'
  PROVE  BootInv'
<1>1. CutInv' BY CutStays
<1>2. \A c \in Boots : FarEnough(c)' BY Stays DEF BootFrame
<1>3. BootTypes' BY DEF BootInv, BootTypes
<1>4. QED BY <1>1, <1>2, <1>3 DEF BootInv

\* A process that waits, or has ended, claims nothing.
LEMMA Aside ==
  ASSUME BootInv, NEW b \in Boots, BootTyped', BootFrame(b), UNCHANGED database,
         boot'[b].at \in {0, 1, 19}
  PROVE  BootInv'
<1>1. Careful /\ cut' = cut /\ password' = password BY DEF Careful, database
<1>2. FarEnough(b)' BY DEF FarEnough
<1>3. QED BY <1>1, <1>2, CarefulStep DEF BootInv, BootTypes

\* A run that is refused or interrupted leaves what it did.
LEMMA RejectsKeeps ==
  ASSUME BootInv, NEW b \in Boots, Rejects(b)
  PROVE  BootInv'
<1>1. BootTyped /\ UNCHANGED database BY DEF BootInv, BootTypes, Rejects
<1>2. Enters(b, 19) BY Places DEF Rejects
<1>3. QED BY <1>1, <1>2, EntersForm, Aside

\* The posture is looked at, before and after the principals are created.
LEMMA PostureKeeps ==
  ASSUME BootInv, NEW b \in Boots, CheckPosture(b)
  PROVE  BootInv'
<1>1. BootTyped /\ FarEnough(b) BY DEF BootInv, BootTypes
<1>2. boot[b].at \in {1, 4} BY <1>1, AtStep, Places DEF CheckPosture
<1>3. CASE Rejects(b) BY <1>3, RejectsKeeps
<1>4. CASE Within(WithRetired) /\ Advances(b) /\ UNCHANGED database
  <2>1. Careful /\ cut' = cut /\ password' = password BY <1>4 DEF Careful, database
  <2>2. PICK k : k = boot[b].at + 1 OBVIOUS
  <2>3. k \in {2, 5} /\ Enters(b, k) BY <1>2, <1>4, <2>2 DEF Advances
  <2>4. BootTyped' /\ BootFrame(b) /\ boot'[b].at = k BY <1>1, <2>3, EntersForm
  <2>5. Within(WithRetired)' BY <1>4 DEF Within, database
  <2>6. k = 5 => ~openDefault' BY <1>1, <1>2, <1>4, <2>2 DEF FarEnough, database
  <2>7. FarEnough(b)' BY <2>3, <2>4, <2>5, <2>6 DEF FarEnough
  <2>8. QED BY <2>1, <2>4, <2>7, CarefulStep DEF BootInv, BootTypes
<1>5. QED BY <1>3, <1>4 DEF CheckPosture

\* The routine defaults are locked, and stay so.
LEMMA LockKeeps ==
  ASSUME BootInv, NEW b \in Boots, LockRoutineDefaults(b)
  PROVE  BootInv'
<1>1. BootTyped /\ FarEnough(b) BY DEF BootInv, BootTypes
<1>2. boot[b].at \in {2, 5} BY <1>1, AtStep, Places DEF LockRoutineDefaults
<1>3. Careful /\ cut' = cut /\ password' = password BY DEF Careful, LockRoutineDefaults
<1>4. PICK k : k = boot[b].at + 1 OBVIOUS
<1>5. k \in {3, 6} /\ Enters(b, k) BY <1>2, <1>4 DEF Advances, LockRoutineDefaults
<1>6. /\ BootTyped' /\ BootFrame(b) /\ boot'[b].at = k /\ boot'[b].todo = TodoAt(k)
  BY <1>1, <1>5, EntersForm
<1>7. Within(WithRetired) /\ Within(WithRetired)' /\ ~openDefault'
  BY <1>1, <1>2 DEF FarEnough, Within, LockRoutineDefaults
<1>8. k = 6 => \A g \in executes' : g[1] \in boot'[b].todo
  <2>1. k = 6 => boot'[b].todo = Roles \cup Users
    BY <1>6, ItemsOfSteps, Places DEF TodoAt
  <2>2. \A g \in executes' : g[1] \in Roles BY <1>7 DEF Within, Granted
  <2>3. QED BY <2>1, <2>2
<1>9. FarEnough(b)' BY <1>5, <1>6, <1>7, <1>8 DEF FarEnough
<1>10. QED BY <1>3, <1>6, <1>9, CarefulStep DEF BootInv, BootTypes

\* A step without items that changes neither privileges nor memberships.
LEMMA PlainKeeps ==
  ASSUME BootInv, NEW b \in Boots, Enters(b, boot[b].at + 1), boot[b].at \in {3, 7, 10, 11, 17},
         UNCHANGED <<openDefault, executes, members, password, cut>>
  PROVE  BootInv'
<1>1. BootTyped /\ FarEnough(b) BY DEF BootInv, BootTypes
<1>2. Careful BY DEF Careful
<1>3. PICK k : k = boot[b].at + 1 OBVIOUS
<1>4. k \in {4, 8, 11, 12, 18} /\ Enters(b, k) BY <1>3
<1>5. /\ BootTyped' /\ BootFrame(b) /\ boot'[b].at = k /\ boot'[b].todo = TodoAt(k)
  BY <1>1, <1>4, EntersForm
<1>6. Within(WithRetired) /\ Within(WithRetired)' /\ ~openDefault'
  BY <1>1 DEF FarEnough, Within
<1>7. k = 8 => \A m \in members' : m \in boot'[b].todo
  <2>1. k = 8 => boot'[b].todo = Roles \X Users
    BY <1>5, ItemsOfSteps, Places DEF TodoAt
  <2>2. \A m \in members' : m \in Roles \X Users
    BY <1>6 DEF Within, RoleBindings, Users
  <2>3. QED BY <2>1, <2>2
<1>8. FarEnough(b)' BY <1>1, <1>3, <1>4, <1>5, <1>6, <1>7 DEF FarEnough
<1>9. QED BY <1>2, <1>5, <1>8, CarefulStep DEF BootInv, BootTypes

\* The first commitment of the recovery publisher's keys stays.
LEMMA TrustRootKeeps ==
  ASSUME BootInv, NEW b \in Boots, CommitTrustRoot(b)
  PROVE  BootInv'
<1>1. BootTyped BY DEF BootInv, BootTypes
<1>2. boot[b].at = 10 BY <1>1, AtStep, Places DEF CommitTrustRoot
<1>3. UNCHANGED <<openDefault, executes, members, password, cut>> BY DEF CommitTrustRoot
<1>4. CASE Advances(b) BY <1>2, <1>3, <1>4, PlainKeeps DEF Advances
<1>5. CASE Enters(b, Rejected)
  <2>1. Enters(b, 19) BY <1>5, Places
  <2>2. BootTyped' /\ BootFrame(b) /\ boot'[b].at = 19 BY <1>1, <2>1, EntersForm
  <2>3. FarEnough(b)' BY <2>2 DEF FarEnough
  <2>4. Careful BY <1>3 DEF Careful
  <2>5. QED BY <1>3, <2>2, <2>3, <2>4, CarefulStep DEF BootInv, BootTypes
<1>6. QED BY <1>4, <1>5 DEF CommitTrustRoot

\* REVOKE from one principal, of all it has or of one function: privileges only go.
LEMMA ScrubKeeps ==
  ASSUME BootInv, NEW b \in Boots, NEW x, Scrub(b, x)
  PROVE  BootInv'
<1>1. BootTyped /\ FarEnough(b) BY DEF BootInv, BootTypes
<1>2. boot[b].at \in {6, 14} BY <1>1, AtStep, Places DEF Scrub
<1>3. Careful /\ cut' = cut /\ password' = password BY DEF Careful, Scrub
<1>4. PICK k : k = boot[b].at OBVIOUS
<1>5. PICK n : n = boot'[b].at OBVIOUS
<1>6. PICK todo : todo = boot[b].todo OBVIOUS
<1>7. /\ BootTyped' /\ BootFrame(b)
      /\ \/ n = k /\ boot'[b].todo = todo \ {x}
         \/ n = k + 1 /\ todo = {x}
  BY <1>1, <1>2, <1>4, <1>5, <1>6, ItemForm DEF Scrub
<1>8. /\ executes' = {g \in executes : g[1] # x}
      /\ UNCHANGED <<openDefault, members>>
  BY DEF Scrub
<1>9. Within(WithRetired)' /\ ~openDefault'
  BY <1>1, <1>2, <1>8 DEF FarEnough, Within
<1>10. CASE k = 6
  <2>1. \A g \in executes : g[1] \in todo \/ g \in Granted(Policy)
    BY <1>1, <1>4, <1>6, <1>10 DEF FarEnough
  <2>2. ASSUME n = 6 PROVE FarEnough(b)'
    BY <2>1, <2>2, <1>5, <1>7, <1>8, <1>9, <1>10 DEF FarEnough
  <2>3. ASSUME n = 7, todo = {x} PROVE FarEnough(b)'
    <3>1. executes' \subseteq Granted(Policy) BY <2>1, <2>3, <1>8
    <3>2. QED BY <3>1, <2>3, <1>5, <1>9 DEF FarEnough
  <2>4. FarEnough(b)' BY <2>2, <2>3, <1>7, <1>10
  <2>5. QED BY <2>4, <1>3, <1>7, CarefulStep DEF BootInv, BootTypes
<1>11. CASE k = 14
  <2>1. n \in {14, 15} BY <1>7, <1>11
  <2>2. /\ executes' \subseteq Granted(Policy) /\ cut'
        /\ \A u \in Users : password'[u] # "old"
    BY <1>1, <1>3, <1>4, <1>8, <1>11 DEF FarEnough
  <2>3. FarEnough(b)' BY <2>1, <2>2, <1>5, <1>9 DEF FarEnough
  <2>4. QED BY <2>3, <1>3, <1>7, CarefulStep DEF BootInv, BootTypes
<1>12. QED BY <1>2, <1>4, <1>10, <1>11

\* The memberships are removed; with the last one an earlier deployment's are gone.
LEMMA MembershipsKeeps ==
  ASSUME BootInv, NEW b \in Boots, NEW x, ScrubMembership(b, x)
  PROVE  BootInv'
<1>1. BootTyped /\ FarEnough(b) BY DEF BootInv, BootTypes
<1>2. boot[b].at = 8 BY <1>1, AtStep, Places DEF ScrubMembership
<1>3. /\ members' = members \ {x} /\ cut' = (cut \/ boot[b].todo = {x})
      /\ UNCHANGED <<openDefault, executes, password>>
  BY DEF ScrubMembership
<1>4. Careful BY <1>3 DEF Careful
<1>5. PICK n : n = boot'[b].at OBVIOUS
<1>6. PICK todo : todo = boot[b].todo OBVIOUS
<1>7. /\ BootTyped' /\ BootFrame(b)
      /\ \/ n = 8 /\ boot'[b].todo = todo \ {x}
         \/ n = 9 /\ todo = {x} /\ boot'[b].todo = TodoAt(9)
  BY <1>1, <1>2, <1>5, <1>6, ItemForm DEF ScrubMembership
<1>8. /\ Within(WithRetired) /\ Within(WithRetired)' /\ ~openDefault'
      /\ executes \subseteq Granted(Policy) /\ members \subseteq RoleBindings
      /\ \A m \in members : m \in todo \/ password[m[2]] # "old"
  BY <1>1, <1>2, <1>3, <1>6 DEF FarEnough, Within
<1>9. CutInv'
  <2>1. CASE todo = {x} BY <2>1, <1>3, <1>8 DEF CutInv
  <2>2. CASE todo # {x}
    <3>1. cut' = cut BY <2>2, <1>3, <1>6 DEF BootInv, BootTypes
    <3>2. QED BY <3>1, <1>4, CutStays
  <2>3. QED BY <2>1, <2>2
<1>10. FarEnough(b)'
  <2>1. ASSUME n = 8, boot'[b].todo = todo \ {x} PROVE FarEnough(b)'
    BY <2>1, <1>3, <1>5, <1>8 DEF FarEnough
  <2>2. ASSUME n = 9, todo = {x}, boot'[b].todo = TodoAt(9) PROVE FarEnough(b)'
    <3>1. boot'[b].todo = Users BY <2>2, ItemsOfSteps, Places DEF TodoAt
    <3>2. cut' BY <2>2, <1>3, <1>6
    <3>3. QED BY <2>2, <3>1, <3>2, <1>3, <1>5, <1>8 DEF FarEnough
  <2>3. QED BY <2>1, <2>2, <1>7
<1>11. \A c \in Boots : FarEnough(c)' BY <1>4, <1>7, <1>10, Stays DEF BootFrame
<1>12. BootTypes' BY <1>3, <1>7 DEF BootInv, BootTypes
<1>13. QED BY <1>9, <1>11, <1>12 DEF BootInv

\* Every user gets a new password.
LEMMA PasswordKeeps ==
  ASSUME BootInv, NEW b \in Boots, NEW x, SetPassword(b, x)
  PROVE  BootInv'
<1>1. BootTyped /\ FarEnough(b) BY DEF BootInv, BootTypes
<1>2. boot[b].at = 9 BY <1>1, AtStep, Places DEF SetPassword
<1>3. /\ password' = [password EXCEPT ![x] = b]
      /\ UNCHANGED <<openDefault, executes, members, cut>>
      /\ password \in [Users -> Boots \cup {"none", "old"}]
  BY DEF SetPassword, BootInv, BootTypes
<1>4. /\ password' \in [Users -> Boots \cup {"none", "old"}]
      /\ \A u \in Users : password'[u] = IF u = x THEN b ELSE password[u]
  BY <1>3
<1>5. b # "old" BY BootAssumption
<1>6. Careful BY <1>3, <1>4, <1>5 DEF Careful
<1>7. PICK n : n = boot'[b].at OBVIOUS
<1>8. PICK todo : todo = boot[b].todo OBVIOUS
<1>9. /\ BootTyped' /\ BootFrame(b)
      /\ \/ n = 9 /\ boot'[b].todo = todo \ {x}
         \/ n = 10 /\ todo = {x}
  BY <1>1, <1>2, <1>7, <1>8, ItemForm DEF SetPassword
<1>10. /\ Within(WithRetired)' /\ ~openDefault' /\ cut'
       /\ executes' \subseteq Granted(Policy)
       /\ \A u \in Users \ todo : password[u] # "old"
  BY <1>1, <1>2, <1>3, <1>8 DEF FarEnough, Within
<1>11. FarEnough(b)'
  <2>1. ASSUME n = 9, boot'[b].todo = todo \ {x} PROVE FarEnough(b)'
    <3>1. \A u \in Users \ (todo \ {x}) : password'[u] # "old"
      BY <1>4, <1>5, <1>10
    <3>2. QED BY <2>1, <3>1, <1>7, <1>10 DEF FarEnough
  <2>2. ASSUME n = 10, todo = {x} PROVE FarEnough(b)'
    <3>1. \A u \in Users : password'[u] # "old" BY <2>2, <1>4, <1>5, <1>10
    <3>2. QED BY <2>2, <3>1, <1>7, <1>10 DEF FarEnough
  <2>3. QED BY <2>1, <2>2, <1>9
<1>12. QED BY <1>3, <1>4, <1>6, <1>9, <1>11, CarefulStep

\* From the functions on: statements that keep to the policy.
LEMMA LaterKeeps ==
  ASSUME BootInv, NEW b \in Boots, NEW x, Item(b, x), boot[b].at \in {12, 13, 15, 16},
         executes' \subseteq executes \cup Granted(Policy),
         members' \subseteq members \cup RoleBindings,
         UNCHANGED <<openDefault, password, cut>>
  PROVE  BootInv'
<1>1. BootTyped /\ FarEnough(b) BY DEF BootInv, BootTypes
<1>2. /\ Within(WithRetired) /\ ~openDefault /\ executes \subseteq Granted(Policy) /\ cut
      /\ \A u \in Users : password[u] # "old"
  BY <1>1 DEF FarEnough
<1>3. Careful BY <1>2 DEF Careful
<1>4. PICK n : n = boot'[b].at OBVIOUS
<1>5. BootTyped' /\ BootFrame(b) /\ n \in 12..17
  BY <1>1, <1>4, ItemForm
<1>6. Granted(Policy) \subseteq Granted(WithRetired) BY DEF Granted, WithRetired
<1>7. Within(WithRetired)' /\ executes' \subseteq Granted(Policy)
  BY <1>2, <1>6 DEF Within
<1>8. FarEnough(b)' BY <1>2, <1>4, <1>5, <1>7 DEF FarEnough
<1>9. QED BY <1>3, <1>5, <1>8, CarefulStep DEF BootInv, BootTypes

\* A new function is nobody's, since the defaults are locked.
LEMMA FunctionsKeep ==
  ASSUME BootInv, NEW b \in Boots, NEW x,
         CreateFunction(b, x) \/ TransferOwnership(b, x) \/ ApplyGrants(b, x)
         \/ GrantMembership(b, x)
  PROVE  BootInv'
<1>1. BootTyped /\ FarEnough(b) BY DEF BootInv, BootTypes
<1>2. CASE CreateFunction(b, x)
  <2>1. boot[b].at = 12 BY <1>1, <1>2, AtStep, Places DEF CreateFunction
  <2>2. ~openDefault BY <2>1, <1>1 DEF FarEnough
  <2>3. executes' = executes BY <2>2, <1>2 DEF CreateFunction
  <2>4. QED BY <2>1, <2>3, <1>2, LaterKeeps DEF CreateFunction
<1>3. CASE TransferOwnership(b, x)
  <2>1. boot[b].at = 13 BY <1>1, <1>3, AtStep, Places DEF TransferOwnership
  <2>2. QED BY <2>1, <1>3, LaterKeeps DEF TransferOwnership
<1>4. CASE ApplyGrants(b, x)
  <2>1. boot[b].at = 15 BY <1>1, <1>4, AtStep, Places DEF ApplyGrants
  <2>2. x \in Roles
    <3>1. x \in TodoAt(15) BY <2>1, <1>1, <1>4 DEF ApplyGrants, Item, BootTyped
    <3>2. QED BY <3>1, Places DEF TodoAt, Items
  <2>3. {<<x, f>> : f \in Policy[x]} \subseteq Granted(Policy) BY <2>2 DEF Granted
  <2>4. QED BY <2>1, <2>3, <1>4, LaterKeeps DEF ApplyGrants
<1>5. CASE GrantMembership(b, x)
  <2>1. boot[b].at = 16 BY <1>1, <1>5, AtStep, Places DEF GrantMembership
  <2>2. x \in RoleBindings
    <3>1. x \in TodoAt(16) BY <2>1, <1>1, <1>5 DEF GrantMembership, Item, BootTyped
    <3>2. QED BY <3>1, Places DEF TodoAt, Items
  <2>3. QED BY <2>1, <2>2, <1>5, LaterKeeps DEF GrantMembership
<1>6. QED BY <1>2, <1>3, <1>4, <1>5

\* A run begins.
LEMMA BeginKeeps ==
  ASSUME BootInv, NEW b \in Boots, NEW root \in Roots, BeginBoot(b, root)
  PROVE  BootInv'
<1>1. BootTyped /\ boot[b].at = 0 BY DEF BootInv, BootTypes, BeginBoot
<1>2. boot[b].todo = {} BY <1>1 DEF BootTyped, TodoAt
<1>3. /\ boot' \in [Boots -> [at : 0..19, todo : SUBSET AnyItem, root : Roots \cup {"none"}]]
      /\ BootFrame(b) /\ boot'[b].at = 1 /\ boot'[b].todo = {}
  <2>1. PICK x : x = [boot[b] EXCEPT !.at = 1, !.root = root] OBVIOUS
  <2>2. boot' = [boot EXCEPT ![b] = x] BY <1>1, <2>1 DEF BeginBoot, BootTyped
  <2>3. /\ x \in [at : 0..19, todo : SUBSET AnyItem, root : Roots \cup {"none"}]
        /\ x.at = 1 /\ x.todo = {}
    <3>1. boot[b] \in [at : 0..19, todo : SUBSET AnyItem, root : Roots \cup {"none"}]
      BY <1>1 DEF BootTyped
    <3>2. x = [at |-> 1, todo |-> boot[b].todo, root |-> root] BY <2>1, <3>1
    <3>3. QED BY <1>2, <3>1, <3>2
  <2>4. QED BY <1>1, <2>2, <2>3 DEF BootTyped, BootFrame
<1>4. BootTyped' BY <1>1, <1>3 DEF BootTyped, BootFrame
<1>5. QED BY <1>3, <1>4, Aside DEF BeginBoot

\* Every statement of a run keeps the invariant.
LEMMA BootSteps == BootInv /\ [BootNext]_bootVars => BootInv'
<1>1. SUFFICES ASSUME BootInv, [BootNext]_bootVars PROVE BootInv' OBVIOUS
<1>2. CASE UNCHANGED bootVars
  BY <1>1, <1>2 DEF bootVars, BootInv, BootTypes, BootTyped, CutInv, FarEnough, Within
<1>3. CASE BootNext
  <2>1. PICK b \in Boots : BootStep(b) BY <1>3 DEF BootNext
  <2>2. BootTyped BY <1>1 DEF BootInv, BootTypes
  <2>3. CASE \E root \in Roots : BeginBoot(b, root) BY <1>1, <2>3, BeginKeeps
  <2>4. CASE CheckPosture(b) BY <1>1, <2>4, PostureKeeps
  <2>5. CASE LockRoutineDefaults(b) BY <1>1, <2>5, LockKeeps
  <2>6. CASE CreateShells(b)
    <3>1. boot[b].at = 3 BY <2>2, <2>6, AtStep, Places DEF CreateShells
    <3>2. QED BY <1>1, <2>6, <3>1, PlainKeeps DEF CreateShells, Advances
  <2>7. CASE CheckRows(b)
    <3>1. boot[b].at \in {7, 11} BY <2>2, <2>7, AtStep, Places DEF CheckRows
    <3>2. QED BY <1>1, <2>7, <3>1, PlainKeeps, RejectsKeeps
          DEF CheckRows, Advances, database
  <2>8. CASE CommitTrustRoot(b) BY <1>1, <2>8, TrustRootKeeps
  <2>9. CASE Attest(b)
    <3>1. boot[b].at = 17 BY <2>2, <2>9, AtStep, Places DEF Attest
    <3>2. CASE Rejects(b) BY <1>1, <3>2, RejectsKeeps
    <3>3. CASE Enters(b, Attested) /\ UNCHANGED database
      BY <1>1, <3>1, <3>3, Places, PlainKeeps DEF database
    <3>4. QED BY <2>9, <3>2, <3>3 DEF Attest
  <2>10. CASE Interrupted(b) BY <1>1, <2>10, RejectsKeeps DEF Interrupted
  <2>11. ASSUME NEW x \in boot[b].todo, \/ Scrub(b, x) \/ ScrubMembership(b, x)
                                        \/ SetPassword(b, x)
         PROVE  BootInv'
    BY <1>1, <2>11, ScrubKeeps, MembershipsKeeps, PasswordKeeps
  <2>12. ASSUME NEW x \in boot[b].todo, \/ CreateFunction(b, x) \/ TransferOwnership(b, x)
                                        \/ ApplyGrants(b, x) \/ GrantMembership(b, x)
         PROVE  BootInv'
    BY <1>1, <2>12, FunctionsKeep
  <2>13. QED
    BY <2>1, <2>3, <2>4, <2>5, <2>6, <2>7, <2>8, <2>9, <2>10, <2>11, <2>12 DEF BootStep
<1>4. QED BY <1>1, <1>2, <1>3

\* Nothing was started, and nothing is claimed.
LEMMA BootStarts == BootInit => BootInv
<1>1. SUFFICES ASSUME BootInit PROVE BootInv OBVIOUS
<1>2. /\ boot = [b \in Boots |-> Waiting] /\ cut = FALSE
      /\ password \in [Users -> Boots \cup {"none", "old"}]
  BY <1>1 DEF BootInit
<1>3. \A b \in Boots : boot[b].at = 0 /\ boot[b].todo = {} BY <1>2 DEF Waiting
<1>4. boot \in [Boots -> [at : 0..19, todo : SUBSET AnyItem, root : Roots \cup {"none"}]]
  BY <1>2 DEF Waiting
<1>5. BootTypes BY <1>2, <1>3, <1>4 DEF BootTypes, BootTyped
<1>6. ASSUME NEW b \in Boots PROVE FarEnough(b)
  <2>1. boot[b].at = 0 BY <1>3
  <2>2. QED BY <2>1 DEF FarEnough
<1>7. QED BY <1>2, <1>5, <1>6 DEF BootInv, CutInv

\* At every statement of bootstrapPrimarySecurity, for any number of runs that
\* overlap or are interrupted, over a fresh database or a deployment, and for any
\* roles, users and policies: once a run has cut the memberships of an earlier
\* deployment, a runtime user holds only functions of its own role's policy, none
\* through public, and only under a password that was set since.
THEOREM CapabilitiesAreThePolicy == BootSpec => []CapabilitiesFollowPolicy
<1>1. BootInv => CapabilitiesFollowPolicy
  <2>1. SUFFICES ASSUME BootInv, cut, NEW u \in Users, NEW f, Holds(u, f)
                 PROVE  password[u] # "old" /\ \E r \in Roles : u = UserOf[r] /\ f \in Policy[r]
    BY DEF CapabilitiesFollowPolicy
  <2>2. /\ executes \subseteq Granted(Policy) /\ members \subseteq RoleBindings
        /\ \A m \in members : password[m[2]] # "old"
    BY <2>1 DEF BootInv, CutInv
  <2>3. \A g, h : <<g, h>> \in executes => g \in Roles /\ h \in Policy[g]
    BY <2>2 DEF Granted
  <2>4. PICK r \in Roles : <<r, u>> \in members /\ <<r, f>> \in executes
    BY <2>1, <2>3, BootAssumption DEF Holds
  <2>5. u = UserOf[r] BY <2>2, <2>4 DEF RoleBindings
  <2>6. password[u] # "old" BY <2>2, <2>4
  <2>7. QED BY <2>3, <2>4, <2>5, <2>6
<1>2. QED BY <1>1, BootStarts, BootSteps, PTL DEF BootSpec

=============================================================================
