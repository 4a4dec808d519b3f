----------------------------- MODULE MCRecovery -----------------------------
(* Five instances, of the recovery from its source to its end: clients that  *)
(* prepare, rank and prove against evidence that comes and goes, callers     *)
(* that authorize, spend, record effects and take a source from what was     *)
(* proved; a caller and a publisher against the broker, two worker processes *)
(* of a live drill, and two processes that repair or disable the grants on   *)
(* the recovery cluster.                                                     *)
EXTENDS AuthorityFunctions, ProviderRecovery, RecoveryGrants, TLC

VARIABLE part

Bundle(version, source, from, until) ==
  [version |-> version, source |-> source, from |-> from, until |-> until]

\* Two sources that contend for a version, and two bundles of one source.
MCBundles == {Bundle(1, "s1", 0, 2), Bundle(1, "s2", 0, 1), Bundle(2, "s1", 1, 3)}

\* The drill's bundle: it expires with the authority.
DrillBundle == Bundle(1, "s1", 0, 2)

\* Three starts, or two and one lost answer or failed write.
DrillBudget == 3

-----------------------------------------------------------------------------
(* The authority functions. *)

Row(id, claim, value, scope, from, until, near, key) ==
  [id |-> id, claim |-> claim, value |-> value, scope |-> scope, from |-> from,
   observed |-> 0, until |-> until, near |-> near, key |-> key, disputed |-> FALSE]

MCKeys == {[id |-> "k1", from |-> 0, until |-> 2], [id |-> "k2", from |-> 0, until |-> 2]}

Closest == Row("e1", "x", "a", "own", 0, 3, 1, "k1")
Second == Row("e2", "y", "a", "*", 0, 4, 2, "k2")
Contrary == Row("e3", "x", "b", "*", 1, 4, 3, "k2")
Foreign == Row("e4", "z", "a", "other", 0, 4, 4, "k2")
Unsigned == Row("e5", "y", "b", "*", 0, 4, 5, Nil)

MCRows == {Closest, Second, Contrary, Foreign, Unsigned}

MCRunOf == [q \in {"unit"} |-> "run"]

Action(n, q) == [name |-> n, resource |-> q]

MCActions == {Action("a1", "unit"), Action("a2", "unit")}

Request(n, a, id, run, lease, agent) ==
  [nonce |-> n, action |-> a, retrieval |-> id, run |-> run, lease |-> lease, agent |-> agent]

\* Two requests for one action, one for the other one, and one of an old run.
MCRequests ==
  {Request(1, Action("a1", "unit"), "r1", "run", 1, "aws-authority-alpha"),
   Request(2, Action("a1", "unit"), "r1", "run", 3, "aws-authority-bravo"),
   Request(1, Action("a2", "unit"), "r2", "run", 1, "agent"),
   Request(2, Action("a2", "unit"), "r2", "old", 1, "agent")}

\* What two proofs at time 0 left behind.
ProvedSet(id, ttl) ==
  [id |-> id, admitted |-> 0, expires |-> ttl, count |-> 1, cleaned |-> TRUE]

ProvedSelection(id, ttl, top) ==
  [id |-> id, admitted |-> 0, expires |-> ttl, ranked |-> {top}, selected |-> top]

\* The clients contend for one retrieval id, up to time 2; one row arrives.
VectorBound ==
  /\ dbNow' <= 2
  /\ Cardinality(evidence') <= 4
  /\ \A c \in Retrievers : client'[c].id \in {"r1", Nil}

\* One contradiction, one source.
FunctionBound ==
  /\ evidence' \subseteq {Closest, Contrary}
  /\ Cardinality(sources') <= 1

FunctionsStart ==
  /\ dbNow = 0 /\ active = {"k1", "k2"}
  /\ candidates = {} /\ exclusions = {} /\ landing = {} /\ mishaps = 0
  /\ client = [c \in Retrievers |-> FreshClient]
  /\ FunctionInit

\* What the authority part starts from: one row, proved twice.
ProvedBefore ==
  /\ evidence = {Closest}
  /\ sets = {ProvedSet("r1", 3), ProvedSet("r2", 2)}
  /\ selections = {ProvedSelection("r1", FreshTtl, Closest), ProvedSelection("r2", 2, Closest)}

NothingProved == sets = {} /\ selections = {}

-----------------------------------------------------------------------------
\* A part concerns workers, retrievers or operations, so that two model values
\* that change places serve for all three.
Symmetry == Permutations(Workers)

\* The part that is explored starts, the others rest.
MCInit ==
  /\ WorkersRest /\ GrantInit /\ FunctionsStart
  /\ \/ /\ part = "recover" /\ BrokerInit
        /\ evidence = {} /\ NothingProved
     \/ /\ part = "drill" /\ StartsWith({DrillBundle})
        /\ evidence = {} /\ NothingProved
     \/ /\ part = "grants" /\ StartsWith({})
        /\ evidence = {} /\ NothingProved
     \/ /\ part = "vector" /\ StartsWith({})
        /\ evidence = {Closest, Second, Foreign} /\ NothingProved
     \/ /\ part = "authority" /\ StartsWith({})
        /\ ProvedBefore

RecoveryStep ==
  \/ part = "recover" /\ BrokerNext /\ UNCHANGED <<workVars, grantVars>>
  \/ part = "drill" /\ ProviderNext /\ starts' + faults' <= DrillBudget /\ UNCHANGED grantVars
  \/ part = "grants" /\ GrantNext /\ UNCHANGED providerVars

AuthorityStep ==
  \/ part = "vector" /\ VectorNext /\ UNCHANGED authorityVars /\ VectorBound
  \/ part = "authority" /\ EvidenceStep /\ UNCHANGED authorityVars /\ FunctionBound
  \/ part = "authority" /\ FunctionStep /\ FunctionBound

MCNext ==
  /\ UNCHANGED part
  /\ \/ RecoveryStep /\ UNCHANGED functionVars
     \/ AuthorityStep /\ UNCHANGED <<providerVars, grantVars>>

MCSpec == MCInit /\ [][MCNext]_<<functionVars, providerVars, grantVars, part>>
=============================================================================
