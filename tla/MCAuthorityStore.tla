-------------------------- MODULE MCAuthorityStore --------------------------
(***************************************************************************)
(* Small instances of AuthorityStore and of EvidenceStore.  A run explores   *)
(* one scenario after the other: which calls arrive, at which state of the  *)
(* store.  In the scenario "evidence" only the evidence tables change.       *)
(***************************************************************************)
EXTENDS AuthorityStore, TLC

CONSTANT Scenarios
VARIABLE scenario

\* One evidence row behind every proposal.
MCKey == [k \in Keys |-> [issuer |-> "i1", from |-> 0, until |-> 9]]

MCEnv == [s \in Envelopes |->
  [id |-> "e1", issuer |-> "i1", key |-> "k1", genuine |-> TRUE,
   observed |-> 0, from |-> 0, until |-> 3, scope |-> "*",
   claim |-> "road", value |-> "open", unresolved |-> FALSE]]

\* Two logical actions that compete for one resource.
MCAction == [a \in Actions |-> [resource |-> "q1", agency |-> "a"]]

\* p1 and p2 propose the same action; p3 proposes the other.
MCProp == [p \in Proposals |->
  [action |-> IF p = "p3" THEN "a2" ELSE "a1", run |-> "run1",
   envelope |-> "s1",
   admittedAt |-> 0, expiresAt |-> CASE p = "p1" -> 2 [] p = "p2" -> 1 [] OTHER -> 3]]

\* r1 and r2 ask for the same action under p1; r3 asks for the other action,
\* with the effect key of r2; r4 asks for the first action under p2.
MCReq == [r \in Requests |->
  [proposal |-> CASE r = "r3" -> "p3" [] r = "r4" -> "p2" [] OTHER -> "p1",
   agent |-> r, effectKey |-> IF r = "r1" THEN "x1" ELSE "x2",
   leaseMs |-> IF r = "r3" THEN 1 ELSE 2]]

Authorize(p) == [kind |-> "authorize", prop |-> p]
Spend(op, r) == [kind |-> "spend", op |-> op, req |-> r]
Effect(op, r, f) == [kind |-> "effect", op |-> op, req |-> r, fence |-> f]

\* Two requests for one action against a request for the other action.
SpendCallsInScope ==
  {Spend("o1", "r1"), Spend("o2", "r2"), Spend("o3", "r3")}

\* The same request under two operations, and one operation with two
\* requests, one for each action.
ReplayCallsInScope == {Spend("o1", "r1"), Spend("o2", "r1"), Spend("o2", "r3")}

\* Two holders one after the other, in either order, and a delayed effect of
\* the first: o3 holds for one instant under fence 1, then o1 under fence 2.
EffectCallsInScope ==
  {Spend("o1", "r1"), Spend("o3", "r3"), Effect("o1", "r1", 1),
   Effect("o3", "r3", 1)}

\* Two proposals for one action, each with its own spend.
AuthorizeCallsInScope ==
  {Authorize("p1"), Authorize("p2"), Spend("o1", "r1"), Spend("o2", "r4")}

\* One of each, from an empty database.
ColdCallsInScope == {Authorize("p1"), Spend("o1", "r1"), Effect("o1", "r1", 1)}

\* One spend and its replay under another operation.
CurrentCallsInScope == {Spend("o3", "r3"), Spend("o1", "r3")}

\* The state in which the gate scripts leave the store before callers arrive:
\* key registered, evidence verified, selections recorded, resource prepared.
PreparedEvidence ==
  /\ keyStatus = [k \in Keys |-> IF k = "k1" THEN "active" ELSE "absent"]
  /\ verifications = {[env |-> "s1", outcome |-> "verified"]}
  /\ rows = {[env |-> "s1", provenance |-> "verified"]}
  /\ selections = Proposals
  /\ resources = [q \in Resources |-> [NoResource EXCEPT !.run = "run1"]]
  /\ now = 0
  /\ receipts = {}
  /\ outbox = {}
  /\ effects = {}
  /\ session = [c \in Clients |-> Idle]

PreparedInit ==
  /\ PreparedEvidence
  /\ epochs = [a \in Actions |-> -1]
  /\ proposals = {}

\* Both actions are authorized as well, by p1 and p3.
AuthorizedInit ==
  /\ PreparedEvidence
  /\ epochs = [a \in Actions |-> 1]
  /\ proposals = {"p1", "p3"}

\* Two keys of one issuer (one with a window that ends before the last
\* observation), and submissions that share an id, contradict each other,
\* differ in scope, are forged or lie in the future.
EvKey == [k \in Keys |->
  IF k = "k1" THEN [issuer |-> "i1", from |-> 0, until |-> 5]
              ELSE [issuer |-> "i1", from |-> 0, until |-> 2]]

Submission(id, key, observed, from, until, scope, value, genuine, issuer) ==
  [id |-> id, issuer |-> issuer, key |-> key, genuine |-> genuine,
   observed |-> observed, from |-> from, until |-> until, scope |-> scope,
   claim |-> "road", value |-> value, unresolved |-> FALSE]

EvEnv == [s \in Envelopes |->
  CASE s = "s1" -> Submission("e1", "k1", 1, 0, 3, "a", "open", TRUE, "i1")
    [] s = "s2" -> Submission("e2", "k2", 1, 1, 4, "*", "closed", TRUE, "i1")
    [] s = "s3" -> Submission("e1", "k2", 1, 0, 4, "*", "open", TRUE, "i1")
    [] s = "s4" -> Submission("e3", "k2", 3, 2, 5, "b", "closed", TRUE, "i1")
    [] OTHER    -> Submission("e2", "k1", 4, 2, 5, "*", "open", FALSE, "i2")]

ScenarioCalls == [s \in Scenarios |->
  CASE s = "spend" -> SpendCallsInScope
    [] s = "replay" -> ReplayCallsInScope
    [] s = "effect" -> EffectCallsInScope
    [] s = "authorize" -> AuthorizeCallsInScope
    [] s = "current" -> CurrentCallsInScope
    [] OTHER -> ColdCallsInScope]

AllCallsInScope == UNION {ScenarioCalls[s] : s \in Scenarios}

Busy == {c \in Clients : session[c] # Idle}

MCInit ==
  /\ scenario \in Scenarios
  /\ CASE scenario \in {"spend", "replay", "effect", "current"} -> AuthorizedInit
       [] scenario = "authorize" -> PreparedInit
       [] OTHER -> Init

\* Beside the callers, only the one submission behind the proposals and its
\* key change, if any evidence does.
OneSubmission ==
  evidenceVars' # evidenceVars =>
    /\ \A k \in Keys \ {"k1"} : keyStatus'[k] = "absent"
    /\ \A x \in rows' \cup verifications' : x.env = "s1"

\* One caller at a time is enough where nothing is raced.
OneAtATime == scenario \in {"cold", "current"} => Cardinality(Busy') <= 1

\* Steps that leave everything as it is are left out.
MCNext ==
  /\ UNCHANGED scenario
  /\ IF scenario \in {"effect", "replay"} THEN UNCHANGED evidenceVars ELSE TRUE
  /\ \/ scenario = "evidence" /\ EvidenceStep
     \/ /\ scenario # "evidence"
        /\ Next
        /\ vars' # vars
        /\ OneSubmission
        /\ \A c \in Busy' : session'[c].call \in ScenarioCalls[scenario]
        /\ OneAtATime

MCSpec == MCInit /\ [][MCNext]_<<vars, scenario>>

CallersAlike == Permutations(Clients)
=============================================================================
