-------------------------- MODULE FencedAuthority --------------------------
(***************************************************************************)
(* What the authority store promises, without tables, transactions or       *)
(* clients.  A logical action is granted at most once, ever.  The grants on *)
(* one resource carry the fences 1, 2, 3, ... and hold the resource for     *)
(* intervals that follow each other.  A granted action is performed at most *)
(* once, and only while no later grant exists on its resource.              *)
(***************************************************************************)
EXTENDS Integers, FiniteSets

CONSTANTS Actions, ResourceOf(_)

VARIABLES grants, performed

authorityVars == <<grants, performed>>

GrantsOn(q) == {g \in grants : ResourceOf(g.action) = q}

Init == grants = {} /\ performed = {}

Grant(a, g) ==
  /\ g.action = a
  /\ \A h \in grants : h.action # a
  /\ g.fence = Cardinality(GrantsOn(ResourceOf(a))) + 1
  /\ g.from < g.until
  /\ \A h \in GrantsOn(ResourceOf(a)) : h.until <= g.from
  /\ grants' = grants \cup {g}
  /\ UNCHANGED performed

Perform(g) ==
  /\ \A h \in GrantsOn(ResourceOf(g.action)) : h.fence <= g.fence
  /\ \A d \in performed : d.action # g.action
  /\ performed' = performed \cup {[action |-> g.action, fence |-> g.fence]}
  /\ UNCHANGED grants

Next ==
  \/ \E g \in grants' \ grants : Grant(g.action, g)
  \/ \E g \in grants : Perform(g)

Spec == Init /\ [][Next]_authorityVars
=============================================================================
