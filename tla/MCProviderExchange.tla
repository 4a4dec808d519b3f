------------------------- MODULE MCProviderExchange -------------------------
(***************************************************************************)
(* A small instance of ProviderExchange, three hosts, of which two have the  *)
(* same order and the third another authorization for the same effect; and,  *)
(* explored by themselves, an instance of the dispatch ledger with callers   *)
(* that are bound by nothing but the functions' own checks, and two runs of  *)
(* the bootstrap that installs the functions.                                *)
(***************************************************************************)
EXTENDS ProviderExchange, PrimaryBootstrap

CONSTANTS Callers     \* the grants that the free callers claim

VARIABLES part, freeNow, freeInstalled, freeOccupancy, freeControls, freeActivations

Order(auth, key, binding, spec, issued, expires) ==
  [auth |-> auth, key |-> key, binding |-> binding, spec |-> spec,
   issued |-> issued, expires |-> expires]

FirstOrder == Order("a1", "k1", "b1", "s1", 0, 3)
SecondOrder == Order("a2", "k1", "b2", "s1", 0, 3)
MCOrders == {FirstOrder, SecondOrder}
MCOrderOf == [h \in Hosts |-> IF h = "h3" THEN SecondOrder ELSE FirstOrder]

\* One order, the same one for another worker specification, a second
\* authorization for the same effect, one authorization for a second effect,
\* and an order whose effect the superseded ledger has.
FreeOrders ==
  {Order("a1", "k1", "b1", "s1", 1, 3), Order("a1", "k1", "b1", "s2", 1, 3),
   Order("a2", "k1", "b2", "s1", 0, 2), Order("a1", "k2", "b3", "s1", 0, 2),
   Order("a3", "k3", "b4", "s1", 0, 2)}
OldRows == {[key |-> "k3", auth |-> "a9", binding |-> "b9"]}

Free == INSTANCE ProviderDispatch WITH
  Orders <- FreeOrders, Legacy <- OldRows, Grants <- Callers,
  now <- freeNow, installed <- freeInstalled, occupancy <- freeOccupancy,
  controls <- freeControls, activations <- freeActivations

freeVars == <<freeNow, freeInstalled, freeOccupancy, freeControls, freeActivations>>

\* Two roles; one has a function that is no longer in its policy.
MCUserOf == [authorizer |-> "tp_authorizer_user", source |-> "tp_source_user"]
MCPolicy == [authorizer |-> {"spend"}, source |-> {"resolve_v3"}]
MCRetired == [authorizer |-> {}, source |-> {"resolve_v1"}]

\* The bootstrap's state where it is not the subject.
Uninstalled ==
  /\ shells = FALSE /\ openDefault = TRUE /\ functions = {} /\ executes = {} /\ members = {}
  /\ password = [u \in Users |-> "none"] /\ trustRoot = "none"
  /\ boot = [b \in Boots |-> Waiting] /\ cut = FALSE

\* Every run has ended.
Installed ==
  /\ \A b \in Boots : boot[b].at \in {Attested, Rejected}
  /\ UNCHANGED bootVars

MCInit ==
  /\ part \in {"exchange", "ledger", "bootstrap"} /\ ExchangeInit /\ Free!DispatchInit
  /\ IF part = "bootstrap" THEN BootInit ELSE Uninstalled
MCNext ==
  /\ \/ part = "exchange" /\ ExchangeNext /\ UNCHANGED <<freeVars, bootVars>>
     \/ part = "ledger" /\ Free!DispatchNext /\ UNCHANGED <<exchangeVars, bootVars>>
     \/ part = "bootstrap" /\ (BootNext \/ Installed) /\ UNCHANGED <<exchangeVars, freeVars>>
  /\ UNCHANGED part

\* The fairness of ExchangeFairSpec, for the part that has it.
MCSpec ==
  /\ MCInit /\ [][MCNext]_<<part, freeVars, exchangeVars, bootVars>>
  /\ WF_exchangeVars(part = "exchange" /\ ExchangeTick)
  /\ \A h \in Hosts :
       /\ WF_exchangeVars(part = "exchange" /\ cadence[h] /\ TerminalizerRun(h))
       /\ WF_exchangeVars(part = "exchange" /\ AcknowledgementFails(h))
       /\ WF_exchangeVars(part = "exchange" /\ ResultTimeout(h))

\* ActivationsAreAccountedFor, for callers that only the functions stop.
LedgerIsSound == Free!ActivationsAreAccountedFor
=============================================================================
