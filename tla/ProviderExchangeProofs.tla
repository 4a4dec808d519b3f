----------------------- MODULE ProviderExchangeProofs -----------------------
(***************************************************************************)
(* The dispatch ledger accounts for every activation, and the hosts around  *)
(* it perform the effect of a key at most once and report it truly, for any *)
(* orders, hosts, results, superseded rows and times.                       *)
(***************************************************************************)
EXTENDS ProviderExchange, FiniteSetTheorems, TLAPS

-----------------------------------------------------------------------------
(* The ledger. *)

\* Before the functions are installed the tables are empty.
NothingBeforeInstallation ==
  ~installed => occupancy = {} /\ controls = {} /\ activations = {}

\* provider_effect_key is the primary key of the occupancy table.
OneOccupancyPerKey == \A r, s \in occupancy : r.key = s.key => r = s

\* Only a completed row carries a result.
ResultsOnlyWhenCompleted ==
  \A c \in controls : c.state # "COMPLETED" => c.result = NoResult

\* ActivationsAreAccountedFor and what it takes to be inductive.
DispatchInv ==
  /\ DispatchTypeOK
  /\ NothingBeforeInstallation
  /\ OneOccupancyPerKey
  /\ ResultsOnlyWhenCompleted
  /\ ActivationsAreAccountedFor

\* A control row remains one when its state and its result change.
LEMMA UpdatedControl ==
  ASSUME NEW c \in Controls, NEW s \in Live \cup Terminal, NEW r \in Results \cup {NoResult}
  PROVE  /\ [c EXCEPT !.state = s, !.result = r] \in Controls
         /\ [c EXCEPT !.state = s, !.result = r].order = c.order
         /\ [c EXCEPT !.state = s, !.result = r].grant = c.grant
         /\ [c EXCEPT !.state = s, !.result = r].state = s
         /\ [c EXCEPT !.state = s, !.result = r].result = r
  BY DEF Controls

\* Rows whose occupancy is recorded add nothing to it.
LEMMA AgreedIsReconciled ==
  /\ ProvenanceAgrees(occupancy) => Reconciled = occupancy
  /\ ProvenanceAgrees(occupancy)' => Reconciled' = occupancy'
  BY DEF ProvenanceAgrees, Reconciled, OccupiedKeys, OccupancyOf, OccupancyOfLegacy

\* What a transition of a row does: it keeps the row's order and grant; an
\* activated row stays redeemed, completed or unknown.
Transition(c, s, r) ==
  /\ c \in controls
  /\ Update(c, s, r)
  /\ s \in Live \cup Terminal /\ r \in Results \cup {NoResult}
  /\ c.state \in {"CREDENTIAL_REDEEMED"} => s \in {"COMPLETED", "UNKNOWN_DO_NOT_ACT"}
  /\ c.state \in Live
  /\ s = "COMPLETED" => \E a \in activations : a.auth = c.order.auth
  /\ s # "COMPLETED" => r = NoResult

\* A transition of one row keeps the invariant of the ledger.
LEMMA TransitionKeepsInv ==
  ASSUME DispatchInv, NEW c, NEW s, NEW r, Transition(c, s, r)
  PROVE  DispatchInv'
  <1> DEFINE d == [c EXCEPT !.state = s, !.result = r]
  <1>1. /\ c \in controls /\ c \in Controls
        /\ controls' = (controls \ {c}) \cup {d}
        /\ UNCHANGED <<now, installed, occupancy, activations>>
    BY DEF Transition, Update, DispatchInv, DispatchTypeOK
  <1>2. d \in Controls /\ d.order = c.order /\ d.grant = c.grant /\ d.state = s /\ d.result = r
    BY <1>1, UpdatedControl DEF Transition
  <1> HIDE DEF d
  <1>3. DispatchTypeOK'
    BY <1>1, <1>2 DEF DispatchInv, DispatchTypeOK, Time
  <1>4. NothingBeforeInstallation' /\ OneOccupancyPerKey'
    BY <1>1 DEF DispatchInv, NothingBeforeInstallation, OneOccupancyPerKey
  <1>5. ResultsOnlyWhenCompleted'
    BY <1>1, <1>2 DEF DispatchInv, ResultsOnlyWhenCompleted, Transition
  <1>6. OneControlPerEffect'
    BY <1>1, <1>2 DEF DispatchInv, ActivationsAreAccountedFor, OneControlPerEffect
  <1>7. ReconciliationIsIdempotent'
    BY <1>1, <1>2, AgreedIsReconciled DEF DispatchInv, ActivationsAreAccountedFor,
       ReconciliationIsIdempotent, ProvenanceAgrees
  <1>8. ASSUME NEW a \in activations'
        PROVE  \E x \in controls' :
                 /\ x.order.auth = a.auth /\ x.order.binding = a.binding /\ x.grant = a.grant
                 /\ x.state \in {"CREDENTIAL_REDEEMED", "COMPLETED", "UNKNOWN_DO_NOT_ACT"}
                 /\ x.order.issued <= a.at /\ a.at < x.order.expires
    BY <1>1, <1>2, <1>8 DEF DispatchInv, ActivationsAreAccountedFor, Transition, Live
  <1>9. ASSUME NEW x \in controls', x.state = "COMPLETED"
        PROVE  \E a \in activations' : a.auth = x.order.auth /\ a.grant = x.grant
    BY <1>1, <1>2, <1>9 DEF DispatchInv, ActivationsAreAccountedFor, OneControlPerEffect, Transition
  <1> QED BY <1>3, <1>4, <1>5, <1>6, <1>7, <1>8, <1>9 DEF DispatchInv, ActivationsAreAccountedFor

\* Running the bootstrap, for the first time or again, keeps the invariant.
LEMMA ReconcileKeepsInv ==
  ASSUME DispatchInv, Reconcile
  PROVE  DispatchInv'
  <1>1. occupancy' = Reconciled /\ installed' = TRUE /\ UNCHANGED <<now, controls, activations>>
    BY DEF Reconcile
  <1>2. installed => occupancy' = occupancy
    BY <1>1 DEF DispatchInv, ActivationsAreAccountedFor, ReconciliationIsIdempotent
  <1>3. ~installed => occupancy' = {OccupancyOfLegacy(l) : l \in Legacy}
    BY <1>1 DEF DispatchInv, NothingBeforeInstallation, Reconciled, OccupiedKeys
  <1>4. OneOccupancyPerKey'
    BY <1>2, <1>3, DispatchAssumption DEF DispatchInv, OneOccupancyPerKey, OccupancyOfLegacy
  <1>5. DispatchTypeOK'
    <2>1. \A l \in Legacy : OccupancyOfLegacy(l) \in Occupancies
      BY DEF OccupancyOfLegacy, Occupancies
    <2> QED BY <1>1, <1>2, <1>3, <2>1 DEF DispatchInv, DispatchTypeOK, Time
  <1>6. ReconciliationIsIdempotent'
    <2>1. ProvenanceAgrees(Reconciled)
      BY DEF Reconcile
    <2>2. ProvenanceAgrees(occupancy)'
      BY <1>1, <2>1 DEF ProvenanceAgrees
    <2> QED BY <2>2, AgreedIsReconciled DEF ReconciliationIsIdempotent
  <1>7. /\ NothingBeforeInstallation' /\ ResultsOnlyWhenCompleted' /\ OneControlPerEffect'
    BY <1>1 DEF DispatchInv, NothingBeforeInstallation, ResultsOnlyWhenCompleted,
       OneControlPerEffect, ActivationsAreAccountedFor
  <1> QED BY <1>1, <1>4, <1>5, <1>6, <1>7 DEF DispatchInv, ActivationsAreAccountedFor

\* A first claim adds the only row of its authorization, key and grant.
LEMMA ClaimNewKeepsInv ==
  ASSUME DispatchInv, NEW o \in Orders, NEW g \in Grants, ClaimNew(o, g)
  PROVE  DispatchInv'
  <1> DEFINE n == NewControl(o, g)
  <1>1. /\ installed /\ MayOccupy(o) /\ Claimed(o) = {}
        /\ \A c \in controls : c.grant # g
        /\ occupancy' = occupancy \cup {OccupancyOf(o)}
        /\ controls' = controls \cup {n}
        /\ UNCHANGED <<now, installed, activations>>
    BY DEF ClaimNew
  <1>2. /\ n \in Controls /\ n.order = o /\ n.grant = g /\ n.result = NoResult
        /\ n.state # "COMPLETED"
    BY DEF NewControl, Controls, Live, Terminal
  <1> HIDE DEF n
  <1>3. OccupancyOf(o) \in Occupancies /\ OccupancyOf(o).key = o.key
    BY DEF OccupancyOf, Occupancies, Keys, Auths, Bindings
  <1>4. DispatchTypeOK'
    BY <1>1, <1>2, <1>3 DEF DispatchInv, DispatchTypeOK, Time
  <1>5. OneOccupancyPerKey'
    BY <1>1, <1>3 DEF DispatchInv, OneOccupancyPerKey, MayOccupy, OccupiedKeys
  <1>6. OneControlPerEffect'
    <2>1. \A c \in controls : c.order.auth # o.auth /\ c.order.key # o.key /\ c.grant # g
      BY <1>1 DEF Claimed
    <2>2. \A l \in Legacy : OccupancyOfLegacy(l) \in occupancy
      BY <1>1 DEF DispatchInv, ActivationsAreAccountedFor, ReconciliationIsIdempotent,
         ProvenanceAgrees
    <2>3. \A l \in Legacy : o.key # l.key
      BY <1>1, <1>3, <2>2 DEF DispatchInv, OneOccupancyPerKey, MayOccupy, OccupiedKeys,
         OccupancyOf, OccupancyOfLegacy
    <2> QED BY <1>1, <1>2, <2>1, <2>3 DEF DispatchInv, ActivationsAreAccountedFor, OneControlPerEffect
  <1>7. ReconciliationIsIdempotent'
    BY <1>1, <1>2, AgreedIsReconciled DEF DispatchInv, ActivationsAreAccountedFor,
       ReconciliationIsIdempotent, ProvenanceAgrees
  <1>8. NothingBeforeInstallation' /\ ResultsOnlyWhenCompleted'
    BY <1>1, <1>2 DEF DispatchInv, NothingBeforeInstallation, ResultsOnlyWhenCompleted
  <1> QED BY <1>1, <1>2, <1>4, <1>5, <1>6, <1>7, <1>8 DEF DispatchInv, ActivationsAreAccountedFor

\* An activation is of a redeemed row within its window.
LEMMA ActivateKeepsInv ==
  ASSUME DispatchInv, NEW o \in Orders, NEW g \in Grants, ActivateFirst(o, g)
  PROVE  DispatchInv'
  <1>1. PICK c \in controls :
          /\ c.order.binding = o.binding /\ c.grant = g
          /\ c.state = "CREDENTIAL_REDEEMED" /\ InWindow(c.order)
    BY DEF ActivateFirst
  <1>2. c.order \in Orders /\ c.order.auth = o.auth
    BY <1>1, DispatchAssumption DEF DispatchInv, DispatchTypeOK, Controls
  <1>3. /\ activations' = activations \cup {ActivationRow(o, g)}
        /\ UNCHANGED <<now, installed, occupancy, controls>>
    BY DEF ActivateFirst
  <1>4. ActivationRow(o, g) \in Activations
    BY DEF ActivationRow, Activations, Auths, Bindings, DispatchInv, DispatchTypeOK
  <1>5. DispatchTypeOK'
    BY <1>3, <1>4 DEF DispatchInv, DispatchTypeOK, Time
  <1>6. /\ NothingBeforeInstallation' /\ OneOccupancyPerKey' /\ ResultsOnlyWhenCompleted'
        /\ OneControlPerEffect' /\ ReconciliationIsIdempotent'
    BY <1>1, <1>3, AgreedIsReconciled DEF DispatchInv, NothingBeforeInstallation, OneOccupancyPerKey,
       ResultsOnlyWhenCompleted, ActivationsAreAccountedFor, OneControlPerEffect,
       ReconciliationIsIdempotent, ProvenanceAgrees
  <1>7. ASSUME NEW a \in activations'
        PROVE  \E x \in controls' :
                 /\ x.order.auth = a.auth /\ x.order.binding = a.binding /\ x.grant = a.grant
                 /\ x.state \in {"CREDENTIAL_REDEEMED", "COMPLETED", "UNKNOWN_DO_NOT_ACT"}
                 /\ x.order.issued <= a.at /\ a.at < x.order.expires
    BY <1>1, <1>2, <1>3, <1>7 DEF DispatchInv, ActivationsAreAccountedFor, ActivationRow, InWindow
  <1> QED BY <1>3, <1>5, <1>6, <1>7 DEF DispatchInv, ActivationsAreAccountedFor

\* Every other function moves one row along a transition, or changes nothing.
LEMMA UpdatesAreTransitions ==
  ASSUME DispatchInv, NEW o \in Orders, NEW g \in Grants,
         \/ ClaimAgain(o, g) \/ Begin(o, g) \/ Redeem(o, g) \/ MarkUnknown(o, g)
         \/ Terminalize(o, g) \/ \E r \in Results : Complete(o, g, r)
  PROVE  NoChange \/ \E c, s, r : Transition(c, s, r)
  <1> USE DEF Transition, Live, Terminal, DispatchInv, ResultsOnlyWhenCompleted
  <1>1. CASE ClaimAgain(o, g)
    BY <1>1 DEF ClaimAgain
  <1>2. CASE Begin(o, g)
    BY <1>2 DEF Begin, Owned
  <1>3. CASE Redeem(o, g)
    BY <1>3 DEF Redeem, Owned
  <1>4. CASE MarkUnknown(o, g)
    BY <1>4 DEF MarkUnknown
  <1>5. CASE Terminalize(o, g)
    BY <1>5 DEF Terminalize, Owned
  <1>6. ASSUME NEW r \in Results, Complete(o, g, r) PROVE \E c, s, t : Transition(c, s, t)
    BY <1>6, DispatchAssumption DEF Complete, ActivatedAuths, DispatchTypeOK, Controls
  <1> QED BY <1>1, <1>2, <1>3, <1>4, <1>5, <1>6

\* The ledger's invariant is inductive.
LEMMA DispatchStepKeepsInv == DispatchInv /\ [DispatchNext]_dispatchVars => DispatchInv'
  <1> SUFFICES ASSUME DispatchInv, [DispatchNext]_dispatchVars PROVE DispatchInv'
    OBVIOUS
  <1>1. CASE Tick \/ UNCHANGED dispatchVars
    <2>1. UNCHANGED <<installed, occupancy, controls, activations>> /\ now' \in Time
      BY <1>1, DispatchAssumption DEF Tick, dispatchVars, DispatchInv, DispatchTypeOK, Time
    <2> QED BY <2>1, AgreedIsReconciled DEF DispatchInv, DispatchTypeOK, NothingBeforeInstallation,
          OneOccupancyPerKey, ResultsOnlyWhenCompleted, ActivationsAreAccountedFor,
          OneControlPerEffect, ReconciliationIsIdempotent, ProvenanceAgrees
  <1>2. CASE Reconcile
    BY <1>2, ReconcileKeepsInv
  <1>3. ASSUME NEW o \in Orders, NEW g \in Grants, ClaimNew(o, g) PROVE DispatchInv'
    BY <1>3, ClaimNewKeepsInv
  <1>4. ASSUME NEW o \in Orders, NEW g \in Grants, ActivateFirst(o, g) PROVE DispatchInv'
    BY <1>4, ActivateKeepsInv
  <1>5. ASSUME NEW o \in Orders, NEW g \in Grants,
               \/ ClaimAgain(o, g) \/ Begin(o, g) \/ Redeem(o, g) \/ MarkUnknown(o, g)
               \/ Terminalize(o, g) \/ \E r \in Results : Complete(o, g, r)
        PROVE  DispatchInv'
    BY <1>1, <1>5, UpdatesAreTransitions, TransitionKeepsInv DEF NoChange
  <1> QED BY <1>1, <1>2, <1>3, <1>4, <1>5 DEF DispatchNext

\* An empty database satisfies it.
LEMMA DispatchStarts == DispatchInit => DispatchInv
  <1> SUFFICES ASSUME DispatchInit PROVE DispatchInv
    OBVIOUS
  <1>1. /\ installed = FALSE /\ installed \in BOOLEAN
        /\ occupancy = {} /\ controls = {} /\ activations = {}
    BY DEF DispatchInit
  <1>2. now \in Time
    BY DispatchAssumption DEF DispatchInit, Time
  <1> QED BY <1>1, <1>2 DEF DispatchInv, DispatchTypeOK, NothingBeforeInstallation, OneOccupancyPerKey,
        ResultsOnlyWhenCompleted, ActivationsAreAccountedFor, OneControlPerEffect,
        ReconciliationIsIdempotent

\* Callers that nothing but the functions' own checks binds never lead the
\* dispatch ledger of primary-security.js to an activation it does not account
\* for, to two rows for an effect, or to a provenance conflict.
THEOREM LedgerAccounts == DispatchSpec => []ActivationsAreAccountedFor
  <1>1. DispatchInv => ActivationsAreAccountedFor
    BY DEF DispatchInv
  <1> QED BY <1>1, DispatchStarts, DispatchStepKeepsInv, PTL DEF DispatchSpec

-----------------------------------------------------------------------------
(* The hosts. *)

Redeemed == {"CREDENTIAL_REDEEMED", "COMPLETED", "UNKNOWN_DO_NOT_ACT"}

\* A host claims the order it was given.
RowsAreOfHosts == \A c \in controls : c.order = OrderOf[c.grant]

\* The processes of a host follow each other: the credential is redeemed
\* before an activation is asked for, the activation process exits before the
\* exchange starts, and both happen once.
InSequence(h) ==
  /\ activation[h] # "off" => HoldsIn(controls, h, Redeemed)
  /\ operation[h] # "idle" => activation[h] # "off"
  /\ exchange[h] # "off" => activation[h] = "exited"

\* The provider is called once at most, and what is said of its answer is so.
CalledOnce(h) ==
  /\ calls[h] \in {0, 1}
  /\ exchange[h] \notin {"answered", "ended"} => calls[h] = 0
  /\ exchange[h] = "answered" => calls[h] = 1 /\ answer[h] \in Results
  /\ calls[h] = 0 => answer[h] = NoResult
  /\ transcript[h] # NoResult =>
       calls[h] = 1 /\ answer[h] = transcript[h] /\ exchange[h] = "ended"

\* Nothing goes on without PROCEED_ONCE.
StoppedUnlessProceeding(h) ==
  /\ operation[h] \in {"ACTIVATING", "ACTIVATION_ACKNOWLEDGED"} =>
       calls[h] = 0 /\ exchange[h] \notin {"cleared", "fenced", "answered"}
  /\ gaveUp[h] =>
       /\ operation[h] = "idle" /\ activation[h] # "off"
       /\ calls[h] = 0 /\ exchange[h] \notin {"cleared", "fenced", "answered"}

\* A completed row has the result of the transcript.
ResultsAreTranscribed ==
  \A c \in controls : c.state = "COMPLETED" =>
    transcript[c.grant] # NoResult /\ c.result = transcript[c.grant]

ExchangeInv ==
  /\ DispatchInv
  /\ ExchangeTypeOK
  /\ RowsAreOfHosts
  /\ ResultsAreTranscribed
  /\ \A h \in Hosts : InSequence(h) /\ CalledOnce(h) /\ StoppedUnlessProceeding(h)

\* What a step of host h does to the ledger: nothing, a first claim, an
\* activation, or a transition of one row; a result comes from the transcript.
LedgerStep(h) ==
  \/ UNCHANGED dispatchVars
  \/ ClaimNew(OrderOf[h], h)
  \/ ActivateFirst(OrderOf[h], h)
  \/ \E c, s, r :
       /\ Transition(c, s, r)
       /\ s = "COMPLETED" => c.grant = h /\ transcript[h] # NoResult /\ r = transcript[h]

\* The host's steps on the ledger are calls of its functions.
LEMMA HostCalls ==
  ASSUME ExchangeInv, NEW h \in Hosts, HostStep(h)
  PROVE  LedgerStep(h) /\ [DispatchNext]_dispatchVars
  <1>1. OrderOf[h] \in Orders /\ h \in Grants
    BY ExchangeAssumption DEF Hosts
  <1>2. CASE DispatchClaim(h)
    <2>1. CASE ClaimNew(OrderOf[h], h)
      BY <1>1, <2>1 DEF LedgerStep, DispatchNext
    <2>2. CASE ClaimAgain(OrderOf[h], h)
      <3>1. \E c \in controls : NoChange \/ (c.state = "GRANTED" /\ Update(c, "EXPIRED", c.result))
        BY <2>2 DEF ClaimAgain
      <3>2. NoChange \/ \E c, r : Transition(c, "EXPIRED", r)
        BY <3>1 DEF Transition, Live, Terminal, ExchangeInv, DispatchInv, ResultsOnlyWhenCompleted
      <3> QED BY <1>1, <2>2, <3>2 DEF LedgerStep, DispatchNext, NoChange
    <2> QED BY <1>2, <2>1, <2>2 DEF DispatchClaim
  <1>3. CASE DispatchBegin(h)
    <2>1. Begin(OrderOf[h], h)
      BY <1>3 DEF DispatchBegin
    <2>2. NoChange \/ \E c, s, r : Transition(c, s, r) /\ s # "COMPLETED"
      BY <2>1 DEF Begin, Owned, Transition, Live, Terminal, ExchangeInv, DispatchInv,
         ResultsOnlyWhenCompleted
    <2> QED BY <1>1, <2>1, <2>2 DEF LedgerStep, DispatchNext, NoChange
  <1>4. CASE OperationExecute(h)
    <2>1. Redeem(OrderOf[h], h)
      BY <1>4 DEF OperationExecute
    <2>2. NoChange \/ \E c, s, r : Transition(c, s, r) /\ s # "COMPLETED"
      BY <2>1 DEF Redeem, Owned, Transition, Live, Terminal, ExchangeInv, DispatchInv,
         ResultsOnlyWhenCompleted
    <2> QED BY <1>1, <2>1, <2>2 DEF LedgerStep, DispatchNext, NoChange
  <1>5. CASE OperationComplete(h)
    <2>1. transcript[h] \in Results /\ Complete(OrderOf[h], h, transcript[h])
      BY <1>5 DEF OperationComplete, ExchangeInv, ExchangeTypeOK
    <2>2. \E c : Transition(c, "COMPLETED", transcript[h]) /\ c.grant = h
      BY <1>1, <2>1, DispatchAssumption DEF Complete, ActivatedAuths, Transition, Live, Terminal,
         ExchangeInv, DispatchInv, DispatchTypeOK, Controls
    <2> QED BY <1>1, <2>1, <2>2, DispatchAssumption DEF LedgerStep, DispatchNext
  <1>6. CASE TerminalizerRun(h)
    <2>1. Terminalize(OrderOf[h], h) \/ NoChange
      BY <1>6 DEF TerminalizerRun
    <2>2. NoChange \/ \E c, s, r : Transition(c, s, r) /\ s # "COMPLETED"
      BY <2>1 DEF Terminalize, Owned, Transition, Live, Terminal, ExchangeInv, DispatchInv,
         ResultsOnlyWhenCompleted
    <2> QED BY <1>1, <2>1, <2>2 DEF LedgerStep, DispatchNext, NoChange
  <1>7. CASE Activate(h)
    BY <1>1, <1>7 DEF Activate, LedgerStep, DispatchNext
  <1>8. CASE \/ DispatchPublish(h) \/ DispatchCrash(h)
             \/ AcknowledgementFails(h) \/ ResultTimeout(h) \/ OperationCrash(h) \/ Acknowledge(h)
             \/ ActivationExit(h) \/ ActivationCrash(h)
             \/ ExchangeReady(h) \/ ExchangeFence(h) \/ ExchangeCall(h) \/ ExchangeResult(h)
             \/ ExchangeCrash(h) \/ CadenceEnds(h)
    <2>1. UNCHANGED dispatchVars
      BY <1>8 DEF CadenceEnds, DispatchPublish, DispatchCrash, AcknowledgementFails, ResultTimeout,
         OperationCrash, DropPending, Acknowledge, ActivationExit, ActivationCrash, ExchangeReady,
         ExchangeFence, ExchangeCall, ExchangeResult, ExchangeCrash
    <2> QED BY <2>1 DEF LedgerStep
  <1> QED BY <1>2, <1>3, <1>4, <1>5, <1>6, <1>7, <1>8 DEF HostStep

\* No step takes a redemption back.
LEMMA RedeemedStays ==
  ASSUME ExchangeInv, NEW h \in Hosts, LedgerStep(h)
  PROVE  /\ \A j \in Hosts : HoldsIn(controls, j, Redeemed) => HoldsIn(controls', j, Redeemed)
         /\ RowsAreOfHosts'
         /\ UNCHANGED transcript => ResultsAreTranscribed'
  <1> USE DEF HoldsIn, RowsAreOfHosts, ResultsAreTranscribed, ExchangeInv
  <1>1. CASE UNCHANGED dispatchVars \/ ActivateFirst(OrderOf[h], h)
    <2>1. UNCHANGED controls
      BY <1>1 DEF dispatchVars, ActivateFirst
    <2> QED BY <2>1
  <1>2. CASE ClaimNew(OrderOf[h], h)
    <2> DEFINE n == NewControl(OrderOf[h], h)
    <2>1. controls' = controls \cup {n}
      BY <1>2 DEF ClaimNew
    <2>2. n.order = OrderOf[h] /\ n.grant = h /\ n.state # "COMPLETED"
      BY DEF NewControl
    <2> HIDE DEF n
    <2> QED BY <2>1, <2>2
  <1>3. ASSUME NEW c, NEW s, NEW r, Transition(c, s, r),
               s = "COMPLETED" => c.grant = h /\ transcript[h] # NoResult /\ r = transcript[h]
        PROVE  /\ \A j \in Hosts : HoldsIn(controls, j, Redeemed) => HoldsIn(controls', j, Redeemed)
               /\ RowsAreOfHosts'
               /\ UNCHANGED transcript => ResultsAreTranscribed'
    <2> DEFINE d == [c EXCEPT !.state = s, !.result = r]
    <2>1. c \in controls /\ c \in Controls /\ controls' = (controls \ {c}) \cup {d}
      BY <1>3 DEF Transition, Update, DispatchInv, DispatchTypeOK
    <2>2. d.order = c.order /\ d.grant = c.grant /\ d.state = s /\ d.result = r
      BY <1>3, <2>1, UpdatedControl DEF Transition
    <2> HIDE DEF d
    <2> QED BY <1>3, <2>1, <2>2 DEF Transition, Redeemed, Live
  <1> QED BY <1>1, <1>2, <1>3 DEF LedgerStep

\* The types of the processes' variables.
LEMMA HostKeepsTypes ==
  ASSUME ExchangeInv, DispatchTypeOK', NEW h \in Hosts, HostStep(h)
  PROVE  ExchangeTypeOK'
  <1> USE DEF ExchangeInv, ExchangeTypeOK
  <1>1. CASE DispatchClaim(h)
    BY <1>1 DEF DispatchClaim, dispatchOnly
  <1>2. CASE DispatchBegin(h)
    BY <1>2 DEF DispatchBegin, dispatchOnly
  <1>3. CASE DispatchPublish(h)
    BY <1>3 DEF DispatchPublish
  <1>4. CASE DispatchCrash(h)
    BY <1>4 DEF DispatchCrash, dispatchOnly
  <1>5. CASE OperationExecute(h)
    BY <1>5 DEF OperationExecute, operationOnly
  <1>6. CASE AcknowledgementFails(h)
    BY <1>6 DEF AcknowledgementFails, DropPending
  <1>7. CASE ResultTimeout(h)
    BY <1>7 DEF ResultTimeout, DropPending
  <1>8. CASE OperationCrash(h)
    BY <1>8 DEF OperationCrash, DropPending
  <1>9. CASE Acknowledge(h)
    BY <1>9 DEF Acknowledge, AnswerArrives
  <1>10. CASE OperationComplete(h)
    BY <1>10 DEF OperationComplete, processVars
  <1>11. CASE Activate(h)
    BY <1>11 DEF Activate, activationOnly, AnswerArrives
  <1>12. CASE ActivationExit(h)
    BY <1>12 DEF ActivationExit
  <1>13. CASE ActivationCrash(h)
    BY <1>13 DEF ActivationCrash, activationOnly
  <1>14. CASE ExchangeReady(h)
    <2>1. /\ parked' = parked \/ parked' = [parked EXCEPT ![h] = TRUE]
          /\ operation' = operation \/ operation' = [operation EXCEPT ![h] = "PROCEED_GRANTED"]
          /\ \E s \in {"waiting", "cleared", "ended"} : exchange' = [exchange EXCEPT ![h] = s]
          /\ UNCHANGED <<exchangeOnly, fence, calls, answer, cadence>>
      BY <1>14 DEF ExchangeReady, ExchangeStops
    <2>2. parked' \in [Hosts -> BOOLEAN]
      BY <2>1
    <2>3. /\ operation' \in [Hosts -> {"idle", "ACTIVATING", "ACTIVATION_ACKNOWLEDGED",
                                        "PROCEED_GRANTED"}]
          /\ exchange' \in [Hosts -> {"off", "started", "waiting", "cleared", "fenced",
                                       "answered", "ended"}]
      BY <2>1
    <2> QED BY <2>1, <2>2, <2>3 DEF exchangeOnly
  <1>15. CASE ExchangeFence(h)
    BY <1>15 DEF ExchangeFence, exchangeOnly, ExchangeStops
  <1>16. CASE ExchangeCall(h)
    BY <1>16 DEF ExchangeCall, exchangeOnly, ExchangeStops
  <1>17. CASE ExchangeResult(h)
    BY <1>17 DEF ExchangeResult, exchangeOnly, ExchangeStops
  <1>18. CASE ExchangeCrash(h)
    BY <1>18 DEF ExchangeCrash, exchangeOnly, ExchangeStops
  <1>19. CASE TerminalizerRun(h)
    BY <1>19 DEF TerminalizerRun, cadenceOnly
  <1>20. CASE CadenceEnds(h)
    BY <1>20 DEF CadenceEnds, cadenceOnly
  <1> QED BY <1>1, <1>2, <1>3, <1>4, <1>5, <1>6, <1>7, <1>8, <1>9, <1>10, <1>11, <1>12, <1>13, <1>14, <1>15, <1>16, <1>17, <1>18, <1>19, <1>20 DEF HostStep

\* The invariants of the hosts.
LEMMA HostKeepsHosts ==
  ASSUME ExchangeInv, NEW h \in Hosts, HostStep(h),
         \A j \in Hosts : HoldsIn(controls, j, Redeemed) => HoldsIn(controls', j, Redeemed)
  PROVE  \A j \in Hosts : InSequence(j)' /\ CalledOnce(j)' /\ StoppedUnlessProceeding(j)'
  <1> SUFFICES ASSUME NEW j \in Hosts
               PROVE  InSequence(j)' /\ CalledOnce(j)' /\ StoppedUnlessProceeding(j)'
    OBVIOUS
  <1> USE DEF ExchangeInv, ExchangeTypeOK, InSequence, CalledOnce, StoppedUnlessProceeding
  <1>1. CASE DispatchClaim(h)
    BY <1>1 DEF DispatchClaim, dispatchOnly
  <1>2. CASE DispatchBegin(h)
    BY <1>2 DEF DispatchBegin, dispatchOnly
  <1>3. CASE DispatchPublish(h)
    BY <1>3 DEF DispatchPublish
  <1>4. CASE DispatchCrash(h)
    BY <1>4 DEF DispatchCrash, dispatchOnly
  <1>5. CASE OperationExecute(h)
    <2>1. UNCHANGED operationOnly /\ UNCHANGED exchange
      BY <1>5 DEF OperationExecute
    <2>2. CASE UNCHANGED <<operation, activation>>
      BY <2>1, <2>2 DEF operationOnly
    <2>3. CASE /\ HoldsIn(controls, h, {"EXECUTING"})
               /\ HoldsIn(controls', h, {"CREDENTIAL_REDEEMED"})
               /\ operation' = [operation EXCEPT ![h] = "ACTIVATING"]
               /\ activation' = [activation EXCEPT ![h] = "asked"]
      <3>1. ~HoldsIn(controls, h, Redeemed)
        BY <2>3 DEF HoldsIn, Redeemed, DispatchInv, ActivationsAreAccountedFor, OneControlPerEffect
      <3>2. HoldsIn(controls', h, Redeemed)
        BY <2>3 DEF HoldsIn, Redeemed
      <3> QED BY <2>1, <2>3, <3>1, <3>2 DEF operationOnly
    <2> QED BY <1>5, <2>2, <2>3 DEF OperationExecute
  <1>6. CASE AcknowledgementFails(h)
    BY <1>6 DEF AcknowledgementFails, DropPending
  <1>7. CASE ResultTimeout(h)
    BY <1>7 DEF ResultTimeout, DropPending
  <1>8. CASE OperationCrash(h)
    BY <1>8 DEF OperationCrash, DropPending
  <1>9. CASE Acknowledge(h)
    BY <1>9 DEF Acknowledge, AnswerArrives
  <1>10. CASE OperationComplete(h)
    BY <1>10 DEF OperationComplete, processVars
  <1>11. CASE Activate(h)
    BY <1>11 DEF Activate, activationOnly, AnswerArrives
  <1>12. CASE ActivationExit(h)
    BY <1>12 DEF ActivationExit
  <1>13. CASE ActivationCrash(h)
    BY <1>13 DEF ActivationCrash, activationOnly
  <1>14. CASE ExchangeReady(h)
    BY <1>14 DEF ExchangeReady, exchangeOnly, ExchangeStops
  <1>15. CASE ExchangeFence(h)
    BY <1>15 DEF ExchangeFence, exchangeOnly, ExchangeStops
  <1>16. CASE ExchangeCall(h)
    BY <1>16 DEF ExchangeCall, exchangeOnly, ExchangeStops
  <1>17. CASE ExchangeResult(h)
    BY <1>17 DEF ExchangeResult, exchangeOnly, ExchangeStops
  <1>18. CASE ExchangeCrash(h)
    BY <1>18 DEF ExchangeCrash, exchangeOnly, ExchangeStops
  <1>19. CASE TerminalizerRun(h)
    BY <1>19 DEF TerminalizerRun, cadenceOnly
  <1>20. CASE CadenceEnds(h)
    BY <1>20 DEF CadenceEnds, cadenceOnly
  <1> QED BY <1>1, <1>2, <1>3, <1>4, <1>5, <1>6, <1>7, <1>8, <1>9, <1>10, <1>11, <1>12, <1>13, <1>14, <1>15, <1>16, <1>17, <1>18, <1>19, <1>20 DEF HostStep

\* The hosts' invariant is inductive.
LEMMA ExchangeStepKeepsInv == ExchangeInv /\ [ExchangeNext]_exchangeVars => ExchangeInv'
  <1> SUFFICES ASSUME ExchangeInv, [ExchangeNext]_exchangeVars PROVE ExchangeInv'
    OBVIOUS
  <1>1. CASE ExchangeTick \/ ExchangeBootstrap \/ UNCHANGED exchangeVars
    <2>1. UNCHANGED processVars /\ UNCHANGED controls /\ [DispatchNext]_dispatchVars
      BY <1>1 DEF ExchangeTick, ExchangeBootstrap, exchangeVars, Tick, Reconcile, dispatchVars,
         DispatchNext
    <2>2. DispatchInv'
      BY <2>1, DispatchStepKeepsInv DEF ExchangeInv
    <2> QED BY <2>1, <2>2 DEF processVars, ExchangeInv, ExchangeTypeOK, DispatchInv, RowsAreOfHosts,
          ResultsAreTranscribed, InSequence, CalledOnce, StoppedUnlessProceeding, HoldsIn
  <1>2. ASSUME NEW h \in Hosts, HostStep(h) PROVE ExchangeInv'
    <2>1. LedgerStep(h) /\ DispatchInv'
      BY <1>2, HostCalls, DispatchStepKeepsInv DEF ExchangeInv
    <2>2. /\ \A j \in Hosts : HoldsIn(controls, j, Redeemed) => HoldsIn(controls', j, Redeemed)
          /\ RowsAreOfHosts'
          /\ UNCHANGED transcript => ResultsAreTranscribed'
      BY <1>2, <2>1, RedeemedStays
    <2>3. ExchangeTypeOK'
      BY <1>2, <2>1, HostKeepsTypes DEF DispatchInv
    <2>4. \A j \in Hosts : InSequence(j)' /\ CalledOnce(j)' /\ StoppedUnlessProceeding(j)'
      BY <1>2, <2>2, HostKeepsHosts
    <2>5. ResultsAreTranscribed'
      <3>1. CASE ExchangeResult(h)
        BY <3>1 DEF ExchangeResult, ExchangeInv, ExchangeTypeOK, DispatchInv, DispatchTypeOK, Controls,
           Hosts, CalledOnce, ResultsAreTranscribed, dispatchVars
      <3>2. CASE ~ExchangeResult(h)
        <4>1. UNCHANGED transcript
          BY <1>2, <3>2 DEF HostStep, DispatchClaim, DispatchBegin, DispatchPublish, DispatchCrash,
             OperationExecute, AcknowledgementFails, ResultTimeout, OperationCrash, DropPending,
             Acknowledge, OperationComplete, Activate, ActivationExit, ActivationCrash,
             ExchangeReady, ExchangeFence, ExchangeCall, ExchangeCrash, TerminalizerRun, CadenceEnds,
             dispatchOnly, operationOnly, activationOnly, exchangeOnly, cadenceOnly, processVars
        <4> QED BY <2>2, <4>1
      <3> QED BY <3>1, <3>2
    <2> QED BY <2>1, <2>2, <2>3, <2>4, <2>5 DEF ExchangeInv
  <1> QED BY <1>1, <1>2 DEF ExchangeNext

\* Idle hosts satisfy it.
LEMMA ExchangeStarts == ExchangeInit => ExchangeInv
  <1> SUFFICES ASSUME ExchangeInit PROVE ExchangeInv
    OBVIOUS
  <1>1. DispatchInv
    BY DispatchStarts DEF ExchangeInit
  <1>2. ExchangeTypeOK
    BY <1>1 DEF ExchangeInit, ExchangeTypeOK, DispatchInv
  <1>3. controls = {}
    BY DEF ExchangeInit, DispatchInit
  <1> QED BY <1>1, <1>2, <1>3 DEF ExchangeInit, ExchangeInv, RowsAreOfHosts, ResultsAreTranscribed,
        InSequence, CalledOnce, StoppedUnlessProceeding

\* Hence it holds in every reachable state.
LEMMA ExchangeSafe == ExchangeSpec => []ExchangeInv
  BY ExchangeStarts, ExchangeStepKeepsInv, PTL DEF ExchangeSpec

\* An exchange whose activation was given up before PROCEED_ONCE never calls
\* the provider, however many hosts share the order and whatever is lost.
THEOREM GivingUpStopsTheCall == ExchangeSpec => []AckLossStopsTheExchange
  <1>1. ExchangeInv => AckLossStopsTheExchange
    BY DEF ExchangeInv, StoppedUnlessProceeding, AckLossStopsTheExchange
  <1> QED BY <1>1, ExchangeSafe, PTL

\* The ledger accounts for every activation of the hosts' processes as well.
THEOREM HostsAreAccountedFor == ExchangeSpec => []ActivationsAreAccountedFor
  <1>1. ExchangeInv => ActivationsAreAccountedFor
    BY DEF ExchangeInv, DispatchInv
  <1> QED BY <1>1, ExchangeSafe, PTL
-----------------------------------------------------------------------------
(* The refinement. *)

\* What a control row says of the effect of its key.
Said(c) ==
  [said |-> CASE c.state = "COMPLETED" -> "DONE"
              [] c.state = "EXPIRED" -> "NOT_DONE"
              [] c.state = "UNKNOWN_DO_NOT_ACT" -> "UNKNOWN"
              [] OTHER -> "OPEN",
   result |-> c.result]

\* The callers of a key are one host at most, which holds the row of the key;
\* and the verdict about the key is what its row says.
OneCallerPerKey ==
  /\ \A k \in Keys : CallsOf(k) = {} => Performed(k) = 0 /\ AnswerTo(k) = NoResult
  /\ \A h \in Hosts : calls[h] # 0 =>
       /\ CallsOf(OrderOf[h].key) = {h}
       /\ Performed(OrderOf[h].key) = 1 /\ AnswerTo(OrderOf[h].key) = answer[h]
  /\ \A c \in controls : VerdictOf(c.order.key) = Said(c)
  /\ \A k \in Keys : (\A c \in controls : c.order.key # k) => VerdictOf(k) = Effect!Open

\* A host that got as far as an activation holds the only row of its key.
LEMMA RowOfTheHost ==
  ASSUME ExchangeInv, NEW h \in Hosts, activation[h] # "off" \/ calls[h] # 0
  PROVE  \E c \in controls :
           /\ c.order = OrderOf[h] /\ c.grant = h /\ c.state \in Redeemed
           /\ \A d \in controls : d.order.key = OrderOf[h].key => d = c
  <1>1. activation[h] # "off"
    BY DEF ExchangeInv, CalledOnce, InSequence
  <1> QED BY <1>1 DEF ExchangeInv, InSequence, HoldsIn, DispatchInv, ActivationsAreAccountedFor,
        OneControlPerEffect

\* The mapped state follows from the invariant.
LEMMA InvGivesOneCaller == ExchangeInv => OneCallerPerKey
  <1> SUFFICES ASSUME ExchangeInv PROVE OneCallerPerKey
    OBVIOUS
  <1>1. \A k \in Keys : CallsOf(k) = {} => Performed(k) = 0 /\ AnswerTo(k) = NoResult
    BY DEF Performed, AnswerTo
  <1>2. ASSUME NEW h \in Hosts, calls[h] # 0
        PROVE  /\ CallsOf(OrderOf[h].key) = {h}
               /\ Performed(OrderOf[h].key) = 1 /\ AnswerTo(OrderOf[h].key) = answer[h]
    <2>1. ASSUME NEW j \in Hosts, OrderOf[j].key = OrderOf[h].key, calls[j] # 0 PROVE j = h
      BY <1>2, <2>1, RowOfTheHost
    <2>2. CallsOf(OrderOf[h].key) = {h}
      BY <1>2, <2>1 DEF CallsOf
    <2>3. Cardinality({h}) = 1 /\ (CHOOSE j \in {h} : TRUE) = h
      BY FS_Singleton
    <2>4. calls[h] = 1
      BY <1>2 DEF ExchangeInv, CalledOnce
    <2> QED BY <2>2, <2>3, <2>4 DEF Performed, AnswerTo
  <1>3. ASSUME NEW c \in controls PROVE VerdictOf(c.order.key) = Said(c)
    <2>1. {d \in controls : d.order.key = c.order.key} = {c}
      BY DEF ExchangeInv, DispatchInv, ActivationsAreAccountedFor, OneControlPerEffect
    <2>2. (CHOOSE d \in {c} : TRUE) = c
      OBVIOUS
    <2> QED BY <2>1, <2>2 DEF VerdictOf, Said
  <1>4. ASSUME NEW k \in Keys, \A c \in controls : c.order.key # k PROVE VerdictOf(k) = Effect!Open
    <2>1. {d \in controls : d.order.key = k} = {}
      BY <1>4
    <2> QED BY <2>1 DEF VerdictOf, Effect!Open
  <1> QED BY <1>1, <1>2, <1>3, <1>4 DEF OneCallerPerKey

\* The provider's call performs the effect of the key, for the first time and
\* before anything but UNKNOWN was said of it.
LEMMA CallPerforms ==
  ASSUME ExchangeInv, OneCallerPerKey, OneCallerPerKey', NEW h \in Hosts, ExchangeCall(h)
  PROVE  Effect!EffectNext
  <1> DEFINE k == OrderOf[h].key
  <1>1. k \in Keys /\ OrderOf[h] \in Orders
    BY ExchangeAssumption DEF Keys
  <1>2. /\ exchange[h] = "fenced"
        /\ calls' = [calls EXCEPT ![h] = @ + 1]
        /\ \/ \E r \in Results : answer' = [answer EXCEPT ![h] = r]
           \/ UNCHANGED answer
        /\ UNCHANGED controls
    BY DEF ExchangeCall, dispatchVars
  <1>3. /\ calls[h] = 0 /\ answer[h] = NoResult /\ transcript[h] = NoResult
        /\ activation[h] # "off"
        /\ calls \in [Hosts -> Nat] /\ answer \in [Hosts -> Results \cup {NoResult}]
    BY <1>2 DEF ExchangeInv, CalledOnce, InSequence, ExchangeTypeOK
  <1>4. /\ calls'[h] = 1 /\ answer'[h] \in Results \cup {NoResult}
        /\ \A j \in Hosts : j # h => calls'[j] = calls[j] /\ answer'[j] = answer[j]
    BY <1>2, <1>3
  <1>5. PICK c \in controls :
          /\ c.order = OrderOf[h] /\ c.grant = h /\ c.state \in Redeemed
          /\ \A d \in controls : d.order.key = k => d = c
    BY <1>3, RowOfTheHost
  <1>6. CallsOf(k) = {}
    <2>1. ASSUME NEW j \in Hosts, OrderOf[j].key = k, calls[j] # 0 PROVE FALSE
      BY <1>3, <1>5, <2>1, RowOfTheHost
    <2> QED BY <2>1 DEF CallsOf
  <1>7. Performed(k) = 0 /\ Performed(k)' = 1 /\ AnswerTo(k)' \in Results \cup {NoResult}
    BY <1>1, <1>4, <1>6 DEF OneCallerPerKey
  <1>8. ASSUME NEW m \in Keys, m # k
        PROVE  Performed(m)' = Performed(m) /\ AnswerTo(m)' = AnswerTo(m)
    <2>1. CASE CallsOf(m) = {}
      <3>1. CallsOf(m)' = {}
        BY <1>4, <1>8, <2>1 DEF CallsOf
      <3> QED BY <2>1, <3>1 DEF OneCallerPerKey
    <2>2. ASSUME NEW j \in CallsOf(m) PROVE Performed(m)' = Performed(m) /\ AnswerTo(m)' = AnswerTo(m)
      <3>1. j \in Hosts /\ OrderOf[j].key = m /\ calls[j] # 0 /\ j # h
        BY <1>8, <2>2 DEF CallsOf
      <3> QED BY <1>4, <3>1 DEF OneCallerPerKey
    <2> QED BY <2>1, <2>2
  <1>9. VerdictOf(k) \in {Effect!Open, Effect!Unknown}
    <2>1. c.state # "COMPLETED" /\ c.result = NoResult
      BY <1>3, <1>5 DEF ExchangeInv, ResultsAreTranscribed, DispatchInv, ResultsOnlyWhenCompleted
    <2>2. VerdictOf(k) = Said(c)
      BY <1>5 DEF OneCallerPerKey
    <2> QED BY <1>5, <2>1, <2>2 DEF Said, Redeemed, Effect!Open, Effect!Unknown
  <1>10. \A m \in Keys : VerdictOf(m)' = VerdictOf(m)
    BY <1>2 DEF VerdictOf
  <1> HIDE DEF k
  <1>11. Effect!Perform(k)
    BY <1>1, <1>7, <1>8, <1>9, <1>10 DEF Effect!Perform
  <1> QED BY <1>1, <1>11 DEF Effect!EffectNext

\* Without a call the performances and the answers stay.
LEMMA NoCallPerformsNothing ==
  ASSUME UNCHANGED <<calls, answer>>
  PROVE  \A k \in Keys : Performed(k)' = Performed(k) /\ AnswerTo(k)' = AnswerTo(k)
  BY DEF Performed, AnswerTo, CallsOf

\* The first claim of an order leaves the verdict open, or says NOT_DONE if it
\* comes too late.
LEMMA ClaimJudges ==
  ASSUME ExchangeInv, OneCallerPerKey, OneCallerPerKey', NEW h \in Hosts,
         ClaimNew(OrderOf[h], h), UNCHANGED <<calls, answer>>
  PROVE  [Effect!EffectNext]_Effect!effectVars
  <1> DEFINE k == OrderOf[h].key
             n == NewControl(OrderOf[h], h)
  <1>1. k \in Keys /\ OrderOf[h] \in Orders
    BY ExchangeAssumption DEF Keys
  <1>2. /\ n.order = OrderOf[h] /\ n.result = NoResult /\ n.state \in {"GRANTED", "EXPIRED"}
    BY DEF NewControl
  <1>3. controls' = controls \cup {n} /\ \A c \in controls : c.order.key # k
    BY DEF ClaimNew, Claimed
  <1> HIDE DEF n
  <1>4. VerdictOf(k) = Effect!Open /\ VerdictOf(k)' \in {Effect!Open, Effect!NotDone}
    <2>1. VerdictOf(k)' = Said(n)
      BY <1>2, <1>3 DEF OneCallerPerKey
    <2> QED BY <1>1, <1>2, <1>3, <2>1 DEF OneCallerPerKey, Said, Effect!Open, Effect!NotDone
  <1>5. ASSUME NEW m \in Keys, m # k PROVE VerdictOf(m)' = VerdictOf(m)
    <2>1. {c \in controls' : c.order.key = m} = {c \in controls : c.order.key = m}
      BY <1>2, <1>3, <1>5
    <2> QED BY <2>1 DEF VerdictOf
  <1>6. Performed(k) = 0
    <2>1. CallsOf(k) = {}
      BY <1>3, RowOfTheHost DEF CallsOf
    <2> QED BY <1>1, <2>1 DEF OneCallerPerKey
  <1>7. \A m \in Keys : Performed(m)' = Performed(m) /\ AnswerTo(m)' = AnswerTo(m)
    BY NoCallPerformsNothing
  <1> HIDE DEF k
  <1>8. CASE VerdictOf(k)' = Effect!NotDone
    <2>1. Effect!Judge(k)
      BY <1>1, <1>4, <1>5, <1>6, <1>7, <1>8 DEF Effect!Judge
    <2> QED BY <1>1, <2>1 DEF Effect!EffectNext
  <1>9. CASE VerdictOf(k)' = VerdictOf(k)
    BY <1>5, <1>7, <1>9 DEF Effect!effectVars
  <1> QED BY <1>4, <1>8, <1>9

\* A transition of a row gives the verdict: NOT_DONE only where nobody called,
\* DONE only with the caller's answer.
LEMMA TransitionJudges ==
  ASSUME ExchangeInv, OneCallerPerKey, OneCallerPerKey', NEW h \in Hosts,
         NEW c, NEW s, NEW r, Transition(c, s, r),
         s = "COMPLETED" => c.grant = h /\ transcript[h] # NoResult /\ r = transcript[h],
         UNCHANGED <<calls, answer>>
  PROVE  [Effect!EffectNext]_Effect!effectVars
  <1> DEFINE k == c.order.key
             d == [c EXCEPT !.state = s, !.result = r]
  <1>1. c \in controls /\ c \in Controls /\ controls' = (controls \ {c}) \cup {d}
    BY DEF Transition, Update, ExchangeInv, DispatchInv, DispatchTypeOK
  <1>2. d.order = c.order /\ d.grant = c.grant /\ d.state = s /\ d.result = r
    BY <1>1, UpdatedControl DEF Transition
  <1> HIDE DEF d
  <1>3. k \in Keys /\ c.order = OrderOf[c.grant] /\ c.grant \in Hosts
    BY <1>1 DEF Keys, Controls, ExchangeInv, RowsAreOfHosts, Hosts
  <1>4. c.result = NoResult /\ c.state \in Live
    BY <1>1 DEF Transition, ExchangeInv, DispatchInv, ResultsOnlyWhenCompleted, Live
  <1>5. VerdictOf(k) = Effect!Open /\ VerdictOf(k)' = Said(d)
    <2>1. VerdictOf(k) = Said(c) /\ VerdictOf(k)' = Said(d)
      BY <1>1, <1>2 DEF OneCallerPerKey
    <2> QED BY <1>4, <2>1 DEF Said, Live, Effect!Open
  <1>6. ASSUME NEW m \in Keys, m # k PROVE VerdictOf(m)' = VerdictOf(m)
    <2>1. {e \in controls' : e.order.key = m} = {e \in controls : e.order.key = m}
      BY <1>1, <1>2, <1>6
    <2> QED BY <2>1 DEF VerdictOf
  <1>7. \A m \in Keys : Performed(m)' = Performed(m) /\ AnswerTo(m)' = AnswerTo(m)
    BY NoCallPerformsNothing
  <1>8. s \in Live => VerdictOf(k)' = VerdictOf(k)
    BY <1>2, <1>5 DEF Said, Live, Effect!Open, Transition
  <1>9. s = "EXPIRED" => VerdictOf(k)' = Effect!NotDone /\ Performed(k) = 0
    <2> SUFFICES ASSUME s = "EXPIRED" PROVE VerdictOf(k)' = Effect!NotDone /\ Performed(k) = 0
      OBVIOUS
    <2>1. c.state \notin Redeemed
      BY <1>4 DEF Transition, Redeemed, Live
    <2>2. CallsOf(k) = {}
      BY <1>1, <2>1, RowOfTheHost DEF CallsOf
    <2> QED BY <1>2, <1>3, <1>5, <2>2 DEF OneCallerPerKey, Said, Effect!NotDone, Transition
  <1>10. s = "UNKNOWN_DO_NOT_ACT" => VerdictOf(k)' = Effect!Unknown
    BY <1>2, <1>5 DEF Said, Effect!Unknown, Transition
  <1>11. s = "COMPLETED" => AnswerTo(k) # NoResult /\ VerdictOf(k)' = Effect!Done(AnswerTo(k))
    <2> SUFFICES ASSUME s = "COMPLETED"
                 PROVE  AnswerTo(k) # NoResult /\ VerdictOf(k)' = Effect!Done(AnswerTo(k))
      OBVIOUS
    <2>1. calls[h] = 1 /\ answer[h] = transcript[h] /\ transcript[h] # NoResult
      BY DEF ExchangeInv, CalledOnce
    <2>2. AnswerTo(k) = answer[h]
      BY <1>3, <2>1 DEF OneCallerPerKey
    <2> QED BY <1>2, <1>5, <2>1, <2>2 DEF Said, Effect!Done
  <1> HIDE DEF k
  <1>12. CASE s \in Live
    BY <1>6, <1>7, <1>8, <1>12 DEF Effect!effectVars
  <1>13. CASE s \in Terminal
    <2>1. Effect!Judge(k)
      BY <1>3, <1>5, <1>6, <1>7, <1>9, <1>10, <1>11, <1>13 DEF Effect!Judge, Terminal
    <2> QED BY <1>3, <2>1 DEF Effect!EffectNext
  <1> QED BY <1>12, <1>13 DEF Transition

\* Every step of the hosts performs an effect, judges one, or is invisible.
LEMMA StepsImplementEffects ==
  ExchangeInv /\ ExchangeInv' /\ OneCallerPerKey /\ OneCallerPerKey' /\ [ExchangeNext]_exchangeVars
    => [Effect!EffectNext]_Effect!effectVars
  <1> SUFFICES ASSUME ExchangeInv, ExchangeInv', OneCallerPerKey, OneCallerPerKey',
                      [ExchangeNext]_exchangeVars
               PROVE  [Effect!EffectNext]_Effect!effectVars
    OBVIOUS
  <1>1. ASSUME UNCHANGED <<controls, calls, answer>> PROVE UNCHANGED Effect!effectVars
    <2>1. \A k \in Keys : VerdictOf(k)' = VerdictOf(k)
      BY <1>1 DEF VerdictOf
    <2> QED BY <1>1, <2>1, NoCallPerformsNothing DEF Effect!effectVars
  <1>2. CASE ExchangeTick \/ ExchangeBootstrap \/ UNCHANGED exchangeVars
    BY <1>1, <1>2 DEF ExchangeTick, ExchangeBootstrap, exchangeVars, Tick, Reconcile, dispatchVars,
       processVars
  <1>3. ASSUME NEW h \in Hosts, HostStep(h) PROVE [Effect!EffectNext]_Effect!effectVars
    <2>1. CASE ExchangeCall(h)
      BY <2>1, CallPerforms DEF ExchangeInv
    <2>2. CASE ~ExchangeCall(h)
      <3>1. UNCHANGED <<calls, answer>>
        BY <1>3, <2>2 DEF HostStep, DispatchClaim, DispatchBegin, DispatchPublish, DispatchCrash,
           OperationExecute, AcknowledgementFails, ResultTimeout, OperationCrash, DropPending,
           Acknowledge, OperationComplete, Activate, ActivationExit, ActivationCrash,
           ExchangeReady, ExchangeFence, ExchangeResult, ExchangeCrash, TerminalizerRun, CadenceEnds,
           dispatchOnly, operationOnly, activationOnly, exchangeOnly, cadenceOnly, processVars
      <3>2. CASE UNCHANGED dispatchVars \/ ActivateFirst(OrderOf[h], h)
        BY <1>1, <3>1, <3>2 DEF dispatchVars, ActivateFirst
      <3>3. CASE ClaimNew(OrderOf[h], h)
        BY <3>1, <3>3, ClaimJudges
      <3> QED BY <1>3, <3>1, <3>2, <3>3, HostCalls, TransitionJudges DEF LedgerStep
    <2> QED BY <2>1, <2>2
  <1> QED BY <1>2, <1>3 DEF ExchangeNext

\* Whatever is lost, late, repeated or crashes in the brokers, the activation
\* and the exchange, the hosts together perform the effect of a key at most
\* once, and the verdict of the ledger about it can be relied on.
THEOREM HostsImplementOneShotEffect == ExchangeSpec => ImplementsOneShotEffect
  <1>1. ExchangeInit => Effect!EffectInit
    <2> SUFFICES ASSUME ExchangeInit PROVE Effect!EffectInit
      OBVIOUS
    <2>1. OneCallerPerKey
      BY ExchangeStarts, InvGivesOneCaller
    <2>2. controls = {} /\ \A k \in Keys : CallsOf(k) = {}
      BY DEF ExchangeInit, DispatchInit, CallsOf
    <2> QED BY <2>1, <2>2 DEF OneCallerPerKey, Effect!EffectInit
  <1>2. ExchangeSpec => []OneCallerPerKey
    BY ExchangeSafe, InvGivesOneCaller, PTL
  <1> QED BY <1>1, <1>2, ExchangeSafe, StepsImplementEffects, PTL
        DEF ExchangeSpec, ImplementsOneShotEffect, Effect!EffectSpec
=============================================================================
