-------------------------- MODULE ProviderExchange --------------------------
(***************************************************************************)
(* The processes that carry out one provider dispatch on a host, around the *)
(* ledger of ProviderDispatch: the dispatch broker claims and begins; the   *)
(* operation broker redeems, asks for the activation and answers the        *)
(* exchange; the activation process obtains the activation row and starts   *)
(* the exchange, which calls the provider; the terminalizer settles what    *)
(* has expired.  Each is a process of its own that may die at any point,    *)
(* any answer may be lost, and several hosts may be given the same order.   *)
(*                                                                          *)
(* A host is named by the grant in its capability file.                     *)
(***************************************************************************)
EXTENDS ProviderDispatch

CONSTANTS
  OrderOf,          \* OrderOf[h]: the order the host was given
  Skew,             \* how far a host's clock may be from the database's
  MaxAge            \* PROVIDER_ACTIVATION_MAX_AGE_MILLISECONDS

VARIABLES
  dispatch,         \* the dispatch broker: idle, claimed or begun
  input,            \* provider-reconciliation-input.json is published
  operation,        \* the phase of the operation broker's pending activation
  parked,           \* a READY waits for the acknowledgement
  gaveUp,           \* history: an activation was dropped before PROCEED_ONCE
  transcript,       \* the result in the operation broker's transcript file
  activation,       \* the activation process
  ack,              \* its acknowledgement is on its way
  exchange,         \* the exchange process
  fence,            \* the exchange's consumption fence file exists
  calls,            \* external: how often the provider was called
  answer,           \* external: what it answered
  cadence           \* external: the terminalizer's timer has a run to count from

processVars == <<dispatch, input, operation, parked, gaveUp, transcript,
                 activation, ack, exchange, fence, calls, answer, cadence>>
exchangeVars == <<dispatchVars, processVars>>

Hosts == Grants

ASSUME ExchangeAssumption ==
  OrderOf \in [Hosts -> Orders] /\ Skew \in Nat /\ MaxAge \in Nat

ExchangeTypeOK ==
  /\ DispatchTypeOK
  /\ dispatch \in [Hosts -> {"idle", "claimed", "begun"}]
  /\ operation \in [Hosts -> {"idle", "ACTIVATING", "ACTIVATION_ACKNOWLEDGED",
                              "PROCEED_GRANTED"}]
  /\ activation \in [Hosts -> {"off", "asked", "granted", "exited", "failed"}]
  /\ exchange \in [Hosts -> {"off", "started", "waiting", "cleared", "fenced",
                             "answered", "ended"}]
  /\ {input, parked, gaveUp, ack, fence, cadence} \subseteq [Hosts -> BOOLEAN]
  /\ {transcript, answer} \subseteq [Hosts -> Results \cup {NoResult}]
  /\ calls \in [Hosts -> Nat]

ExchangeInit ==
  /\ DispatchInit
  /\ dispatch = [h \in Hosts |-> "idle"]
  /\ operation = [h \in Hosts |-> "idle"]
  /\ activation = [h \in Hosts |-> "off"]
  /\ exchange = [h \in Hosts |-> "off"]
  /\ input = [h \in Hosts |-> FALSE]
  /\ parked = [h \in Hosts |-> FALSE]
  /\ gaveUp = [h \in Hosts |-> FALSE]
  /\ ack = [h \in Hosts |-> FALSE]
  /\ fence = [h \in Hosts |-> FALSE]
  /\ transcript = [h \in Hosts |-> NoResult]
  /\ answer = [h \in Hosts |-> NoResult]
  /\ calls = [h \in Hosts |-> 0]
  /\ cadence = [h \in Hosts |-> FALSE]

\* A call may be applied and its answer lost; the client then reports it as
\* unknown (ACTIVATION_UNKNOWN_DO_NOT_DELIVER and its like).
AnswerArrives == BOOLEAN

\* The row of this host's grant, in the given table.
HoldsIn(rows, h, states) ==
  \E c \in rows : c.order = OrderOf[h] /\ c.grant = h /\ c.state \in states

-----------------------------------------------------------------------------
(* runIntegratedLiveDrillDispatchBroker.  A broker that fails, or whose call *)
(* ends ambiguously, can be run again from the claim.                        *)

dispatchOnly == <<input, operation, parked, gaveUp, transcript, activation, ack,
                  exchange, fence, calls, answer, cadence>>

DispatchClaim(h) ==
  /\ dispatch[h] = "idle"
  /\ ClaimNew(OrderOf[h], h) \/ ClaimAgain(OrderOf[h], h)
  /\ \/ /\ HoldsIn(controls', h, (Live \cup Terminal) \ {"EXPIRED"})
        /\ dispatch' = [dispatch EXCEPT ![h] = "claimed"]
     \/ UNCHANGED dispatch
  /\ UNCHANGED dispatchOnly

\* ALREADY_EXECUTING_DO_NOT_START is accepted: it is this grant's own begin.
DispatchBegin(h) ==
  /\ dispatch[h] = "claimed"
  /\ Begin(OrderOf[h], h)
  /\ \/ /\ HoldsIn(controls', h, {"EXECUTING"})
        /\ dispatch' = [dispatch EXCEPT ![h] = "begun"]
     \/ dispatch' = [dispatch EXCEPT ![h] = "idle"]
  /\ UNCHANGED dispatchOnly

\* The execution grant, the worker input and the reconciliation input are
\* created, or found with the same bytes.
DispatchPublish(h) ==
  /\ dispatch[h] = "begun"
  /\ input' = [input EXCEPT ![h] = TRUE]
  /\ dispatch' = [dispatch EXCEPT ![h] = "idle"]
  /\ UNCHANGED <<dispatchVars, operation, parked, gaveUp, transcript, activation,
                 ack, exchange, fence, calls, answer, cadence>>

DispatchCrash(h) ==
  /\ dispatch[h] # "idle"
  /\ dispatch' = [dispatch EXCEPT ![h] = "idle"]
  /\ UNCHANGED <<dispatchVars, dispatchOnly>>

-----------------------------------------------------------------------------
(* runIntegratedLiveDrillProviderOperationBroker and its coordinator. *)

operationOnly == <<dispatch, input, gaveUp, transcript, ack, fence, calls, answer, cadence>>

\* EXECUTE.  Only the request whose own call redeemed the credential goes on
\* to the activation; if the answer of that call is lost, none does.
OperationExecute(h) ==
  /\ input[h] /\ operation[h] = "idle" /\ transcript[h] = NoResult
  /\ Redeem(OrderOf[h], h)
  /\ \/ /\ HoldsIn(controls, h, {"EXECUTING"})
        /\ HoldsIn(controls', h, {"CREDENTIAL_REDEEMED"})
        /\ operation' = [operation EXCEPT ![h] = "ACTIVATING"]
        /\ activation' = [activation EXCEPT ![h] = "asked"]
     \/ UNCHANGED <<operation, activation>>
  /\ UNCHANGED <<operationOnly, parked, exchange>>

\* The pending entry is deleted, and a parked READY is rejected.
DropPending(h) ==
  /\ operation' = [operation EXCEPT ![h] = "idle"]
  /\ parked' = [parked EXCEPT ![h] = FALSE]
  /\ exchange' = [exchange EXCEPT ![h] = IF parked[h] /\ @ = "waiting" THEN "ended" ELSE @]
  /\ gaveUp' = [gaveUp EXCEPT ![h] = @ \/ operation[h] # "PROCEED_GRANTED"]
  /\ UNCHANGED <<dispatchVars, dispatch, input, transcript, activation, ack,
                 fence, calls, answer, cadence>>

\* The acknowledgement does not come within 30 seconds, or is refused.
AcknowledgementFails(h) == operation[h] = "ACTIVATING" /\ DropPending(h)

\* Fault: the entry is marked as timed out, but stays in the map.
ResultTimeoutBlocked(h) ==
  /\ operation[h] \in {"ACTIVATION_ACKNOWLEDGED", "PROCEED_GRANTED"}
  /\ operation' = [operation EXCEPT ![h] = "TIMED_OUT_BLOCKED"]
  /\ UNCHANGED <<dispatchVars, dispatch, input, parked, gaveUp, transcript,
                 activation, ack, exchange, fence, calls, answer, cadence>>

\* The result does not come within 90 seconds.
ResultTimeout(h) ==
  operation[h] \in {"ACTIVATION_ACKNOWLEDGED", "PROCEED_GRANTED"} /\ DropPending(h)

\* The pending map is in memory.
OperationCrash(h) == operation[h] # "idle" /\ DropPending(h)

\* activateExchange after activationRpc.  A READY that came first is answered;
\* the answer may find nobody.
Acknowledge(h) ==
  /\ ack[h] /\ operation[h] = "ACTIVATING"
  /\ ack' = [ack EXCEPT ![h] = FALSE]
  /\ operation' = [operation EXCEPT ![h] =
       IF parked[h] THEN "PROCEED_GRANTED" ELSE "ACTIVATION_ACKNOWLEDGED"]
  /\ parked' = [parked EXCEPT ![h] = FALSE]
  /\ \E answered \in AnswerArrives :
       exchange' = [exchange EXCEPT ![h] =
         IF parked[h] /\ @ = "waiting" THEN IF answered THEN "cleared" ELSE "ended" ELSE @]
  /\ UNCHANGED <<dispatchVars, dispatch, input, gaveUp, transcript, activation,
                 fence, calls, answer, cadence>>

\* COMPLETE, with the digests of the transcript.
OperationComplete(h) ==
  /\ input[h] /\ operation[h] = "idle" /\ transcript[h] # NoResult
  /\ Complete(OrderOf[h], h, transcript[h])
  /\ UNCHANGED processVars

-----------------------------------------------------------------------------
(* The activation process: one connection, one activation. *)

activationOnly == <<dispatch, input, operation, parked, gaveUp, transcript,
                    exchange, fence, calls, answer, cadence>>

\* runIntegratedLiveDrillProviderActivation: anything but a fresh
\* ACTIVATION_GRANTED ends the process.
Activate(h) ==
  /\ activation[h] = "asked"
  /\ \/ /\ ActivateFirst(OrderOf[h], h)
        /\ \E answered \in AnswerArrives :
             activation' = [activation EXCEPT ![h] = IF answered THEN "granted" ELSE "failed"]
     \/ /\ ~HoldsIn(controls, h, {"CREDENTIAL_REDEEMED"})
             \/ ~InWindow(OrderOf[h]) \/ OrderOf[h].auth \in ActivatedAuths
        /\ activation' = [activation EXCEPT ![h] = "failed"]
        /\ UNCHANGED dispatchVars
  /\ UNCHANGED <<activationOnly, ack>>

\* Both files are published, the acknowledgement is sent, the process exits
\* and systemd starts the exchange (OnSuccess).
ActivationExit(h) ==
  /\ activation[h] = "granted"
  /\ activation' = [activation EXCEPT ![h] = "exited"]
  /\ exchange' = [exchange EXCEPT ![h] = "started"]
  /\ ack' = [ack EXCEPT ![h] = TRUE]
  /\ UNCHANGED <<dispatchVars, dispatch, input, operation, parked, gaveUp,
                 transcript, fence, calls, answer, cadence>>

\* The acknowledgement may be out when the process dies, but only an exit
\* starts the exchange.
ActivationCrash(h) ==
  /\ activation[h] \in {"asked", "granted"}
  /\ ack' = [ack EXCEPT ![h] = @ \/ activation[h] = "granted"]
  /\ activation' = [activation EXCEPT ![h] = "failed"]
  /\ UNCHANGED <<dispatchVars, activationOnly>>

-----------------------------------------------------------------------------
(* runIntegratedLiveDrillProviderExchange *)

exchangeOnly == <<dispatch, input, gaveUp, transcript, activation, ack>>

\* The activation, as the host's clock sees it.
Fresh(h) ==
  \E t \in (now - Skew)..(now + Skew), a \in activations :
    /\ a.auth = OrderOf[h].auth /\ a.grant = h
    /\ a.at - Skew <= t /\ t <= a.at + MaxAge /\ t < OrderOf[h].expires

ExchangeStops(h) == exchange' = [exchange EXCEPT ![h] = "ended"]

\* Fault: READY is answered before the activation is acknowledged.
ExchangeReadyUnacknowledged(h) ==
  /\ exchange[h] = "started"
  /\ Fresh(h)
  /\ \/ /\ operation[h] \in {"ACTIVATING", "ACTIVATION_ACKNOWLEDGED"} /\ ~parked[h]
        /\ exchange' = [exchange EXCEPT ![h] = "cleared"]
     \/ ExchangeStops(h)
  /\ UNCHANGED <<dispatchVars, exchangeOnly, operation, parked, fence, calls, answer, cadence>>

\* READY, and providerReady in the operation broker.
ExchangeReady(h) ==
  /\ exchange[h] = "started"
  /\ \/ /\ Fresh(h) /\ operation[h] = "ACTIVATING" /\ ~parked[h]
        /\ parked' = [parked EXCEPT ![h] = TRUE]
        /\ exchange' = [exchange EXCEPT ![h] = "waiting"]
        /\ UNCHANGED operation
     \/ /\ Fresh(h) /\ operation[h] = "ACTIVATION_ACKNOWLEDGED" /\ ~parked[h]
        /\ operation' = [operation EXCEPT ![h] = "PROCEED_GRANTED"]
        /\ \/ exchange' = [exchange EXCEPT ![h] = "cleared"]
           \/ ExchangeStops(h)
        /\ UNCHANGED parked
     \/ ExchangeStops(h) /\ UNCHANGED <<operation, parked>>
  /\ UNCHANGED <<dispatchVars, exchangeOnly, fence, calls, answer, cadence>>

\* The clock is read again and the consumption fence must be new.
ExchangeFence(h) ==
  /\ exchange[h] = "cleared"
  /\ Fresh(h) /\ ~fence[h]
  /\ fence' = [fence EXCEPT ![h] = TRUE]
  /\ exchange' = [exchange EXCEPT ![h] = "fenced"]
  /\ UNCHANGED <<dispatchVars, exchangeOnly, operation, parked, calls, answer, cadence>>

\* One selectQuery, which may happen although its answer never comes.
ExchangeCall(h) ==
  /\ exchange[h] = "fenced"
  /\ calls' = [calls EXCEPT ![h] = @ + 1]
  /\ \/ \E r \in Results :
          /\ answer' = [answer EXCEPT ![h] = r]
          /\ exchange' = [exchange EXCEPT ![h] = "answered"]
     \/ ExchangeStops(h) /\ UNCHANGED answer
  /\ UNCHANGED <<dispatchVars, exchangeOnly, operation, parked, fence, cadence>>

\* RESULT, providerResult and persistTranscript.
ExchangeResult(h) ==
  /\ exchange[h] = "answered"
  /\ ExchangeStops(h)
  /\ IF operation[h] = "PROCEED_GRANTED"
       THEN /\ transcript' = [transcript EXCEPT ![h] = answer[h]]
            /\ operation' = [operation EXCEPT ![h] = "idle"]
       ELSE UNCHANGED <<transcript, operation>>
  /\ UNCHANGED <<dispatchVars, dispatch, input, gaveUp, activation, ack, parked,
                 fence, calls, answer, cadence>>

\* A crash, a clock check that fails, a timeout of the unit or of a callback.
ExchangeCrash(h) ==
  /\ exchange[h] \notin {"off", "ended"}
  /\ ExchangeStops(h)
  /\ UNCHANGED <<dispatchVars, exchangeOnly, operation, parked, fence, calls, answer, cadence>>

-----------------------------------------------------------------------------

(* The terminalizer.  Its service refuses a manual start, and its timer has  *)
(* only OnUnitInactiveSec, which counts from the end of the service's last   *)
(* run: no unit of the repository makes the first one.                      *)

cadenceOnly == <<dispatch, input, operation, parked, gaveUp, transcript, activation,
                 ack, exchange, fence, calls, answer>>

\* terminalizeIntegratedLiveDrillProviderDispatch.  A first run may come from
\* outside; a service that finds no input fails, and the timer counts from that.
TerminalizerRun(h) ==
  /\ IF input[h] THEN Terminalize(OrderOf[h], h) ELSE NoChange
  /\ cadence' = [cadence EXCEPT ![h] = TRUE]
  /\ UNCHANGED cadenceOnly

\* The timer is stopped, or the host restarts: the timer is not Persistent and
\* no unit that starts with the host wants it.
CadenceEnds(h) ==
  /\ cadence[h]
  /\ cadence' = [cadence EXCEPT ![h] = FALSE]
  /\ UNCHANGED <<dispatchVars, cadenceOnly>>

ExchangeTick == Tick /\ UNCHANGED processVars
ExchangeBootstrap == Reconcile /\ UNCHANGED processVars

HostStep(h) ==
  \/ DispatchClaim(h) \/ DispatchBegin(h) \/ DispatchPublish(h) \/ DispatchCrash(h)
  \/ OperationExecute(h) \/ AcknowledgementFails(h) \/ ResultTimeout(h)
  \/ OperationCrash(h) \/ Acknowledge(h) \/ OperationComplete(h)
  \/ Activate(h) \/ ActivationExit(h) \/ ActivationCrash(h)
  \/ ExchangeReady(h) \/ ExchangeFence(h) \/ ExchangeCall(h) \/ ExchangeResult(h)
  \/ ExchangeCrash(h)
  \/ TerminalizerRun(h) \/ CadenceEnds(h)

ExchangeNext == ExchangeTick \/ ExchangeBootstrap \/ \E h \in Hosts : HostStep(h)

ExchangeSpec == ExchangeInit /\ [][ExchangeNext]_exchangeVars

\* Time passes, the timers of the operation broker fire, and the terminalizer
\* is started again and again once it has run; nothing else is assumed to
\* happen, its first run neither.
ExchangeFairSpec ==
  /\ ExchangeSpec
  /\ WF_exchangeVars(ExchangeTick)
  /\ \A h \in Hosts :
       /\ WF_exchangeVars(cadence[h] /\ TerminalizerRun(h))
       /\ WF_exchangeVars(AcknowledgementFails(h))
       /\ WF_exchangeVars(ResultTimeout(h))

-----------------------------------------------------------------------------
(* Properties *)

\* Once an activation was dropped before PROCEED_ONCE was said, because its
\* acknowledgement was lost or late or the operation broker died, the exchange
\* never calls the provider, although the activation row is consumed and the
\* exchange was started ("ACK loss therefore leaves the broker in ACTIVATING,
\* and READY cannot obtain PROCEED").
AckLossStopsTheExchange ==
  \A h \in Hosts : gaveUp[h] => calls[h] = 0 /\ exchange[h] \notin {"cleared", "fenced"}

CallsOf(k) == {h \in Hosts : OrderOf[h].key = k /\ calls[h] # 0}

VerdictOf(k) ==
  LET said(c) == CASE c.state = "COMPLETED" -> "DONE"
                   [] c.state = "EXPIRED" -> "NOT_DONE"
                   [] c.state = "UNKNOWN_DO_NOT_ACT" -> "UNKNOWN"
                   [] OTHER -> "OPEN"
      row == {c \in controls : c.order.key = k}
  IN  IF row = {} THEN [said |-> "OPEN", result |-> NoResult]
      ELSE LET c == CHOOSE d \in row : TRUE IN [said |-> said(c), result |-> c.result]

Performed(k) ==
  LET callers == CallsOf(k)
  IN  IF callers = {} THEN 0
      ELSE IF Cardinality(callers) = 1 THEN calls[CHOOSE h \in callers : TRUE]
      ELSE Cardinality(callers)

AnswerTo(k) == IF CallsOf(k) = {} THEN NoResult ELSE answer[CHOOSE h \in CallsOf(k) : TRUE]

Effect == INSTANCE OneShotEffect WITH
  Effects <- Keys, Answers <- Results, NoAnswer <- NoResult,
  performed <- [k \in Keys |-> Performed(k)],
  answer <- [k \in Keys |-> AnswerTo(k)],
  verdict <- [k \in Keys |-> VerdictOf(k)]

\* Whatever is lost, late, repeated or crashes, the hosts together perform the
\* effect of a key at most once; EXPIRED is only recorded when it was not and
\* will not be performed, and COMPLETED only with the provider's own answer.
ImplementsOneShotEffect == Effect!EffectSpec

\* A dispatch that was handed over to the terminalizer is settled in the end,
\* whoever has died on the way, if the terminalizer's timer has a run to count
\* from and is not stopped (terminalizer timer, database clock).
SettledByTheCadence ==
  \A h \in Hosts : input[h] /\ cadence[h] ~> HoldsIn(controls, h, Terminal) \/ ~cadence[h]

\* "The separate database-time terminalizer converges expiry and ambiguity
\* without provider replay" (docs/FULL_DRILL_EVIDENCE.md): every dispatch that
\* was handed over to it is settled in the end.
EventuallySettled ==
  \A h \in Hosts : input[h] ~> HoldsIn(controls, h, Terminal)

\* The operation broker answers worker requests one after the other; an
\* EXECUTE never blocks the queue for good, even if the activation process and
\* the exchange are dead.
OperationQueueDrains ==
  \A h \in Hosts : operation[h] # "idle" ~> operation[h] = "idle"
=============================================================================
