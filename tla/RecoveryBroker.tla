--------------------------- MODULE RecoveryBroker ---------------------------
(***************************************************************************)
(* Recovery of context from the recovery cluster: the append-only bundles    *)
(* of recovery-store.js, the audit table of primary-security.js with its     *)
(* sink, and DeterministicRecoveryBroker.recover (recovery-broker.js), which *)
(* commits a pre_read event, queries, and commits a terminal event before    *)
(* it says RECOVERED_CONTEXT_ONLY.                                          *)
(*                                                                          *)
(* Both tables are written in one way: one serializable transaction, and a   *)
(* read on a fresh connection when the answer to COMMIT is lost.  Digests    *)
(* are the rows themselves.  There is one tenant and one session; what a     *)
(* caller is bound to is the source of the bundle.                          *)
(***************************************************************************)
EXTENDS Naturals

CONSTANTS
  Clients,      \* who writes: callers of recover, publishers, workers
  Callers,      \* those that call recover
  Publishers,   \* those that call appendBundle
  Bundles,      \* signed bundles: version, source, from, until
  MaxTime,      \* bound on the clock
  MaxFaults,    \* bound on lost requests and answers
  None

VARIABLES
  now,
  bundles,      \* mcp_private.recovery_bundles_v2
  events,       \* tp_ledger.g1_recovery_audit_events_v3
  late,         \* transactions whose COMMIT may still arrive
  sink,         \* sink[x]: the write x is in
  caller,       \* caller[c]: where recover is and what it has read
  told,         \* told[c]: what it returned
  faults

brokerVars == <<now, bundles, events, late, sink, caller, told, faults>>
tables == <<bundles, events>>

\* A caller does not publish: recover and appendBundle are called by different
\* programs, each with a connection of its own.
ASSUME BrokerAssumption ==
  /\ Callers \cup Publishers \subseteq Clients /\ Callers \cap Publishers = {}
  /\ MaxTime \in Nat
  /\ None # "RECOVERED_CONTEXT_ONLY"

Sources == {b.source : b \in Bundles}

Event(interaction, phase, outcome, result, started, at) ==
  [id |-> <<interaction, phase>>, interaction |-> interaction, phase |-> phase,
   outcome |-> outcome, result |-> result, started |-> started, at |-> at]

Quiet == [at |-> "idle", table |-> None, row |-> None]
Resting == [at |-> "idle", source |-> None, started |-> 0, result |-> None]

StartsWith(rows) ==
  /\ now = 0 /\ bundles = rows /\ events = {} /\ late = {} /\ faults = 0
  /\ sink = [x \in Clients |-> Quiet]
  /\ caller = [c \in Callers |-> Resting]
  /\ told = [c \in Callers |-> [said |-> None, bundle |-> None]]

BrokerInit == StartsWith({})

-----------------------------------------------------------------------------
(* The two tables.                                                          *)

\* g1_append_recovery_audit_event_v3: an exact replay, or a new event; a
\* terminal one only behind the pre_read event of its interaction.
EventAccepted(e) ==
  LET same == {x \in events : \/ x.id = e.id
                              \/ x.interaction = e.interaction /\ x.phase = e.phase}
  IN  IF same # {} THEN same = {e}
      ELSE e.phase = "terminal" =>
             \E x \in events : /\ x.interaction = e.interaction
                               /\ x.phase = "pre_read" /\ x.started = e.started

\* appendBundle: a bundle is one snapshot version and one source of a session.
BundleAccepted(b) ==
  {x \in bundles : x.version = b.version \/ x.source = b.source} \subseteq {b}

Accepted(w) == IF w.table = "events" THEN EventAccepted(w.row) ELSE BundleAccepted(w.row)

Commit(w) ==
  IF w.table = "events" THEN events' = events \cup {w.row} /\ UNCHANGED bundles
                        ELSE bundles' = bundles \cup {w.row} /\ UNCHANGED events

EventPresent(e) == e \in events
BundlePresent(b) == b \in bundles
Present(w) == IF w.table = "events" THEN EventPresent(w.row) ELSE BundlePresent(w.row)

-----------------------------------------------------------------------------
(* RecoveryAuditSink.append and RecoveryStore.appendBundle.                  *)

Fault == faults < MaxFaults /\ faults' = faults + 1
Goto(x, at) == sink' = [sink EXCEPT ![x].at = at]
Asks(x, table, row) == sink' = [sink EXCEPT ![x] = [at |-> "write", table |-> table, row |-> row]]
Replied(x, reply) == sink[x].at = reply
Forgets(x) == sink' = [sink EXCEPT ![x] = Quiet]

\* The function raises, or something before COMMIT fails, or COMMIT answers
\* 40001: nothing was written.
WriteFails(x) ==
  /\ sink[x].at = "write"
  /\ \/ ~Accepted(sink[x]) /\ UNCHANGED faults
     \/ Fault
  /\ Goto(x, "error") /\ UNCHANGED <<tables, late>>

\* COMMIT is dispatched: it is answered, or applied without an answer, or lost,
\* or still under way.
WriteCommits(x) ==
  /\ sink[x].at = "write" /\ Accepted(sink[x])
  /\ \/ Commit(sink[x]) /\ Goto(x, "done") /\ UNCHANGED <<late, faults>>
     \/ Commit(sink[x]) /\ Goto(x, "resolve") /\ Fault /\ UNCHANGED late
     \/ /\ Fault /\ Goto(x, "resolve") /\ UNCHANGED tables
        /\ late' \in {late, late \cup {sink[x]}}

\* A transaction whose client is gone commits, or is aborted by what it read.
CommitsLate(w) ==
  /\ w \in late /\ late' = late \ {w}
  /\ IF Accepted(w) THEN Commit(w) ELSE UNCHANGED tables
  /\ UNCHANGED <<sink, faults>>

\* Fault: a COMMIT without an answer is taken for a success.
ResolveHopes(x) ==
  /\ sink[x].at = "resolve"
  /\ Goto(x, "done") /\ UNCHANGED <<tables, late, faults>>

\* g1_resolve_recovery_audit_event_v1, or the bundle by its digest: only the
\* row that was written counts.
Resolve(x) ==
  /\ sink[x].at = "resolve"
  /\ \/ Fault /\ Goto(x, "error")
     \/ Goto(x, IF Present(sink[x]) THEN "done" ELSE "error") /\ UNCHANGED faults
  /\ UNCHANGED <<tables, late>>

SinkStep ==
  /\ \/ \E x \in Clients : WriteFails(x) \/ WriteCommits(x) \/ Resolve(x)
     \/ \E w \in late : CommitsLate(w)
  /\ UNCHANGED <<now, caller, told>>

-----------------------------------------------------------------------------
(* Publication.                                                             *)

\* validateBundleFreshness
Fresh(b) == b.from <= now /\ now < b.until

AppendBundle(p, b) ==
  /\ sink[p].at = "idle" /\ Fresh(b)
  /\ Asks(p, "bundles", b)
  /\ UNCHANGED <<now, tables, late, caller, told, faults>>

Published(p) ==
  /\ sink[p].at \in {"done", "error"}
  /\ Forgets(p)
  /\ UNCHANGED <<now, tables, late, caller, told, faults>>

-----------------------------------------------------------------------------
(* recover.                                                                 *)

At(c, at) == caller[c].at = at
Ends(c, said, bundle) ==
  /\ caller' = [caller EXCEPT ![c] = [Resting EXCEPT !.at = "returned"]]
  /\ told' = [told EXCEPT ![c] = [said |-> said, bundle |-> bundle]]

\* planRecovery and commitPreparedRecoveryPreRead: ids drawn for this call.
PrepareRecovery(c, s) ==
  /\ At(c, "idle")
  /\ caller' = [caller EXCEPT ![c] = [at |-> "pre", source |-> s, started |-> now,
                                      result |-> None]]
  /\ Asks(c, "events", Event(c, "pre_read", "read_authorized", None, now, now))
  /\ UNCHANGED <<now, tables, late, told, faults>>

PreReadCommitted(c) ==
  /\ At(c, "pre") /\ Replied(c, "done")
  /\ caller' = [caller EXCEPT ![c].at = "query"]
  /\ Forgets(c) /\ UNCHANGED <<now, tables, late, told, faults>>

PreReadUnavailable(c) ==
  /\ At(c, "pre") /\ Replied(c, "error")
  /\ Ends(c, "UNKNOWN", None) /\ Forgets(c)
  /\ UNCHANGED <<now, tables, late, faults>>

\* The terminal event of a failure: failPreparedRecovery.
AsksUnknown(c) ==
  Asks(c, "events", Event(c, "terminal", "unknown_do_not_act", caller[c].result,
                          caller[c].started, now))

\* executePreparedRecovery: the fixed query answers with the fresh bundle of the
\* source, with nothing, or fails.
ExecutePreparedRecovery(c) ==
  LET rows == {b \in bundles : b.source = caller[c].source /\ Fresh(b)}
  IN  /\ At(c, "query")
      /\ \/ \E b \in rows : /\ caller' = [caller EXCEPT ![c].at = "read",
                                                        ![c].result = b]
                            /\ UNCHANGED <<sink, faults>>
         \/ /\ rows = {} /\ UNCHANGED faults
            /\ caller' = [caller EXCEPT ![c].at = "failing"] /\ AsksUnknown(c)
         \/ /\ Fault
            /\ caller' = [caller EXCEPT ![c].at = "failing"] /\ AsksUnknown(c)
      /\ UNCHANGED <<now, tables, late, told>>

\* planPreparedRecoveryCompletion and commitPreparedRecoveryCompletion: the row
\* is validated again, at the instant of the event.
CompletePreparedRecovery(c) ==
  /\ At(c, "read")
  /\ IF Fresh(caller[c].result)
     THEN /\ caller' = [caller EXCEPT ![c].at = "completing"]
          /\ Asks(c, "events", Event(c, "terminal", "recovered_context_only",
                                     caller[c].result, caller[c].started, now))
     ELSE caller' = [caller EXCEPT ![c].at = "failing"] /\ AsksUnknown(c)
  /\ UNCHANGED <<now, tables, late, told, faults>>

Completed(c) ==
  /\ At(c, "completing") /\ Replied(c, "done")
  /\ Ends(c, "RECOVERED_CONTEXT_ONLY", caller[c].result) /\ Forgets(c)
  /\ UNCHANGED <<now, tables, late, faults>>

FailPreparedRecovery(c) ==
  /\ At(c, "completing") /\ Replied(c, "error")
  /\ caller' = [caller EXCEPT ![c].at = "failing"] /\ AsksUnknown(c)
  /\ UNCHANGED <<now, tables, late, told, faults>>

\* Whether or not the event could be written the answer is UNKNOWN.
Failed(c) ==
  /\ At(c, "failing") /\ sink[c].at \in {"done", "error"}
  /\ Ends(c, "UNKNOWN", None) /\ Forgets(c)
  /\ UNCHANGED <<now, tables, late, faults>>

Tick == /\ now < MaxTime /\ now' = now + 1
        /\ UNCHANGED <<tables, late, sink, caller, told, faults>>

RecoverStep(c) ==
  \/ \E s \in Sources : PrepareRecovery(c, s)
  \/ PreReadCommitted(c) \/ PreReadUnavailable(c) \/ ExecutePreparedRecovery(c)
  \/ CompletePreparedRecovery(c) \/ Completed(c) \/ FailPreparedRecovery(c)
  \/ Failed(c)

BrokerNext ==
  \/ SinkStep
  \/ \E p \in Publishers : Published(p) \/ \E b \in Bundles : AppendBundle(p, b)
  \/ \E c \in Callers : RecoverStep(c)
  \/ Tick

BrokerSpec == BrokerInit /\ [][BrokerNext]_brokerVars

-----------------------------------------------------------------------------
(* Properties.                                                              *)

EventOf(c, phase) == {e \in events : e.interaction = c /\ e.phase = phase}

\* The audit trail tells what callers were told.  No query runs without its
\* pre_read event; context is only handed out when the terminal event says so,
\* for a bundle that was fresh at the instant of the event and is the only one
\* of its version and source; and a caller whose trail says unknown_do_not_act,
\* or says nothing because the audit was unavailable after the query, was told
\* UNKNOWN, whichever of its writes is lost, late or refused.
RecoveredIsAudited ==
  /\ \A c \in Callers :
       /\ caller[c].at \in {"query", "read", "completing"} => EventOf(c, "pre_read") # {}
       /\ told[c].said = "RECOVERED_CONTEXT_ONLY" =>
            \E e \in EventOf(c, "terminal") :
              /\ e.outcome = "recovered_context_only" /\ e.result = told[c].bundle
              /\ e.result \in bundles /\ e.at < e.result.until
  /\ \A e, f \in events : e.interaction = f.interaction /\ e.phase = f.phase => e = f
  /\ \A b, d \in bundles : b.version = d.version \/ b.source = d.source => b = d
=============================================================================
