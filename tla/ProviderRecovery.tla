-------------------------- MODULE ProviderRecovery --------------------------
(***************************************************************************)
(* The recovery worker of a live drill, of                                  *)
(* src/src/cloud/integrated-live-drill-provider-recovery.js: it drives the   *)
(* broker's recovery of RecoveryBroker in the steps of one signed intent,    *)
(* with fixed event ids, and keeps every step in a create-only artefact so   *)
(* that a process started later resumes it.  Several processes may run at    *)
(* once, each may die anywhere, and the host's clock may be set back.        *)
(*                                                                          *)
(* The artefacts are atomic (CreateOnlyFile), the journal of W1-W3 is held   *)
(* to what RecoveryContinuity establishes, and the control record with the   *)
(* call behind it to what ProviderExchange does.                            *)
(***************************************************************************)
EXTENDS RecoveryBroker

CONSTANTS
  Workers,      \* the processes, among Clients
  MaxStarts,    \* how often a process is started in all
  IntentExpiry, \* the earliest expiry of run, child and intent
  DispatchTime  \* how long a dispatch authorization may last

VARIABLES
  file,         \* the artefacts of the evidence root
  journal,      \* W2: none, claimed, complete or unknown
  control,      \* the control record: LIVE, COMPLETED or UNKNOWN
  transcript,   \* the answer the operation broker keeps
  sends,        \* who sent the request, and what had been committed by then
  proc,
  handed,       \* the handoffs returned
  starts

workVars == <<file, journal, control, transcript, sends, proc, handed, starts>>
providerVars == <<brokerVars, workVars>>
world == <<now, bundles, events, late, caller, told>>

Artefacts == {"preparation", "burn", "plan", "preRead", "attempt", "mcp", "terminalPlan", "terminal"}
Drill == "drill"
Source == CHOOSE s \in Sources : TRUE

\* No row is the absence of one.
ASSUME WorkerAssumption ==
  /\ Workers \subseteq Clients
  /\ \A at \in 0 .. MaxTime :
       /\ None # Event(Drill, "pre_read", "read_authorized", None, 0, at)
       /\ \A b \in Bundles : None # Event(Drill, "terminal", "recovered_context_only", b, 0, at)

Dead == [at |-> "idle", sticky |-> FALSE, post |-> FALSE, born |-> FALSE, row |-> None]

WorkersRest ==
  /\ file = [a \in Artefacts |-> None] /\ journal = "none"
  /\ control = "LIVE" /\ transcript = None /\ sends = {}
  /\ proc = [p \in Workers |-> Dead] /\ handed = {} /\ starts = 0

ProviderInit == (\E b \in Bundles : b.source = Source /\ StartsWith({b})) /\ WorkersRest

-----------------------------------------------------------------------------
Step(p, at) == proc' = [proc EXCEPT ![p].at = at]
Ends2(p) == Step(p, "ended")
Is(p, at) == proc[p].at = at

\* createOrReadExact and claimCreateOnlyExact: the artefact is made, or is
\* already exactly this one.
Agrees(a, v) == file[a] \in {None, v}
Put(a, v) == file' = [file EXCEPT ![a] = v]

\* integratedLiveDrillProviderAuthorityTimes
IssuedAt == file.preparation.issued
Expiry == file.preparation.expires

\* Fault: the burn on file is not looked for.
AdmittedByTheClock(p) == ~proc[p].sticky /\ IssuedAt <= now /\ now < Expiry

\* providerDispatchGuard: the sticky refusal of the process, the burn artefact,
\* the clock, in this order.
Admitted(p) == ~proc[p].sticky /\ file.burn = None /\ IssuedAt <= now /\ now < Expiry

\* A refusal sticks, except one before the time; one by the expiry burns the
\* authority on file, if it can.
Refused(p, at) ==
  LET sticks == proc[p].sticky \/ file.burn # None \/ now >= Expiry
      burns == ~proc[p].sticky /\ file.burn = None /\ now >= Expiry
  IN  /\ ~Admitted(p)
      /\ proc' = [proc EXCEPT ![p].sticky = sticks, ![p].at = at]
      /\ IF burns THEN \/ Put("burn", "burned") /\ UNCHANGED faults
                       \/ Fault /\ UNCHANGED file
                  ELSE UNCHANGED <<file, faults>>

-----------------------------------------------------------------------------
(* The artefacts a step resumes from.                                       *)

\* validatePreReadPlanArtifact
PlanOnFile ==
  file.plan # None /\ file.plan.id = <<Drill, "pre_read">> /\ file.plan.result = None

\* validatePreReadArtifact
PreReadOnFile == file.preRead # None /\ file.preRead = file.plan

\* validateProviderArtifact
EvidenceOnFile == file.mcp # None

\* validateProviderExecutionAttempt
AttemptOnFile == file.attempt # None

\* validateTerminalPlanArtifact: planned for this very result.
TerminalPlanOnFile ==
  /\ file.terminalPlan # None /\ file.terminalPlan.id = <<Drill, "terminal">>
  /\ file.terminalPlan.result = file.mcp.answer

\* validateTerminalArtifact
TerminalOnFile == file.terminal # None /\ file.terminal.outcome = "recovered_context_only"

\* prepareIntegratedLiveDrillProviderRecoveryAuthorization: the payload that is
\* then signed elsewhere, once.
Prepare ==
  /\ file.preparation = None /\ now < IntentExpiry
  /\ Put("preparation", [issued |-> now,
                         expires |-> IF IntentExpiry < now + DispatchTime
                                     THEN IntentExpiry ELSE now + DispatchTime])
  /\ UNCHANGED <<world, sink, faults, journal, control, transcript, sends, proc, handed, starts>>

-----------------------------------------------------------------------------
(* Entry and the plan of the read.                                          *)

Start(p) ==
  /\ proc[p].at \in {"idle", "ended"} /\ starts < MaxStarts /\ file.preparation # None
  /\ starts' = starts + 1
  /\ proc' = [proc EXCEPT ![p] = [Dead EXCEPT !.at = "entry", !.born = file.burn # None]]
  /\ UNCHANGED <<world, sink, faults, file, journal, control, transcript, sends, handed>>

\* Without provider evidence the authority must be current; with it, a worker
\* whose authority is gone goes on with the evidence only.
Entry(p) ==
  /\ Is(p, "entry")
  /\ \/ /\ Admitted(p) /\ UNCHANGED <<file, faults>>
        /\ proc' = [proc EXCEPT ![p].at = "plan", ![p].post = EvidenceOnFile]
     \/ /\ file.mcp = None /\ Refused(p, "ended")
     \/ /\ EvidenceOnFile /\ AttemptOnFile /\ Refused(p, "evidence")
  /\ UNCHANGED <<world, sink, journal, control, transcript, sends, handed, starts>>

\* completeProviderDispatch: the record completes, or already says so.
Completes == control \in {"LIVE", "COMPLETED"} /\ control' = "COMPLETED"

\* The evidence-only W2 and the control record, after the authority is gone.
EvidenceOnly(p) ==
  /\ Is(p, "evidence")
  /\ \/ /\ journal \in {"claimed", "complete"} /\ journal' = "complete"
        /\ Completes
        /\ proc' = [proc EXCEPT ![p].at = "plan", ![p].post = TRUE]
        /\ UNCHANGED faults
     \/ /\ journal = "unknown" \/ control = "UNKNOWN"
        /\ Ends2(p) /\ UNCHANGED <<journal, control, faults>>
     \/ Fault /\ Ends2(p) /\ UNCHANGED <<journal, control>>
  /\ UNCHANGED <<world, sink, file, transcript, sends, handed, starts>>

\* The plan on file is taken up; without one a new one is made for this instant.
PlanRecovery(p) ==
  /\ Is(p, "plan")
  /\ \/ /\ PlanOnFile /\ (proc[p].post \/ Admitted(p))
        /\ Step(p, "preRead") /\ UNCHANGED <<file, faults>>
     \/ /\ file.plan = None /\ Admitted(p) /\ UNCHANGED <<file, faults>>
        /\ proc' = [proc EXCEPT ![p].at = "planned",
                      ![p].row = Event(Drill, "pre_read", "read_authorized", None, 0, now)]
     \/ ~(PlanOnFile /\ proc[p].post) /\ Refused(p, "ended")
  /\ UNCHANGED <<world, sink, journal, control, transcript, sends, handed, starts>>

PersistPlan(p) ==
  /\ Is(p, "planned")
  /\ IF Agrees("plan", proc[p].row) THEN Put("plan", proc[p].row) /\ Step(p, "preRead")
                                    ELSE Ends2(p) /\ UNCHANGED file
  /\ UNCHANGED <<world, sink, faults, journal, control, transcript, sends, handed, starts>>

-----------------------------------------------------------------------------
(* The pre_read event.                                                      *)

\* commitPreparedRecoveryPreRead: the guard, then the sink's append; or the
\* artefact on file, whose event is resolved again before any provider result.
PreRead(p) ==
  /\ Is(p, "preRead")
  /\ \/ /\ PreReadOnFile /\ proc[p].post
        /\ Step(p, "w2") /\ UNCHANGED <<sink, file, faults>>
     \/ /\ PreReadOnFile /\ ~proc[p].post /\ Admitted(p)
        /\ Step(p, "preResolve") /\ UNCHANGED <<sink, file, faults>>
     \/ /\ file.preRead = None /\ Admitted(p) /\ Step(p, "preAppend")
        /\ Asks(p, "events", file.plan) /\ UNCHANGED <<file, faults>>
     \/ ~(PreReadOnFile /\ proc[p].post) /\ Refused(p, "ended") /\ UNCHANGED sink
  /\ UNCHANGED <<world, journal, control, transcript, sends, handed, starts>>

PreAppended(p) ==
  /\ Is(p, "preAppend") /\ sink[p].at \in {"done", "error"} /\ Forgets(p)
  /\ \/ Replied(p, "done") /\ Admitted(p) /\ Step(p, "preResolve") /\ UNCHANGED <<file, faults>>
     \/ Replied(p, "done") /\ Refused(p, "ended")
     \/ Replied(p, "error") /\ Ends2(p) /\ UNCHANGED <<file, faults>>
  /\ UNCHANGED <<world, journal, control, transcript, sends, handed, starts>>

\* resolvePreparedRecoveryAuditEvent, the guard again, and the artefact.
PreResolve(p) ==
  /\ Is(p, "preResolve")
  /\ \/ /\ file.plan \in events /\ Admitted(p) /\ Agrees("preRead", file.plan)
        /\ Put("preRead", file.plan) /\ Step(p, "w2") /\ UNCHANGED faults
     \/ Refused(p, "ended")
     \/ Fault /\ Ends2(p) /\ UNCHANGED file
  /\ UNCHANGED <<world, sink, journal, control, transcript, sends, handed, starts>>

-----------------------------------------------------------------------------
(* W2 and the provider.                                                     *)

\* Who finds the call unclaimed claims it; who finds the dispatch marker asks
\* for the result of the call; a claim without a marker is held for unknown.
W2(p) ==
  /\ Is(p, "w2")
  /\ \/ /\ journal = "none" /\ now < IntentExpiry /\ journal' = "claimed" /\ Step(p, "call")
     \/ /\ journal = "none" /\ now >= IntentExpiry /\ Ends2(p) /\ UNCHANGED journal
     \/ /\ journal = "claimed" /\ Step(p, "call") /\ UNCHANGED journal
     \/ /\ journal = "claimed" /\ file.attempt = None /\ journal' = "unknown" /\ Ends2(p)
     \/ /\ journal = "complete" /\ Step(p, "control") /\ UNCHANGED journal
     \/ /\ journal = "unknown" /\ Ends2(p) /\ UNCHANGED journal
  /\ UNCHANGED <<world, sink, faults, file, control, transcript, sends, handed, starts>>

HoldUnknown == journal' = IF journal = "claimed" THEN "unknown" ELSE journal
RecordResult(p) ==
  IF journal \in {"claimed", "complete"}
  THEN journal' = "complete" /\ Step(p, "control")
  ELSE Ends2(p) /\ UNCHANGED journal

\* executeOrRecoverProviderResult: the evidence on file, or the attempt is
\* claimed and the guard asked.
ExecuteOrRecover(p) ==
  /\ Is(p, "call")
  /\ \/ EvidenceOnFile /\ RecordResult(p) /\ UNCHANGED <<file, faults>>
     \/ /\ file.mcp = None /\ file.attempt = None /\ Put("attempt", "claimed")
        /\ UNCHANGED <<proc, journal, faults>>
     \/ /\ file.mcp = None /\ AttemptOnFile /\ Admitted(p)
        /\ Step(p, "dispatch") /\ UNCHANGED <<file, journal, faults>>
     \/ /\ file.mcp = None /\ AttemptOnFile /\ Refused(p, "ended") /\ HoldUnknown
  /\ UNCHANGED <<world, sink, control, transcript, sends, handed, starts>>

\* What the fixed query may answer.
Answers == {b \in bundles : b.source = Source /\ Fresh(b)} \cup {None}

\* executePreparedRecovery through the operation broker: its transcript, or,
\* once in all and under a last look at the guard, the provider.
Dispatch(p) ==
  /\ Is(p, "dispatch")
  /\ \/ transcript # None /\ Step(p, "store") /\ UNCHANGED <<file, faults, sends, transcript>>
     \/ /\ transcript = None /\ sends = {} /\ control = "LIVE" /\ Admitted(p)
        /\ sends' = {[who |-> p, born |-> proc[p].born, authorized |-> file.preRead \in events]}
        /\ \/ \E a \in Answers : transcript' = [answer |-> a] /\ Step(p, "store")
              /\ UNCHANGED faults
           \/ Fault /\ Step(p, "failed") /\ UNCHANGED transcript
        /\ UNCHANGED file
     \/ transcript = None /\ Refused(p, "failed") /\ UNCHANGED <<sends, transcript>>
     \/ /\ transcript = None /\ (sends # {} \/ control # "LIVE")
        /\ Step(p, "failed") /\ UNCHANGED <<file, faults, sends, transcript>>
  /\ UNCHANGED <<world, sink, journal, control, handed, starts>>

\* The session is closed and the evidence made durable.
StoreResult(p) ==
  /\ Is(p, "store") /\ Agrees("mcp", transcript)
  /\ Put("mcp", transcript) /\ RecordResult(p)
  /\ UNCHANGED <<world, sink, faults, control, transcript, sends, handed, starts>>

\* markProviderDispatchUnknown, whose own failure changes nothing.
DispatchFailed(p) ==
  /\ Is(p, "failed")
  /\ control' \in {control} \cup (IF control = "LIVE" THEN {"UNKNOWN"} ELSE {})
  /\ HoldUnknown /\ Ends2(p)
  /\ UNCHANGED <<world, sink, faults, file, transcript, sends, handed, starts>>

\* reconcileProviderControlCompletion and postProviderAuditGuard.
ReconcileControl(p) ==
  /\ Is(p, "control") /\ EvidenceOnFile
  /\ \/ Completes /\ Step(p, "terminalPlan") /\ UNCHANGED faults
     \/ control = "UNKNOWN" /\ Ends2(p) /\ UNCHANGED <<control, faults>>
     \/ Fault /\ Ends2(p) /\ UNCHANGED control
  /\ UNCHANGED <<world, sink, file, journal, transcript, sends, handed, starts>>

-----------------------------------------------------------------------------
(* The terminal event.                                                      *)

Answer == file.mcp.answer

\* planPreparedRecoveryCompletion: one fresh row, at this instant.
PlanCompletion(p) ==
  /\ Is(p, "terminalPlan")
  /\ \/ TerminalPlanOnFile /\ Step(p, "terminal")
     \/ /\ file.terminalPlan = None /\ Answer # None /\ Fresh(Answer)
        /\ proc' = [proc EXCEPT ![p].at = "terminalPlanned",
             ![p].row = Event(Drill, "terminal", "recovered_context_only", Answer, 0, now)]
     \/ /\ file.terminalPlan = None /\ (IF Answer = None THEN TRUE ELSE ~Fresh(Answer))
        /\ Ends2(p)
  /\ UNCHANGED <<world, sink, faults, file, journal, control, transcript, sends, handed, starts>>

PersistCompletion(p) ==
  /\ Is(p, "terminalPlanned")
  /\ IF Agrees("terminalPlan", proc[p].row)
     THEN Put("terminalPlan", proc[p].row) /\ Step(p, "terminal")
     ELSE Ends2(p) /\ UNCHANGED file
  /\ UNCHANGED <<world, sink, faults, journal, control, transcript, sends, handed, starts>>

\* commitPreparedRecoveryCompletion: the row must still be fresh now.
CommitCompletion(p) ==
  /\ Is(p, "terminal")
  /\ \/ TerminalOnFile /\ Step(p, "terminalResolve") /\ UNCHANGED sink
     \/ /\ file.terminal = None /\ Fresh(Answer)
        /\ Step(p, "terminalAppend") /\ Asks(p, "events", file.terminalPlan)
     \/ file.terminal = None /\ ~Fresh(Answer) /\ Ends2(p) /\ UNCHANGED sink
  /\ UNCHANGED <<world, faults, file, journal, control, transcript, sends, handed, starts>>

TerminalAppended(p) ==
  /\ Is(p, "terminalAppend") /\ sink[p].at \in {"done", "error"} /\ Forgets(p)
  /\ Step(p, IF Replied(p, "done") THEN "terminalResolve" ELSE "ended")
  /\ UNCHANGED <<world, faults, file, journal, control, transcript, sends, handed, starts>>

\* The event is read back and the terminal artefact made.
TerminalResolve(p) ==
  /\ Is(p, "terminalResolve")
  /\ \/ /\ file.terminalPlan \in events /\ Agrees("terminal", file.terminalPlan)
        /\ Put("terminal", file.terminalPlan) /\ Step(p, "w3") /\ UNCHANGED faults
     \/ Fault /\ Ends2(p) /\ UNCHANGED file
  /\ UNCHANGED <<world, sink, journal, control, transcript, sends, handed, starts>>

\* W3 and the handoff.
Handoff(p) ==
  /\ Is(p, "w3")
  /\ handed' = handed \cup {[recovery |-> file.terminal, evidence |-> file.mcp]}
  /\ Ends2(p)
  /\ UNCHANGED <<world, sink, faults, file, journal, control, transcript, sends, starts>>

-----------------------------------------------------------------------------
(* The host, and the terminalizer of the control record.                    *)

\* The process dies; a COMMIT it was in may still arrive.
Die(p) ==
  /\ proc[p].at \notin {"idle", "ended"}
  /\ proc' = [proc EXCEPT ![p] = Dead]
  /\ sink' = [sink EXCEPT ![p] = Quiet]
  /\ late' \in {late} \cup (IF sink[p].at = "write" THEN {late \cup {sink[p]}} ELSE {})
  /\ UNCHANGED <<now, tables, caller, told, faults, file, journal, control, transcript,
                 sends, handed, starts>>

SetClock ==
  /\ now' \in (0 .. MaxTime) \ {now}
  /\ UNCHANGED <<tables, late, sink, caller, told, faults, workVars>>

Terminalize ==
  /\ control = "LIVE" /\ control' = "UNKNOWN"
  /\ UNCHANGED <<world, sink, faults, file, journal, transcript, sends, proc, handed, starts>>

Work(p) ==
  \/ Start(p) \/ Entry(p) \/ EvidenceOnly(p) \/ PlanRecovery(p) \/ PersistPlan(p)
  \/ PreRead(p) \/ PreAppended(p) \/ PreResolve(p)
  \/ W2(p) \/ ExecuteOrRecover(p) \/ Dispatch(p) \/ StoreResult(p) \/ DispatchFailed(p)
  \/ ReconcileControl(p) \/ PlanCompletion(p) \/ PersistCompletion(p)
  \/ CommitCompletion(p) \/ TerminalAppended(p) \/ TerminalResolve(p) \/ Handoff(p)

ProviderNext ==
  \/ SinkStep /\ UNCHANGED workVars
  \/ \E p \in Workers : Work(p) \/ Die(p)
  \/ Prepare \/ SetClock \/ Terminalize

ProviderSpec == ProviderInit /\ [][ProviderNext]_providerVars

-----------------------------------------------------------------------------
(* Properties.                                                              *)

\* Whatever dies, comes late or is run twice: the request is sent under a
\* committed pre_read event and, by a process started after the authority was
\* burned, never, even when the clock is set back; every handoff is the same
\* one, and speaks of a committed terminal event, of the evidence on file and
\* of a control record that is COMPLETED.
HandoffIsBacked ==
  /\ \A s \in sends : s.authorized /\ ~s.born
  /\ \A h, g \in handed : h = g
  /\ \A h \in handed :
       /\ h.recovery \in events /\ h.recovery.result = h.evidence.answer
       /\ h.evidence = file.mcp /\ control = "COMPLETED" /\ journal = "complete"
       /\ file.plan \in events
=============================================================================
