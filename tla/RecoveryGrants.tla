--------------------------- MODULE RecoveryGrants ---------------------------
(***************************************************************************)
(* The repair of managed-mcp's grants on the recovery cluster                *)
(* (recovery-security.js, repair-managed-mcp-recovery-grants.js).            *)
(*                                                                          *)
(* The principal reads one view, which it reaches while it has USAGE on      *)
(* mcp_public and SELECT on the view.  The repair adds USAGE on mcp_private   *)
(* in three statements, each journaled first and read back after; a disable   *)
(* takes it away again.  Both run as processes of an operator, who keeps one *)
(* journal directory.  A posture digest is the grants together with whether  *)
(* the rest of the posture is still the one the operator bound.              *)
(***************************************************************************)
EXTENDS Naturals, Sequences

CONSTANTS
  Tools,        \* processes, each of which runs one mode once
  Operations,   \* operation ids
  MaxBreaks     \* bound on failed reads and writes, lost answers and drift

VARIABLES
  grants,       \* what managed-mcp holds
  drifted,      \* someone else has changed the posture
  lockFile,     \* target-<binding>.lock.json: none, empty or its operation
  intents,      \* the journal: <<operation, mode, step>>
  flight,       \* statements whose sender has lost the connection
  tool,         \* tool[t]: the process
  reports,      \* what the processes said, in order
  overtaken,    \* a statement took effect after its sender had moved on
  bared,        \* private USAGE was granted while the view was active
  breaks

\* An operation id is a UUID, so the lock file's states are none.
ASSUME GrantAssumption == Operations \cap {"none", "empty"} = {}

grantVars == <<grants, drifted, lockFile, intents, flight, tool, reports, overtaken, bared, breaks>>

Baseline == {"public", "select"}
Active(g) == Baseline \subseteq g
Everything == Baseline \cup {"private"}

Rested == [at |-> "idle", mode |-> "repair", op |-> "none", step |-> 1, held |-> FALSE, emergency |-> FALSE]

GrantInit ==
  /\ grants = Baseline /\ drifted = FALSE
  /\ lockFile = "none" /\ intents = {} /\ flight = {}
  /\ tool = [t \in Tools |-> Rested]
  /\ reports = <<>> /\ overtaken = FALSE /\ bared = FALSE /\ breaks = 0

-----------------------------------------------------------------------------
(* The statements, and what the readback behind each may show.              *)

Statement(does, on) == [does |-> does, on |-> on]
StepTo(statement, states) == [statement |-> statement, states |-> states]

\* Fault: the private schema is opened before the view is deactivated.
RepairStepsPrivateFirst ==
  <<StepTo(Statement("grant", "private"), {Everything}),
    StepTo(Statement("revoke", "public"), {{"private", "select"}}),
    StepTo(Statement("grant", "public"), {Everything})>>

\* The view is deactivated, then the private schema opened, then the view
\* activated again; each state is the only one accepted.
RepairSteps ==
  <<StepTo(Statement("revoke", "public"), {{"select"}}),
    StepTo(Statement("grant", "private"), {{"private", "select"}}),
    StepTo(Statement("grant", "public"), {Everything})>>

\* The way back, which may have to start from any posture.
DisableSteps ==
  <<StepTo(Statement("revoke", "public"), SUBSET {"private", "select"}),
    StepTo(Statement("revoke", "private"), SUBSET {"select"}),
    StepTo(Statement("grant", "public"), {{"public"}, Baseline})>>

StepOf(x) == (IF x.mode = "repair" THEN RepairSteps ELSE DisableSteps)[x.step]

\* A statement takes effect on the cluster.
Perform(s) ==
  /\ grants' = IF s.does = "grant" THEN grants \cup {s.on} ELSE grants \ {s.on}
  /\ bared' = (bared \/ (s = Statement("grant", "private") /\ Active(grants) /\ "private" \notin grants))

\* The posture digest is the one the operator bound: these grants, and the
\* rest of the posture as it was.
Bound == grants = Baseline /\ ~drifted

Break == breaks < MaxBreaks /\ breaks' = breaks + 1

Goes(t, x) == tool' = [tool EXCEPT ![t] = x]
GoesTo(t, place) == Goes(t, [tool[t] EXCEPT !.at = place])

Says(t, word) ==
  /\ Goes(t, [tool[t] EXCEPT !.at = "ended"])
  /\ reports' = Append(reports, word)

\* An error of disable is a hold when the repair had called it.
Throws(t) == Says(t, IF tool[t].emergency THEN "hold" ELSE "rejected")

-----------------------------------------------------------------------------
(* The processes.                                                           *)

StartTool(t, mode, op) ==
  /\ tool[t].at = "idle"
  /\ Goes(t, [Rested EXCEPT !.at = IF mode = "repair" THEN "preflight" ELSE "reserve", !.mode = mode, !.op = op])
  /\ UNCHANGED <<grants, drifted, lockFile, intents, flight, reports, overtaken, bared, breaks>>

\* The repair starts from the bound posture and no other.
Preflight(t) ==
  /\ tool[t].at = "preflight"
  /\ \/ /\ UNCHANGED breaks
        /\ IF Bound
           THEN GoesTo(t, "reserve") /\ UNCHANGED reports
           ELSE Says(t, "rejected")
     \/ Break /\ Says(t, "rejected")
  /\ UNCHANGED <<grants, drifted, lockFile, intents, flight, overtaken, bared>>

\* reserveTarget: the lock file is created and never removed; the operation
\* that is in it may come back, and no other.
Reserve(t) ==
  /\ tool[t].at = "reserve"
  /\ CASE tool[t].held \/ lockFile = tool[t].op ->
            Goes(t, [tool[t] EXCEPT !.at = "journal", !.held = TRUE]) /\ UNCHANGED <<lockFile, reports>>
       [] ~tool[t].held /\ lockFile = "none" ->
            GoesTo(t, "writing") /\ lockFile' = "empty" /\ UNCHANGED reports
       [] OTHER -> Throws(t) /\ UNCHANGED lockFile
  /\ UNCHANGED <<grants, drifted, intents, flight, overtaken, bared, breaks>>

WriteLock(t) ==
  /\ tool[t].at = "writing"
  /\ \/ lockFile' = tool[t].op /\ Goes(t, [tool[t] EXCEPT !.at = "journal", !.held = TRUE])
        /\ UNCHANGED <<reports, breaks>>
     \/ Break /\ lockFile' \in {"empty", tool[t].op} /\ Throws(t)
  /\ UNCHANGED <<grants, drifted, intents, flight, overtaken, bared>>

Intent(x) == <<x.op, x.mode, x.step>>

\* journalIntent: the file of an intent is created once.
Journal(t) ==
  /\ tool[t].at = "journal"
  /\ \/ Intent(tool[t]) \notin intents
        /\ intents' = intents \cup {Intent(tool[t])}
        /\ GoesTo(t, "dispatch") /\ UNCHANGED <<reports, breaks>>
     \/ Intent(tool[t]) \in intents
        /\ Throws(t) /\ UNCHANGED <<intents, breaks>>
     \/ Break /\ intents' \in {intents, intents \cup {Intent(tool[t])}} /\ Throws(t)
  /\ UNCHANGED <<grants, drifted, lockFile, flight, overtaken, bared>>

\* One statement on a fresh connection.  Whether it is acknowledged only
\* labels the readback.  Without an answer it has taken effect, or not, or
\* is still on its way.
DispatchStatement(t) ==
  /\ tool[t].at = "dispatch"
  /\ GoesTo(t, "verify")
  /\ \/ Perform(StepOf(tool[t]).statement) /\ UNCHANGED <<flight, breaks>>
     \/ Break /\ UNCHANGED <<grants, bared>>
        /\ flight' \in {flight, flight \cup {[from |-> t, statement |-> StepOf(tool[t]).statement]}}
  /\ UNCHANGED <<drifted, lockFile, intents, reports, overtaken>>

\* disableManagedMcpRecoveryGrants, called by the repair with its operation.
EmergencyDisable(t) ==
  /\ Goes(t, [tool[t] EXCEPT !.at = "reserve", !.mode = "disable", !.step = 1, !.emergency = TRUE])
  /\ UNCHANGED reports

Proceeds(t) ==
  /\ Goes(t, [tool[t] EXCEPT !.at = "journal", !.step = @ + 1])
  /\ UNCHANGED reports

\* Fault: a posture that is not the expected one is reported and left.
AfterRepairReadLenient(t) ==
  CASE drifted -> EmergencyDisable(t)
    [] ~drifted /\ grants \notin StepOf(tool[t]).states -> Says(t, "rejected")
    [] OTHER -> IF tool[t].step < 3 THEN Proceeds(t) ELSE Says(t, "applied")

\* Drift, and any posture but the expected one and the baseline, is undone.
AfterRepairRead(t) ==
  CASE drifted -> EmergencyDisable(t)
    [] ~drifted /\ grants \notin StepOf(tool[t]).states ->
         IF grants = Baseline THEN Says(t, "rejected") ELSE EmergencyDisable(t)
    [] OTHER -> IF tool[t].step < 3 THEN Proceeds(t) ELSE Says(t, "applied")

\* The last posture must be the bound one, drift included.
AfterDisableRead(t) ==
  CASE grants \notin StepOf(tool[t]).states -> Says(t, "hold")
    [] grants \in StepOf(tool[t]).states /\ tool[t].step < 3 -> Proceeds(t)
    [] OTHER -> Says(t, IF Bound THEN "restored" ELSE "hold")

\* The readback on another connection, and what follows from it.
Verify(t) ==
  /\ tool[t].at = "verify"
  /\ \/ /\ UNCHANGED breaks
        /\ IF tool[t].mode = "repair" THEN AfterRepairRead(t) ELSE AfterDisableRead(t)
     \/ Break /\ IF tool[t].mode = "repair" THEN EmergencyDisable(t) ELSE Says(t, "hold")
  /\ UNCHANGED <<grants, drifted, lockFile, intents, flight, overtaken, bared>>

ToolDies(t) ==
  /\ tool[t].at \notin {"idle", "ended"}
  /\ Break /\ Says(t, "died")
  /\ UNCHANGED <<grants, drifted, lockFile, intents, flight, overtaken, bared>>

\* A statement that was on its way takes effect.
Arrive(s) ==
  /\ flight' = flight \ {s}
  /\ Perform(s.statement)
  /\ overtaken' = TRUE
  /\ UNCHANGED <<drifted, lockFile, intents, tool, reports, breaks>>

\* The plan requires that nobody else changes the posture; it is checked.
Drift ==
  /\ ~drifted /\ drifted' = TRUE /\ Break
  /\ UNCHANGED <<grants, lockFile, intents, flight, tool, reports, overtaken, bared>>

ToolStep(t) ==
  \/ \E mode \in {"repair", "disable"}, op \in Operations : StartTool(t, mode, op)
  \/ Preflight(t) \/ Reserve(t) \/ WriteLock(t) \/ Journal(t)
  \/ DispatchStatement(t) \/ Verify(t) \/ ToolDies(t)

GrantNext == (\E t \in Tools : ToolStep(t)) \/ (\E s \in flight : Arrive(s)) \/ Drift

GrantSpec == GrantInit /\ [][GrantNext]_grantVars

-----------------------------------------------------------------------------

Settled == \A t \in Tools : tool[t].at \in {"idle", "ended"}

Said(word) == \E i \in DOMAIN reports : reports[i] = word

\* The last repair or disable to succeed was a repair.
AppliedLast ==
  \E i \in DOMAIN reports :
    reports[i] = "applied" /\ \A j \in DOMAIN reports : j > i => reports[j] # "restored"

\* Once every process has ended, managed-mcp reaches the view with the private
\* schema open only if the last repair or disable to succeed was a repair
\* (APPLY_JOURNALED_RECONCILED), or if a process said EMERGENCY_HOLD or died:
\* whatever repairs and disables of one operation overlapped, no failed
\* repair leaves the view exposed behind an ordinary error.  What a statement
\* does that takes effect after its readback is beyond the code.
NoSilentExposure ==
  Settled /\ ~overtaken /\ Everything \subseteq grants =>
    Said("hold") \/ Said("died") \/ AppliedLast

\* A repair that says APPLY_JOURNALED_RECONCILED has added the private
\* schema while the view was inactive, as its receipt claims, though a
\* disable of the same operation may have run beside it.
AppliedWhileInactive ==
  ~overtaken /\ Said("applied") => ~bared
=============================================================================
