--------------------------- MODULE MCReleaseBroker ---------------------------
(***************************************************************************)
(* Small instances of ReleaseBroker, each explored by itself: the phases of  *)
(* one approval, reserve and dispatch run twice, and single-process runs    *)
(* that compete for an effect and for the budget; and the private recovery   *)
(* query, which keeps its item in the same table.                           *)
(***************************************************************************)
EXTENDS ReleaseBroker, PrivateQuery, TLC

VARIABLE scenario

\* Two runs of one command, and one of a command for another function version.
QueryCommand == [q1 |-> "v1", q2 |-> "v1", q3 |-> "v2"]
MCQueryRuns == DOMAIN QueryCommand

Approval(id, key, lane, prior, amount, expires) ==
  [id |-> id, key |-> key, lane |-> lane, prior |-> prior, amount |-> amount,
   expires |-> expires]

Execute == Approval("a1", "k1", "EXECUTE", 0, 1, 1)
Prepare == Approval("p1", "k1", "PREPARE", 0, 1, 1)

\* Single-process runs: two of one approval, one of a second approval for the
\* same effect, one of an approval that would use up the teardown reserve, and
\* a teardown signed against the same budget.
Drill == Approval("b1", "k1", "DRILL", 0, 2, 2)
DrillAgain == Approval("b2", "k1", "DRILL", 0, 1, 2)
Greedy == Approval("b3", "k2", "EVIDENCE", 2, 2, 2)
Teardown == Approval("b4", "k3", "TEARDOWN", 0, 1, 2)

MCApprovals == {Execute, Prepare, Drill, DrillAgain, Greedy, Teardown}

PhaseJob ==
  [r1 |-> "reserve", d1 |-> "dispatch", f1 |-> "finalize", t1 |-> "terminalize"]
PrepareJob ==
  [r2 |-> "reserve", r3 |-> "reserve", d2 |-> "dispatch", d3 |-> "dispatch"]
SingleApproval ==
  [s1 |-> Drill, s2 |-> Drill, s3 |-> DrillAgain, s4 |-> Greedy, s5 |-> Teardown]
SingleJob == [r \in DOMAIN SingleApproval |-> "single"]

MCJob == PhaseJob @@ PrepareJob @@ SingleJob
MCRuns == DOMAIN MCJob
MCApprovalOf ==
  SingleApproval @@ [r \in DOMAIN PhaseJob |-> Execute]
    @@ [r \in DOMAIN PrepareJob |-> Prepare]

\* The runs of a scenario, how much it may lose, and its last instant.
Scenario ==
  [phases  |-> [runs |-> DOMAIN PhaseJob, faults |-> 2, time |-> 2],
   prepare |-> [runs |-> DOMAIN PrepareJob, faults |-> 1, time |-> 1],
   effect  |-> [runs |-> {"s1", "s2", "s3"}, faults |-> 1, time |-> 0],
   budget  |-> [runs |-> {"s1", "s3", "s4", "s5"}, faults |-> 1, time |-> 0]]

InScenario ==
  /\ \A r \in Runs \ Scenario[scenario].runs : run[r].at = "idle"
  /\ faults <= Scenario[scenario].faults
  /\ now <= Scenario[scenario].time

MCInit == scenario \in DOMAIN Scenario \cup {"query"} /\ ReleaseInit /\ QueryInit
MCNext ==
  /\ UNCHANGED scenario
  /\ IF scenario = "query" THEN QueryNext /\ UNCHANGED releaseVars
     ELSE ReleaseNext /\ InScenario' /\ UNCHANGED queryVars
MCSpec == MCInit /\ [][MCNext]_<<releaseVars, queryVars, scenario>>
=============================================================================
