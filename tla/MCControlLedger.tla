-------------------------- MODULE MCControlLedger --------------------------
(***************************************************************************)
(* Two instances, each explored by itself: a ledger of two scopes, up to    *)
(* the finalization and the calls that come after it, and the fresh-cluster *)
(* controller.                                                              *)
(***************************************************************************)
EXTENDS ControlLedger, FreshCluster, TLC

VARIABLE part

\* Both scopes together reach the cap exactly.
MCExposure == [i \in Scopes |-> i]

\* One process and two unanswered requests, or three and one.
ClusterBudget == 5

\* The deadlines are read between runs, at the reservation and by the stages
\* that delete; time passes just before that.
ClusterBound ==
  /\ runs' + 2 * unanswered' <= ClusterBudget
  /\ IF me = Rest \/ approval' = approval THEN TRUE
     ELSE me.step = "reserve" \/ Stage \in Deleting \cup {"start"}

\* Once the retention deadline has passed, an operation may rest as it is.
OperationOver == me = Rest /\ approval = "over" /\ UNCHANGED clusterVars

MCInit ==
  /\ part \in {"ledger", "cluster"}
  /\ LedgerInit /\ ClusterInit
  /\ part # "cluster" => CreateNew
MCNext ==
  /\ \/ part = "ledger" /\ LedgerNext /\ UNCHANGED clusterVars
     \/ part = "cluster" /\ (ClusterNext \/ OperationOver) /\ UNCHANGED ledgerFileVars
        /\ ClusterBound
  /\ UNCHANGED part
MCSpec == MCInit /\ [][MCNext]_<<part, ledgerFileVars, clusterVars>>

ProcessesAlike == Permutations(Processes)
=============================================================================
