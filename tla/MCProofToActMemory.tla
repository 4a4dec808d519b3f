------------------------- MODULE MCProofToActMemory -------------------------
(***************************************************************************)
(* Small instances of ProofToActMemory.                                     *)
(***************************************************************************)
EXTENDS ProofToActMemory

CONSTANT Scenarios
VARIABLE scenario

\* All contradict each other; e3 is valid later and e4 is not signed.
MCRec == [e \in Records |->
  [incident |-> "i1", claim |-> "road",
   value |-> IF e = "e1" THEN "open" ELSE IF e = "e3" THEN "wet" ELSE "closed",
   scopes |-> IF e = "e2" THEN {"*"} ELSE {"a"},
   from |-> IF e = "e3" THEN 1 ELSE 0,
   until |-> IF e = "e2" THEN 2 ELSE 3,
   signed |-> e # "e4"]]

\* Two resources whose lease keys collide.
MCLeaseKey == [p \in Incidents \X Resources |-> "k1"]

MCReq == [r \in Requests |->
  [incident |-> "i1", resource |-> IF r = "r3" THEN "q2" ELSE "q1",
   agent |-> IF r = "r1" THEN "g1" ELSE "g2", agency |-> "a",
   evidence |-> IF r = "r2" THEN <<"e3">> ELSE <<"e1">>,
   leaseMs |-> IF r = "r3" THEN 2 ELSE 1]]

MCEvidenceSets == {{}, {"e1"}, {"e3"}}

\* "leases": all operations and instants, no checkpoints, and the unsigned
\* record only without the one for everybody.  "recovery": agents checkpoint,
\* with fewer records, operations and instants.
InScenario ==
  CASE scenario = "leases" ->
         checkpoints = <<>> /\ "absent" \in {status["e2"], status["e4"]}
    [] scenario = "recovery" ->
         /\ now <= 2 /\ receipts["o3"] = NoReceipt
         /\ status["e2"] = "absent" /\ status["e4"] = "absent"
    [] OTHER -> status["e4"] = "absent"

MCInit == scenario \in Scenarios /\ MemInit
MCNext == MemNext /\ UNCHANGED scenario /\ InScenario'
MCSpec == MCInit /\ [][MCNext]_<<memVars, scenario>>
=============================================================================
