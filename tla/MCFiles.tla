------------------------------- MODULE MCFiles -------------------------------
(***************************************************************************)
(* The protocols whose memory is files, each explored by itself.  "file":   *)
(* two processes publish the same bytes and one publishes others.           *)
(* "journal": two processes, started three times in all, run the recovery   *)
(* continuity journal.  "bootstrap": the ceremony for a plan of one stack.  *)
(***************************************************************************)
EXTENDS CreateOnlyFile, BootstrapCeremony, RecoveryContinuity, TLC

CONSTANTS p1, p2, p3

VARIABLE part

Processes == {p1, p2, p3}
Wanted == (p1 :> "a") @@ (p2 :> "a") @@ (p3 :> "b")

MCInit ==
  /\ part \in {"file", "journal", "bootstrap"}
  /\ FileInit /\ CInit /\ CeremonyInit
MCNext ==
  /\ \/ part = "file" /\ FileNext /\ UNCHANGED <<cvars, ceremonyVars>>
     \/ part = "journal" /\ CNext /\ UNCHANGED <<fileVars, ceremonyVars>>
     \/ part = "bootstrap" /\ CeremonyNext /\ UNCHANGED <<fileVars, cvars>>
  /\ UNCHANGED part
MCSpec == MCInit /\ [][MCNext]_<<part, fileVars, cvars, ceremonyVars>>

\* The workers are alike, and so are the two processes that publish the same bytes.
MCSymmetry == Permutations(Workers) \cup Permutations({p1, p2})
=============================================================================
