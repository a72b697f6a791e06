------------------------------ MODULE MCUpdater ------------------------------
(* Instances of Updater and its refinement for TLC. *)
EXTENDS UpdaterRefinement, TLC

\* Every release but the first needs the second schema.
MCSchema == [v \in Versions |-> IF v = 1 THEN 1 ELSE 2]
MCWrites == Permutations(Writes)
=============================================================================
