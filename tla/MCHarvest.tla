----------------------------- MODULE MCHarvest -----------------------------
(***************************************************************************)
(* Harvest instantiated for TLC.                                           *)
(***************************************************************************)
EXTENDS Harvest, TLC

\* Sound for the safety runs: no action and no property names a process or a
\* trigger.
Symmetry == Permutations(Processes) \cup Permutations(Triggers)
=============================================================================
