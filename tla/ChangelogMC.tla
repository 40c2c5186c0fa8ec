------------------------------ MODULE ChangelogMC ------------------------------
EXTENDS Changelog, TLC

(* The mirror begins with a version that has nothing to report. *)
MCFirstWork == [f \in Files |-> IF f \in Pulled THEN 2 ELSE 1]

Symmetry == Permutations(Runs)
================================================================================
