------------------------------- MODULE MCCommands -------------------------------
(* Commands for several targets, for TLC. *)
EXTENDS Commands, TLC

Symmetry == Permutations(Procs) \cup Permutations(Runs) \cup Permutations(Targets)
================================================================================
