------------------------------- MODULE MCTargets -------------------------------
(* Two targets whose roles have names of their own, for TLC. *)
EXTENDS Targets, TLC

CONSTANTS t1, t2, admin, chosen, role1, role2

Own == t1 :> role1 @@ t2 :> role2

Symmetry == Permutations(Procs)
================================================================================
