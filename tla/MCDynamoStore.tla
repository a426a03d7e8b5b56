----------------------------- MODULE MCDynamoStore -----------------------------
(***************************************************************************)
(* A small table for TLC: processes that race for one key.                 *)
(***************************************************************************)
EXTENDS DynamoStore, TLC

Symmetry == Permutations(Clients)
================================================================================
