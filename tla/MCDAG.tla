---------------------------------- MODULE MCDAG ----------------------------------
(***************************************************************************)
(* Registries for TLC: up to four steps, which is where a diamond fits,    *)
(* and dependency lists that are empty, single, double and repeated.  As   *)
(* any step takes any list, there are self-dependencies, cycles, and       *)
(* dependencies on steps nobody registered.                                *)
(***************************************************************************)
EXTENDS DAG

FourIds      == 1..4
FourDepLists == {<<>>, <<1>>, <<2>>, <<4>>, <<1, 1>>, <<2, 3>>, <<3, 4>>}
================================================================================
