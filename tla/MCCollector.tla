------------------------------ MODULE MCCollector ------------------------------
(***************************************************************************)
(* Inputs for TLC: one whose check rejects a value but not "" (those of   *)
(* the pipeline let all pass, spec.go:30-33, but for org_module_path),     *)
(* one with the same key and no check, and one with a default (as          *)
(* backend_key) that is also optional, which InputSpec allows and no step  *)
(* makes use of so far.                                                    *)
(***************************************************************************)
EXTENDS Collector

CONSTANTS path, name, good, bad

Checked  == [key |-> path, default |-> Empty, optional |-> FALSE,
             valid |-> {good, Empty}]
Repeated == [Checked EXCEPT !.valid = Values \cup {Empty}]
Optional == [key |-> name, default |-> good, optional |-> TRUE,
             valid |-> Values \cup {Empty}]

\* The other tool stores anything, "" included, under the first key, and deletes either.
Others == {path} \X {good, bad, Empty, Absent} \cup {name} \X {Absent}

Inputs == <<Checked, Repeated, Optional>>
================================================================================
