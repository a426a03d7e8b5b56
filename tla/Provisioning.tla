------------------------------ MODULE Provisioning ------------------------------
(***************************************************************************)
(* What the orchestrator promises, with no engine in sight.  A platform is *)
(* a set of steps that depend on each other.  A step takes effect in the   *)
(* world only after everything it depends on has, and a run is reported    *)
(* complete only once the whole platform is in place.  How the effects are *)
(* reached (checkpoints, retries, crashes, several operators) is the       *)
(* business of Engine, which implements this specification.                *)
(***************************************************************************)
CONSTANTS Steps,        \* the steps of the pipeline
          Runs,         \* the run identifiers
          Deps          \* Deps[s]: the steps s depends on

VARIABLES provisioned,  \* the steps whose effect exists in the world
          complete      \* the runs reported as succeeded

vars == <<provisioned, complete>>

Init == /\ provisioned = {}
        /\ complete = {}

\* A step takes effect, which needs the effect of its dependencies.
Provision(s) == /\ Deps[s] \subseteq provisioned
                /\ provisioned' = provisioned \cup {s}
                /\ UNCHANGED complete

\* A run is reported complete, which needs every effect.
Report(r) == /\ provisioned = Steps
             /\ complete' = complete \cup {r}
             /\ UNCHANGED provisioned

\* A completed run is executed again, by a second operator, and fails.
Reopen(r) == /\ complete' = complete \ {r}
             /\ UNCHANGED provisioned

Next == \/ \E s \in Steps : Provision(s)
        \/ \E r \in Runs : Report(r) \/ Reopen(r)

Spec == Init /\ [][Next]_vars
=================================================================================
