----------------------------------- MODULE DAG -----------------------------------
(***************************************************************************)
(* The step registry (internal/steps/registry.go) and the dependency graph *)
(* it builds (internal/pipeline/dag.go): registration, validation and      *)
(* Kahn's topological sort, over every registry a developer may write.     *)
(*                                                                         *)
(* Step IDs are numbers, ordered as their names are as strings.  A Go map  *)
(* is iterated in any order; the queue, a slice sorted after every change, *)
(* is the set of its elements, of which the least is taken.                *)
(***************************************************************************)
EXTENDS Integers, Sequences, FiniteSets

CONSTANTS Ids,        \* the step IDs a developer may use, and may depend on
          DepLists    \* the dependency lists (slices of IDs) a step may declare

ASSUME IdsAssumption == /\ Ids \subseteq Nat
                        /\ IsFiniteSet(Ids)
                        /\ DepLists \subseteq Seq(Ids)

VARIABLES phase,      \* where building or sorting the graph is
          registry,   \* Registry.steps: the declared dependencies by step ID
          deps,       \* DAG.deps, filled from the registry
          inDegree,   \* of each step, the dependencies not sorted yet
          queue,      \* the steps whose dependencies are all sorted
          sorted      \* the steps sorted so far

vars == <<phase, registry, deps, inDegree, queue, sorted>>

Working  == {"register", "add", "validate", "sort"}
Rejected == {"duplicate", "unknown", "cycle"}

\* A map from some step IDs to a T.
Maps(f, T) == DOMAIN f \subseteq Ids /\ \A s \in DOMAIN f : f[s] \in T

\* Every variable is of its type.
TypeOK == /\ phase \in Working \cup {"ready"} \cup Rejected
          /\ Maps(registry, DepLists)
          /\ Maps(deps, DepLists)
          /\ Maps(inDegree, Nat)
          /\ queue \subseteq Ids
          /\ sorted \in Seq(Ids)

-------------------------------------------------------------------------------
(* The graph *)

Steps == DOMAIN deps

Elements(q) == {q[i] : i \in 1..Len(q)}

\* How many times s names d among its dependencies: as often as d's list of
\* dependents names s (computeDependents).
Mentions(s, d) == Cardinality({i \in 1..Len(deps[s]) : deps[s][i] = d})

Least(S) == CHOOSE s \in S : \A t \in S : s <= t

Insert(f, s, v) == [t \in DOMAIN f \cup {s} |-> IF t = s THEN v ELSE f[t]]

\* Slips: definitions below as a plausible mistake would write them, to see
\* that the properties notice.  This one forgets to sort the queue.
EmittableSlip == queue

\* Queues a dependent one dependency too early.
ReleasedSlip(id) == {s \in Steps : Mentions(s, id) > 0 /\ inDegree[s] <= 2}

\* Looks at the degree once for each step, whatever it depends on twice.
ReleasedOnceSlip(id) == {s \in Steps : Mentions(s, id) > 0 /\ inDegree[s] = 1}

\* Does not take the step it emits off the queue.
QueueAfterSlip(id) == queue \cup {s \in Steps : inDegree[s] \in 1..Mentions(s, id)}

\* The head of the sorted queue.
Emittable == {Least(queue)}

\* inDegree once every dependent of id has been decremented.
DegreeAfter(id) == [s \in Steps |-> inDegree[s] - Mentions(s, id)]

\* The dependents whose degree passes zero on the way.
Released(id) == {s \in Steps : inDegree[s] \in 1..Mentions(s, id)}

QueueAfter(id) == (queue \ {id}) \cup Released(id)

\* The dependencies nobody registered.
Unknown == {d \in Ids \ Steps : \E s \in Steps : d \in Elements(deps[s])}

-------------------------------------------------------------------------------
(* Registry.Register and Registry.BuildDAG *)

Empty == [s \in {} |-> 0]

Init == /\ phase = "register"
        /\ registry = Empty
        /\ deps = Empty
        /\ inDegree = Empty
        /\ queue = {}
        /\ sorted = <<>>

Register(s, list) == /\ phase = "register"
                     /\ s \notin DOMAIN registry
                     /\ registry' = Insert(registry, s, list)
                     /\ UNCHANGED <<phase, deps, inDegree, queue, sorted>>

\* PlatformSetupPipeline gives up on the first registration that fails.
RegisterTwice(s) == /\ phase = "register"
                    /\ s \in DOMAIN registry
                    /\ phase' = "duplicate"
                    /\ UNCHANGED <<registry, deps, inDegree, queue, sorted>>

BuildDAG == /\ phase = "register"
            /\ phase' = "add"
            /\ UNCHANGED <<registry, deps, inDegree, queue, sorted>>

\* The keys of a map are distinct, so DAG.Add never meets its duplicate here.
Add(s) == /\ phase = "add"
          /\ s \in DOMAIN registry \ Steps
          /\ deps' = Insert(deps, s, registry[s])
          /\ UNCHANGED <<phase, registry, inDegree, queue, sorted>>

AllAdded == /\ phase = "add"
            /\ Steps = DOMAIN registry
            /\ phase' = "validate"
            /\ UNCHANGED <<registry, deps, inDegree, queue, sorted>>

UnknownDependency == /\ phase = "validate"
                     /\ Unknown # {}
                     /\ phase' = "unknown"
                     /\ UNCHANGED <<registry, deps, inDegree, queue, sorted>>

-------------------------------------------------------------------------------
(* DAG.TopoSort *)

\* Called by Validate, and again by collectInputs and by Engine.execute on the
\* graph that Validate accepted.
StartSort == /\ \/ phase = "validate" /\ Unknown = {}
                \/ phase = "ready"
             /\ phase' = "sort"
             /\ inDegree' = [s \in Steps |-> Len(deps[s])]
             /\ queue' = {s \in Steps : deps[s] = <<>>}
             /\ sorted' = <<>>
             /\ UNCHANGED <<registry, deps>>

Emit(id) == /\ phase = "sort"
            /\ queue # {}
            /\ id \in Emittable
            /\ sorted' = Append(sorted, id)
            /\ inDegree' = DegreeAfter(id)
            /\ queue' = QueueAfter(id)
            /\ UNCHANGED <<phase, registry, deps>>

\* The loop ends when every step is sorted: on a cycle, never.
FinishSlip == /\ phase = "sort"
              /\ Len(sorted) = Cardinality(Steps)
              /\ phase' = "ready"
              /\ UNCHANGED <<registry, deps, inDegree, queue, sorted>>

Finish == /\ phase = "sort"
          /\ queue = {}
          /\ phase' = IF Len(sorted) = Cardinality(Steps) THEN "ready" ELSE "cycle"
          /\ UNCHANGED <<registry, deps, inDegree, queue, sorted>>

-------------------------------------------------------------------------------

Build == \/ \E s \in Ids : Add(s)
         \/ AllAdded
         \/ UnknownDependency
         \/ phase = "validate" /\ StartSort
         \/ \E id \in Ids : Emit(id)
         \/ Finish

Next == \/ \E s \in Ids, list \in DepLists : Register(s, list)
        \/ \E s \in Ids : RegisterTwice(s)
        \/ BuildDAG
        \/ Build
        \/ phase = "ready" /\ StartSort

Spec == Init /\ [][Next]_vars

\* BuildDAG and TopoSort are plain loops: once called, they run.
FairSpec == Spec /\ WF_vars(Build)

-------------------------------------------------------------------------------
(* Properties *)

\* The loop of TopoSort: the degree of a step is the number of its dependencies
\* that are not sorted, the queue holds the others that have none left, and the
\* sorted steps come after their dependencies, each once (dag.go:59-73).
KahnInv ==
    phase = "sort" =>
        /\ DOMAIN inDegree = Steps
        /\ \A s \in Steps : inDegree[s] =
              Cardinality({i \in 1..Len(deps[s]) : deps[s][i] \notin Elements(sorted)})
        /\ queue = {s \in Steps \ Elements(sorted) : inDegree[s] = 0}
        /\ Elements(sorted) \subseteq Steps
        /\ \A i, j \in 1..Len(sorted) : sorted[i] = sorted[j] => i = j
        /\ \A i \in 1..Len(sorted) : \A d \in Elements(deps[sorted[i]]) :
              \E j \in 1..(i - 1) : sorted[j] = d

\* An accepted graph is returned as a topological order of exactly the registered
\* steps, repeated dependencies included: what Engine assumes of Order (dag.go:48,
\* "dependencies before dependents").
ReadyIsTopological ==
    phase = "ready" =>
        /\ Elements(sorted) = DOMAIN registry
        /\ Len(sorted) = Cardinality(DOMAIN registry)
        /\ \A i \in 1..Len(sorted) : \A d \in Elements(registry[sorted[i]]) :
              \E j \in 1..(i - 1) : sorted[j] = d

\* A graph is rejected for a cycle only when some steps wait for each other
\* (dag.go:75-77 infers it from a count).
CycleIsReal ==
    phase = "cycle" =>
        \E C \in (SUBSET Steps) \ {{}} :
            \A s \in C : \E d \in C : d \in Elements(deps[s])

\* The order does not depend on registration or map order: each step is the least
\* one whose dependencies come before it, so every call of TopoSort, in every
\* process, returns the same order (dag_test.go:151, IsDeterministic).
LeastOrder ==
    phase = "ready" =>
        \A i \in 1..Len(sorted) :
            LET before == {sorted[j] : j \in 1..(i - 1)}
                free   == {s \in Steps \ before : Elements(deps[s]) \subseteq before}
            IN  \A s \in free : sorted[i] <= s

\* BuildDAG returns, with a graph or with an error, cyclic graphs included.
BuildReturns == phase \in {"add", "validate", "sort"}
                    ~> phase \in {"ready"} \cup Rejected
================================================================================
