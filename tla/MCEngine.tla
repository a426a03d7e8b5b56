------------------------------- MODULE MCEngine -------------------------------
(***************************************************************************)
(* Small pipelines for TLC.  "Branch" has the shape of the first steps of  *)
(* platform_setup.go: create_org, then two steps that need only it, one of *)
(* which retries.  "Pair" is the smallest pipeline with a dependency.      *)
(***************************************************************************)
EXTENDS Engine, TLC

BranchSteps      == {"org", "scp", "role"}
BranchDeps       == [s \in BranchSteps |-> IF s = "org" THEN {} ELSE {"org"}]
BranchOrder      == <<"org", "role", "scp">>
BranchRetryLimit == [s \in BranchSteps |-> IF s = "role" THEN 2
                                           ELSE IF s = "scp" THEN 1 ELSE 0]
BranchKeys       == {"org_id", "root_ou_id"}
BranchOwner      == [k \in BranchKeys |-> "org"]

PairSteps      == {"plan", "apply"}
PairDeps       == [s \in PairSteps |-> IF s = "apply" THEN {"plan"} ELSE {}]
PairOrder      == <<"plan", "apply">>
PairRetryLimit == [s \in PairSteps |-> IF s = "plan" THEN 2 ELSE 0]
PairKeys       == {"plan_has_changes"}
PairOwner      == [k \in PairKeys |-> "plan"]

LeanSteps      == PairSteps
LeanDeps       == PairDeps
LeanOrder      == PairOrder
LeanRetryLimit == [s \in LeanSteps |-> 1]
LeanKeys       == {}
LeanOwner      == <<>>

RealRunsOnly == {FALSE}

\* List answers with every record, or its page may also end before those of the
\* run.
BranchPages    == {BranchSteps}
PairPages      == {PairSteps}
LeanPages      == {LeanSteps}
TruncatedPages == {PairSteps, {}}

Symmetry == Permutations(Runs) \cup Permutations(Procs)
===============================================================================
