CONSTANTS
    Steps <- BranchSteps
    Deps <- BranchDeps
    Order <- BranchOrder
    RetryLimit <- BranchRetryLimit
    Keys <- BranchKeys
    Owner <- BranchOwner
    NoRun = NoRun
    Runs = {r1}
    Procs = {p1}
    DryRunFlags <- RealRunsOnly
    Pages <- BranchPages
    StoreMayFail = FALSE

SPECIFICATION Spec

INVARIANTS
    TypeOK
    CheckpointPrefix
    CompleteMeansRecorded
    RunningIsDurable
    OutputsDurable

PROPERTIES
    SucceededIsStable
