CONSTANTS
    Steps <- PairSteps
    Deps <- PairDeps
    Order <- PairOrder
    RetryLimit <- PairRetryLimit
    Keys <- PairKeys
    Owner <- PairOwner
    NoRun = NoRun
    Runs = {r1}
    Procs = {p1}
    DryRunFlags = {TRUE, FALSE}
    Pages <- PairPages
    StoreMayFail = FALSE

SPECIFICATION Spec

INVARIANTS
    PassedStepsAreDone
