CONSTANTS
    Steps <- PairSteps
    Deps <- PairDeps
    Order <- PairOrder
    RetryLimit <- PairRetryLimit
    Keys <- PairKeys
    Owner <- PairOwner
    NoRun = NoRun
    Runs = {r1}
    Procs = {p1}
    DryRunFlags = {TRUE, FALSE}
    Pages <- TruncatedPages
    StoreMayFail = TRUE

SPECIFICATION FairSpec

PROPERTIES
    Terminates
    ResumeCompletes
