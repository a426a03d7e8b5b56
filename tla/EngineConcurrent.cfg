CONSTANTS
    Steps <- LeanSteps
    Deps <- LeanDeps
    Order <- LeanOrder
    RetryLimit <- LeanRetryLimit
    Keys <- LeanKeys
    Owner <- LeanOwner
    NoRun = NoRun
    Runs = {r1}
    Procs = {p1, p2}
    DryRunFlags <- RealRunsOnly
    Pages <- LeanPages
    StoreMayFail = FALSE

SPECIFICATION Spec

SYMMETRY Symmetry

INVARIANTS
    SucceededHasEffect
    CompleteRunProvisioned
    DepsInEffect
    PassedStepsAreDone
    IInv

PROPERTIES
    ImplementsProvisioning
