CONSTANTS
    Runs = {r1, r2}
    NoRun = NoRun
    DryRunFlags = {FALSE}
    Versions = {0, 1}
    OutputsMayFail = FALSE

SPECIFICATION Spec

INVARIANTS
    LatestIsApplied
