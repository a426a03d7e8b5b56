SPECIFICATION Spec
CONSTANTS
    Procs = {p1, p2}
    Runs = {r1}
    Targets = {t1, t2}
    NoRun = NoRun
    NumSteps = 2
    DryRunFlags = {FALSE, TRUE}
    p1 = p1
    p2 = p2
    r1 = r1
    t1 = t1
    t2 = t2
SYMMETRY Symmetry
INVARIANTS
    TypeOK
    ZeroIsComplete
    HandedOverWhenComplete
    LastIsRecorded
