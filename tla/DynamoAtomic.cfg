CONSTANTS
    Clients = {c1, c2}
    Keys = {k}
    Values = {running, succeeded}
    Absent = Absent
    StaleReads = FALSE
    LateCopies = TRUE
    MaxSends = 2

SPECIFICATION Spec

SYMMETRY Symmetry

INVARIANTS
    TypeOK

PROPERTIES
    ImplementsConfigStore
