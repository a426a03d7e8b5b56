CONSTANTS
    Clients = {c1}
    Keys = {k}
    Values = {running, succeeded}
    Absent = Absent
    StaleReads = TRUE
    LateCopies = FALSE
    MaxSends = 1

SPECIFICATION Spec

PROPERTIES
    SkippedWriteIsStored
