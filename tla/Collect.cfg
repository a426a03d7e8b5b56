CONSTANTS
    Collectors = {c1, c2}
    Interactive = {c1}
    Keys = {path, name}
    Values = {good, bad}
    Empty = Empty
    Absent = Absent
    Specs <- Inputs
    Foreign <- Others
    path = path
    name = name
    good = good
    bad = bad

SPECIFICATION FairSpec

INVARIANTS
    TypeOK
    SuccessMeansCollected

PROPERTIES
    GoodStaysGood
    NothingInvented
    BatchEnds
    InteractiveEnds
