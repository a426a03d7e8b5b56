CONSTANTS
    Ids <- FourIds
    DepLists <- FourDepLists

SPECIFICATION FairSpec

CHECK_DEADLOCK FALSE

INVARIANTS
    TypeOK
    KahnInv
    CycleIsReal
    ReadyIsTopological
    LeastOrder

PROPERTIES
    BuildReturns
