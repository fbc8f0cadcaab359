SPECIFICATION FairSpec
CONSTANTS
    SetupMayFail = TRUE
    LayoutMayDiffer = TRUE
    SupMayCrash = TRUE
    StrangerMayFork = TRUE
INVARIANTS
    TypeOK
    NoUnmonitoredWindow
    PayloadHoldsNothing
PROPERTIES
    SupervisorEnds
    ChildrenEnd
CHECK_DEADLOCK FALSE
