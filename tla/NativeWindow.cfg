SPECIFICATION FairSpec
CONSTANTS
    MaxRuns = 2
INVARIANTS
    TypeOK
    SaysWhatHappened
PROPERTIES
    WindowComesFree
CHECK_DEADLOCK FALSE
