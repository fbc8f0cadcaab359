SPECIFICATION FairSpec
CONSTANTS
    LocalRuns = {r1, r2}
    VmRuns = {r2, r3}
    HistMax = 2
    MaxStarts = 1
    None = None
INVARIANTS
    TypeOK
    AtRest
    HistoryIsTheFeed
    FeedIsBracketed
PROPERTIES
    EveryRunEnds
CHECK_DEADLOCK FALSE
