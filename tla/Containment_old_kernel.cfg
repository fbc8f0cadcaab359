SPECIFICATION FairSpec
CONSTANTS
    Tasks = {main, a}
    Main = main
    Calls = {"spawn", "bad"}
    MaxCalls = 2
    Policies = {TRUE}
    FreezeMayFail = TRUE
    KillAtomic = FALSE
    RecvSeesExit = FALSE
PROPERTIES
    SessionEnds
    EverythingDies
CHECK_DEADLOCK FALSE
