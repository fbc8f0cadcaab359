SPECIFICATION Spec
CONSTANTS
    Tasks = {main, a}
    Main = main
    Calls = {"plain", "open", "spawn", "bad", "crash"}
    MaxCalls = 3
    Policies = {TRUE, FALSE}
    FreezeMayFail = FALSE
    KillAtomic = TRUE
    RecvSeesExit = TRUE
INVARIANTS
    TypeOK
    OnlyVettedPerformed
    VerdictMatchesRecord
    ContainedHasCause
    NothingLeftRunning
PROPERTIES
    SilentAfterFreeze
    KeepsQuarantine
CHECK_DEADLOCK FALSE
