SPECIFICATION FairSpec
CONSTANTS
    Threads = {session, pump}
    Peers = {browser, gui}
    Stalling = {browser}
    L7 = 2
    Base = 3
    Narrow = 1
    Wide = 2
    Answered = 3
    Accepted = 2
    Room = 6
    Sizes = {1, 3}
    MaxMessages = 2
INVARIANTS
    SameFeed
    NothingLeftBehind
PROPERTIES
    BroadcastEnds
    GoneIsForgotten
CHECK_DEADLOCK FALSE
