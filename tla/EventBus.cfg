SPECIFICATION FairSpec
CONSTANTS
    Publishers = {monitor, runner}
    Readers = {printer}
    Drainers = {printer}
    Awaited = {monitor}
    Kinds = {"violation", "routine"}
    Cap = 1
    HistMax = 2
    MaxEvents = 3
INVARIANTS
    TypeOK
    Conservation
    DrainedMissesNothing
PROPERTIES
    PublishTerminates
    ImplementsFeed
CHECK_DEADLOCK FALSE
