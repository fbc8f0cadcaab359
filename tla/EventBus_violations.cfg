SPECIFICATION Spec
CONSTANTS
    Publishers = {monitor, runner}
    Readers = {printer}
    Drainers = {printer}
    Awaited = {monitor}
    Kinds = {"violation", "routine"}
    Cap = 1
    HistMax = 2
    MaxEvents = 3
INVARIANTS
    ViolationsNeverLost
CHECK_DEADLOCK FALSE
