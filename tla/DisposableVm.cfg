SPECIFICATION Spec
CONSTANTS
    Workers = {w1, w2}
    Terminals = {t1}
    Chunks = 2
    None = None
SYMMETRY Symmetry
INVARIANTS
    BaseIsWhole
    LeavesNothing
PROPERTIES
    DiskOutlivesVm
CHECK_DEADLOCK FALSE
