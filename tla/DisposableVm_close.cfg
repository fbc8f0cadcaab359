SPECIFICATION Spec
CONSTANTS
    Workers = {w1, w2}
    Terminals = {}
    Chunks = 1
    None = None
INVARIANTS
    TornDownOnClose
CHECK_DEADLOCK FALSE
