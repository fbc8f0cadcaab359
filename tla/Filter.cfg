SPECIFICATION FilterSpec
CONSTANTS
    Numbers = {n1, n2, n3}
    MaxProgram = 13
    MaxClass = 2
INVARIANTS
    DecidesAsMeant
    NotifiedIsSeen
CHECK_DEADLOCK FALSE
