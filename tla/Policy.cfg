SPECIFICATION Spec
CONSTANTS
    None = None
INVARIANTS
    ProfilesNest
    ResolvedDecides
    SecretsNever
    
CHECK_DEADLOCK FALSE
