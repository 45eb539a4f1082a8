CONSTANTS
    None = None
    Object = {x, y, z}
SPECIFICATION Spec
SYMMETRY ObjectSymmetry
INVARIANTS
    FaultsAreKnown
    
CHECK_DEADLOCK FALSE
