CONSTANTS
    Shadow = {x, y}
    MaxStarts = 3
    MaxFaults = 2
SPECIFICATION Spec
CHECK_DEADLOCK FALSE
SYMMETRY ShadowSymmetry
INVARIANTS CleanupRestores PrepareConfigures
