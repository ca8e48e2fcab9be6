CONSTANTS
    Shadow = {x}
    MaxStarts = 2
    MaxFaults = 1
SPECIFICATION Spec
CHECK_DEADLOCK FALSE
INVARIANT CleanupAlwaysRestores
