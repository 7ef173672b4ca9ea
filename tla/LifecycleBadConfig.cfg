SPECIFICATION Spec
CONSTANTS
    MaxHandlers = 1
    MaxSignals = 2
INVARIANTS
    BadConfigNeverServes
CHECK_DEADLOCK FALSE
