\* Two requests in flight and two signals; the process does end, so a state
\* without successors is expected.
SPECIFICATION Spec
CONSTANTS
    MaxHandlers = 2
    MaxSignals = 2
INVARIANTS
    TypeOK
    SchedulerStoreOpen
    CleanExitDrained
PROPERTIES
    NoCallWhileJoining
    StopsEventually
CHECK_DEADLOCK FALSE
