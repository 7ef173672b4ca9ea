\* Three providers whose calls may each last a poll interval, so that a tick
\* overruns three of them and fires are dropped; cooldowns of one, two and
\* three intervals, the last one capped.
SPECIFICATION Spec
CONSTANTS
    N = 3
    Poll = 1
    FetchTimeout = 1
    MaxCooldown = 3
    Width = 16
    ShiftCap = 8
    MaxFailures = 3
INVARIANTS
    TypeOK
    RetriedWithinBound
PROPERTIES
    AttemptedForEver
