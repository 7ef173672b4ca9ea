\* A refresh request and the poll goroutine collect at the same time.
SPECIFICATION Spec
CONSTANTS
    p1 = p1
    p2 = p2
    Registry <- OneProvider
    FieldCount <- OneFieldEach
    Live = {p1}
    Values = {v1}
    Keys = {k1}
    None = None
    Sched = Sched
    Refreshers = {r1}
    Writers = {w1}
    PollInterval = 1
    MaxCooldown = 2
    Width = 16
    ShiftCap = 8
    MaxTime = 3
PROPERTIES
    SnapshotNeverGoesBack
