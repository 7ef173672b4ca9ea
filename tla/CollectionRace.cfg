\* One provider with two fields, read and written one statement at a time,
\* and a master key that a restart may change: the poll goroutine, a refresh
\* request, a PUT and DELETEs race while cooldowns open, double and end.
SPECIFICATION Spec
CONSTANTS
    p1 = p1
    p2 = p2
    Registry <- OneProvider
    FieldCount <- TwoFieldsEach
    Live = {p1}
    Values = {v1}
    Keys = {k1, k2}
    None = None
    Sched = Sched
    Refreshers = {r1}
    Writers = {w1}
    PollInterval = 1
    MaxCooldown = 2
    Width = 16
    ShiftCap = 8
    MaxTime = 3
INVARIANTS
    TypeOK
PROPERTIES
    CooldownProtocol
    EntryHasItsReason
    DeletedStaysQuiet
