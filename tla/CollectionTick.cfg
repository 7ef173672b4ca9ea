\* Two providers, the second without credential fields and without a
\* Fetcher: the running tick visits a list made before providers were disabled.
SPECIFICATION Spec
CONSTANTS
    p1 = p1
    p2 = p2
    Registry <- TwoProviders
    FieldCount <- NoFieldForP2
    Live = {p1}
    Values = {v1}
    Keys = {k1}
    None = None
    Sched = Sched
    Refreshers = {r1}
    Writers = {w1}
    PollInterval = 1
    MaxCooldown = 2
    Width = 16
    ShiftCap = 8
    MaxTime = 2
INVARIANTS
    GateRespected
PROPERTIES
    DisabledStaysQuiet
