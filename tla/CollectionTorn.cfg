\* Two PUT requests with different values for a provider with two fields.
SPECIFICATION Spec
CONSTANTS
    p1 = p1
    p2 = p2
    Registry <- OneProvider
    FieldCount <- TwoFieldsEach
    Live = {p1}
    Values = {v1, v2}
    Keys = {k1}
    None = None
    Sched = Sched
    Refreshers = {}
    Writers = {w1, w2}
    PollInterval = 1
    MaxCooldown = 2
    Width = 16
    ShiftCap = 8
    MaxTime = 3
INVARIANTS
    CredentialsAreWhole
