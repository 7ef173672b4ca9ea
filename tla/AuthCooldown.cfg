\* Two providers and three poll intervals: the shortest, one that doubles
\* into the cap, and one so long that the shift overflows, to a negative
\* duration at the fourth failure and to zero at the fifth.  Failure counts
\* pass ShiftCap within MaxTime.
SPECIFICATION Spec
CONSTANTS
    Providers = {p1, p2}
    Bases = {1, 2, 256}
    MaxCooldown = 3
    Width = 12
    ShiftCap = 5
    MaxTime = 18
INVARIANTS
    TypeOK
    CooldownBounded
PROPERTIES
    DoublesUpToCap
