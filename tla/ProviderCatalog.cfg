\* Three providers, four builds and four failures or crashes in a row.
SPECIFICATION Spec
CONSTANTS
    p1 = p1
    p2 = p2
    p3 = p3
    Ids = {p1, p2, p3}
    Builds <- FourBuilds
    MaxFaults = 4
INVARIANTS
    TypeOK
    ChoiceKept
    ServingIsComplete
PROPERTIES
    OnlyFaultsEndBoot
    BootServes
