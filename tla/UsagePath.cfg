\* Two places, two master keys, four-bit words, three instants.
SPECIFICATION Spec
CONSTANTS
    k1 = k1
    k2 = k2
    Nil = Nil
    NoText = NoText
    Empty = Empty
    NoRow = NoRow
    MasterKeys = {k1, k2}
    Half = 8
    MaxClock = 1
    Domain <- TheDomain
    Places <- ThePlaces
    Target <- TheTarget
    Answers <- TheAnswers
INVARIANTS
    TypeOK
    KeyReachesItsOwner
    RefusalIsAuth
    ShownAddsUp
