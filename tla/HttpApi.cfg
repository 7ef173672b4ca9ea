\* Two requests at a time, an unknown id and a provider with two fields, in a
\* build with its Fetcher and in one without.
SPECIFICATION Spec
CONSTANTS
    r1 = r1
    r2 = r2
    p = p
    nobody = nobody
    None = None
    Requests = {r1, r2}
    Ids = {p}
    Unknown = nobody
    FieldCount <- TwoFields
INVARIANTS
    TypeOK
    NotFoundMeansUnknown
    ConflictIsReal
    QuietPutIsWhole
    ConnectionIsHeld
PROPERTIES
    OneAnswerOneLine
    EveryRequestEnds
