\* Sorting by field and by doc id, over all small sets of documents, and single Matchers.
SPECIFICATION EitherSpec
CONSTANTS
    Layout <- MCLayout
    Doc <- MCDoc
    Search <- MCSearches
    Pairs <- MCPairs
    SegmentMax = 4
    SkipInterval = 2
INVARIANTS
    TypeOK
    HitsCounted
    QueueIsBest
    ResultIsBest
    LegalCalls
    ScoreRight
PROPERTIES
    Terminates
    ImplementsMatcher
    CallsReturn
CHECK_DEADLOCK FALSE
