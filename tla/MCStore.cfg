SPECIFICATION StoreSpec
CONSTANTS
    a = a
    b = b
    c = c
    p = p
    q = q
    r = r
    host1 = host1
    host2 = host2
    NoFile = NoFile
    Locker = {a, b, c}
    Proc = {p, q}
    ProcOf <- TwoProcs
    Agent = {host1, host2}
    Mortal = {q}
    Clearers = {a, b}
    Retries = 1
    SharedMortal = {c}
    Names = {f1, f2}
    SegMeta = segmeta
    MaxLength = 2
    Align = 2
    MaxDeaths = 2
    Elem = {1, 2, 3}
    MaxFeeds = 6
    MemThresh = 3
    RunThresh = 2
INVARIANTS
    TypeOK
    SafelyExclusive
    HeldHasFile
    LockInv
    SharedNumbersLow
    SharedHeldHasFile
    SharedNoLeftovers
    SegmentFilesRight
    FetchedInOrder
PROPERTIES
    MutexSpec
    StaleCleared
    LocksReturn
