SPECIFICATION Spec
CONSTANTS
    i = i
    j = j
    r = r
    l = l
    Nobody = Nobody
    Indexer = {i, j}
    Reader = {r, l}
    Locking = {r}
    Sticky = {l}
    Mortal = {i, r}
    MayTruncate = FALSE
    MaxSession = 3
INVARIANTS TypeOK LatestIntact ReaderProtected NoMixedView NoOrphans
PROPERTIES VersionsSpec NoFalseAlarm
CHECK_DEADLOCK FALSE
