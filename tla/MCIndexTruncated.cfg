SPECIFICATION Spec
CONSTANTS
    i = i
    j = j
    r = r
    l = l
    Nobody = Nobody
    Indexer = {i}
    Reader = {r, l}
    Locking = {r}
    Sticky = {}
    Mortal = {r}
    MayTruncate = TRUE
    MaxSession = 3
INVARIANTS LatestIntact
CHECK_DEADLOCK FALSE
