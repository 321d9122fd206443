SPECIFICATION Spec
CONSTANTS
    i = i
    j = j
    r = r
    l = l
    Nobody = Nobody
    Indexer = {i}
    Reader = {r, l}
    Locking = {r}
    Sticky = {}
    Mortal = {r}
    MayTruncate = FALSE
    MaxSession = 3
INVARIANTS LeftoversCleared
CHECK_DEADLOCK FALSE
