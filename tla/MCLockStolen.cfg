SPECIFICATION Spec
CONSTANTS
    a = a
    b = b
    c = c
    p = p
    q = q
    r = r
    host1 = host1
    host2 = host2
    NoFile = NoFile
    Locker = {a, b, c}
    Proc = {p, q, r}
    ProcOf <- ThreeProcs
    Agent = {host1}
    Mortal = {p, q, r}
    Clearers = {a, b, c}
    Retries = 1
INVARIANT MutualExclusion
