SPECIFICATION SharedSpec
\* A guest whose threads all wait without a token stops: nothing in the
\* bridge promises it a post.
CHECK_DEADLOCK FALSE
CONSTANTS
    Threads = {t1, t2, t3}
    Pair = {t1, t2}
    Guests = {g1}
    Hosts = {h1, h2}
    None = None
    LazyUse = TRUE
    MaxValue = 2
    Words = {0, 1, 2}
    Ops <- MCOps
    Keys <- MCKeys
    Cut <- MCCut
    CutSignature <- MCCutSignature
    Capacity <- MCCapacity
    MaxLookups = 4
    Archives <- MCArchives
    Requests <- MCRequests
    IntLimit = 4
    Most = 5
INVARIANTS TokensConserved NoDanglingHost LocksSound IdsNameTheirMethods ListingsSound
PROPERTIES TokenFindsWaiter
