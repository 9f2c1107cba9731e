SPECIFICATION Spec
\* Two guest mutexes locked in opposite orders deadlock: that is the guest's
\* doing, so the absence of deadlock is not asked for here.
CHECK_DEADLOCK FALSE
CONSTANTS
    Threads = {t1, t2}
    Guests = {lazy, prepared}
    Lazy = {lazy}
    Hosts = {h1, h2, h3}
    None = None
    MaxHold = 2
    Words <- MCWords
    Ops <- MCOps
SYMMETRY Symmetry
INVARIANTS ExclusionUnlessRaced NoDanglingHost
PROPERTIES ImplementsGuestMutex
