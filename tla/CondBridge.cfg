SPECIFICATION Spec
\* Threads that all wait stop: nothing in the bridge promises a signal.
CHECK_DEADLOCK FALSE
CONSTANTS
    Threads = {t1, t2, t3}
    Guests = {free, locked}
    Lazy = {free, locked}
    SignalLocked = {locked}
    Hosts = {h1, h2, h3}
    None = None
    Words = {"empty"}
    Ops <- MCOps
SYMMETRY Symmetry
INVARIANTS NoDanglingHost LockedNeverRaces
PROPERTIES SignalsReach WakesItsOwn
