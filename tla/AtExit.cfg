SPECIFICATION Spec
\* The process stops when the registry is full and everything has run.
CHECK_DEADLOCK FALSE
CONSTANTS
    Threads = {main, t1}
    Main = main
    Dsos = {d1, d2}
    AnyDso = AnyDso
    Capacity = 4
    MaxDepth = 2
INVARIANTS StartedOnce NewerFirst
PROPERTIES PassComplete
