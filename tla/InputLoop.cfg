SPECIFICATION Spec
\* The loop stops at its exit.
CHECK_DEADLOCK FALSE
CONSTANTS
    Order <- MCOrder
    Deflection <- MCDeflection
    Delays = {1, 2}
    IdleLimit = 2
    TickMod = 4
INVARIANTS TouchStreamSound PointerHeldByInput NoStuckKeyUnlessCaught
PROPERTIES IdleCursorHides
