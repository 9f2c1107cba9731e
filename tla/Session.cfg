SPECIFICATION SessionSpec
\* The process ends at its exit, or by a crash.
CHECK_DEADLOCK FALSE
CONSTANTS
    Last = 2
    Patched <- MCPatched
    Inits <- MCInits
    Finis <- MCFinis
    Devices = {d1, d2}
    NoDevice = NoDevice
    GlStates <- MCGlStates
    Main = Main
    Guests = {g1, g2}
    Owner = g1
    Clients = {c1, c2}
    Null = Null
    FmodBytes = 2
    BufferBytes = 1
    MaxPrimed = 1
INVARIANTS GuestCodeLinked ReleasedAtExit FinalizersMirror AllReleased CallsItsClient CrashOnlyOverlapped QueueBounded
PROPERTIES GuestGlKept
