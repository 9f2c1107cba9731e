SPECIFICATION Spec
CONSTANTS
    libs = libs
    obb = obb
    libs2 = libs2
    obb2 = obb2
    NRoots = 2
    Plans <- Distinct
    DamageSets <- BothRoots
    Absent = Absent
    Damaged = Damaged
    Partial = Partial
    None = None
    RaisesLate = TRUE
    MaxFaults = 2
INVARIANTS OriginalKept
