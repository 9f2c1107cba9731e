SPECIFICATION Spec
CONSTANTS
    libs = libs
    obb = obb
    libs2 = libs2
    obb2 = obb2
    NRoots = 2
    Plans <- Distinct
    DamageSets <- EachRoot
    Absent = Absent
    Damaged = Damaged
    Partial = Partial
    None = None
    RaisesLate = FALSE
    MaxFaults = 2
INVARIANTS OriginalKept
