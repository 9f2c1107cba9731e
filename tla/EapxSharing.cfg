SPECIFICATION FairSpec
CONSTANTS
    libs = libs
    obb = obb
    libs2 = libs2
    obb2 = obb2
    NRoots = 2
    Plans <- Sharing
    DamageSets <- EachRoot
    Absent = Absent
    Damaged = Damaged
    Partial = Partial
    None = None
    RaisesLate = TRUE
    MaxFaults = 3
INVARIANTS ReadyIsInstalled NothingGone
PROPERTIES RollbackGivesBack ReadyAgain
