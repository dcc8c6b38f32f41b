CONSTANTS
    MaxValue = 5
    LoLevel = 1
    HiLevel = 4
    BootLevel = 3
    LoRate = 1
    HiRate = 3
    BootRate = 2
SPECIFICATION Spec
INVARIANTS
    TypeOK
    LevelClamped
PROPERTY LimitsCrossTogether
