SPECIFICATION FairSpec
CONSTANT MaxPatches = 3
INVARIANTS
    TypeOK
    NoLostWakeup
    WaitersExact
    PersistInv
PROPERTIES
    Contract
    EveryPatchAnswered
    ShutdownReturns
CHECK_DEADLOCK FALSE
