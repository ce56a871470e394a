SPECIFICATION Spec
CONSTANTS
    MaxInc = 2
    MaxVersion = 2
    MaxMoves = 1
    MaxRolling = 1
    UnstableExits = 2
    Policies <- AllFour
    Handovers = TRUE
INVARIANTS
    TypeOK
    NoOrphan
    RunningIsWanted
    NoLostRestart
    
    StopIsBounded
    WindowIsWatched
