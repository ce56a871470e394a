SPECIFICATION FairSpec
CONSTANTS
    MaxInc = 2
    MaxVersion = 2
    MaxMoves = 1
    MaxRolling = 1
    UnstableExits = 2
    Policies <- OnlyAlways
    Handovers = FALSE
INVARIANTS
    VersionConverges
PROPERTIES
    StopCompletes
    RollSettles
