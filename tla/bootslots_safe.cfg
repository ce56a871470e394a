SPECIFICATION FairSpec
CONSTANTS
    ROOT_UPDATE_TRIES = 2
    BOOT_CONFIRM_MAX_ATTEMPTS = 2
    MaxVersion = 2
    Images <- AllImages
    Faults <- FirmwareWrites
    MaxFaults = 1
INVARIANTS
    TypeOK
    
    
    RunningSlotBootable
    SwitchIsReversible
PROPERTIES
    TrialEnds
    ImplementsAB
