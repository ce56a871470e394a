SPECIFICATION FairSpec
CONSTANTS
    ROOT_UPDATE_TRIES = 1
    BOOT_CONFIRM_MAX_ATTEMPTS = 1
    MaxVersion = 1
    Images <- AllImages
    Faults <- NoFaults
    MaxFaults = 0
PROPERTIES
    ConfirmsWithUplink
