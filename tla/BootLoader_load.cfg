\* The load ends.
SPECIFICATION FairSpec
CONSTANTS
    Modes = {"FULL_FLASH_SBL", "FULL_RAM_SBL", "FLASH_RAM_SBL",
             "FLASH_RAM_NO_SBL", "BURN_SBL", "UNKNOWN"}
    NumFlash = {0, 1, 2, 3}
INVARIANTS
    BootsWhole
    TimerOnce
PROPERTIES
    KeepsLoad
    LoadEnds
CHECK_DEADLOCK FALSE
