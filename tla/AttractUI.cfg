CONSTANTS
    CHARSET <- MCCharset
    INITIALS_LEN = 3
    REEL_LEN = 3
    IDLE_DWELL = 2
    ENTRY_TIMEOUT = 3
    MaxStall = 4
    MaxKeys = 2
SPECIFICATION Spec
PROPERTIES HandoffEarned HandsOff ReelCycles
CHECK_DEADLOCK FALSE
