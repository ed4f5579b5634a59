CONSTANTS
    DEFAULT_IDLE = 3
    DEFAULT_STALL = 4
    Environments <- MCEnvironments
    Reports <- MCReports
    WATCHDOG = 5
    Linger <- MCLinger
    GRACE = 2
    MaxEvents = 2
    MaxBuffered = 1
SPECIFICATION Spec
INVARIANTS GuardsDisarmed KillIsBounded
PROPERTIES DecisionLingers ActiveIsSafe ShutsDown NobodyPlays
CHECK_DEADLOCK FALSE
