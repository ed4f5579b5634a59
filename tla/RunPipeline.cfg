CONSTANTS
    Rotation <- MCRotation
    Session = "own"
    StaleSession = "stale"
    Monsters = 1
    Items = 0
    MaxTics = 2
    MaxRestarts = 1
    PROGRESS_INTERVAL_TICS = 1
    QUIT_HOLD_TICS = 1
    POINTS_PER_KILL = 1
    POINTS_PER_ITEM = 1
    COMPLETION_BONUS = 5
    TIME_BONUS_PAR_SECONDS = 1
    TIME_BONUS_PER_SECOND = 2
    DEPTH_BONUS_PER_MAP = 3
    TICS_PER_SECOND = 1
    MaxInt = 1000
    MAX_MAPS = 3
    MaxLost = 1
    MaxAfterEnd = 1
    MayAbandon = FALSE
SPECIFICATION PipelineSpec
INVARIANTS NeverOverscored ExactWhenIntact HudAgrees Submittable
CHECK_DEADLOCK FALSE
