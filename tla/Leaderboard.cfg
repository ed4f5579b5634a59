CONSTANTS
    h1 = h1
    h2 = h2
    Handlers <- MCHandlers
    Submissions <- MCSubmissions
    RATE_LIMIT_MAX = 2
    GLOBAL_RATE_LIMIT_MAX = 3
    RATE_KEYS_MAX = 2
    RATE_LIMIT_WINDOW = 3
    MaxDelay = 1
    MaxTime = 4
    MaxPosts = 4
SPECIFICATION Spec
INVARIANTS TypeOK RateBounded AnswersTruthful
PROPERTIES RefusedJustly FirstWriteWins
SYMMETRY MCSymmetry
CHECK_DEADLOCK FALSE
