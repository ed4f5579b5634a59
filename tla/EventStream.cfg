CONSTANTS
    MAX_EVENT_LINE_BYTES = 2
    BufSize = 2
    MaxBytes = 6
SPECIFICATION Spec
INVARIANTS TypeOK LinesWhole EventsExact
PROPERTY Drained
CHECK_DEADLOCK FALSE
