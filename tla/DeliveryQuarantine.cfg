CONSTANTS
    Sessions = {good, bad}
    Valid = {good}
    MaxCrashes = 1
    MaxDbErrors = 1
    MaxUpsets = 1
    MaxOrphans = 1
SPECIFICATION Spec
INVARIANTS QuarantineIsFinal
