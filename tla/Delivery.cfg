CONSTANTS
    Sessions = {good, bad}
    Valid = {good}
    MaxCrashes = 1
    MaxDbErrors = 1
    MaxUpsets = 1
    MaxOrphans = 1
SPECIFICATION Spec
INVARIANT QuarantineJustified
PROPERTIES BankSpec Delivered
