CONSTANTS
    Maps = {MAP01, MAP02, MAP03}
    Sessions = {own, stale}
    Session = own
    Observations <- MCObservations
SPECIFICATION Spec
INVARIANTS TypeOK OpenEntry CompletedOnce RepeatOnlyAtDeath
PROPERTIES ClosedStands LedgerSpec
