CONSTANTS
    Initials = {"ACE", "BOB"}
    INITIALS_ATTEMPTS = 3
    MaxRuns = 2
    MaxFaults = 2
SPECIFICATION Spec
INVARIANTS RunsAccounted ClaimedByItsPlayer OwnFifo
PROPERTIES StartsClean LoopsForever
