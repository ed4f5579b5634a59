CONSTANTS
    Initials = {"ACE", "BOB"}
    INITIALS_ATTEMPTS = 3
    MaxRuns = 2
    MaxFaults = 2
SPECIFICATION BrokenAttractSpec
PROPERTIES ScoreReleased
