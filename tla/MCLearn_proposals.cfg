SPECIFICATION Spec
CONSTANTS
    Jobs = {"job[0]", "job[1]"}
    Checks = {"check[0]", "check[1]"}
    Ratios = {"ratio[0]", "ratio[1]"}
    Usable <- MCUsable
    Addresses <- MCAddresses
    Urls <- MCUrls
    Patterns <- MCPatterns
    Blanks <- MCBlanks
    MinIntervals = 3
    Anomaly = 3
    ShareNum = 1
    ShareDen = 2
    Scenarios <- MCScenarios
    Overlap = 4
    InFlight = 2
    MaxBeats = 5
INVARIANTS ProposalsLoad NoneIsTighter EnvironmentWins KeysAreAnswered KeysAreDistinct
CHECK_DEADLOCK FALSE
