\* Beats that overtake each other under a clock that is set back.
SPECIFICATION Spec
CONSTANTS
    AliveWarn = 3
    AliveCritical = 5
    WorkedWarn = 2
    WorkedCritical = 4
    FreshWarn = 2
    FreshCritical = 4
    Ratios <- MCRatios
    MarginDiv = 4
    Rules <- MCRules
    Detail <- MCDetail
    MaxTime = 6
    MaxBeats = 3
    MaxSetBack = 1
INVARIANTS BeatsHonest LiveIsNotPaged SilenceIsMissed SumsAreExact RatioIsFair NeverMeansNever
