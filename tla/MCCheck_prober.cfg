\* Probes that take one or two units, answer in three ways or fail, and are late.
SPECIFICATION Spec
CONSTANTS
    Interval = 3
    Timeout = 2
    DownAfter = 9
    BaselineWindow = 9
    RecentIntervals = 1
    MinSamples = 1
    Ceiling = 4
    WarnMultiple = 2
    CriticalMultiple = 4
    RankNum = 1
    RankDen = 2
    Latency = {1, 2, 4}
    MaxTime = 17
    MaxStall = 1
INVARIANTS DownIsReal PruningIsUnseen SilenceIsDown AnsweringIsJudged
PROPERTIES DownIsLeftByAnswer
