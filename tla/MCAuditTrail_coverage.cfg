\* Processes that crash, fail to start, or stop and say so, under a clock that is set
\* back; nothing is wrong with any job, and dates are cut to seconds of three units.
SPECIFICATION TrailSpec
CONSTANTS
    NoHeartbeat = "no-heartbeat"
    Subject = {}
    Condition = {"no-heartbeat"}
    MaxOutbox = 1
    ConfirmAfter = 1
    BaseRetry = 1
    MaxRetry = 1
    Interval = 2
    Grain = 3
    MaxTime = 7
    LastUpset = 7
    MaxSetBack = 1
    MaxRestarts = 2
    MaxStall = 0
INVARIANTS WatchedCountsOnce ClaimsAreVouched LiveIsClaimed
