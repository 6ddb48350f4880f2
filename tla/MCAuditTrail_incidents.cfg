\* A rule breaks and recovers in processes that end, or whose watch loop is held up:
\* records dated in the past lie among those of other runs.
SPECIFICATION TrailSpec
CONSTANTS
    NoHeartbeat = "no-heartbeat"
    Subject = {"job"}
    Condition = {"no-heartbeat"}
    MaxOutbox = 1
    ConfirmAfter = 1
    BaseRetry = 1
    MaxRetry = 1
    Interval = 2
    Grain = 2
    MaxTime = 4
    LastUpset = 4
    MaxSetBack = 0
    MaxRestarts = 1
    MaxStall = 1
INVARIANTS VouchedIsClaimed DownWasReported DownCountsOnce
