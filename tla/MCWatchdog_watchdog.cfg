\* A process, a log or an output that goes, comes back, changes its rights or is no
\* longer written, or a job that beats, with looks every two ticks and a window longer
\* than a look. The outbox has room for each of the ten conditions.
SPECIFICATION WatchdogSpec
CONSTANTS
    NoHeartbeat = "no-heartbeat"
    Subject = {"job"}
    Condition = {"no-heartbeat", "process-absent", "logged-error", "log-missing",
                 "log-stale", "output-missing", "output-too-small", "output-stale",
                 "yield", "yield-unreported"}
    MaxOutbox = 10
    ConfirmAfter = 3
    BaseRetry = 1
    MaxRetry = 1
    MaxTime = 14
    LastUpset = 14
    MaxSetBack = 0
    MaxRestarts = 0
    AbsentAfter = 3
    StaleAfter = 7
    Poll = 2
    Slack = 0
    Paces = {2, 5}
    MaxChanges = 2
    LastChange = 7
    MaxPid = 1
    AliveWarn = 3
    AliveCritical = 5
    MarginDiv = 10
    MaxBeats = 4
    Ratios <- MCRatios
    Detail <- MCDetail
INVARIANTS TroubleIsTold RecoveryIsTold
PROPERTIES TroubleIsReal ClearedIsBetter
CHECK_DEADLOCK FALSE
