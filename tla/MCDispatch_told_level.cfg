\* A condition that is critical, then a warning, within its window.
SPECIFICATION Spec
CONSTANTS
    NoHeartbeat = "no-heartbeat"
    Subject = {"job"}
    Condition = {"no-heartbeat", "ratio"}
    MaxOutbox = 3
    ConfirmAfter = 2
    BaseRetry = 1
    MaxRetry = 2
    MaxTime = 3
    LastUpset = 3
    MaxSetBack = 0
    MaxRestarts = 0
INVARIANTS SeverityIsTold
