\* Fair scheduling; the world and the notifier settle at LastUpset.
SPECIFICATION FairSpec
CONSTANTS
    NoHeartbeat = "no-heartbeat"
    Subject = {"job"}
    Condition = {"no-heartbeat", "ratio"}
    MaxOutbox = 3
    ConfirmAfter = 1
    BaseRetry = 1
    MaxRetry = 2
    MaxTime = 5
    LastUpset = 2
    MaxSetBack = 0
    MaxRestarts = 1
PROPERTIES PersistentIsTold ToldIsCleared
