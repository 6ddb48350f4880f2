\* One job with a rule its missing heartbeat suppresses, an outbox that can
\* overflow, and a wall clock that is set back.
SPECIFICATION Spec
CONSTANTS
    NoHeartbeat = "no-heartbeat"
    Subject = {"job"}
    Condition = {"no-heartbeat", "ratio"}
    MaxOutbox = 2
    ConfirmAfter = 2
    BaseRetry = 1
    MaxRetry = 1
    MaxTime = 5
    LastUpset = 5
    MaxSetBack = 1
    MaxRestarts = 0
INVARIANTS WindowsHonest StoryCoherent TrailAgrees
PROPERTIES HeldBeforeOpened GoneBeforeCleared KeepsPromise
