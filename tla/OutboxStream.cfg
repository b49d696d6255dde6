SPECIFICATION Spec
CONSTANTS
    w1 = w1
    w2 = w2
    k1 = k1
    NoWorker = NoWorker
    NoKey = NoKey
    Workers = {w1, w2}
    Keys = {k1}
    MaxLive = 1
    EnqueuedKinds = {"replace"}
    MaxItems = 2
    MaxText = 2
    PlainTexts = {1}
    MaxAttempts = 2
    PullLimit = 2
    KeepDelivered = 2
    KeepDead = 1
CHECK_DEADLOCK FALSE
INVARIANTS SettledStreamShowsNewest
