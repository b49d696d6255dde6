SPECIFICATION FairSpec
CONSTANTS
    w1 = w1
    w2 = w2
    k1 = k1
    NoWorker = NoWorker
    NoKey = NoKey
    Workers = {w1, w2}
    Keys = {k1}
    MaxLive = 1
    EnqueuedKinds = {"media", "replace", "start", "stop"}
    MaxItems = 2
    MaxText = 1
    PlainTexts = {1}
    MaxAttempts = 2
    PullLimit = 1
    KeepDelivered = 1
    KeepDead = 1
CHECK_DEADLOCK FALSE
INVARIANTS OneAckPerWorker
PROPERTIES EveryItemSettles
