SPECIFICATION Spec
CONSTANTS
    w1 = w1
    w2 = w2
    k1 = k1
    NoWorker = NoWorker
    NoKey = NoKey
    Workers = {w1, w2}
    Keys = {k1}
    MaxLive = 2
    EnqueuedKinds = {"text", "replace"}
    MaxItems = 2
    MaxText = 3
    PlainTexts = {1}
    MaxAttempts = 2
    PullLimit = 2
    KeepDelivered = 1
    KeepDead = 1
SYMMETRY Symmetry
CONSTRAINT InBounds
CHECK_DEADLOCK FALSE
INVARIANTS TypeOK DeliveredWasShown NewestSnapshotKept
PROPERTIES NoWaitingItemDropped HolderDecides KeepsPromise
