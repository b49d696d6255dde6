SPECIFICATION MCSpec
CONSTANTS
    MaxTasks = 2
    MaxWork = 1
    MaxReplies = 2
    MaxPrompts = 1
    MaxRestarts = 1
    c1 = c1
    c2 = c2
    g1 = g1
    Runner = Runner
    s1 = s1
    s2 = s2
    None = None
    NewChecklists <- UniformChecklists
    Criteria = {c1, c2}
    Agents = {g1}
    Sessions = {s1, s2}
    Parts = {a, b}
SYMMETRY Symmetry
CHECK_DEADLOCK FALSE
INVARIANTS SessionTypeOK ChecklistRulesStatus OwnershipIsWhole ResumeKeepsOrigin
PROPERTIES OwnerKeepsTask ContinuesDeliveredReply StopHolds ContinuesOwnWork
