SPECIFICATION SessionSpec
CONSTANTS
    MaxTasks = 1
    MaxWork = 1
    MaxReplies = 1
    MaxPrompts = 1
    MaxRestarts = 0
    g1 = g1
    Runner = Runner
    s1 = s1
    None = None
    NewChecklists = {}
    Criteria = {}
    Agents = {g1}
    Sessions = {s1}
    Parts = {a}
CHECK_DEADLOCK FALSE
PROPERTIES FinishedTurnIsKept
