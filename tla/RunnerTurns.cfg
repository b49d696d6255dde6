SPECIFICATION Spec
CONSTANTS
    MaxTasks = 2
    g1 = g1
    Runner = Runner
    r1 = r1
    r2 = r2
    None = None
    Criteria = {}
    NewChecklists <- OpenChecklists
    Agents = {g1}
    Sessions = {r1, r2}
    Asked = {"queued", "done"}
    ToolSessions = {}
    Loops = {1, 2}
    MaxTurns = 1
    Chunks = {1, 2}
    MaxFailures = 0
    MaxRestarts = 1
SYMMETRY Symmetry
CHECK_DEADLOCK FALSE
INVARIANTS RunnerInv
PROPERTIES NextTaskWaitsForReply
