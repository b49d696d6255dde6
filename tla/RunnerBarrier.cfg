SPECIFICATION Spec
CONSTANTS
    MaxTasks = 1
    g1 = g1
    Runner = Runner
    u1 = u1
    r1 = r1
    None = None
    Criteria = {}
    NewChecklists <- OpenChecklists
    Agents = {g1}
    Sessions = {u1, r1}
    Asked = {"queued", "done", "blocked"}
    ToolSessions = {u1}
    Loops = {1, 2}
    MaxTurns = 1
    Chunks = {1}
    MaxFailures = 0
    MaxRestarts = 0
CHECK_DEADLOCK FALSE
PROPERTIES DeliveryAdvancesBarrier
