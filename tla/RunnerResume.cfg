SPECIFICATION FairSpec
CONSTANTS
    MaxTasks = 1
    g1 = g1
    Runner = Runner
    r1 = r1
    None = None
    c1 = c1
    Criteria = {c1}
    NewChecklists <- OpenChecklists
    Agents = {g1}
    Sessions = {r1}
    Asked = {"queued","done","blocked"}
    ToolSessions = {}
    Loops = {1, 2}
    MaxTurns = 1
    Chunks = {1}
    MaxFailures = 1
    MaxRestarts = 1
CHECK_DEADLOCK FALSE
PROPERTIES WorkGoesOn
