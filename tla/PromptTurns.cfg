SPECIFICATION FairSpec
CONSTANTS
    p1 = p1
    NoProject = NoProject
    t1 = t1
    t2 = t2
    a1 = a1
    s1 = s1
    Projects = {p1}
    Texts = {t1, t2}
    Attachments = {a1}
    Systems = {s1}
    MaxItems = 5
    MaxRestarts = 1
    KeepTerminal = 1
CHECK_DEADLOCK FALSE
INVARIANTS TypeOK FilesFollowTurns NothingLost TextsStayApart
PROPERTIES EveryTurnEnds KeepsLanes
