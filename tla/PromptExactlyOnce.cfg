SPECIFICATION Spec
CONSTANTS
    p1 = p1
    NoProject = NoProject
    t1 = t1
    a1 = a1
    a2 = a2
    s1 = s1
    Projects = {p1}
    Texts = {t1}
    Attachments = {a1, a2}
    Systems = {}
    MaxItems = 4
    MaxRestarts = 1
    KeepTerminal = 1
CHECK_DEADLOCK FALSE
INVARIANTS ExactlyOnce
