SPECIFICATION QueueSpec
CONSTANTS
    t1 = t1
    t2 = t2
    t3 = t3
    s1 = s1
    p1 = p1
    i1 = i1
    r = r
    c1 = c1
    NoRoot = NoRoot
    NoDoc = NoDoc
    Torn = Torn
    NoItem = NoItem
    Daemon = Daemon
    Task = {t1, t2}
    Spec = {}
    Probe = {}
    Incident = {}
    Learning = {}
    Age <- MCAge
    Draft <- MCDraft
    Root = {r}
    Client = {c1}
    Overlap = TRUE
CHECK_DEADLOCK FALSE
INVARIANT NothingLost
PROPERTY KeepsLedger
