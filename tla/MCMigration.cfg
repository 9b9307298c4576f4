CONSTANTS
    None = None
    a1 = a1
    a2 = a2
    t1 = t1
    t2 = t2
    c1 = c1
    c2 = c2
    Versions <- AllVersions
    Actions = {a1, a2}
    Tasks = {t1, t2}
    Old = {a1}
    Procs = {c1, c2}
    MaxEvents = 2
SPECIFICATION OneHome
INVARIANTS TypeOK InstructionKept UrlKept SearchComplete
PROPERTY Converges
CHECK_DEADLOCK FALSE
