CONSTANTS
    None = None
    a1 = a1
    a2 = a2
    t1 = t1
    t2 = t2
    c1 = c1
    c2 = c2
    Versions <- JustCounted
    Actions = {a1, a2}
    Tasks = {t1, t2}
    Old = {a1}
    Procs = {c1}
    MaxEvents = 2
SPECIFICATION Spec
INVARIANT CountsInSync
CHECK_DEADLOCK FALSE
