CONSTANTS
    None = None
    p1 = p1
    p2 = p2
    t1 = t1
    t2 = t2
    s1 = s1
    s2 = s2
    a1 = a1
    a2 = a2
    a3 = a3
    o1 = o1
    w1 = w1
    Projects = {p1, p2}
    Tasks = {t1, t2}
    Actions = {a1, a2}
    ByHand = {}
    ByTick = {a1, a2}
    Statuses = {"pending", "failed"}
    Schedules = {s1, s2}
    Operators = {o1}
    Commands = {"create project", "create task", "create schedule", "delete project", "delete schedule"}
    Workers = {w1}
    MaxTime = 1
    MaxFaults = 1
    Crons <- Once
SPECIFICATION Spec
INVARIANTS OncePerInstant
PROPERTY DueEventuallyRuns
CHECK_DEADLOCK FALSE
