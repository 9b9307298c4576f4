CONSTANTS
    None = None
    p1 = p1
    p2 = p2
    t1 = t1
    t2 = t2
    s1 = s1
    s2 = s2
    a1 = a1
    a2 = a2
    a3 = a3
    o1 = o1
    w1 = w1
    Projects = {p1}
    Tasks = {t1, t2}
    Actions = {a1, a2}
    ByHand = {a2}
    ByTick = {a1, a2}
    Statuses = {"pending", "running", "failed"}
    Schedules = {s1}
    Operators = {o1}
    Commands = {"create project", "delete project", "create task", "update task", "close", "create action", "reassign", "resume", "create schedule", "enable", "disable", "edit", "move"}
    Workers = {w1}
    MaxTime = 2
    MaxFaults = 0
    Crons <- BothInstants
SPECIFICATION Spec
INVARIANTS TypeOK CountsExact NoOverlap
SYMMETRY TaskSymmetry
CHECK_DEADLOCK FALSE
