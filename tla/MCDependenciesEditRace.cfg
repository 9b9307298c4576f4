\* Once both projects are deleted nothing is left to operate on.
CHECK_DEADLOCK FALSE
SPECIFICATION Spec
CONSTANTS
    Actions = {1, 2, 3}
    t1 = t1
    t2 = t2
    p1 = p1
    p2 = p2
    Tasks = {t1, t2}
    Projects = {p1, p2}
    Home <- MCHome
    Owner <- MCOwner
    Editors = {e1}
    NoAction = NoAction
    MaxEdges = 3
    MaxTaskEdges = 1
PROPERTY
    DepsFixedOnceStarted
