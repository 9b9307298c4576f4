SPECIFICATION Spec
CONSTANTS
    a1 = a1
    a2 = a2
    Actions = {a1, a2}
    Workers = {w1, w2}
    Operators = {o1}
    Commands <- FailDispatch
    Mode <- AllInteractive
    MaxInteractive = 1
    MaxNonInteractive = 1
    MaxAttempts = 2
    Sessions = {s1, s2}
    Endings = {}
    NoSession = NoSession
    NoAction = NoAction
    MaxFaults = 1
SYMMETRY FullSymmetry
INVARIANTS
    SlotCap
    LaunchedOnce
