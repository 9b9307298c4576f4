SPECIFICATION Spec
CONSTANTS
    a1 = a1
    a2 = a2
    Actions = {a1}
    Workers = {w1}
    Operators = {o1, o2}
    Commands <- CancelReset
    Mode <- AllInteractive
    MaxInteractive = 1
    MaxNonInteractive = 1
    MaxAttempts = 1
    Sessions = {s1}
    Endings = {"done", "failed", "gone"}
    NoSession = NoSession
    NoAction = NoAction
    MaxFaults = 0
PROPERTY
    ResetNeverUndoesARun
