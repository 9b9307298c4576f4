SPECIFICATION Spec
CONSTANTS
    a1 = a1
    a2 = a2
    Actions = {a1, a2}
    Workers = {w1}
    Operators = {o1}
    Commands <- DoneCancelReset
    Mode <- NonInteractiveAndRemote
    MaxInteractive = 1
    MaxNonInteractive = 1
    MaxAttempts = 1
    Sessions = {s1, s2}
    Endings = {"done"}
    NoSession = NoSession
    NoAction = NoAction
    MaxFaults = 1
INVARIANTS
    TypeOK
    SuccessKept
PROPERTY Lifecycle
SYMMETRY SessionSymmetry
