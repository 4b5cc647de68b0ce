SPECIFICATION Spec
CONSTANTS
    Operations = {o1, o2}
    Requests = {r1, r2, r3}
    Calls = {c1, c2}
    NoOperation = NoOperation
    NoRequest = NoRequest
    NoCall = NoCall
    MaxLeases = 2
    MaxReloads = 1
    MaxLosses = 0
SYMMETRY Symmetry
INVARIANTS
    TypeOK
    PendingIsAwaited
    ToldTheTruth
    WaitingCallIsHeld
    NoPromptAfterFailure
