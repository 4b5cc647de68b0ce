SPECIFICATION FairSpec
CONSTANTS
    Operations = {o1, o2}
    Requests = {r1, r2}
    Calls = {c1}
    NoOperation = NoOperation
    NoRequest = NoRequest
    NoCall = NoCall
    MaxLeases = 2
    MaxReloads = 0
    MaxLosses = 1
INVARIANT PendingIsAnswerable
PROPERTY PromptsEnd
