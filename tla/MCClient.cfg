SPECIFICATION Spec
CONSTANTS
    Parked = Parked
    \* TokenBridge
    Exchanges = {e1, e2}
    Transports = {h1, h2}
    NoExchange = None
    Leases = {l1, l2}
    NoLease = None
    MaxBridgeGeneration = 2
    MaxTransportAttempts = 3
    \* KeychainAccess
    Callers = {t1, t2}
    Secrets = {s1}
    NoCaller = None
    NoSecret = None
    \* ConnectionTargets
    Computers = {x1, x2}
    Manual = {m1}
    Robots = {r1}
    Offices = {o1, o2}
    Connects = {t1, t2}
    NoConnect = None
    Nothing = None
    MaxTargetSaves = 1
    MaxSessions = 2
    \* ManagerSession
    Environments = {v1, v2}
    NoEnvironment = None
    Requests = {q1}
    MaxGeneration = 3
    MaxCredential = 3
    \* ChatSession
    MaxSelections = 2
    MaxChatSessions = 2
    \* ActivityJournal
    MaxRuns = 2
    MaxOutages = 2
SYMMETRY Symmetry
INVARIANTS
    ClientTypeOK
    SessionsHold
    BridgeHolds
    KeychainHolds
    TargetsHold
CHECK_DEADLOCK FALSE
