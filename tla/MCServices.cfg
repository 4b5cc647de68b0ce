SPECIFICATION Spec
CONSTANTS
    Parked = Parked
    \* OAuthFlow
    Flows = {x1, x2}
    NoFlow = None
    MaxHandles = 1
    \* McpServers, Marketplace
    Plugins = {x1, x2}
    NoPlugin = None
    \* RuntimeEvents
    Tasks = {x1, x2}
    NoSnapshot = None
    MaxChanges = 2
    MaxDiagnostics = 2
    MaxSnapshots = 5
    EventCapacity = 2
    \* ClientControl
    Calls = {k1}
    MaxUpdates = 1
    MaxTroubles = 3
    \* SkillPackages
    MaxMutations = 2
    MaxFaults = 3
SYMMETRY Symmetry
INVARIANTS
    ServicesTypeOK
    RuntimeHolds
    ControlledHolds
CHECK_DEADLOCK FALSE
