SPECIFICATION Spec
CONSTANTS
    Tasks = {t1, t2}
    NoTask = NoTask
    MaxEpoch = 2
    MaxRuntimeGeneration = 3
    MaxSession = 2
SYMMETRY TaskSymmetry
INVARIANTS
    TypeOK
    
    ConnectedIsReal
    
    OneTransport
    OrphanTransportIsActionable
    AuthorityIsCommitted
    NoDepartedManagerAuthority
    DepartedBindingIsTombstoned
PROPERTY PromiseKept
CHECK_DEADLOCK FALSE
