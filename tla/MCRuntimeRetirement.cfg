SPECIFICATION Spec
CONSTANTS
    Tasks = {t1, t2, t3}
    NoTask = NoTask
    MaxIncarnations = 3
    MaxCoordinators = 3
SYMMETRY TaskSymmetry
INVARIANTS
    TypeOK
    DrainedBeforeTeardown
    
    ClosedHasMutator
    EntryIsStable
    UnlistedIsTornDown
CHECK_DEADLOCK FALSE
