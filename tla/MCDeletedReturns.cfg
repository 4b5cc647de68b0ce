SPECIFICATION FreshInputSpec
CONSTANTS
    Values = {v1, v2}
    NoValue = NoValue
INVARIANTS
    DeletedStaysDeleted
CHECK_DEADLOCK FALSE
