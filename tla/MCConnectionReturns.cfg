SPECIFICATION FairSpec
CONSTANTS
    Tasks = {t1, t2}
    NoTask = NoTask
    MaxEpoch = 2
    MaxRuntimeGeneration = 2
    MaxSession = 1
PROPERTY CommandsReturn
CHECK_DEADLOCK FALSE
