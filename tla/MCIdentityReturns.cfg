SPECIFICATION FairSpec
CONSTANTS
    Tasks = {t1, t2}
    NoTask = NoTask
    MaxEpoch = 1
    MaxRuntimeGeneration = 2
    MaxSession = 2
PROPERTY CommandsReturn
CHECK_DEADLOCK FALSE
