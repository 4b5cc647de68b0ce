SPECIFICATION Spec
CONSTANTS
    Tasks = {t1, t2}
    NoTask = NoTask
    MaxEpoch = 3
    MaxRuntimeGeneration = 3
    MaxSession = 1
PROPERTY DisconnectIsTokenGuarded
CHECK_DEADLOCK FALSE
