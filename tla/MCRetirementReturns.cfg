SPECIFICATION FairSpec
CONSTANTS
    Tasks = {t1, t2, t3}
    NoTask = NoTask
    MaxIncarnations = 1
    MaxCoordinators = 3
PROPERTY MutatorsReturn
CHECK_DEADLOCK FALSE
