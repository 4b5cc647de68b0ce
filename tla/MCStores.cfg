SPECIFICATION Spec
CONSTANTS
    Parked = Parked
    \* InputStore
    Values = {y1, y2}
    NoValue = None
    \* ComputerStorage
    Computers = {x1, x2}
    Requests = {y1, y2}
    NoRequest = None
    Absent = None
    \* ConfigStore
    MaxEditions = 3
    \* SdkConfig
    Servers = {s1}
    NoDirectory = None
    \* ConfigImport
    MaxImports = 3
    \* Settings
    Writers = {x1, x2}
    Notices = {y1, y2}
    MaxNotices = 1
    Interval = 1
    MaxClock = 1
    \* ConfigMigration
    Legacy = {x1, x2}
    MaxMigrations = 2
    \* PortablePackage
    Plugins = {x1, x2}
    MaxEdits = 2
    \* AppStart
    MaxStarts = 3
SYMMETRY Symmetry
INVARIANTS
    StoresTypeOK
    InputsHold
    
    
    
    ClientFilesHold
CHECK_DEADLOCK FALSE
