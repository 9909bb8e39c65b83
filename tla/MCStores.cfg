SPECIFICATION MCSpec
CONSTANTS
    t1 = t1
    t2 = t2
    k1 = k1
    k2 = k2
    short = short
    long = long
    dflt = dflt
    other = other
    typed = typed
    mhz = mhz
    NoClock = NoClock
    crontab = crontab
    plain = plain
    NoPassword = NoPassword
    Coded = Coded
    Blank = Blank
    Unknown = Unknown
    None = None
    Nobody = Nobody
    Missing = Missing
    NoFile = NoFile
    Callers <- MCTasks
    Keys <- MCKeys
    Values <- MCValues
    Fitting <- MCFitting
    Tasks <- MCTasks
    Settings <- MCSettings
    Passwords <- MCPasswords
    Clocks <- MCClocks
    Paths <- MCPaths
    ui = t1
    Default = dflt
    Crontab = crontab
    MaxFaults = 2
    MaxPoints = 2
    MaxFailures = 1
    MaxUploads = 2
INVARIANTS
    NeverPartial
    NothingVanishes
    TableFollows
PROPERTIES
    LockComesFree
    IsKeyValueStore
    StartBringsBack
