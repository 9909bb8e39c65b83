SPECIFICATION ConfigSpec
CONSTANTS
    user = user
    script = script
    dflt = dflt
    other = other
    typed = typed
    mhz = mhz
    NoClock = NoClock
    NoPassword = NoPassword
    Coded = Coded
    NoFile = NoFile
    Blank = Blank
    Unknown = Unknown
    Tasks <- MCTasks
    ui = user
    Settings <- MCSettings
    Default = dflt
    Passwords <- MCPasswords
    Clocks <- MCClocks
    MaxPoints = 2
    MaxFailures = 1
PROPERTY
    ClockIsKept
