SPECIFICATION FairSpec
CONSTANTS
    ui = ui
    web = web
    ota = ota
    NoTask = NoTask
    Clients <- MCClients
    Checker = ota
    Wait <- MCWait
    BootDelay = 1
    Interval = 4
INVARIANTS
    GuardMatchesHolder
PROPERTIES
    MutexComesFree
