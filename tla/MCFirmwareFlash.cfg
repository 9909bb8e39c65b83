SPECIFICATION Spec
CONSTANTS
    ui = ui
    web = web
    j1 = j1
    j2 = j2
    j3 = j3
    Nothing = Nothing
    Garbage = Garbage
    Tasks <- MCTasks
    Jobs <- MCJobs
    UI = ui
    Chunks = 2
    SlotSize = 3
    Crashes = TRUE
CHECK_DEADLOCK FALSE
INVARIANTS
    StreamHasOwner
    UnsignedNotKept
    NameTellsTheSlot
PROPERTIES
    SuccessIsOwnImage
