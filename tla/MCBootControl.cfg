SPECIFICATION Spec
CONSTANTS
    MaxSeq = 7
INVARIANTS
    HeldMeansHome
    UpMeansSelected
    UnconfirmedRunsOnce
PROPERTIES
    SwitchIsWhole
