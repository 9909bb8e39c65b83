SPECIFICATION Spec
CONSTANTS
    j1 = j1
    j2 = j2
    u1 = u1
    u2 = u2
    c1 = c1
    c2 = c2
    Nobody = Nobody
    Jobs <- MCJobs
    Crontabs <- MCCrontabs
    DueSets <- MCDueSets
    Users <- MCUsers
    Loops <- MCLoops
    None = None
    Lines <- MCLines
    Times <- MCTimes
    MaxMinute = 2
SYMMETRY MCSymmetry
PROPERTIES
    TableFresh
