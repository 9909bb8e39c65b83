SPECIFICATION HotspotSpec
CONSTANTS
    c1 = c1
    c2 = c2
    k1 = k1
    k2 = k2
    Nothing = Nothing
    Clients <- MCClients
    Keys <- MCKeys
    MaxWrong = 7
    MaxTime = 62
INVARIANT
    StoppedMeansStopped
