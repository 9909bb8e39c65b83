SPECIFICATION MCSpec
CONSTANTS
    ann = ann
    bob = bob
    right = right
    other = other
    ip1 = ip1
    ip2 = ip2
    c1 = c1
    c2 = c2
    k1 = k1
    k2 = k2
    None = None
    Nothing = Nothing
    Users <- MCUsers
    Owners <- MCOwners
    Passwords <- MCPasswords
    Addrs <- MCAddrs
    Clients <- MCClients
    Keys <- MCKeys
    MaxFails = 2
    GlobalLimit = 3
    MaxWrong = 7
    MaxTime = 62
INVARIANTS
    LoggedInAsNamed
    TriesAreLimited
    PortsAccounted
    GuessesAreSlow
    SessionOfKey
PROPERTIES
    StopEnds
    FollowsAddress
    HotspotStops
