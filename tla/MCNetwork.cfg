SPECIFICATION MCSpec
CONSTANTS
    n1 = n1
    n2 = n2
    NoNet = NoNet
    f1 = f1
    f2 = f2
    Nothing = Nothing
    Nets <- MCNets
    Freqs <- MCFreqs
    MaxEvents = 3
    MaxPosted = 4
    NBuf = 4
    BufLen = 2
    Enough = 3
INVARIANTS
    NaptIsReal
    LinkIsKnown
    TunedAsShown
PROPERTIES
    FilterLeaves
    UplinkRetried
    UplinkShared
    TrueMeansJoined
    IsSetUp
    NotOverwritten
    SoundGoesOn
