SPECIFICATION FairSpec
CONSTANTS
    NData = 3
    MaxRts = 1
    Mtu = 2
    Hdr = 1
    MaxLoss = 2
    MaxTrim = 1
    CwndChoices <- MCCwndChoices
    InitCwnd = 4
    MaxEarly = 1
    SackWindow = 2
    AckThreshold = 4
PROPERTIES
    EventuallyComplete
