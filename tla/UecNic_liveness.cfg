SPECIFICATION FairSpec
CONSTANTS
    Srcs = {s1, s2}
    NPorts = 1
    NPkts = 1
    MaxRts = 0
    MaxRoom = 1
    MaxControl = 2
    MaxList = 2
    RatioData = 1
    RatioControl = 2
PROPERTIES
    EverySenderServed
    ControlServed
