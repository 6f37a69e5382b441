SPECIFICATION Spec
CONSTANTS
    Srcs = {s1}
    NPorts = 2
    NPkts = 2
    MaxRts = 0
    MaxRoom = 2
    MaxControl = 2
    MaxList = 3
    RatioData = 1
    RatioControl = 2
INVARIANTS
    RetransmitsSomething
