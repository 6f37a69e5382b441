SPECIFICATION Spec
CONSTANTS
    Srcs = {s1, s2}
    NPorts = 2
    NPkts = 2
    MaxRts = 1
    MaxRoom = 2
    MaxControl = 2
    MaxList = 2
    RatioData = 1
    RatioControl = 2
INVARIANTS
    TypeOK
    WorkConserving
    NoLostWakeup
    PortMatchesRoute
    InStep
SYMMETRY SrcSymmetry
