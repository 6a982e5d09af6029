CONSTANTS
    v1 = v1  v2 = v2
    c1 = c1  c2 = c2  c3 = c3
    n1 = n1  n2 = n2
    NoVM = NoVM  NoCaller = NoCaller  NoName = NoName
    VMs <- TwoVMs
    Callers <- ThreeCallers
    Names <- TwoNames
    Requests <- CreateStartStop
    IPRangeStart = 2
    IPRangeEnd = 3
    DbFails <- NoStatement
    Clients = "patient"
SPECIFICATION ApiSpec
SYMMETRY ApiSymmetry
INVARIANT SubdomainsReachOwnVm
