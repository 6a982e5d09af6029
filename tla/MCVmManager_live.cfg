CONSTANTS
    v1 = v1  v2 = v2
    c1 = c1  c2 = c2
    NoVM = NoVM  NoCaller = NoCaller
    VMs <- OneVM
    Callers <- TwoCallers
    IPRangeStart = 2
    IPRangeEnd = 2
SPECIFICATION FairSpec
PROPERTIES
    CallsReturn
    DiskBusyCleared
