CONSTANTS
    v1 = v1  v2 = v2
    m = m  c1 = c1  c2 = c2
    n1 = n1
    NoVM = NoVM  NoCaller = NoCaller  NoName = NoName
    Main = m
    VMs <- OneVM
    Callers <- TwoClients
    Names <- OneName
    Requests <- Kinds
    IPRangeStart = 2
    IPRangeEnd = 2
    DbFails <- ShutdownSucceeds
    QuietShutdown = TRUE
    OrphansFound = TRUE
    Clients = "patient"
    MaxStarts = 2
CHECK_DEADLOCK FALSE
SPECIFICATION LifeSpec
SYMMETRY LifeSymmetry
INVARIANTS
    OneProcessPerDisk
    CleanShutdown
