CONSTANTS
    v1 = v1  v2 = v2
    m = m  c1 = c1  c2 = c2
    n1 = n1
    NoVM = NoVM  NoCaller = NoCaller  NoName = NoName
    Main = m
    VMs <- TwoVMs
    Callers <- OneClient
    Names <- OneName
    Requests <- CreateStartStop
    IPRangeStart = 2
    IPRangeEnd = 3
    DbFails <- NoStatement
    QuietShutdown = FALSE
    OrphansFound = TRUE
    Clients = "patient"
    MaxStarts = 2
CHECK_DEADLOCK FALSE
SPECIFICATION LifeFairSpec
PROPERTY RunningVmsRestored
