CONSTANTS
    s1 = s1  s2 = s2
    f1 = f1  f2 = f2
    NoClient = NoClient
    Sessions <- TwoSessions
    Requests <- AnyAndInteractive
    Forwards <- TwoForwards
    MaxChannels = 2
CHECK_DEADLOCK FALSE
SPECIFICATION SshFairSpec
INVARIANTS
    SshTypeOK
    VmClientHeld
    OneForwardClient
    StatusTrue
PROPERTY ConnectionsReleased
