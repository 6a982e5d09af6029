CONSTANTS
    s1 = s1  s2 = s2
    f1 = f1  f2 = f2
    NoClient = NoClient
    Sessions <- OneSession
    Requests <- AnyThing
    Forwards <- OneForward
    MaxChannels = 2
CHECK_DEADLOCK FALSE
SPECIFICATION SshFairSpec
PROPERTY EofReachesTarget
