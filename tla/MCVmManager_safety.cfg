CONSTANTS
    v1 = v1  v2 = v2
    c1 = c1  c2 = c2
    NoVM = NoVM  NoCaller = NoCaller
    VMs <- TwoVMs
    Callers <- TwoCallers
    IPRangeStart = 2
    IPRangeEnd = 3
SPECIFICATION Spec
SYMMETRY SafetySymmetry
INVARIANTS
    TypeOK
    AddressesAccounted
    LiveTracked
    LiveAddressesDistinct
    DiskExclusive
    DiskBusyOwned
    RegisteredHasDevices
    LiveHasDisk
PROPERTY PoolSpec
