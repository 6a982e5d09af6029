CONSTANTS
    v1 = v1
    c1 = c1  c2 = c2
    NoCaller = NoCaller
    VMs <- OneVM
    Callers <- TwoCallers
    Faults <- NoFault
SPECIFICATION FairSpec
INVARIANTS
    TypeOK
    OneIssuePerVM
    NoNeedlessOrder
    ServedWhole
    RecordsRemoved
PROPERTIES
    GetReturns
