CONSTANTS
    c1 = c1  c2 = c2
    NoCaller = NoCaller
    Callers <- TwoCallers
    PerGB = 2
    Goals <- OneOrTwoGB
    Bases <- OddBases
SPECIFICATION Spec
SYMMETRY DiskSymmetry
INVARIANTS
    TypeOK
    DataInFsInFile
    RecordedTrue
PROPERTIES
    EvenResizeExact
