CONSTANTS
    base = base  tools = tools
    v1 = v1  v2 = v2
    Scratch = Scratch
    Layers <- TwoLayers
    Parent <- Line
    Versions <- TwoEdited
    Wants <- LineMBs
    Exports <- Tops
    DefaultSize = 2
SPECIFICATION Spec
INVARIANTS
    TypeOK
    UpToDateMeansCurrent
    
    RowHasImage
PROPERTIES
    BuildDelivers
