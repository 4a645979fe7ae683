\* Every tool on what the reader has to tell apart.
SPECIFICATION ToolSpec
CONSTANTS
    BufferSize = 2
    World = 4
    Inputs <- Inputs_
INVARIANTS
    
    VisitedInOrder
    RetainedLongitudes
    TemporaryFileGone
    
    ReportIsExact
