SPECIFICATION Spec
CONSTANTS
    MinZoom = 1
    MaxZoom = 2
    MaxTiles = 10
    Simplify = TRUE
    Unit = 4
    Margin = 1
    Inputs <- Inputs_
INVARIANTS
    StagedIsCoverage
    LimitExact
    ArchiveIsWhole
    FieldsAgree
