SPECIFICATION Spec
CONSTANTS
    BufferSize = 2
    FileInputs <- FileInputs_
    Parts = 2
    Fine = 2
    LeafInputs <- LeafInputs_
INVARIANTS
    TagFilesAgree
    FilesAreTheFeatures
    ReadsExactly
    WalkMeetsEveryLeaf
