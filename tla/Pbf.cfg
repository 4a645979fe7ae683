\* Every file with either cache, LevelDB with a small batch.
SPECIFICATION FairSpec
CONSTANTS
    Files <- SortedAndMixedFiles
    Disks = {"memory", "leveldb"}
    BatchSize = 3
    Strict = TRUE
INVARIANTS
    MasksClosed
    MasksNeeded
    OutputIsExpected
    CacheComplete
    CompleteFilesConvert
PROPERTY
    Terminates
