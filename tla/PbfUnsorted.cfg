\* LevelDB on files that are not sorted by type.
SPECIFICATION Spec
CONSTANTS
    Files <- UnsortedFiles
    Disks = {"leveldb"}
    BatchSize = 3
    Strict = FALSE
PROPERTY
    NodesFlushedBeforeWays
