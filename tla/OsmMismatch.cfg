\* What a test says of the two conversions.
SPECIFICATION BothSpec
CONSTANTS
    Files <- MCFiles
    NodeIDs <- MCNodeIDs
    Mode = "indexed"
INVARIANTS
    ConversionsMatch
