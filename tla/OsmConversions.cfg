\* Two passes and one pass over the same document.
SPECIFICATION BothSpec
CONSTANTS
    Files <- MCFiles
    NodeIDs <- MCNodeIDs
    Mode = "indexed"
INVARIANTS
    NodesHeldAreThoseInUse
    IndexedIsStreaming
    OnlyTheIndexIsStricter
