\* wikipedia2doc2vec: records a line, stopped by -limit.  One page handler, and
\* a window that lets tasks, results, errorPages and resultSlots all be full.
SPECIFICATION FairSpec
CONSTANTS
    Workers = {w1}
    ErrorQueue = 1
    Window = 5
    Limit = 5
    Strict = FALSE
    Kinds = {"found", "broken"}
    MaxPages = 6
PROPERTIES
    ImplementsSequential
    Terminates
    BrokenPagesReachFile
