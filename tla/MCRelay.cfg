\* Everybody free, stdin a terminal or a file, short queues.
CONSTANTS
    Stdins = {"tty", "file"}
    LogInput = FALSE
    InCap = 1
    OutCap = 2
    MaxKeys = 2
    MaxOut = 3
    MaxSize = 2
SPECIFICATION FairRlSpec
INVARIANTS
    TranscriptComplete
PROPERTIES
    BothWaysFlow
    
    ResizePropagated
CHECK_DEADLOCK FALSE
