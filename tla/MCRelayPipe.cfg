\* Stdin is a pipe.
CONSTANTS
    Stdins = {"pipe"}
    LogInput = FALSE
    InCap = 2
    OutCap = 2
    MaxKeys = 1
    MaxOut = 1
    MaxSize = 0
SPECIFICATION FairRlSpec
PROPERTIES StdinRetired
CHECK_DEADLOCK FALSE
