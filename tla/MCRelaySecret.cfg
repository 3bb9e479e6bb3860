\* One key, typed at a terminal.
CONSTANTS
    Stdins = {"tty"}
    LogInput = TRUE
    InCap = 2
    OutCap = 2
    MaxKeys = 1
    MaxOut = 1
    MaxSize = 0
SPECIFICATION RlSpec
INVARIANTS SecretsRedacted
CHECK_DEADLOCK FALSE
