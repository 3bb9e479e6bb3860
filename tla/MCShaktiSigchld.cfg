\* Started by a parent that ignores SIGCHLD.
CONSTANTS
    Proc <- One
    User <- Alice
    Tty <- NoTtys
    Device <- Null
    Elsewhere <- Pipe
    NoTty = ""
    TTL = 2
    MaxNow = 3
    DirAtBoot <- MadeByTmpfiles
    ClockStepsBack = FALSE
    Requests <- Logged
    NssGroups = TRUE
    SigchldIgnored = TRUE
SPECIFICATION ShSpec
PROPERTIES ExitFaithful
CHECK_DEADLOCK FALSE
