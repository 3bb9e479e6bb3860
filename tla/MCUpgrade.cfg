\* One process of either program, every request, whatever stands at the
\* directory's path.
CONSTANTS
    Proc <- One
    User <- Alice
    Tty <- Pts
    Device <- NoDevices
    Elsewhere <- Pipe
    NoTty = ""
    TTL = 1
    MaxNow = 2
    DirAtBoot <- AnyDirButUnsafe
    ClockStepsBack = FALSE
    Requests <- AnyRequest
    NssGroups = TRUE
    SigchldIgnored = FALSE
SPECIFICATION FairUpSpec
INVARIANTS
    MixedCheckFresh
    OwnTerminal
    EvaluationBacked
PROPERTIES
    UpAttemptRecorded
    UpEscalationKept
    UpInvocationDecided
CHECK_DEADLOCK FALSE
