\* Two processes of either program that compete for a ticket.
CONSTANTS
    p1 = p1
    p2 = p2
    Proc = {p1, p2}
    User <- Alice
    Tty <- NoTtys
    Device <- Null
    Elsewhere <- Pipe
    NoTty = ""
    TTL = 1
    MaxNow = 2
    DirAtBoot <- MissingOrSafe
    ClockStepsBack = TRUE
    Requests <- Competing
    NssGroups = FALSE
    SigchldIgnored = FALSE
SYMMETRY Interchangeable
SPECIFICATION TwoSpec
INVARIANTS
    UpIInv
    TicketDirSafe
    MixedCheckSound
    OldCheckFresh
    UpExecJustified
PROPERTIES
    SymlinkUntouched
CHECK_DEADLOCK FALSE
