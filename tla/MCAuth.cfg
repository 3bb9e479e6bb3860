\* shakti a | shakti b, one of them the original program: every signal the
\* keyboard raises, both backends.
CONSTANTS
    Proc <- Two
    OnTty <- One
    MaxAttempts = 2
    Signal <- FromKeyboard
    PamMayFail = TRUE
    Mixes <- EitherOne
SPECIFICATION FairMixedAuthSpec
INVARIANTS
    AuthIInv
    BackendDiscipline
    PasswordScrubbed
    EchoOffWhileReading
    TerminalLeftUsable
PROPERTIES
    WindowUninterrupted
    AuthEnds
CHECK_DEADLOCK FALSE
