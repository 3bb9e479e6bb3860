\* Ctrl-C while the password is checked.
CONSTANTS
    Proc <- One
    OnTty <- One
    MaxAttempts = 3
    Signal = {"INT"}
    PamMayFail = FALSE
    Mixes <- NoneIsOld
SPECIFICATION MixedAuthSpec
INVARIANTS RefusalAudited
CHECK_DEADLOCK FALSE
