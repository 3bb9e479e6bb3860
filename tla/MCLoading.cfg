\* Both programs, two fragments, one change during the load or two.
CONSTANTS
    Fragments = 2
    Text <- Texts
    MainFiles <- AnyMain
    FragmentFiles <- AnyFragment
    MaxChanges = 2
SPECIFICATION LoadSpec
INVARIANTS
    LoadIsSnapshot
    PortLoadsAsOriginal
    UntouchedReadRight
CHECK_DEADLOCK FALSE
