\* Every caller, target, capability set and LSM context; calls fail and lie.
CONSTANTS
    Root = "root"
    Callers <- AnyCaller
    Targets <- AnyTarget
    CallerGroups <- UsersGroup
    TargetGid = "nginx"
    TargetGroups <- StaffGroups
    TableCaps <- Caps
    KernelCaps <- Caps
    Inherited <- Narrowed
    Lsm <- Modules
SPECIFICATION PdSpec
INVARIANTS
    RunsAsTarget
    ExactCapabilities
    Confined
    DropWorks
    LiesNoticed
CHECK_DEADLOCK FALSE
