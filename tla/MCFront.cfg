\* Every command line of up to four arguments, every list of at most two
\* rules, four questions, every environment of at most three entries.
CONSTANTS
    None = "none"
    Anyone = "*"
    Names <- Accounts
    Groups <- Teams
    NoDir = "nodir"
    Texts <- AllTexts
    Policies <- AnyTwo
    Questions <- Asked
    OversizedGroups <- Oversized
    MaxGroups = 1
    Defaults <- AnyDefaults
    Plain <- PlainDirs
    Caller = "alice"
    Words <- Said
    Spelling <- Spellings
    Lines <- FourArguments
    DefaultPolicy = "shakti.toml"
    Limits <- TwoLimits
    Disks <- Installed
    PATH <- SearchPath2
    Prefixed <- Prefixes
    Environs <- ThreeEntries
    Keeps <- KeepAnything
    NoName = "="
SPECIFICATION FrontSpec
INVARIANTS
    ScanIsFirstMatch
    LostGroupsOnlyDeny
    LintIsRight
    PortAgrees
    PortNeverWider
    CheckAgrees
    CommandLineAgrees
    EnvironmentAgrees
CHECK_DEADLOCK FALSE
