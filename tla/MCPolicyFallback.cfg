\* Any rules; the directory service is unavailable.
CONSTANTS
    None = "none"
    Anyone = "*"
    Names <- People
    Groups <- Teams
    NoDir = "nodir"
    Texts <- AllTexts
    Policies <- FewTwo
    Questions <- Asked
    OversizedGroups <- Oversized
    MaxGroups = 1
    Defaults <- AnyDefaults
    Plain <- PlainDirs
SPECIFICATION PolSpec
INVARIANTS
    FallbackOnlyDenies
CHECK_DEADLOCK FALSE
