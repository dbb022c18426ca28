SPECIFICATION Spec
CONSTANTS
    Lines <- TheLines
    Reads <- Texts
    Numerals <- TheNumerals
    Paths <- ThePaths
    RespFiles <- TheRespFiles
    Descriptors <- TheDescriptors
    Registered <- TheRegistered
    Inferred <- TheInferred
    DWORDs = 16
    Keywords = 16
    Windows <- TheWindows
    GoodTexts <- TheGoodTexts
    Extra = 2
INVARIANTS
    ProfilesFollowUsage
    UsageIsAccepted
    ProfileIsPossible
    OptionsTakeEffect
PROPERTIES
    FilesAreUnpacked
