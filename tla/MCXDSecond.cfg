SPECIFICATION Spec
CONSTANTS
    Cases <- MCCases
    ASize = 6
    FgkSize = 3
    Basic <- MCBasic
    Extra <- MCExtra
    ExtraCodeBits = 2
    ClcLenBits = 3
    GbcLenBits = 2
    GroupBits = 3
    SectorMult = 1
    SectorBits = 3
    MaxIter = 3
    MinImprovement = 3
    EfficiencyBits = 2
    Thousand = 2
    MinInput = 2
    MinSavings = 2
    SizeBytes = 1
INVARIANTS SectionsReturn CodesArePrefixFree TreesSound
CHECK_DEADLOCK FALSE
