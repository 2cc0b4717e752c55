CONSTANTS
    Files <- MCFiles
    Patches <- MCPatches
    MaxTriples = 2
    MaxBlock = 2
SPECIFICATION ApplySpec
CHECK_DEADLOCK FALSE
INVARIANTS NothingUninitialised CorruptLeavesTarget
