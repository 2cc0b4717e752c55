CONSTANTS
    Files <- MCFiles
    Patches <- MCPatches
    BlockAt <- MCBlockAt
    BlockLen = 2
    MaxRun = 2
    Room = 5
    Answers = {"n", "y"}
SPECIFICATION ApplySpec
INVARIANTS AppliedInFull RefusedUntouched ValidatedWhatIsThere
