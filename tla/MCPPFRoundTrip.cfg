CONSTANTS
    Files <- MCFiles
    Args <- MCArgs
    Junk = {1}
    Patches = {}
    Room = 4
    Answers = {"n"}
    BlockAt <- MCBlockAt
    BlockLen = 1
    MaxRun = 2
    ChunkSize = 3
    MaxSize = 4
SPECIFICATION Spec
CHECK_DEADLOCK FALSE
INVARIANTS RoundTrip OwnPatchAccepted RecordsExact
