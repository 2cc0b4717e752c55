CONSTANTS
    Files <- MCFiles
    Patches = {}
    Fuzz = 2
    MaxSize = 4
    Bytes = {0, 255}
SPECIFICATION Spec
CHECK_DEADLOCK FALSE
INVARIANTS BuffersFit Complete OldscoreExact OffsetReadsInBounds RoundTrip NeverRefused
PROPERTY DiffTerminates
