SPECIFICATION Spec
CONSTANTS
    TotalChunks = 2
    Keys = {k1, k2, k3}
    Requests = {r1, r2}
    None = None
    Megabyte = 1
    NoFile = NoFile
    Unknown = Unknown
    ProbeChunk = 3
    MaxSeconds = 2147483647
    MaxLarge = 60
    Nothing = Nothing
SYMMETRY Interchangeable
INVARIANTS
    VideoHasItsFile
    AcknowledgedChunksAreStored
    NothingIsLeftBehind
CHECK_DEADLOCK FALSE
