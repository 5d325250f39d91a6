SPECIFICATION Spec
CONSTANTS
    None = None
    Watched <- FolderAndFile
    Depth <- Components
    Debounce = 2
    SIMPLE_UPLOAD_LIMIT = 2
    UPLOAD_CHUNK_SIZE = 2
    Versions = {"odd", "even"}
    Full <- Sizes
    Buffer = 2
    MaxFailures = 1
    MaxRaw = 2
CHECK_DEADLOCK FALSE
INVARIANTS
    TypeOK
    RangesPartitionFile
    FileFollowsFolder
    CloudFileWhole
    ForgottenOnlyInRaces
    ForgetInv
PROPERTIES
    SavesArrive
