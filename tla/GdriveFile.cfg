SPECIFICATION Spec
CONSTANTS
    None = None
    Provider = "gdrive"
    Paths <- OneFile
    Ancestors <- NoFolders
    Ids = {i1, i2, i3}
    Content = {c1, c2}
    Env = {"write", "unlink", "create", "edit", "remove", "move", "unpair", "awkward"}
    MaxClock = 3
    MaxFaults = 1
    MaxSecond = 0
SYMMETRY Sym
CHECK_DEADLOCK FALSE
INVARIANTS
    TypeOK
    EditsOutsideWindowSurvive
    EveryLocalEditAccounted
    EveryRemoteEditAccounted
    AccountInv
PROPERTIES
    ImplementsMirror
