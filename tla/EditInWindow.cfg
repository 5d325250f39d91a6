SPECIFICATION Spec
CONSTANTS
    None = None
    Provider = "onedrive"
    Paths <- OneFile
    Ancestors <- NoFolders
    Ids = {i1, i2}
    Content = {c1, c2}
    Env = {"write", "create"}
    MaxClock = 2
    MaxFaults = 0
    MaxSecond = 0
SYMMETRY Sym
INVARIANTS
    NothingLost
