SPECIFICATION Spec
CONSTANTS
    None = None
    Provider = "gdrive"
    Paths <- OneFile
    Ancestors <- NoFolders
    Ids = {i1, i2, i3}
    Content = {c1, c2, c3}
    Env = {"write", "create", "edit"}
    MaxClock = 3
    MaxFaults = 0
    MaxSecond = 0
SYMMETRY Sym
INVARIANTS
    NothingClobbered
