SPECIFICATION Spec
CONSTANTS
    None = None
    Provider = "gdrive"
    Paths <- OneFile
    Ancestors <- NoFolders
    Ids = {i1, i2}
    Content = {c1, c2}
    Env = {"create"}
    MaxClock = 2
    MaxFaults = 0
    MaxSecond = 0
SYMMETRY Sym
INVARIANTS
    FirstListingComplete
