SPECIFICATION FairSpec
CONSTANTS
    None = None
    Provider = "gdrive"
    Paths <- OneFile
    Ancestors <- NoFolders
    Ids = {i1, i2}
    Content = {c1, c2}
    Env = {"awkward", "create"}
    MaxClock = 2
    MaxFaults = 0
    MaxSecond = 0
PROPERTIES
    Settles
