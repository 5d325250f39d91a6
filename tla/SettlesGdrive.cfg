SPECIFICATION FairSpec
CONSTANTS
    None = None
    Provider = "gdrive"
    Paths <- OneFile
    Ancestors <- NoFolders
    Ids = {i1, i2, i3}
    Content = {c1, c2}
    Env = {"write", "create", "edit", "remove"}
    MaxClock = 2
    MaxFaults = 1
    MaxSecond = 0
PROPERTIES
    Settles
