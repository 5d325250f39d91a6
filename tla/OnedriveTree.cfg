SPECIFICATION Spec
CONSTANTS
    None = None
    Provider = "onedrive"
    Paths <- Tree
    Ancestors <- TreeAncestors
    Ids = {i1, i2, i3}
    Content = {c1, c2}
    Env = {"write", "mkdir", "createdir", "create", "remove", "edit", "second"}
    MaxClock = 3
    MaxFaults = 2
    MaxSecond = 1
SYMMETRY Sym
INVARIANTS
    SurvivalInv
    EveryLocalEditAccounted
    EveryRemoteEditAccounted
