SPECIFICATION FairSpec
CONSTANTS
    None = None
    Accounts = {a1, a2}
    Pairs = {p1}
    Callers = {d1, d2}
    MaxFaults = 1
    MaxRestarts = 1
INVARIANTS
    TypeOK
    MemoryIsStored
    StoredIsKnown
    PairsHaveAccounts
    RequestsAreLive
PROPERTIES
    RequestServed
