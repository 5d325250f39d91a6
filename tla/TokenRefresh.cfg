SPECIFICATION Spec
CONSTANTS
    None = None
    Accounts = {a1, a2}
    Tokens = {t1, t2}
    Life = 2
    Margin = 1
    Interval = 1
    MaxFailures = 1
    MaxSleeps = 1
INVARIANTS
    TypeOK
    RequestsAuthorized
    RefreshTokensAgree
    RemovedIsRevoked
PROPERTIES
    ExpiredIsReplaced
