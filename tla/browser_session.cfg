SPECIFICATION FairSpec
CONSTANTS
    Requests = {r1, r2}
    Logins = {l1}
    SessionIds = {s1, s2}
    Lifetime = 3
    IdLifetime = 3
    Margin = 1
    SessionTtl = 3
    None = None
INVARIANTS
    IInv
    LoginOnce
    StaleAtMost
PROPERTIES
    LogoutFades
