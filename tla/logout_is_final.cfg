SPECIFICATION Spec
CONSTANTS
    Requests = {r1, r2}
    Logins = {l1}
    SessionIds = {s1}
    Lifetime = 3
    IdLifetime = 3
    Margin = 1
    SessionTtl = 4
    None = None
INVARIANT
    LogoutIsFinal
