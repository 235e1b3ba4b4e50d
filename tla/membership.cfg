SPECIFICATION Spec
CONSTANTS
    Requests = {r1, r2}
    Users <- MCUsers
    EmailOf <- MCEmailOf
    Calls <- MCCalls
    Accepters <- MCAccepters
    MaxTokens = 2
    None = None
INVARIANTS
    IInv
    OwnerRemains
PROPERTIES
    AuthorityAtCommit
    JoinedByInvite
