SPECIFICATION Spec
CONSTANTS
    Requests = {r1, r2}
    Maintenance = maint
    UploadIds = {u1, u2}
    PartNumbers = {1, 2}
    Etags = {e1, e2}
    PartSize <- MCPartSize
    ExpectedSize = 1
    MaxFaults = 1
    None = None
SYMMETRY Symmetry
INVARIANTS
    IInv
    ReservationMatchesStatus
    ArtifactMatchesObject
    AbortedLeavesNothingOpen
    OutboxAgrees
PROPERTIES
    OutcomeIsFinal
    ContractHolds
