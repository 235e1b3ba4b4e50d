SPECIFICATION FairSpec
CONSTANTS
    Requests = {r1, r2}
    Maintenance = maint
    UploadIds = {u1, u2}
    PartNumbers = {1}
    Etags = {e1}
    PartSize <- MCPartSize
    ExpectedSize = 1
    MaxFaults = 1
    None = None
PROPERTIES
    ReservationReleased
    KnownMultipartReclaimed
