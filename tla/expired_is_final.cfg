SPECIFICATION Spec
CONSTANTS
    Requests = {r1}
    Maintenance = maint
    UploadIds = {u1}
    PartNumbers = {1}
    Etags = {e1}
    PartSize <- MCPartSize
    ExpectedSize = 1
    MaxFaults = 0
    None = None
PROPERTIES
    ExpiredIsFinal
