SPECIFICATION Spec
CONSTANTS
    Tasks = {t1, t2}
    Sessions = {s1}
    PartCount = 1
    MaxAttempts = 1
    MaxStarts = 1
    MaxClicks = 1
    MaxFaults = 0
    None = None
INVARIANT
    CancelStopsUpload
CHECK_DEADLOCK FALSE
