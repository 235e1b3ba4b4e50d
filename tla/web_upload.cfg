SPECIFICATION FairSpec
CONSTANTS
    Tasks = {t1, t2}
    Sessions = {s1, s2}
    PartCount = 2
    MaxAttempts = 2
    MaxStarts = 1
    MaxClicks = 2
    MaxFaults = 1
    None = None
INVARIANTS
    IInv
    TruthfulPhase
    ManifestKnown
PROPERTIES
    ResumeCompletes
CHECK_DEADLOCK FALSE
