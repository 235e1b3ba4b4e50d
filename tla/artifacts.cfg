SPECIFICATION FairSpec
CONSTANTS
    Keys = {1, 2}
    Requests = {r1, r2}
    BatchSize = 1
    MaxFaults = 1
    None = None
INVARIANTS
    IInv
    GoneMeansGone
    EventsAgree
PROPERTIES
    RemovalsAreJustified
    LifecycleMovesForward
    DeletionConverges
