SPECIFICATION FairSpec
CONSTANTS
    Requests = {r1, r2}
    Projects <- MCProjects
    Calls <- MCCalls
    SizeOf <- MCSizeOf
    MaxFile = 2
    MaxActive = 2
    MaxReserved = 2
    None = None
INVARIANTS
    IInv
    QuotaRespected
    OneSessionPerKey
    AnswerMatchesCall
PROPERTIES
    EveryRequestEnds
