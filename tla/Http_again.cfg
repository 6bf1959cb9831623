CONSTANTS
    Bodies <- PlainBodies
    Files <- MCFiles
    WriteResults = {"all"}
    UShort = 65536
    MaxRequests = 2
SPECIFICATION Spec
INVARIANT EveryAnswerRight
CHECK_DEADLOCK FALSE
