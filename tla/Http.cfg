\* UShort is small, so that the length of a large file does not fit.
SPECIFICATION FairSpec
CONSTANTS
    Bodies <- MCBodies
    Files <- MCFiles
    WriteResults = {"all", "some", "EAGAIN", "EINTR", "EPIPE"}
    UShort = 16
    MaxRequests = 2
INVARIANTS FirstAnswerRight LengthAgrees MappedWhenSent
PROPERTY Answered
\* The number of requests is bounded.
CHECK_DEADLOCK FALSE
