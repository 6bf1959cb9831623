\* Four connections at start, one growth step of two: the limit of six is met exactly.
SPECIFICATION Spec
CONSTANTS
    m_worker_connections = 4
    CREATECONNUM = 2
    Garbage = {7}
    MaxAcq = 7
    MaxHeaders = 1
INVARIANTS
    FreeListExact
    ExhaustedOnly
    HeaderSound
PROPERTY ServiceSpec
\* The number of acquisitions is bounded.
CHECK_DEADLOCK FALSE
