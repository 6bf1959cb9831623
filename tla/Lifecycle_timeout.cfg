CONSTANTS
    Conn = {c1, c2}
    m_worker_connections = 2
    Timeout = 2
    MaxTime = 3
    MaxAccepts = 2
SPECIFICATION FairMutexSpec
PROPERTY MainReturns
CHECK_DEADLOCK FALSE
