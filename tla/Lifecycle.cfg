\* Two connections for three clients, so that one is used again; the limit of one
\* client lets two in.
SPECIFICATION FairSpec
CONSTANTS
    Conn = {c1, c2}
    m_worker_connections = 1
    Timeout = 2
    MaxTime = 2
    MaxAccepts = 3
INVARIANTS
    ReleasedOnce
    NoEventAfterRelease
    OnlineNeverUnder
    EntryKeyed
PROPERTIES
    Recycled
    MutexComesFree
\* The number of clients is bounded.
CHECK_DEADLOCK FALSE
