CONSTANTS
    m_iLenPkgHeader = 2
    MaxPkgLen = 6
    Lens = {1, 2, 6, 7}
    MaxPkgs = 2
    m_floodKickCount = 1
    Task = {t1, t2}
    Kinds = {"ping", "business", "bad"}
    Sends = {"whole", "part", "again", "broken", "more", "error"}
SPECIFICATION ETFairSpec
INVARIANTS OneAtATime PackagesWholeET KickedAfterCountET
PROPERTY TasksFinish
CHECK_DEADLOCK FALSE
