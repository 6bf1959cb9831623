CONSTANTS
    m_iLenPkgHeader = 3
    MaxPkgLen = 7
    Lens = {2, 3, 4, 7, 8}
    MaxPkgs = 3
    m_floodKickCount = 2
    Kinds = {"ping", "business"}
    Sends = {"whole"}
SPECIFICATION LTSpec
INVARIANT AsksForTheRest
CHECK_DEADLOCK FALSE
