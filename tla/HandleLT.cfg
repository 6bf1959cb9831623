\* A body of three bytes may come in three pieces, and three packages may be handled
\* at the same time.
CONSTANTS
    m_iLenPkgHeader = 2
    MaxPkgLen = 5
    Lens = {1, 2, 3, 5, 6}
    MaxPkgs = 3
    m_floodKickCount = 2
    Kinds = {"ping", "business", "bad"}
    Sends = {"whole", "part", "again", "broken", "more", "error"}
SPECIFICATION LTFairSpec
INVARIANTS AsksForTheRestUntilDrift PackagesWhole OwnAnswerSent
PROPERTIES StreamSpec EveryPackageTaken MainResumes
\* The client's packages are bounded, and the process may crash.
CHECK_DEADLOCK FALSE
