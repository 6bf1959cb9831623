SPECIFICATION Spec
CONSTANTS
    MaxWorkers = 2
    Number <- MCNumber
    Absent = Absent
    Files <- MCFiles
INVARIANTS ConfigRead ListenExact
PROPERTIES StartupEnds FirstReaped
CHECK_DEADLOCK FALSE
