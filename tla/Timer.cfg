\* The main thread and a pool thread add timers.
SPECIFICATION FairSpec
CONSTANTS
    Job = {j1, j2}
    Thread = {t1}
    Delays = {1, 2}
    Counts = {1, 2}
    MaxTime = 3
INVARIANTS FiresAsAsked NoTimerLost
PROPERTY EveryTimerFires
\* The clock is bounded.
CHECK_DEADLOCK FALSE
