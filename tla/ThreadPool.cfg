\* A pool of fixed size as the server creates it, CThread::GetInstance(5, 5), with
\* one worker fewer: the two resident tasks leave two workers for the others.
SPECIFICATION FairSpec
CONSTANTS
    Thread = {t1, t2, t3, t4}
    Task = {r1, r2, k1, k2}
    Resident = {r1, r2}
    NoTask = NoTask
    minNum = 4
    maxNum = 4
    Spurious = TRUE
INVARIANTS
    TypeOK
    TaskConservation
    ServiceLevel
PROPERTIES
    EveryTaskRuns
    ExitCompletes
\* An idle pool waits for the next AddTask; this bounded one gets no more.
CHECK_DEADLOCK FALSE
