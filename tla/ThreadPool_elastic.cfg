\* A pool that grows and shrinks (Tmin < Tmax): ManagerThread and RecycleThread run.
SPECIFICATION Spec
CONSTANTS
    Thread = {t1, t2, t3, t4, t5}
    Task = {k1, k2}
    Resident = {}
    NoTask = NoTask
    minNum = 2
    maxNum = 4
    Spurious = FALSE
SYMMETRY Symmetry
INVARIANTS
    LiveCount
    LiveBounds
    GetTaskNeverFails
PROPERTY ServiceSpec
CHECK_DEADLOCK FALSE
