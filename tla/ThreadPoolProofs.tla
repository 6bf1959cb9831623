-------------------------- MODULE ThreadPoolProofs --------------------------
(***************************************************************************)
(* Theorems about ThreadPool, for every number of workers and tasks.       *)
(***************************************************************************)
EXTENDS ThreadPool, FiniteSetTheorems, TLAPS

-----------------------------------------------------------------------------
(* The mutex, and what a worker that holds it knows.                       *)

\* The part of the type invariant that does not depend on the counters.
Typed ==
    /\ pc \in [Thread -> PC]
    /\ task \in [Thread -> Task \cup {NoTask}]
    /\ TaskBuf \in Seq(Task)
    /\ busyNum \in Int /\ liveNum \in Int /\ exitNum \in 0..OnceDestroyNum
    /\ shutdown \in BOOLEAN
    /\ mgr \in [pc : {"sleep", "snapshot", "decide", "exited"},
                busy : Int, live : Int, tasknum : Nat]
    /\ rec \in {"sleep", "scan", "exited"}
    /\ main \in {"loop", "notify", "join", "gone"}
    /\ sent \in Nat
    /\ added \subseteq Task /\ done \subseteq Task
    /\ \A t \in Thread : pc[t] = "run" => task[t] \in Task

\* What a worker knows after the predicate, and after it has seen shutdown = false.
Knows ==
    \A t \in Thread :
        /\ pc[t] = "checked" => Condition
        /\ pc[t] = "take" => TaskBuf # <<>> \/ exitNum > 0

MutexInv == MutualExclusion /\ Knows

\* notify_one changes the state of sleeping workers only.
LEMMA NotifyEffect ==
    ASSUME Typed, NEW n \in Int, NotifyN(pc, n)
    PROVE  /\ pc' \in [Thread -> PC]
           /\ \A t \in Thread : \/ pc'[t] = pc[t]
                                \/ pc[t] = "wait" /\ pc'[t] = "woken"
  BY DEF NotifyN, Typed, PC

LEMMA TypedInit == Init => Typed
<1> SUFFICES ASSUME Init PROVE Typed
  OBVIOUS
<1>1. PICK S \in SUBSET Thread : pc = [t \in Thread |-> IF t \in S THEN "lock" ELSE "none"]
  BY DEF Init
<1>2. pc \in [Thread -> PC] /\ \A t \in Thread : pc[t] # "run"
  BY <1>1 DEF PC
<1>3. mgr \in [pc : {"sleep", "snapshot", "decide", "exited"},
               busy : Int, live : Int, tasknum : Nat]
  BY DEF Init, Elastic
<1>4. rec \in {"sleep", "scan", "exited"}
  BY DEF Init, Elastic
<1>5. task \in [Thread -> Task \cup {NoTask}] /\ TaskBuf \in Seq(Task)
  BY DEF Init
<1>6. busyNum \in Int /\ liveNum \in Int /\ exitNum \in 0..OnceDestroyNum /\ sent \in Nat
  BY PoolAssumption DEF Init, OnceDestroyNum
<1>7. shutdown \in BOOLEAN /\ added \subseteq Task /\ done \subseteq Task
  BY DEF Init
<1>8. main \in {"loop", "notify", "join", "gone"}
  BY DEF Init
<1> QED
  BY <1>2, <1>3, <1>4, <1>5, <1>6, <1>7, <1>8 DEF Typed

LEMMA TypedStep == Typed /\ [Next]_vars => Typed'
<1> SUFFICES ASSUME Typed, [Next]_vars PROVE Typed'
  OBVIOUS
<1> USE PoolAssumption DEF OnceDestroyNum
<1>1. ASSUME NEW k \in Task, AddTask(k) PROVE Typed'
  <2>1. pc' \in [Thread -> PC] /\ \A t \in Thread : pc'[t] = "run" => pc[t] = "run"
    BY <1>1, NotifyEffect DEF AddTask, NotifyOne
  <2> QED
    BY <1>1, <2>1 DEF AddTask, Typed, counters, others
<1>2. CASE Exit
  BY <1>2 DEF Exit, Typed, counters
<1>3. CASE DtorNotify
  <2>1. pc' \in [Thread -> PC] /\ \A t \in Thread : pc'[t] = "run" => pc[t] = "run"
    BY <1>3, NotifyEffect DEF DtorNotify, NotifyOne, Typed
  <2> QED
    BY <1>3, <2>1 DEF DtorNotify, Typed, counters
<1>4. CASE DtorJoin
  BY <1>4 DEF DtorJoin, Typed, counters, PC
<1>5. ASSUME NEW t \in Thread, WorkThread(t) PROVE Typed'
  <2>1. CASE Lock(t)
    BY <2>1 DEF Lock, Goto, Typed, PC, counters, others
  <2>2. CASE TestCondition(t)
    BY <2>2 DEF TestCondition, Goto, Typed, PC, counters, others
  <2>3. CASE Block(t)
    BY <2>3 DEF Block, Goto, Typed, PC, counters, others
  <2>4. CASE CheckShutdown(t)
    BY <2>4 DEF CheckShutdown, Goto, Typed, PC, counters, others
  <2>5. CASE ExitOnRequest(t)
    BY <2>5 DEF ExitOnRequest, Goto, Typed, PC, others
  <2>6. CASE GetTask(t)
    <3>1. CASE TaskBuf = <<>>
      BY <2>6, <3>1 DEF GetTask, Goto, Typed, PC, others
    <3>2. CASE TaskBuf # <<>>
      <4>1. Head(TaskBuf) \in Task /\ Tail(TaskBuf) \in Seq(Task)
        BY <3>2 DEF Typed
      <4>2. pc' = [pc EXCEPT ![t] = "run"] /\ task' = [task EXCEPT ![t] = Head(TaskBuf)]
        BY <2>6, <3>2 DEF GetTask, Goto
      <4>3. pc' \in [Thread -> PC] /\ task' \in [Thread -> Task \cup {NoTask}]
        BY <4>1, <4>2 DEF Typed, PC
      <4>4. \A s \in Thread : pc'[s] = "run" => task'[s] \in Task
        BY <4>1, <4>2 DEF Typed
      <4>5. /\ TaskBuf' = Tail(TaskBuf) /\ busyNum' = busyNum + 1
            /\ UNCHANGED <<liveNum, exitNum, shutdown, mgr, rec, main, sent, added, done>>
        BY <2>6, <3>2 DEF GetTask, others
      <4> QED
        BY <4>1, <4>3, <4>4, <4>5 DEF Typed
    <3> QED BY <3>1, <3>2
  <2>7. CASE TaskReturns(t)
    BY <2>7 DEF TaskReturns, Goto, Typed, PC, counters, others
  <2>8. CASE EndTask(t)
    BY <2>8 DEF EndTask, Goto, Typed, PC, others
  <2> QED
    BY <1>5, <2>1, <2>2, <2>3, <2>4, <2>5, <2>6, <2>7, <2>8 DEF WorkThread
<1>6. ASSUME NEW t \in Thread, SpuriousWake(t) PROVE Typed'
  BY <1>6 DEF SpuriousWake, Goto, Typed, PC, counters, others
<1>7. CASE Manager
  <2>1. CASE ManagerWake
    BY <2>1 DEF ManagerWake, Typed, counters
  <2>2. CASE ManagerSnapshot
    BY <2>2 DEF ManagerSnapshot, Typed, counters
  <2>3. CASE ManagerCreate
    <3>1. pc' \in [Thread -> PC] /\ \A t \in Thread : pc'[t] = "run" => pc[t] = "run"
      BY <2>3 DEF ManagerCreate, Typed, PC
    <3>2. CreateCount \in Int
      BY DEF CreateCount, OnceCreateNum, Typed
    <3> QED
      BY <2>3, <3>1, <3>2 DEF ManagerCreate, ManagerRests, Typed
  <2>4. CASE ManagerDestroy
    <3>1. DestroyCount \in 0..OnceDestroyNum
      BY <2>4 DEF ManagerDestroy, WantFewer, DestroyCount, Typed
    <3>2. pc' \in [Thread -> PC] /\ \A t \in Thread : pc'[t] = "run" => pc[t] = "run"
      BY <2>4, <3>1, NotifyEffect DEF ManagerDestroy
    <3> QED
      BY <2>4, <3>1, <3>2 DEF ManagerDestroy, ManagerRests, Typed
  <2>5. CASE ManagerIdle
    BY <2>5 DEF ManagerIdle, ManagerRests, Typed, counters
  <2> QED
    BY <1>7, <2>1, <2>2, <2>3, <2>4, <2>5 DEF Manager
<1>8. CASE Recycle
  <2>1. CASE RecycleWake
    BY <2>1 DEF RecycleWake, Typed, counters
  <2>2. CASE RecycleScan
    <3>1. pc' \in [Thread -> PC] /\ \A t \in Thread : pc'[t] = "run" => pc[t] = "run"
      BY <2>2 DEF RecycleScan, Typed, PC
    <3> QED
      BY <2>2, <3>1 DEF RecycleScan, Typed, counters
  <2> QED
    BY <1>8, <2>1, <2>2 DEF Recycle
<1>9. CASE UNCHANGED vars
  BY <1>9 DEF vars, Typed, counters, others
<1> QED
  BY <1>1, <1>2, <1>3, <1>4, <1>5, <1>6, <1>7, <1>8, <1>9 DEF Next, Main

LEMMA MutexInit == Init => MutexInv
  BY DEF Init, MutexInv, MutualExclusion, Knows, Critical

LEMMA MutexStep == Typed /\ MutexInv /\ [Next]_vars => MutexInv'
<1> SUFFICES ASSUME Typed, MutexInv, [Next]_vars PROVE MutexInv'
  OBVIOUS
<1> USE PoolAssumption DEF MutexInv, MutualExclusion, Knows, Critical, Condition
<1>1. ASSUME NEW k \in Task, AddTask(k) PROVE MutexInv'
  <2>1. TaskBuf' # <<>>
    BY <1>1 DEF AddTask, Typed
  <2> QED
    BY <1>1, <2>1, NotifyEffect DEF AddTask, NotifyOne, counters
<1>2. CASE Exit
  BY <1>2 DEF Exit, counters
<1>3. CASE DtorNotify
  BY <1>3, NotifyEffect DEF DtorNotify, NotifyOne, counters
<1>4. CASE DtorJoin
  BY <1>4 DEF DtorJoin, counters
<1>5. ASSUME NEW t \in Thread, WorkThread(t) PROVE MutexInv'
  <2>1. CASE Lock(t)
    BY <2>1 DEF Lock, MutexFree, Goto, Typed, counters
  <2>2. CASE TestCondition(t)
    BY <2>2 DEF TestCondition, Goto, Typed, counters
  <2>3. CASE Block(t)
    BY <2>3 DEF Block, Goto, Typed, counters
  <2>4. CASE CheckShutdown(t)
    BY <2>4 DEF CheckShutdown, Goto, Typed, counters
  <2>5. CASE ExitOnRequest(t)
    BY <2>5 DEF ExitOnRequest, Goto, Typed
  <2>6. CASE GetTask(t)
    BY <2>6 DEF GetTask, Goto, Typed
  <2>7. CASE TaskReturns(t)
    BY <2>7 DEF TaskReturns, Goto, Typed, counters
  <2>8. CASE EndTask(t)
    BY <2>8 DEF EndTask, Goto, Typed
  <2> QED
    BY <1>5, <2>1, <2>2, <2>3, <2>4, <2>5, <2>6, <2>7, <2>8 DEF WorkThread
<1>6. ASSUME NEW t \in Thread, SpuriousWake(t) PROVE MutexInv'
  BY <1>6 DEF SpuriousWake, Goto, Typed, counters
<1>7. CASE Manager
  <2>1. CASE ManagerWake \/ ManagerSnapshot \/ ManagerIdle
    BY <2>1 DEF ManagerWake, ManagerSnapshot, ManagerIdle, counters
  <2>2. CASE ManagerCreate
    BY <2>2 DEF ManagerCreate, MutexFree, Typed
  <2>3. CASE ManagerDestroy
    <3>1. DestroyCount \in Int
      BY DEF DestroyCount, OnceDestroyNum, Typed
    <3>2. \A t \in Thread : pc'[t] \notin Critical
      BY <2>3, <3>1, NotifyEffect DEF ManagerDestroy, MutexFree
    <3> QED BY <3>2
  <2> QED
    BY <1>7, <2>1, <2>2, <2>3 DEF Manager
<1>8. CASE Recycle
  BY <1>8 DEF Recycle, RecycleWake, RecycleScan, MutexFree, Typed, counters
<1>9. CASE UNCHANGED vars
  BY <1>9 DEF vars, counters
<1> QED
  BY <1>1, <1>2, <1>3, <1>4, <1>5, <1>6, <1>7, <1>8, <1>9 DEF Next, Main

\* WorkThread: the lock, and the branch "Get Task failed" that is never taken.
THEOREM GetTaskSafe == Spec => [](MutualExclusion /\ GetTaskNeverFails)
<1>1. Init => Typed /\ MutexInv
  BY TypedInit, MutexInit
<1>2. Typed /\ MutexInv /\ [Next]_vars => Typed' /\ MutexInv'
  BY TypedStep, MutexStep
<1>3. Typed /\ MutexInv => MutualExclusion /\ GetTaskNeverFails
  BY DEF MutexInv, Knows, GetTaskNeverFails, Typed
<1> QED
  BY <1>1, <1>2, <1>3, PTL DEF Spec

-----------------------------------------------------------------------------
(* busyNum counts the busy workers; with it, the type invariant.           *)

LEMMA BusyInit == Init => BusyCount
<1> SUFFICES ASSUME Init PROVE BusyCount
  OBVIOUS
<1>1. Busy = {}
  BY DEF Init, Busy
<1> QED
  BY <1>1, FS_EmptySet DEF Init, BusyCount

\* Only GetTask and EndTask change who is busy.
LEMMA BusyUnchanged ==
    ASSUME UNCHANGED busyNum, BusyCount,
           \A t \in Thread : pc'[t] \in {"run", "relock"} <=> pc[t] \in {"run", "relock"}
    PROVE  BusyCount'
<1>1. Busy' = Busy
  BY DEF Busy
<1> QED BY <1>1 DEF BusyCount

LEMMA BusyStep == Typed /\ BusyCount /\ [Next]_vars => BusyCount'
<1> SUFFICES ASSUME Typed, BusyCount, [Next]_vars PROVE BusyCount'
  OBVIOUS
<1>0. IsFiniteSet(Busy)
  BY FS_Subset, PoolAssumption DEF Busy
<1>1. ASSUME NEW k \in Task, AddTask(k) PROVE BusyCount'
  BY <1>1, NotifyEffect, BusyUnchanged DEF AddTask, NotifyOne, counters
<1>2. CASE Exit
  BY <1>2, BusyUnchanged DEF Exit, counters
<1>3. CASE DtorNotify
  BY <1>3, NotifyEffect, BusyUnchanged DEF DtorNotify, NotifyOne, counters
<1>4. CASE DtorJoin
  BY <1>4, BusyUnchanged DEF DtorJoin, Alive, counters
<1>5. ASSUME NEW t \in Thread, WorkThread(t) PROVE BusyCount'
  <2>1. CASE Lock(t) \/ TestCondition(t) \/ Block(t) \/ CheckShutdown(t) \/ TaskReturns(t)
    BY <2>1, BusyUnchanged
       DEF Lock, TestCondition, Block, CheckShutdown, TaskReturns, Goto, Typed, counters
  <2>2. CASE ExitOnRequest(t)
    BY <2>2, BusyUnchanged DEF ExitOnRequest, Goto, Typed
  <2>3. CASE GetTask(t) /\ TaskBuf = <<>>
    BY <2>3, BusyUnchanged DEF GetTask, Goto, Typed
  <2>4. CASE GetTask(t) /\ TaskBuf # <<>>
    <3>1. Busy' = Busy \cup {t} /\ t \notin Busy
      BY <2>4 DEF GetTask, Goto, Typed, Busy
    <3> QED
      BY <2>4, <3>1, <1>0, FS_AddElement, FS_CardinalityType DEF GetTask, BusyCount
  <2>5. CASE EndTask(t)
    <3>1. Busy' = Busy \ {t} /\ t \in Busy
      BY <2>5 DEF EndTask, Goto, Typed, Busy
    <3> QED
      BY <2>5, <3>1, <1>0, FS_RemoveElement, FS_CardinalityType DEF EndTask, BusyCount
  <2> QED
    BY <1>5, <2>1, <2>2, <2>3, <2>4, <2>5 DEF WorkThread
<1>6. ASSUME NEW t \in Thread, SpuriousWake(t) PROVE BusyCount'
  BY <1>6, BusyUnchanged DEF SpuriousWake, Goto, Typed, counters
<1>7. CASE Manager
  <2>1. CASE ManagerWake \/ ManagerSnapshot \/ ManagerIdle
    BY <2>1, BusyUnchanged DEF ManagerWake, ManagerSnapshot, ManagerIdle, counters
  <2>2. CASE ManagerCreate
    BY <2>2, BusyUnchanged DEF ManagerCreate, Typed
  <2>3. CASE ManagerDestroy
    <3>1. DestroyCount \in Int
      BY PoolAssumption DEF DestroyCount, OnceDestroyNum, Typed
    <3> QED
      BY <2>3, <3>1, NotifyEffect, BusyUnchanged DEF ManagerDestroy
  <2> QED
    BY <1>7, <2>1, <2>2, <2>3 DEF Manager
<1>8. CASE Recycle
  BY <1>8, BusyUnchanged DEF Recycle, RecycleWake, RecycleScan, Typed, counters
<1>9. CASE UNCHANGED vars
  BY <1>9, BusyUnchanged DEF vars, counters
<1> QED
  BY <1>1, <1>2, <1>3, <1>4, <1>5, <1>6, <1>7, <1>8, <1>9 DEF Next, Main

\* ManagerThread's snapshot is typed because busyNum is never negative.
SnapshotOK == mgr.busy \in Nat

LEMMA SnapshotStep == Typed /\ BusyCount /\ SnapshotOK /\ [Next]_vars => SnapshotOK'
<1> SUFFICES ASSUME Typed, BusyCount, SnapshotOK, [Next]_vars PROVE SnapshotOK'
  OBVIOUS
<1>1. busyNum \in Nat
  <2>1. IsFiniteSet(Busy)
    BY FS_Subset, PoolAssumption DEF Busy
  <2> QED BY <2>1, FS_CardinalityType DEF BusyCount
<1>2. CASE ManagerSnapshot
  BY <1>1, <1>2 DEF ManagerSnapshot, SnapshotOK
<1>3. CASE ManagerWake \/ ManagerCreate \/ ManagerDestroy \/ ManagerIdle
  BY <1>3 DEF ManagerWake, ManagerCreate, ManagerDestroy, ManagerIdle, ManagerRests,
              SnapshotOK, Typed
<1>4. CASE UNCHANGED mgr
  BY <1>4 DEF SnapshotOK
<1>5. \/ ManagerSnapshot \/ ManagerWake \/ ManagerCreate \/ ManagerDestroy \/ ManagerIdle
      \/ UNCHANGED mgr
  BY DEF Next, Main, AddTask, Exit, DtorNotify, DtorJoin, WorkThread, SpuriousWake,
         Lock, TestCondition, Block, CheckShutdown, ExitOnRequest, GetTask, TaskReturns,
         EndTask, Manager, Recycle, RecycleWake, RecycleScan, vars, others
<1> QED
  BY <1>2, <1>3, <1>4, <1>5

\* The type invariant of the pool, and busyNum, the figure its manager trusts.
THEOREM TypeCorrect == Spec => [](TypeOK /\ BusyCount)
<1>1. Init => Typed /\ BusyCount /\ SnapshotOK
  BY TypedInit, BusyInit DEF Init, SnapshotOK
<1>2. Typed /\ BusyCount /\ SnapshotOK /\ [Next]_vars
        => Typed' /\ BusyCount' /\ SnapshotOK'
  BY TypedStep, BusyStep, SnapshotStep
<1>3. Typed /\ BusyCount /\ SnapshotOK => TypeOK /\ BusyCount
  <2> SUFFICES ASSUME Typed, BusyCount, SnapshotOK PROVE TypeOK
    OBVIOUS
  <2>1. busyNum \in Nat
    <3>1. IsFiniteSet(Busy)
      BY FS_Subset, PoolAssumption DEF Busy
    <3> QED BY <3>1, FS_CardinalityType DEF BusyCount
  <2>2. mgr \in [pc : {"sleep", "snapshot", "decide", "exited"},
                 busy : Nat, live : Int, tasknum : Nat]
    BY DEF Typed, SnapshotOK
  <2> QED
    BY <2>1, <2>2 DEF Typed, TypeOK
<1> QED
  BY <1>1, <1>2, <1>3, PTL DEF Spec

-----------------------------------------------------------------------------
(* Every task exactly once, and the abstract service.                      *)

Elems(q) == {q[i] : i \in DOMAIN q}
NoRepeats(q) == \A i, j \in DOMAIN q : q[i] = q[j] => i = j

LEMMA AppendElems ==
    ASSUME NEW T, NEW q \in Seq(T), NEW k \in T, NoRepeats(q), k \notin Elems(q)
    PROVE  /\ Elems(Append(q, k)) = Elems(q) \cup {k}
           /\ NoRepeats(Append(q, k))
<1>1. DOMAIN q = 1..Len(q) /\ DOMAIN Append(q, k) = 1..(Len(q) + 1)
  OBVIOUS
<1>2. Append(q, k)[Len(q) + 1] = k /\ \A i \in 1..Len(q) : Append(q, k)[i] = q[i]
  OBVIOUS
<1>3. Elems(Append(q, k)) = Elems(q) \cup {k}
  <2>1. ASSUME NEW x \in Elems(Append(q, k)) PROVE x \in Elems(q) \cup {k}
    BY <1>1, <1>2 DEF Elems
  <2>2. ASSUME NEW x \in Elems(q) PROVE x \in Elems(Append(q, k))
    BY <1>1, <1>2 DEF Elems
  <2>3. k \in Elems(Append(q, k))
    BY <1>1, <1>2 DEF Elems
  <2> QED BY <2>1, <2>2, <2>3
<1>4. NoRepeats(Append(q, k))
  BY <1>1, <1>2 DEF NoRepeats, Elems
<1> QED BY <1>3, <1>4

LEMMA TailElems ==
    ASSUME NEW T, NEW q \in Seq(T), q # <<>>, NoRepeats(q)
    PROVE  /\ Head(q) \in Elems(q)
           /\ Elems(Tail(q)) = Elems(q) \ {Head(q)}
           /\ NoRepeats(Tail(q))
<1>1. DOMAIN q = 1..Len(q) /\ Len(q) \in Nat \ {0} /\ DOMAIN Tail(q) = 1..(Len(q) - 1)
  OBVIOUS
<1>2. Head(q) = q[1] /\ \A i \in 1..(Len(q) - 1) : Tail(q)[i] = q[i + 1]
  OBVIOUS
<1>3. Head(q) \in Elems(q)
  BY <1>1, <1>2 DEF Elems
<1>4. Elems(Tail(q)) = Elems(q) \ {Head(q)}
  <2>1. ASSUME NEW x \in Elems(Tail(q)) PROVE x \in Elems(q) /\ x # Head(q)
    <3>1. PICK i \in 1..(Len(q) - 1) : x = q[i + 1]
      BY <1>1, <1>2 DEF Elems
    <3>2. i + 1 \in DOMAIN q /\ 1 \in DOMAIN q /\ i + 1 # 1
      BY <1>1
    <3> QED BY <3>1, <3>2, <1>2 DEF Elems, NoRepeats
  <2>2. ASSUME NEW x \in Elems(q), x # Head(q) PROVE x \in Elems(Tail(q))
    <3>1. PICK i \in DOMAIN q : x = q[i]
      BY DEF Elems
    <3>2. i - 1 \in 1..(Len(q) - 1) /\ (i - 1) + 1 = i
      BY <3>1, <2>2, <1>1, <1>2
    <3>3. Tail(q)[i - 1] = x
      BY <3>1, <3>2, <1>2
    <3> QED BY <3>2, <3>3, <1>1 DEF Elems
  <2> QED BY <2>1, <2>2
<1>5. NoRepeats(Tail(q))
  BY <1>1, <1>2 DEF NoRepeats
<1> QED BY <1>3, <1>4, <1>5

TasksRun == {task[t] : t \in Running}

\* TaskConservation in the terms of the lemmas.
LEMMA ConservationForm ==
    TaskConservation <=>
        /\ added = Elems(TaskBuf) \cup TasksRun \cup done
        /\ NoRepeats(TaskBuf)
        /\ \A s, t \in Running : task[s] = task[t] => s = t
        /\ Elems(TaskBuf) \cap TasksRun = {}
        /\ Elems(TaskBuf) \cap done = {}
        /\ TasksRun \cap done = {}
  BY DEF TaskConservation, Queued, Elems, NoRepeats, TasksRun

LEMMA ConservationInit == Init => TaskConservation
<1> SUFFICES ASSUME Init PROVE TaskConservation
  OBVIOUS
<1>1. Running = {}
  BY DEF Init, Running
<1>2. Queued = {} /\ DOMAIN TaskBuf = {}
  BY DEF Init, Queued
<1> QED
  BY <1>1, <1>2 DEF Init, TaskConservation

\* Steps that move no task.
TasksKept ==
    /\ UNCHANGED <<task, TaskBuf, added, done>>
    /\ \A t \in Thread : pc'[t] = "run" <=> pc[t] = "run"

\* A step adds a task, starts one, ends one, or moves none.
LEMMA StepKinds ==
    ASSUME Typed, [Next]_vars
    PROVE  \/ \E k \in Task : AddTask(k)
           \/ \E t \in Thread : GetTask(t) /\ TaskBuf # <<>>
           \/ \E t \in Thread : TaskReturns(t)
           \/ TasksKept
<1> USE DEF TasksKept
<1>1. CASE Exit
  BY <1>1 DEF Exit
<1>2. CASE DtorNotify
  BY <1>2, NotifyEffect DEF DtorNotify, NotifyOne
<1>3. CASE DtorJoin
  BY <1>3 DEF DtorJoin, Alive
<1>4. ASSUME NEW t \in Thread,
             Lock(t) \/ TestCondition(t) \/ Block(t) \/ CheckShutdown(t) \/ SpuriousWake(t)
      PROVE  TasksKept
  BY <1>4 DEF Lock, TestCondition, Block, CheckShutdown, SpuriousWake, Goto, Typed
<1>5. ASSUME NEW t \in Thread, ExitOnRequest(t) \/ EndTask(t) PROVE TasksKept
  BY <1>5 DEF ExitOnRequest, EndTask, Goto, Typed
<1>6. ASSUME NEW t \in Thread, GetTask(t), TaskBuf = <<>> PROVE TasksKept
  BY <1>6 DEF GetTask, Goto, Typed
<1>7. CASE Manager
  <2>1. CASE ManagerWake \/ ManagerSnapshot \/ ManagerIdle
    BY <2>1 DEF ManagerWake, ManagerSnapshot, ManagerIdle
  <2>2. CASE ManagerCreate
    BY <2>2 DEF ManagerCreate, Typed
  <2>3. CASE ManagerDestroy
    <3>1. DestroyCount \in Int
      BY PoolAssumption DEF DestroyCount, OnceDestroyNum, Typed
    <3> QED
      BY <2>3, <3>1, NotifyEffect DEF ManagerDestroy
  <2> QED
    BY <1>7, <2>1, <2>2, <2>3 DEF Manager
<1>8. CASE Recycle
  BY <1>8 DEF Recycle, RecycleWake, RecycleScan, Typed
<1>9. CASE UNCHANGED vars
  BY <1>9 DEF vars
<1> QED
  BY <1>1, <1>2, <1>3, <1>4, <1>5, <1>6, <1>7, <1>8, <1>9 DEF Next, Main, WorkThread

\* What each kind of step does to the tasks.
LEMMA AddTaskEffect ==
    ASSUME Typed, TaskConservation, NEW k \in Task, AddTask(k)
    PROVE  /\ k \notin Elems(TaskBuf) \cup TasksRun \cup done
           /\ TaskBuf' = Append(TaskBuf, k)
           /\ Elems(TaskBuf') = Elems(TaskBuf) \cup {k}
           /\ NoRepeats(TaskBuf')
           /\ Running' = Running /\ TasksRun' = TasksRun
           /\ UNCHANGED <<task, done>> /\ added' = added \cup {k}
<1>1. k \notin Elems(TaskBuf) \cup TasksRun \cup done
  BY ConservationForm DEF AddTask
<1>2. Running' = Running
  BY NotifyEffect DEF AddTask, NotifyOne, Running
<1>3. TasksRun' = TasksRun
  BY <1>2 DEF TasksRun, AddTask
<1>4. Elems(TaskBuf') = Elems(TaskBuf) \cup {k} /\ NoRepeats(TaskBuf')
  BY <1>1, AppendElems, ConservationForm DEF AddTask, Typed
<1> QED BY <1>1, <1>2, <1>3, <1>4 DEF AddTask

LEMMA GetTaskEffect ==
    ASSUME Typed, TaskConservation, NEW t \in Thread, GetTask(t), TaskBuf # <<>>
    PROVE  /\ Head(TaskBuf) \in Elems(TaskBuf)
           /\ TaskBuf' = Tail(TaskBuf)
           /\ Elems(TaskBuf') = Elems(TaskBuf) \ {Head(TaskBuf)}
           /\ NoRepeats(TaskBuf')
           /\ t \notin Running
           /\ Running' = Running \cup {t}
           /\ task'[t] = Head(TaskBuf)
           /\ \A s \in Running : task'[s] = task[s]
           /\ TasksRun' = TasksRun \cup {Head(TaskBuf)}
           /\ UNCHANGED <<done, added>>
<1>1. /\ t \notin Running /\ Running' = Running \cup {t}
      /\ task'[t] = Head(TaskBuf) /\ \A s \in Running : task'[s] = task[s]
  BY DEF GetTask, Goto, Running, Typed
<1>2. TasksRun' = TasksRun \cup {Head(TaskBuf)}
  BY <1>1 DEF TasksRun
<1>3. /\ Head(TaskBuf) \in Elems(TaskBuf) /\ NoRepeats(Tail(TaskBuf))
      /\ Elems(Tail(TaskBuf)) = Elems(TaskBuf) \ {Head(TaskBuf)}
  BY TailElems, ConservationForm DEF Typed
<1> QED BY <1>1, <1>2, <1>3 DEF GetTask

LEMMA TaskReturnsEffect ==
    ASSUME Typed, TaskConservation, NEW t \in Thread, TaskReturns(t)
    PROVE  /\ t \in Running
           /\ Running' = Running \ {t}
           /\ TasksRun' = TasksRun \ {task[t]}
           /\ task[t] \in TasksRun
           /\ done' = done \cup {task[t]}
           /\ UNCHANGED <<task, TaskBuf, added>>
<1>1. t \in Running /\ Running' = Running \ {t} /\ UNCHANGED <<task, TaskBuf, added>>
  BY DEF TaskReturns, Goto, Running, Typed
<1>2. \A r, s \in Running : task[r] = task[s] => r = s
  BY ConservationForm
<1>3. TasksRun' = TasksRun \ {task[t]}
  BY <1>1, <1>2 DEF TasksRun
<1> QED BY <1>1, <1>3 DEF TasksRun, TaskReturns

LEMMA TasksKeptEffect ==
    ASSUME TasksKept
    PROVE  Running' = Running /\ TasksRun' = TasksRun
  BY DEF TasksKept, Running, TasksRun

LEMMA ConservationStep == Typed /\ TaskConservation /\ [Next]_vars => TaskConservation'
<1> SUFFICES ASSUME Typed, TaskConservation, [Next]_vars PROVE TaskConservation'
  OBVIOUS
<1>0. TaskConservation' <=>
        /\ added' = Elems(TaskBuf') \cup TasksRun' \cup done'
        /\ NoRepeats(TaskBuf')
        /\ \A s, t \in Running' : task'[s] = task'[t] => s = t
        /\ Elems(TaskBuf') \cap TasksRun' = {}
        /\ Elems(TaskBuf') \cap done' = {}
        /\ TasksRun' \cap done' = {}
  BY DEF TaskConservation, Queued, Elems, NoRepeats, TasksRun
<1>1. ASSUME NEW k \in Task, AddTask(k) PROVE TaskConservation'
  BY <1>0, <1>1, AddTaskEffect, ConservationForm
<1>2. ASSUME NEW t \in Thread, GetTask(t), TaskBuf # <<>> PROVE TaskConservation'
  <2>1. \A r, s \in Running' : task'[r] = task'[s] => r = s
    BY <1>2, GetTaskEffect, ConservationForm DEF TasksRun
  <2> QED
    BY <1>0, <1>2, <2>1, GetTaskEffect, ConservationForm
<1>3. ASSUME NEW t \in Thread, TaskReturns(t) PROVE TaskConservation'
  BY <1>0, <1>3, TaskReturnsEffect, ConservationForm
<1>4. CASE TasksKept
  BY <1>4, TasksKeptEffect DEF TasksKept, TaskConservation, Queued
<1> QED
  BY <1>1, <1>2, <1>3, <1>4, StepKinds

\* No task is lost, duplicated or run by two workers, however AddTask, GetTask
\* and the workers interleave and however the pool grows and shrinks.
THEOREM TasksConserved == Spec => []TaskConservation
<1>1. Init => Typed /\ TaskConservation
  BY TypedInit, ConservationInit
<1>2. Typed /\ TaskConservation /\ [Next]_vars => Typed' /\ TaskConservation'
  BY TypedStep, ConservationStep
<1> QED
  BY <1>1, <1>2, PTL DEF Spec

\* The pool implements the abstract task service: AddTask is Submit, GetTask is
\* Start, the return of the task is Finish, everything else is invisible.
THEOREM Refinement == Spec => ServiceSpec
<1> DEFINE run == {task[t] : t \in Running}
<1>1. Init => Service!Init
  BY DEF Init, Service!Init, Running
<1>2. Typed /\ TaskConservation /\ [Next]_vars
        => [Service!Next]_<<TaskBuf, run, done>>
  <2> SUFFICES ASSUME Typed, TaskConservation, [Next]_vars
               PROVE  [Service!Next]_<<TaskBuf, run, done>>
    OBVIOUS
  <2>0. run = TasksRun /\ run' = TasksRun' /\ Service!Accepted = Elems(TaskBuf) \cup run \cup done
    BY DEF TasksRun, Elems, Service!Accepted
  <2>1. ASSUME NEW k \in Task, AddTask(k) PROVE Service!Submit(k)
    BY <2>0, <2>1, AddTaskEffect DEF Service!Submit
  <2>2. ASSUME NEW t \in Thread, GetTask(t), TaskBuf # <<>> PROVE Service!Start
    BY <2>0, <2>2, GetTaskEffect, ConservationForm DEF Service!Start
  <2>3. ASSUME NEW t \in Thread, TaskReturns(t) PROVE \E k \in Task : Service!Finish(k)
    <3>1. task[t] \in Task
      BY <2>3 DEF TaskReturns, Goto, Typed
    <3> QED
      BY <2>0, <2>3, <3>1, TaskReturnsEffect DEF Service!Finish
  <2>4. CASE TasksKept
    BY <2>0, <2>4, TasksKeptEffect DEF TasksKept
  <2> QED
    BY <2>1, <2>2, <2>3, <2>4, StepKinds DEF Service!Next
<1> QED
  BY <1>1, <1>2, TasksConserved, TypedInit, TypedStep, PTL DEF Spec, ServiceSpec, Service!Spec

-----------------------------------------------------------------------------
(* The fixed-size pool: a lost notify strands no task.                     *)

\* While the pool of fixed size has not been destroyed, nobody asks workers to
\* exit and the crew is complete.
FixedCrew ==
    /\ main = "loop" <=> ~shutdown
    /\ ~Elastic => mgr.pc = "exited" /\ rec = "exited" /\ exitNum = 0
    /\ ~Elastic /\ ~shutdown => Cardinality(Alive) = minNum

LEMMA FixedCrewInit == Init => FixedCrew
<1> SUFFICES ASSUME Init PROVE FixedCrew
  OBVIOUS
<1>1. PICK S \in SUBSET Thread :
        /\ Cardinality(S) = minNum
        /\ pc = [t \in Thread |-> IF t \in S THEN "lock" ELSE "none"]
  BY DEF Init
<1>2. Alive = S
  BY <1>1 DEF Alive
<1>3. main = "loop" /\ shutdown = FALSE /\ exitNum = 0
  BY DEF Init
<1>4. ~Elastic => mgr.pc = "exited" /\ rec = "exited"
  BY DEF Init, Elastic
<1> QED
  BY <1>1, <1>2, <1>3, <1>4 DEF FixedCrew

LEMMA FixedCrewStep == Typed /\ FixedCrew /\ [Next]_vars => FixedCrew'
<1> SUFFICES ASSUME Typed, FixedCrew, [Next]_vars PROVE FixedCrew'
  OBVIOUS
<1> DEFINE SameCrew == \A t \in Thread : pc'[t] \in {"none", "exited"}
                                           <=> pc[t] \in {"none", "exited"}
<1>0. ASSUME SameCrew, UNCHANGED <<main, shutdown, mgr, rec, exitNum>> PROVE FixedCrew'
  <2>1. Alive' = Alive
    BY <1>0 DEF Alive
  <2> QED BY <1>0, <2>1 DEF FixedCrew, Elastic
<1>1. ASSUME NEW k \in Task, AddTask(k) PROVE FixedCrew'
  BY <1>0, <1>1, NotifyEffect DEF AddTask, NotifyOne, counters, others
<1>2. CASE Exit
  BY <1>2 DEF Exit, FixedCrew, Elastic, counters
<1>3. CASE DtorNotify \/ DtorJoin
  BY <1>3 DEF DtorNotify, DtorJoin, FixedCrew, Elastic, counters
<1>4. ASSUME NEW t \in Thread, WorkThread(t) PROVE FixedCrew'
  <2>1. CASE Lock(t) \/ TestCondition(t) \/ Block(t) \/ TaskReturns(t)
    BY <1>0, <2>1 DEF Lock, TestCondition, Block, TaskReturns, Goto, Typed, counters, others
  <2>2. CASE CheckShutdown(t) /\ ~shutdown
    BY <1>0, <2>2 DEF CheckShutdown, Goto, Typed, counters, others
  <2>3. CASE CheckShutdown(t) /\ shutdown
    BY <2>3 DEF CheckShutdown, FixedCrew, Elastic, counters, others
  <2>4. CASE ExitOnRequest(t)
    BY <2>4 DEF ExitOnRequest, FixedCrew, Elastic, Typed, others, OnceDestroyNum
  <2>5. CASE GetTask(t) \/ EndTask(t)
    BY <1>0, <2>5 DEF GetTask, EndTask, Goto, Typed, others
  <2> QED
    BY <1>4, <2>1, <2>2, <2>3, <2>4, <2>5 DEF WorkThread, Typed
<1>5. ASSUME NEW t \in Thread, SpuriousWake(t) PROVE FixedCrew'
  BY <1>0, <1>5 DEF SpuriousWake, Goto, Typed, counters, others
<1>6. CASE Manager
  BY <1>6 DEF Manager, ManagerWake, ManagerSnapshot, ManagerCreate, ManagerDestroy,
              ManagerIdle, FixedCrew, Elastic
<1>7. CASE Recycle
  BY <1>7 DEF Recycle, RecycleWake, RecycleScan, FixedCrew, Elastic
<1>8. CASE UNCHANGED vars
  BY <1>0, <1>8 DEF vars, counters, others
<1> QED
  BY <1>1, <1>2, <1>3, <1>4, <1>5, <1>6, <1>7, <1>8 DEF Next, Main

LEMMA ServiceInit == Init => ServiceLevel
<1> SUFFICES ASSUME Init PROVE ServiceLevel
  OBVIOUS
<1>1. IsFiniteSet(Active)
  BY FS_Subset, PoolAssumption DEF Active, Available, Alive
<1> QED
  BY <1>1, FS_CardinalityType DEF Init, ServiceLevel

LEMMA ServiceStep ==
    Typed /\ MutexInv /\ FixedCrew /\ ServiceLevel /\ [Next]_vars => ServiceLevel'
<1> SUFFICES ASSUME Typed, MutexInv, FixedCrew, ServiceLevel, [Next]_vars,
                    ~Elastic, ~shutdown'
             PROVE  \/ Cardinality(Active') >= Len(TaskBuf')
                    \/ Cardinality(Active') + 1 >= Cardinality(Available')
  BY DEF ServiceLevel, Elastic
<1>a. ~shutdown
  BY DEF Next, Main, AddTask, Exit, DtorNotify, DtorJoin, WorkThread, SpuriousWake,
         Lock, TestCondition, Block, CheckShutdown, ExitOnRequest, GetTask, TaskReturns,
         EndTask, Manager, ManagerWake, ManagerSnapshot, ManagerCreate, ManagerDestroy,
         ManagerIdle, Recycle, RecycleWake, RecycleScan, vars
<1>b. main = "loop" /\ mgr.pc = "exited" /\ rec = "exited" /\ exitNum = 0
  BY <1>a DEF FixedCrew
<1>c. \/ Cardinality(Active) >= Len(TaskBuf)
      \/ Cardinality(Active) + 1 >= Cardinality(Available)
  BY <1>a DEF ServiceLevel
<1>d. IsFiniteSet(Active) /\ IsFiniteSet(Available) /\ IsFiniteSet(Active') /\ IsFiniteSet(Available')
  <2>1. Active \subseteq Thread /\ Available \subseteq Thread
    BY DEF Active, Available, Alive
  <2>2. Active' \subseteq Thread /\ Available' \subseteq Thread
    BY DEF Active, Available, Alive
  <2> QED BY <2>1, <2>2, FS_Subset, PoolAssumption
<1>e. /\ Cardinality(Active) \in Nat /\ Cardinality(Available) \in Nat
      /\ Cardinality(Active') \in Nat /\ Cardinality(Available') \in Nat
      /\ Len(TaskBuf) \in Nat
  BY <1>d, FS_CardinalityType DEF Typed
<1>1. ASSUME NEW k \in Task, AddTask(k)
      PROVE  \/ Cardinality(Active') >= Len(TaskBuf')
             \/ Cardinality(Active') + 1 >= Cardinality(Available')
  <2>1. Len(TaskBuf') = Len(TaskBuf) + 1 /\ task' = task
    BY <1>1 DEF AddTask, Typed
  <2>2. Available' = Available
    BY <1>1, <2>1, NotifyEffect DEF AddTask, NotifyOne, Available, Alive
  <2>3. CASE Waiting = {}
    <3>1. pc' = pc
      BY <1>1, <2>3, NotifyEffect DEF AddTask, NotifyOne, Waiting, Typed
    <3>2. \A s, t \in Available \ Active : s = t
      BY <2>3 DEF Active, Available, Alive, Waiting, MutexInv, MutualExclusion, Critical
    <3>3. Active' = Active
      BY <2>1, <3>1 DEF Active, Available, Alive
    <3>4. CASE Available = Active
      BY <1>e, <2>2, <3>3, <3>4
    <3>5. ASSUME NEW x \in Available, x \notin Active PROVE Cardinality(Active) + 1 >= Cardinality(Available)
      <4>1. Available = Active \cup {x}
        BY <3>2, <3>5 DEF Active
      <4> QED BY <1>d, <1>e, <3>5, <4>1, FS_AddElement
    <3> QED
      BY <2>2, <3>3, <3>4, <3>5 DEF Active
  <2>4. CASE Waiting # {}
    <3>1. PICK S \in SUBSET Waiting :
            /\ Cardinality(S) = IF Cardinality(Waiting) < 1 THEN Cardinality(Waiting) ELSE 1
            /\ pc' = [t \in Thread |-> IF t \in S THEN "woken" ELSE pc[t]]
      BY <1>1 DEF AddTask, NotifyOne, NotifyN, Waiting
    <3>2. IsFiniteSet(Waiting) /\ IsFiniteSet(S)
      BY FS_Subset, PoolAssumption DEF Waiting
    <3>3. Cardinality(Waiting) \in Nat /\ Cardinality(Waiting) # 0
      BY <2>4, <3>2, FS_CardinalityType, FS_EmptySet
    <3>4. Cardinality(S) = 1
      BY <3>1, <3>3
    <3>5. PICK x : S = {x}
      BY <3>2, <3>4, FS_Singleton
    <3>6. x \in Thread /\ x \notin Active /\ Active' = Active \cup {x}
      BY <2>1, <3>1, <3>5 DEF Waiting, Active, Available, Alive, Typed
    <3>7. Cardinality(Active') = Cardinality(Active) + 1
      BY <1>d, <3>6, FS_AddElement
    <3> QED BY <1>c, <1>e, <2>1, <2>2, <3>7
  <2> QED BY <2>3, <2>4
<1>2. ASSUME NEW t \in Thread, GetTask(t), TaskBuf # <<>>
      PROVE  \/ Cardinality(Active') >= Len(TaskBuf')
             \/ Cardinality(Active') + 1 >= Cardinality(Available')
  <2>1. Len(TaskBuf') = Len(TaskBuf) - 1 /\ Len(TaskBuf) > 0
    BY <1>2 DEF GetTask, Typed
  <2>2. t \in Active /\ t \in Available
    BY <1>2 DEF GetTask, Goto, Active, Available, Alive
  <2>3. CASE Head(TaskBuf) \in Resident
    <3>1. Active' = Active \ {t} /\ Available' = Available \ {t}
      BY <1>2, <2>3 DEF GetTask, Goto, Active, Available, Alive, Typed
    <3>2. /\ Cardinality(Active') = Cardinality(Active) - 1
          /\ Cardinality(Available') = Cardinality(Available) - 1
      BY <1>d, <2>2, <3>1, FS_RemoveElement
    <3> QED BY <1>c, <1>e, <2>1, <3>2
  <2>4. CASE Head(TaskBuf) \notin Resident
    <3>1. Active' = Active /\ Available' = Available
      BY <1>2, <2>4 DEF GetTask, Goto, Active, Available, Alive, Typed
    <3> QED BY <1>c, <1>e, <2>1, <3>1
  <2> QED BY <2>3, <2>4
<1>3. ASSUME NEW t \in Thread, TestCondition(t), ~Condition
      PROVE  Cardinality(Active') >= Len(TaskBuf')
  <2>1. Len(TaskBuf') = 0
    BY <1>3 DEF TestCondition, Condition
  <2> QED BY <1>e, <2>1
<1>4. ASSUME NEW t \in Thread, SpuriousWake(t)
      PROVE  \/ Cardinality(Active') >= Len(TaskBuf')
             \/ Cardinality(Active') + 1 >= Cardinality(Available')
  <2>1. /\ t \notin Active /\ Active' = Active \cup {t}
        /\ Available' = Available /\ TaskBuf' = TaskBuf
    BY <1>4 DEF SpuriousWake, Goto, Active, Available, Alive, Typed
  <2> QED BY <1>c, <1>d, <1>e, <2>1, FS_AddElement
<1>5. ASSUME TaskBuf' = TaskBuf, Active' = Active, Available' = Available
      PROVE  \/ Cardinality(Active') >= Len(TaskBuf')
             \/ Cardinality(Active') + 1 >= Cardinality(Available')
  BY <1>5, <1>c
<1>6. ASSUME NEW t \in Thread, Lock(t) \/ Block(t) \/ CheckShutdown(t) \/ TaskReturns(t)
      PROVE  TaskBuf' = TaskBuf /\ Active' = Active /\ Available' = Available
  BY <1>6, <1>a DEF Lock, Block, CheckShutdown, TaskReturns, Goto, Active, Available, Alive, Typed
<1>7. ASSUME NEW t \in Thread, TestCondition(t), Condition
      PROVE  TaskBuf' = TaskBuf /\ Active' = Active /\ Available' = Available
  BY <1>7 DEF TestCondition, Goto, Active, Available, Alive, Typed
<1>8. ASSUME NEW t \in Thread, EndTask(t) \/ (GetTask(t) /\ TaskBuf = <<>>)
      PROVE  TaskBuf' = TaskBuf /\ Active' = Active /\ Available' = Available
  BY <1>8 DEF EndTask, GetTask, Goto, Active, Available, Alive, Typed
<1>9. CASE UNCHANGED vars
  BY <1>5, <1>9 DEF vars, Active, Available, Alive
<1>10. ~Exit /\ ~DtorNotify /\ ~DtorJoin /\ ~Manager /\ ~Recycle
       /\ \A t \in Thread : ~ExitOnRequest(t)
  BY <1>b DEF Exit, DtorNotify, DtorJoin, Manager, ManagerWake, ManagerSnapshot,
              ManagerCreate, ManagerDestroy, ManagerIdle, Recycle, RecycleWake,
              RecycleScan, ExitOnRequest
<1> QED
  BY <1>1, <1>2, <1>3, <1>4, <1>5, <1>6, <1>7, <1>8, <1>9, <1>10 DEF Next, Main, WorkThread

\* Residents never return, so at most one worker per resident task is tied up.
LEMMA EnoughAvailable ==
    ASSUME Typed, TaskConservation, FixedCrew, ~Elastic, ~shutdown
    PROVE  Cardinality(Available) + Cardinality(Resident) >= minNum
<1> DEFINE Tied == {t \in Thread : pc[t] = "run" /\ task[t] \in Resident}
           f == [t \in Tied |-> task[t]]
<1>1. f \in Injection(Tied, Resident)
  <2>1. \A s, t \in Tied : task[s] = task[t] => s = t
    BY ConservationForm DEF Running
  <2> QED BY <2>1 DEF Injection, IsInjective
<1>2. IsFiniteSet(Tied) /\ Cardinality(Tied) <= Cardinality(Resident)
  <2> HIDE DEF f, Tied
  <2> QED BY <1>1, FS_Injection, PoolAssumption
<1>3. Alive = Available \cup Tied /\ Available \cap Tied = {}
  BY DEF Alive, Available
<1>4. IsFiniteSet(Available)
  BY FS_Subset, PoolAssumption DEF Available, Alive
<1>5. Cardinality(Alive) = Cardinality(Available) + Cardinality(Tied)
  <2> HIDE DEF f, Tied
  <2>1. Cardinality(Available \cap Tied) = 0
    BY <1>3, FS_EmptySet
  <2>2. Cardinality(Available) \in Nat /\ Cardinality(Tied) \in Nat
    BY <1>2, <1>4, FS_CardinalityType
  <2>3. Cardinality(Available \cup Tied)
          = Cardinality(Available) + Cardinality(Tied) - Cardinality(Available \cap Tied)
    BY <1>2, <1>4, FS_Union
  <2> QED BY <1>3, <2>1, <2>2, <2>3
<1>6. Cardinality(Alive) = minNum
  BY DEF FixedCrew
<1>7. /\ Cardinality(Available) \in Nat /\ Cardinality(Tied) \in Nat
      /\ Cardinality(Resident) \in Nat
  BY <1>2, <1>4, FS_CardinalityType, PoolAssumption
<1> QED
  BY <1>2, <1>5, <1>6, <1>7

\* The lost-wakeup window of AddTask costs a fixed-size pool at most one worker,
\* and strands no task.
THEOREM NoLostTask == Spec => [](ServiceLevel /\ NoStrandedTask)
<1> DEFINE IInv == /\ Typed /\ MutexInv /\ TaskConservation
                   /\ FixedCrew /\ ServiceLevel
<1>1. Init => IInv
  BY TypedInit, MutexInit, ConservationInit, FixedCrewInit, ServiceInit
<1>2. IInv /\ [Next]_vars => IInv'
  BY TypedStep, MutexStep, ConservationStep, FixedCrewStep, ServiceStep
<1>3. IInv => ServiceLevel /\ NoStrandedTask
  <2> SUFFICES ASSUME IInv, ~Elastic, ~shutdown,
                      minNum >= Cardinality(Resident) + 2, TaskBuf # <<>>
               PROVE  Active # {}
    BY DEF NoStrandedTask
  <2>1. Cardinality(Available) >= 2
    <3>1. IsFiniteSet(Available)
      BY FS_Subset, PoolAssumption DEF Available, Alive
    <3>2. Cardinality(Available) \in Nat /\ Cardinality(Resident) \in Nat
      BY <3>1, FS_CardinalityType, PoolAssumption
    <3> QED BY <3>2, EnoughAvailable, PoolAssumption
  <2>2. Len(TaskBuf) >= 1
    BY DEF Typed
  <2>3. IsFiniteSet(Active) /\ IsFiniteSet(Available)
    BY FS_Subset, PoolAssumption DEF Active, Available, Alive
  <2>4. Cardinality(Active) \in Nat /\ Cardinality(Available) \in Nat
    BY <2>3, FS_CardinalityType
  <2>5. Cardinality(Active) >= 1
    BY <2>1, <2>2, <2>4 DEF ServiceLevel, Typed
  <2>6. Cardinality({}) = 0
    BY FS_EmptySet
  <2>7. SUFFICES ASSUME Active = {} PROVE FALSE
    OBVIOUS
  <2>8. Cardinality(Active) = 0
    BY <2>6, <2>7
  <2> QED BY <2>5, <2>8
<1> QED
  BY <1>1, <1>2, <1>3, PTL DEF Spec
-----------------------------------------------------------------------------
(* The elastic pool: what ManagerThread believes about the crew.           *)

\* Once ManagerThread has its snapshot, workers may exit but none is created,
\* and at most one round of exits was pending.
SnapshotBounds ==
    mgr.pc = "decide" => /\ liveNum <= mgr.live
                         /\ liveNum - exitNum >= mgr.live - OnceDestroyNum

Exiting == main = "loop" <=> ~shutdown

LiveInv == Exiting /\ LiveCount /\ LiveBounds /\ SnapshotBounds

LEMMA LiveInit == Init => LiveInv
<1> SUFFICES ASSUME Init PROVE LiveInv
  OBVIOUS
<1>1. PICK S \in SUBSET Thread :
        /\ Cardinality(S) = minNum
        /\ pc = [t \in Thread |-> IF t \in S THEN "lock" ELSE "none"]
  BY DEF Init
<1>2. Alive = S
  BY <1>1 DEF Alive
<1>3. mgr.pc # "decide"
  BY DEF Init, Elastic
<1>4. LiveCount /\ LiveBounds
  BY <1>1, <1>2, PoolAssumption DEF Init, LiveCount, LiveBounds, OnceDestroyNum
<1>5. Exiting
  BY DEF Init, Exiting
<1> QED BY <1>3, <1>4, <1>5 DEF LiveInv, SnapshotBounds

\* A step that neither creates workers nor lets them go.
LEMMA LiveUnchanged ==
    ASSUME LiveInv, UNCHANGED <<liveNum, exitNum, mgr>>,
           main' = "loop" <=> ~shutdown',
           shutdown => shutdown',
           ~shutdown' => \A t \in Thread : pc'[t] \in {"none", "exited"}
                                              <=> pc[t] \in {"none", "exited"}
    PROVE  LiveInv'
<1>1. ~shutdown' => Alive' = Alive
  BY DEF Alive
<1>2. LiveCount'
  BY <1>1 DEF LiveInv, LiveCount
<1> QED BY <1>2 DEF LiveInv, Exiting, LiveBounds, SnapshotBounds

LEMMA LiveStep == Typed /\ LiveInv /\ [Next]_vars => LiveInv'
<1> SUFFICES ASSUME Typed, LiveInv, [Next]_vars PROVE LiveInv'
  OBVIOUS
<1> USE PoolAssumption
<1>0. /\ main = "loop" <=> ~shutdown
      /\ liveNum \in Int /\ exitNum \in 0..OnceDestroyNum /\ mgr.live \in Int
      /\ IsFiniteSet(Alive)
  <2>1. Alive \subseteq Thread
    BY DEF Alive
  <2> QED BY <2>1, FS_Subset DEF LiveInv, Exiting, Typed
<1>1. ASSUME NEW k \in Task, AddTask(k) PROVE LiveInv'
  BY <1>0, <1>1, NotifyEffect, LiveUnchanged DEF AddTask, NotifyOne, counters, others
<1>2. CASE Exit
  BY <1>0, <1>2, LiveUnchanged DEF Exit, counters
<1>3. CASE DtorNotify \/ DtorJoin
  BY <1>0, <1>3, LiveUnchanged DEF DtorNotify, DtorJoin, counters
<1>4. ASSUME NEW t \in Thread, WorkThread(t) PROVE LiveInv'
  <2>1. CASE Lock(t) \/ TestCondition(t) \/ Block(t) \/ TaskReturns(t)
    BY <1>0, <2>1, LiveUnchanged
       DEF Lock, TestCondition, Block, TaskReturns, Goto, Typed, counters, others
  <2>2. CASE CheckShutdown(t)
    BY <1>0, <2>2, LiveUnchanged DEF CheckShutdown, Goto, Typed, counters, others
  <2>3. CASE ExitOnRequest(t)
    <3>1. t \in Alive /\ Alive' = Alive \ {t}
      BY <2>3 DEF ExitOnRequest, Goto, Alive, Typed
    <3>2. Cardinality(Alive') = Cardinality(Alive) - 1
      BY <1>0, <3>1, FS_RemoveElement
    <3>3. /\ liveNum' = liveNum - 1 /\ exitNum' = exitNum - 1
          /\ UNCHANGED <<mgr, main, shutdown>>
      BY <2>3 DEF ExitOnRequest, others
    <3> QED
      BY <1>0, <3>2, <3>3 DEF LiveInv, Exiting, LiveCount, LiveBounds, SnapshotBounds, OnceDestroyNum
  <2>4. CASE GetTask(t) \/ EndTask(t)
    BY <1>0, <2>4, LiveUnchanged DEF GetTask, EndTask, Goto, Typed, others
  <2> QED
    BY <1>4, <2>1, <2>2, <2>3, <2>4 DEF WorkThread
<1>5. ASSUME NEW t \in Thread, SpuriousWake(t) PROVE LiveInv'
  BY <1>0, <1>5, LiveUnchanged DEF SpuriousWake, Goto, Typed, counters, others
<1>6. CASE ManagerWake \/ ManagerSnapshot \/ ManagerIdle
  <2>1. UNCHANGED <<pc, liveNum, exitNum, shutdown, main>>
    BY <1>6 DEF ManagerWake, ManagerSnapshot, ManagerIdle, counters
  <2>2. Alive' = Alive
    BY <2>1 DEF Alive
  <2>3. mgr'.pc = "decide" => mgr'.live = liveNum
    BY <1>6 DEF ManagerWake, ManagerSnapshot, ManagerIdle, ManagerRests, Typed
  <2> QED
    BY <1>0, <2>1, <2>2, <2>3
       DEF LiveInv, Exiting, LiveCount, LiveBounds, SnapshotBounds, OnceDestroyNum
<1>7. CASE ManagerCreate
  <2>1. PICK S \in SUBSET {t \in Thread : pc[t] = "none"} :
          /\ Cardinality(S) = CreateCount
          /\ pc' = [t \in Thread |-> IF t \in S THEN "lock" ELSE pc[t]]
    BY <1>7 DEF ManagerCreate
  <2>2. Alive' = Alive \cup S /\ Alive \cap S = {}
    BY <2>1 DEF Alive, Typed
  <2>3. Cardinality(Alive') = Cardinality(Alive) + CreateCount
    <3>1. IsFiniteSet(S) /\ Cardinality(Alive \cap S) = 0
      <4>1. S \subseteq Thread
        OBVIOUS
      <4> QED BY <2>2, <4>1, FS_Subset, FS_EmptySet
    <3>2. Cardinality(Alive \cup S) = Cardinality(Alive) + Cardinality(S) - Cardinality(Alive \cap S)
      BY <1>0, <3>1, FS_Union
    <3>3. Cardinality(Alive) \in Nat /\ Cardinality(S) \in Nat
      BY <1>0, <3>1, FS_CardinalityType
    <3> QED BY <2>1, <2>2, <3>1, <3>2, <3>3
  <2>4. CreateCount \in Nat /\ mgr.live + CreateCount <= maxNum /\ mgr.pc = "decide"
    BY <1>0, <1>7 DEF ManagerCreate, WantMore, CreateCount, OnceCreateNum
  <2>5. /\ liveNum' = liveNum + CreateCount /\ UNCHANGED <<exitNum, shutdown, main>>
        /\ mgr'.pc = "sleep"
    BY <1>7 DEF ManagerCreate, ManagerRests, Typed
  <2> QED
    BY <1>0, <2>3, <2>4, <2>5
       DEF LiveInv, Exiting, LiveCount, LiveBounds, SnapshotBounds, OnceDestroyNum
<1>8. CASE ManagerDestroy
  <2>1. /\ DestroyCount \in 0..OnceDestroyNum /\ mgr.live - DestroyCount >= minNum
        /\ mgr.pc = "decide"
    BY <1>0, <1>8 DEF ManagerDestroy, WantFewer, DestroyCount, OnceDestroyNum
  <2>2. Alive' = Alive
    <3>1. DestroyCount \in Int
      BY <2>1 DEF OnceDestroyNum
    <3> QED BY <1>8, <3>1, NotifyEffect DEF ManagerDestroy, Alive
  <2>3. /\ exitNum' = DestroyCount /\ UNCHANGED <<liveNum, shutdown, main>>
        /\ mgr'.pc = "sleep"
    BY <1>8 DEF ManagerDestroy, ManagerRests, Typed
  <2> QED
    BY <1>0, <2>1, <2>2, <2>3
       DEF LiveInv, Exiting, LiveCount, LiveBounds, SnapshotBounds, OnceDestroyNum
<1>9. CASE Recycle
  BY <1>0, <1>9, LiveUnchanged DEF Recycle, RecycleWake, RecycleScan, Typed, counters
<1>10. CASE UNCHANGED vars
  BY <1>0, <1>10, LiveUnchanged DEF vars, counters, others
<1> QED
  BY <1>1, <1>2, <1>3, <1>4, <1>5, <1>6, <1>7, <1>8, <1>9, <1>10 DEF Next, Main, Manager

LEMMA CrewInvariant == Spec => []LiveInv
<1>1. Init => Typed /\ LiveInv
  BY TypedInit, LiveInit
<1>2. Typed /\ LiveInv /\ [Next]_vars => Typed' /\ LiveInv'
  BY TypedStep, LiveStep
<1> QED
  BY <1>1, <1>2, PTL DEF Spec

\* In a pool of any size that grows and shrinks, the manager's stale snapshot
\* takes liveNum at most one round of exits below minNum and never above maxNum.
THEOREM CrewBounded == Spec => []LiveBounds
<1>1. LiveInv => LiveBounds
  BY DEF LiveInv
<1> QED
  BY <1>1, CrewInvariant, PTL

\* However creations by the manager and exits of the workers interleave,
\* liveNum is the number of workers there are until exit(2).
THEOREM CrewCounted == Spec => []LiveCount
<1>1. LiveInv => LiveCount
  BY DEF LiveInv
<1> QED
  BY <1>1, CrewInvariant, PTL
=============================================================================
