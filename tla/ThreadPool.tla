----------------------------- MODULE ThreadPool -----------------------------
(***************************************************************************)
(* The worker-thread pool CThread of misc/ngx_c_threadpool.cpp, together   *)
(* with the main thread that feeds it (AddTask) and, at exit(2), destroys  *)
(* it.                                                                     *)
(*                                                                         *)
(* Workers block on the condition variable NotEmpty with CThreadMutex,     *)
(* whereas AddTask pushes and notifies under the other mutex, TQMutex, and *)
(* the destructor notifies under no mutex at all.  A notify may therefore  *)
(* fall between a worker's test of the wait predicate and its going to     *)
(* sleep; the pc value "block" is that window.  Everything done under      *)
(* TQMutex is one step, because TQMutex is never held across another       *)
(* thread's step.                                                          *)
(***************************************************************************)
EXTENDS Integers, Sequences, FiniteSets

CONSTANTS
    Thread,     \* identities of ThreadBuf entries; bounds how many exist at once
    Task,       \* the calls of AddTask, each its own identity; bounds their number
    Resident,   \* the tasks that never return (ngx_time_check, ngx_timer_free_connection)
    NoTask,     \* a worker's task before its first GetTask
    minNum,     \* Tmin
    maxNum,     \* Tmax
    Spurious    \* whether the condition variable may wake a thread by itself

ASSUME PoolAssumption ==
    /\ IsFiniteSet(Thread) /\ IsFiniteSet(Resident)
    /\ Resident \subseteq Task
    /\ NoTask \notin Task
    /\ minNum \in Nat /\ maxNum \in Nat
    /\ minNum <= maxNum
    /\ maxNum <= Cardinality(Thread)
    /\ Spurious \in BOOLEAN

OnceCreateNum == 2
OnceDestroyNum == 2

VARIABLES
    pc,        \* where each worker stands in WorkThread
    task,      \* WorkThread's local variable task
    TaskBuf,   \* the queue of tasks
    busyNum, liveNum, exitNum, shutdown,
    mgr,       \* ManagerThread: its control point and its local snapshot
    rec,       \* RecycleThread: its control point
    main,      \* the main thread: its control point in ~CThread
    sent,      \* ~CThread: the loop index of the notify loop
    added,     \* history: the tasks ever passed to AddTask
    done       \* history: the tasks whose call returned

counters == <<busyNum, liveNum, exitNum>>
others == <<mgr, rec, main, sent>>
vars == <<pc, task, TaskBuf, counters, shutdown, others, added, done>>

PC == {"none",      \* no such thread (never created, or joined and erased)
       "lock",      \* top of the loop: wants CThreadMutex
       "test",      \* holds CThreadMutex, evaluates the predicate
       "block",     \* holds CThreadMutex, predicate was false, not asleep yet
       "wait",      \* asleep in NotEmpty.wait, CThreadMutex released
       "woken",     \* notified, wants CThreadMutex back
       "checked",   \* holds CThreadMutex, predicate was true
       "take",      \* holds CThreadMutex, has seen shutdown = false
       "run",       \* runs its task without CThreadMutex
       "relock",    \* task returned, wants CThreadMutex for busyNum--
       "exited"}    \* returned from WorkThread

\* The control points at which a worker holds CThreadMutex.
Critical == {"test", "block", "checked", "take"}
\* Mutant: the mutex excludes nobody.
MutexFree_Ignored == TRUE
MutexFree == \A t \in Thread : pc[t] \notin Critical

Waiting == {t \in Thread : pc[t] = "wait"}
Busy == {t \in Thread : pc[t] \in {"run", "relock"}}
Alive == {t \in Thread : pc[t] \notin {"none", "exited"}}
Running == {t \in Thread : pc[t] = "run"}

\* Tmin < Tmax is what starts ManagerThread and RecycleThread.
Elastic == minNum < maxNum

Init ==
    /\ \E S \in SUBSET Thread :
          /\ Cardinality(S) = minNum
          /\ pc = [t \in Thread |-> IF t \in S THEN "lock" ELSE "none"]
    /\ task = [t \in Thread |-> NoTask]
    /\ TaskBuf = <<>>
    /\ busyNum = 0
    /\ liveNum = minNum
    /\ exitNum = 0
    /\ shutdown = FALSE
    /\ mgr = [pc |-> IF Elastic THEN "sleep" ELSE "exited",
              busy |-> 0, live |-> 0, tasknum |-> 0]
    /\ rec = IF Elastic THEN "sleep" ELSE "exited"
    /\ main = "loop"
    /\ sent = 0
    /\ added = {}
    /\ done = {}

-----------------------------------------------------------------------------
(* The condition variable.                                                 *)

\* n calls of NotEmpty.notify_one, on top of the worker states p.
NotifyN(p, n) ==
    LET asleep == {t \in Thread : p[t] = "wait"} IN
    \E S \in SUBSET asleep :
        /\ Cardinality(S) = IF Cardinality(asleep) < n THEN Cardinality(asleep) ELSE n
        /\ pc' = [t \in Thread |-> IF t \in S THEN "woken" ELSE p[t]]

NotifyOne == NotifyN(pc, 1)

-----------------------------------------------------------------------------
(* The main thread.                                                        *)

\* Mutant: AddTask without its notify_one.
AddTask_NoNotify(k) ==
    /\ main = "loop"
    /\ k \notin added
    /\ k \in Resident \/ Resident \subseteq added
    /\ TaskBuf' = Append(TaskBuf, k)
    /\ added' = added \cup {k}
    /\ UNCHANGED <<pc, task, counters, shutdown, others, done>>

\* ngx_epoll_init queues the resident tasks before the event loop starts.
AddTask(k) ==
    /\ main = "loop"
    /\ k \notin added
    /\ k \in Resident \/ Resident \subseteq added
    /\ TaskBuf' = Append(TaskBuf, k)
    /\ added' = added \cup {k}
    /\ NotifyOne
    /\ UNCHANGED <<task, counters, shutdown, others, done>>

\* exit(2) in ngx_epoll_init, before or after both resident tasks are queued,
\* runs the static destructor: ~CThread sets shutdown without a lock.
Exit ==
    /\ main = "loop"
    /\ added \in {{}, Resident}
    /\ main' = "notify"
    /\ shutdown' = TRUE
    /\ UNCHANGED <<pc, task, TaskBuf, counters, mgr, rec, sent, added, done>>

\* Mutant: the loop stops one notify short.
DtorNotify_OneShort ==
    /\ main = "notify"
    /\ IF sent + 1 < liveNum
       THEN /\ sent' = sent + 1
            /\ NotifyOne
            /\ UNCHANGED main
       ELSE /\ main' = "join"
            /\ UNCHANGED <<pc, sent>>
    /\ UNCHANGED <<task, TaskBuf, counters, shutdown, mgr, rec, added, done>>

DtorNotify ==
    /\ main = "notify"
    /\ IF sent < liveNum
       THEN /\ sent' = sent + 1
            /\ NotifyOne
            /\ UNCHANGED main
       ELSE /\ main' = "join"
            /\ UNCHANGED <<pc, sent>>
    /\ UNCHANGED <<task, TaskBuf, counters, shutdown, mgr, rec, added, done>>

\* fut.get() and work.join() on every entry, then Manager and Recycle.
DtorJoin ==
    /\ main = "join"
    /\ Alive = {}
    /\ mgr.pc = "exited"
    /\ rec = "exited"
    /\ main' = "gone"
    /\ pc' = [t \in Thread |-> "none"]
    /\ UNCHANGED <<task, TaskBuf, counters, shutdown, mgr, rec, sent, added, done>>

-----------------------------------------------------------------------------
(* WorkThread.                                                             *)

Goto(t, from, to) ==
    /\ pc[t] = from
    /\ pc' = [pc EXCEPT ![t] = to]

Lock(t) ==
    /\ MutexFree
    /\ Goto(t, "lock", "test") \/ Goto(t, "woken", "test")
    /\ UNCHANGED <<task, TaskBuf, counters, shutdown, others, added, done>>

Condition == TaskBuf # <<>> \/ shutdown \/ exitNum > 0

TestCondition(t) ==
    /\ Goto(t, "test", IF Condition THEN "checked" ELSE "block")
    /\ UNCHANGED <<task, TaskBuf, counters, shutdown, others, added, done>>

\* Release CThreadMutex and fall asleep, atomically.
Block(t) ==
    /\ Goto(t, "block", "wait")
    /\ UNCHANGED <<task, TaskBuf, counters, shutdown, others, added, done>>

SpuriousWake(t) ==
    /\ Spurious
    /\ Goto(t, "wait", "woken")
    /\ UNCHANGED <<task, TaskBuf, counters, shutdown, others, added, done>>

CheckShutdown(t) ==
    /\ Goto(t, "checked", IF shutdown THEN "exited" ELSE "take")
    /\ UNCHANGED <<task, TaskBuf, counters, shutdown, others, added, done>>

\* Mutant: the exit branch forgets liveNum--.
ExitOnRequest_KeepsLive(t) ==
    /\ exitNum > 0
    /\ Goto(t, "take", "exited")
    /\ exitNum' = exitNum - 1
    /\ UNCHANGED <<task, TaskBuf, busyNum, liveNum, shutdown, others, added, done>>

\* A worker asked to exit does so before it looks at the queue.
ExitOnRequest(t) ==
    /\ exitNum > 0
    /\ Goto(t, "take", "exited")
    /\ exitNum' = exitNum - 1
    /\ liveNum' = liveNum - 1
    /\ UNCHANGED <<task, TaskBuf, busyNum, shutdown, others, added, done>>

\* Mutants: GetTask without pop; taking the newest task; the task is started
\* without busyNum++.
GetTask_NoPop(t) ==
    /\ exitNum = 0 /\ TaskBuf # <<>>
    /\ Goto(t, "take", "run")
    /\ task' = [task EXCEPT ![t] = Head(TaskBuf)]
    /\ busyNum' = busyNum + 1
    /\ UNCHANGED <<TaskBuf, liveNum, exitNum, shutdown, others, added, done>>
GetTask_Newest(t) ==
    /\ exitNum = 0 /\ TaskBuf # <<>>
    /\ Goto(t, "take", "run")
    /\ task' = [task EXCEPT ![t] = TaskBuf[Len(TaskBuf)]]
    /\ TaskBuf' = SubSeq(TaskBuf, 1, Len(TaskBuf) - 1)
    /\ busyNum' = busyNum + 1
    /\ UNCHANGED <<liveNum, exitNum, shutdown, others, added, done>>
GetTask_NotBusy(t) ==
    /\ exitNum = 0 /\ TaskBuf # <<>>
    /\ Goto(t, "take", "run")
    /\ task' = [task EXCEPT ![t] = Head(TaskBuf)]
    /\ TaskBuf' = Tail(TaskBuf)
    /\ UNCHANGED <<counters, shutdown, others, added, done>>

\* A worker that finds the queue empty ("Get Task failed") goes back to the top
\* of the loop.
GetTask(t) ==
    /\ exitNum = 0
    /\ IF TaskBuf = <<>>
       THEN /\ Goto(t, "take", "lock")
            /\ UNCHANGED <<task, TaskBuf, busyNum>>
       ELSE /\ Goto(t, "take", "run")
            /\ task' = [task EXCEPT ![t] = Head(TaskBuf)]
            /\ TaskBuf' = Tail(TaskBuf)
            /\ busyNum' = busyNum + 1
    /\ UNCHANGED <<liveNum, exitNum, shutdown, others, added, done>>

TaskReturns(t) ==
    /\ task[t] \notin Resident
    /\ Goto(t, "run", "relock")
    /\ done' = done \cup {task[t]}
    /\ UNCHANGED <<task, TaskBuf, counters, shutdown, others, added>>

\* CTlock.lock(); busyNum--; and the unlock at the end of the iteration.
EndTask(t) ==
    /\ MutexFree
    /\ Goto(t, "relock", "lock")
    /\ busyNum' = busyNum - 1
    /\ UNCHANGED <<task, TaskBuf, liveNum, exitNum, shutdown, others, added, done>>

WorkThread(t) ==
    \/ Lock(t) \/ TestCondition(t) \/ Block(t) \/ CheckShutdown(t)
    \/ ExitOnRequest(t) \/ GetTask(t)
    \/ TaskReturns(t) \/ EndTask(t)

-----------------------------------------------------------------------------
(* ManagerThread and RecycleThread, started when Tmin < Tmax.  Their       *)
(* sleeps are not modelled as time: a round may begin at any moment.       *)

ManagerWake ==
    /\ mgr.pc = "sleep"
    /\ mgr' = [mgr EXCEPT !.pc = IF shutdown THEN "exited" ELSE "snapshot"]
    /\ UNCHANGED <<pc, task, TaskBuf, counters, shutdown, rec, main, sent, added, done>>

ManagerSnapshot ==
    /\ mgr.pc = "snapshot"
    /\ MutexFree
    /\ mgr' = [pc |-> "decide", busy |-> busyNum, live |-> liveNum, tasknum |-> Len(TaskBuf)]
    /\ UNCHANGED <<pc, task, TaskBuf, counters, shutdown, rec, main, sent, added, done>>

WantMore == mgr.live < maxNum /\ mgr.tasknum # 0
WantFewer == ~WantMore /\ mgr.live > minNum /\ mgr.busy * 2 < mgr.live

ManagerRests == mgr' = [mgr EXCEPT !.pc = "sleep"]

CreateCount == IF mgr.live + OnceCreateNum <= maxNum THEN OnceCreateNum ELSE maxNum - mgr.live

ManagerCreate ==
    /\ mgr.pc = "decide"
    /\ WantMore
    /\ MutexFree
    /\ \E S \in SUBSET {t \in Thread : pc[t] = "none"} :
          /\ Cardinality(S) = CreateCount
          /\ pc' = [t \in Thread |-> IF t \in S THEN "lock" ELSE pc[t]]
    /\ liveNum' = liveNum + CreateCount
    /\ ManagerRests
    /\ UNCHANGED <<task, TaskBuf, busyNum, exitNum, shutdown, rec, main, sent, added, done>>

\* Mutant: always a full round of exits.
DestroyCount_Unbounded == OnceDestroyNum

DestroyCount == IF mgr.live - OnceDestroyNum >= minNum THEN OnceDestroyNum ELSE mgr.live - minNum

ManagerDestroy ==
    /\ mgr.pc = "decide"
    /\ WantFewer
    /\ MutexFree
    /\ exitNum' = DestroyCount
    /\ NotifyN(pc, DestroyCount)
    /\ ManagerRests
    /\ UNCHANGED <<task, TaskBuf, busyNum, liveNum, shutdown, rec, main, sent, added, done>>

ManagerIdle ==
    /\ mgr.pc = "decide"
    /\ ~WantMore
    /\ ~WantFewer
    /\ ManagerRests
    /\ UNCHANGED <<pc, task, TaskBuf, counters, shutdown, rec, main, sent, added, done>>

RecycleWake ==
    /\ rec = "sleep"
    /\ rec' = IF shutdown THEN "exited" ELSE "scan"
    /\ UNCHANGED <<pc, task, TaskBuf, counters, shutdown, mgr, main, sent, added, done>>

\* Entries whose future is already ready are joined and erased; a worker that
\* has only just returned may be missed until the next round.
RecycleScan ==
    /\ rec = "scan"
    /\ MutexFree
    /\ \E S \in SUBSET {t \in Thread : pc[t] = "exited"} :
          pc' = [t \in Thread |-> IF t \in S THEN "none" ELSE pc[t]]
    /\ rec' = "sleep"
    /\ UNCHANGED <<task, TaskBuf, counters, shutdown, mgr, main, sent, added, done>>

Manager == ManagerWake \/ ManagerSnapshot \/ ManagerCreate \/ ManagerDestroy \/ ManagerIdle
Recycle == RecycleWake \/ RecycleScan

-----------------------------------------------------------------------------
Main == (\E k \in Task : AddTask(k)) \/ Exit \/ DtorNotify \/ DtorJoin

Next ==
    \/ Main
    \/ \E t \in Thread : WorkThread(t) \/ SpuriousWake(t)
    \/ Manager
    \/ Recycle

Spec == Init /\ [][Next]_vars

\* Every thread that can take a step goes on taking steps: the operating system
\* schedules it, and a free mutex is eventually granted to one of those that
\* want it.  A wake-up without a notify is never owed, and neither is a call of
\* AddTask or exit.
FairSpec ==
    /\ Spec
    /\ \A t \in Thread : WF_vars(WorkThread(t))
    /\ WF_vars(DtorNotify \/ DtorJoin)
    /\ WF_vars(Manager)
    /\ WF_vars(Recycle)

-----------------------------------------------------------------------------
(* Properties.                                                             *)

\* The type invariant; in particular no counter of the pool goes negative.
TypeOK ==
    /\ pc \in [Thread -> PC]
    /\ task \in [Thread -> Task \cup {NoTask}]
    /\ TaskBuf \in Seq(Task)
    /\ busyNum \in Nat /\ liveNum \in Int /\ exitNum \in 0..OnceDestroyNum
    /\ shutdown \in BOOLEAN
    /\ mgr \in [pc : {"sleep", "snapshot", "decide", "exited"},
                busy : Nat, live : Int, tasknum : Nat]
    /\ rec \in {"sleep", "scan", "exited"}
    /\ main \in {"loop", "notify", "join", "gone"}
    /\ sent \in Nat
    /\ added \subseteq Task /\ done \subseteq Task

\* CThreadMutex serialises everything between a worker's wake-up and the end of
\* its GetTask.
MutualExclusion ==
    \A s, t \in Thread : pc[s] \in Critical /\ pc[t] \in Critical => s = t

\* The branch "Get Task failed" of WorkThread is never taken: a worker that
\* left NotEmpty.wait because the queue was not empty still finds a task in it,
\* although the predicate and GetTask lock TQMutex separately.
GetTaskNeverFails ==
    \A t \in Thread : pc[t] = "take" /\ exitNum = 0 => TaskBuf # <<>>

Queued == {TaskBuf[i] : i \in DOMAIN TaskBuf}

\* No task passed to AddTask is lost, queued twice, or run by two workers.
TaskConservation ==
    /\ added = Queued \cup {task[t] : t \in Running} \cup done
    /\ \A i, j \in DOMAIN TaskBuf : TaskBuf[i] = TaskBuf[j] => i = j
    /\ \A s, t \in Running : task[s] = task[t] => s = t
    /\ Queued \cap {task[t] : t \in Running} = {}
    /\ Queued \cap done = {}
    /\ {task[t] : t \in Running} \cap done = {}

\* busyNum, from which ManagerThread decides to shrink the pool, is the number
\* of workers that are running a task or have yet to record its end.
BusyCount == busyNum = Cardinality(Busy)

\* liveNum is the number of workers that have not returned from WorkThread.
LiveCount == ~shutdown => liveNum = Cardinality(Alive)

\* ManagerThread decides on a snapshot taken before it gave the mutex back, and
\* still never grows the pool beyond maxNum; but it may shrink it below minNum,
\* when workers exit between its snapshot and its decision, though never by more
\* than one round of OnceDestroyNum.
LiveBounds == liveNum <= maxNum /\ liveNum - exitNum >= minNum - OnceDestroyNum

\* The workers that are not tied up by a resident task, and those among them
\* that will look at the queue again without being notified.
Available == {t \in Alive : ~(pc[t] = "run" /\ task[t] \in Resident)}
Active == {t \in Available : pc[t] \notin {"block", "wait"}}

\* A notify may be lost in the window between a worker's test of the predicate
\* and its falling asleep, since AddTask does not take CThreadMutex.  In a pool
\* of fixed size the loss costs at most one worker: as many workers as there
\* are queued tasks, or all available ones but one, are on their way to the queue.
ServiceLevel ==
    ~Elastic /\ ~shutdown =>
        \/ Cardinality(Active) >= Len(TaskBuf)
        \/ Cardinality(Active) + 1 >= Cardinality(Available)

\* Hence no queued task waits for a notify that was lost, as long as two
\* workers remain besides those given to the resident tasks.
NoStrandedTask ==
    ~Elastic /\ ~shutdown /\ minNum >= Cardinality(Resident) + 2 /\ TaskBuf # <<>>
        => Active # {}

\* Every task that returns is eventually run to its end.
EveryTaskRuns ==
    \A k \in Task \ Resident : k \in added ~> k \in done

\* exit(2) ends the process if every worker is asleep when it begins: then the
\* destructor's notifies reach them all, ManagerThread and RecycleThread see
\* shutdown too, and the joins of ~CThread complete.  (A worker that is about to
\* fall asleep may miss the notify, which is sent under no mutex.)
ExitCompletes ==
    main = "notify" /\ sent = 0 /\ Alive = Waiting ~> main = "gone"

\* The pool implements the abstract service.
Service == INSTANCE TaskService WITH
               queue <- TaskBuf,
               running <- {task[t] : t \in Running},
               finished <- done
ServiceSpec == Service!Spec
=============================================================================
