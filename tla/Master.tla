------------------------------- MODULE Master -------------------------------
(***************************************************************************)
(* The master process (proc/ngx_process_cycle.cpp) and its SIGCHLD handler *)
(* (signal/ngx_signal.cpp).  Signals are blocked except inside sigsuspend; *)
(* of several SIGCHLD that arrive meanwhile only one stays pending.        *)
(***************************************************************************)
EXTENDS Integers, FiniteSets

CONSTANT MaxWorkers     \* bound on the number of workers

ASSUME MasterAssumption == MaxWorkers \in Nat

Worker == 0..(MaxWorkers - 1)

VARIABLES
    proc,       \* "none", "failed", "init", "running", "stuck", "zombie" or "reaped"
    workernum,  \* the number of workers configured
    inum,       \* the next worker to fork
    master,     \* "start", "fork", "sigsuspend" or "sleep"
    sigchld,    \* SIGCHLD is pending
    ngx_reap    \* set by the handler

masterVars == <<proc, workernum, inum, master, sigchld, ngx_reap>>

MasterInit ==
    /\ proc = [w \in Worker |-> "none"]
    /\ workernum = 0
    /\ inum = 0
    /\ master = "start"
    /\ sigchld = FALSE
    /\ ngx_reap = 0

\* ngx_master_process_cycle up to the workers, of which there will be n.
StartMaster(n) ==
    /\ master = "start"
    /\ master' = "fork"
    /\ workernum' = n
    /\ UNCHANGED <<proc, inum, sigchld, ngx_reap>>

\* fork may fail, which is logged and no more.
ngx_spawn_process ==
    /\ master = "fork"
    /\ inum < workernum
    /\ \E r \in {"init", "failed"} : proc' = [proc EXCEPT ![inum] = r]
    /\ inum' = inum + 1
    /\ UNCHANGED <<workernum, master, sigchld, ngx_reap>>

EnterLoop ==
    /\ master = "fork"
    /\ inum >= workernum
    /\ master' = "sigsuspend"
    /\ UNCHANGED <<proc, workernum, inum, sigchld, ngx_reap>>

Alive == {"init", "running", "stuck"}

\* Mutant: SIGCHLD is lost unless the master waits for it.
WorkerExits_Unblocked(w) ==
    /\ proc[w] \in Alive
    /\ proc' = [proc EXCEPT ![w] = "zombie"]
    /\ sigchld' = (master = "sigsuspend" \/ sigchld)
    /\ UNCHANGED <<workernum, inum, master, ngx_reap>>

\* A worker exits or is killed.
WorkerExits(w) ==
    /\ proc[w] \in Alive
    /\ proc' = [proc EXCEPT ![w] = "zombie"]
    /\ sigchld' = TRUE
    /\ UNCHANGED <<workernum, inum, master, ngx_reap>>

Zombies == {w \in Worker : proc[w] = "zombie"}
Reaped == {w \in Worker : proc[w] = "reaped"}

\* The loop ends with the first child that waitpid returns.
ngx_process_get_status ==
    \/ Zombies = {} /\ UNCHANGED proc
    \/ \E w \in Zombies : proc' = [proc EXCEPT ![w] = "reaped"]

ngx_signal_handler ==
    /\ master = "sigsuspend"
    /\ sigchld
    /\ sigchld' = FALSE
    /\ ngx_reap' = 1
    /\ ngx_process_get_status
    /\ master' = "sleep"
    /\ UNCHANGED <<workernum, inum>>

\* Any other signal is logged.
OtherSignal ==
    /\ master = "sigsuspend"
    /\ master' = "sleep"
    /\ UNCHANGED <<proc, workernum, inum, sigchld, ngx_reap>>

WakeUp ==
    /\ master = "sleep"
    /\ master' = "sigsuspend"
    /\ UNCHANGED <<proc, workernum, inum, sigchld, ngx_reap>>

-----------------------------------------------------------------------------
\* The first of the workers that die, also while the others are still being
\* forked, is reaped.
FirstReaped == (Zombies # {}) ~> (Reaped # {})
=============================================================================
