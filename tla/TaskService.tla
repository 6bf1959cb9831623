---------------------------- MODULE TaskService ----------------------------
(***************************************************************************)
(* What the thread pool promises to the code that calls CThread::AddTask:  *)
(* every task is accepted once, starts in the order of submission, is run  *)
(* by exactly one worker, and once finished is not run again.  There are   *)
(* no threads, mutexes or condition variables here.                        *)
(***************************************************************************)
EXTENDS Sequences

CONSTANT Task

VARIABLES
    queue,      \* submitted, not started: in the order of submission
    running,    \* started, not finished
    finished    \* finished

Accepted == {queue[i] : i \in DOMAIN queue} \cup running \cup finished

Init == queue = <<>> /\ running = {} /\ finished = {}

Submit(k) ==
    /\ k \notin Accepted
    /\ queue' = Append(queue, k)
    /\ UNCHANGED <<running, finished>>

Start ==
    /\ queue # <<>>
    /\ Head(queue) \notin running \cup finished
    /\ queue' = Tail(queue)
    /\ running' = running \cup {Head(queue)}
    /\ UNCHANGED finished

Finish(k) ==
    /\ k \in running
    /\ running' = running \ {k}
    /\ finished' = finished \cup {k}
    /\ UNCHANGED queue

Next == Start \/ \E k \in Task : Submit(k) \/ Finish(k)

Spec == Init /\ [][Next]_<<queue, running, finished>>
=============================================================================
