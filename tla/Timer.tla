------------------------------- MODULE Timer -------------------------------
(***************************************************************************)
(* The timers of a worker (app/ngx_c_timer.cpp) and the loop that serves   *)
(* them: wait in epoll for as long as the first timer allows, and when     *)
(* nothing else happened until then, fire that timer.                      *)
(*                                                                         *)
(* Timer_buf is a multiset ordered by the time a timer is due and then by  *)
(* its id; erase removes every element that is equal in that order.        *)
(* AddTimer takes no lock.  The main thread calls it between two waits     *)
(* (level-triggered epoll) and pool threads at any time (edge-triggered    *)
(* epoll), so that two accesses of the multiset may overlap, and two calls *)
(* may use the same id.  emplace takes time; the accesses of the main      *)
(* thread that overlap with it are the ones made before it has ended.      *)
(***************************************************************************)
EXTENDS Integers, FiniteSets

CONSTANTS
    Job,            \* calls of AddTimer
    Thread,         \* pool threads that make some of them
    Delays,         \* values of msec
    Counts,         \* values of count besides -1, for ever
    MaxTime         \* bound on the clock

ASSUME TimerAssumption ==
    /\ Delays \subseteq Nat \ {0}
    /\ Counts \subseteq Nat \ {0}
    /\ MaxTime \in Nat

VARIABLES
    now,
    Timer_buf,      \* the timers, each with the job it is for
    id,
    node,           \* the timer that each caller inside emplace is adding
    adding,         \* callers that have added a timer and not yet incremented id
    main,           \* "loop", "wait" or "undefined"
    deadline,       \* when the wait ends; Never
    asked,          \* history: what each job asked for
    fired,          \* history: when it fired
    raced,          \* history: two accesses of the multiset overlapped
    shared          \* history: two calls of AddTimer used id at the same time

Never == -1
Main == "main"
Caller == Thread \cup {Main}
mainVars == <<main, deadline>>
vars == <<now, Timer_buf, id, node, adding, mainVars, asked, fired, raced, shared>>

Init ==
    /\ now = 0
    /\ Timer_buf = {} /\ id = 0 /\ adding = {}
    /\ node = [c \in {} |-> 0]
    /\ main = "loop" /\ deadline = Never
    /\ asked = [j \in {} |-> 0]
    /\ fired = [j \in Job |-> {}]
    /\ raced = FALSE /\ shared = FALSE

-----------------------------------------------------------------------------
(* The order of the multiset.                                              *)

Less(t1, t2) ==
    t1.t_data < t2.t_data \/ (t1.t_data = t2.t_data /\ t1.t_id < t2.t_id)
Same(t1, t2) == ~Less(t1, t2) /\ ~Less(t2, t1)

\* begin(): one of the least; any of them in a tree that a race has broken.
Begin(t) == t \in Timer_buf /\ (raced' \/ \A u \in Timer_buf : ~Less(u, t))

\* What an operation leaves of the timers it should leave: in a broken tree it
\* may lose some.
Becomes(timers) == Timer_buf' \in IF raced' THEN SUBSET timers ELSE {timers}

\* An access of the multiset while another caller is inside emplace.
Access == raced' = (raced \/ DOMAIN node # {})

\* Mutant: the id is left out of the comparison.
DelTimer_ByTime(t) == {u \in Timer_buf : u.t_data # t.t_data}

DelTimer(t) == {u \in Timer_buf : ~Same(u, t)}

-----------------------------------------------------------------------------
(* AddTimer: by the main thread while it handles events, or by a pool      *)
(* thread.                                                                 *)

Extended(f, x, value) == [y \in DOMAIN f \cup {x} |-> IF y = x THEN value ELSE f[y]]

\* The time and id are read, and emplace begins.
AddTimer(c, j, msec, count) ==
    /\ c \notin DOMAIN node \cup adding
    /\ c = Main => main = "loop"
    /\ j \in Job \ DOMAIN asked
    /\ node' = Extended(node, c, [t_msec |-> msec, t_data |-> now + msec, t_id |-> id,
                                  t_count |-> count, job |-> j])
    /\ asked' = Extended(asked, j, [at |-> now, msec |-> msec, count |-> count])
    /\ Access
    /\ shared' = (shared \/ DOMAIN node \cup adding # {})
    /\ UNCHANGED <<now, Timer_buf, id, adding, mainVars, fired>>

\* emplace ends.
AddTimerEmplaced(c) ==
    /\ c \in DOMAIN node
    /\ UNCHANGED <<now, id, mainVars, asked, fired, raced, shared>>
    /\ Becomes(Timer_buf \cup {node[c]})
    /\ node' = [d \in DOMAIN node \ {c} |-> node[d]]
    /\ adding' = adding \cup {c}

\* id++
AddTimerIncrement(c) ==
    /\ c \in adding
    /\ id' = id + 1
    /\ adding' = adding \ {c}
    /\ UNCHANGED <<now, Timer_buf, node, mainVars, asked, fired, raced, shared>>

-----------------------------------------------------------------------------
(* The loop of ngx_worker_process_cycle.                                   *)

\* The main thread is not inside AddTimer.
Looping == main = "loop" /\ Main \notin DOMAIN node \cup adding

\* Mutant: the wait is a tick shorter than the first timer allows.
SetTime_Short ==
    /\ Looping
    /\ main' = "wait"
    /\ Access
    /\ \/ (Timer_buf = {} \/ raced') /\ deadline' = Never
       \/ \E t \in Timer_buf : Begin(t) /\ deadline' = t.t_data - 1
    /\ UNCHANGED <<now, Timer_buf, id, node, adding, asked, fired, shared>>

\* epoll_wait(SetTime()): not at all past a timer that is due.
SetTime ==
    /\ Looping
    /\ main' = "wait"
    /\ Access
    /\ \/ (Timer_buf = {} \/ raced') /\ deadline' = Never
       \/ \E t \in Timer_buf :
             Begin(t) /\ deadline' = IF t.t_data > now THEN t.t_data ELSE now
    /\ UNCHANGED <<now, Timer_buf, id, node, adding, asked, fired, shared>>

\* epoll_wait returns events: the timers are not looked at.
ngx_epoll_process_events ==
    /\ main = "wait"
    /\ main' = "loop" /\ deadline' = Never
    /\ UNCHANGED <<now, Timer_buf, id, node, adding, asked, fired, raced, shared>>

Rearmed(t) == [t EXCEPT !.t_data = now + t.t_msec,
                        !.t_count = IF @ > 1 THEN @ - 1 ELSE @]

\* Mutant: a timer that fires again is not put back.
CheckTimer_Once ==
    \E t \in Timer_buf :
       /\ Begin(t)
       /\ fired' = [fired EXCEPT ![t.job] = @ \cup {now}]
       /\ Becomes(DelTimer(t))

\* epoll_wait returned 0: the first timer fires, and is put back if it has to
\* fire again.
CheckTimer ==
    \E t \in Timer_buf :
       /\ Begin(t)
       /\ fired' = [fired EXCEPT ![t.job] = @ \cup {now}]
       /\ Becomes(DelTimer(t) \cup IF t.t_count = 1 THEN {} ELSE {Rearmed(t)})

\* CheckTimer does not ask whether there is a timer.
TimedOut ==
    /\ main = "wait"
    /\ deadline # Never /\ now >= deadline
    /\ deadline' = Never
    /\ Access
    /\ \/ CheckTimer /\ main' = "loop"
       \/ Timer_buf = {} /\ main' = "undefined" /\ UNCHANGED <<Timer_buf, fired>>
    /\ UNCHANGED <<now, id, node, adding, asked, shared>>

Tick ==
    /\ now < MaxTime
    /\ now' = now + 1
    /\ UNCHANGED <<Timer_buf, id, node, adding, mainVars, asked, fired, raced, shared>>

-----------------------------------------------------------------------------
Add(c) ==
    \/ \E j \in Job, msec \in Delays, count \in Counts \cup {-1} :
          now + msec <= MaxTime /\ AddTimer(c, j, msec, count)
    \/ AddTimerEmplaced(c) \/ AddTimerIncrement(c)

Next ==
    \/ \E c \in Caller : Add(c)
    \/ SetTime \/ ngx_epoll_process_events \/ TimedOut
    \/ Tick

Spec == Init /\ [][Next]_vars

\* Time passes, the loop goes on, and a call of AddTimer ends.
FairSpec ==
    /\ Spec
    /\ WF_vars(Tick) /\ WF_vars(SetTime) /\ WF_vars(TimedOut)
    /\ \A c \in Caller : WF_vars(AddTimerEmplaced(c) \/ AddTimerIncrement(c))

-----------------------------------------------------------------------------
(* Properties.                                                             *)

\* No timer fires before its time, nor again before its time has passed once
\* more, nor more often than it was asked to, whatever is added while the loop
\* waits and even if two timers have the same id: a closed connection is not
\* reused early, and not released twice.  Unless two accesses of the multiset
\* have overlapped.
FiresAsAsked ==
    ~raced => \A j \in DOMAIN asked :
        /\ \A x \in fired[j] : x >= asked[j].at + asked[j].msec
        /\ \A x, y \in fired[j] : x < y => y - x >= asked[j].msec
        /\ asked[j].count # -1 => Cardinality(fired[j]) <= asked[j].count

\* A timer is in the buffer, or on its way into it, until it has fired for the
\* last time: DelTimer removes no other.  Unless two accesses of the multiset
\* have overlapped, or two calls of AddTimer have used the same id.
NoTimerLost ==
    ~raced /\ ~shared => \A j \in DOMAIN asked :
        \/ \E t \in Timer_buf : t.job = j
        \/ \E c \in DOMAIN node : node[c].job = j
        \/ Cardinality(fired[j]) = asked[j].count

\* The loop does not know of the job's timer, and waits for no other, or for one
\* that is due after the last tick of the clock.
Overlooked(j) ==
    /\ main = "wait" /\ (deadline = Never \/ deadline > MaxTime)
    /\ \E t \in Timer_buf : t.job = j

\* Every timer fires, also one that was added while the loop waited for another,
\* if waits are not cut short by events for ever.  Unless it was added while the
\* loop waited for no timer at all, or calls raced with each other.
EveryTimerFires ==
    \/ []<><<ngx_epoll_process_events>>_vars
    \/ \A j \in Job :
          j \in DOMAIN asked ~> (fired[j] # {} \/ Overlooked(j) \/ raced \/ shared)
=============================================================================
