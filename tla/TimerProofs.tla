----------------------------- MODULE TimerProofs -----------------------------
(***************************************************************************)
(* Theorems about Timer, for every number of jobs, threads and delays.     *)
(***************************************************************************)
EXTENDS Timer, FiniteSetTheorems, TLAPS

Stored == [t_msec : Delays, t_data : Nat, t_id : Nat, t_count : Nat \cup {-1}, job : Job]
Request == [at : Nat, msec : Delays, count : Counts \cup {-1}]

Typed ==
    /\ now \in Nat /\ id \in Nat /\ deadline \in Int
    /\ Timer_buf \subseteq Stored
    /\ node \in [DOMAIN node -> Stored]
    /\ DOMAIN asked \subseteq Job /\ asked \in [DOMAIN asked -> Request]
    /\ fired \in [Job -> SUBSET Nat]
    /\ raced \in BOOLEAN /\ shared \in BOOLEAN

Finite == \A j \in Job : IsFiniteSet(fired[j])

\* What a timer still owes: it is due no earlier than its job allows, and fires
\* as often as remains.
TimerOK(t) ==
    /\ t.job \in DOMAIN asked
    /\ t.t_msec = asked[t.job].msec
    /\ t.t_data >= asked[t.job].at + t.t_msec
    /\ \A x \in fired[t.job] : t.t_data >= x + t.t_msec
    /\ IF asked[t.job].count = -1 THEN t.t_count = -1
       ELSE t.t_count > 0 /\ Cardinality(fired[t.job]) + t.t_count = asked[t.job].count

TimersOK ==
    /\ \A t \in Timer_buf : TimerOK(t)
    /\ \A c \in DOMAIN node : TimerOK(node[c])
OnePerJob ==
    /\ \A t, u \in Timer_buf : t.job = u.job => t = u
    /\ \A c \in DOMAIN node, t \in Timer_buf : t.job # node[c].job
NotAsked == \A j \in Job \ DOMAIN asked : fired[j] = {}

\* No caller is inside emplace with another.
OneInside == \A c, d \in DOMAIN node : c = d

\* As long as no two calls used id at the same time, ids are given once.
IdsUnique ==
    ~shared => /\ \A c, d \in adding : c = d
               /\ DOMAIN node # {} => adding = {}
               /\ \A c \in DOMAIN node : node[c].t_id = id
               /\ \A t \in Timer_buf : t.t_id < id \/ (adding # {} /\ t.t_id = id)
               /\ \A t, u \in Timer_buf : t.t_id = u.t_id => t = u

\* While the loop waits for a timer, one that is due by then stays in the buffer.
DueAtDeadline ==
    main = "wait" /\ deadline # Never => \E t \in Timer_buf : t.t_data <= deadline

\* What holds until two accesses of the multiset overlap.
Good ==
    /\ Finite /\ TimersOK /\ OnePerJob /\ NotAsked /\ OneInside
    /\ IdsUnique /\ DueAtDeadline /\ FiresAsAsked /\ NoTimerLost

IInv == Typed /\ (~raced => Good)

LEMMA TimerInit == Init => IInv
<1> SUFFICES ASSUME Init PROVE IInv
  OBVIOUS
<1>1. /\ DOMAIN asked = {} /\ Timer_buf = {} /\ adding = {} /\ DOMAIN node = {}
      /\ \A j \in Job : fired[j] = {}
  BY DEF Init
<1>2. Typed
  <2>1. asked \in [DOMAIN asked -> Request] /\ node \in [DOMAIN node -> Stored]
    BY <1>1 DEF Init
  <2>2. fired \in [Job -> SUBSET Nat]
    BY DEF Init
  <2>3. now \in Nat /\ id \in Nat
    BY DEF Init
  <2>4. deadline \in Int
    BY DEF Init, Never
  <2>5. raced \in BOOLEAN /\ shared \in BOOLEAN
    BY DEF Init
  <2> QED BY <1>1, <2>1, <2>2, <2>3, <2>4, <2>5 DEF Typed
<1>3. Finite
  BY <1>1, FS_EmptySet DEF Finite
<1> QED
  BY <1>1, <1>2, <1>3 DEF IInv, Good, TimersOK, OnePerJob, NotAsked, OneInside, IdsUnique,
                          DueAtDeadline, FiresAsAsked, NoTimerLost, Init

\* A new timer is due a full delay from now, and its job has not fired.
LEMMA AddTimerInv ==
    ASSUME IInv, NEW c, NEW j \in Job, NEW msec \in Delays, NEW count \in Counts \cup {-1},
           AddTimer(c, j, msec, count)
    PROVE  IInv'
<1> USE TimerAssumption
<1> DEFINE new == [t_msec |-> msec, t_data |-> now + msec, t_id |-> id, t_count |-> count,
                   job |-> j]
           req == [at |-> now, msec |-> msec, count |-> count]
<1>1. PICK n \in Stored : n = new
  <2>1. now + msec \in Nat /\ id \in Nat /\ count \in Nat \cup {-1}
    BY DEF IInv, Typed
  <2> QED BY <2>1 DEF Stored
<1>2. /\ n.t_msec = msec /\ n.t_data = now + msec /\ n.t_id = id
      /\ n.t_count = count /\ n.job = j
  BY <1>1
<1>3. /\ j \notin DOMAIN asked
      /\ DOMAIN asked' = DOMAIN asked \cup {j} /\ asked'[j] = req
      /\ \A i \in DOMAIN asked : asked'[i] = asked[i]
      /\ raced' = (raced \/ DOMAIN node # {})
      /\ shared' = (shared \/ DOMAIN node \cup adding # {})
      /\ UNCHANGED <<now, Timer_buf, id, adding, main, deadline, fired>>
  BY DEF AddTimer, Access, Extended, mainVars
<1>4. /\ DOMAIN node' = DOMAIN node \cup {c} /\ node'[c] = n
      /\ \A d \in DOMAIN node : d # c => node'[d] = node[d]
      /\ node' = [d \in DOMAIN node \cup {c} |-> IF d = c THEN n ELSE node[d]]
  BY <1>1 DEF AddTimer, Extended
<1> HIDE DEF new
<1>5. Typed'
  <2>1. asked' = [i \in DOMAIN asked \cup {j} |-> IF i = j THEN req ELSE asked[i]]
    BY DEF AddTimer, Extended
  <2>2. req \in Request
    BY DEF IInv, Typed, Request
  <2>3. asked' \in [DOMAIN asked' -> Request]
    BY <1>3, <2>1, <2>2 DEF IInv, Typed
  <2>4. node' \in [DOMAIN node' -> Stored]
    BY <1>1, <1>4 DEF IInv, Typed
  <2>5. raced' \in BOOLEAN /\ shared' \in BOOLEAN
    BY <1>3, Zenon DEF IInv, Typed
  <2> QED BY <1>3, <2>3, <2>4, <2>5 DEF IInv, Typed
<1> SUFFICES ASSUME ~raced' PROVE Good'
  BY <1>5 DEF IInv
<1>6. Good /\ DOMAIN node = {} /\ DOMAIN node' = {c}
  BY <1>3, <1>4 DEF IInv
<1>7. fired[j] = {} /\ Cardinality(fired[j]) = 0
  BY <1>3, <1>6, FS_EmptySet DEF Good, NotAsked
<1>8. \A t \in Timer_buf : t.job # j /\ t.job \in DOMAIN asked
  BY <1>3, <1>6 DEF Good, TimersOK, TimerOK
<1>9. TimersOK'
  <2>1. ASSUME NEW t \in Timer_buf PROVE TimerOK(t)'
    <3>1. TimerOK(t) /\ t.job \in DOMAIN asked /\ t.job \in DOMAIN asked'
          /\ asked'[t.job] = asked[t.job]
      BY <1>3, <1>6, <1>8 DEF Good, TimersOK
    <3> QED BY <1>3, <3>1 DEF TimerOK
  <2>2. TimerOK(n)'
    <3>1. req.msec = msec /\ req.at = now /\ req.count = count
      OBVIOUS
    <3>2. count # -1 => count > 0 /\ count \in Nat
      OBVIOUS
    <3> HIDE DEF req
    <3>3. now \in Nat /\ msec \in Nat
      BY DEF IInv, Typed
    <3> QED BY <1>2, <1>3, <1>7, <3>1, <3>2, <3>3 DEF TimerOK
  <2>3. TimerOK(node[c])'
    BY <1>4, <2>2 DEF TimerOK
  <2> QED BY <1>3, <1>6, <2>1, <2>3 DEF TimersOK
<1>10. OnePerJob' /\ NotAsked' /\ Finite' /\ OneInside'
  BY <1>2, <1>3, <1>4, <1>6, <1>8 DEF Good, OnePerJob, NotAsked, Finite, OneInside
<1>11. IdsUnique'
  BY <1>2, <1>3, <1>4, <1>6 DEF Good, IdsUnique
<1>12. DueAtDeadline'
  BY <1>3, <1>6 DEF Good, DueAtDeadline
<1>13. FiresAsAsked'
  <2> SUFFICES ASSUME NEW i \in DOMAIN asked'
               PROVE  /\ \A x \in fired'[i] : x >= asked'[i].at + asked'[i].msec
                      /\ \A x, y \in fired'[i] : x < y => y - x >= asked'[i].msec
                      /\ asked'[i].count # -1 => Cardinality(fired'[i]) <= asked'[i].count
    BY DEF FiresAsAsked
  <2>1. CASE i \in DOMAIN asked
    BY <1>3, <1>6, <2>1 DEF Good, FiresAsAsked
  <2>2. CASE i = j
    <3>1. asked'[i].count = count
      BY <1>3, <2>2
    <3>2. count # -1 => 0 <= count
      OBVIOUS
    <3> QED BY <1>3, <1>7, <2>2, <3>1, <3>2
  <2> QED BY <1>3, <2>1, <2>2
<1>14. NoTimerLost'
  <2> SUFFICES ASSUME ~shared', NEW i \in DOMAIN asked'
               PROVE  \/ \E t \in Timer_buf' : t.job = i
                      \/ \E d \in DOMAIN node' : node'[d].job = i
                      \/ Cardinality(fired'[i]) = asked'[i].count
    BY DEF NoTimerLost
  <2>1. CASE i \in DOMAIN asked
    BY <1>3, <1>6, <2>1 DEF Good, NoTimerLost
  <2>2. CASE i = j
    BY <1>2, <1>4, <2>2
  <2> QED BY <1>3, <2>1, <2>2
<1> QED
  BY <1>9, <1>10, <1>11, <1>12, <1>13, <1>14 DEF Good

\* The timer is then in the buffer.
LEMMA EmplacedInv == ASSUME IInv, NEW c, AddTimerEmplaced(c) PROVE IInv'
<1>1. /\ c \in DOMAIN node /\ node' = [d \in DOMAIN node \ {c} |-> node[d]]
      /\ adding' = adding \cup {c}
      /\ UNCHANGED <<now, id, main, deadline, asked, fired, raced, shared>>
      /\ Timer_buf' \subseteq Timer_buf \cup {node[c]}
      /\ ~raced => Timer_buf' = Timer_buf \cup {node[c]}
  BY DEF AddTimerEmplaced, Becomes, mainVars
<1>2. PICK n \in Stored : n = node[c]
  BY <1>1 DEF IInv, Typed
<1>3. Typed'
  <2>1. Timer_buf' \subseteq Stored
    BY <1>1, <1>2 DEF IInv, Typed
  <2>2. node' \in [DOMAIN node' -> Stored]
    BY <1>1 DEF IInv, Typed
  <2> QED BY <1>1, <2>1, <2>2 DEF IInv, Typed
<1> SUFFICES ASSUME ~raced PROVE Good'
  BY <1>1, <1>3 DEF IInv
<1>4. Good /\ Timer_buf' = Timer_buf \cup {n} /\ DOMAIN node' = {} /\ TimerOK(n)
      /\ \A t \in Timer_buf : t.job # n.job
  BY <1>1, <1>2 DEF IInv, Good, OneInside, TimersOK, OnePerJob
<1>5. TimersOK'
  BY <1>1, <1>4 DEF Good, TimersOK, TimerOK
<1>6. OnePerJob' /\ NotAsked' /\ Finite' /\ OneInside'
  BY <1>1, <1>4 DEF Good, OnePerJob, NotAsked, Finite, OneInside
<1>7. IdsUnique'
  <2> SUFFICES ASSUME ~shared PROVE IdsUnique'
    BY <1>1 DEF IdsUnique
  <2>1. adding = {} /\ n.t_id = id /\ id \in Nat
    BY <1>1, <1>2, <1>4 DEF Good, IdsUnique, IInv, Typed
  <2>2. \A t \in Timer_buf : t.t_id < id /\ t.t_id \in Nat
    BY <1>4, <2>1 DEF Good, IdsUnique, IInv, Typed, Stored
  <2>3. \A t, u \in Timer_buf : t.t_id = u.t_id => t = u
    BY <1>4 DEF Good, IdsUnique
  <2>4. \A t, u \in Timer_buf' : t.t_id = u.t_id => t = u
    BY <1>4, <2>1, <2>2, <2>3
  <2>5. \A t \in Timer_buf' : t.t_id < id \/ t.t_id = id
    BY <1>4, <2>1, <2>2
  <2> QED BY <1>1, <1>4, <2>1, <2>4, <2>5 DEF IdsUnique
<1>8. DueAtDeadline' /\ FiresAsAsked'
  BY <1>1, <1>4 DEF Good, DueAtDeadline, FiresAsAsked
<1>9. NoTimerLost'
  <2> SUFFICES ASSUME ~shared, NEW i \in DOMAIN asked
               PROVE  \/ \E t \in Timer_buf' : t.job = i
                      \/ Cardinality(fired[i]) = asked[i].count
    BY <1>1 DEF NoTimerLost
  <2>1. ASSUME NEW d \in DOMAIN node, node[d].job = i PROVE \E t \in Timer_buf' : t.job = i
    BY <1>1, <1>2, <1>4, <2>1 DEF Good, OneInside
  <2> QED BY <1>4, <2>1 DEF Good, NoTimerLost
<1> QED
  BY <1>4, <1>5, <1>6, <1>7, <1>8, <1>9 DEF Good

\* The timer that fires is due: the one the loop waited for, or one before it.
LEMMA FirstIsDue ==
    ASSUME Typed, Good, TimedOut, ~raced', NEW t \in Timer_buf, Begin(t)
    PROVE  t.t_data <= now
<1>1. PICK u \in Timer_buf : u.t_data <= deadline
  BY DEF TimedOut, Good, DueAtDeadline
<1>2. t.t_data \in Nat /\ u.t_data \in Nat /\ now \in Nat /\ deadline \in Int
  BY DEF Typed, Stored
<1>3. ~(u.t_data < t.t_data)
  BY DEF Begin, Less
<1> QED BY <1>1, <1>2, <1>3 DEF TimedOut

LEMMA TimedOutInv == ASSUME IInv, TimedOut PROVE IInv'
<1> USE TimerAssumption
<1>0. /\ UNCHANGED <<now, id, node, adding, asked, shared>> /\ deadline' = Never
      /\ raced' = (raced \/ DOMAIN node # {}) /\ main' # "wait"
  BY DEF TimedOut, Access
<1>typed. Typed'
  <2>0. raced' \in BOOLEAN
    BY <1>0, Zenon DEF IInv, Typed
  <2>1. CASE UNCHANGED <<Timer_buf, fired>>
    BY <1>0, <2>0, <2>1 DEF IInv, Typed, Never
  <2>2. ASSUME NEW t \in Timer_buf,
               fired' = [fired EXCEPT ![t.job] = @ \cup {now}],
               Becomes(DelTimer(t) \cup IF t.t_count = 1 THEN {} ELSE {Rearmed(t)})
        PROVE  Typed'
    <3>1. /\ t \in Stored /\ t.t_msec \in Nat /\ now \in Nat /\ t.job \in Job
          /\ t.t_count \in Nat \cup {-1}
      BY DEF IInv, Typed, Stored
    <3>2. (IF t.t_count > 1 THEN t.t_count - 1 ELSE t.t_count) \in Nat \cup {-1}
      BY <3>1
    <3>3. Rearmed(t) \in Stored
      <4>1. now + t.t_msec \in Nat
        BY <3>1
      <4> QED BY <3>1, <3>2, <4>1 DEF Rearmed, Stored
    <3>4. Timer_buf' \subseteq DelTimer(t) \cup {Rearmed(t)}
      BY <2>2 DEF Becomes
    <3>5. Timer_buf' \subseteq Stored
      BY <3>3, <3>4 DEF DelTimer, IInv, Typed
    <3>6. fired' \in [Job -> SUBSET Nat]
      BY <2>2, <3>1 DEF IInv, Typed
    <3> QED BY <1>0, <2>0, <3>5, <3>6 DEF IInv, Typed, Never
  <2> QED BY <2>1, <2>2 DEF TimedOut, CheckTimer
<1> SUFFICES ASSUME ~raced' PROVE Good'
  BY <1>typed DEF IInv
<1>good. Typed /\ Good /\ ~raced /\ DOMAIN node = {}
  BY <1>0 DEF IInv
<1>due. Timer_buf # {}
  BY <1>good DEF TimedOut, Good, DueAtDeadline
<1>1. PICK t \in Timer_buf :
        /\ Begin(t)
        /\ fired' = [fired EXCEPT ![t.job] = @ \cup {now}]
        /\ Timer_buf' = DelTimer(t) \cup (IF t.t_count = 1 THEN {} ELSE {Rearmed(t)})
  BY <1>due DEF TimedOut, CheckTimer, Becomes
<1> DEFINE j == t.job
<1>2. /\ t \in Stored /\ j \in DOMAIN asked /\ j \in Job /\ t.t_msec \in Delays
      /\ t.t_data \in Nat /\ t.t_msec \in Nat \ {0} /\ now \in Nat /\ TimerOK(t)
      /\ t.t_id \in Nat /\ asked[j] \in Request
  BY <1>good DEF Good, TimersOK, Typed, Stored, TimerOK
<1>3. t.t_data <= now
  BY <1>1, <1>good, FirstIsDue
<1>4. /\ UNCHANGED <<now, id, node, adding, asked, raced, shared>> /\ main' # "wait"
  BY <1>0, <1>good DEF IInv, Typed
<1>5. /\ fired'[j] = fired[j] \cup {now} /\ fired[j] \subseteq Nat
      /\ \A i \in Job : i # j => fired'[i] = fired[i]
  BY <1>good, <1>1, <1>2 DEF Good, Typed
<1>6. \A x \in fired[j] : x \in Nat /\ now >= x + t.t_msec /\ x < now
  BY <1>2, <1>3, <1>5 DEF TimerOK
<1>7. /\ IsFiniteSet(fired[j]) /\ now \notin fired[j]
      /\ Cardinality(fired'[j]) = Cardinality(fired[j]) + 1
      /\ IsFiniteSet(fired'[j]) /\ Cardinality(fired[j]) \in Nat
  BY <1>good, <1>2, <1>5, <1>6, FS_AddElement, FS_CardinalityType DEF Good, Finite
<1>8. \A u \in DelTimer(t) : u \in Timer_buf /\ u.job # j
  <2>1. Same(t, t)
    BY <1>2 DEF Same, Less
  <2> QED BY <1>good, <2>1 DEF DelTimer, Good, OnePerJob
<1>9. PICK r \in Stored :
        /\ r.t_msec = t.t_msec /\ r.t_data = now + t.t_msec /\ r.t_id = t.t_id
        /\ r.job = j /\ r.t_count = (IF t.t_count > 1 THEN t.t_count - 1 ELSE t.t_count)
        /\ r = Rearmed(t)
  <2>1. (IF t.t_count > 1 THEN t.t_count - 1 ELSE t.t_count) \in Nat \cup {-1}
    BY <1>2 DEF Stored
  <2>2. now + t.t_msec \in Nat
    BY <1>2
  <2>3. Rearmed(t) \in Stored
    BY <1>2, <2>1, <2>2 DEF Rearmed, Stored
  <2> QED BY <1>2, <2>3 DEF Rearmed, Stored
<1>10. Timer_buf' \subseteq DelTimer(t) \cup {r} /\ (t.t_count # 1 => r \in Timer_buf')
       /\ DelTimer(t) \subseteq Timer_buf' /\ (t.t_count = 1 => Timer_buf' = DelTimer(t))
  BY <1>1, <1>9
<1>a. asked[j].count \in Int /\ t.t_count \in Int
  <2>1. Counts \subseteq Int
    OBVIOUS
  <2>2. asked[j].count \in Counts \cup {-1} /\ t.t_count \in Nat \cup {-1}
    BY <1>2 DEF Request, Stored
  <2>3. \A n \in Nat \cup {-1} : n \in Int
    OBVIOUS
  <2>4. \A n \in Counts \cup {-1} : n \in Int
    BY <2>1
  <2> HIDE DEF j
  <2> QED BY <2>2, <2>3, <2>4
<1>12. Finite'
  BY <1>good, <1>5, <1>7 DEF Good, Finite
<1>13. TimersOK'
  <2>1. ASSUME NEW u \in DelTimer(t) PROVE TimerOK(u)'
    <3>1. TimerOK(u) /\ u.job # j /\ u.job \in Job
      BY <1>good, <1>8 DEF Good, TimersOK, TimerOK, Typed
    <3> QED BY <1>4, <1>5, <3>1 DEF TimerOK
  <2>2. ASSUME t.t_count # 1 PROVE TimerOK(r)'
    <3>1. r.t_data >= asked[j].at + r.t_msec
      BY <1>2, <1>3, <1>9 DEF TimerOK, Request
    <3>2. \A x \in fired'[j] : r.t_data >= x + r.t_msec
      BY <1>2, <1>5, <1>6, <1>9
    <3>3. IF asked[j].count = -1 THEN r.t_count = -1
          ELSE r.t_count > 0 /\ Cardinality(fired'[j]) + r.t_count = asked[j].count
      BY <1>2, <1>7, <1>9, <1>a, <2>2 DEF TimerOK
    <3> QED BY <1>2, <1>4, <1>9, <3>1, <3>2, <3>3 DEF TimerOK
  <2> QED BY <1>4, <1>good, <1>10, <2>1, <2>2 DEF TimersOK
<1>14. OnePerJob' /\ OneInside'
  BY <1>4, <1>good, <1>8, <1>9, <1>10 DEF Good, OnePerJob, OneInside
<1>15. NotAsked'
  BY <1>good, <1>2, <1>4, <1>5 DEF Good, NotAsked
<1>16. IdsUnique'
  <2> SUFFICES ASSUME ~shared PROVE IdsUnique'
    BY <1>4 DEF IdsUnique
  <2>1. \A u \in DelTimer(t) : u.t_id # t.t_id
    BY <1>good, <1>8 DEF Good, IdsUnique
  <2>2. /\ \A u, v \in Timer_buf : u.t_id = v.t_id => u = v
        /\ \A u \in Timer_buf : u.t_id < id \/ (adding # {} /\ u.t_id = id)
        /\ \A u, v \in adding : u = v
    BY <1>good DEF Good, IdsUnique
  <2>3. \A u, v \in Timer_buf' : u.t_id = v.t_id => u = v
    BY <1>8, <1>9, <1>10, <2>1, <2>2
  <2>4. \A u \in Timer_buf' : u.t_id < id \/ (adding # {} /\ u.t_id = id)
    BY <1>8, <1>9, <1>10, <2>2
  <2> QED BY <1>4, <1>good, <2>2, <2>3, <2>4 DEF IdsUnique
<1>17. DueAtDeadline'
  BY <1>4 DEF DueAtDeadline
<1>18. FiresAsAsked'
  <2> SUFFICES ASSUME NEW i \in DOMAIN asked
               PROVE  /\ \A x \in fired'[i] : x >= asked[i].at + asked[i].msec
                      /\ \A x, y \in fired'[i] : x < y => y - x >= asked[i].msec
                      /\ asked[i].count # -1 => Cardinality(fired'[i]) <= asked[i].count
    BY <1>4 DEF FiresAsAsked
  <2>1. CASE i # j
    BY <1>good, <1>5, <2>1 DEF Good, FiresAsAsked, Typed
  <2>2. CASE i = j
    <3>1. \A x \in fired[j] : x >= asked[j].at + asked[j].msec
      BY <1>good, <1>2 DEF Good, FiresAsAsked
    <3>2. \A x, y \in fired[j] : x < y => y - x >= asked[j].msec
      BY <1>good, <1>2 DEF Good, FiresAsAsked
    <3>3. now >= asked[j].at + asked[j].msec /\ asked[j].msec = t.t_msec
      BY <1>2, <1>3 DEF TimerOK, Request
    <3>4. asked[j].count # -1 => Cardinality(fired'[j]) <= asked[j].count
      BY <1>2, <1>7, <1>a DEF TimerOK
    <3>5. \A x, y \in fired'[j] : x < y => y - x >= asked[j].msec
      BY <1>2, <1>5, <1>6, <3>2, <3>3
    <3> QED BY <1>5, <2>2, <3>1, <3>3, <3>4, <3>5
  <2> QED BY <2>1, <2>2
<1>19. NoTimerLost'
  <2> SUFFICES ASSUME ~shared, NEW i \in DOMAIN asked
               PROVE  \/ \E u \in Timer_buf' : u.job = i
                      \/ Cardinality(fired'[i]) = asked[i].count
    BY <1>4 DEF NoTimerLost
  <2>1. CASE i # j
    <3>1. CASE \E u \in Timer_buf : u.job = i
      <4>1. PICK u \in Timer_buf : u.job = i
        BY <3>1
      <4>2. u.t_id # t.t_id /\ u.t_id \in Nat
        BY <1>good, <2>1, <4>1 DEF Good, IdsUnique, Typed, Stored
      <4>3. u.t_data \in Nat
        BY <1>good DEF Good, Typed, Stored
      <4>4. ~Same(u, t)
        BY <1>2, <4>2, <4>3 DEF Same, Less
      <4> QED BY <1>10, <4>1, <4>4 DEF DelTimer
    <3>2. CASE Cardinality(fired[i]) = asked[i].count
      BY <1>good, <1>5, <2>1, <3>2 DEF Good, Typed
    <3> QED BY <1>good, <3>1, <3>2 DEF Good, NoTimerLost
  <2>2. CASE i = j /\ t.t_count # 1
    BY <1>9, <1>10, <2>2
  <2>3. CASE i = j /\ t.t_count = 1
    BY <1>2, <1>7, <1>a, <2>3 DEF TimerOK
  <2> QED BY <2>1, <2>2, <2>3
<1> QED
  BY <1>12, <1>13, <1>14, <1>15, <1>16, <1>17, <1>18, <1>19 DEF Good

\* The steps that leave the timers as they are.
LEMMA BufferKept ==
    ASSUME IInv, UNCHANGED <<Timer_buf, node, asked, fired, shared>>,
           raced => raced', raced' \in BOOLEAN, now' \in Nat, id' \in Nat, deadline' \in Int,
           ~raced' => IdsUnique' /\ DueAtDeadline'
    PROVE  IInv'
<1>1. Typed'
  BY DEF IInv, Typed
<1>2. ASSUME ~raced' PROVE Good'
  <2>1. Good /\ ~raced
    BY <1>2 DEF IInv
  <2>2. TimersOK' /\ Finite' /\ OnePerJob' /\ NotAsked' /\ OneInside'
    BY <2>1 DEF Good, TimersOK, TimerOK, Finite, OnePerJob, NotAsked, OneInside
  <2>3. FiresAsAsked' /\ NoTimerLost'
    BY <2>1 DEF Good, FiresAsAsked, NoTimerLost
  <2> QED BY <1>2, <2>2, <2>3 DEF Good
<1> QED BY <1>1, <1>2 DEF IInv

LEMMA TimerStep == IInv /\ [Next]_vars => IInv'
<1> SUFFICES ASSUME IInv, [Next]_vars PROVE IInv'
  OBVIOUS
<1>0. Typed
  BY DEF IInv
<1>1. ASSUME NEW c \in Caller, Add(c) PROVE IInv'
  <2>1. ASSUME NEW j \in Job, NEW msec \in Delays, NEW count \in Counts \cup {-1},
               AddTimer(c, j, msec, count)
        PROVE  IInv'
    BY <2>1, AddTimerInv
  <2>2. CASE AddTimerEmplaced(c)
    BY <2>2, EmplacedInv
  <2>3. CASE AddTimerIncrement(c)
    <3>1. /\ id' = id + 1 /\ c \in adding /\ adding' = adding \ {c}
          /\ UNCHANGED <<now, Timer_buf, node, main, deadline, asked, fired, raced, shared>>
      BY <2>3 DEF AddTimerIncrement, mainVars
    <3>2. id' \in Nat /\ now' \in Nat /\ deadline' \in Int /\ raced' \in BOOLEAN
      BY <1>0, <3>1 DEF Typed
    <3>3. ASSUME ~raced PROVE IdsUnique' /\ DueAtDeadline'
      <4>1. \A t \in Timer_buf : t.t_id \in Nat
        BY <1>0 DEF Typed, Stored
      <4> QED BY <1>0, <3>1, <3>3, <4>1 DEF IInv, Good, IdsUnique, DueAtDeadline, Typed
    <3> QED BY <3>1, <3>2, <3>3, BufferKept
  <2> QED BY <1>1, <2>1, <2>2, <2>3 DEF Add
<1>2. CASE SetTime
  <2>1. /\ UNCHANGED <<now, Timer_buf, id, node, adding, asked, fired, shared>>
        /\ raced' = (raced \/ DOMAIN node # {})
    BY <1>2 DEF SetTime, Access
  <2>2. (~raced' => DueAtDeadline') /\ deadline' \in Int
    <3>1. CASE deadline' = Never
      BY <3>1 DEF DueAtDeadline, Never
    <3>2. ASSUME NEW t \in Timer_buf, deadline' = IF t.t_data > now THEN t.t_data ELSE now
          PROVE  DueAtDeadline' /\ deadline' \in Int
      <4>1. t.t_data \in Nat /\ now \in Nat
        BY <1>0 DEF Typed, Stored
      <4> QED BY <2>1, <3>2, <4>1 DEF DueAtDeadline
    <3> QED BY <1>2, <3>1, <3>2 DEF SetTime
  <2>3. id' \in Nat /\ now' \in Nat
    BY <1>0, <2>1 DEF Typed
  <2>4. raced' \in BOOLEAN
    BY <1>0, <2>1, Zenon DEF Typed
  <2>5. ~raced' => IdsUnique'
    BY <2>1 DEF IInv, Good, IdsUnique
  <2> QED BY <2>1, <2>2, <2>3, <2>4, <2>5, BufferKept
<1>3. CASE ngx_epoll_process_events
  <2>1. /\ main' = "loop" /\ deadline' = Never
        /\ UNCHANGED <<now, Timer_buf, id, node, adding, asked, fired, raced, shared>>
    BY <1>3 DEF ngx_epoll_process_events
  <2>2. ~raced => IdsUnique' /\ DueAtDeadline'
    BY <2>1 DEF IInv, Good, IdsUnique, DueAtDeadline
  <2>3. id' \in Nat /\ now' \in Nat /\ deadline' \in Int /\ raced' \in BOOLEAN
    BY <1>0, <2>1 DEF Typed, Never
  <2> QED BY <2>1, <2>2, <2>3, BufferKept
<1>4. CASE TimedOut
  BY <1>4, TimedOutInv
<1>5. CASE Tick \/ UNCHANGED vars
  <2>1. /\ now' \in Nat
        /\ UNCHANGED <<Timer_buf, id, node, adding, main, deadline, asked, fired, raced, shared>>
    BY <1>0, <1>5 DEF Tick, vars, mainVars, Typed
  <2>2. ~raced => IdsUnique' /\ DueAtDeadline'
    BY <2>1 DEF IInv, Good, IdsUnique, DueAtDeadline
  <2>3. id' \in Nat /\ deadline' \in Int /\ raced' \in BOOLEAN
    BY <1>0, <2>1 DEF Typed
  <2> QED BY <2>1, <2>2, <2>3, BufferKept
<1> QED
  BY <1>1, <1>2, <1>3, <1>4, <1>5 DEF Next

LEMMA TimerInvariant == Spec => []IInv
  BY TimerInit, TimerStep, PTL DEF Spec

\* Whatever the main thread and the pool threads add while the loop waits, and
\* even if two timers share an id, no timer fires early, too soon again or too
\* often, as long as no two accesses of the multiset overlap.
THEOREM TimersFireAsAsked == Spec => []FiresAsAsked
<1>1. IInv => FiresAsAsked
  BY DEF IInv, Good, FiresAsAsked
<1> QED
  BY <1>1, TimerInvariant, PTL

\* As long as no two accesses of the multiset overlap and no two calls of
\* AddTimer use the same id, no timer is lost: DelTimer removes the one that
\* fired only.
THEOREM TimersAreKept == Spec => []NoTimerLost
<1>1. IInv => NoTimerLost
  BY DEF IInv, Good, NoTimerLost
<1> QED
  BY <1>1, TimerInvariant, PTL
=============================================================================
