--------------------------- MODULE StartupProofs ----------------------------
(***************************************************************************)
(* The listening sockets: the list, the open sockets and what the workers  *)
(* watch agree, whatever fails on the way.  The configuration: what is     *)
(* written as documented is what is read.                                  *)
(***************************************************************************)
EXTENDS Startup, FiniteSetTheorems, TLAPS

Listened == [fd : Int, port : Int]

\* The list, the sockets and the ports that are bound grow together.
ListInv ==
    /\ m_ListenSocketList \in Seq(Listened)
    /\ m_ListenPortCount \in Int
    /\ sockets = Watched
    /\ Watched = 0..(i - 1)
    /\ OwnPorts

Before == {"load", "spin", "daemon", "ReadConf"}

\* They grow in Initialize, which reads the number of ports first.
PhaseInv ==
    /\ start \in Before => i = 0
    /\ start \in Before \cup {"listen"} => initialized = FALSE
    /\ i = 0 \/ i <= m_ListenPortCount
    /\ initialized => i = m_ListenPortCount \/ m_ListenPortCount < 0

\* There are workers only after that.
WorkerInv ==
    /\ proc \in [Worker -> {"none", "failed", "init", "running", "stuck", "zombie", "reaped"}]
    /\ epoll \in [Worker -> SUBSET Int]
    /\ inum \in Nat
    /\ start # "loop" => master = "start" /\ \A w \in Worker : proc[w] = "none"
    /\ \A w \in Worker : proc[w] = "running" => epoll[w] = sockets

ListenInv == ListInv /\ PhaseInv /\ WorkerInv

-----------------------------------------------------------------------------
LEMMA InitListenInv ==
    ASSUME Init
    PROVE  ListenInv
<1> USE DEF Init, MasterInit
<1>1. i = 0
  BY DEF i
<1>2. Watched = {}
  BY DEF Watched
<1>3. OwnPorts
  BY DEF OwnPorts
<1>4. 0..(0 - 1) = {}
  OBVIOUS
<1> QED
  BY <1>1, <1>2, <1>3, <1>4 DEF ListenInv, ListInv, PhaseInv, WorkerInv, Before

\* What a number in the configuration is.
LEMMA NumIsNumber ==
    ASSUME NEW name, Num(name) \notin {"unknown", "throws"}
    PROVE  Num(name) \in DOMAIN Number /\ Number[Num(name)] \in Int
<1>1. Num(name) \in DOMAIN Number
  BY DEF Num, GetNum
<1> QED
  BY <1>1, ConfigAssumption

\* A socket that is opened joins the list, the ports and the open sockets.
LEMMA OpenedListInv ==
    ASSUME ListInv, Opened, m_ListenPortCount' = m_ListenPortCount
    PROVE  ListInv' /\ i' = i + 1 /\ i \in Nat
<1>1. PICK p \in Int : p = server_port
  BY NumIsNumber DEF Opened, server_port
<1>2. PICK n \in Nat : n = i /\ n = Len(m_ListenSocketList) /\ DOMAIN m_ListenSocketList = 1..n
  BY DEF ListInv, i
<1>14. [fd |-> n, port |-> p] \in Listened
  BY DEF Listened
<1>3. PICK e \in Listened : e = [fd |-> n, port |-> p]
  BY <1>14
<1>4. m_ListenSocketList' = Append(m_ListenSocketList, e) /\ sockets' = sockets \cup {n}
  BY <1>1, <1>2, <1>3 DEF Opened
<1>5. /\ m_ListenSocketList' \in Seq(Listened)
      /\ DOMAIN m_ListenSocketList' = 1..(n + 1) /\ Len(m_ListenSocketList') = n + 1
      /\ \A k \in 1..n : m_ListenSocketList'[k] = m_ListenSocketList[k]
      /\ m_ListenSocketList'[n + 1] = e
  BY <1>2, <1>4 DEF ListInv
<1>6. i' = n + 1
  BY <1>5 DEF i
<1>7. e.fd = n /\ e.port = p
  BY <1>3
<1>8. \A k \in 1..(n + 1) : k \in 1..n \/ k = n + 1
  BY <1>2
<1>9. Watched' = Watched \cup {n}
  <2>1. Watched' = {m_ListenSocketList'[k].fd : k \in 1..(n + 1)}
    BY <1>5 DEF Watched
  <2>2. Watched = {m_ListenSocketList[k].fd : k \in 1..n}
    BY <1>2 DEF Watched
  <2> QED
    BY <2>1, <2>2, <1>5, <1>7, <1>8
<1>10. PICK q : q = p % 65536
  OBVIOUS
<1>11. \A k \in 1..n : m_ListenSocketList[k].port % 65536 = q => q = 0
  BY <1>1, <1>2, <1>10 DEF Opened, Bound
<1>12. OwnPorts'
  <2>1. \A k, l \in 1..n :
          /\ m_ListenSocketList'[k].port % 65536 = m_ListenSocketList'[l].port % 65536
          /\ m_ListenSocketList'[k].port % 65536 # 0
          => k = l
    BY <1>2, <1>5 DEF ListInv, OwnPorts
  <2>2. \A k \in 1..n : m_ListenSocketList'[k].port % 65536 = q => q = 0
    BY <1>5, <1>11
  <2>3. m_ListenSocketList'[n + 1].port % 65536 = q
    BY <1>5, <1>7, <1>10
  <2> QED
    BY <2>1, <2>2, <2>3, <1>5, <1>8 DEF OwnPorts
<1>13. Watched' = 0..((n + 1) - 1)
  <2>1. Watched = 0..(n - 1)
    BY <1>2 DEF ListInv
  <2>2. 0..((n + 1) - 1) = (0..(n - 1)) \cup {n}
    BY <1>2
  <2> QED
    BY <2>1, <2>2, <1>9
<1> QED
  BY <1>2, <1>4, <1>5, <1>6, <1>9, <1>12, <1>13 DEF ListInv

\* The sockets are left alone.
LEMMA ListKept ==
    ASSUME ListInv, UNCHANGED <<sockets, m_ListenSocketList>>, m_ListenPortCount' \in Int
    PROVE  ListInv' /\ i' = i
  BY DEF ListInv, i, Watched, OwnPorts

\* Up to the fork nothing but main runs, and it leaves the workers' part alone.
LEMMA MainKeepsWorkers ==
    ASSUME WorkerInv, start # "loop", UNCHANGED <<masterVars, epoll>>, start' # "loop"
    PROVE  WorkerInv'
  BY DEF WorkerInv, masterVars

LEMMA MainStep ==
    ASSUME ListenInv, Main
    PROVE  ListenInv'
<1>0. ListInv /\ PhaseInv /\ WorkerInv
  BY DEF ListenInv
<1>1. CASE LoadFails \/ LoadLine \/ LoadEnds \/ ngx_daemon
  <2>1. /\ start \in Before /\ start' \in Before \cup {"exit", "abort"}
        /\ UNCHANGED <<masterVars, epoll, socketVars>>
    BY <1>1 DEF LoadFails, LoadLine, LoadEnds, ngx_daemon, Before
  <2>2. UNCHANGED <<sockets, m_ListenSocketList, m_ListenPortCount, initialized>>
    BY <2>1 DEF socketVars
  <2>3. ListInv' /\ i' = i
    BY <2>2, <1>0, ListKept DEF ListInv
  <2>4. PhaseInv'
    BY <2>1, <2>2, <2>3, <1>0 DEF PhaseInv, Before
  <2>5. WorkerInv'
    BY <2>1, <1>0, MainKeepsWorkers DEF Before
  <2> QED
    BY <2>3, <2>4, <2>5 DEF ListenInv
<1>2. CASE ReadConf
  <2>1. start = "ReadConf" /\ UNCHANGED <<masterVars, epoll>>
    BY <1>2 DEF ReadConf
  <2>2. /\ UNCHANGED <<sockets, m_ListenSocketList, initialized>>
        /\ start' \in {"abort", "master", "listen"}
        /\ m_ListenPortCount' \in Int
    <3>1. CASE Num("ListenPortCount") = "throws"
      BY <3>1, <1>0, <1>2 DEF ReadConf, socketVars, ListInv
    <3>2. CASE Num("ListenPortCount") = "unknown"
      BY <3>2, <1>0, <1>2 DEF ReadConf, InitializeFails, ListInv
    <3>3. CASE Num("ListenPortCount") \notin {"unknown", "throws"}
      <4>1. Number[Num("ListenPortCount")] \in Int
        BY <3>3, NumIsNumber
      <4>2. /\ m_ListenPortCount' = Number[Num("ListenPortCount")]
            /\ UNCHANGED <<sockets, m_ListenSocketList, initialized>>
            /\ IF Num("worker_connections") \in {"unknown", "throws"}
               THEN start' = IF Num("worker_connections") = "unknown" THEN "master" ELSE "abort"
               ELSE start' = IF \E name \in Optional : Num(name) = "throws"
                             THEN "abort" ELSE "listen"
        BY <3>3, <1>2 DEF ReadConf
      <4> QED
        BY <4>1, <4>2
    <3> QED
      BY <3>1, <3>2, <3>3
  <2>3. ListInv' /\ i' = i
    BY <2>2, <1>0, ListKept
  <2>4. PhaseInv'
    BY <2>1, <2>2, <2>3, <1>0 DEF PhaseInv, Before
  <2>5. WorkerInv'
    BY <2>1, <2>2, <1>0, MainKeepsWorkers
  <2> QED
    BY <2>3, <2>4, <2>5 DEF ListenInv
<1>3. CASE ngx_open_listening_sockets
  <2>1. /\ start = "listen" /\ i < m_ListenPortCount /\ initialized = FALSE
        /\ UNCHANGED <<masterVars, epoll, m_ListenPortCount>>
        /\ Opened \/ NotOpened \/ Thrown
    BY <1>0, <1>3 DEF ngx_open_listening_sockets, PhaseInv
  <2>2. CASE Opened
    <3>1. ListInv' /\ i' = i + 1 /\ i \in Nat
      BY <2>1, <2>2, <1>0, OpenedListInv
    <3>2. start' = "listen" /\ initialized' = FALSE
      BY <2>1, <2>2 DEF Opened
    <3>3. PhaseInv'
      BY <2>1, <3>1, <3>2, <1>0 DEF PhaseInv, Before, ListInv
    <3>4. WorkerInv'
      BY <2>1, <3>2, <1>0, MainKeepsWorkers
    <3> QED
      BY <3>1, <3>3, <3>4 DEF ListenInv
  <2>3. CASE NotOpened \/ Thrown
    <3>1. /\ start' \in {"abort", "master"}
          /\ UNCHANGED <<sockets, m_ListenSocketList, initialized>>
      BY <2>3 DEF NotOpened, Thrown, InitializeFails
    <3>2. ListInv' /\ i' = i
      BY <2>1, <3>1, <1>0, ListKept DEF ListInv
    <3>3. PhaseInv'
      BY <2>1, <3>1, <3>2, <1>0 DEF PhaseInv, Before
    <3>4. WorkerInv'
      BY <2>1, <3>1, <1>0, MainKeepsWorkers
    <3> QED
      BY <3>2, <3>3, <3>4 DEF ListenInv
  <2> QED
    BY <2>1, <2>2, <2>3
<1>4. CASE Initialized
  <2>1. /\ start = "listen" /\ i >= m_ListenPortCount /\ start' = "master"
        /\ UNCHANGED <<masterVars, epoll, m_ListenPortCount, sockets, m_ListenSocketList>>
    BY <1>4 DEF Initialized
  <2>2. ListInv' /\ i' = i
    BY <2>1, <1>0, ListKept DEF ListInv
  <2>3. i \in Nat /\ m_ListenPortCount \in Int
    BY <1>0 DEF ListInv, i
  <2>4. i = m_ListenPortCount \/ m_ListenPortCount < 0
    BY <2>1, <2>3, <1>0 DEF PhaseInv
  <2>5. PhaseInv'
    BY <2>1, <2>2, <2>4, <1>0 DEF PhaseInv, Before
  <2>6. WorkerInv'
    BY <2>1, <1>0, MainKeepsWorkers
  <2> QED
    BY <2>2, <2>5, <2>6 DEF ListenInv
<1>5. CASE ngx_master_process_cycle
  <2>1. /\ start = "master" /\ start' \in {"abort", "loop"} /\ UNCHANGED <<epoll, socketVars>>
        /\ UNCHANGED masterVars \/ (start' = "loop" /\ \E n : StartMaster(n))
    <3>1. CASE Num("WorkerProcesses") = "throws"
      BY <3>1, <1>5 DEF ngx_master_process_cycle
    <3>2. CASE Num("WorkerProcesses") = "unknown"
      BY <3>2, <1>5 DEF ngx_master_process_cycle
    <3>3. CASE Num("WorkerProcesses") \notin {"unknown", "throws"}
      BY <3>3, <1>5 DEF ngx_master_process_cycle
    <3> QED
      BY <3>1, <3>2, <3>3
  <2>2. UNCHANGED <<sockets, m_ListenSocketList, m_ListenPortCount, initialized>>
    BY <2>1 DEF socketVars
  <2>3. ListInv' /\ i' = i
    BY <2>2, <1>0, ListKept DEF ListInv
  <2>4. PhaseInv'
    BY <2>1, <2>2, <2>3, <1>0 DEF PhaseInv, Before
  <2>5. proc' = proc /\ inum' = inum /\ (start' = "abort" => UNCHANGED masterVars)
    BY <2>1 DEF StartMaster, masterVars
  <2>6. WorkerInv'
    BY <2>1, <2>2, <2>5, <1>0 DEF WorkerInv, masterVars
  <2> QED
    BY <2>3, <2>4, <2>6 DEF ListenInv
<1> QED
  BY <1>1, <1>2, <1>3, <1>4, <1>5 DEF Main

\* The processes after the fork leave the sockets alone, and a worker begins to
\* serve with all of them watched.
LEMMA ProcessStep ==
    ASSUME ListenInv, Masters \/ (\E w \in Worker : ngx_epoll_init(w)) \/ UNCHANGED vars
    PROVE  ListenInv'
<1>0. ListInv /\ PhaseInv /\ WorkerInv
  BY DEF ListenInv
<1>1. UNCHANGED <<socketVars, start>>
  BY DEF Masters, ngx_epoll_init, vars
<1>2. UNCHANGED <<sockets, m_ListenSocketList, m_ListenPortCount, initialized, start>>
  BY <1>1 DEF socketVars
<1>3. ListInv' /\ i' = i
  BY <1>2, <1>0, ListKept DEF ListInv
<1>4. PhaseInv'
  BY <1>2, <1>3, <1>0 DEF PhaseInv
<1>5. CASE UNCHANGED vars
  BY <1>2, <1>3, <1>4, <1>5, <1>0 DEF ListenInv, WorkerInv, vars, masterVars
<1>6. ASSUME NEW w \in Worker, ngx_epoll_init(w)
      PROVE  WorkerInv'
  <2>1. proc[w] = "init" /\ start = "loop"
    BY <1>0, <1>6 DEF ngx_epoll_init, WorkerInv
  <2>2. CASE /\ proc' = [proc EXCEPT ![w] = "running"]
             /\ epoll' = [epoll EXCEPT ![w] = Watched]
             /\ UNCHANGED <<workernum, inum, master, sigchld, ngx_reap>>
    <3>1. Watched = sockets /\ Watched \in SUBSET Int
      BY <1>0 DEF ListInv
    <3> QED
      BY <2>1, <2>2, <3>1, <1>0, <1>2 DEF WorkerInv
  <2>3. CASE WorkerExits(w) /\ UNCHANGED epoll
    BY <2>1, <2>3, <1>0, <1>2 DEF WorkerInv, WorkerExits
  <2>4. CASE /\ proc' = [proc EXCEPT ![w] = "stuck"]
             /\ UNCHANGED <<workernum, inum, master, sigchld, ngx_reap, epoll>>
    BY <2>1, <2>4, <1>0, <1>2 DEF WorkerInv
  <2> QED
    BY <2>2, <2>3, <2>4, <1>6 DEF ngx_epoll_init
<1>7. ASSUME Masters
      PROVE  WorkerInv'
  <2>1. UNCHANGED epoll
    BY <1>7 DEF Masters
  <2>2. CASE start # "loop"
    <3>1. master = "start" /\ \A w \in Worker : proc[w] = "none"
      BY <2>2, <1>0 DEF WorkerInv
    <3> QED
      BY <3>1, <1>7 DEF Masters, MasterStep, ngx_spawn_process, EnterLoop, ngx_signal_handler,
                        WakeUp, OtherSignal, Killed
  <2>3. CASE start = "loop"
    <3>1. CASE ngx_spawn_process
      <4>1. PICK r \in {"init", "failed"} : proc' = [proc EXCEPT ![inum] = r]
        BY <3>1 DEF ngx_spawn_process
      <4>2. inum' = inum + 1
        BY <3>1 DEF ngx_spawn_process
      <4>3. /\ proc' \in [Worker -> {"none", "failed", "init", "running", "stuck",
                                     "zombie", "reaped"}]
            /\ \A w \in Worker : proc'[w] = "running" => proc[w] = "running"
        BY <4>1, <1>0 DEF WorkerInv
      <4> QED
        BY <2>1, <2>3, <4>2, <4>3, <1>0, <1>2 DEF WorkerInv
    <3>2. CASE EnterLoop \/ WakeUp \/ OtherSignal
      BY <2>1, <2>3, <3>2, <1>0, <1>2 DEF WorkerInv, EnterLoop, WakeUp, OtherSignal
    <3>3. CASE ngx_signal_handler
      BY <2>1, <2>3, <3>3, <1>0, <1>2
      DEF WorkerInv, ngx_signal_handler, ngx_process_get_status, Zombies
    <3>4. ASSUME NEW w \in Worker, Killed(w)
          PROVE  WorkerInv'
      BY <2>1, <2>3, <3>4, <1>0, <1>2 DEF WorkerInv, Killed, WorkerExits
    <3> QED
      BY <1>7, <3>1, <3>2, <3>3, <3>4 DEF Masters, MasterStep
  <2> QED
    BY <2>2, <2>3
<1> QED
  BY <1>3, <1>4, <1>5, <1>6, <1>7 DEF ListenInv

\* Whatever the configuration says and whichever system call fails: no socket
\* is open but those in the list, one for each of the first ports, on different
\* ports unless bind chose them; they are all the ports if Initialize succeeded;
\* and every serving worker watches them all.
THEOREM SocketsListed == Spec => []ListenExact
<1>1. Init => ListenInv
  BY InitListenInv
<1>2. ListenInv /\ [Next]_vars => ListenInv'
  BY MainStep, ProcessStep DEF Next
<1>3. ListenInv => ListenExact
  BY DEF ListenInv, ListInv, PhaseInv, WorkerInv, ListenExact
<1> QED
  BY <1>1, <1>2, <1>3, PTL DEF Spec

-----------------------------------------------------------------------------
(* The configuration: what Load makes of a line, and of the lines together.  *)

\* A non-empty set of natural numbers has a least element.
LEMMA NatMin ==
    ASSUME NEW X \in SUBSET Nat, X # {}
    PROVE  \E m \in X : \A k \in X : m <= k
<1> DEFINE T == {0..n : n \in X}
<1>1. \A n \in Nat : 0..n \in FiniteSubsetsOf(Nat)
  BY FS_Interval DEF FiniteSubsetsOf
<1>2. T \subseteq FiniteSubsetsOf(Nat) /\ T # {}
  BY <1>1
<1>3. IsWellFoundedOn(StrictSubsetOrdering(Nat), FiniteSubsetsOf(Nat))
  BY FS_StrictSubsetOrderingWellFounded
<1>4. PICK x \in T : \A y \in T : ~(<<y, x>> \in StrictSubsetOrdering(Nat))
  <2> HIDE DEF T
  <2> QED BY <1>2, <1>3, WFMin
<1>5. PICK m \in X : x = 0..m
  BY <1>4
<1>6. ASSUME NEW k \in X, ~(m <= k) PROVE FALSE
  <2>1. 0..k \in T /\ 0..k \in SUBSET Nat /\ 0..m \in SUBSET Nat
    BY <1>6
  <2>2. 0..k \subseteq 0..m /\ 0..k # 0..m
    BY <1>6
  <2>3. <<0..k, 0..m>> \in StrictSubsetOrdering(Nat)
    BY <2>1, <2>2 DEF StrictSubsetOrdering
  <2> QED BY <1>4, <1>5, <2>1, <2>3
<1> QED BY <1>6

\* find returns the first place.
LEMMA FindFirst ==
    ASSUME NEW S, NEW line \in Seq(S), NEW c, NEW p \in 1..Len(line), line[p] = c,
           \A q \in 1..(p - 1) : line[q] # c
    PROVE  find(line, c) = p - 1
<1> DEFINE I == {n \in 1..Len(line) : line[n] = c}
<1>1. p \in I /\ \A n \in I : p <= n
  OBVIOUS
<1>2. \A x \in I : (\A y \in I : x <= y) => x = p
  BY <1>1
<1>3. Min(I) = p
  BY <1>1, <1>2 DEF Min
<1> QED
  BY <1>1, <1>3 DEF find, SelectInSeq

\* Where find does not look: a place before the first one is not returned.
LEMMA FindNone ==
    ASSUME NEW S, NEW line \in Seq(S), NEW c, NEW p \in Nat,
           \A q \in 1..p : q <= Len(line) => line[q] # c
    PROVE  find(line, c) = -1 \/ (find(line, c) \in Nat /\ find(line, c) >= p)
<1> DEFINE I == {n \in 1..Len(line) : line[n] = c}
<1>1. CASE I = {}
  BY <1>1 DEF find, SelectInSeq
<1>2. CASE I # {}
  <2>1. PICK m \in I : \A n \in I : m <= n
    <3>1. I \in SUBSET Nat
      OBVIOUS
    <3> HIDE DEF I
    <3> QED BY <1>2, <3>1, NatMin
  <2>2. Min(I) = m
    BY <2>1 DEF Min
  <2>3. m > p /\ m \in Nat
    BY <2>1
  <2> QED
    BY <1>2, <2>2, <2>3 DEF find, SelectInSeq
<1> QED
  BY <1>1, <1>2

\* The parts of a concatenation.
LEMMA Joined ==
    ASSUME NEW T, NEW a \in Seq(T), NEW b \in Seq(T)
    PROVE  /\ a \o b \in Seq(T)
           /\ Len(a \o b) = Len(a) + Len(b)
           /\ \A n \in 1..Len(a) : (a \o b)[n] = a[n]
           /\ \A n \in 1..Len(b) : (a \o b)[Len(a) + n] = b[n]
  OBVIOUS

\* A sequence of one element.
LEMMA Single ==
    ASSUME NEW T, NEW s \in Seq(T), Len(s) = 1
    PROVE  s = <<s[1]>>
<1>1. <<s[1]>> \in Seq(T) /\ Len(<<s[1]>>) = 1 /\ <<s[1]>>[1] = s[1]
  OBVIOUS
<1>2. \A t \in Seq(T) : Len(t) = 1 /\ t[1] = s[1] => s = t
  OBVIOUS
<1> QED
  BY <1>1, <1>2

\* line is a documented one, place by place.  The tokens are parameters, of
\* which only matters that they differ.
Places(line, name, blank, eq, value, semi, k, j) ==
    /\ k + j + 4 <= Len(line)
    /\ line[1] = name
    /\ \A n \in 2..(k + 1) : line[n] = blank
    /\ line[k + 2] = eq
    /\ \A n \in (k + 3)..(k + j + 2) : line[n] = blank
    /\ line[k + j + 3] = value
    /\ line[k + j + 4] = semi

\* The concatenation in Documented, place by place.
LEMMA PrefixPlaces ==
    ASSUME NEW S, NEW line \in Seq(S), NEW name, NEW blank, NEW eq, NEW value, NEW semi,
           NEW k \in Nat, NEW j \in Nat,
           IsPrefix(<<name>> \o [n \in 1..k |-> blank] \o <<eq>> \o [n \in 1..j |-> blank]
                    \o <<value, semi>>, line)
    PROVE  Places(line, name, blank, eq, value, semi, k, j)
<1> DEFINE T == {name, blank, eq, value, semi}
           u == [n \in 1..k |-> blank]
           v == [n \in 1..j |-> blank]
           a == <<name>> \o u
           b == a \o <<eq>>
           c == b \o v
           p == c \o <<value, semi>>
<1>1. /\ u \in Seq(T) /\ Len(u) = k /\ \A n \in 1..k : u[n] = blank
      /\ v \in Seq(T) /\ Len(v) = j /\ \A n \in 1..j : v[n] = blank
  OBVIOUS
<1>2. name \in T /\ eq \in T /\ value \in T /\ semi \in T
  OBVIOUS
<1>3. Len(p) <= Len(line) /\ SubSeq(p, 1, Len(p)) = SubSeq(line, 1, Len(p))
  BY DEF IsPrefix
<1>a. a = <<name>> \o u /\ b = a \o <<eq>> /\ c = b \o v /\ p = c \o <<value, semi>>
  OBVIOUS
<1> HIDE DEF T, u, v, a, b, c, p
<1>4. /\ <<name>> \in Seq(T) /\ Len(<<name>>) = 1 /\ <<name>>[1] = name
      /\ <<eq>> \in Seq(T) /\ Len(<<eq>>) = 1 /\ <<eq>>[1] = eq
      /\ <<value, semi>> \in Seq(T) /\ Len(<<value, semi>>) = 2
      /\ <<value, semi>>[1] = value /\ <<value, semi>>[2] = semi
  BY <1>2
<1>5. /\ a \in Seq(T) /\ Len(a) = k + 1 /\ a[1] = name
      /\ \A n \in 2..(k + 1) : a[n] = blank
  <2>1. a \in Seq(T) /\ Len(a) = k + 1 /\ a[1] = name /\ \A n \in 1..k : a[1 + n] = blank
    BY <1>a, <1>1, <1>4, Joined
  <2>2. ASSUME NEW n \in 2..(k + 1) PROVE a[n] = blank
    <3>1. n - 1 \in 1..k /\ n = 1 + (n - 1)
      OBVIOUS
    <3> QED BY <3>1, <2>1
  <2> QED BY <2>1, <2>2
<1>6. /\ b \in Seq(T) /\ Len(b) = k + 2 /\ b[k + 2] = eq
      /\ \A n \in 1..(k + 1) : b[n] = a[n]
  <2>1. /\ b \in Seq(T) /\ Len(b) = Len(a) + Len(<<eq>>)
        /\ \A n \in 1..Len(a) : b[n] = a[n]
        /\ \A n \in 1..Len(<<eq>>) : b[Len(a) + n] = <<eq>>[n]
    BY <1>a, <1>4, <1>5, Joined
  <2>2. b[(k + 1) + 1] = eq
    BY <2>1, <1>4, <1>5
  <2> QED BY <2>1, <2>2, <1>4, <1>5
<1>7. /\ c \in Seq(T) /\ Len(c) = k + j + 2
      /\ \A n \in 1..(k + 2) : c[n] = b[n]
      /\ \A n \in (k + 3)..(k + j + 2) : c[n] = blank
  <2>1. /\ c \in Seq(T) /\ Len(c) = k + j + 2
        /\ \A n \in 1..(k + 2) : c[n] = b[n]
        /\ \A n \in 1..j : c[(k + 2) + n] = blank
    <3>1. /\ c \in Seq(T) /\ Len(c) = Len(b) + Len(v)
          /\ \A n \in 1..Len(b) : c[n] = b[n]
          /\ \A n \in 1..Len(v) : c[Len(b) + n] = v[n]
      <4>1. b \in Seq(T) /\ v \in Seq(T) /\ c = b \o v
        BY <1>a, <1>1, <1>6
      <4> QED BY <4>1, Joined
    <3>2. Len(b) = k + 2 /\ Len(v) = j
      BY <1>1, <1>6
    <3>3. Len(c) = k + j + 2 /\ \A n \in 1..(k + 2) : c[n] = b[n]
      BY <3>1, <3>2
    <3>4. \A n \in 1..j : c[(k + 2) + n] = v[n]
      BY <3>1, <3>2
    <3>5. \A n \in 1..j : v[n] = blank
      BY <1>1
    <3> QED BY <3>1, <3>3, <3>4, <3>5
  <2>2. ASSUME NEW n \in (k + 3)..(k + j + 2) PROVE c[n] = blank
    <3>1. n - (k + 2) \in 1..j /\ n = (k + 2) + (n - (k + 2))
      OBVIOUS
    <3> QED BY <3>1, <2>1
  <2> QED BY <2>1, <2>2
<1>8. /\ p \in Seq(T) /\ Len(p) = k + j + 4
      /\ \A n \in 1..(k + j + 2) : p[n] = c[n]
      /\ p[k + j + 3] = value /\ p[k + j + 4] = semi
  <2>1. /\ p \in Seq(T) /\ Len(p) = k + j + 4
        /\ \A n \in 1..(k + j + 2) : p[n] = c[n]
        /\ p[(k + j + 2) + 1] = value /\ p[(k + j + 2) + 2] = semi
    <3>1. /\ p \in Seq(T) /\ Len(p) = Len(c) + Len(<<value, semi>>)
          /\ \A n \in 1..Len(c) : p[n] = c[n]
          /\ \A n \in 1..Len(<<value, semi>>) : p[Len(c) + n] = <<value, semi>>[n]
      BY <1>a, <1>4, <1>7, Joined
    <3>2. \A n \in 1..2 : p[(k + j + 2) + n] = <<value, semi>>[n]
      BY <3>1, <1>4, <1>7
    <3>3. p[(k + j + 2) + 1] = value /\ p[(k + j + 2) + 2] = semi
      BY <3>2, <1>4
    <3> QED BY <3>1, <3>3, <1>4, <1>7
  <2> QED BY <2>1
<1>9. \A n \in 1..Len(p) : line[n] = p[n]
  <2>1. \A n \in 1..Len(p) : SubSeq(p, 1, Len(p))[n] = p[n] /\ SubSeq(line, 1, Len(p))[n] = line[n]
    BY <1>3, <1>8
  <2> QED BY <1>3, <2>1
<1>10. k + j + 4 <= Len(line) /\ \A n \in 1..(k + j + 4) : line[n] = p[n]
  BY <1>3, <1>8, <1>9
<1>11. line[k + j + 3] = value /\ line[k + j + 4] = semi
  BY <1>8, <1>10
<1>12. \A n \in 1..(k + j + 2) : line[n] = c[n]
  BY <1>8, <1>10
<1>13. \A n \in (k + 3)..(k + j + 2) : line[n] = blank
  BY <1>7, <1>12
<1>14. \A n \in 1..(k + 2) : line[n] = b[n]
  BY <1>7, <1>12
<1>15. line[k + 2] = eq
  BY <1>6, <1>14
<1>16. line[1] = name /\ \A n \in 2..(k + 1) : line[n] = blank
  BY <1>5, <1>6, <1>14
<1> QED
  BY <1>10, <1>11, <1>13, <1>15, <1>16 DEF Places

Different(name, blank, eq, value, semi) ==
    /\ name \notin {blank, eq, semi} /\ value \notin {blank, eq, semi}
    /\ blank # eq /\ blank # semi /\ eq # semi

\* Where find finds the tokens of such a line.
LEMMA FoundPlaces ==
    ASSUME NEW S, NEW line \in Seq(S), NEW name, NEW blank, NEW eq, NEW value, NEW semi,
           NEW k \in Nat, NEW j \in Nat, Places(line, name, blank, eq, value, semi, k, j),
           Different(name, blank, eq, value, semi)
    PROVE  /\ find(line, eq) = k + 1
           /\ find(line, semi) = k + j + 3
           /\ k = 0 => find(line, blank) = -1 \/ (find(line, blank) \in Nat /\ find(line, blank) > k + 1)
           /\ k > 0 => find(line, blank) = 1
<1>1. find(line, eq) = k + 1
  <2>1. \A q \in 1..(k + 1) : line[q] # eq
    BY DEF Places, Different
  <2>2. k + 2 \in 1..Len(line) /\ line[k + 2] = eq
    BY DEF Places, Different
  <2> QED BY <2>1, <2>2, FindFirst
<1>2. find(line, semi) = k + j + 3
  <2>1. ASSUME NEW q \in 1..(k + j + 3) PROVE line[q] # semi
    <3>1. q = 1 \/ q \in 2..(k + 1) \/ q = k + 2 \/ q \in (k + 3)..(k + j + 2) \/ q = k + j + 3
      OBVIOUS
    <3> QED BY <3>1 DEF Places, Different
  <2>2. k + j + 4 \in 1..Len(line) /\ line[k + j + 4] = semi
    BY DEF Places, Different
  <2> QED BY <2>1, <2>2, FindFirst
<1>3. ASSUME k = 0
      PROVE  find(line, blank) = -1 \/ (find(line, blank) \in Nat /\ find(line, blank) > k + 1)
  <2>1. \A q \in 1..2 : q <= Len(line) => line[q] # blank
    BY <1>3 DEF Places, Different
  <2>2. find(line, blank) = -1 \/ (find(line, blank) \in Nat /\ find(line, blank) >= 2)
    BY <2>1, FindNone
  <2> QED BY <1>3, <2>2
<1>4. ASSUME k > 0 PROVE find(line, blank) = 1
  <2>1. 2 \in 1..Len(line) /\ line[2] = blank /\ \A q \in 1..(2 - 1) : line[q] # blank
    BY <1>4 DEF Places, Different
  <2>2. find(line, blank) = 2 - 1
    BY <2>1, FindFirst
  <2> QED BY <2>2
<1> QED
  BY <1>1, <1>2, <1>3, <1>4

\* The code's cuts, with the tokens as parameters.
NameOf(line, blank, eq) ==
    LET posb == find(line, eq)
        posc == find(line, blank) IN
    IF posc = -1 \/ posc > posb THEN substr(line, 0, posb) ELSE substr(line, 0, posc)

Trimmed(s, blank) ==
    LET n == SelectInSeq(s, LAMBDA t : t # blank) IN
    IF n = 0 THEN <<>> ELSE SubSeq(s, n, Len(s))

ContentOf(line, blank, eq, semi) ==
    LET posa == find(line, semi)
        posb == find(line, eq) IN
    Trimmed(substr(line, posb + 1, posa - posb - 1), blank)

\* The value is what is left when the spaces before it are skipped.
LEMMA TrimmedValue ==
    ASSUME NEW S, NEW r \in Seq(S), NEW blank, NEW value, value # blank, NEW j \in Nat,
           Len(r) = j + 1, r[j + 1] = value, \A n \in 1..j : r[n] = blank
    PROVE  Trimmed(r, blank) = <<value>>
<1> DEFINE I == {n \in 1..Len(r) : r[n] # blank}
<1>1. I = {j + 1}
  OBVIOUS
<1>2. Min({j + 1}) = j + 1 /\ j + 1 # 0
  BY DEF Min
<1>3. SelectInSeq(r, LAMBDA t : t # blank) = IF I # {} THEN Min(I) ELSE 0
  BY DEF SelectInSeq
<1> HIDE DEF I
<1>4. SelectInSeq(r, LAMBDA t : t # blank) = j + 1
  BY <1>1, <1>2, <1>3
<1>5. SubSeq(r, j + 1, Len(r)) = <<value>>
  <2>1. /\ SubSeq(r, j + 1, Len(r)) \in Seq(S) /\ Len(SubSeq(r, j + 1, Len(r))) = 1
        /\ SubSeq(r, j + 1, Len(r))[1] = value
    OBVIOUS
  <2> QED BY <2>1, Single
<1> QED
  BY <1>2, <1>4, <1>5 DEF Trimmed

\* Such a line gives its name and its value.
LEMMA ItemPlaces ==
    ASSUME NEW S, NEW line \in Seq(S), NEW name, NEW blank, NEW eq, NEW value, NEW semi,
           NEW k \in Nat, NEW j \in Nat, Places(line, name, blank, eq, value, semi, k, j),
           Different(name, blank, eq, value, semi)
    PROVE  NameOf(line, blank, eq) = <<name>> /\ ContentOf(line, blank, eq, semi) = <<value>>
<1> DEFINE posa == find(line, semi)
           posb == find(line, eq)
           posc == find(line, blank)
           r == substr(line, k + 2, j + 1)
<1>1. /\ posb = k + 1 /\ posa = k + j + 3
      /\ k = 0 => posc = -1 \/ (posc \in Nat /\ posc > k + 1)
      /\ k > 0 => posc = 1
  BY FoundPlaces
<1>2. Len(line) \in Nat /\ Len(line) >= k + j + 4 /\ line[1] = name /\ value # blank
  BY DEF Places, Different
<1>3. NameOf(line, blank, eq)
        = IF posc = -1 \/ posc > posb THEN substr(line, 0, posb) ELSE substr(line, 0, posc)
  BY DEF NameOf
<1>4. ContentOf(line, blank, eq, semi) = Trimmed(substr(line, posb + 1, posa - posb - 1), blank)
  BY DEF ContentOf
<1>5. r = SubSeq(line, k + 3, k + j + 3)
  BY <1>2 DEF substr
<1>6. r = substr(line, k + 2, j + 1)
  OBVIOUS
<1> HIDE DEF posa, posb, posc, r
<1>7. NameOf(line, blank, eq) = <<name>>
  <2>1. substr(line, 0, 1) = <<name>>
    <3>1. substr(line, 0, 1) = SubSeq(line, 1, 1)
      BY <1>2 DEF substr
    <3>2. /\ SubSeq(line, 1, 1) \in Seq(S) /\ Len(SubSeq(line, 1, 1)) = 1
          /\ SubSeq(line, 1, 1)[1] = name
      BY <1>2
    <3> QED BY <3>1, <3>2, Single
  <2>2. CASE k = 0
    <3>1. (posc = -1 \/ posc > posb) /\ posb = 1
      BY <2>2, <1>1
    <3> QED BY <3>1, <2>1, <1>3
  <2>3. CASE k > 0
    <3>1. ~(posc = -1 \/ posc > posb) /\ posc = 1
      BY <2>3, <1>1
    <3> QED BY <3>1, <2>1, <1>3
  <2> QED BY <2>2, <2>3
<1>8. Trimmed(r, blank) = <<value>>
  <2>1. /\ r \in Seq(S) /\ Len(r) = j + 1
        /\ \A n \in 1..(j + 1) : r[n] = line[k + 2 + n]
    BY <1>2, <1>5
  <2>2. r[j + 1] = value
    BY <2>1 DEF Places
  <2>3. ASSUME NEW n \in 1..j PROVE r[n] = blank
    <3>1. k + 2 + n \in (k + 3)..(k + j + 2) /\ n \in 1..(j + 1)
      OBVIOUS
    <3> QED BY <2>1, <3>1 DEF Places
  <2>4. \A n \in 1..j : r[n] = blank
    BY <2>3
  <2>5. r \in Seq(S) /\ Len(r) = j + 1 /\ value # blank
    BY <1>2, <2>1
  <2> QED BY <2>2, <2>4, <2>5, TrimmedValue
<1>9. posb + 1 = k + 2 /\ posa - posb - 1 = j + 1
  BY <1>1
<1> QED
  BY <1>4, <1>6, <1>7, <1>8, <1>9

\* A documented line gives its name and its value, without the spaces, the
\* semicolon and the comment.
LEMMA DocumentedItem ==
    ASSUME NEW S, NEW line \in Seq(S), NEW name, NEW value, value \notin Separator,
           Documented(line, name, value)
    PROVE  line[1] = name /\ ItemName(line) = <<name>> /\ IterContent(line) = <<value>>
<1>1. PICK k \in 0..Len(line), j \in 0..Len(line) :
          IsPrefix(<<name>> \o Spaces(k) \o <<"=">> \o Spaces(j) \o <<value, ";">>, line)
  BY DEF Documented
<1>2. k \in Nat /\ j \in Nat
  OBVIOUS
<1>3. Places(line, name, " ", "=", value, ";", k, j)
  BY <1>1, <1>2, PrefixPlaces DEF Spaces
<1>4. Different(name, " ", "=", value, ";")
  BY DEF Documented, Separator, Different
<1>5. NameOf(line, " ", "=") = <<name>> /\ ContentOf(line, " ", "=", ";") = <<value>>
  <2>1. \A blank, eq, semi :
            Places(line, name, blank, eq, value, semi, k, j) /\ Different(name, blank, eq, value, semi)
            => NameOf(line, blank, eq) = <<name>> /\ ContentOf(line, blank, eq, semi) = <<value>>
    BY <1>2, ItemPlaces
  <2> QED BY <1>3, <1>4, <2>1, Zenon
<1>6. ItemName(line) = NameOf(line, " ", "=")
  BY DEF ItemName, NameOf
<1>7. IterContent(line) = ContentOf(line, " ", "=", ";")
  BY DEF IterContent, ContentOf, WithoutSpaces, Trimmed
<1> QED
  BY <1>3, <1>5, <1>6, <1>7 DEF Places

\* An item whose name is a single word comes from a line that begins with it.
LEMMA NameBeginsLine ==
    ASSUME NEW S, NEW line \in Seq(S), line # <<>>, NEW name, ItemName(line) = <<name>>
    PROVE  line[1] = name
<1>1. Len(line) \in Nat \ {0}
  OBVIOUS
<1> DEFINE posb == find(line, "=")
           posc == find(line, " ")
<1>2. posb \in Int /\ posc \in Int
  <2>1. \A c : find(line, c) = -1 \/ (find(line, c) \in Nat /\ find(line, c) >= 0)
    <3>1. TAKE c
    <3>2. \A q \in 1..0 : q <= Len(line) => line[q] # c
      OBVIOUS
    <3> QED BY <3>2, FindNone
  <2>2. \A c : find(line, c) \in Int
    BY <2>1
  <2> QED BY <2>2
<1>3. ItemName(line) = IF posc = -1 \/ posc > posb THEN substr(line, 0, posb) ELSE substr(line, 0, posc)
  BY DEF ItemName
<1> HIDE DEF posb, posc
<1>4. PICK len \in Int : <<name>> = substr(line, 0, len)
  BY <1>2, <1>3
<1>5. PICK last \in 0..Len(line) : <<name>> = SubSeq(line, 1, last)
  <2>1. CASE len < 0 \/ 0 + len > Len(line)
    BY <2>1, <1>1, <1>4 DEF substr
  <2>2. CASE ~(len < 0 \/ 0 + len > Len(line))
    BY <2>2, <1>1, <1>4 DEF substr
  <2> QED BY <2>1, <2>2
<1>6. Len(SubSeq(line, 1, last)) = last /\ Len(<<name>>) = 1 /\ <<name>>[1] = name
  BY <1>1
<1>7. last = 1
  BY <1>5, <1>6
<1>8. SubSeq(line, 1, 1)[1] = line[1]
  BY <1>1
<1> QED
  BY <1>5, <1>6, <1>7, <1>8

-----------------------------------------------------------------------------
Line == Seq(STRING)
Items == {Item(line) : line \in Line}

\* The k-th line is the first that begins as it does.
FirstOfName(k) ==
    \A n \in 1..(k - 1) : conf[n] = <<>> \/ Head(conf[n]) # Head(conf[k])

\* The p-th item is made of the k-th line, and no item before it has the name
\* with which that line begins.
ItemOf(p, k) ==
    /\ m_ConfigItemList[p] = Item(conf[k])
    /\ \A q \in 1..(p - 1) : m_ConfigItemList[q].ItemName # <<Head(conf[k])>>

\* Every item comes from a line read, and every line read that counts has an
\* item, which is the first of its name.
ItemsInv ==
    /\ \A q \in 1..Len(m_ConfigItemList) :
          \E n \in 1..pos : conf[n] # <<>> /\ m_ConfigItemList[q] = Item(conf[n])
    /\ \A k \in 1..pos : ~Skipped(conf[k]) /\ FirstOfName(k)
          => \E p \in 1..Len(m_ConfigItemList) : ItemOf(p, k)

ConfInv ==
    /\ m_ConfigItemList \in Seq(Items)
    /\ pos \in Nat
    /\ conf # Absent =>
         /\ conf \in Seq(Line)
         /\ pos <= Len(conf)
         /\ ItemsInv
    /\ Loaded => pos = Len(conf)

\* GetString returns the first item of that name.
LEMMA LookupFirst ==
    ASSUME NEW T, NEW items \in Seq(T), NEW name, NEW p \in 1..Len(items),
           items[p].ItemName = <<name>>, \A q \in 1..(p - 1) : items[q].ItemName # <<name>>
    PROVE  GetString(items, name) = items[p].IterContent
<1> DEFINE I == {n \in 1..Len(items) : items[n].ItemName = <<name>>}
<1>1. p \in I /\ \A n \in I : p <= n
  OBVIOUS
<1>2. \A x \in I : (\A y \in I : x <= y) => x = p
  BY <1>1
<1>3. Min(I) = p
  BY <1>1, <1>2 DEF Min
<1>4. Lookup(items, name) = p
  BY <1>1, <1>3 DEF Lookup, SelectInSeq
<1> QED
  BY <1>4 DEF GetString

LEMMA InitConfInv ==
    ASSUME Init
    PROVE  ConfInv
<1>1. conf \in Files /\ pos = 0 /\ m_ConfigItemList = <<>> /\ start = "load"
  BY DEF Init
<1>2. conf = Absent \/ conf \in Seq(Line)
  BY <1>1, FilesAssumption DEF Line
<1>3. ~Loaded
  BY <1>1 DEF Loaded
<1>4. ItemsInv
  BY <1>1 DEF ItemsInv
<1>5. m_ConfigItemList \in Seq(Items) /\ pos \in Nat
  BY <1>1
<1>6. conf # Absent => pos <= Len(conf)
  BY <1>1, <1>2
<1> QED
  BY <1>2, <1>3, <1>4, <1>5, <1>6 DEF ConfInv

\* One turn of the loop of Load.
LEMMA LoadLineStep ==
    ASSUME ConfInv, LoadLine
    PROVE  ConfInv'
<1> DEFINE k == pos + 1
           line == conf[k]
           items == m_ConfigItemList
<1>1. /\ conf # Absent /\ conf' = conf /\ pos' = pos + 1 /\ pos < Len(conf)
      /\ items' = IF Skipped(line) THEN items ELSE Append(items, Item(line))
      /\ start' \in {"spin", "load"}
  BY DEF LoadLine
<1>2. /\ items \in Seq(Items) /\ pos \in Nat /\ conf \in Seq(Line) /\ ItemsInv
  BY <1>1 DEF ConfInv
<1>3. ~Loaded'
  BY <1>1 DEF Loaded
<1>4. pos' \in Nat /\ pos' <= Len(conf') /\ conf' \in Seq(Line) /\ k \in 1..Len(conf) /\ line \in Line
  BY <1>1, <1>2
<1>5. Item(line) \in Items
  BY <1>4 DEF Items
<1>6. items' \in Seq(Items)
  <2> HIDE DEF line, k
  <2> QED BY <1>1, <1>2, <1>5
<1>7. \A q \in 1..Len(items') : \E n \in 1..pos' : conf'[n] # <<>> /\ items'[q] = Item(conf'[n])
  <2>1. \A q \in 1..Len(items) : \E n \in 1..pos : conf[n] # <<>> /\ items[q] = Item(conf[n])
    BY <1>2 DEF ItemsInv
  <2>2. CASE Skipped(line)
    <3>1. items' = items
      BY <2>2, <1>1
    <3> QED BY <2>1, <3>1, <1>1, <1>2
  <2>3. CASE ~Skipped(line)
    <3>1. items' = Append(items, Item(line)) /\ line # <<>>
      BY <2>3, <1>1 DEF Skipped
    <3>2. /\ Len(items') = Len(items) + 1
          /\ \A q \in 1..Len(items) : items'[q] = items[q]
          /\ items'[Len(items) + 1] = Item(line)
      <4> HIDE DEF line, k
      <4> QED BY <3>1, <1>2, <1>5
    <3>3. ASSUME NEW q \in 1..Len(items')
          PROVE  \E n \in 1..pos' : conf'[n] # <<>> /\ items'[q] = Item(conf'[n])
      <4>1. CASE q \in 1..Len(items)
        BY <4>1, <2>1, <3>2, <1>1, <1>2
      <4>2. CASE q = Len(items) + 1
        <5>1. k \in 1..pos' /\ conf'[k] # <<>> /\ items'[q] = Item(conf'[k])
          BY <4>2, <3>1, <3>2, <1>1, <1>2
        <5> QED BY <5>1
      <4> QED BY <4>1, <4>2, <3>2, <1>2
    <3> QED BY <3>3
  <2> QED BY <2>2, <2>3
<1>8. ASSUME NEW m \in 1..pos', ~Skipped(conf[m]), FirstOfName(m)
      PROVE  \E p \in 1..Len(items') : ItemOf(p, m)'
  <2>1. CASE m \in 1..pos
    <3>1. PICK p \in 1..Len(items) : ItemOf(p, m)
      BY <2>1, <1>2, <1>8 DEF ItemsInv
    <3>2. Len(items') \in Nat /\ Len(items') >= Len(items) /\ \A q \in 1..Len(items) : items'[q] = items[q]
      <4> HIDE DEF line, k
      <4>1. CASE Skipped(line)
        BY <4>1, <1>1, <1>2
      <4>2. CASE ~Skipped(line)
        BY <4>2, <1>1, <1>2, <1>5
      <4> QED BY <4>1, <4>2
    <3>3. p \in 1..Len(items') /\ \A q \in 1..p : items'[q] = items[q]
      BY <3>2, <1>2
    <3>4. ItemOf(p, m)'
      BY <3>1, <3>3, <1>1, <1>2 DEF ItemOf
    <3> QED BY <3>3, <3>4
  <2>2. CASE m = k
    <3>1. items' = Append(items, Item(line))
      BY <2>2, <1>1, <1>8
    <3>2. /\ Len(items') = Len(items) + 1
          /\ \A q \in 1..Len(items) : items'[q] = items[q]
          /\ items'[Len(items) + 1] = Item(line)
      <4> HIDE DEF line, k
      <4> QED BY <3>1, <1>2, <1>5
    <3>3. ASSUME NEW q \in 1..Len(items), items[q].ItemName = <<Head(line)>>
          PROVE  FALSE
      <4>1. PICK n \in 1..pos : conf[n] # <<>> /\ items[q] = Item(conf[n])
        BY <1>2 DEF ItemsInv
      <4>2. ItemName(conf[n]) = <<Head(line)>>
        BY <4>1, <3>3 DEF Item
      <4>3. conf[n] \in Seq(STRING)
        BY <1>1, <1>2 DEF Line
      <4>4. conf[n][1] = Head(line)
        BY <4>1, <4>2, <4>3, NameBeginsLine
      <4>5. conf[n] = <<>> \/ Head(conf[n]) # Head(line)
        BY <2>2, <1>2, <1>8 DEF FirstOfName
      <4> QED BY <4>1, <4>3, <4>4, <4>5
    <3>p. PICK p \in Nat : p = Len(items) + 1
      BY <1>2
    <3>4. p \in 1..Len(items') /\ \A q \in 1..(p - 1) : items'[q].ItemName # <<Head(line)>>
      BY <3>p, <3>2, <3>3, <1>2
    <3>5. ItemOf(p, m)'
      BY <2>2, <3>p, <3>2, <3>4, <1>1, <1>2 DEF ItemOf
    <3> QED BY <3>4, <3>5
  <2> QED BY <2>1, <2>2, <1>1, <1>2
<1>9. ItemsInv'
  <2>1. \A m : FirstOfName(m)' <=> FirstOfName(m)
    BY <1>1 DEF FirstOfName
  <2> QED BY <1>1, <1>7, <1>8, <2>1 DEF ItemsInv
<1> QED
  BY <1>3, <1>4, <1>6, <1>9 DEF ConfInv

\* The rest of the program reads the list only.
LEMMA ConfKept ==
    ASSUME ConfInv, UNCHANGED confVars, Loaded' => Loaded \/ pos = Len(conf)
    PROVE  ConfInv'
<1>1. conf' = conf /\ pos' = pos /\ m_ConfigItemList' = m_ConfigItemList
  BY DEF confVars
<1>2. ItemsInv' = ItemsInv
  BY <1>1 DEF ItemsInv, ItemOf, FirstOfName
<1> QED
  BY <1>1, <1>2 DEF ConfInv

LEMMA ConfStep ==
    ASSUME ConfInv, [Next]_vars
    PROVE  ConfInv'
<1>1. CASE LoadFails
  BY <1>1, ConfKept DEF LoadFails, Loaded, confVars
<1>2. CASE LoadLine
  BY <1>2, LoadLineStep
<1>3. CASE LoadEnds
  BY <1>3, ConfKept DEF LoadEnds
<1>4. CASE UNCHANGED <<confVars, start>>
  BY <1>4, ConfKept DEF Loaded, confVars
<1>5. CASE UNCHANGED confVars /\ start \notin {"load", "spin"}
  BY <1>5, ConfKept DEF Loaded, confVars
<1> QED
  <2>1. CASE Masters \/ (\E w \in Worker : ngx_epoll_init(w)) \/ UNCHANGED vars
    BY <2>1, <1>4 DEF Masters, ngx_epoll_init, vars
  <2>2. CASE ngx_daemon \/ ReadConf \/ ngx_open_listening_sockets \/ Initialized
             \/ ngx_master_process_cycle
    BY <2>2, <1>5 DEF ngx_daemon, ReadConf, ngx_open_listening_sockets, Initialized,
                      ngx_master_process_cycle
  <2> QED BY <1>1, <1>2, <1>3, <2>1, <2>2 DEF Next, Main

\* For every file: a name whose first line is written as nginx.conf says has the
\* value of that line, whatever the spaces, the comments and the other lines.
THEOREM ConfigIsRead == Spec => []ConfigRead
<1>1. ConfInv => ConfigRead
  <2> SUFFICES ASSUME ConfInv, Loaded, NEW k \in DOMAIN conf, NEW value \in DOMAIN Number,
                      conf[k] # <<>>, Documented(conf[k], Head(conf[k]), value),
                      \A j \in 1..(k - 1) : conf[j] = <<>> \/ Head(conf[j]) # Head(conf[k])
               PROVE  GetString(m_ConfigItemList, Head(conf[k])) = <<value>>
    BY DEF ConfigRead
  <2>1. /\ conf \in Seq(Line) /\ pos = Len(conf) /\ ItemsInv /\ m_ConfigItemList \in Seq(Items)
    BY DEF ConfInv, Loaded
  <2>2. k \in 1..pos /\ conf[k] \in Line
    BY <2>1
  <2>3. conf[k] \in Seq(STRING) /\ value \notin Separator
    BY <2>2, ConfigAssumption DEF Line
  <2>4. ItemName(conf[k]) = <<Head(conf[k])>> /\ IterContent(conf[k]) = <<value>>
    BY <2>3, DocumentedItem
  <2>5. ~Skipped(conf[k])
    BY DEF Skipped, Documented, Separator
  <2>6. PICK p \in 1..Len(m_ConfigItemList) : ItemOf(p, k)
    BY <2>1, <2>2, <2>5 DEF ItemsInv, FirstOfName
  <2>7. m_ConfigItemList[p].ItemName = <<Head(conf[k])>> /\ m_ConfigItemList[p].IterContent = <<value>>
    BY <2>4, <2>6 DEF ItemOf, Item
  <2>8. GetString(m_ConfigItemList, Head(conf[k])) = m_ConfigItemList[p].IterContent
    BY <2>1, <2>6, <2>7, LookupFirst DEF ItemOf
  <2> QED BY <2>7, <2>8
<1> QED
  BY <1>1, InitConfInv, ConfStep, PTL DEF Spec
=============================================================================
