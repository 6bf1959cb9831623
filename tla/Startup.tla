------------------------------ MODULE Startup -------------------------------
(***************************************************************************)
(* From main to serving workers: the configuration is loaded, the process  *)
(* becomes a daemon, the listening sockets are opened (app/nginx.cpp,      *)
(* proc/ngx_daemon.cpp, net/ngx_c_socket.cpp), the master forks the        *)
(* workers, and each makes its epoll and watches the sockets.  A system    *)
(* call may fail wherever the code looks at its result.  A socket is named *)
(* by the index of its port.                                               *)
(***************************************************************************)
EXTENDS Master, Config, TLC

CONSTANTS Absent, Files     \* no nginx.conf; the files that it may be

ASSUME FilesAssumption == \A file \in Files : file = Absent \/ file \in Seq(Seq(STRING))

VARIABLES
    conf,                   \* nginx.conf, a sequence of lines
    start,                  \* where main is; after "exit" or "abort" it is gone
    pos,                    \* lines read
    m_ConfigItemList,
    g_daemonized,
    m_ListenPortCount,
    m_worker_connections,
    sockets,                \* the open sockets
    m_ListenSocketList,
    initialized,            \* history: what Initialize returned
    epoll                   \* the sockets that each worker watches

confVars == <<conf, pos, m_ConfigItemList>>
socketVars == <<m_ListenPortCount, m_worker_connections, sockets, m_ListenSocketList,
                initialized>>
vars == <<masterVars, confVars, socketVars, start, g_daemonized, epoll>>

Init ==
    /\ MasterInit
    /\ conf \in Files
    /\ start = "load"
    /\ pos = 0
    /\ m_ConfigItemList = <<>>
    /\ g_daemonized = 0
    /\ m_ListenPortCount = 1
    /\ m_worker_connections = 1
    /\ sockets = {}
    /\ m_ListenSocketList = <<>>
    /\ initialized = FALSE
    /\ epoll = [w \in Worker |-> {}]

Num(name) == GetNum(m_ConfigItemList, name)

-----------------------------------------------------------------------------
(* CConfig::Load. *)

LoadFails ==
    /\ start = "load"
    /\ conf = Absent
    /\ start' = "exit"
    /\ UNCHANGED <<masterVars, confVars, socketVars, g_daemonized, epoll>>

\* A line of 500 bytes or more ends in "...": the first 499 bytes are read as
\* a line of their own, and then the failed stream returns empty lines and
\* never its end.
TooLong(line) == line # <<>> /\ Last(line) = "..."

\* Mutant: a line to be skipped is looked at again.
LoadLine_Again ==
    /\ start = "load"
    /\ conf # Absent
    /\ pos < Len(conf)
    /\ LET line == conf[pos + 1] IN
       /\ m_ConfigItemList' = IF Skipped(line) THEN m_ConfigItemList
                              ELSE Append(m_ConfigItemList, Item(line))
       /\ start' = IF TooLong(line) THEN "spin" ELSE "load"
       /\ pos' = IF Skipped(line) THEN pos ELSE pos + 1
    /\ UNCHANGED <<masterVars, socketVars, conf, g_daemonized, epoll>>

LoadLine ==
    /\ start = "load"
    /\ conf # Absent
    /\ pos < Len(conf)
    /\ LET line == conf[pos + 1] IN
       /\ m_ConfigItemList' = IF Skipped(line) THEN m_ConfigItemList
                              ELSE Append(m_ConfigItemList, Item(line))
       /\ start' = IF TooLong(line) THEN "spin" ELSE "load"
    /\ pos' = pos + 1
    /\ UNCHANGED <<masterVars, socketVars, conf, g_daemonized, epoll>>

\* The end of the file; and then, in main, what GetNum returns for Daemon,
\* not the value it stores, decides whether the process becomes a daemon.
LoadEnds ==
    /\ start = "load"
    /\ conf # Absent
    /\ pos = Len(conf)
    /\ start' = CASE Num("Daemon") = "throws" -> "abort"
                  [] Num("Daemon") = "unknown" -> "ReadConf"
                  [] OTHER -> "daemon"
    /\ UNCHANGED <<masterVars, confVars, socketVars, g_daemonized, epoll>>

-----------------------------------------------------------------------------
(* ngx_daemon: the child goes on, also when setsid fails, but not when fork, *)
(* a dup2 or a close does.                                                   *)
ngx_daemon ==
    /\ start = "daemon"
    /\ \/ start' = "ReadConf" /\ g_daemonized' = 1
       \/ start' = "exit" /\ UNCHANGED g_daemonized
    /\ UNCHANGED <<masterVars, confVars, socketVars, epoll>>

-----------------------------------------------------------------------------
(* CSocket::Initialize. *)

Optional == {"ET_flag", "Flood_flag", "FloodTimeInterval", "FloodKickCount"}

\* What main does with the failure: nothing.
InitializeFails ==
    /\ start' = "master"
    /\ UNCHANGED <<m_ListenSocketList, initialized>>

ReadConf ==
    LET count == Num("ListenPortCount")
        connections == Num("worker_connections") IN
    /\ start = "ReadConf"
    /\ CASE count = "throws" ->
              start' = "abort" /\ UNCHANGED socketVars
         [] count = "unknown" ->
              InitializeFails /\ UNCHANGED <<m_ListenPortCount, m_worker_connections, sockets>>
         [] OTHER ->
              /\ m_ListenPortCount' = Number[count]
              /\ UNCHANGED <<sockets, m_ListenSocketList, initialized>>
              /\ IF connections \in {"unknown", "throws"}
                 THEN /\ start' = IF connections = "unknown" THEN "master" ELSE "abort"
                      /\ UNCHANGED m_worker_connections
                 ELSE /\ start' = IF \E name \in Optional : Num(name) = "throws"
                                  THEN "abort" ELSE "listen"
                      /\ m_worker_connections' = Number[connections]
    /\ UNCHANGED <<masterVars, confVars, g_daemonized, epoll>>

i == Len(m_ListenSocketList)
portname == "ListenPort" \o ToString(i)

server_port == Number[Num(portname)]

\* htons takes the low 16 bits; a port can be bound once, but 0 stands for a
\* free port that bind chooses.
Bound == {m_ListenSocketList[k].port % 65536 : k \in DOMAIN m_ListenSocketList} \ {0}

\* socket succeeds or not; without a port, or when setsockopt, fcntl, bind or
\* listen fails, the socket is closed again.
Opened ==
    /\ Num(portname) \notin {"unknown", "throws"}
    /\ server_port % 65536 \notin Bound
    /\ sockets' = sockets \cup {i}
    /\ m_ListenSocketList' = Append(m_ListenSocketList, [fd |-> i, port |-> server_port])
    /\ UNCHANGED <<start, initialized>>

\* Mutant: the socket stays open when bind fails.
NotOpened_Kept ==
    /\ Num(portname) # "throws"
    /\ sockets' = sockets \cup {i}
    /\ InitializeFails

NotOpened ==
    /\ Num(portname) # "throws"
    /\ UNCHANGED sockets
    /\ InitializeFails

\* A port that is not a number ends the process, unless socket failed first.
Thrown ==
    /\ Num(portname) = "throws"
    /\ \/ start' = "abort" /\ UNCHANGED <<m_ListenSocketList, initialized>>
       \/ InitializeFails
    /\ UNCHANGED sockets

ngx_open_listening_sockets ==
    /\ start = "listen"
    /\ i < m_ListenPortCount
    /\ Opened \/ NotOpened \/ Thrown
    /\ UNCHANGED <<masterVars, confVars, g_daemonized, epoll,
                   m_ListenPortCount, m_worker_connections>>

Initialized ==
    /\ start = "listen"
    /\ i >= m_ListenPortCount
    /\ start' = "master"
    /\ initialized' = TRUE
    /\ UNCHANGED <<masterVars, confVars, g_daemonized, epoll, m_ListenPortCount,
                   m_worker_connections, sockets, m_ListenSocketList>>

-----------------------------------------------------------------------------
(* The master and its workers. *)

\* Without WorkerProcesses the number is whatever the variable held.
ngx_master_process_cycle ==
    LET n == Num("WorkerProcesses") IN
    /\ start = "master"
    /\ n \in DOMAIN Number => Number[n] <= MaxWorkers
    /\ CASE n = "throws" -> start' = "abort" /\ UNCHANGED masterVars
         [] n = "unknown" -> start' = "loop" /\ \E k \in 0..MaxWorkers : StartMaster(k)
         [] OTHER -> start' = "loop" /\ StartMaster(Number[n])
    /\ UNCHANGED <<confVars, socketVars, g_daemonized, epoll>>

Watched == {m_ListenSocketList[k].fd : k \in DOMAIN m_ListenSocketList}

\* A connection for every listening socket, from the pool's limit.
Enough == Cardinality(Watched) <= m_worker_connections + m_worker_connections \div 2

\* The worker watches the sockets, or calls exit: epoll_create fails (always
\* when it is asked for none), a connection is missing, or epoll_ctl fails.
\* exit runs ~CThread, which joins the pool's threads: one that missed its
\* notify, or runs a resident task (m_shutdown is set only in ~CSocket), is
\* waited for, and the worker is stuck.
ngx_epoll_init(w) ==
    /\ proc[w] = "init"
    /\ \/ /\ m_worker_connections > 0 /\ Enough
          /\ proc' = [proc EXCEPT ![w] = "running"]
          /\ epoll' = [epoll EXCEPT ![w] = Watched]
          /\ UNCHANGED <<workernum, inum, master, sigchld, ngx_reap>>
       \/ /\ WorkerExits(w)
          /\ UNCHANGED epoll
       \/ /\ proc' = [proc EXCEPT ![w] = "stuck"]
          /\ UNCHANGED <<workernum, inum, master, sigchld, ngx_reap, epoll>>
    /\ UNCHANGED <<confVars, socketVars, start, g_daemonized>>

\* A worker that serves or is stuck is killed; or the thread that a stuck one
\* waits for wakes up after all.
Killed(w) == proc[w] \in {"running", "stuck"} /\ WorkerExits(w)

MasterStep == ngx_spawn_process \/ EnterLoop \/ ngx_signal_handler \/ WakeUp

\* The rest of the system does not take part in a step of the master.
Masters ==
    /\ MasterStep \/ OtherSignal \/ \E w \in Worker : Killed(w)
    /\ UNCHANGED <<confVars, socketVars, start, g_daemonized, epoll>>

Main == LoadFails \/ LoadLine \/ LoadEnds \/ ngx_daemon \/ ReadConf
        \/ ngx_open_listening_sockets \/ Initialized \/ ngx_master_process_cycle

Next == Main \/ Masters \/ \E w \in Worker : ngx_epoll_init(w)

\* main runs, the workers that are forked run, and a signal that is pending
\* each time the master waits is delivered in the end.
Spec ==
    /\ Init /\ [][Next]_vars
    /\ WF_vars(Main)
    /\ WF_vars((ngx_spawn_process \/ EnterLoop \/ WakeUp) /\ Masters)
    /\ SF_vars(ngx_signal_handler /\ Masters)
    /\ \A w \in Worker : WF_vars(ngx_epoll_init(w))

-----------------------------------------------------------------------------
Loaded == start \notin {"load", "spin"} /\ conf # Absent

\* Whatever else the file holds, and however its spaces are set: a name whose
\* first line is written as nginx.conf says has the value of that line, and
\* nothing more.
ConfigRead ==
    Loaded => \A k \in DOMAIN conf : \A value \in DOMAIN Number :
        LET line == conf[k] IN
        /\ line # <<>> /\ Documented(line, Head(line), value)
        /\ \A j \in 1..(k - 1) : conf[j] = <<>> \/ Head(conf[j]) # Head(line)
        => GetString(m_ConfigItemList, Head(line)) = <<value>>

\* No two sockets have the same port, unless bind chose it.
OwnPorts ==
    \A k, l \in DOMAIN m_ListenSocketList :
        /\ m_ListenSocketList[k].port % 65536 = m_ListenSocketList[l].port % 65536
        /\ m_ListenSocketList[k].port % 65536 # 0
        => k = l

\* No socket is open but those in the list, one for each of the first ports
\* configured, on different ports unless bind chose them (port 0); they are
\* all the ports if Initialize succeeded; and every serving worker watches
\* them all.
ListenExact ==
    /\ sockets = Watched
    /\ Watched = 0..(i - 1) /\ OwnPorts
    /\ initialized => i = m_ListenPortCount \/ m_ListenPortCount < 0
    /\ \A w \in Worker : proc[w] = "running" => epoll[w] = sockets

Settled ==
    /\ master \in {"sigsuspend", "sleep"}
    /\ \A w \in Worker : (w < workernum) = (proc[w] # "none") /\ proc[w] # "init"

\* Start-up comes to an end: the process has exited, or it has forked the
\* workers it was told to, and each serves, is gone, or is stuck in its exit;
\* unless a line of the configuration is too long.
StartupEnds ==
    (conf = Absent \/ \A line \in Range(conf) : ~TooLong(line))
        ~> (start \in {"exit", "abort"} \/ Settled)
=============================================================================
