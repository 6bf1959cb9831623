----------------------------- MODULE Lifecycle -----------------------------
(***************************************************************************)
(* The life of connections in a worker that uses level-triggered epoll:    *)
(* accepted by the main thread, watched for heartbeats, closed by the peer *)
(* or for a flood, put off by a timer, and returned to the pool by the     *)
(* recycling thread.                                                       *)
(*                                                                         *)
(* Actors: the main thread (events and timers), the heartbeat thread       *)
(* ngx_time_check, the recycling thread ngx_timer_free_connection, and the *)
(* pool threads that note a ping.  m_timerQueuemap is the multimap of      *)
(* heartbeat entries in its order; it is protected by m_PingMutex, which   *)
(* the heartbeat thread also holds while it sleeps.                        *)
(*                                                                         *)
(* The free list is the set that ConnPool shows it to be.                  *)
(***************************************************************************)
EXTENDS Integers, Sequences, FiniteSets, SequencesExt

CONSTANTS
    Conn,                   \* the connections of the pool
    m_worker_connections,   \* configured number of clients
    Timeout,                \* WAITTIME * 3 + 10
    MaxTime,                \* bound on the clock
    MaxAccepts              \* bound on the clients accepted

ASSUME LifeAssumption ==
    /\ m_worker_connections \in Nat \ {0}
    /\ Timeout \in Nat \ {0} /\ MaxTime \in Nat /\ MaxAccepts \in Nat

VARIABLES
    now,
    held,                   \* connections taken from the pool
    iCurrsequence,
    peer,                   \* what the peer has done: "up", "fin", "rst"
    watched,                \* connections in the epoll set
    m_onlineUserCount,
    timers,                 \* pending release timers of each connection
    m_recyconnectionList,
    lastPingTime, storePingTime,
    m_timerQueuemap,
    main,                   \* "loop", or what it needs m_PingMutex for
    heart,                  \* the heartbeat thread
    it,                     \* its iterator
    first,                  \* the new key of the entry that it moves
    torn,                   \* history: a ping came while it moved their entries
    doubleFree,             \* history: a free connection was freed
    accepts

connVars == <<held, iCurrsequence, peer, watched, m_onlineUserCount>>
relVars == <<timers, m_recyconnectionList, doubleFree>>
pingVars == <<lastPingTime, storePingTime, torn>>
scanVars == <<it, first>>
vars == <<now, connVars, relVars, pingVars, m_timerQueuemap, main, heart, scanVars,
          accepts>>

Init ==
    /\ now = 0
    /\ held = {} /\ watched = {}
    /\ iCurrsequence = [c \in Conn |-> 0]
    /\ peer = [c \in Conn |-> "up"]
    /\ m_onlineUserCount = 0
    /\ timers = [c \in Conn |-> 0]
    /\ m_recyconnectionList = <<>>
    /\ lastPingTime = [c \in Conn |-> 0] /\ storePingTime = [c \in Conn |-> 0]
    /\ m_timerQueuemap = <<>>
    /\ main = [at |-> "loop"]
    /\ heart = "wait" /\ it = 1 /\ first = 0 /\ torn = {}
    /\ doubleFree = FALSE
    /\ accepts = 0

-----------------------------------------------------------------------------
(* The multimap.                                                           *)

\* emplace: after the entries with the same key.
Emplaced(map, e) ==
    LET before == Cardinality({i \in DOMAIN map : map[i].key <= e.key})
    IN  InsertAt(map, before + 1, e)

\* erase(find(key)): the first entry with that key.  Without one the argument
\* is end(), and what the main thread does from then on undefined.
Found(map, key) == {i \in DOMAIN map : map[i].key = key}
ErasedKey(map, key) ==
    RemoveAt(map, CHOOSE i \in Found(map, key) : \A j \in Found(map, key) : i <= j)

PingMutexFree == heart = "wait"

-----------------------------------------------------------------------------
(* ngx_close_connection, by whichever thread.                              *)

ngx_close_connection(c) ==
    /\ held' = held \ {c}
    /\ doubleFree' = (doubleFree \/ c \notin held)
    /\ iCurrsequence' = [iCurrsequence EXCEPT ![c] = @ + 1]

-----------------------------------------------------------------------------
(* The main thread.                                                        *)

TooMany == m_onlineUserCount > m_worker_connections

\* ngx_event_accept up to ngx_add_check; a client too many is closed at once.
\* Adding the epoll event may fail, then the connection is given back.
ngx_event_accept(c) ==
    /\ main.at = "loop"
    /\ accepts < MaxAccepts
    /\ ~TooMany
    /\ c \in Conn \ held
    /\ accepts' = accepts + 1
    /\ m_onlineUserCount' = m_onlineUserCount + 1
    /\ \/ /\ held' = held \cup {c}
          /\ iCurrsequence' = [iCurrsequence EXCEPT ![c] = @ + 1]
          /\ peer' = [peer EXCEPT ![c] = "up"]
          /\ watched' = watched \cup {c}
          /\ lastPingTime' = [lastPingTime EXCEPT ![c] = now]
          /\ storePingTime' = [storePingTime EXCEPT ![c] = now]
          /\ torn' = torn \ {c}
          /\ main' = [at |-> "add", conn |-> c]
       \/ /\ iCurrsequence' = [iCurrsequence EXCEPT ![c] = @ + 2]
          /\ UNCHANGED <<held, peer, watched, pingVars, main>>
    /\ UNCHANGED <<now, relVars, m_timerQueuemap, heart, scanVars>>

\* ngx_add_check
ngx_add_check ==
    /\ main.at = "add"
    /\ PingMutexFree
    /\ m_timerQueuemap' = Emplaced(m_timerQueuemap,
          [key |-> lastPingTime[main.conn], conn |-> main.conn,
           seq |-> iCurrsequence[main.conn]])
    /\ main' = [at |-> "loop"]
    /\ UNCHANGED <<now, connVars, relVars, pingVars, heart, scanVars, accepts>>

\* Mutants: two timers are started; the event is not deleted.
StartRelease_Twice(c) ==
    /\ watched' = watched \ {c}
    /\ timers' = [timers EXCEPT ![c] = @ + 2]
    /\ UNCHANGED <<held, iCurrsequence, peer, m_recyconnectionList, doubleFree>>
StartRelease_KeepsEvent(c) ==
    /\ timers' = [timers EXCEPT ![c] = @ + 1]
    /\ UNCHANGED <<held, iCurrsequence, peer, watched, m_recyconnectionList, doubleFree>>

\* Every way to close begins so: del_event and AddTimer.
StartRelease(c) ==
    /\ watched' = watched \ {c}
    /\ timers' = [timers EXCEPT ![c] = @ + 1]
    /\ UNCHANGED <<held, iCurrsequence, peer, m_recyconnectionList, doubleFree>>

\* Mutant: the client is taken off the count by the caller as well.
CloseCounted_Twice(c) ==
    /\ main.at = "loop"
    /\ c \in watched
    /\ StartRelease(c)
    /\ m_onlineUserCount' = m_onlineUserCount - 2
    /\ main' = [at |-> "erase", conn |-> c, by |-> "storePingTime"]
    /\ UNCHANGED <<now, pingVars, m_timerQueuemap, heart, scanVars, accepts>>

\* recv returns 0, or ngx_evhup_handler, which does the same; or TestFlood
\* made the reader call ngx_free_con_self.
CloseCounted(c) ==
    /\ main.at = "loop"
    /\ c \in watched
    /\ StartRelease(c)
    /\ m_onlineUserCount' = m_onlineUserCount - 1
    /\ main' = [at |-> "erase", conn |-> c, by |-> "storePingTime"]
    /\ UNCHANGED <<now, pingVars, m_timerQueuemap, heart, scanVars, accepts>>

PeerClosed(c) == peer[c] = "fin" /\ CloseCounted(c)
ngx_evhup_handler(c) == peer[c] = "rst" /\ CloseCounted(c)
ngx_free_con_self(c) == peer[c] = "up" /\ CloseCounted(c)

\* recv fails with ECONNRESET: the reset came after epoll_wait.
PeerReset(c) ==
    /\ peer[c] = "rst"
    /\ main.at = "loop"
    /\ c \in watched
    /\ StartRelease(c)
    /\ main' = [at |-> "erase", conn |-> c, by |-> "lastPingTime"]
    /\ UNCHANGED <<now, m_onlineUserCount, pingVars, m_timerQueuemap, heart, scanVars,
                   accepts>>

\* recv fails otherwise: closed and given back at once.
PeerError(c) ==
    /\ main.at = "loop"
    /\ c \in watched
    /\ watched' = watched \ {c}
    /\ ngx_close_connection(c)
    /\ UNCHANGED <<now, peer, m_onlineUserCount, timers, m_recyconnectionList, pingVars,
                   m_timerQueuemap, main, heart, scanVars, accepts>>

\* The erase that ends each of them but the last.
EraseEntry ==
    /\ main.at = "erase"
    /\ PingMutexFree
    /\ LET key == IF main.by = "storePingTime" THEN storePingTime[main.conn]
                  ELSE lastPingTime[main.conn] IN
       \/ /\ Found(m_timerQueuemap, key) # {}
          /\ m_timerQueuemap' = ErasedKey(m_timerQueuemap, key)
          /\ main' = [at |-> "loop"]
       \/ /\ Found(m_timerQueuemap, key) = {}
          /\ main' = [at |-> "undefined"]
          /\ UNCHANGED m_timerQueuemap
    /\ UNCHANGED <<now, connVars, relVars, pingVars, heart, scanVars, accepts>>

\* Mutant: the callback loses the connection.
ngx_time_tofree_connection_Drops(c) ==
    /\ main.at = "loop"
    /\ timers[c] > 0
    /\ timers' = [timers EXCEPT ![c] = @ - 1]
    /\ UNCHANGED <<now, connVars, m_recyconnectionList, doubleFree, pingVars,
                   m_timerQueuemap, main, heart, scanVars, accepts>>

\* A release timer is due: ngx_time_tofree_connection.
ngx_time_tofree_connection(c) ==
    /\ main.at = "loop"
    /\ timers[c] > 0
    /\ timers' = [timers EXCEPT ![c] = @ - 1]
    /\ m_recyconnectionList' = Append(m_recyconnectionList, c)
    /\ UNCHANGED <<now, connVars, doubleFree, pingVars, m_timerQueuemap, main, heart, scanVars,
                   accepts>>

-----------------------------------------------------------------------------
(* The recycling thread.                                                   *)

ngx_timer_free_connection ==
    /\ m_recyconnectionList # <<>>
    /\ m_recyconnectionList' = Tail(m_recyconnectionList)
    /\ ngx_close_connection(Head(m_recyconnectionList))
    /\ UNCHANGED <<now, peer, watched, m_onlineUserCount, timers, pingVars,
                   m_timerQueuemap, main, heart, scanVars, accepts>>

-----------------------------------------------------------------------------
(* The heartbeat thread.  It goes round every second while there are        *)
(* entries, whether notified or not.                                       *)

Entry == m_timerQueuemap[it]
Scanning == heart = "scan" /\ it <= Len(m_timerQueuemap)
Old(time) == now - time >= Timeout
Stale == Entry.seq # iCurrsequence[Entry.conn]

HeartLocks ==
    /\ heart = "wait"
    /\ m_timerQueuemap # <<>>
    /\ heart' = "sleep"
    /\ UNCHANGED <<now, connVars, relVars, pingVars, m_timerQueuemap, main, scanVars,
                   accepts>>

HeartLooks ==
    /\ heart = "sleep"
    /\ heart' = IF Old(m_timerQueuemap[1].key) THEN "scan" ELSE "wait"
    /\ it' = 1
    /\ UNCHANGED <<now, connVars, relVars, pingVars, m_timerQueuemap, main, first,
                   accepts>>

\* The entry's connection has been given back meanwhile.
HeartDrops ==
    /\ Scanning /\ Stale
    /\ m_timerQueuemap' = RemoveAt(m_timerQueuemap, it)
    /\ UNCHANGED <<now, connVars, relVars, pingVars, main, heart, scanVars, accepts>>

\* The connection is overdue.  ngx_free_con_self locks m_PingMutex, which this
\* thread already holds: it never returns.
HeartKicks ==
    /\ Scanning /\ ~Stale
    /\ Old(Entry.key) /\ Old(lastPingTime[Entry.conn])
    /\ StartRelease(Entry.conn)
    /\ m_onlineUserCount' = m_onlineUserCount - 1
    /\ heart' = "stuck"
    /\ UNCHANGED <<now, pingVars, m_timerQueuemap, main, scanVars, accepts>>

\* It has pinged since: t.first is the time of that ping, read without a lock.
HeartReads ==
    /\ Scanning /\ ~Stale
    /\ Old(Entry.key) /\ ~Old(lastPingTime[Entry.conn])
    /\ heart' = "move"
    /\ first' = lastPingTime[Entry.conn]
    /\ UNCHANGED <<now, connVars, relVars, pingVars, m_timerQueuemap, main, it, accepts>>

\* Mutants: storePingTime does not follow; the entry keeps its old key.
HeartMoves_KeepsStoreTime ==
    /\ heart = "move"
    /\ m_timerQueuemap' = Emplaced(RemoveAt(m_timerQueuemap, it), [Entry EXCEPT !.key = first])
    /\ it' = 1 /\ first' = 0 /\ heart' = "scan"
    /\ UNCHANGED <<now, connVars, relVars, pingVars, main, accepts>>
HeartMoves_KeepsKey ==
    /\ heart = "move"
    /\ storePingTime' = [storePingTime EXCEPT ![Entry.conn] = lastPingTime[Entry.conn]]
    /\ m_timerQueuemap' = Emplaced(RemoveAt(m_timerQueuemap, it), Entry)
    /\ it' = 1 /\ first' = 0 /\ heart' = "scan"
    /\ UNCHANGED <<now, connVars, relVars, lastPingTime, torn, main, accepts>>

\* storePingTime is lastPingTime, read again; the entry moves to the key read
\* first, and the scan begins anew.
HeartMoves ==
    /\ heart = "move"
    /\ storePingTime' = [storePingTime EXCEPT ![Entry.conn] = lastPingTime[Entry.conn]]
    /\ torn' = IF ~Stale /\ first # lastPingTime[Entry.conn] THEN torn \cup {Entry.conn}
               ELSE torn \ {Entry.conn}
    /\ m_timerQueuemap' = Emplaced(RemoveAt(m_timerQueuemap, it), [Entry EXCEPT !.key = first])
    /\ it' = 1 /\ first' = 0 /\ heart' = "scan"
    /\ UNCHANGED <<now, connVars, relVars, lastPingTime, main, accepts>>

\* The rest is younger, or there is no rest.
HeartEnds ==
    /\ heart = "scan"
    /\ Scanning => ~Stale /\ ~Old(Entry.key)
    /\ heart' = "wait" /\ it' = 1
    /\ UNCHANGED <<now, connVars, relVars, pingVars, m_timerQueuemap, main, first,
                   accepts>>

-----------------------------------------------------------------------------
(* Clients and time.                                                       *)

\* A ping, noted by a pool thread in _HandlePing after the main thread has
\* read it.
Ping(c) ==
    /\ c \in watched /\ peer[c] = "up"
    /\ main # [at |-> "add", conn |-> c]
    /\ lastPingTime' = [lastPingTime EXCEPT ![c] = now]
    /\ UNCHANGED <<now, connVars, relVars, storePingTime, torn, m_timerQueuemap, main, heart,
                   scanVars, accepts>>

Leave(c, how) ==
    /\ c \in watched /\ peer[c] = "up"
    /\ peer' = [peer EXCEPT ![c] = how]
    /\ UNCHANGED <<now, held, iCurrsequence, watched, m_onlineUserCount, relVars,
                   pingVars, m_timerQueuemap, main, heart, scanVars, accepts>>

\* A scan takes no time.
Tick ==
    /\ now < MaxTime
    /\ heart \notin {"scan", "move"}
    /\ now' = now + 1
    /\ UNCHANGED <<connVars, relVars, pingVars, m_timerQueuemap, main, heart, scanVars,
                   accepts>>

-----------------------------------------------------------------------------
Handle(c) ==
    \/ PeerClosed(c) \/ ngx_evhup_handler(c) \/ PeerReset(c)

MainStep == ngx_add_check \/ EraseEntry

Heart ==
    \/ HeartLocks \/ HeartLooks \/ HeartDrops \/ HeartKicks
    \/ HeartReads \/ HeartMoves \/ HeartEnds

Next ==
    \/ \E c \in Conn :
         \/ ngx_event_accept(c) \/ Handle(c) \/ ngx_free_con_self(c) \/ PeerError(c)
         \/ ngx_time_tofree_connection(c)
         \/ Ping(c) \/ (\E how \in {"fin", "rst"} : Leave(c, how))
    \/ MainStep
    \/ ngx_timer_free_connection
    \/ Heart
    \/ Tick

Spec == Init /\ [][Next]_vars

\* The recycling thread and the heartbeat thread run.
FairSpec == Spec /\ WF_vars(ngx_timer_free_connection) /\ WF_vars(Heart)

\* And m_PingMutex goes to the main thread if it is free again and again, which
\* std::mutex does not promise.
FairMutexSpec == FairSpec /\ SF_vars(MainStep)

-----------------------------------------------------------------------------
(* Properties.                                                             *)

Pending(c) ==
    timers[c] + Cardinality({i \in DOMAIN m_recyconnectionList :
                                m_recyconnectionList[i] = c})

\* The properties speak of a worker whose heartbeat thread still runs, and whose
\* main thread has not erased end().
Alive == heart # "stuck" /\ main.at # "undefined"

\* However a connection ends, it is given back to the pool once: while it is
\* held at most one release is under way, and none once it is free, so that
\* no later client's connection is released in its place.
ReleasedOnce ==
    Alive =>
        /\ ~doubleFree
        /\ \A c \in Conn : Pending(c) <= (IF c \in held THEN 1 ELSE 0)

\* epoll never reports an event for a connection that is being released or
\* has been: the handlers do not meet a connection of the pool.
NoEventAfterRelease ==
    Alive => \A c \in watched : c \in held /\ Pending(c) = 0

\* A client that is connected is counted: the limit cannot be passed unnoticed.
OnlineNeverUnder == Alive => m_onlineUserCount >= Cardinality(watched)

\* A connection has at most one heartbeat entry that is not stale.  Its key is
\* storePingTime, what every close but that of a reset looks for, unless a ping
\* came between the two reads of the heartbeat thread when it moved the entry;
\* then it is older, so that the client is looked at too soon and not too late.
EntryKeyed ==
    Alive => \A i, j \in DOMAIN m_timerQueuemap :
        LET e == m_timerQueuemap[i] IN
        e.seq = iCurrsequence[e.conn] =>
            /\ e.key <= storePingTime[e.conn]
            /\ e.conn \notin torn => e.key = storePingTime[e.conn]
            /\ (m_timerQueuemap[j].conn = e.conn /\ m_timerQueuemap[j].seq = e.seq) => i = j

\* If the main thread comes to serve all release timers again and again, every
\* closed connection comes back to the pool.
Recycled ==
    []<>(\A c \in Conn : timers[c] = 0)
        => \A c \in Conn : Pending(c) > 0 ~> (c \notin held \/ ~Alive)

\* The heartbeat thread lets m_PingMutex go again and again: its scan ends,
\* although it begins anew after every entry that it moves.
MutexComesFree == ~PingMutexFree ~> (PingMutexFree \/ ~Alive)

\* The main thread waits for m_PingMutex in these places.
WaitsForMutex == main.at \in {"add", "erase"}

\* It always gets the mutex and goes on ("都应该保持进程继续运行").
MainReturns == WaitsForMutex ~> ~WaitsForMutex
=============================================================================
