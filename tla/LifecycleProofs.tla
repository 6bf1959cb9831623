--------------------------- MODULE LifecycleProofs ---------------------------
(***************************************************************************)
(* Theorems about Lifecycle, for every number of connections and clients   *)
(* and any length of time.                                                 *)
(***************************************************************************)
EXTENDS Lifecycle, FiniteSetTheorems, TLAPS

-----------------------------------------------------------------------------
(* The types of the state.                                                 *)

EntryType == [key : Nat, conn : Conn, seq : Nat]
MainType ==
    [at : {"loop", "undefined"}] \cup [at : {"add"}, conn : Conn]
    \cup [at : {"erase"}, conn : Conn, by : {"storePingTime", "lastPingTime"}]

Typed ==
    /\ now \in Nat
    /\ held \subseteq Conn /\ watched \subseteq Conn
    /\ iCurrsequence \in [Conn -> Nat]
    /\ m_onlineUserCount \in Int
    /\ timers \in [Conn -> Nat]
    /\ m_recyconnectionList \in Seq(Conn)
    /\ lastPingTime \in [Conn -> Nat] /\ storePingTime \in [Conn -> Nat]
    /\ m_timerQueuemap \in Seq(EntryType)
    /\ main \in MainType
    /\ it \in Nat \ {0} /\ first \in Nat
    /\ heart = "move" => it \in 1..Len(m_timerQueuemap)

\* A non-empty set of natural numbers has a least element.
LEMMA NatMin ==
    ASSUME NEW X \in SUBSET Nat, X # {}
    PROVE  \E m \in X : \A k \in X : m <= k
<1> DEFINE T == {0..n : n \in X}
<1>1. \A n \in Nat : 0..n \in FiniteSubsetsOf(Nat)
  BY FS_Interval DEF FiniteSubsetsOf
<1>2. T \subseteq FiniteSubsetsOf(Nat) /\ T # {}
  BY <1>1
<1>3. IsWellFoundedOn(StrictSubsetOrdering(Nat), FiniteSubsetsOf(Nat))
  BY FS_StrictSubsetOrderingWellFounded
<1>4. PICK x \in T : \A y \in T : ~(<<y, x>> \in StrictSubsetOrdering(Nat))
  <2> HIDE DEF T
  <2> QED BY <1>2, <1>3, WFMin
<1>5. PICK m \in X : x = 0..m
  BY <1>4
<1>6. ASSUME NEW k \in X, ~(m <= k) PROVE FALSE
  <2>1. 0..k \in T /\ 0..k \in SUBSET Nat /\ 0..m \in SUBSET Nat
    BY <1>6
  <2>2. 0..k \subseteq 0..m /\ 0..k # 0..m
    BY <1>6
  <2>3. <<0..k, 0..m>> \in StrictSubsetOrdering(Nat)
    BY <2>1, <2>2 DEF StrictSubsetOrdering
  <2> QED BY <1>4, <1>5, <2>1, <2>3
<1> QED BY <1>6

LEMMA EntryFields ==
    ASSUME NEW map \in Seq(EntryType), NEW i \in 1..Len(map)
    PROVE  /\ map[i] \in EntryType
           /\ map[i].conn \in Conn /\ map[i].seq \in Nat /\ map[i].key \in Nat
<1>1. map[i] \in EntryType
  OBVIOUS
<1> QED BY <1>1 DEF EntryType

LEMMA Concatenated ==
    ASSUME NEW T, NEW a \in Seq(T), NEW b \in Seq(T)
    PROVE  a \o b \in Seq(T) /\ Len(a \o b) = Len(a) + Len(b)
  OBVIOUS

\* The multimap without its i-th entry.
LEMMA Removed ==
    ASSUME NEW T, NEW s \in Seq(T), NEW i \in 1..Len(s)
    PROVE  /\ RemoveAt(s, i) \in Seq(T)
           /\ Len(RemoveAt(s, i)) = Len(s) - 1
           /\ \A k \in 1..(Len(s) - 1) : RemoveAt(s, i)[k] = IF k < i THEN s[k] ELSE s[k + 1]
<1> DEFINE a == SubSeq(s, 1, i - 1)
           b == SubSeq(s, i + 1, Len(s))
<1>1. a \in Seq(T) /\ Len(a) = i - 1 /\ \A k \in 1..(i - 1) : a[k] = s[k]
  OBVIOUS
<1>2. b \in Seq(T) /\ Len(b) = Len(s) - i /\ \A k \in 1..(Len(s) - i) : b[k] = s[i + k]
  OBVIOUS
<1>3. RemoveAt(s, i) = a \o b
  BY DEF RemoveAt
<1> HIDE DEF a, b
<1>4. a \o b \in Seq(T) /\ Len(a \o b) = Len(s) - 1
  <2>1. a \o b \in Seq(T) /\ Len(a \o b) = Len(a) + Len(b)
    BY <1>1, <1>2, Concatenated
  <2>3. Len(s) \in Nat
    OBVIOUS
  <2> QED BY <1>1, <1>2, <2>1, <2>3
<1>5. \A k \in 1..(Len(s) - 1) : (a \o b)[k] = IF k < i THEN s[k] ELSE s[k + 1]
  BY <1>1, <1>2
<1> QED BY <1>3, <1>4, <1>5

\* With an entry more at the i-th place.
LEMMA Inserted ==
    ASSUME NEW T, NEW s \in Seq(T), NEW i \in 1..(Len(s) + 1), NEW e \in T
    PROVE  /\ InsertAt(s, i, e) \in Seq(T)
           /\ Len(InsertAt(s, i, e)) = Len(s) + 1
           /\ \A k \in 1..(Len(s) + 1) :
                 InsertAt(s, i, e)[k] = IF k < i THEN s[k] ELSE IF k = i THEN e ELSE s[k - 1]
<1> DEFINE a == SubSeq(s, 1, i - 1)
           b == SubSeq(s, i, Len(s))
<1>1. a \in Seq(T) /\ Len(a) = i - 1 /\ \A k \in 1..(i - 1) : a[k] = s[k]
  OBVIOUS
<1>2. b \in Seq(T) /\ Len(b) = Len(s) - i + 1 /\ \A k \in 1..(Len(s) - i + 1) : b[k] = s[i + k - 1]
  OBVIOUS
<1>3. InsertAt(s, i, e) = (a \o <<e>>) \o b
  BY DEF InsertAt
<1> DEFINE c == a \o <<e>>
<1> HIDE DEF a, b
<1>4. c \in Seq(T) /\ Len(c) = i /\ \A k \in 1..i : c[k] = IF k = i THEN e ELSE s[k]
  BY <1>1
<1> HIDE DEF c
<1>5. c \o b \in Seq(T) /\ Len(c \o b) = Len(s) + 1
  <2>1. c \o b \in Seq(T) /\ Len(c \o b) = Len(c) + Len(b)
    BY <1>2, <1>4, Concatenated
  <2>3. Len(s) \in Nat
    OBVIOUS
  <2> QED BY <1>2, <1>4, <2>1, <2>3
<1>6. \A k \in 1..(Len(s) + 1) :
        (c \o b)[k] = IF k < i THEN s[k] ELSE IF k = i THEN e ELSE s[k - 1]
  BY <1>2, <1>4
<1> QED BY <1>3, <1>5, <1>6 DEF c

IsInserted(t, s, i, e) ==
    /\ Len(t) = Len(s) + 1
    /\ \A k \in 1..(Len(s) + 1) : t[k] = IF k < i THEN s[k] ELSE IF k = i THEN e ELSE s[k - 1]

LEMMA InsertedEntry ==
    ASSUME NEW s \in Seq(EntryType), NEW e \in EntryType, NEW i \in 1..(Len(s) + 1),
           NEW t, t = InsertAt(s, i, e)
    PROVE  IsInserted(t, s, i, e)
  BY Inserted DEF IsInserted

\* emplace puts the entry somewhere between the others.
LEMMA EmplacedSomewhere ==
    ASSUME NEW map \in Seq(EntryType), NEW e
    PROVE  \E i \in 1..(Len(map) + 1) : Emplaced(map, e) = InsertAt(map, i, e)
<1> DEFINE S == {i \in DOMAIN map : map[i].key <= e.key}
<1>1. S \in SUBSET (1..Len(map)) /\ Len(map) \in Nat
  OBVIOUS
<1>2. IsFiniteSet(1..Len(map)) /\ Cardinality(1..Len(map)) = Len(map)
  <2>1. \A n \in Nat : IsFiniteSet(1..n) /\ Cardinality(1..n) = n
    BY FS_Interval
  <2> QED BY <1>1, <2>1
<1> HIDE DEF S
<1>3. Cardinality(S) \in Nat /\ Cardinality(S) <= Len(map)
  BY <1>1, <1>2, FS_Subset, FS_CardinalityType
<1>4. Emplaced(map, e) = InsertAt(map, Cardinality(S) + 1, e)
  BY DEF Emplaced, S
<1> QED BY <1>1, <1>3, <1>4

\* erase(find(key)) removes one entry.
LEMMA ErasedOne ==
    ASSUME NEW map \in Seq(EntryType), NEW key, Found(map, key) # {}
    PROVE  \E i \in 1..Len(map) : ErasedKey(map, key) = RemoveAt(map, i)
<1>1. Found(map, key) \in SUBSET Nat /\ Found(map, key) \subseteq 1..Len(map)
  BY DEF Found
<1>2. \E m \in Found(map, key) : \A k \in Found(map, key) : m <= k
  BY <1>1, NatMin
<1> DEFINE m == CHOOSE m \in Found(map, key) : \A k \in Found(map, key) : m <= k
<1>3. m \in Found(map, key)
  BY <1>2
<1> QED BY <1>1, <1>3 DEF ErasedKey

LEMMA TypedInit == Init => Typed
<1> SUFFICES ASSUME Init PROVE Typed
  OBVIOUS
<1>1. main \in MainType
  BY DEF Init, MainType
<1> QED BY <1>1 DEF Init, Typed

LEMMA MapTyped ==
    ASSUME NEW map \in Seq(EntryType), NEW e \in EntryType
    PROVE  Emplaced(map, e) \in Seq(EntryType)
  BY EmplacedSomewhere, Inserted

LEMMA TypedStep == Typed /\ [Next]_vars => Typed'
<1> SUFFICES ASSUME Typed, [Next]_vars PROVE Typed'
  OBVIOUS
<1> USE DEF connVars, relVars, pingVars, scanVars
<1>0. \A c \in Conn : [at |-> "add", conn |-> c] \in MainType
                      /\ [at |-> "erase", conn |-> c, by |-> "storePingTime"] \in MainType
                      /\ [at |-> "erase", conn |-> c, by |-> "lastPingTime"] \in MainType
  BY DEF MainType
<1>a. [at |-> "loop"] \in MainType /\ [at |-> "undefined"] \in MainType
  BY DEF MainType
<1>1. ASSUME NEW c \in Conn, ngx_event_accept(c) PROVE Typed'
  <2>1. main' \in MainType
    BY <1>0, <1>1 DEF ngx_event_accept, Typed
  <2>2. iCurrsequence' \in [Conn -> Nat]
    <3>1. \/ iCurrsequence' = [iCurrsequence EXCEPT ![c] = @ + 1]
          \/ iCurrsequence' = [iCurrsequence EXCEPT ![c] = @ + 2]
      BY <1>1 DEF ngx_event_accept
    <3>2. iCurrsequence \in [Conn -> Nat] /\ \A n \in Nat : n + 1 \in Nat /\ n + 2 \in Nat
      BY DEF Typed
    <3>3. CASE iCurrsequence' = [iCurrsequence EXCEPT ![c] = @ + 1]
      BY <3>2, <3>3
    <3>4. CASE iCurrsequence' = [iCurrsequence EXCEPT ![c] = @ + 2]
      BY <3>2, <3>4
    <3> QED BY <3>1, <3>3, <3>4
  <2>3. lastPingTime' \in [Conn -> Nat] /\ storePingTime' \in [Conn -> Nat]
    <3>1. lastPingTime' = lastPingTime \/ lastPingTime' = [lastPingTime EXCEPT ![c] = now]
      BY <1>1 DEF ngx_event_accept
    <3>2. storePingTime' = storePingTime \/ storePingTime' = [storePingTime EXCEPT ![c] = now]
      BY <1>1 DEF ngx_event_accept
    <3> QED BY <3>1, <3>2 DEF Typed
  <2>4. held' \subseteq Conn /\ watched' \subseteq Conn
    BY <1>1 DEF ngx_event_accept, Typed
  <2>5. /\ m_onlineUserCount' = m_onlineUserCount + 1
        /\ UNCHANGED <<now, timers, m_recyconnectionList, m_timerQueuemap, heart, it, first>>
    BY <1>1 DEF ngx_event_accept
  <2> QED BY <2>1, <2>2, <2>3, <2>4, <2>5 DEF Typed
<1>2. ASSUME NEW c \in Conn, CloseCounted(c) PROVE Typed'
  <2>1. main' \in MainType
    BY <1>0, <1>2 DEF CloseCounted
  <2>2. timers' \in [Conn -> Nat] /\ watched' \subseteq Conn
    BY <1>2 DEF CloseCounted, StartRelease, Typed
  <2>3. m_onlineUserCount' \in Int
    BY <1>2 DEF CloseCounted, Typed
  <2>4. UNCHANGED <<now, held, iCurrsequence, m_recyconnectionList, lastPingTime,
                    storePingTime, m_timerQueuemap, heart, it, first>>
    BY <1>2 DEF CloseCounted, StartRelease
  <2> QED BY <2>1, <2>2, <2>3, <2>4 DEF Typed
<1>3. ASSUME NEW c \in Conn, PeerReset(c) PROVE Typed'
  <2>1. main' \in MainType
    BY <1>0, <1>3 DEF PeerReset
  <2>2. timers' \in [Conn -> Nat] /\ watched' \subseteq Conn
    BY <1>3 DEF PeerReset, StartRelease, Typed
  <2>3. m_onlineUserCount' \in Int
    BY <1>3 DEF PeerReset, Typed
  <2>4. UNCHANGED <<now, held, iCurrsequence, m_recyconnectionList, lastPingTime,
                    storePingTime, m_timerQueuemap, heart, it, first>>
    BY <1>3 DEF PeerReset, StartRelease
  <2> QED BY <2>1, <2>2, <2>3, <2>4 DEF Typed
<1>4. ASSUME NEW c \in Conn, PeerError(c) PROVE Typed'
  BY <1>4 DEF PeerError, ngx_close_connection, Typed
<1>5. ASSUME NEW c \in Conn, ngx_time_tofree_connection(c) PROVE Typed'
  BY <1>5 DEF ngx_time_tofree_connection, Typed
<1>6. ASSUME NEW c \in Conn, Ping(c) PROVE Typed'
  BY <1>6 DEF Ping, Typed
<1>7. ASSUME NEW c \in Conn, NEW how, Leave(c, how) PROVE Typed'
  BY <1>7 DEF Leave, Typed
<1>8. CASE ngx_add_check
  <2>1. main.conn \in Conn
    BY <1>8 DEF ngx_add_check, Typed, MainType
  <2>2. [key |-> lastPingTime[main.conn], conn |-> main.conn,
         seq |-> iCurrsequence[main.conn]] \in EntryType
    BY <2>1 DEF Typed, EntryType
  <2>3. m_timerQueuemap' \in Seq(EntryType)
    BY <1>8, <2>2, MapTyped DEF ngx_add_check, Typed
  <2> QED BY <1>a, <1>8, <2>3 DEF ngx_add_check, PingMutexFree, Typed
<1>9. CASE EraseEntry
  <2>1. m_timerQueuemap' \in Seq(EntryType)
    <3>1. m_timerQueuemap' = m_timerQueuemap \/
          \E key : Found(m_timerQueuemap, key) # {} /\ m_timerQueuemap' = ErasedKey(m_timerQueuemap, key)
      BY <1>9 DEF EraseEntry
    <3>2. m_timerQueuemap \in Seq(EntryType)
      BY DEF Typed
    <3> QED BY <3>1, <3>2, ErasedOne, Removed
  <2> QED BY <1>a, <1>9, <2>1 DEF EraseEntry, PingMutexFree, Typed
<1>10. CASE ngx_timer_free_connection
  <2>1. Head(m_recyconnectionList) \in Conn /\ Tail(m_recyconnectionList) \in Seq(Conn)
    BY <1>10 DEF ngx_timer_free_connection, Typed
  <2>2. m_recyconnectionList' \in Seq(Conn)
    BY <1>10, <2>1 DEF ngx_timer_free_connection
  <2>3. held' \subseteq Conn /\ iCurrsequence' \in [Conn -> Nat]
    <3>1. PICK c \in Conn : ngx_close_connection(c)
      BY <1>10, <2>1 DEF ngx_timer_free_connection
    <3> QED BY <3>1 DEF ngx_close_connection, Typed
  <2>4. UNCHANGED <<now, watched, m_onlineUserCount, timers, lastPingTime, storePingTime,
                    m_timerQueuemap, main, heart, it, first>>
    BY <1>10 DEF ngx_timer_free_connection
  <2> QED BY <2>2, <2>3, <2>4 DEF Typed
<1>11. CASE HeartLocks \/ HeartLooks \/ HeartEnds
  BY <1>11 DEF HeartLocks, HeartLooks, HeartEnds, Typed
<1>b. Scanning => it \in 1..Len(m_timerQueuemap) /\ Entry \in EntryType
  BY DEF Scanning, Entry, Typed
<1>12. CASE HeartDrops
  <2>1. m_timerQueuemap' \in Seq(EntryType)
    BY <1>b, <1>12, Removed DEF HeartDrops, Typed
  <2> QED BY <1>12, <2>1 DEF HeartDrops, Scanning, Typed
<1>13. CASE HeartKicks
  <2>1. Entry.conn \in Conn
    BY <1>b, <1>13 DEF HeartKicks, EntryType
  <2> QED BY <1>13, <2>1 DEF HeartKicks, StartRelease, Typed
<1>16. CASE HeartReads
  <2>1. lastPingTime[Entry.conn] \in Nat
    BY <1>b, <1>16 DEF HeartReads, Typed, EntryType
  <2> QED BY <1>b, <1>16, <2>1 DEF HeartReads, Typed
<1>14. CASE HeartMoves
  <2>0. it \in 1..Len(m_timerQueuemap) /\ first \in Nat
    BY <1>14 DEF HeartMoves, Typed
  <2>1. Entry \in EntryType /\ Entry.conn \in Conn /\ lastPingTime[Entry.conn] \in Nat
    BY <2>0, EntryFields DEF Entry, Typed
  <2>2. [Entry EXCEPT !.key = first] \in EntryType
    BY <2>0, <2>1 DEF EntryType
  <2>3. RemoveAt(m_timerQueuemap, it) \in Seq(EntryType)
    BY <2>0, Removed DEF Typed
  <2>4. m_timerQueuemap' \in Seq(EntryType)
    BY <1>14, <2>2, <2>3, MapTyped DEF HeartMoves
  <2>5. storePingTime' \in [Conn -> Nat]
    BY <1>14, <2>1 DEF HeartMoves, Typed
  <2> QED BY <1>14, <2>4, <2>5 DEF HeartMoves, Typed
<1>15. CASE Tick \/ UNCHANGED vars
  BY <1>15 DEF Tick, vars, Typed
<1> QED
  BY <1>1, <1>2, <1>3, <1>4, <1>5, <1>6, <1>7, <1>8, <1>9, <1>10, <1>11, <1>12, <1>13,
     <1>14, <1>15, <1>16
  DEF Next, Handle, PeerClosed, ngx_evhup_handler, ngx_free_con_self, MainStep, Heart

-----------------------------------------------------------------------------
(* Every connection is released once.                                      *)

Listed(c) == \E i \in DOMAIN m_recyconnectionList : m_recyconnectionList[i] = c

\* A release under way is in one place: the timer or the recycling thread's
\* list; its connection is held and no longer watched.
OneRelease ==
    /\ ~doubleFree
    /\ watched \subseteq held
    /\ \A c \in Conn :
          /\ timers[c] <= 1
          /\ timers[c] = 1 \/ Listed(c) => c \in held \ watched
          /\ timers[c] = 1 => ~Listed(c)
    /\ \A i, j \in DOMAIN m_recyconnectionList :
          m_recyconnectionList[i] = m_recyconnectionList[j] => i = j

ReleaseInv == Alive => OneRelease

LEMMA ReleaseInit == Init => ReleaseInv
  BY DEF Init, ReleaseInv, OneRelease, Listed

\* The heartbeat thread does not recover, and neither does the main thread.
LEMMA AliveBefore == ASSUME Typed, [Next]_vars, Alive' PROVE Alive
  BY DEF Alive, Next, Handle, PeerClosed, ngx_evhup_handler, ngx_free_con_self, MainStep,
         Heart, ngx_event_accept, CloseCounted, PeerReset, PeerError,
         ngx_time_tofree_connection, Ping, Leave, ngx_add_check, EraseEntry,
         ngx_timer_free_connection, HeartLocks, HeartLooks, HeartDrops, HeartKicks,
         HeartReads, HeartMoves, HeartEnds, Scanning, Tick, vars

LEMMA ReleaseUnchanged ==
    ASSUME OneRelease, UNCHANGED <<held, watched, relVars>> PROVE OneRelease'
  BY DEF OneRelease, Listed, relVars

LEMMA ReleaseStep == Typed /\ ReleaseInv /\ [Next]_vars => ReleaseInv'
<1> SUFFICES ASSUME Typed, ReleaseInv, [Next]_vars, Alive' PROVE OneRelease'
  BY DEF ReleaseInv
<1>0. OneRelease
  BY AliveBefore DEF ReleaseInv
<1> USE DEF connVars, relVars
<1>1. ASSUME NEW c \in Conn, ngx_event_accept(c) PROVE OneRelease'
  BY <1>0, <1>1 DEF ngx_event_accept, OneRelease, Listed, Typed
<1>2. ASSUME NEW c \in Conn, c \in watched, StartRelease(c) PROVE OneRelease'
  BY <1>0, <1>2 DEF StartRelease, OneRelease, Listed, Typed
<1>3. ASSUME NEW c \in Conn, CloseCounted(c) \/ PeerReset(c) PROVE OneRelease'
  BY <1>2, <1>3 DEF CloseCounted, PeerReset
<1>4. ASSUME NEW c \in Conn, PeerError(c) PROVE OneRelease'
  BY <1>0, <1>4 DEF PeerError, ngx_close_connection, OneRelease, Listed, Typed
<1>5. ASSUME NEW c \in Conn, ngx_time_tofree_connection(c) PROVE OneRelease'
  <2> DEFINE q == m_recyconnectionList
  <2>1. /\ timers[c] = 1 /\ timers' = [timers EXCEPT ![c] = @ - 1] /\ q' = Append(q, c)
        /\ UNCHANGED <<held, watched, doubleFree>>
    BY <1>0, <1>5 DEF ngx_time_tofree_connection, OneRelease, Typed
  <2>2. q \in Seq(Conn) /\ DOMAIN q = 1..Len(q) /\ DOMAIN q' = 1..(Len(q) + 1)
    BY <2>1 DEF Typed
  <2>3. q'[Len(q) + 1] = c /\ \A i \in 1..Len(q) : q'[i] = q[i]
    BY <2>1, <2>2
  <2>4. ~Listed(c) /\ c \in held \ watched
    BY <1>0, <2>1 DEF OneRelease
  <2>5. \A d \in Conn : Listed(d)' <=> Listed(d) \/ d = c
    BY <2>2, <2>3 DEF Listed
  <2>6. \A i, j \in DOMAIN q' : q'[i] = q'[j] => i = j
    BY <1>0, <2>2, <2>3, <2>4 DEF OneRelease, Listed
  <2>7. timers'[c] = 0 /\ \A d \in Conn : d # c => timers'[d] = timers[d]
    BY <2>1 DEF Typed
  <2> HIDE DEF q
  <2> QED BY <1>0, <2>1, <2>4, <2>5, <2>6, <2>7 DEF OneRelease, q
<1>6. CASE ngx_timer_free_connection
  <2> DEFINE q == m_recyconnectionList
             c == Head(q)
  <2>1. /\ q # <<>> /\ q' = Tail(q) /\ held' = held \ {c}
        /\ doubleFree' = (doubleFree \/ c \notin held) /\ UNCHANGED <<watched, timers>>
    BY <1>6 DEF ngx_timer_free_connection, ngx_close_connection
  <2>2. q \in Seq(Conn) /\ DOMAIN q = 1..Len(q) /\ DOMAIN q' = 1..(Len(q) - 1) /\ Len(q) >= 1
    BY <2>1 DEF Typed
  <2>3. c = q[1] /\ \A i \in 1..(Len(q) - 1) : q'[i] = q[i + 1]
    BY <2>1, <2>2
  <2>4. c \in Conn /\ Listed(c) /\ c \in held \ watched /\ timers[c] # 1
    BY <1>0, <2>2, <2>3 DEF OneRelease, Listed
  <2>5. \A d \in Conn : Listed(d)' => Listed(d) /\ d # c
    <3> SUFFICES ASSUME NEW i \in 1..(Len(q) - 1) PROVE Listed(q'[i]) /\ q'[i] # c
      BY <2>2 DEF Listed
    <3>1. i + 1 \in 1..Len(q) /\ i + 1 # 1
      BY <2>2
    <3> QED BY <1>0, <2>2, <2>3, <3>1 DEF OneRelease, Listed
  <2>6. \A i, j \in DOMAIN q' : q'[i] = q'[j] => i = j
    <3> SUFFICES ASSUME NEW i \in 1..(Len(q) - 1), NEW j \in 1..(Len(q) - 1), q'[i] = q'[j]
                 PROVE  i = j
      BY <2>2
    <3>1. i + 1 \in 1..Len(q) /\ j + 1 \in 1..Len(q)
      BY <2>2
    <3>2. i + 1 = j + 1
      BY <1>0, <2>2, <2>3, <3>1 DEF OneRelease
    <3> QED BY <3>2
  <2> HIDE DEF q, c
  <2> QED BY <1>0, <2>1, <2>4, <2>5, <2>6 DEF OneRelease, q
<1>7. CASE HeartKicks
  BY <1>7 DEF HeartKicks, Alive
<1>8. CASE UNCHANGED <<held, watched, relVars>>
  BY <1>0, <1>8, ReleaseUnchanged
<1>9. ASSUME \/ \E c \in Conn : Ping(c) \/ \E how \in {"fin", "rst"} : Leave(c, how)
             \/ ngx_add_check \/ EraseEntry \/ HeartLocks \/ HeartLooks \/ HeartDrops
             \/ HeartReads \/ HeartMoves \/ HeartEnds \/ Tick \/ UNCHANGED vars
      PROVE  UNCHANGED <<held, watched, relVars>>
  BY <1>9 DEF Ping, Leave, ngx_add_check, EraseEntry, HeartLocks, HeartLooks, HeartDrops,
              HeartReads, HeartMoves, HeartEnds, Tick, vars
<1> QED
  BY <1>1, <1>3, <1>4, <1>5, <1>6, <1>7, <1>8, <1>9
  DEF Next, Handle, PeerClosed, ngx_evhup_handler, ngx_free_con_self, MainStep, Heart

\* What is pending for a connection, from the one place where it can be.
LEMMA PendingCount ==
    ASSUME Typed, OneRelease, NEW c \in Conn
    PROVE  Pending(c) = IF timers[c] = 1 \/ Listed(c) THEN 1 ELSE 0
<1> DEFINE S == {i \in DOMAIN m_recyconnectionList : m_recyconnectionList[i] = c}
<1>1. timers[c] \in Nat /\ timers[c] <= 1
  BY DEF Typed, OneRelease
<1>2. CASE Listed(c)
  <2>1. PICK i : S = {i}
    BY <1>2 DEF Listed, OneRelease
  <2>2. Cardinality(S) = 1
    <3> HIDE DEF S
    <3> QED BY <2>1, FS_Singleton
  <2>3. timers[c] = 0
    BY <1>1, <1>2 DEF OneRelease
  <2> QED BY <1>2, <2>2, <2>3 DEF Pending
<1>3. CASE ~Listed(c)
  <2>1. S = {}
    BY <1>3 DEF Listed
  <2>2. Cardinality(S) = 0
    <3> HIDE DEF S
    <3> QED BY <2>1, FS_EmptySet
  <2> QED BY <1>1, <1>3, <2>2 DEF Pending
<1> QED BY <1>2, <1>3

LEMMA ReleaseInvariant == Spec => [](ReleasedOnce /\ NoEventAfterRelease)
<1>1. Init => Typed /\ ReleaseInv
  BY TypedInit, ReleaseInit
<1>2. Typed /\ ReleaseInv /\ [Next]_vars => Typed' /\ ReleaseInv'
  BY TypedStep, ReleaseStep
<1>3. Typed /\ ReleaseInv => ReleasedOnce /\ NoEventAfterRelease
  <2> SUFFICES ASSUME Typed, OneRelease, Alive PROVE ReleasedOnce /\ NoEventAfterRelease
    BY DEF ReleaseInv, ReleasedOnce, NoEventAfterRelease
  <2>1. ReleasedOnce
    BY PendingCount DEF ReleasedOnce, OneRelease
  <2>2. NoEventAfterRelease
    BY PendingCount DEF NoEventAfterRelease, OneRelease, Typed
  <2> QED BY <2>1, <2>2
<1> QED
  BY <1>1, <1>2, <1>3, PTL DEF Spec

\* Whichever of its ways a connection ends, it goes back to the pool once: in a
\* worker with any number of connections, as long as its heartbeat thread and
\* its main thread go on.
THEOREM ReleasesAreSingle == Spec => []ReleasedOnce
  BY ReleaseInvariant, PTL

\* A connection that is given back, or is about to be, is no longer watched by
\* epoll: no event is handled with its memory.
THEOREM ReleasedIsSilent == Spec => []NoEventAfterRelease
  BY ReleaseInvariant, PTL

-----------------------------------------------------------------------------
(* The count of clients.                                                   *)

OnlineInv == IsFiniteSet(watched) /\ OnlineNeverUnder

LEMMA OnlineInit == Init => OnlineInv
<1> SUFFICES ASSUME Init PROVE OnlineInv
  OBVIOUS
<1>1. watched = {} /\ m_onlineUserCount = 0
  BY DEF Init
<1> QED BY <1>1, FS_EmptySet DEF OnlineInv, OnlineNeverUnder

LEMMA OnlineStep == Typed /\ OnlineInv /\ [Next]_vars => OnlineInv'
<1> SUFFICES ASSUME Typed, OnlineInv, [Next]_vars PROVE OnlineInv'
  OBVIOUS
<1>0. IsFiniteSet(watched) /\ Cardinality(watched) \in Nat /\ m_onlineUserCount \in Int
  BY FS_CardinalityType DEF OnlineInv, Typed
<1>a. Alive' => m_onlineUserCount >= Cardinality(watched)
  BY AliveBefore DEF OnlineInv, OnlineNeverUnder
<1>1. ASSUME NEW c \in Conn, ngx_event_accept(c) PROVE OnlineInv'
  <2>1. /\ m_onlineUserCount' = m_onlineUserCount + 1
        /\ watched' = watched \/ watched' = watched \cup {c}
    BY <1>1 DEF ngx_event_accept
  <2>2. IsFiniteSet(watched \cup {c}) /\ Cardinality(watched \cup {c}) <= Cardinality(watched) + 1
    BY <1>0, FS_AddElement
  <2>3. Cardinality(watched \cup {c}) \in Nat
    BY <2>2, FS_CardinalityType
  <2>4. IsFiniteSet(watched') /\ Cardinality(watched') \in Nat
        /\ Cardinality(watched') <= Cardinality(watched) + 1
    <3>1. CASE watched' = watched
      BY <1>0, <3>1
    <3>2. CASE watched' = watched \cup {c}
      BY <2>2, <2>3, <3>2
    <3> QED BY <2>1, <3>1, <3>2
  <2> QED BY <1>0, <1>a, <2>1, <2>4 DEF OnlineInv, OnlineNeverUnder
<1>2. ASSUME NEW c \in Conn, c \in watched, watched' = watched \ {c},
             m_onlineUserCount' \in {m_onlineUserCount, m_onlineUserCount - 1}
      PROVE  OnlineInv'
  <2>1. IsFiniteSet(watched') /\ Cardinality(watched') = Cardinality(watched) - 1
    BY <1>0, <1>2, FS_RemoveElement
  <2> QED BY <1>0, <1>a, <1>2, <2>1 DEF OnlineInv, OnlineNeverUnder
<1>3. ASSUME NEW c \in Conn, CloseCounted(c) \/ PeerReset(c) \/ PeerError(c) PROVE OnlineInv'
  BY <1>2, <1>3 DEF CloseCounted, PeerReset, PeerError, StartRelease
<1>4. CASE HeartKicks
  <2>1. ~Alive'
    BY <1>4 DEF HeartKicks, Alive
  <2>2. watched' \subseteq watched
    BY <1>4 DEF HeartKicks, StartRelease
  <2>3. IsFiniteSet(watched')
    BY <1>0, <2>2, FS_Subset
  <2> QED BY <2>1, <2>3 DEF OnlineInv, OnlineNeverUnder
<1>5. CASE UNCHANGED <<watched, m_onlineUserCount>>
  BY <1>0, <1>a, <1>5 DEF OnlineInv, OnlineNeverUnder
<1>6. ASSUME \/ \E c \in Conn : Ping(c) \/ \E how \in {"fin", "rst"} : Leave(c, how)
             \/ \E c \in Conn : ngx_time_tofree_connection(c)
             \/ ngx_timer_free_connection
             \/ ngx_add_check \/ EraseEntry \/ HeartLocks \/ HeartLooks \/ HeartDrops
             \/ HeartReads \/ HeartMoves \/ HeartEnds \/ Tick \/ UNCHANGED vars
      PROVE  UNCHANGED <<watched, m_onlineUserCount>>
  BY <1>6 DEF Ping, Leave, ngx_time_tofree_connection, ngx_timer_free_connection,
              ngx_add_check, EraseEntry, HeartLocks, HeartLooks, HeartDrops, HeartReads,
              HeartMoves, HeartEnds, Tick, vars, connVars
<1> QED
  BY <1>1, <1>3, <1>4, <1>5, <1>6
  DEF Next, Handle, PeerClosed, ngx_evhup_handler, ngx_free_con_self, MainStep, Heart

\* However its clients come and go, a worker counts at least those that are
\* connected: TooMany errs on the side of refusing.
THEOREM OnlineCounted == Spec => []OnlineNeverUnder
<1>1. Init => Typed /\ OnlineInv
  BY TypedInit, OnlineInit
<1>2. Typed /\ OnlineInv /\ [Next]_vars => Typed' /\ OnlineInv'
  BY TypedStep, OnlineStep
<1>3. OnlineInv => OnlineNeverUnder
  BY DEF OnlineInv
<1> QED
  BY <1>1, <1>2, <1>3, PTL DEF Spec

-----------------------------------------------------------------------------
(* The heartbeat entries.                                                  *)

\* The keys that the entry of each connection may have.
Keys ==
    [c \in Conn |-> {k \in 0..storePingTime[c] : c \in torn \/ k = storePingTime[c]}]

\* No entry is ahead of its connection, the one that is not stale has one of its
\* keys, and no two are for the same acquisition.
MapKeyed(map, seqs, keys) ==
    /\ \A i \in 1..Len(map) :
          /\ map[i].seq <= seqs[map[i].conn]
          /\ map[i].seq = seqs[map[i].conn] => map[i].key \in keys[map[i].conn]
    /\ \A i, j \in 1..Len(map) :
          map[i].conn = map[j].conn /\ map[i].seq = map[j].seq => i = j

\* The main thread is about to file a connection for the first time.
NotYetFiled ==
    main.at = "add" =>
        /\ lastPingTime[main.conn] = storePingTime[main.conn]
        /\ \A i \in 1..Len(m_timerQueuemap) :
              m_timerQueuemap[i].conn = main.conn
                => m_timerQueuemap[i].seq < iCurrsequence[main.conn]

\* The heartbeat thread is between its two reads: the entry is the last of its
\* connection, and if it is not stale meanwhile, only pings have come.
Moving ==
    heart = "move" =>
        /\ \A k \in 1..Len(m_timerQueuemap) :
              m_timerQueuemap[k].conn = Entry.conn => m_timerQueuemap[k].seq <= Entry.seq
        /\ Entry.seq = iCurrsequence[Entry.conn] => first <= lastPingTime[Entry.conn]

PingsPast == \A c \in Conn : lastPingTime[c] <= now

KeyInv == MapKeyed(m_timerQueuemap, iCurrsequence, Keys) /\ NotYetFiled

LEMMA KeyInit == Init => KeyInv /\ Moving /\ PingsPast
  BY DEF Init, KeyInv, MapKeyed, NotYetFiled, Moving, PingsPast

\* One entry fewer.
LEMMA KeyedRemoved ==
    ASSUME NEW map \in Seq(EntryType), NEW seqs, NEW keys, NEW i \in 1..Len(map),
           MapKeyed(map, seqs, keys)
    PROVE  MapKeyed(RemoveAt(map, i), seqs, keys)
<1> DEFINE r == RemoveAt(map, i)
           f == [k \in 1..(Len(map) - 1) |-> IF k < i THEN k ELSE k + 1]
<1>1. Len(r) = Len(map) - 1 /\ Len(map) \in Nat
      /\ \A k \in 1..(Len(map) - 1) : r[k] = IF k < i THEN map[k] ELSE map[k + 1]
  BY Removed
<1> HIDE DEF r
<1>2. \A k \in 1..Len(r) : f[k] \in 1..Len(map) /\ f[k] # i /\ r[k] = map[f[k]]
  BY <1>1
<1>3. \A k, l \in 1..Len(r) : f[k] = f[l] => k = l
  BY <1>1
<1> HIDE DEF f
<1>4. MapKeyed(r, seqs, keys)
  <2>1. ASSUME NEW k \in 1..Len(r)
        PROVE  /\ r[k].seq <= seqs[r[k].conn]
               /\ r[k].seq = seqs[r[k].conn] => r[k].key \in keys[r[k].conn]
    <3>1. f[k] \in 1..Len(map) /\ r[k] = map[f[k]]
      BY <1>2
    <3> QED BY <3>1 DEF MapKeyed
  <2>2. ASSUME NEW k \in 1..Len(r), NEW l \in 1..Len(r),
               r[k].conn = r[l].conn, r[k].seq = r[l].seq
        PROVE  k = l
    <3>1. /\ f[k] \in 1..Len(map) /\ r[k] = map[f[k]]
          /\ f[l] \in 1..Len(map) /\ r[l] = map[f[l]]
      BY <1>2
    <3>2. f[k] = f[l]
      BY <2>2, <3>1 DEF MapKeyed
    <3> QED BY <1>3, <3>2
  <2> QED BY <2>1, <2>2 DEF MapKeyed
<1> QED BY <1>4 DEF r

\* One entry more.
LEMMA KeyedEmplaced ==
    ASSUME NEW map \in Seq(EntryType), NEW seqs \in [Conn -> Nat], NEW keys,
           NEW e \in EntryType, MapKeyed(map, seqs, keys),
           e.seq <= seqs[e.conn], e.seq = seqs[e.conn] => e.key \in keys[e.conn],
           \A i \in 1..Len(map) : map[i].conn = e.conn => map[i].seq # e.seq
    PROVE  MapKeyed(Emplaced(map, e), seqs, keys)
<1>1. PICK p \in 1..(Len(map) + 1) : Emplaced(map, e) = InsertAt(map, p, e)
  BY EmplacedSomewhere
<1> DEFINE r == Emplaced(map, e)
           f == [k \in 1..(Len(map) + 1) |-> IF k < p THEN k ELSE k - 1]
<1>2. Len(r) = Len(map) + 1 /\ Len(map) \in Nat
      /\ \A k \in 1..(Len(map) + 1) :
            r[k] = IF k < p THEN map[k] ELSE IF k = p THEN e ELSE map[k - 1]
  BY <1>1, Inserted
<1> HIDE DEF r
<1>3. /\ r[p] = e /\ p \in 1..Len(r)
      /\ \A k \in 1..Len(r) : k # p => f[k] \in 1..Len(map) /\ r[k] = map[f[k]]
  <2>1. r[p] = e /\ p \in 1..Len(r)
    BY <1>2
  <2>2. ASSUME NEW k \in 1..Len(r), k # p PROVE f[k] \in 1..Len(map) /\ r[k] = map[f[k]]
    <3>1. k \in 1..(Len(map) + 1) /\ f[k] = IF k < p THEN k ELSE k - 1
      BY <1>2
    <3> HIDE DEF f
    <3> QED BY <1>2, <2>2, <3>1
  <2> QED BY <2>1, <2>2
<1>4. \A k, l \in 1..Len(r) : k # p /\ l # p /\ f[k] = f[l] => k = l
  BY <1>2
<1>5. e.seq <= seqs[e.conn]
  OBVIOUS
<1> HIDE DEF f
<1>6. \A k \in 1..Len(r) :
          /\ r[k].seq <= seqs[r[k].conn]
          /\ r[k].seq = seqs[r[k].conn] => r[k].key \in keys[r[k].conn]
  <2> SUFFICES ASSUME NEW k \in 1..Len(r)
               PROVE  /\ r[k].seq <= seqs[r[k].conn]
                      /\ r[k].seq = seqs[r[k].conn] => r[k].key \in keys[r[k].conn]
    OBVIOUS
  <2>1. CASE k = p
    BY <1>3, <1>5, <2>1
  <2>2. CASE k # p
    BY <1>3, <2>2 DEF MapKeyed
  <2> QED BY <2>1, <2>2
<1>7. \A k, l \in 1..Len(r) : r[k].conn = r[l].conn /\ r[k].seq = r[l].seq => k = l
  <2> SUFFICES ASSUME NEW k \in 1..Len(r), NEW l \in 1..Len(r),
                      r[k].conn = r[l].conn, r[k].seq = r[l].seq
               PROVE  k = l
    OBVIOUS
  <2>1. CASE k = p /\ l # p
    BY <1>3, <2>1
  <2>2. CASE k # p /\ l = p
    BY <1>3, <2>2
  <2>3. CASE k # p /\ l # p
    <3>1. /\ f[k] \in 1..Len(map) /\ r[k] = map[f[k]]
          /\ f[l] \in 1..Len(map) /\ r[l] = map[f[l]]
      BY <1>3, <2>3
    <3>2. f[k] = f[l]
      BY <3>1 DEF MapKeyed
    <3> QED BY <1>4, <2>3, <3>2
  <2> QED BY <2>1, <2>2, <2>3
<1> QED BY <1>6, <1>7 DEF MapKeyed, r

\* Connection c has been taken or given back.
Later(c, seqs, keys, seqs2, keys2) ==
    /\ seqs2[c] > seqs[c]
    /\ \A d \in Conn : d # c => seqs2[d] = seqs[d] /\ keys2[d] = keys[d]

\* A connection that is taken or given back leaves its entries behind.
LEMMA KeyedLater ==
    ASSUME NEW map \in Seq(EntryType), NEW seqs \in [Conn -> Nat], NEW keys,
           NEW seqs2 \in [Conn -> Nat], NEW keys2, NEW c \in Conn,
           MapKeyed(map, seqs, keys), Later(c, seqs, keys, seqs2, keys2)
    PROVE  /\ MapKeyed(map, seqs2, keys2)
           /\ \A i \in 1..Len(map) : map[i].conn = c => map[i].seq < seqs2[c]
<1>1. ASSUME NEW i \in 1..Len(map) PROVE map[i].conn \in Conn /\ map[i].seq \in Nat
  <2>1. map[i] \in EntryType
    OBVIOUS
  <2> QED BY <2>1 DEF EntryType
<1>2. ASSUME NEW i \in 1..Len(map)
      PROVE  /\ map[i].seq <= seqs2[map[i].conn]
             /\ map[i].conn = c => map[i].seq < seqs2[c]
             /\ map[i].seq = seqs2[map[i].conn] => map[i].key \in keys2[map[i].conn]
  <2>1. map[i].seq <= seqs[map[i].conn] /\ map[i].conn \in Conn /\ map[i].seq \in Nat
        /\ (map[i].seq = seqs[map[i].conn] => map[i].key \in keys[map[i].conn])
    BY <1>1 DEF MapKeyed
  <2>2. CASE map[i].conn = c
    BY <2>1, <2>2 DEF Later
  <2>3. CASE map[i].conn # c
    BY <2>1, <2>3 DEF Later
  <2> QED BY <2>2, <2>3
<1> QED BY <1>2 DEF MapKeyed

LEMMA KeyStep == Typed /\ KeyInv /\ Moving /\ [Next]_vars => KeyInv'
<1> SUFFICES ASSUME Typed, KeyInv, Moving, [Next]_vars PROVE KeyInv'
  OBVIOUS
<1> USE DEF connVars, relVars, pingVars, scanVars
<1> DEFINE map == m_timerQueuemap
<1>0. /\ map \in Seq(EntryType) /\ iCurrsequence \in [Conn -> Nat] /\ main \in MainType
      /\ storePingTime \in [Conn -> Nat] /\ lastPingTime \in [Conn -> Nat]
      /\ MapKeyed(map, iCurrsequence, Keys)
  BY DEF Typed, KeyInv
<1>t. Typed'
  BY TypedStep
<1>a. main.at = "add" => main.conn \in Conn /\ main = [at |-> "add", conn |-> main.conn]
  BY <1>0 DEF MainType
<1>b. ASSUME NEW c \in Conn, iCurrsequence' = [iCurrsequence EXCEPT ![c] = @ + 1],
             UNCHANGED <<m_timerQueuemap, storePingTime, torn, lastPingTime, main>>
      PROVE  KeyInv'
  <2>1. iCurrsequence' \in [Conn -> Nat] /\ iCurrsequence'[c] > iCurrsequence[c]
        /\ \A d \in Conn : d # c => iCurrsequence'[d] = iCurrsequence[d]
    BY <1>0, <1>b
  <2>k. Keys' = Keys
    BY <1>b DEF Keys
  <2> HIDE DEF map
  <2>2. /\ MapKeyed(map, iCurrsequence', Keys)
        /\ \A i \in 1..Len(map) : map[i].conn = c => map[i].seq < iCurrsequence'[c]
    <3>1. Later(c, iCurrsequence, Keys, iCurrsequence', Keys)
      BY <2>1 DEF Later
    <3> QED BY <1>0, <2>1, <3>1, KeyedLater
  <2>3. \A i \in 1..Len(map) : map[i].conn = c => map[i].seq < iCurrsequence'[c]
    BY <2>2
  <2> USE DEF map
  <2>4. NotYetFiled'
    <3> SUFFICES ASSUME main.at = "add"
                 PROVE  /\ lastPingTime[main.conn] = storePingTime[main.conn]
                        /\ \A i \in 1..Len(map) :
                              map[i].conn = main.conn => map[i].seq < iCurrsequence'[main.conn]
      BY <1>b DEF NotYetFiled
    <3>1. CASE main.conn = c
      BY <2>3, <3>1 DEF KeyInv, NotYetFiled
    <3>2. CASE main.conn # c
      BY <1>a, <2>1, <3>2 DEF KeyInv, NotYetFiled
    <3> QED BY <3>1, <3>2
  <2> QED BY <1>b, <2>k, <2>2, <2>4 DEF KeyInv
<1>1. ASSUME NEW c \in Conn, ngx_event_accept(c) PROVE KeyInv'
  <2>1. /\ UNCHANGED m_timerQueuemap
        /\ \/ /\ iCurrsequence' = [iCurrsequence EXCEPT ![c] = @ + 1]
              /\ lastPingTime' = [lastPingTime EXCEPT ![c] = now]
              /\ storePingTime' = [storePingTime EXCEPT ![c] = now]
              /\ torn' = torn \ {c}
              /\ main' = [at |-> "add", conn |-> c]
           \/ /\ iCurrsequence' = [iCurrsequence EXCEPT ![c] = @ + 2]
              /\ UNCHANGED <<storePingTime, torn, lastPingTime, main>> /\ main.at = "loop"
    BY <1>1 DEF ngx_event_accept
  <2>2. iCurrsequence' \in [Conn -> Nat] /\ iCurrsequence'[c] > iCurrsequence[c]
        /\ \A d \in Conn : d # c => iCurrsequence'[d] = iCurrsequence[d]
                                    /\ Keys'[d] = Keys[d]
    <3>1. CASE /\ iCurrsequence' = [iCurrsequence EXCEPT ![c] = @ + 1]
               /\ storePingTime' = [storePingTime EXCEPT ![c] = now]
               /\ torn' = torn \ {c}
      <4>1. \A d \in Conn : d # c => storePingTime'[d] = storePingTime[d]
        BY <1>0, <3>1
      <4>2. \A d \in Conn : d # c => Keys'[d] = Keys[d]
        BY <3>1, <4>1 DEF Keys
      <4> QED BY <1>0, <3>1, <4>2
    <3>2. CASE iCurrsequence' = [iCurrsequence EXCEPT ![c] = @ + 2]
               /\ UNCHANGED <<storePingTime, torn>>
      <4>1. Keys' = Keys
        BY <3>2 DEF Keys
      <4> QED BY <1>0, <3>2, <4>1
    <3> QED BY <2>1, <3>1, <3>2
  <2> HIDE DEF map
  <2>3. /\ MapKeyed(map, iCurrsequence', Keys')
        /\ \A i \in 1..Len(map) : map[i].conn = c => map[i].seq < iCurrsequence'[c]
    <3>1. Later(c, iCurrsequence, Keys, iCurrsequence', Keys')
      BY <2>2 DEF Later
    <3> QED BY <1>0, <2>2, <3>1, KeyedLater
  <2>4. \A i \in 1..Len(map) : map[i].conn = c => map[i].seq < iCurrsequence'[c]
    BY <2>3
  <2> USE DEF map
  <2>5. NotYetFiled'
    <3>1. CASE main' = main /\ main.at = "loop"
      BY <3>1 DEF NotYetFiled
    <3>2. CASE /\ main' = [at |-> "add", conn |-> c]
               /\ lastPingTime' = [lastPingTime EXCEPT ![c] = now]
               /\ storePingTime' = [storePingTime EXCEPT ![c] = now]
      <4>1. main'.conn = c /\ lastPingTime'[c] = now /\ storePingTime'[c] = now
        BY <1>0, <3>2
      <4> QED BY <2>1, <2>4, <4>1 DEF NotYetFiled
    <3> QED BY <2>1, <3>1, <3>2
  <2> QED BY <2>1, <2>3, <2>5 DEF KeyInv
<1>2. ASSUME UNCHANGED <<m_timerQueuemap, iCurrsequence, storePingTime, torn>>,
             main'.at # "add" \/ UNCHANGED <<main, lastPingTime>>
      PROVE  KeyInv'
  <2>1. Keys' = Keys
    BY <1>2 DEF Keys
  <2> QED BY <1>2, <2>1 DEF KeyInv, NotYetFiled
<1>3. ASSUME NEW c \in Conn, CloseCounted(c) \/ PeerReset(c) PROVE KeyInv'
  <2>1. UNCHANGED <<m_timerQueuemap, iCurrsequence, storePingTime, torn>> /\ main'.at # "add"
    BY <1>3 DEF CloseCounted, PeerReset, StartRelease
  <2> QED BY <1>2, <2>1
<1>4. ASSUME NEW c \in Conn, PeerError(c) PROVE KeyInv'
  BY <1>b, <1>4 DEF PeerError, ngx_close_connection
<1>5. CASE ngx_timer_free_connection
  <2>1. Head(m_recyconnectionList) \in Conn
    BY <1>5 DEF ngx_timer_free_connection, Typed
  <2> QED BY <1>b, <1>5, <2>1 DEF ngx_timer_free_connection, ngx_close_connection
<1>6. ASSUME NEW c \in Conn, Ping(c) PROVE KeyInv'
  <2>1. /\ lastPingTime' = [lastPingTime EXCEPT ![c] = now]
        /\ main # [at |-> "add", conn |-> c]
        /\ UNCHANGED <<m_timerQueuemap, iCurrsequence, storePingTime, torn, main>>
    BY <1>6 DEF Ping
  <2>2. main.at = "add" => main.conn # c /\ lastPingTime'[main.conn] = lastPingTime[main.conn]
    BY <1>0, <1>a, <2>1
  <2>3. Keys' = Keys
    BY <2>1 DEF Keys
  <2> QED BY <2>1, <2>2, <2>3 DEF KeyInv, NotYetFiled
<1>7. CASE ngx_add_check
  <2> DEFINE c == main.conn
             e == [key |-> lastPingTime[c], conn |-> c, seq |-> iCurrsequence[c]]
  <2>1. /\ main.at = "add" /\ c \in Conn /\ m_timerQueuemap' = Emplaced(map, e)
        /\ main' = [at |-> "loop"] /\ UNCHANGED <<iCurrsequence, storePingTime, torn>>
    BY <1>a, <1>7 DEF ngx_add_check
  <2>2. e \in EntryType /\ e.seq = iCurrsequence[c] /\ e.key = lastPingTime[c] /\ e.conn = c
    BY <1>0, <2>1 DEF EntryType
  <2>3. lastPingTime[c] = storePingTime[c]
        /\ \A i \in 1..Len(map) : map[i].conn = c => map[i].seq < iCurrsequence[c]
    BY <2>1 DEF KeyInv, NotYetFiled
  <2>4. \A i \in 1..Len(map) : map[i].conn = c => map[i].seq # iCurrsequence[c]
    BY <1>0, <2>1, <2>3
  <2> HIDE DEF e, c
  <2>5. MapKeyed(Emplaced(map, e), iCurrsequence, Keys)
    <3>1. storePingTime[c] \in Nat /\ iCurrsequence[c] \in Nat
      BY <1>0, <2>1
    <3>2. e.key \in Keys[e.conn]
      BY <2>1, <2>2, <2>3, <3>1 DEF Keys
    <3>3. e.seq <= iCurrsequence[e.conn]
      BY <2>2, <3>1
    <3> QED BY <1>0, <2>2, <2>4, <3>2, <3>3, KeyedEmplaced
  <2>6. Keys' = Keys
    BY <2>1 DEF Keys
  <2> QED BY <2>1, <2>5, <2>6 DEF KeyInv, NotYetFiled
<1>8. ASSUME NEW i \in 1..Len(map), m_timerQueuemap' = RemoveAt(map, i),
             main'.at # "add" \/ UNCHANGED <<main, lastPingTime>>,
             UNCHANGED <<iCurrsequence, storePingTime, torn>>
      PROVE  KeyInv'
  <2>1. MapKeyed(RemoveAt(map, i), iCurrsequence, Keys)
    BY <1>0, KeyedRemoved
  <2>2. NotYetFiled'
    <3> SUFFICES ASSUME main.at = "add", UNCHANGED <<main, lastPingTime>>,
                        NEW k \in 1..Len(map'), map'[k].conn = main.conn
                 PROVE  map'[k].seq < iCurrsequence[main.conn]
      BY <1>8 DEF NotYetFiled, KeyInv
    <3>1. k \in 1..(Len(map) - 1) /\ map'[k] = IF k < i THEN map[k] ELSE map[k + 1]
      BY <1>0, <1>8, Removed
    <3>2. Len(map) \in Nat
      BY <1>0
    <3>3. PICK j \in 1..Len(map) : map'[k] = map[j]
      BY <3>1, <3>2
    <3> QED BY <3>3 DEF KeyInv, NotYetFiled
  <2>3. Keys' = Keys
    BY <1>8 DEF Keys
  <2> QED BY <1>8, <2>1, <2>2, <2>3 DEF KeyInv
<1>9. CASE EraseEntry
  <2>1. /\ \/ UNCHANGED m_timerQueuemap
           \/ \E key : Found(map, key) # {} /\ m_timerQueuemap' = ErasedKey(map, key)
        /\ main'.at # "add" /\ UNCHANGED <<iCurrsequence, storePingTime, torn>>
    BY <1>9 DEF EraseEntry
  <2>2. CASE UNCHANGED m_timerQueuemap
    BY <1>2, <2>1, <2>2
  <2>3. CASE \E key : Found(map, key) # {} /\ m_timerQueuemap' = ErasedKey(map, key)
    <3>1. PICK i \in 1..Len(map) : m_timerQueuemap' = RemoveAt(map, i)
      BY <1>0, <2>3, ErasedOne
    <3> HIDE DEF map
    <3> QED BY <1>8, <2>1, <3>1
  <2> QED BY <2>1, <2>2, <2>3
<1>c. Scanning => it \in 1..Len(map) /\ Entry \in EntryType
  BY DEF Scanning, Entry, Typed
<1>10. CASE HeartDrops
  <2>1. /\ it \in 1..Len(map) /\ m_timerQueuemap' = RemoveAt(map, it)
        /\ UNCHANGED <<main, lastPingTime, iCurrsequence, storePingTime, torn>>
    BY <1>c, <1>10 DEF HeartDrops
  <2> QED BY <1>8, <2>1
<1>11. CASE HeartMoves
  <2> DEFINE c == Entry.conn
             e == [Entry EXCEPT !.key = first]
             rest == RemoveAt(map, it)
  <2>0. it \in 1..Len(map) /\ first \in Nat /\ Entry = map[it]
    BY <1>11 DEF HeartMoves, Typed, Entry
  <2>1. /\ it \in 1..Len(map) /\ Entry \in EntryType /\ c \in Conn
        /\ Entry = map[it]
        /\ storePingTime' = [storePingTime EXCEPT ![c] = lastPingTime[c]]
        /\ torn' = IF Entry.seq = iCurrsequence[c] /\ first # lastPingTime[c] THEN torn \cup {c}
                   ELSE torn \ {c}
        /\ m_timerQueuemap' = Emplaced(rest, e)
        /\ UNCHANGED <<main, lastPingTime, iCurrsequence>>
    <3>1. Entry \in EntryType /\ c \in Conn
      BY <1>0, <2>0, EntryFields
    <3> QED BY <1>11, <2>0, <3>1 DEF HeartMoves, Stale
  <2>m. /\ \A k \in 1..Len(map) : map[k].conn = c => map[k].seq <= Entry.seq
        /\ Entry.seq = iCurrsequence[c] => first <= lastPingTime[c]
    BY <1>11 DEF HeartMoves, Moving
  <2>2. e \in EntryType /\ e.conn = c /\ e.seq = Entry.seq /\ e.key = first
        /\ e.seq <= iCurrsequence[c] /\ e.seq \in Nat
    BY <1>0, <2>0, <2>1 DEF EntryType, MapKeyed
  <2>3. rest \in Seq(EntryType) /\ Len(rest) = Len(map) - 1 /\ Len(map) \in Nat
        /\ \A k \in 1..(Len(map) - 1) : rest[k] = IF k < it THEN map[k] ELSE map[k + 1]
    BY <1>0, <2>1, Removed
  <2>4. MapKeyed(rest, iCurrsequence, Keys)
    BY <1>0, <2>1, KeyedRemoved
  <2>s. /\ storePingTime'[c] = lastPingTime[c] /\ lastPingTime[c] \in Nat
        /\ \A d \in Conn : d # c => storePingTime'[d] = storePingTime[d]
                                    /\ (d \in torn' <=> d \in torn)
    BY <1>0, <2>1
  <2>k. /\ \A d \in Conn : d # c => Keys'[d] = Keys[d]
        /\ e.seq = iCurrsequence[c] => e.key \in Keys'[c]
    <3>1. \A d \in Conn : d # c => Keys'[d] = Keys[d]
      BY <2>s DEF Keys
    <3>2. ASSUME e.seq = iCurrsequence[c] PROVE e.key \in Keys'[c]
      <4>1. first <= lastPingTime[c] /\ (first # lastPingTime[c] => c \in torn')
        BY <2>1, <2>2, <2>m, <3>2
      <4>2. first \in 0..storePingTime'[c]
        BY <2>0, <2>s, <4>1
      <4>3. Keys'[c] = {k \in 0..storePingTime'[c] : c \in torn' \/ k = storePingTime'[c]}
        BY <2>1 DEF Keys
      <4> QED BY <2>2, <2>s, <4>1, <4>2, <4>3
    <3> QED BY <3>1, <3>2
  <2> HIDE DEF rest, e, c
  <2>5. \A k \in 1..Len(rest) : \E j \in 1..Len(map) : j # it /\ rest[k] = map[j]
    <3> SUFFICES ASSUME NEW k \in 1..Len(rest)
                 PROVE  \E j \in 1..Len(map) : j # it /\ rest[k] = map[j]
      OBVIOUS
    <3>1. CASE k < it
      BY <2>1, <2>3, <3>1
    <3>2. CASE ~(k < it)
      <4>1. k + 1 \in 1..Len(map) /\ k + 1 # it /\ rest[k] = map[k + 1]
        BY <2>1, <2>3, <3>2
      <4> QED BY <4>1
    <3> QED BY <3>1, <3>2
  <2>6. \A k \in 1..Len(rest) : rest[k].conn = c =>
            rest[k].seq # e.seq /\ rest[k].seq # iCurrsequence[c]
    <3> SUFFICES ASSUME NEW k \in 1..Len(rest), rest[k].conn = c
                 PROVE  rest[k].seq # e.seq /\ rest[k].seq # iCurrsequence[c]
      OBVIOUS
    <3>1. PICK j \in 1..Len(map) : j # it /\ rest[k] = map[j]
      BY <2>5
    <3>2. map[j].conn = map[it].conn /\ map[j].seq <= map[it].seq /\ map[j].seq \in Nat
      <4>1. map[j] \in EntryType
        BY <1>0
      <4> QED BY <2>1, <2>m, <3>1, <4>1 DEF c, EntryType
    <3>3. map[j].seq # map[it].seq
      BY <1>0, <2>1, <3>1, <3>2 DEF MapKeyed
    <3>4. map[it].seq <= iCurrsequence[c] /\ map[it].seq \in Nat /\ iCurrsequence[c] \in Nat
      BY <1>0, <2>1, <2>2
    <3> QED BY <2>1, <2>2, <3>1, <3>2, <3>3, <3>4
  <2>7. MapKeyed(rest, iCurrsequence, Keys')
    <3>1. ASSUME NEW k \in 1..Len(rest), rest[k].seq = iCurrsequence[rest[k].conn]
          PROVE  rest[k].key \in Keys'[rest[k].conn]
      <4>1. rest[k] \in EntryType
        BY <2>3
      <4>2. rest[k].conn # c /\ rest[k].conn \in Conn
        BY <2>6, <3>1, <4>1 DEF EntryType
      <4>3. rest[k].key \in Keys[rest[k].conn]
        BY <2>4, <3>1 DEF MapKeyed
      <4> QED BY <2>k, <4>2, <4>3
    <3> QED BY <2>4, <3>1 DEF MapKeyed
  <2>8. MapKeyed(m_timerQueuemap', iCurrsequence, Keys')
    <3>1. MapKeyed(Emplaced(rest, e), iCurrsequence, Keys')
      BY <1>0, <2>2, <2>3, <2>6, <2>7, <2>k, KeyedEmplaced
    <3> QED BY <2>1, <3>1
  <2>9. NotYetFiled'
    <3> SUFFICES ASSUME main.at = "add"
                 PROVE  /\ lastPingTime[main.conn] = storePingTime'[main.conn]
                        /\ \A k \in 1..Len(m_timerQueuemap') :
                              m_timerQueuemap'[k].conn = main.conn
                                => m_timerQueuemap'[k].seq < iCurrsequence[main.conn]
      BY <2>1 DEF NotYetFiled
    <3>1. /\ lastPingTime[main.conn] = storePingTime[main.conn]
          /\ \A k \in 1..Len(map) : map[k].conn = main.conn
                                      => map[k].seq < iCurrsequence[main.conn]
      BY DEF KeyInv, NotYetFiled
    <3>2. main.conn = c => e.seq < iCurrsequence[c]
      BY <2>1, <2>2, <3>1 DEF c
    <3>3. PICK p \in 1..(Len(rest) + 1) : m_timerQueuemap' = InsertAt(rest, p, e)
      BY <2>1, <2>3, EmplacedSomewhere
    <3>4. Len(m_timerQueuemap') = Len(rest) + 1
          /\ \A k \in 1..(Len(rest) + 1) : m_timerQueuemap'[k] =
                IF k < p THEN rest[k] ELSE IF k = p THEN e ELSE rest[k - 1]
      <4>1. rest \in Seq(EntryType) /\ e \in EntryType
        BY <2>2, <2>3
      <4>2. IsInserted(m_timerQueuemap', rest, p, e)
        BY <3>3, <4>1, InsertedEntry
      <4> QED BY <4>2 DEF IsInserted
    <3>5. ASSUME NEW k \in 1..Len(m_timerQueuemap'), m_timerQueuemap'[k].conn = main.conn
          PROVE  m_timerQueuemap'[k].seq < iCurrsequence[main.conn]
      <4>1. CASE k = p
        <5>1. m_timerQueuemap'[k] = e
          BY <2>3, <3>4, <4>1
        <5> QED BY <2>2, <3>2, <3>5, <5>1
      <4>2. CASE k # p
        <5>1. PICK l \in 1..Len(rest) : m_timerQueuemap'[k] = rest[l]
          BY <2>3, <3>4, <4>2
        <5> QED BY <2>5, <3>1, <3>5, <5>1
      <4> QED BY <4>1, <4>2
    <3>6. lastPingTime[main.conn] = storePingTime'[main.conn]
      <4>1. main.conn \in Conn
        BY <1>a
      <4> QED BY <2>s, <3>1, <4>1
    <3> QED BY <3>5, <3>6
  <2> QED BY <2>1, <2>8, <2>9 DEF KeyInv
<1>12. ASSUME \/ \E c \in Conn : \E how \in {"fin", "rst"} : Leave(c, how)
              \/ \E c \in Conn : ngx_time_tofree_connection(c)
              \/ HeartLocks \/ HeartLooks \/ HeartKicks \/ HeartReads \/ HeartEnds \/ Tick
              \/ UNCHANGED vars
       PROVE  UNCHANGED <<m_timerQueuemap, iCurrsequence, storePingTime, torn, main,
                          lastPingTime>>
  BY <1>12 DEF Leave, ngx_time_tofree_connection, HeartLocks, HeartLooks, HeartKicks,
               StartRelease, HeartReads, HeartEnds, Tick, vars
<1> HIDE DEF map
<1> QED
  BY <1>1, <1>2, <1>3, <1>4, <1>5, <1>6, <1>7, <1>9, <1>10, <1>11, <1>12
  DEF Next, Handle, PeerClosed, ngx_evhup_handler, ngx_free_con_self, MainStep, Heart

LEMMA PingsStep == Typed /\ PingsPast /\ [Next]_vars => PingsPast'
<1> SUFFICES ASSUME Typed, PingsPast, [Next]_vars PROVE PingsPast'
  OBVIOUS
<1> USE DEF connVars, relVars, pingVars, scanVars
<1>0. now \in Nat /\ lastPingTime \in [Conn -> Nat]
  BY DEF Typed
<1>1. now' \in {now, now + 1} /\ (now' = now \/ lastPingTime' = lastPingTime)
      /\ \/ lastPingTime' = lastPingTime
         \/ \E c \in Conn : lastPingTime' = [lastPingTime EXCEPT ![c] = now]
  BY DEF Next, Handle, PeerClosed, ngx_evhup_handler, ngx_free_con_self, MainStep,
         Heart, ngx_event_accept, CloseCounted, PeerReset, PeerError,
         ngx_time_tofree_connection, Ping, Leave, ngx_add_check, EraseEntry,
         ngx_timer_free_connection, HeartLocks, HeartLooks, HeartDrops, HeartKicks,
         HeartReads, HeartMoves, HeartEnds, Tick, vars
<1>2. CASE lastPingTime' = lastPingTime
  BY <1>0, <1>1, <1>2 DEF PingsPast
<1>3. ASSUME NEW c \in Conn, lastPingTime' = [lastPingTime EXCEPT ![c] = now], now' = now
      PROVE  PingsPast'
  BY <1>0, <1>3 DEF PingsPast
<1> QED BY <1>1, <1>2, <1>3

\* Between the two reads of the heartbeat thread the map is as it was, and what
\* other threads do to its connection makes the entry stale or is a ping.
LEMMA MovingStep ==
    Typed /\ KeyInv /\ Moving /\ PingsPast /\ [Next]_vars => Moving'
<1> SUFFICES ASSUME Typed, KeyInv, Moving, PingsPast, [Next]_vars, heart' = "move"
             PROVE  Moving'
  BY DEF Moving
<1> USE DEF connVars, relVars, pingVars, scanVars
<1> DEFINE c == Entry.conn
<1>1. CASE HeartReads
  <2>1. /\ Scanning /\ Entry.seq = iCurrsequence[c] /\ first' = lastPingTime[c]
        /\ UNCHANGED <<m_timerQueuemap, it, iCurrsequence, lastPingTime>>
    BY <1>1 DEF HeartReads, Stale
  <2>2. it \in 1..Len(m_timerQueuemap) /\ Entry \in EntryType /\ c \in Conn
    <3>1. it \in 1..Len(m_timerQueuemap) /\ m_timerQueuemap \in Seq(EntryType)
      BY <2>1 DEF Scanning, Typed
    <3> QED BY <3>1, EntryFields DEF Entry
  <2>3. Entry' = Entry /\ lastPingTime[c] \in Nat
    BY <2>1, <2>2 DEF Entry, Typed
  <2>4. \A k \in 1..Len(m_timerQueuemap) :
          m_timerQueuemap[k].conn = c => m_timerQueuemap[k].seq <= Entry.seq
    BY <2>1 DEF KeyInv, MapKeyed
  <2> QED BY <2>1, <2>3, <2>4 DEF Moving
<1>2. CASE ~HeartReads
  <2>1. /\ heart = "move" /\ UNCHANGED <<m_timerQueuemap, it, first>>
        /\ \/ UNCHANGED <<iCurrsequence, lastPingTime>>
           \/ \E d \in Conn : Ping(d)
           \/ \E d \in Conn : iCurrsequence' = [iCurrsequence EXCEPT ![d] = @ + 1]
                              /\ \A x \in Conn : x # d => lastPingTime'[x] = lastPingTime[x]
           \/ \E d \in Conn : iCurrsequence' = [iCurrsequence EXCEPT ![d] = @ + 2]
                              /\ \A x \in Conn : x # d => lastPingTime'[x] = lastPingTime[x]
    <3>1. ASSUME NEW d \in Conn, ngx_event_accept(d)
          PROVE  /\ iCurrsequence' \in {[iCurrsequence EXCEPT ![d] = @ + 1],
                                        [iCurrsequence EXCEPT ![d] = @ + 2]}
                 /\ \A x \in Conn : x # d => lastPingTime'[x] = lastPingTime[x]
                 /\ UNCHANGED <<heart, m_timerQueuemap, it, first>>
      BY <3>1 DEF ngx_event_accept, Typed
    <3>2. ASSUME NEW d \in Conn, PeerError(d)
          PROVE  /\ iCurrsequence' = [iCurrsequence EXCEPT ![d] = @ + 1]
                 /\ UNCHANGED <<heart, m_timerQueuemap, it, first, lastPingTime>>
      BY <3>2 DEF PeerError, ngx_close_connection
    <3>3. ASSUME ngx_timer_free_connection
          PROVE  /\ \E d \in Conn : iCurrsequence' = [iCurrsequence EXCEPT ![d] = @ + 1]
                 /\ UNCHANGED <<heart, m_timerQueuemap, it, first, lastPingTime>>
      <4>1. Head(m_recyconnectionList) \in Conn
        BY <3>3 DEF ngx_timer_free_connection, Typed
      <4> QED BY <3>3, <4>1 DEF ngx_timer_free_connection, ngx_close_connection
    <3>4. ASSUME NEW d \in Conn, Ping(d)
          PROVE  UNCHANGED <<heart, m_timerQueuemap, it, first>>
      BY <3>4 DEF Ping
    <3>5. ASSUME \/ \E d \in Conn : \/ CloseCounted(d) \/ PeerReset(d)
                                    \/ ngx_time_tofree_connection(d)
                                    \/ \E how \in {"fin", "rst"} : Leave(d, how)
                 \/ Tick \/ UNCHANGED vars
          PROVE  UNCHANGED <<heart, m_timerQueuemap, it, first, iCurrsequence, lastPingTime>>
      BY <3>5 DEF CloseCounted, PeerReset, StartRelease, ngx_time_tofree_connection, Leave,
                  Tick, vars
    <3>6. ~(MainStep \/ HeartLocks \/ HeartLooks \/ HeartDrops \/ HeartKicks \/ HeartMoves
            \/ HeartEnds)
      BY DEF MainStep, ngx_add_check, EraseEntry, PingMutexFree, HeartLocks, HeartLooks,
             HeartDrops, HeartKicks, HeartMoves, HeartEnds, Scanning
    <3> QED BY <1>2, <3>1, <3>2, <3>3, <3>4, <3>5, <3>6
         DEF Next, Handle, PeerClosed, ngx_evhup_handler, ngx_free_con_self, Heart
  <2>2. /\ it \in 1..Len(m_timerQueuemap) /\ Entry \in EntryType /\ c \in Conn
        /\ Entry.seq \in Nat /\ Entry = m_timerQueuemap[it]
    <3>1. it \in 1..Len(m_timerQueuemap) /\ m_timerQueuemap \in Seq(EntryType)
      BY <2>1 DEF Typed
    <3> QED BY <3>1, EntryFields DEF Entry
  <2>3. Entry' = Entry
    BY <2>1 DEF Entry
  <2>4. Entry.seq <= iCurrsequence[c] /\ iCurrsequence \in [Conn -> Nat]
        /\ lastPingTime \in [Conn -> Nat] /\ now \in Nat /\ first \in Nat
    BY <2>2 DEF KeyInv, MapKeyed, Typed
  <2>5. Entry.seq = iCurrsequence'[c] => first <= lastPingTime'[c]
    <3> HIDE DEF c
    <3>0. Entry.seq = iCurrsequence[c] => first <= lastPingTime[c]
      BY <2>1 DEF Moving, c
    <3>1. CASE UNCHANGED <<iCurrsequence, lastPingTime>>
      BY <3>0, <3>1
    <3>2. ASSUME NEW d \in Conn, Ping(d) PROVE Entry.seq = iCurrsequence'[c] => first <= lastPingTime'[c]
      <4>1. lastPingTime' = [lastPingTime EXCEPT ![d] = now] /\ UNCHANGED iCurrsequence
        BY <3>2 DEF Ping
      <4>2. lastPingTime[c] <= lastPingTime'[c] /\ lastPingTime'[c] \in Nat /\ lastPingTime[c] \in Nat
        BY <2>2, <2>4, <4>1 DEF PingsPast
      <4> QED BY <2>4, <3>0, <4>1, <4>2
    <3>3. ASSUME NEW d \in Conn, NEW m \in 1..2, iCurrsequence' = [iCurrsequence EXCEPT ![d] = @ + m],
                 \A x \in Conn : x # d => lastPingTime'[x] = lastPingTime[x]
          PROVE  Entry.seq = iCurrsequence'[c] => first <= lastPingTime'[c]
      <4>1. CASE c = d
        <5>1. iCurrsequence'[c] = iCurrsequence[c] + m /\ iCurrsequence[c] \in Nat
          BY <2>2, <2>4, <3>3, <4>1
        <5> QED BY <2>2, <2>4, <5>1
      <4>2. CASE c # d
        BY <2>2, <2>4, <3>0, <3>3, <4>2
      <4> QED BY <4>1, <4>2
    <3>4. 1 \in 1..2 /\ 2 \in 1..2
      OBVIOUS
    <3> QED BY <2>1, <3>1, <3>2, <3>3, <3>4, Zenon
  <2> QED BY <2>1, <2>3, <2>5 DEF Moving
<1> QED BY <1>1, <1>2

\* The heartbeat map stays keyed as the closes expect, although the heartbeat
\* thread moves entries while pings change lastPingTime and connections are
\* closed and used again: only a ping between the two reads of lastPingTime makes
\* the key older than storePingTime.
THEOREM EntriesKeyed == Spec => []EntryKeyed
<1> DEFINE Inv == Typed /\ KeyInv /\ Moving /\ PingsPast
<1>1. Init => Inv
  BY TypedInit, KeyInit
<1>2. Inv /\ [Next]_vars => Inv'
  BY TypedStep, KeyStep, MovingStep, PingsStep
<1>3. Inv => EntryKeyed
  <2> SUFFICES ASSUME Typed, KeyInv PROVE EntryKeyed
    OBVIOUS
  <2> DEFINE map == m_timerQueuemap
  <2>1. DOMAIN map = 1..Len(map) /\ map \in Seq(EntryType) /\ storePingTime \in [Conn -> Nat]
    BY DEF Typed
  <2>2. ASSUME NEW i \in 1..Len(map), map[i].seq = iCurrsequence[map[i].conn]
        PROVE  /\ map[i].key <= storePingTime[map[i].conn]
               /\ map[i].conn \notin torn => map[i].key = storePingTime[map[i].conn]
    <3>1. map[i].conn \in Conn
      BY <2>1, EntryFields
    <3>2. map[i].key \in Keys[map[i].conn]
      BY <2>2 DEF KeyInv, MapKeyed
    <3> QED BY <2>1, <3>1, <3>2 DEF Keys
  <2> QED BY <2>1, <2>2 DEF KeyInv, MapKeyed, EntryKeyed
<1> QED
  BY <1>1, <1>2, <1>3, PTL DEF Spec
=============================================================================
