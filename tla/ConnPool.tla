------------------------------ MODULE ConnPool ------------------------------
(***************************************************************************)
(* The connection pool of net/ngx_c_socket_conn.cpp: ngx_connection_t      *)
(* objects linked into a free list through their member next, taken and    *)
(* returned at its head (m_pfree_connections) under m_ConPoolMutex, so that *)
(* each call is one step.  An object is named by the order of its          *)
(* allocation; a pointer p + 1 into an array is the next name.             *)
(*                                                                         *)
(* iCurrsequence is the number by which a message header recorded earlier  *)
(* is recognised as stale: STRUC_MSG_HEADER keeps the connection and the   *)
(* value it had.                                                           *)
(***************************************************************************)
EXTENDS Integers, FiniteSets

CONSTANTS
    m_worker_connections,   \* objects made by ngx_epoll_init
    CREATECONNUM,           \* objects added by one More_Connection_Pool
    Garbage,                \* values an uninitialised iCurrsequence may have
    MaxAcq,                 \* bound on the calls of ngx_get_connection
    MaxHeaders              \* bound on the headers recorded

m_connection_n_max == m_worker_connections + (m_worker_connections \div 2)

ASSUME ConnAssumption ==
    /\ m_worker_connections \in Nat \ {0}
    /\ CREATECONNUM \in Nat \ {0}
    /\ Garbage \subseteq Nat /\ Garbage # {}
    /\ MaxAcq \in Nat /\ MaxHeaders \in Nat

Null == 0

\* All the names of objects, and those of the memory that a growth which
\* allocates less than CREATECONNUM objects writes to nevertheless.
Addr == 1..(m_connection_n_max + CREATECONNUM)

\* The growth steps fit the limit exactly, as with the shipped configuration
\* (1024 connections, 16 at a time): no growth is cut short.
WholeBlocks ==
    \E k \in 0..m_worker_connections :
        m_connection_n_max = m_worker_connections + k * CREATECONNUM

VARIABLES
    m_pfree_connections,    \* head of the free list
    next,                   \* the member next of each object
    iCurrsequence,          \* the member iCurrsequence of each object
    m_connection_n,         \* number of objects
    m_free_connection_n,    \* the pool's own count of free objects
    held,                   \* history: the objects handed out
    acq,                    \* history: number of calls that handed one out
    owner,                  \* history: the acquisition each object belongs to
    headers                 \* the message headers recorded so far

vars == <<m_pfree_connections, next, iCurrsequence, m_connection_n,
          m_free_connection_n, held, acq, owner, headers>>

\* ngx_epoll_init: one zeroed array, linked in order.
Init ==
    /\ m_pfree_connections = 1
    /\ next = [a \in Addr |-> IF a < m_worker_connections THEN a + 1 ELSE Null]
    /\ iCurrsequence = [a \in Addr |-> 0]
    /\ m_connection_n = m_worker_connections
    /\ m_free_connection_n = m_worker_connections
    /\ held = {}
    /\ acq = 0
    /\ owner = [a \in Addr |-> 0]
    /\ headers = {}

-----------------------------------------------------------------------------
(* More_Connection_Pool(CREATECONNUM, c), called with the last free object. *)

\* Mutant: the limit is not looked at.
CrateNum_Unlimited == CREATECONNUM

CrateNum ==
    IF m_connection_n + CREATECONNUM <= m_connection_n_max
    THEN CREATECONNUM
    ELSE m_connection_n_max - m_connection_n

first == m_connection_n + 1
last == m_connection_n + CREATECONNUM

\* The list after growth.  The loop runs to ConNum, not to CrateNum.
LinkBlock(c) ==
    [a \in Addr |-> CASE a = c -> first
                      [] a \in first..(last - 1) -> a + 1
                      [] a = last -> Null
                      [] OTHER -> next[a]]

\* The last object of a block keeps whatever the memory held.
SequenceBlock(g) ==
    [a \in Addr |-> CASE a \in first..(last - 1) -> 0
                      [] a = last -> g
                      [] OTHER -> iCurrsequence[a]]

-----------------------------------------------------------------------------
\* Grows when the last free object is about to be taken.
Grows == next[m_pfree_connections] = Null /\ CrateNum # 0

\* Take the head; bzero the object but keep its sequence number, plus one.
TakeHead(links, seqs) ==
    LET c == m_pfree_connections IN
    /\ m_pfree_connections' = links[c]
    /\ next' = [links EXCEPT ![c] = Null]
    /\ iCurrsequence' = [seqs EXCEPT ![c] = @ + 1]
    /\ m_free_connection_n' = m_free_connection_n - 1
    /\ held' = held \cup {c}
    /\ acq' = acq + 1
    /\ owner' = [owner EXCEPT ![c] = acq + 1]
    /\ UNCHANGED headers

\* Mutant: the pool never grows.
ngx_get_connection_NeverGrows ==
    /\ m_pfree_connections # Null
    /\ acq < MaxAcq
    /\ TakeHead(next, iCurrsequence)
    /\ UNCHANGED m_connection_n

\* With an empty list it returns nullptr and changes nothing.
ngx_get_connection ==
    /\ m_pfree_connections # Null
    /\ acq < MaxAcq
    /\ \/ /\ Grows
          /\ \E g \in Garbage : TakeHead(LinkBlock(m_pfree_connections), SequenceBlock(g))
          /\ m_connection_n' = m_connection_n + CrateNum
       \/ /\ ~Grows
          /\ TakeHead(next, iCurrsequence)
          /\ UNCHANGED m_connection_n

\* Mutants: the sequence number is left alone; the object is not linked to the
\* rest of the list.
ngx_free_connection_KeepsSequence(c) ==
    /\ c \in held
    /\ next' = [next EXCEPT ![c] = m_pfree_connections]
    /\ m_pfree_connections' = c
    /\ m_free_connection_n' = m_free_connection_n + 1
    /\ held' = held \ {c}
    /\ UNCHANGED <<iCurrsequence, m_connection_n, acq, owner, headers>>
ngx_free_connection_DropsRest(c) ==
    /\ c \in held
    /\ m_pfree_connections' = c
    /\ iCurrsequence' = [iCurrsequence EXCEPT ![c] = @ + 1]
    /\ m_free_connection_n' = m_free_connection_n + 1
    /\ held' = held \ {c}
    /\ UNCHANGED <<next, m_connection_n, acq, owner, headers>>

\* Called by the holder of c.
ngx_free_connection(c) ==
    /\ c \in held
    /\ next' = [next EXCEPT ![c] = m_pfree_connections]
    /\ iCurrsequence' = [iCurrsequence EXCEPT ![c] = @ + 1]
    /\ m_pfree_connections' = c
    /\ m_free_connection_n' = m_free_connection_n + 1
    /\ held' = held \ {c}
    /\ UNCHANGED <<m_connection_n, acq, owner, headers>>

\* A received package or a heartbeat entry records its connection
\* (ngx_wait_request_handler_proc_p1, ngx_add_check).
RecordHeader(c) ==
    /\ c \in held
    /\ Cardinality(headers) < MaxHeaders
    /\ headers' = headers \cup
          {[pConn |-> c, iCurrsequence |-> iCurrsequence[c], acq |-> owner[c]]}
    /\ UNCHANGED <<m_pfree_connections, next, iCurrsequence, m_connection_n,
                   m_free_connection_n, held, acq, owner>>

Next ==
    \/ ngx_get_connection
    \/ \E c \in Addr : ngx_free_connection(c) \/ RecordHeader(c)

Spec == Init /\ [][Next]_vars

-----------------------------------------------------------------------------
(* Properties.                                                             *)

TypeOK ==
    /\ m_pfree_connections \in Addr \cup {Null}
    /\ next \in [Addr -> Addr \cup {Null}]
    /\ iCurrsequence \in [Addr -> Nat]
    /\ m_connection_n \in m_worker_connections..m_connection_n_max
    /\ m_free_connection_n \in Int
    /\ held \subseteq Addr
    /\ acq \in 0..MaxAcq
    /\ owner \in [Addr -> 0..MaxAcq]
    /\ headers \subseteq [pConn : Addr, iCurrsequence : Nat, acq : 0..MaxAcq]

Free == (1..m_connection_n) \ held

\* The object at the n-th place of the free list.
Walk[n \in 0..(m_connection_n_max + CREATECONNUM)] ==
    IF n = 0 THEN m_pfree_connections
    ELSE IF Walk[n - 1] = Null THEN Null ELSE next[Walk[n - 1]]

\* The free list holds every free object once and no other: no sequence of
\* takes, returns and growths loses one, links a held one, or closes a cycle.
FreeListExact ==
    WholeBlocks =>
        /\ {Walk[n] : n \in DOMAIN Walk} \ {Null} = Free
        /\ Walk[Cardinality(Free)] = Null

\* The same without walking the list, so that it can be proved by induction:
\* the head and every successor of a free object are free, two objects never
\* share a successor, and none has the head as successor.
ListSafe ==
    /\ m_pfree_connections \in Free \cup {Null}
    /\ \A c \in Free : next[c] \in Free \cup {Null}
    /\ \A c, d \in Free : next[c] = next[d] /\ next[c] # Null => c = d
    /\ \A c \in Free : next[c] # Null => next[c] # m_pfree_connections
FreeListSafe == WholeBlocks => ListSafe

\* ngx_get_connection returns nullptr only when the pool has reached its limit
\* and every connection is in use.
ExhaustedOnly ==
    WholeBlocks /\ m_pfree_connections = Null => held = 1..m_connection_n_max

\* A message header passes the sequence check exactly when its connection is
\* still held by the acquisition it was recorded for, although the last object
\* of a block starts from an uninitialised number.
HeaderSound ==
    WholeBlocks =>
        \A h \in headers :
            h.iCurrsequence = iCurrsequence[h.pConn]
                <=> h.pConn \in held /\ owner[h.pConn] = h.acq

\* The linked list implements the set of connections.
Service == INSTANCE ConnService WITH
               First <- m_worker_connections, Limit <- m_connection_n_max,
               size <- m_connection_n
ServiceSpec == Service!Spec
=============================================================================
