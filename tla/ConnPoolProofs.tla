--------------------------- MODULE ConnPoolProofs ---------------------------
(***************************************************************************)
(* Theorems about ConnPool, for every pool size and every number of calls, *)
(* as long as the growth steps fit the limit (WholeBlocks).                *)
(***************************************************************************)
EXTENDS ConnPool, FiniteSetTheorems, TLAPS

\* What remains to be grown is a whole number of blocks.
Blocks ==
    \E k \in Nat : m_connection_n_max = m_connection_n + k * CREATECONNUM

LEMMA MaxNat == m_connection_n_max \in Nat /\ m_connection_n_max >= m_worker_connections
  BY ConnAssumption DEF m_connection_n_max

\* A growth is a full block, or there is none.
LEMMA GrowthWhole ==
    ASSUME Blocks, m_connection_n \in Nat
    PROVE  /\ CrateNum = 0 \/ CrateNum = CREATECONNUM
           /\ CrateNum # 0 => /\ last <= m_connection_n_max
                              /\ \E k \in Nat : m_connection_n_max
                                    = (m_connection_n + CrateNum) + k * CREATECONNUM
<1>1. PICK k \in Nat : m_connection_n_max = m_connection_n + k * CREATECONNUM
  BY DEF Blocks
<1>2. CASE k = 0
  BY <1>1, <1>2, ConnAssumption DEF CrateNum
<1>3. CASE k # 0
  <2>1. k - 1 \in Nat /\ k * CREATECONNUM = (k - 1) * CREATECONNUM + CREATECONNUM
    BY <1>3, ConnAssumption
  <2>2. (k - 1) * CREATECONNUM \in Nat
    BY <2>1, ConnAssumption
  <2> DEFINE r == (k - 1) * CREATECONNUM
  <2>3. m_connection_n_max = m_connection_n + CREATECONNUM + r /\ r \in Nat
    BY <1>1, <2>1, <2>2, ConnAssumption
  <2> HIDE DEF r
  <2>4. m_connection_n + CREATECONNUM <= m_connection_n_max
    BY <2>3, ConnAssumption
  <2>5. CrateNum = CREATECONNUM /\ last <= m_connection_n_max
    BY <2>4 DEF CrateNum, last
  <2>6. m_connection_n_max = (m_connection_n + CrateNum) + (k - 1) * CREATECONNUM
    BY <2>3, <2>5 DEF r
  <2> QED BY <2>1, <2>5, <2>6
<1> QED BY <1>2, <1>3

Allocated == 1..m_connection_n

HeadersKnown ==
    \A h \in headers :
        /\ h.pConn \in Allocated
        /\ h.acq <= acq
        /\ h.iCurrsequence <= iCurrsequence[h.pConn]
        /\ h.iCurrsequence = iCurrsequence[h.pConn]
              <=> h.pConn \in held /\ owner[h.pConn] = h.acq

OwnersPast == \A a \in Addr : owner[a] <= acq

IInv ==
    /\ TypeOK /\ Blocks /\ held \subseteq Allocated /\ OwnersPast
    /\ ListSafe /\ HeadersKnown

LEMMA InitInv == ASSUME WholeBlocks, Init PROVE IInv
<1> USE ConnAssumption, MaxNat
<1>1. TypeOK
  BY DEF Init, TypeOK, Addr, Null
<1>2. Blocks
  BY DEF Init, Blocks, WholeBlocks
<1>3. held \subseteq Allocated /\ HeadersKnown /\ OwnersPast
  BY DEF Init, HeadersKnown, OwnersPast
<1>4. ListSafe
  <2>1. Free = 1..m_worker_connections /\ Free \subseteq Addr
    BY DEF Init, Free, Addr
  <2>2. \A c \in Free : next[c] = IF c < m_worker_connections THEN c + 1 ELSE Null
    BY <2>1 DEF Init
  <2> QED BY <2>1, <2>2 DEF Init, ListSafe, Null
<1> QED BY <1>1, <1>2, <1>3, <1>4 DEF IInv

LEMMA GetWithoutGrowth ==
    ASSUME IInv, m_pfree_connections # Null, acq < MaxAcq,
           TakeHead(next, iCurrsequence), UNCHANGED m_connection_n
    PROVE  IInv'
<1> USE ConnAssumption, MaxNat
<1> DEFINE c == m_pfree_connections
<1>0. c \in Free /\ c \in Addr /\ c \in Allocated
  BY DEF IInv, ListSafe, Free, Addr, Allocated, TypeOK
<1>1. TypeOK'
  BY <1>0 DEF IInv, TypeOK, TakeHead
<1>2. Blocks' /\ held' \subseteq Allocated' /\ OwnersPast'
  BY <1>0 DEF IInv, Blocks, TakeHead, Allocated, OwnersPast, TypeOK
<1>3. ListSafe'
  <2>1. Free' = Free \ {c} /\ \A d \in Free' : next'[d] = next[d]
    BY <1>0 DEF Free, TakeHead, IInv, TypeOK, Addr
  <2>2. m_pfree_connections' = next[c]
    BY DEF TakeHead
  <2> QED BY <1>0, <2>1, <2>2 DEF IInv, ListSafe
<1>4. HeadersKnown'
  <2>1. /\ iCurrsequence' = [iCurrsequence EXCEPT ![c] = @ + 1]
        /\ owner' = [owner EXCEPT ![c] = acq + 1] /\ acq' = acq + 1
        /\ held' = held \cup {c} /\ headers' = headers
    BY DEF TakeHead
  <2>2. c \notin held
    BY <1>0 DEF Free
  <2> SUFFICES ASSUME NEW h \in headers
               PROVE  /\ h.pConn \in Allocated'
                      /\ h.acq <= acq'
                      /\ h.iCurrsequence <= iCurrsequence'[h.pConn]
                      /\ h.iCurrsequence = iCurrsequence'[h.pConn]
                            <=> h.pConn \in held' /\ owner'[h.pConn] = h.acq
    BY <2>1 DEF HeadersKnown
  <2>3. /\ h.pConn \in Addr /\ h.iCurrsequence \in Nat /\ h.acq \in Int
        /\ iCurrsequence[h.pConn] \in Nat /\ acq \in Nat
    BY DEF IInv, TypeOK
  <2>4. /\ h.pConn \in Allocated /\ h.acq <= acq
        /\ h.iCurrsequence <= iCurrsequence[h.pConn]
        /\ h.iCurrsequence = iCurrsequence[h.pConn]
              <=> h.pConn \in held /\ owner[h.pConn] = h.acq
    BY DEF IInv, HeadersKnown
  <2>5. CASE h.pConn = c
    <3>1. iCurrsequence'[c] = iCurrsequence[c] + 1 /\ owner'[c] = acq + 1
      BY <1>0, <2>1 DEF IInv, TypeOK
    <3> QED BY <2>1, <2>3, <2>4, <2>5, <3>1 DEF Allocated
  <2>6. CASE h.pConn # c
    <3>1. iCurrsequence'[h.pConn] = iCurrsequence[h.pConn] /\ owner'[h.pConn] = owner[h.pConn]
      BY <2>1, <2>3, <2>6 DEF IInv, TypeOK
    <3> QED BY <2>1, <2>3, <2>4, <2>6, <3>1 DEF Allocated
  <2> QED BY <2>5, <2>6
<1> QED BY <1>1, <1>2, <1>3, <1>4 DEF IInv

LEMMA GetWithGrowth ==
    ASSUME IInv, m_pfree_connections # Null, acq < MaxAcq, Grows, NEW g \in Garbage,
           TakeHead(LinkBlock(m_pfree_connections), SequenceBlock(g)),
           m_connection_n' = m_connection_n + CrateNum
    PROVE  IInv'
<1> USE ConnAssumption, MaxNat
<1> DEFINE c == m_pfree_connections
           links == LinkBlock(c)
           seqs == SequenceBlock(g)
<1>0. c \in Free /\ c \in Addr /\ c \in Allocated /\ next[c] = Null
  BY DEF IInv, ListSafe, Free, Addr, Allocated, TypeOK, Grows
<1>a. /\ m_connection_n \in Nat /\ m_connection_n' = m_connection_n + CREATECONNUM
      /\ first = m_connection_n + 1 /\ last = m_connection_n + CREATECONNUM
      /\ last <= m_connection_n_max /\ last = m_connection_n'
  BY GrowthWhole DEF IInv, TypeOK, Grows, first, last
<1>b. /\ links \in [Addr -> Addr \cup {Null}]
      /\ links[c] = first
      /\ \A a \in Addr : a \in first..(last - 1) => links[a] = a + 1
      /\ links[last] = Null
      /\ \A a \in Addr : a <= m_connection_n /\ a # c => links[a] = next[a]
  <2>1. /\ links[c] = first /\ c # last
        /\ \A a \in Addr : a \in first..(last - 1) => links[a] = a + 1
    BY <1>0, <1>a DEF LinkBlock, Allocated
  <2>2. last \in Addr /\ first \in Addr /\ \A a \in first..(last - 1) : a + 1 \in Addr
    BY <1>a DEF Addr
  <2>3. links[last] = Null
    BY <1>0, <1>a, <2>1, <2>2 DEF LinkBlock
  <2>4. \A a \in Addr : a <= m_connection_n /\ a # c => links[a] = next[a]
    BY <1>0, <1>a DEF LinkBlock, Addr
  <2>5. ASSUME NEW a \in Addr PROVE links[a] \in Addr \cup {Null}
    BY <1>0, <1>a, <2>2 DEF LinkBlock, IInv, TypeOK, Addr
  <2>6. links = [a \in Addr |-> links[a]]
    BY DEF LinkBlock
  <2> QED BY <2>1, <2>3, <2>4, <2>5, <2>6
<1>c. /\ seqs \in [Addr -> Nat]
      /\ \A a \in Allocated : seqs[a] = iCurrsequence[a]
  <2>1. ASSUME NEW a \in Addr PROVE seqs[a] \in Nat
    BY <1>a DEF SequenceBlock, IInv, TypeOK, Addr
  <2>2. seqs = [a \in Addr |-> seqs[a]]
    BY DEF SequenceBlock
  <2>3. \A a \in Allocated : a \in Addr /\ a \notin first..(last - 1) /\ a # last
    BY <1>a DEF Allocated, Addr
  <2> QED BY <2>1, <2>2, <2>3 DEF SequenceBlock
<1>d. /\ m_pfree_connections' = links[c]
      /\ next' = [links EXCEPT ![c] = Null]
      /\ iCurrsequence' = [seqs EXCEPT ![c] = @ + 1]
      /\ m_free_connection_n' = m_free_connection_n - 1
      /\ owner' = [owner EXCEPT ![c] = acq + 1] /\ acq' = acq + 1
      /\ held' = held \cup {c} /\ headers' = headers
  BY DEF TakeHead
<1> HIDE DEF links, seqs
<1>1. TypeOK'
  <2>1. next' \in [Addr -> Addr \cup {Null}] /\ m_pfree_connections' \in Addr \cup {Null}
    BY <1>0, <1>b, <1>d
  <2>2. iCurrsequence' \in [Addr -> Nat]
    BY <1>0, <1>c, <1>d
  <2>3. m_connection_n' \in m_worker_connections..m_connection_n_max
    BY <1>a DEF IInv, TypeOK
  <2> QED BY <1>0, <1>d, <2>1, <2>2, <2>3 DEF IInv, TypeOK
<1>2. Blocks' /\ held' \subseteq Allocated' /\ OwnersPast'
  <2>1. Blocks'
    BY GrowthWhole DEF IInv, TypeOK, Blocks, Grows
  <2>2. OwnersPast'
    BY <1>0, <1>d DEF IInv, OwnersPast, TypeOK
  <2> QED BY <1>0, <1>a, <1>d, <2>1, <2>2 DEF IInv, Allocated
<1>3. ListSafe'
  <2>1. Free' = (Free \ {c}) \cup (first..last)
    BY <1>0, <1>a, <1>d DEF Free, IInv, Allocated
  <2>2. Free \subseteq Allocated /\ Allocated \subseteq Addr /\ first..last \subseteq Addr
    BY <1>a DEF Free, Allocated, Addr
  <2>3. \A d \in Free \ {c} : next'[d] = next[d] /\ next[d] \in (Free \ {c}) \cup {Null}
    BY <1>0, <1>b, <1>d, <2>2 DEF IInv, ListSafe, Allocated, TypeOK, Null
  <2>4. \A d \in first..last : next'[d] = IF d = last THEN Null ELSE d + 1
    BY <1>0, <1>a, <1>b, <1>d, <2>2 DEF Allocated
  <2>5. m_pfree_connections' = first
    BY <1>b, <1>d
  <2>6. \A d \in Free \ {c} : d \notin first..last /\ next'[d] \notin first..last
    BY <1>a, <2>2, <2>3 DEF Allocated, Null
  <2>7. \A d \in Free' : next'[d] \in Free' \cup {Null}
    BY <1>a, <2>1, <2>3, <2>4
  <2>8. \A d, e \in Free' : next'[d] = next'[e] /\ next'[d] # Null => d = e
    <3>1. SUFFICES ASSUME NEW d \in Free', NEW e \in Free', next'[d] = next'[e], next'[d] # Null
                   PROVE  d = e
      OBVIOUS
    <3>2. CASE d \in first..last /\ e \in first..last
      BY <1>a, <2>4, <3>1, <3>2
    <3>3. CASE d \in first..last /\ e \in Free \ {c}
      <4>1. next'[d] \in first..last
        BY <1>a, <2>4, <3>1, <3>3
      <4> QED BY <2>6, <3>1, <3>3, <4>1
    <3>4. CASE d \in Free \ {c} /\ e \in first..last
      <4>1. next'[e] \in first..last
        BY <1>a, <2>4, <3>1, <3>4
      <4> QED BY <2>6, <3>1, <3>4, <4>1
    <3>5. CASE d \in Free \ {c} /\ e \in Free \ {c}
      BY <2>3, <3>1, <3>5 DEF IInv, ListSafe
    <3> QED BY <2>1, <3>2, <3>3, <3>4, <3>5
  <2>9. \A d \in Free' : next'[d] # Null => next'[d] # m_pfree_connections'
    <3>1. first \in first..last
      BY <1>a
    <3>2. \A d \in first..last : next'[d] # first
      BY <1>a, <2>4 DEF Null
    <3> QED BY <2>1, <2>5, <2>6, <3>1, <3>2
  <2>10. m_pfree_connections' \in Free' \cup {Null}
    BY <1>a, <2>1, <2>5
  <2> QED BY <2>7, <2>8, <2>9, <2>10 DEF ListSafe
<1>4. HeadersKnown'
  <2>2. c \notin held
    BY <1>0 DEF Free
  <2> SUFFICES ASSUME NEW h \in headers
               PROVE  /\ h.pConn \in Allocated'
                      /\ h.acq <= acq'
                      /\ h.iCurrsequence <= iCurrsequence'[h.pConn]
                      /\ h.iCurrsequence = iCurrsequence'[h.pConn]
                            <=> h.pConn \in held' /\ owner'[h.pConn] = h.acq
    BY <1>d DEF HeadersKnown
  <2>3. /\ h.pConn \in Addr /\ h.iCurrsequence \in Nat /\ h.acq \in Int
        /\ iCurrsequence[h.pConn] \in Nat /\ acq \in Nat
    BY DEF IInv, TypeOK
  <2>4. /\ h.pConn \in Allocated /\ h.acq <= acq
        /\ h.iCurrsequence <= iCurrsequence[h.pConn]
        /\ h.iCurrsequence = iCurrsequence[h.pConn]
              <=> h.pConn \in held /\ owner[h.pConn] = h.acq
    BY DEF IInv, HeadersKnown
  <2>a. h.pConn \in Allocated'
    BY <1>a, <2>4 DEF Allocated
  <2>5. CASE h.pConn = c
    <3>1. iCurrsequence'[c] = iCurrsequence[c] + 1 /\ owner'[c] = acq + 1
      BY <1>0, <1>c, <1>d DEF IInv, TypeOK
    <3> QED BY <1>d, <2>a, <2>3, <2>4, <2>5, <3>1
  <2>6. CASE h.pConn # c
    <3>1. iCurrsequence'[h.pConn] = iCurrsequence[h.pConn] /\ owner'[h.pConn] = owner[h.pConn]
      BY <1>c, <1>d, <2>3, <2>4, <2>6 DEF IInv, TypeOK
    <3> QED BY <1>d, <2>a, <2>3, <2>4, <2>6, <3>1
  <2> QED BY <2>5, <2>6
<1> QED BY <1>1, <1>2, <1>3, <1>4 DEF IInv

LEMMA PutInv ==
    ASSUME IInv, NEW c \in Addr, ngx_free_connection(c)
    PROVE  IInv'
<1> USE ConnAssumption, MaxNat
<1>0. /\ c \in held /\ c \in Allocated /\ c \notin Free
      /\ next' = [next EXCEPT ![c] = m_pfree_connections]
      /\ iCurrsequence' = [iCurrsequence EXCEPT ![c] = @ + 1]
      /\ m_pfree_connections' = c /\ held' = held \ {c}
      /\ m_free_connection_n' = m_free_connection_n + 1
      /\ UNCHANGED <<m_connection_n, acq, owner, headers>>
  BY DEF ngx_free_connection, IInv, Free
<1>1. TypeOK'
  BY <1>0 DEF IInv, TypeOK
<1>2. Blocks' /\ held' \subseteq Allocated' /\ OwnersPast'
  BY <1>0 DEF IInv, Blocks, Allocated, OwnersPast
<1>3. ListSafe'
  <2>1. Free' = Free \cup {c} /\ Free \subseteq Addr
    BY <1>0 DEF Free, Allocated, IInv, TypeOK, Addr
  <2>2. \A d \in Free : next'[d] = next[d]
    BY <1>0, <2>1 DEF IInv, TypeOK
  <2>3. next'[c] = m_pfree_connections
    BY <1>0 DEF IInv, TypeOK
  <2>4. c # Null
    BY DEF Addr, Null
  <2> QED BY <1>0, <2>1, <2>2, <2>3, <2>4 DEF IInv, ListSafe
<1>4. HeadersKnown'
  <2> SUFFICES ASSUME NEW h \in headers
               PROVE  /\ h.iCurrsequence <= iCurrsequence'[h.pConn]
                      /\ h.iCurrsequence = iCurrsequence'[h.pConn]
                            <=> h.pConn \in held' /\ owner'[h.pConn] = h.acq
    BY <1>0 DEF HeadersKnown, IInv, Allocated
  <2>1. /\ h.pConn \in Addr /\ h.iCurrsequence \in Nat /\ iCurrsequence[h.pConn] \in Nat
    BY DEF IInv, TypeOK
  <2>2. /\ h.iCurrsequence <= iCurrsequence[h.pConn]
        /\ h.iCurrsequence = iCurrsequence[h.pConn]
              <=> h.pConn \in held /\ owner[h.pConn] = h.acq
    BY DEF IInv, HeadersKnown
  <2>3. iCurrsequence'[h.pConn] = IF h.pConn = c THEN iCurrsequence[h.pConn] + 1
                                                 ELSE iCurrsequence[h.pConn]
    BY <1>0, <2>1 DEF IInv, TypeOK
  <2> QED BY <1>0, <2>1, <2>2, <2>3
<1> QED BY <1>1, <1>2, <1>3, <1>4 DEF IInv

LEMMA RecordInv ==
    ASSUME IInv, NEW c \in Addr, RecordHeader(c)
    PROVE  IInv'
<1> USE ConnAssumption, MaxNat
<1> DEFINE new == [pConn |-> c, iCurrsequence |-> iCurrsequence[c], acq |-> owner[c]]
<1>0. /\ c \in held /\ headers' = headers \cup {new}
      /\ UNCHANGED <<m_pfree_connections, next, iCurrsequence, m_connection_n,
                     m_free_connection_n, held, acq, owner>>
  BY DEF RecordHeader
<1>1. new \in [pConn : Addr, iCurrsequence : Nat, acq : 0..MaxAcq]
  BY DEF IInv, TypeOK
<1>2. TypeOK' /\ Blocks' /\ held' \subseteq Allocated' /\ ListSafe' /\ OwnersPast'
  <2>1. TypeOK'
    BY <1>0, <1>1 DEF IInv, TypeOK
  <2> QED BY <1>0, <2>1 DEF IInv, Blocks, Allocated, ListSafe, Free, OwnersPast
<1>3. HeadersKnown'
  <2>1. /\ new.pConn \in Allocated /\ new.acq <= acq
        /\ new.iCurrsequence <= iCurrsequence[new.pConn]
        /\ new.iCurrsequence = iCurrsequence[new.pConn]
        /\ new.pConn \in held /\ owner[new.pConn] = new.acq
    BY <1>0 DEF IInv, OwnersPast, TypeOK
  <2> HIDE DEF new
  <2> QED BY <1>0, <2>1 DEF IInv, HeadersKnown, Allocated
<1> QED BY <1>2, <1>3 DEF IInv

LEMMA StepInv == IInv /\ [Next]_vars => IInv'
<1> SUFFICES ASSUME IInv, [Next]_vars PROVE IInv'
  OBVIOUS
<1>1. CASE ngx_get_connection
  BY <1>1, GetWithoutGrowth, GetWithGrowth DEF ngx_get_connection
<1>2. ASSUME NEW c \in Addr, ngx_free_connection(c) \/ RecordHeader(c) PROVE IInv'
  BY <1>2, PutInv, RecordInv
<1>3. CASE UNCHANGED vars
  <2>1. TypeOK' /\ Blocks' /\ held' \subseteq Allocated' /\ OwnersPast'
    BY <1>3 DEF vars, IInv, TypeOK, Blocks, Allocated, OwnersPast
  <2>2. ListSafe' /\ HeadersKnown'
    BY <1>3 DEF vars, IInv, ListSafe, Free, HeadersKnown, Allocated
  <2> QED BY <2>1, <2>2 DEF IInv
<1> QED
  BY <1>1, <1>2, <1>3 DEF Next

\* Whatever the sizes, a connection is never handed out while it is held, and a
\* stored message header is recognised as stale exactly when it is.
THEOREM PoolSafe == Spec => [](WholeBlocks => TypeOK /\ FreeListSafe /\ HeaderSound)
<1>1. CASE WholeBlocks
  <2>1. Init => IInv
    BY <1>1, InitInv
  <2>2. IInv => TypeOK /\ FreeListSafe /\ HeaderSound
    BY DEF IInv, FreeListSafe, HeadersKnown, HeaderSound
  <2> QED BY <2>1, <2>2, StepInv, PTL DEF Spec
<1>2. CASE ~WholeBlocks
  <2>1. [](~WholeBlocks)
    BY <1>2, PTL
  <2> QED BY <2>1, PTL
<1> QED BY <1>1, <1>2

\* The linked list implements the set of connections.
THEOREM PoolRefines == ASSUME WholeBlocks PROVE Spec => ServiceSpec
<1> USE ConnAssumption, MaxNat
<1>1. Init => Service!Init
  BY DEF Init, Service!Init
<1>2. IInv /\ [Next]_vars => [Service!Next]_<<m_connection_n, held>>
  <2> SUFFICES ASSUME IInv, [Next]_vars PROVE [Service!Next]_<<m_connection_n, held>>
    OBVIOUS
  <2>1. CASE ngx_get_connection
    <3> DEFINE c == m_pfree_connections
    <3>1. c \in (1..m_connection_n) \ held
      BY <2>1 DEF ngx_get_connection, IInv, ListSafe, Free
    <3>2. c \in 1..m_connection_n_max
      BY <3>1 DEF IInv, TypeOK
    <3>3. held' = held \cup {c}
      BY <2>1 DEF ngx_get_connection, TakeHead
    <3>4. m_connection_n' \in m_connection_n..m_connection_n_max
      <4>1. CASE Grows
        <5>1. m_connection_n' = m_connection_n + CREATECONNUM /\ last <= m_connection_n_max
          BY <2>1, <4>1, GrowthWhole DEF ngx_get_connection, IInv, TypeOK, Grows
        <5> QED BY <5>1 DEF IInv, TypeOK, last
      <4>2. CASE ~Grows
        BY <2>1, <4>2 DEF ngx_get_connection, IInv, TypeOK
      <4> QED BY <4>1, <4>2
    <3> QED BY <3>1, <3>2, <3>3, <3>4 DEF Service!Next, Service!Get
  <2>2. ASSUME NEW c \in Addr, ngx_free_connection(c) PROVE Service!Next
    <3>1. c \in 1..m_connection_n_max
      BY <2>2 DEF ngx_free_connection, IInv, Allocated, TypeOK
    <3> QED BY <2>2, <3>1 DEF ngx_free_connection, Service!Next, Service!Put
  <2>3. ASSUME NEW c \in Addr, RecordHeader(c) PROVE UNCHANGED <<m_connection_n, held>>
    BY <2>3 DEF RecordHeader
  <2>4. CASE UNCHANGED vars
    BY <2>4 DEF vars
  <2> QED BY <2>1, <2>2, <2>3, <2>4 DEF Next
<1>3. Init => IInv
  BY InitInv
<1> QED
  BY <1>1, <1>2, <1>3, StepInv, PTL DEF Spec, ServiceSpec, Service!Spec

-----------------------------------------------------------------------------
(* The free list as a whole.                                               *)

\* A non-empty set of natural numbers has a least element, which stands for
\* induction in the proofs below.
LEMMA NatMin ==
    ASSUME NEW X \in SUBSET Nat, X # {}
    PROVE  \E m \in X : \A k \in X : m <= k
<1> DEFINE T == {0..n : n \in X}
<1>1. \A n \in Nat : 0..n \in FiniteSubsetsOf(Nat)
  BY FS_Interval DEF FiniteSubsetsOf
<1>2. T \subseteq FiniteSubsetsOf(Nat) /\ T # {}
  BY <1>1
<1>3. IsWellFoundedOn(StrictSubsetOrdering(Nat), FiniteSubsetsOf(Nat))
  BY FS_StrictSubsetOrderingWellFounded
<1>4. PICK x \in T : \A y \in T : ~(<<y, x>> \in StrictSubsetOrdering(Nat))
  <2> HIDE DEF T
  <2> QED BY <1>2, <1>3, WFMin
<1>5. PICK m \in X : x = 0..m
  BY <1>4
<1>6. ASSUME NEW k \in X, ~(m <= k) PROVE FALSE
  <2>1. 0..k \in T /\ 0..k \in SUBSET Nat /\ 0..m \in SUBSET Nat
    BY <1>6
  <2>2. 0..k \subseteq 0..m /\ 0..k # 0..m
    BY <1>6
  <2>3. <<0..k, 0..m>> \in StrictSubsetOrdering(Nat)
    BY <2>1, <2>2 DEF StrictSubsetOrdering
  <2> QED BY <1>4, <1>5, <2>1, <2>3
<1> QED BY <1>6

\* s is the free list: all free objects, each once, in the order of the links.
IsList(n, s) ==
    /\ s \in [1..n -> Free]
    /\ \A c \in Free : \E i \in 1..n : s[i] = c
    /\ \A i, j \in 1..n : s[i] = s[j] => i = j
    /\ m_pfree_connections = IF n = 0 THEN Null ELSE s[1]
    /\ \A i \in 1..n : next[s[i]] = IF i = n THEN Null ELSE s[i + 1]
Listed == \E n \in Nat : \E s \in [1..n -> Free] : IsList(n, s)

\* The list runs out only when the pool has grown to its limit.
GrownOut == m_pfree_connections = Null => m_connection_n = m_connection_n_max

LInv == Listed /\ GrownOut

LEMMA ListInit == ASSUME Init PROVE LInv
<1> USE ConnAssumption
<1> DEFINE s == [i \in 1..m_worker_connections |-> i]
<1>1. Free = 1..m_worker_connections
  BY DEF Init, Free
<1>2. s \in [1..m_worker_connections -> Free] /\ IsList(m_worker_connections, s)
  <2>1. 1..m_worker_connections \subseteq Addr
    BY MaxNat DEF Addr
  <2> QED BY <1>1, <2>1 DEF Init, IsList
<1>3. Listed
  BY <1>2 DEF Listed
<1> QED BY <1>3 DEF LInv, GrownOut, Init, Null

\* Taking the head leaves the rest of the list.
LEMMA ListTake ==
    ASSUME IInv, LInv, m_pfree_connections # Null, ~Grows,
           TakeHead(next, iCurrsequence), UNCHANGED m_connection_n
    PROVE  LInv'
<1> USE ConnAssumption, MaxNat
<1> DEFINE c == m_pfree_connections
<1>0. PICK n \in Nat : \E s \in [1..n -> Free] : IsList(n, s)
  BY DEF LInv, Listed
<1>1. PICK s \in [1..n -> Free] : IsList(n, s)
  BY <1>0
<1>2. n # 0 /\ c = s[1] /\ c \in Free /\ c \in Addr
  BY <1>1 DEF IsList, Free, IInv, TypeOK
<1>3. /\ Free' = Free \ {c} /\ Free \subseteq Addr
      /\ \A d \in Free' : next'[d] = next[d]
      /\ m_pfree_connections' = next[c]
  BY <1>2 DEF Free, TakeHead, IInv, TypeOK, Addr
<1> DEFINE r == [i \in 1..(n - 1) |-> s[i + 1]]
<1>4. r \in [1..(n - 1) -> Free'] /\ n - 1 \in Nat
  BY <1>1, <1>2, <1>3 DEF IsList
<1>5. IsList(n - 1, r)'
  <2>1. \A d \in Free' : \E i \in 1..(n - 1) : r[i] = d
    <3> SUFFICES ASSUME NEW d \in Free' PROVE \E i \in 1..(n - 1) : r[i] = d
      OBVIOUS
    <3>1. PICK j \in 1..n : s[j] = d
      BY <1>1, <1>3 DEF IsList
    <3>2. j # 1 /\ j - 1 \in 1..(n - 1) /\ r[j - 1] = d
      BY <1>2, <1>3, <3>1
    <3> QED BY <3>2
  <2>2. \A i, j \in 1..(n - 1) : r[i] = r[j] => i = j
    BY <1>1, <1>2 DEF IsList
  <2>3. m_pfree_connections' = IF n - 1 = 0 THEN Null ELSE r[1]
    BY <1>1, <1>2, <1>3 DEF IsList
  <2>4. \A i \in 1..(n - 1) : next'[r[i]] = IF i = n - 1 THEN Null ELSE r[i + 1]
    BY <1>1, <1>2, <1>3, <1>4 DEF IsList
  <2> HIDE DEF r
  <2> QED BY <1>4, <2>1, <2>2, <2>3, <2>4 DEF IsList
<1>6. Listed'
  <2> HIDE DEF r
  <2> QED BY <1>4, <1>5 DEF Listed
<1>7. GrownOut'
  <2>1. next[c] = Null => CrateNum = 0
    BY DEF Grows
  <2>2. CrateNum = 0 => m_connection_n = m_connection_n_max
    BY DEF CrateNum, IInv, TypeOK
  <2> QED BY <1>3, <2>1, <2>2 DEF GrownOut
<1> QED BY <1>6, <1>7 DEF LInv

\* Taking the last one leaves the block that was linked to it.
LEMMA ListGrow ==
    ASSUME IInv, LInv, m_pfree_connections # Null, Grows, NEW g \in Garbage,
           TakeHead(LinkBlock(m_pfree_connections), SequenceBlock(g)),
           m_connection_n' = m_connection_n + CrateNum
    PROVE  LInv'
<1> USE ConnAssumption, MaxNat
<1> DEFINE c == m_pfree_connections
<1>0. PICK n \in Nat : \E s \in [1..n -> Free] : IsList(n, s)
  BY DEF LInv, Listed
<1>1. PICK s \in [1..n -> Free] : IsList(n, s)
  BY <1>0
<1>2. n # 0 /\ c = s[1] /\ c \in Free /\ c \in Addr /\ c \in 1..m_connection_n
  BY <1>1 DEF IsList, Free, IInv, TypeOK
<1>3. n = 1 /\ Free = {c}
  <2>1. n = 1
    <3> SUFFICES ASSUME n # 1 PROVE FALSE
      OBVIOUS
    <3>1. next[s[1]] = s[2] /\ s[2] \in Free
      BY <1>1, <1>2 DEF IsList
    <3> QED BY <1>2, <3>1 DEF Grows, Free, Null
  <2>2. \A d \in Free : \E i \in 1..1 : s[i] = d
    BY <1>1, <2>1 DEF IsList
  <2>3. \A d \in Free : d = c
    BY <1>2, <2>2
  <2> QED BY <1>2, <2>1, <2>3
<1>4. PICK base \in Nat : base = m_connection_n
  BY DEF IInv, TypeOK
<1>a. /\ m_connection_n' = base + CREATECONNUM
      /\ first = base + 1 /\ last = base + CREATECONNUM
      /\ last <= m_connection_n_max
  BY <1>4, GrowthWhole DEF IInv, Grows, first, last
<1>b. first..last \subseteq Addr
  BY <1>a DEF Addr
<1>c. first \in Nat /\ last \in Nat /\ c < first
  BY <1>2, <1>4, <1>a
<1>5. Free' = first..last
  <2>1. held' = held \cup {c}
    BY DEF TakeHead
  <2>2. Free = (1..base) \ held /\ held \subseteq 1..base
    BY <1>4 DEF Free, IInv, Allocated
  <2>3. held' = 1..base
    BY <1>2, <1>3, <1>4, <2>1, <2>2
  <2>4. Free' = (1..(base + CREATECONNUM)) \ (1..base)
    BY <1>a, <2>3 DEF Free
  <2> QED BY <1>a, <2>4
<1>6. m_pfree_connections' = first
  <2>1. LinkBlock(c)[c] = first
    <3>1. c \notin first..(last - 1) /\ c # last /\ c \in Addr
      BY <1>2, <1>a, <1>c
    <3> QED BY <3>1 DEF LinkBlock
  <2> QED BY <2>1 DEF TakeHead
<1>7. \A d \in first..last : next'[d] = IF d = last THEN Null ELSE d + 1
  <2> SUFFICES ASSUME NEW d \in first..last PROVE next'[d] = IF d = last THEN Null ELSE d + 1
    OBVIOUS
  <2>1. d \in Addr /\ d # c /\ d \in Int
    BY <1>2, <1>b, <1>c
  <2>2. LinkBlock(c)[d] = IF d = last THEN Null ELSE d + 1
    <3>1. CASE d = last
      BY <1>c, <2>1, <3>1 DEF LinkBlock
    <3>2. CASE d # last
      <4>1. d \in first..(last - 1)
        BY <1>c, <3>2
      <4> QED BY <2>1, <3>2, <4>1 DEF LinkBlock
    <3> QED BY <3>1, <3>2
  <2>3. next' = [LinkBlock(c) EXCEPT ![c] = Null]
    BY DEF TakeHead
  <2> QED BY <2>1, <2>2, <2>3 DEF LinkBlock
<1> DEFINE r == [i \in 1..CREATECONNUM |-> base + i]
<1>8. r \in [1..CREATECONNUM -> Free'] /\ CREATECONNUM \in Nat
  BY <1>a, <1>5
<1>9. IsList(CREATECONNUM, r)'
  <2>1. \A d \in Free' : d - base \in 1..CREATECONNUM /\ r[d - base] = d
    BY <1>a, <1>5
  <2>2. \A i, j \in 1..CREATECONNUM : r[i] = r[j] => i = j
    OBVIOUS
  <2>3. m_pfree_connections' = IF CREATECONNUM = 0 THEN Null ELSE r[1]
    BY <1>a, <1>6
  <2>4. \A i \in 1..CREATECONNUM : next'[r[i]] = IF i = CREATECONNUM THEN Null ELSE r[i + 1]
    BY <1>a, <1>7
  <2> HIDE DEF r
  <2> QED BY <1>8, <2>1, <2>2, <2>3, <2>4 DEF IsList
<1>10. Listed'
  <2> HIDE DEF r
  <2> QED BY <1>8, <1>9 DEF Listed
<1>11. GrownOut'
  BY <1>a, <1>6 DEF GrownOut, Null
<1> QED BY <1>10, <1>11 DEF LInv

\* Giving one back puts it in front.
LEMMA ListPut ==
    ASSUME IInv, LInv, NEW c \in Addr, ngx_free_connection(c)
    PROVE  LInv'
<1> USE ConnAssumption, MaxNat
<1>0. /\ c \in held /\ c \in Allocated /\ c \notin Free /\ c # Null
      /\ next' = [next EXCEPT ![c] = m_pfree_connections]
      /\ m_pfree_connections' = c /\ held' = held \ {c}
      /\ UNCHANGED m_connection_n
  BY DEF ngx_free_connection, IInv, Free, Addr, Null
<1>1. PICK n \in Nat : \E s \in [1..n -> Free] : IsList(n, s)
  BY DEF LInv, Listed
<1>2. PICK s \in [1..n -> Free] : IsList(n, s)
  BY <1>1
<1>3. /\ Free' = Free \cup {c} /\ Free \subseteq Addr
      /\ \A d \in Free : next'[d] = next[d]
      /\ next'[c] = m_pfree_connections
  BY <1>0 DEF Free, Allocated, IInv, TypeOK, Addr
<1> DEFINE r == [i \in 1..(n + 1) |-> IF i = 1 THEN c ELSE s[i - 1]]
<1>4. r \in [1..(n + 1) -> Free'] /\ n + 1 \in Nat
  BY <1>2, <1>3
<1>5. IsList(n + 1, r)'
  <2>1. \A d \in Free' : \E i \in 1..(n + 1) : r[i] = d
    <3> SUFFICES ASSUME NEW d \in Free' PROVE \E i \in 1..(n + 1) : r[i] = d
      OBVIOUS
    <3>1. CASE d = c
      BY <3>1
    <3>2. CASE d # c
      <4>1. PICK j \in 1..n : s[j] = d
        BY <1>2, <1>3, <3>2 DEF IsList
      <4>2. j + 1 \in 1..(n + 1) /\ r[j + 1] = d
        BY <4>1
      <4> QED BY <4>2
    <3> QED BY <3>1, <3>2
  <2>2. \A i, j \in 1..(n + 1) : r[i] = r[j] => i = j
    BY <1>0, <1>2 DEF IsList
  <2>3. m_pfree_connections' = r[1]
    BY <1>0
  <2>4. \A i \in 1..(n + 1) : next'[r[i]] = IF i = n + 1 THEN Null ELSE r[i + 1]
    <3> SUFFICES ASSUME NEW i \in 1..(n + 1)
                 PROVE  next'[r[i]] = IF i = n + 1 THEN Null ELSE r[i + 1]
      OBVIOUS
    <3>1. CASE i = 1
      BY <1>2, <1>3, <3>1 DEF IsList
    <3>2. CASE i # 1
      <4>1. /\ i - 1 \in 1..n /\ r[i] = s[i - 1] /\ s[i - 1] \in Free
            /\ i # n + 1 => r[i + 1] = s[i]
        BY <3>2
      <4>2. next[s[i - 1]] = IF i - 1 = n THEN Null ELSE s[(i - 1) + 1]
        BY <1>2, <4>1 DEF IsList
      <4> HIDE DEF r
      <4> QED BY <1>3, <4>1, <4>2
    <3> QED BY <3>1, <3>2
  <2> HIDE DEF r
  <2> QED BY <1>4, <2>1, <2>2, <2>3, <2>4 DEF IsList
<1>6. Listed'
  <2> HIDE DEF r
  <2> QED BY <1>4, <1>5 DEF Listed
<1> QED BY <1>0, <1>6 DEF LInv, GrownOut

LEMMA ListStep == IInv /\ LInv /\ [Next]_vars => LInv'
<1> SUFFICES ASSUME IInv, LInv, [Next]_vars PROVE LInv'
  OBVIOUS
<1>1. CASE ngx_get_connection
  BY <1>1, ListTake, ListGrow DEF ngx_get_connection
<1>2. ASSUME NEW c \in Addr, ngx_free_connection(c) PROVE LInv'
  BY <1>2, ListPut
<1>3. CASE UNCHANGED <<m_pfree_connections, next, m_connection_n, held>>
  <2>1. Free' = Free
    BY <1>3 DEF Free
  <2>2. \A n, s : IsList(n, s)' = IsList(n, s)
    BY <1>3, <2>1 DEF IsList
  <2>3. Listed'
    BY <2>1, <2>2 DEF LInv, Listed
  <2> QED BY <1>3, <2>3 DEF LInv, GrownOut
<1> QED
  BY <1>1, <1>2, <1>3 DEF Next, RecordHeader, vars

\* The walk along the links goes through the list and stays at its end.
LEMMA WalkIsList ==
    ASSUME IInv, NEW n \in Nat, NEW s \in [1..n -> Free], IsList(n, s)
    PROVE  Walk = [k \in 0..(m_connection_n_max + CREATECONNUM) |->
                      IF k < n THEN s[k + 1] ELSE Null]
<1> USE ConnAssumption, MaxNat
<1> DEFINE D == 0..(m_connection_n_max + CREATECONNUM)
           W == [k \in D |-> IF k < n THEN s[k + 1] ELSE Null]
           Step(f) == [k \in D |-> IF k = 0 THEN m_pfree_connections
                                   ELSE IF f[k - 1] = Null THEN Null ELSE next[f[k - 1]]]
<1>0. \A i \in 1..n : s[i] \in Free /\ s[i] # Null
  BY DEF Free, Null, IInv, TypeOK
<1>1. W = Step(W)
  <2>1. ASSUME NEW k \in D PROVE W[k] = Step(W)[k]
    <3>1. CASE k = 0
      BY <3>1 DEF IsList
    <3>2. CASE k # 0
      <4>1. k - 1 \in D /\ W[k - 1] = IF k - 1 < n THEN s[(k - 1) + 1] ELSE Null
        BY <3>2
      <4>2. CASE k - 1 < n
        <5>1. k \in 1..n /\ W[k - 1] = s[k] /\ s[k] # Null
          BY <1>0, <3>2, <4>1, <4>2
        <5>2. next[s[k]] = IF k = n THEN Null ELSE s[k + 1]
          BY <5>1 DEF IsList
        <5> QED BY <3>2, <5>1, <5>2
      <4>3. CASE ~(k - 1 < n)
        BY <3>2, <4>1, <4>3
      <4> QED BY <4>2, <4>3
    <3> QED BY <3>1, <3>2
  <2> QED BY <2>1
<1>2. Walk = Step(Walk)
  <2>1. Walk = CHOOSE f : f = Step(f)
    BY DEF Walk
  <2> HIDE DEF W, Step
  <2> QED BY <1>1, <2>1
<1>3. ASSUME NEW f, f = Step(f) PROVE f = W
  <2> DEFINE X == {k \in D : f[k] # W[k]}
  <2>1. CASE X = {}
    <3>1. \A k \in D : f[k] = W[k]
      BY <2>1
    <3>2. f = [k \in D |-> f[k]]
      BY <1>3
    <3> QED BY <3>1, <3>2
  <2>2. CASE X # {}
    <3>1. PICK m \in X : \A k \in X : m <= k
      <4>1. X \in SUBSET Nat
        OBVIOUS
      <4> HIDE DEF X
      <4> QED BY <2>2, <4>1, NatMin
    <3>2. m # 0
      <4>1. f[0] = m_pfree_connections /\ W[0] = m_pfree_connections /\ 0 \in D
        BY <1>1, <1>3
      <4> QED BY <3>1, <4>1
    <3>3. m - 1 \in D /\ f[m - 1] = W[m - 1]
      BY <3>1, <3>2
    <3>4. f[m] = Step(f)[m] /\ W[m] = Step(W)[m]
      <4> HIDE DEF W, Step
      <4> QED BY <1>1, <1>3
    <3> HIDE DEF W
    <3> QED BY <3>1, <3>2, <3>3, <3>4
  <2> QED BY <2>1, <2>2
<1> QED BY <1>2, <1>3

LEMMA ListExact == ASSUME IInv, LInv PROVE FreeListExact /\ ExhaustedOnly
<1> USE ConnAssumption, MaxNat
<1>0. PICK n \in Nat : \E s \in [1..n -> Free] : IsList(n, s)
  BY DEF LInv, Listed
<1>1. PICK s \in [1..n -> Free] : IsList(n, s)
  BY <1>0
<1>2. Cardinality(Free) = n
  <2>1. s \in Bijection(1..n, Free)
    BY <1>1 DEF IsList, Bijection, Injection, Surjection, IsInjective
  <2> QED BY <2>1, FS_CountingElements DEF ExistsBijection
<1>3. n <= m_connection_n_max
  <2>1. Free \in SUBSET (1..m_connection_n) /\ m_connection_n \in Nat
        /\ m_connection_n <= m_connection_n_max
    BY DEF Free, IInv, TypeOK
  <2>2. IsFiniteSet(1..m_connection_n) /\ Cardinality(1..m_connection_n) = m_connection_n
    BY <2>1, FS_Interval
  <2>3. Cardinality(Free) <= Cardinality(1..m_connection_n)
    BY <2>1, <2>2, FS_Subset
  <2> QED BY <1>2, <2>1, <2>2, <2>3
<1> DEFINE D == 0..(m_connection_n_max + CREATECONNUM)
<1>4. Walk = [k \in D |-> IF k < n THEN s[k + 1] ELSE Null]
  BY <1>1, WalkIsList
<1>5. \A c \in Free : c # Null
  BY DEF Free, Null, IInv, TypeOK
<1>6. {Walk[k] : k \in DOMAIN Walk} \ {Null} = Free
  <2>1. ASSUME NEW c \in Free PROVE \E k \in D : Walk[k] = c
    <3>1. PICK i \in 1..n : s[i] = c
      BY <1>1 DEF IsList
    <3>2. i - 1 \in D /\ Walk[i - 1] = c
      BY <1>3, <1>4, <3>1
    <3> QED BY <3>2
  <2>2. ASSUME NEW k \in D PROVE Walk[k] \in Free \cup {Null}
    BY <1>4
  <2>3. DOMAIN Walk = D
    BY <1>4
  <2> HIDE DEF D
  <2> QED BY <1>5, <2>1, <2>2, <2>3
<1>7. Walk[Cardinality(Free)] = Null
  BY <1>2, <1>3, <1>4
<1>8. FreeListExact
  BY <1>6, <1>7 DEF FreeListExact
<1>9. ExhaustedOnly
  <2> SUFFICES ASSUME m_pfree_connections = Null PROVE held = 1..m_connection_n_max
    BY DEF ExhaustedOnly
  <2>1. n = 0
    BY <1>1, <1>5 DEF IsList
  <2>2. Free = {}
    BY <1>1, <2>1 DEF IsList
  <2> QED BY <2>2 DEF Free, LInv, GrownOut, IInv, Allocated
<1> QED BY <1>8, <1>9

LEMMA ListInvariant == Spec => [](FreeListExact /\ ExhaustedOnly)
<1>1. CASE WholeBlocks
  <2>1. Init => IInv /\ LInv
    BY <1>1, InitInv, ListInit
  <2>2. IInv /\ LInv => FreeListExact /\ ExhaustedOnly
    BY ListExact
  <2> QED BY <2>1, <2>2, StepInv, ListStep, PTL DEF Spec
<1>2. CASE ~WholeBlocks
  <2>1. [](~WholeBlocks)
    BY <1>2, PTL
  <2>2. ~WholeBlocks => FreeListExact /\ ExhaustedOnly
    BY DEF FreeListExact, ExhaustedOnly
  <2> QED BY <2>1, <2>2, PTL
<1> QED BY <1>1, <1>2

\* The free list that ngx_get_connection and ngx_free_connection follow holds
\* every free connection once and no other, whatever the order of the calls.
THEOREM ListIsExact == Spec => []FreeListExact
  BY ListInvariant, PTL

\* ngx_get_connection fails only when all the connections that the limit allows
\* are in use.
THEOREM RefusesWhenFull == Spec => []ExhaustedOnly
  BY ListInvariant, PTL
=============================================================================
