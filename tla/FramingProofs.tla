--------------------------- MODULE FramingProofs ----------------------------
(***************************************************************************)
(* What the steps of Framing do to the receive state of a connection, for  *)
(* the proofs about both modes of epoll.                                   *)
(***************************************************************************)
EXTENDS Framing, TLAPS

\* Where the k-th package starts; the end of the stream for the one to come.
StartOf(k) == IF k \in DOMAIN sent THEN sent[k].start ELSE total

Entry == [start : Nat, len : Nat]

\* The client's packages follow each other in the stream without a gap.
Layout ==
    /\ sent \in Seq(Entry)
    /\ total \in Nat
    /\ StartOf(1) = 0
    /\ \A k \in DOMAIN sent :
          /\ sent[k].len \in Lens
          /\ StartOf(k + 1) = sent[k].start + Wire(sent[k].len)
    /\ \A j, k \in DOMAIN sent : j < k => sent[j].start + Wire(sent[j].len) <= sent[k].start
    /\ \A k \in DOMAIN sent : sent[k].start + Wire(sent[k].len) <= total

\* Buffers.
Pkg == UNION {[0..(n - 1) -> Int] : n \in Nat}

Stats == {"HD_INIT", "HD_RECVING", "BD_INIT", "BD_RECVING"}

FrameTyped ==
    /\ curStat \in Stats
    /\ irecvlen \in Nat
    /\ precvbuf \in [buf : {"dataHeadInfo", "package"}, off : Nat]
    /\ dataHeadInfo \in [HeaderBytes -> Int]
    /\ package \in Pkg
    /\ got \in Nat /\ taken \in Nat
    /\ delivered \in Seq(Pkg)

FloodTyped == FloodAttackCount \in Nat /\ FloodkickLastTime \in {0, 1}

\* The header of package taken + 1 is read up to got.
AtHeader ==
    LET from == StartOf(taken + 1)
        n == got - from IN
    /\ precvbuf = [buf |-> "dataHeadInfo", off |-> n]
    /\ n \in 0..(m_iLenPkgHeader - 1)
    /\ irecvlen = m_iLenPkgHeader - n
    /\ curStat = "HD_INIT" => n = 0
    /\ \A k \in 0..(n - 1) : dataHeadInfo[k] = from + k

\* So is its body.
AtBody ==
    LET from == StartOf(taken + 1)
        n == got - from
        len == sent[taken + 1].len IN
    /\ taken + 1 \in DOMAIN sent
    /\ Valid(len)
    /\ precvbuf = [buf |-> "package", off |-> n]
    /\ n \in m_iLenPkgHeader..(len - 1)
    /\ irecvlen = len - n
    /\ DOMAIN package = 0..(len - 1)
    /\ \A k \in 0..(n - 1) : package[k] = from + k

\* The receive state of a connection between two reads.
Frame ==
    /\ taken \in 0..Len(sent)
    /\ IF curStat \in {"HD_INIT", "HD_RECVING"} THEN AtHeader ELSE AtBody

-----------------------------------------------------------------------------
(* The client's stream.                                                    *)

\* The bytes that follow a header of any length are at least the header.
LEMMA WireBounds ==
    ASSUME NEW len \in Nat
    PROVE  Wire(len) \in Nat /\ Wire(len) >= m_iLenPkgHeader /\ Wire(len) >= 1
  BY FramingAssumption DEF Wire

\* What an entry of the stream is.
LEMMA SentTyped ==
    ASSUME Layout, NEW i \in DOMAIN sent
    PROVE  /\ i \in 1..Len(sent) /\ i \in Nat /\ Len(sent) \in Nat
           /\ sent[i].start \in Nat /\ sent[i].len \in Nat
           /\ Wire(sent[i].len) \in Nat /\ Wire(sent[i].len) >= 1
<1>1. sent \in Seq(Entry)
  BY DEF Layout
<1>2. /\ i \in 1..Len(sent) /\ i \in Nat /\ Len(sent) \in Nat
  BY <1>1
<1>3. sent[i].start \in Nat /\ sent[i].len \in Nat
  <2>1. sent[i] \in Entry
    BY <1>1, <1>2
  <2> QED
    BY <2>1 DEF Entry
<1>4. Wire(sent[i].len) \in Nat /\ Wire(sent[i].len) >= 1
  BY <1>3, WireBounds
<1> QED
  BY <1>2, <1>3, <1>4

\* SendPackage adds a package at the end and moves none.
LEMMA SendLaysOut ==
    ASSUME Layout, NEW len \in Lens, SendPackage(len)
    PROVE  /\ Layout'
           /\ Len(sent') = Len(sent) + 1
           /\ \A k \in DOMAIN sent : k \in DOMAIN sent' /\ sent'[k] = sent[k]
           /\ \A k \in 1..(Len(sent) + 1) : StartOf(k)' = StartOf(k)
<1> DEFINE e == [start |-> total, len |-> len]
           n == Len(sent)
<1>1. len \in Nat /\ e \in Entry
  BY FramingAssumption DEF Layout, Entry
<1>2. /\ sent' = Append(sent, e) /\ total' = total + Wire(len)
      /\ sent' \in Seq(Entry)
      /\ Len(sent') = n + 1 /\ n \in Nat
      /\ DOMAIN sent = 1..n /\ DOMAIN sent' = 1..(n + 1)
      /\ \A k \in 1..n : sent'[k] = sent[k]
      /\ sent'[n + 1] = e
  BY <1>1 DEF Layout, SendPackage
<1>3. Wire(len) \in Nat /\ Wire(len) >= 1
  BY <1>1, WireBounds
<1>4. total' \in Nat
  BY <1>2, <1>3 DEF Layout
<1>5. \A k \in 1..(n + 1) : StartOf(k)' = StartOf(k)
  BY <1>2 DEF StartOf
<1>6. StartOf(1)' = 0
  BY <1>2, <1>5 DEF Layout
<1>7. ASSUME NEW k \in DOMAIN sent'
      PROVE  /\ sent'[k].len \in Lens
             /\ StartOf(k + 1)' = sent'[k].start + Wire(sent'[k].len)
             /\ sent'[k].start + Wire(sent'[k].len) <= total'
  <2>1. CASE k \in 1..n
    <3>1. k + 1 \in 1..(n + 1) /\ k \in DOMAIN sent
      BY <2>1, <1>2
    <3>2. sent[k].start \in Nat /\ Wire(sent[k].len) \in Nat
      BY <3>1, SentTyped
    <3>3. /\ sent[k].len \in Lens
          /\ StartOf(k + 1) = sent[k].start + Wire(sent[k].len)
          /\ sent[k].start + Wire(sent[k].len) <= total
          /\ total \in Nat
      BY <3>1 DEF Layout
    <3>4. sent'[k] = sent[k] /\ StartOf(k + 1)' = StartOf(k + 1)
      BY <2>1, <3>1, <1>2, <1>5
    <3> QED
      BY <3>2, <3>3, <3>4, <1>2, <1>3
  <2>2. CASE k = n + 1
    BY <2>2, <1>2, <1>3, <1>4 DEF StartOf
  <2> QED
    BY <1>2, <2>1, <2>2
<1>8. ASSUME NEW j \in DOMAIN sent', NEW k \in DOMAIN sent', j < k
      PROVE  sent'[j].start + Wire(sent'[j].len) <= sent'[k].start
  <2>1. CASE k \in 1..n
    BY <2>1, <1>2, <1>8 DEF Layout
  <2>2. CASE k = n + 1
    BY <2>2, <1>2, <1>8 DEF Layout
  <2> QED
    BY <1>2, <2>1, <2>2
<1>9. Layout'
  BY <1>2, <1>4, <1>6, <1>7, <1>8 DEF Layout, Wire
<1> QED
  BY <1>2, <1>5, <1>9

\* A step that leaves the client alone leaves its stream as it was.
LEMMA LayoutKept ==
    ASSUME UNCHANGED clientVars
    PROVE  /\ Layout => Layout'
           /\ \A k : StartOf(k)' = StartOf(k)
<1>1. sent' = sent /\ total' = total
  BY DEF clientVars
<1>2. \A k : StartOf(k)' = StartOf(k)
  BY <1>1 DEF StartOf
<1>3. Layout => Layout'
  BY <1>1, <1>2 DEF Layout, Wire
<1> QED
  BY <1>2, <1>3

\* No two packages start at the same byte.
LEMMA StartsDiffer ==
    ASSUME Layout, NEW j \in DOMAIN sent, NEW k \in DOMAIN sent,
           sent[j].start = sent[k].start
    PROVE  j = k
<1>1. /\ j \in Nat /\ k \in Nat
      /\ sent[j].start \in Nat /\ sent[k].start \in Nat
      /\ Wire(sent[j].len) \in Nat /\ Wire(sent[j].len) >= 1
      /\ Wire(sent[k].len) \in Nat /\ Wire(sent[k].len) >= 1
  BY SentTyped
<1>2. /\ j < k => sent[j].start + Wire(sent[j].len) <= sent[k].start
      /\ k < j => sent[k].start + Wire(sent[k].len) <= sent[j].start
  BY DEF Layout
<1>3. ~(j < k) /\ ~(k < j)
  BY <1>1, <1>2
<1> QED
  BY <1>1, <1>3

\* A complete header of the client declares the length of its package.
LEMMA DeclaresItsLength ==
    ASSUME Layout, NEW i \in DOMAIN sent
    PROVE  Declared(HeaderOf(i)) = {sent[i].len}
<1>1. ASSUME NEW j \in DOMAIN sent, HeaderOf(i) = HeaderOf(j)
      PROVE  j = i
  <2>1. 0 \in HeaderBytes
    BY FramingAssumption DEF HeaderBytes
  <2>2. sent[i].start + 0 = sent[j].start + 0
    BY <1>1, <2>1 DEF HeaderOf
  <2>3. sent[i].start = sent[j].start
    BY <2>2, SentTyped
  <2> QED
    BY <2>3, StartsDiffer
<1> QED
  BY <1>1 DEF Declared

\* Packages of legal lengths differ in their bytes.
LEMMA PackagesDiffer ==
    ASSUME Layout, NEW i \in DOMAIN sent, NEW j \in DOMAIN sent,
           Valid(sent[i].len), Package(i) = Package(j)
    PROVE  i = j
<1>1. /\ sent[i].start \in Nat /\ sent[j].start \in Nat
      /\ sent[i].len \in Nat /\ sent[j].len \in Nat
  BY SentTyped
<1>2. 0 \in 0..(sent[i].len - 1)
  BY <1>1, FramingAssumption DEF Valid
<1>3. 0 \in 0..(sent[j].len - 1)
  BY <1>2 DEF Package
<1>4. Package(i)[0] = sent[i].start /\ Package(j)[0] = sent[j].start
  BY <1>1, <1>2, <1>3 DEF Package
<1> QED
  BY <1>4, StartsDiffer

-----------------------------------------------------------------------------
(* Reading.                                                                *)

\* Buffers are functions on an initial interval.
LEMMA IsPkg ==
    ASSUME NEW n \in Int, NEW f \in [0..(n - 1) -> Int]
    PROVE  f \in Pkg
<1>1. CASE n \in Nat
  BY <1>1 DEF Pkg
<1>2. CASE n \notin Nat
  <2>1. 0..(n - 1) = 0..(0 - 1)
    BY <1>2
  <2> QED
    BY <2>1 DEF Pkg
<1> QED
  BY <1>1, <1>2

LEMMA EmptyIsPkg == NoPackage \in Pkg
<1>1. 0..(0 - 1) = {}
  OBVIOUS
<1>2. NoPackage \in [0..(0 - 1) -> Int]
  BY <1>1 DEF NoPackage
<1> QED
  BY <1>2 DEF Pkg

\* Storing bytes keeps the kind of a buffer.
LEMMA StoredTyped ==
    ASSUME FrameTyped, NEW ret \in Nat
    PROVE  /\ StoredHead(ret) \in [HeaderBytes -> Int]
           /\ StoredBody(ret) \in Pkg
           /\ DOMAIN StoredBody(ret) = DOMAIN package
<1>1. got \in Nat /\ precvbuf.off \in Nat
  BY DEF FrameTyped
<1>2. HeaderBytes \subseteq Int
  BY DEF HeaderBytes
<1>3. DOMAIN dataHeadInfo = HeaderBytes /\ \A k \in HeaderBytes : dataHeadInfo[k] \in Int
  BY DEF FrameTyped
<1>4. StoredHead(ret) \in [HeaderBytes -> Int]
  BY <1>1, <1>2, <1>3 DEF StoredHead, Stored
<1>5. PICK n \in Nat : package \in [0..(n - 1) -> Int]
  BY DEF FrameTyped, Pkg
<1>6. StoredBody(ret) \in [0..(n - 1) -> Int]
  BY <1>1, <1>5 DEF StoredBody, Stored
<1> QED
  BY <1>4, <1>5, <1>6, IsPkg

\* A package made of a header is a buffer of the declared length.
LEMMA NewPackageTyped ==
    ASSUME NEW len \in Nat, NEW header \in [HeaderBytes -> Int]
    PROVE  /\ NewPackage(len, header) \in Pkg
           /\ DOMAIN NewPackage(len, header) = 0..(len - 1)
<1>1. NewPackage(len, header) \in [0..(len - 1) -> Int]
  BY DEF NewPackage, NoByte
<1> QED
  BY <1>1, IsPkg

\* The length that a header declares is a number.
LEMMA DeclaredNat ==
    ASSUME Layout, NEW header, NEW len \in Declared(header)
    PROVE  len \in Nat
<1>1. CASE len \in Lens
  BY <1>1, FramingAssumption
<1>2. CASE len \notin Lens
  <2>1. PICK i \in DOMAIN sent : len = sent[i].len
    BY <1>2 DEF Declared
  <2> QED
    BY <2>1, SentTyped
<1> QED
  BY <1>1, <1>2

\* What is set up for the next read has the right type.
LEMMA AwaitTyped ==
    ASSUME FrameTyped
    PROVE  /\ AwaitHeader => /\ curStat' \in Stats /\ irecvlen' \in Nat
                             /\ precvbuf' \in [buf : {"dataHeadInfo", "package"}, off : Nat]
           /\ \A len \in Nat : ~RejectHeader(len) /\ AwaitBody(len) =>
                             /\ curStat' \in Stats /\ irecvlen' \in Nat
                             /\ precvbuf' \in [buf : {"dataHeadInfo", "package"}, off : Nat]
           /\ \A ret \in 1..irecvlen :
                 /\ irecvlen' \in {irecvlen - ret, ret}
                 /\ precvbuf' = [precvbuf EXCEPT !.off = @ + ret]
                 => /\ irecvlen' \in Nat
                    /\ precvbuf' \in [buf : {"dataHeadInfo", "package"}, off : Nat]
<1>1. m_iLenPkgHeader \in Nat /\ MaxPkgLen \in Nat
  BY FramingAssumption
<1>2. irecvlen \in Nat /\ precvbuf \in [buf : {"dataHeadInfo", "package"}, off : Nat]
  BY DEF FrameTyped
<1>3. ASSUME AwaitHeader
      PROVE  /\ curStat' \in Stats /\ irecvlen' \in Nat
             /\ precvbuf' \in [buf : {"dataHeadInfo", "package"}, off : Nat]
  BY <1>1, <1>3 DEF AwaitHeader, HeadStart, Stats
<1>4. ASSUME NEW len \in Nat, ~RejectHeader(len), AwaitBody(len)
      PROVE  /\ curStat' \in Stats /\ irecvlen' \in Nat
             /\ precvbuf' \in [buf : {"dataHeadInfo", "package"}, off : Nat]
  BY <1>1, <1>4 DEF AwaitBody, RejectHeader, Stats
<1>5. ASSUME NEW ret \in 1..irecvlen, irecvlen' \in {irecvlen - ret, ret},
             precvbuf' = [precvbuf EXCEPT !.off = @ + ret]
      PROVE  /\ irecvlen' \in Nat
             /\ precvbuf' \in [buf : {"dataHeadInfo", "package"}, off : Nat]
  <2>1. irecvlen' \in Nat
    BY <1>2, <1>5
  <2>2. ret \in Nat
    OBVIOUS
  <2> QED
    BY <2>1, <2>2, <1>2, <1>5
<1> QED
  BY <1>3, <1>4, <1>5

\* In the middle of a package the client has sent it.
LEMMA InPackage ==
    ASSUME Layout, FrameTyped, taken \in 0..Len(sent), StartOf(taken + 1) < total
    PROVE  /\ taken + 1 \in DOMAIN sent
           /\ sent[taken + 1].start = StartOf(taken + 1)
<1>1. DOMAIN sent = 1..Len(sent) /\ Len(sent) \in Nat
  BY DEF Layout
<1>2. total \in Nat
  BY DEF Layout
<1> QED
  BY <1>1, <1>2 DEF StartOf

\* A read while a header is awaited puts the next bytes of the current package
\* where they belong; a read of all that was asked for completes its header.
LEMMA HeaderRead ==
    ASSUME Layout, FrameTyped, Frame, curStat \in {"HD_INIT", "HD_RECVING"},
           NEW ret \in 1..irecvlen, got + ret <= total
    PROVE  /\ taken + 1 \in DOMAIN sent
           /\ got + ret <= StartOf(taken + 1) + m_iLenPkgHeader
           /\ irecvlen = ret => /\ StoredHead(ret) = HeaderOf(taken + 1)
                                /\ got + ret = StartOf(taken + 1) + m_iLenPkgHeader
           /\ irecvlen # ret => got + ret < StartOf(taken + 1) + m_iLenPkgHeader
           /\ \A k \in 0..(got + ret - StartOf(taken + 1) - 1) :
                 StoredHead(ret)[k] = StartOf(taken + 1) + k
<1> DEFINE from == StartOf(taken + 1)
           n == got - from
<1>1. /\ precvbuf.buf = "dataHeadInfo" /\ precvbuf.off = n
      /\ n \in 0..(m_iLenPkgHeader - 1)
      /\ irecvlen = m_iLenPkgHeader - n
      /\ \A k \in 0..(n - 1) : dataHeadInfo[k] = from + k
  BY DEF Frame, AtHeader
<1>2. total \in Nat /\ got \in Nat /\ taken \in 0..Len(sent) /\ m_iLenPkgHeader \in Nat
  BY FramingAssumption DEF Layout, FrameTyped, Frame
<1>3. from \in Int
  <2>1. CASE taken + 1 \in DOMAIN sent
    BY <2>1, SentTyped DEF StartOf
  <2>2. CASE taken + 1 \notin DOMAIN sent
    BY <2>2, <1>2 DEF StartOf
  <2> QED
    BY <2>1, <2>2
<1>4. taken + 1 \in DOMAIN sent /\ sent[taken + 1].start = from
  BY <1>1, <1>2, <1>3, InPackage
<1>5. DOMAIN dataHeadInfo = HeaderBytes
  BY DEF FrameTyped
<1>6. \A k \in 0..(n + ret - 1) : StoredHead(ret)[k] = from + k
  <2> SUFFICES ASSUME NEW k \in 0..(n + ret - 1)
               PROVE  StoredHead(ret)[k] = from + k
    OBVIOUS
  <2>1. k \in HeaderBytes
    BY <1>1, <1>2, <1>3 DEF HeaderBytes
  <2>2. CASE k \in 0..(n - 1)
    BY <2>1, <2>2, <1>1, <1>2, <1>3, <1>5 DEF StoredHead, Stored
  <2>3. CASE k \in n..(n + ret - 1)
    BY <2>1, <2>3, <1>1, <1>2, <1>3, <1>5 DEF StoredHead, Stored
  <2> QED
    BY <2>2, <2>3, <1>1, <1>2, <1>3
<1>7. ASSUME irecvlen = ret PROVE StoredHead(ret) = HeaderOf(taken + 1)
  <2>1. n + ret = m_iLenPkgHeader
    BY <1>1, <1>2, <1>3, <1>7
  <2>4. 0..(n + ret - 1) = HeaderBytes
    BY <2>1, <1>2, <1>3 DEF HeaderBytes
  <2>2. \A k \in HeaderBytes : StoredHead(ret)[k] = from + k
    BY <2>4, <1>6
  <2>3. StoredHead(ret) = [k \in HeaderBytes |-> StoredHead(ret)[k]]
    BY <1>5 DEF StoredHead, Stored
  <2> QED
    BY <2>2, <2>3, <1>4 DEF HeaderOf
<1>8. /\ got + ret <= from + m_iLenPkgHeader
      /\ irecvlen = ret => got + ret = from + m_iLenPkgHeader
      /\ irecvlen # ret => got + ret < from + m_iLenPkgHeader
  <2>1. irecvlen \in Int /\ ret \in Int /\ ret <= irecvlen
    BY DEF FrameTyped
  <2>2. irecvlen = m_iLenPkgHeader - (got - from)
    BY <1>1
  <2> QED
    BY <2>1, <2>2, <1>2, <1>3
<1>9. n + ret - 1 = got + ret - from - 1
  BY <1>2, <1>3
<1>10. \A k \in 0..(got + ret - from - 1) : StoredHead(ret)[k] = from + k
  BY <1>6, <1>9
<1> QED
  BY <1>4, <1>7, <1>8, <1>10

\* So does a read while a body is awaited.
LEMMA BodyRead ==
    ASSUME Layout, FrameTyped, Frame, curStat \notin {"HD_INIT", "HD_RECVING"},
           NEW ret \in 1..irecvlen
    PROVE  /\ taken + 1 \in DOMAIN sent
           /\ Valid(sent[taken + 1].len)
           /\ DOMAIN StoredBody(ret) = 0..(sent[taken + 1].len - 1)
           /\ irecvlen = ret => /\ StoredBody(ret) = Package(taken + 1)
                                /\ got + ret = StartOf(taken + 2)
           /\ irecvlen # ret => got + ret < StartOf(taken + 1) + sent[taken + 1].len
           /\ \A k \in 0..(got + ret - StartOf(taken + 1) - 1) :
                 StoredBody(ret)[k] = StartOf(taken + 1) + k
<1> DEFINE from == StartOf(taken + 1)
           n == got - from
           len == sent[taken + 1].len
<1>1. /\ taken + 1 \in DOMAIN sent
      /\ Valid(len)
      /\ precvbuf.buf = "package" /\ precvbuf.off = n
      /\ n \in m_iLenPkgHeader..(len - 1)
      /\ irecvlen = len - n
      /\ DOMAIN package = 0..(len - 1)
      /\ \A k \in 0..(n - 1) : package[k] = from + k
  BY DEF Frame, AtBody
<1>2. from = sent[taken + 1].start
  BY <1>1 DEF StartOf
<1>3. got \in Nat /\ from \in Nat /\ len \in Nat /\ m_iLenPkgHeader \in Nat /\ taken \in Nat
  BY <1>1, <1>2, SentTyped, FramingAssumption DEF FrameTyped
<1>4. \A k \in 0..(n + ret - 1) : StoredBody(ret)[k] = from + k
  <2> SUFFICES ASSUME NEW k \in 0..(n + ret - 1)
               PROVE  StoredBody(ret)[k] = from + k
    OBVIOUS
  <2>1. k \in 0..(len - 1)
    BY <1>1, <1>3
  <2>2. CASE k \in 0..(n - 1)
    BY <2>1, <2>2, <1>1, <1>3 DEF StoredBody, Stored
  <2>3. CASE k \in n..(n + ret - 1)
    BY <2>1, <2>3, <1>1, <1>3 DEF StoredBody, Stored
  <2> QED
    BY <2>2, <2>3, <1>1, <1>3
<1>5. DOMAIN StoredBody(ret) = 0..(len - 1)
  BY <1>1 DEF StoredBody, Stored
<1>6. ASSUME irecvlen = ret
      PROVE  StoredBody(ret) = Package(taken + 1) /\ got + ret = StartOf(taken + 2)
  <2>1. n + ret = len
    BY <1>1, <1>3, <1>6
  <2>6. 0..(n + ret - 1) = 0..(len - 1)
    BY <2>1, <1>3
  <2>2. \A k \in 0..(len - 1) : StoredBody(ret)[k] = from + k
    BY <2>6, <1>4
  <2>3. StoredBody(ret) = [k \in 0..(len - 1) |-> StoredBody(ret)[k]]
    BY <1>5 DEF StoredBody, Stored
  <2>4. StartOf((taken + 1) + 1) = from + Wire(len) /\ Wire(len) = len
    <3>1. StartOf((taken + 1) + 1) = from + Wire(len)
      BY <1>1, <1>2 DEF Layout
    <3>2. ~(len < m_iLenPkgHeader)
      BY <1>1, <1>3 DEF Valid
    <3> QED
      BY <3>1, <3>2 DEF Wire
  <2>5. (taken + 1) + 1 = taken + 2
    BY <1>3
  <2>7. StoredBody(ret) = Package(taken + 1)
    BY <2>2, <2>3, <1>2 DEF Package
  <2>8. got + ret = from + len
    BY <2>1, <1>3
  <2> QED
    BY <2>4, <2>5, <2>7, <2>8
<1>7. irecvlen # ret => got + ret < from + len
  BY <1>1, <1>3
<1>8. n + ret - 1 = got + ret - from - 1
  BY <1>3
<1>9. \A k \in 0..(got + ret - from - 1) : StoredBody(ret)[k] = from + k
  BY <1>4, <1>8
<1> QED
  BY <1>1, <1>5, <1>6, <1>7, <1>9

-----------------------------------------------------------------------------
(* The receive state after a read.                                         *)

\* The state set up for a header is right when a package has just ended.
LEMMA HeaderAwaited ==
    ASSUME AwaitHeader, taken' \in 0..Len(sent'), got' \in Nat, got' = StartOf(taken + 1)'
    PROVE  Frame'
<1>1. got' - StartOf(taken + 1)' = 0
  OBVIOUS
<1>2. 0 \in 0..(m_iLenPkgHeader - 1) /\ m_iLenPkgHeader - 0 = m_iLenPkgHeader
  BY FramingAssumption
<1>3. 0..(0 - 1) = {}
  OBVIOUS
<1>4. AtHeader'
  BY <1>1, <1>2, <1>3 DEF AtHeader, AwaitHeader, HeadStart
<1> QED
  BY <1>4 DEF Frame, AwaitHeader

\* A package that declares no more than its header ends with it.
LEMMA HeaderAlone ==
    ASSUME Layout, NEW i \in DOMAIN sent, sent[i].len <= m_iLenPkgHeader
    PROVE  /\ StartOf(i + 1) = StartOf(i) + m_iLenPkgHeader
           /\ sent[i].len = m_iLenPkgHeader =>
                 NewPackage(sent[i].len, HeaderOf(i)) = Package(i)
<1>1. StartOf(i) = sent[i].start /\ StartOf(i + 1) = sent[i].start + Wire(sent[i].len)
  BY DEF StartOf, Layout
<1>2. Wire(sent[i].len) = m_iLenPkgHeader
  BY SentTyped, FramingAssumption DEF Wire
<1>3. ASSUME sent[i].len = m_iLenPkgHeader
      PROVE  NewPackage(sent[i].len, HeaderOf(i)) = Package(i)
  BY <1>3 DEF NewPackage, HeaderOf, Package, HeaderBytes
<1> QED
  BY <1>1, <1>2, <1>3

\* What a read that completes a header knows: the current package, its length,
\* and where it ends if it is a header alone.
LEMMA HeaderKnown ==
    ASSUME Layout, FrameTyped, Frame, curStat \in {"HD_INIT", "HD_RECVING"},
           NEW ret \in 1..irecvlen, got + ret <= total, irecvlen = ret,
           NEW e \in Declared(StoredHead(ret))
    PROVE  /\ StoredHead(ret) = HeaderOf(taken + 1)
           /\ taken + 1 \in DOMAIN sent
           /\ e = sent[taken + 1].len
           /\ got + ret = StartOf(taken + 1) + m_iLenPkgHeader
           /\ e <= m_iLenPkgHeader => got + ret = StartOf(taken + 2)
           /\ e = m_iLenPkgHeader => NewPackage(e, StoredHead(ret)) = Package(taken + 1)
<1>2. /\ StoredHead(ret) = HeaderOf(taken + 1)
      /\ taken + 1 \in DOMAIN sent
      /\ got + ret = StartOf(taken + 1) + m_iLenPkgHeader
  BY HeaderRead
<1>3. e = sent[taken + 1].len
  BY <1>2, DeclaresItsLength
<1>4. (taken + 1) + 1 = taken + 2
  BY DEF FrameTyped
<1>5. e <= m_iLenPkgHeader => StartOf((taken + 1) + 1) = StartOf(taken + 1) + m_iLenPkgHeader
  BY <1>2, <1>3, HeaderAlone
<1>6. e = m_iLenPkgHeader => NewPackage(e, HeaderOf(taken + 1)) = Package(taken + 1)
  <2>1. e = m_iLenPkgHeader => e <= m_iLenPkgHeader
    BY FramingAssumption
  <2> QED
    BY <2>1, <1>2, <1>3, HeaderAlone
<1> QED
  BY <1>2, <1>3, <1>4, <1>5, <1>6

\* After a package that ended here a header is awaited.
LEMMA NextHeader ==
    ASSUME Layout, FrameTyped, taken + 1 \in DOMAIN sent, got' = StartOf(taken + 2),
           got' \in Nat, AwaitHeader, taken' = taken + 1, UNCHANGED clientVars
    PROVE  Frame'
<1>1. taken + 1 \in 1..Len(sent) /\ taken \in Nat /\ Len(sent) \in Nat
  BY SentTyped DEF FrameTyped
<1>2. sent' = sent /\ taken' + 1 = taken + 2
  BY <1>1 DEF clientVars
<1>3. StartOf(taken + 1)' = StartOf(taken + 2)
  BY <1>2 DEF StartOf, clientVars
<1>4. taken' \in 0..Len(sent')
  BY <1>1, <1>2
<1> QED
  BY <1>3, <1>4, HeaderAwaited

\* Part of a header came.
LEMMA RestOfHeader ==
    ASSUME Layout, FrameTyped, Frame, curStat \in {"HD_INIT", "HD_RECVING"},
           NEW ret \in 1..irecvlen, got + ret <= total, irecvlen # ret,
           got' = got + ret, dataHeadInfo' = StoredHead(ret),
           AwaitRest(ret, "HD_RECVING"), UNCHANGED <<clientVars, taken>>
    PROVE  Frame'
<1> DEFINE from == StartOf(taken + 1)
<1>1. /\ got + ret < from + m_iLenPkgHeader
      /\ \A k \in 0..(got + ret - from - 1) : StoredHead(ret)[k] = from + k
      /\ taken + 1 \in DOMAIN sent
  BY HeaderRead
<1>2. /\ precvbuf = [buf |-> "dataHeadInfo", off |-> got - from]
      /\ got - from \in 0..(m_iLenPkgHeader - 1)
      /\ irecvlen = m_iLenPkgHeader - (got - from)
      /\ taken \in 0..Len(sent)
  BY DEF Frame, AtHeader
<1>3. from \in Nat /\ got \in Nat /\ m_iLenPkgHeader \in Nat
  BY <1>1, SentTyped, FramingAssumption DEF StartOf, FrameTyped
<1>4. /\ curStat' = "HD_RECVING" /\ irecvlen' = irecvlen - ret
      /\ precvbuf' = [precvbuf EXCEPT !.off = @ + ret]
      /\ sent' = sent /\ total' = total /\ taken' = taken
  BY DEF AwaitRest, clientVars
<1>5. StartOf(taken + 1)' = from
  BY <1>4 DEF StartOf
<1> HIDE DEF from
<1>6. /\ precvbuf' = [buf |-> "dataHeadInfo", off |-> got' - from]
      /\ got' - from \in 0..(m_iLenPkgHeader - 1)
      /\ irecvlen' = m_iLenPkgHeader - (got' - from)
  <2>1. (got - from) + ret = got' - from
    BY <1>3
  <2>2. precvbuf' = [buf |-> "dataHeadInfo", off |-> (got - from) + ret]
    BY <1>2, <1>4
  <2>3. precvbuf' = [buf |-> "dataHeadInfo", off |-> got' - from]
    BY <2>1, <2>2
  <2>4. got' - from \in 0..(m_iLenPkgHeader - 1)
    BY <1>1, <1>2, <1>3
  <2>5. irecvlen' = m_iLenPkgHeader - (got' - from)
    BY <1>2, <1>3, <1>4
  <2> QED
    BY <2>3, <2>4, <2>5
<1>7. \A k \in 0..((got' - from) - 1) : dataHeadInfo'[k] = from + k
  BY <1>1, <1>3
<1>8. AtHeader'
  BY <1>4, <1>5, <1>6, <1>7 DEF AtHeader
<1> QED
  BY <1>2, <1>4, <1>8 DEF Frame

\* A header came to its end, and a body is to follow.
LEMMA BodyAwaited ==
    ASSUME Layout, FrameTyped, NEW len \in Nat,
           taken + 1 \in DOMAIN sent, len = sent[taken + 1].len,
           Valid(len), len # m_iLenPkgHeader,
           got' = StartOf(taken + 1) + m_iLenPkgHeader,
           AwaitBody(len), package' = NewPackage(len, HeaderOf(taken + 1)),
           UNCHANGED <<clientVars, taken>>
    PROVE  Frame'
<1> DEFINE from == StartOf(taken + 1)
<1>1. /\ from = sent[taken + 1].start /\ from \in Nat /\ taken \in 0..Len(sent)
      /\ m_iLenPkgHeader \in Nat
  BY SentTyped, FramingAssumption DEF StartOf, FrameTyped
<1>2. /\ curStat' = "BD_INIT" /\ irecvlen' = len - m_iLenPkgHeader
      /\ precvbuf' = [buf |-> "package", off |-> m_iLenPkgHeader]
      /\ sent' = sent /\ total' = total /\ taken' = taken
  BY DEF AwaitBody, clientVars
<1>3. StartOf(taken + 1)' = from
  BY <1>2 DEF StartOf
<1>4. m_iLenPkgHeader \in m_iLenPkgHeader..(len - 1)
  BY <1>1 DEF Valid
<1>5. /\ DOMAIN package' = 0..(len - 1)
      /\ \A k \in 0..(m_iLenPkgHeader - 1) : package'[k] = from + k
  BY <1>1, <1>4 DEF NewPackage, HeaderOf, HeaderBytes
<1>6. got' - from = m_iLenPkgHeader
  BY <1>1
<1> HIDE DEF from
<1>7. AtBody'
  BY <1>1, <1>2, <1>3, <1>4, <1>5, <1>6 DEF AtBody, Valid
<1> QED
  BY <1>1, <1>2, <1>7 DEF Frame

\* Part of a body came.
LEMMA RestOfBody ==
    ASSUME Layout, FrameTyped, Frame, curStat \notin {"HD_INIT", "HD_RECVING"},
           NEW ret \in 1..irecvlen, irecvlen # ret,
           got' = got + ret, package' = StoredBody(ret), curStat' = "BD_RECVING",
           irecvlen' = irecvlen - ret, precvbuf' = [precvbuf EXCEPT !.off = @ + ret],
           UNCHANGED <<clientVars, taken>>
    PROVE  Frame'
<1> DEFINE from == StartOf(taken + 1)
           len == sent[taken + 1].len
<1>1. /\ taken + 1 \in DOMAIN sent
      /\ Valid(len)
      /\ DOMAIN StoredBody(ret) = 0..(len - 1)
      /\ got + ret < from + len
      /\ \A k \in 0..(got + ret - from - 1) : StoredBody(ret)[k] = from + k
  BY BodyRead
<1>2. /\ precvbuf = [buf |-> "package", off |-> got - from]
      /\ got - from \in m_iLenPkgHeader..(len - 1)
      /\ irecvlen = len - (got - from)
      /\ taken \in 0..Len(sent)
  BY DEF Frame, AtBody
<1>3. from \in Nat /\ got \in Nat /\ m_iLenPkgHeader \in Nat /\ len \in Nat
  BY <1>1, SentTyped, FramingAssumption DEF StartOf, FrameTyped
<1>4. sent' = sent /\ total' = total /\ taken' = taken
  BY DEF clientVars
<1>5. StartOf(taken + 1)' = from /\ sent[taken + 1].len' = len
  BY <1>4 DEF StartOf
<1> HIDE DEF from, len
<1>6. /\ precvbuf' = [buf |-> "package", off |-> got' - from]
      /\ got' - from \in m_iLenPkgHeader..(len - 1)
      /\ irecvlen' = len - (got' - from)
  <2>1. (got - from) + ret = got' - from
    BY <1>3
  <2>2. precvbuf' = [buf |-> "package", off |-> (got - from) + ret]
    BY <1>2
  <2>3. precvbuf' = [buf |-> "package", off |-> got' - from]
    BY <2>1, <2>2
  <2>4. got' - from \in m_iLenPkgHeader..(len - 1)
    <3>1. got + ret < from + len /\ got - from \in m_iLenPkgHeader..(len - 1)
      BY <1>1, <1>2
    <3>2. ret \in Nat
      OBVIOUS
    <3> QED
      BY <3>1, <3>2, <1>3
  <2>5. irecvlen' = len - (got' - from)
    BY <1>2, <1>3
  <2> QED
    BY <2>3, <2>4, <2>5
<1>7. \A k \in 0..((got' - from) - 1) : package'[k] = from + k
  BY <1>1, <1>3
<1>8. AtBody'
  BY <1>1, <1>4, <1>5, <1>6, <1>7 DEF AtBody, Valid, len
<1> QED
  BY <1>2, <1>4, <1>8 DEF Frame

\* What the client sends later does not disturb the receive state.
LEMMA FrameKeptBySend ==
    ASSUME Layout, FrameTyped, Frame, NEW len \in Lens, SendPackage(len)
    PROVE  Frame'
<1>1. /\ Len(sent') = Len(sent) + 1
      /\ \A k \in DOMAIN sent : k \in DOMAIN sent' /\ sent'[k] = sent[k]
      /\ \A k \in 1..(Len(sent) + 1) : StartOf(k)' = StartOf(k)
  BY SendLaysOut
<1>2. taken \in 0..Len(sent) /\ Len(sent) \in Nat
  BY DEF Frame, Layout
<1>3. /\ taken' = taken /\ got' = got /\ precvbuf' = precvbuf /\ irecvlen' = irecvlen
      /\ curStat' = curStat /\ dataHeadInfo' = dataHeadInfo /\ package' = package
  BY DEF SendPackage, frameVars
<1>4. StartOf(taken + 1)' = StartOf(taken + 1)
  BY <1>1, <1>2, <1>3
<1>5. AtHeader => AtHeader'
  BY <1>3, <1>4 DEF AtHeader
<1>6. AtBody => AtBody'
  BY <1>1, <1>3, <1>4 DEF AtBody, Valid
<1> QED
  BY <1>1, <1>2, <1>3, <1>5, <1>6 DEF Frame

\* Nor does a step that leaves it and the stream alone.
LEMMA FrameKept ==
    ASSUME Frame, UNCHANGED <<frameVars, clientVars, got, taken>>
    PROVE  Frame'
<1>1. /\ taken' = taken /\ got' = got /\ precvbuf' = precvbuf /\ irecvlen' = irecvlen
      /\ curStat' = curStat /\ dataHeadInfo' = dataHeadInfo /\ package' = package
      /\ sent' = sent /\ total' = total
  BY DEF frameVars, clientVars
<1>2. StartOf(taken + 1)' = StartOf(taken + 1)
  BY <1>1 DEF StartOf
<1>3. (AtHeader => AtHeader') /\ (AtBody => AtBody')
  BY <1>1, <1>2 DEF AtHeader, AtBody, Valid
<1> QED
  BY <1>1, <1>3 DEF Frame

-----------------------------------------------------------------------------
(* What a step is to the stream of packages.                               *)

AllWhole ==
    \A d \in DOMAIN delivered :
        \E i \in DOMAIN sent : Valid(sent[i].len) /\ delivered[d] = Package(i)

\* Package taken + 1 is dropped, or handed on whole; or the connection closes.
Quiet == UNCHANGED <<clientVars, delivered, taken, open>>
Dropped ==
    /\ open /\ taken + 1 \in DOMAIN sent /\ ~Valid(sent[taken + 1].len)
    /\ taken' = taken + 1
    /\ UNCHANGED <<clientVars, delivered, open>>
Served ==
    /\ open /\ taken + 1 \in DOMAIN sent /\ Valid(sent[taken + 1].len)
    /\ delivered' = Append(delivered, Package(taken + 1))
    /\ taken' = taken + 1
    /\ UNCHANGED <<clientVars, open>>
Closed == open /\ open' = FALSE /\ UNCHANGED <<clientVars, delivered, taken>>
Offered == \E len \in Lens : SendPackage(len)

\* Every one of these steps keeps all delivered packages whole.
LEMMA WholeKept ==
    ASSUME Layout, AllWhole, delivered \in Seq(Pkg),
           Quiet \/ Dropped \/ Served \/ Closed \/ Offered
    PROVE  AllWhole'
<1>1. CASE Offered
  <2>1. PICK len \in Lens : SendPackage(len)
    BY <1>1 DEF Offered
  <2>2. \A k \in DOMAIN sent : k \in DOMAIN sent' /\ sent'[k] = sent[k]
    BY <2>1, SendLaysOut
  <2>3. delivered' = delivered
    BY <2>1 DEF SendPackage
  <2>4. \A k \in DOMAIN sent : Package(k)' = Package(k) /\ Valid(sent[k].len)' = Valid(sent[k].len)
    BY <2>2 DEF Package, Valid
  <2> QED
    BY <2>2, <2>3, <2>4 DEF AllWhole
<1>2. CASE Quiet \/ Dropped \/ Closed
  <2>1. sent' = sent /\ delivered' = delivered
    BY <1>2 DEF Quiet, Dropped, Closed, clientVars
  <2> QED
    BY <2>1 DEF AllWhole, Package, Valid
<1>3. CASE Served
  <2>1. /\ sent' = sent /\ delivered' = Append(delivered, Package(taken + 1))
        /\ taken + 1 \in DOMAIN sent /\ Valid(sent[taken + 1].len)
    BY <1>3 DEF Served, clientVars
  <2>2. PICK p : p = Package(taken + 1)
    OBVIOUS
  <2>3. p \in Pkg
    <3>1. sent[taken + 1].start \in Nat /\ sent[taken + 1].len \in Nat
      BY <2>1, SentTyped
    <3>2. p \in [0..(sent[taken + 1].len - 1) -> Int]
      BY <2>2, <3>1 DEF Package
    <3> QED
      BY <3>1, <3>2, IsPkg
  <2>4. /\ DOMAIN delivered' = 1..(Len(delivered) + 1) /\ DOMAIN delivered = 1..Len(delivered)
        /\ \A d \in 1..Len(delivered) : delivered'[d] = delivered[d]
        /\ delivered'[Len(delivered) + 1] = p
        /\ Len(delivered) \in Nat
    BY <2>1, <2>2, <2>3
  <2>5. ASSUME NEW d \in DOMAIN delivered'
        PROVE  \E i \in DOMAIN sent : Valid(sent[i].len) /\ delivered'[d] = Package(i)
    <3>1. CASE d \in 1..Len(delivered)
      BY <3>1, <2>4 DEF AllWhole
    <3>2. CASE d = Len(delivered) + 1
      BY <3>2, <2>1, <2>2, <2>4
    <3> QED
      BY <2>4, <3>1, <3>2
  <2>6. \A i : Package(i)' = Package(i) /\ Valid(sent[i].len)' = Valid(sent[i].len)
    BY <2>1 DEF Package, Valid
  <2> QED
    BY <2>1, <2>5, <2>6 DEF AllWhole
<1> QED
  BY <1>1, <1>2, <1>3

\* A package added to those delivered.
LEMMA DeliveredGrows ==
    ASSUME FrameTyped, NEW p \in Pkg, delivered' = Append(delivered, p)
    PROVE  delivered' \in Seq(Pkg) /\ Len(delivered') = Len(delivered) + 1
                                   /\ Len(delivered) \in Nat
<1>1. delivered \in Seq(Pkg)
  BY DEF FrameTyped
<1> QED
  BY <1>1

\* Once the body of a package is read as headers, it stays like that.
LEMMA StaysOutOfStep ==
    ASSUME taken \in Nat, taken' \in Nat, taken <= taken',
           \A k \in DOMAIN sent : k \in DOMAIN sent' /\ sent'[k] = sent[k],
           ~OutOfStep'
    PROVE  ~OutOfStep
  BY DEF OutOfStep

\* That happens when a package is dropped that is too long.
LEMMA DroppedInStep ==
    ASSUME Layout, taken \in Nat, taken + 1 \in DOMAIN sent, sent' = sent, taken' = taken + 1,
           ~OutOfStep', ~Valid(sent[taken + 1].len)
    PROVE  sent[taken + 1].len <= m_iLenPkgHeader
<1>1. sent[taken + 1].len \in Nat
  BY SentTyped
<1>2. ~(sent[taken + 1].len > MaxPkgLen)
  BY DEF OutOfStep
<1> QED
  BY <1>1, <1>2, FramingAssumption DEF Valid

\* What is rejected is what has no legal length.
LEMMA RejectsInvalid ==
    ASSUME NEW len \in Nat
    PROVE  RejectHeader(len) <=> ~Valid(len)
  BY FramingAssumption DEF RejectHeader, Valid
=============================================================================
