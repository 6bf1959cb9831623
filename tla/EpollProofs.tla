---------------------------- MODULE EpollProofs -----------------------------
(***************************************************************************)
(* Receiving, handling and sending in both modes of epoll.                 *)
(*                                                                         *)
(* Level-triggered (LTSpec): packages are whole and in order, the flood    *)
(* test counts packages, and a task sends its own answer.                  *)
(*                                                                         *)
(* Edge-triggered (ETSpec): one task at a time is between the lock and the *)
(* unlock of the connection's mutex; and as long as no task starts to read *)
(* before another one's reset, packages are whole and the flood test       *)
(* counts packages.                                                        *)
(***************************************************************************)
EXTENDS HandleLT, RecvET, FramingProofs, SequenceTheorems, FiniteSetTheorems

-----------------------------------------------------------------------------
(* Level-triggered.                                                        *)

LTTyped ==
    /\ Layout /\ FrameTyped /\ FloodTyped
    /\ drifted \in BOOLEAN /\ open \in BOOLEAN /\ kicked \in BOOLEAN

\* The receive state fits the stream until irecvlen drifts or a package that is
\* too long is dropped.
Whole == ~drifted /\ ~OutOfStep => AllWhole /\ (open => Frame)

\* Until irecvlen drifts it is what the buffer lacks that precvbuf points into.
Asks ==
    ~drifted /\ open =>
        IF curStat \in {"HD_INIT", "HD_RECVING"}
        THEN /\ precvbuf.buf = "dataHeadInfo"
             /\ precvbuf.off + irecvlen = m_iLenPkgHeader
             /\ curStat = "HD_INIT" => irecvlen = m_iLenPkgHeader
        ELSE /\ precvbuf.buf = "package"
             /\ \E n \in Nat : /\ n >= 1 /\ DOMAIN package = 0..(n - 1)
                               /\ precvbuf.off + irecvlen = n

\* A package is tested once, before it is delivered: the count is behind the
\* packages delivered, but for the one whose body is being received.
FloodCounts ==
    /\ open => IF curStat = "BD_RECVING" THEN FloodAttackCount <= Len(delivered)
               ELSE \/ FloodAttackCount < Len(delivered)
                    \/ FloodkickLastTime = 0 /\ FloodAttackCount = 0
    /\ KickedAfterCount

FrameInv == LTTyped /\ Whole /\ Asks /\ FloodCounts

-----------------------------------------------------------------------------
(* Types.                                                                  *)

LEMMA InitFrameInv ==
    ASSUME LTInit
    PROVE  FrameInv
<1> USE DEF LTInit, Init
<1>1. Layout
  BY DEF Layout, StartOf
<1>2. FrameTyped
  <2>1. dataHeadInfo \in [HeaderBytes -> Int]
    BY DEF HeaderBytes, NoByte
  <2>2. precvbuf \in [buf : {"dataHeadInfo", "package"}, off : Nat]
    BY DEF HeadStart
  <2> QED
    BY <2>1, <2>2, EmptyIsPkg, FramingAssumption DEF FrameTyped, Stats
<1>3. Frame
  <2>1. StartOf(taken + 1) = 0 /\ taken \in 0..Len(sent)
    BY DEF StartOf
  <2>2. precvbuf = [buf |-> "dataHeadInfo", off |-> 0]
    BY DEF HeadStart
  <2>3. AtHeader
    BY <2>1, <2>2, FramingAssumption DEF AtHeader
  <2> QED
    BY <2>1, <2>3 DEF Frame
<1>4. AllWhole
  BY DEF AllWhole
<1>5. FloodTyped
  BY DEF FloodTyped
<1>6. FloodCounts
  BY DEF FloodCounts, KickedAfterCount
<1>7. Asks
  BY FramingAssumption DEF Asks, HeadStart
<1> QED
  BY <1>1, <1>2, <1>3, <1>4, <1>5, <1>6, <1>7 DEF FrameInv, LTTyped, Whole

-----------------------------------------------------------------------------
(* What is asked for.                                                      *)

\* A header is asked for, a body is, or the rest of either.
LEMMA AsksHeader ==
    ASSUME AwaitHeader
    PROVE  Asks'
  BY FramingAssumption DEF AwaitHeader, HeadStart, Asks

LEMMA AsksBody ==
    ASSUME NEW e \in Nat, ~RejectHeader(e), AwaitBody(e), DOMAIN package' = 0..(e - 1)
    PROVE  Asks'
<1>1. /\ curStat' = "BD_INIT" /\ irecvlen' = e - m_iLenPkgHeader
      /\ precvbuf'.buf = "package" /\ precvbuf'.off = m_iLenPkgHeader
  BY DEF AwaitBody
<1>2. e >= 1 /\ m_iLenPkgHeader + (e - m_iLenPkgHeader) = e
  BY FramingAssumption DEF RejectHeader
<1> QED
  BY <1>1, <1>2 DEF Asks

LEMMA AsksRest ==
    ASSUME FrameTyped, Asks, ~drifted' => ~drifted, open,
           NEW ret \in 1..irecvlen, ~drifted' => irecvlen' = irecvlen - ret,
           precvbuf' = [precvbuf EXCEPT !.off = @ + ret],
           \/ curStat \in {"HD_INIT", "HD_RECVING"} /\ curStat' = "HD_RECVING"
           \/ /\ curStat \in {"BD_INIT", "BD_RECVING"} /\ curStat' = "BD_RECVING"
              /\ DOMAIN package' = DOMAIN package
    PROVE  Asks'
<1> SUFFICES ASSUME ~drifted'
             PROVE  Asks'
  BY DEF Asks
<1>1. /\ irecvlen \in Nat /\ precvbuf.off \in Nat
      /\ precvbuf'.buf = precvbuf.buf /\ precvbuf'.off = precvbuf.off + ret
  BY DEF FrameTyped
<1>2. precvbuf'.off + irecvlen' = precvbuf.off + irecvlen
  BY <1>1
<1> QED
  BY <1>1, <1>2 DEF Asks

-----------------------------------------------------------------------------
(* A read of a header.                                                     *)

\* What is to be shown of a read.
Fits == ~drifted' /\ ~OutOfStep => /\ Quiet \/ Dropped \/ Served \/ Closed
                                   /\ ~OutOfStep' /\ open' => Frame'

\* The test counts the package for which it is made.
LEMMA LTTestCounts ==
    ASSUME FrameInv, open, curStat # "BD_RECVING", NEW quick \in BOOLEAN, TestFlood(quick)
    PROVE  /\ FloodTyped'
           /\ FloodAttackCount' <= Len(delivered)
           /\ Flooded(quick) => Len(delivered) >= m_floodKickCount
<1>1. /\ FloodAttackCount \in Nat
      /\ \/ FloodAttackCount < Len(delivered)
         \/ FloodkickLastTime = 0 /\ FloodAttackCount = 0
      /\ Len(delivered) \in Nat
  BY DEF FrameInv, FloodCounts, LTTyped, FloodTyped, FrameTyped
<1>2. quick => FloodkickLastTime # 0
  BY DEF TestFlood
<1>3. Counted(quick) \in Nat /\ Counted(quick) <= Len(delivered)
  BY <1>1, <1>2 DEF Counted
<1> QED
  BY <1>3, FramingAssumption DEF TestFlood, Flooded, FloodTyped

\* The header is complete.
LEMMA LTCompleteHeader ==
    ASSUME FrameInv, NEW ret, curStat \in {"HD_INIT", "HD_RECVING"},
           ~drifted => irecvlen = ret,
           Received(ret), dataHeadInfo' = StoredHead(ret),
           ngx_wait_request_handler_proc_p1(dataHeadInfo'),
           UNCHANGED <<clientVars, drifted>>
    PROVE  LTTyped' /\ Fits /\ Asks' /\ FloodCounts'
<1>1. PICK e \in Declared(StoredHead(ret)) :
        \/ /\ RejectHeader(e)
           /\ AwaitHeader
           /\ taken' = taken + 1
           /\ UNCHANGED <<package, floodVars, delivered, open, kicked>>
        \/ /\ ~RejectHeader(e)
           /\ e = m_iLenPkgHeader
           /\ \E quick \in BOOLEAN :
                /\ TestFloodLT(quick)
                /\ \/ /\ Flooded(quick)
                      /\ Kick
                      /\ package' = NewPackage(e, StoredHead(ret))
                      /\ precvbuf' = [buf |-> "package", off |-> 0]
                      /\ UNCHANGED <<curStat, irecvlen, delivered, taken>>
                   \/ /\ ~Flooded(quick)
                      /\ ngx_wait_request_handler_proc_plast(NewPackage(e, StoredHead(ret)))
                      /\ UNCHANGED <<open, kicked>>
        \/ /\ ~RejectHeader(e)
           /\ e # m_iLenPkgHeader
           /\ AwaitBody(e)
           /\ package' = NewPackage(e, StoredHead(ret))
           /\ UNCHANGED <<floodVars, delivered, taken, open, kicked>>
  BY DEF ngx_wait_request_handler_proc_p1
<1>2. /\ ret \in 1..irecvlen /\ ret \in Nat /\ got + ret <= total
      /\ got' = got + ret /\ open
  BY DEF Received
<1>3. /\ Layout /\ FrameTyped /\ FloodTyped /\ drifted \in BOOLEAN /\ kicked \in BOOLEAN
      /\ KickedAfterCount
      /\ \/ FloodAttackCount < Len(delivered)
         \/ FloodkickLastTime = 0 /\ FloodAttackCount = 0
  BY <1>2 DEF FrameInv, LTTyped, FloodCounts
<1>4. e \in Nat /\ (RejectHeader(e) <=> ~Valid(e))
  BY <1>3, DeclaredNat, RejectsInvalid
<1>5. Layout' /\ sent' = sent /\ total' = total /\ drifted' = drifted
  BY <1>3, LayoutKept DEF clientVars
<1>6. got' \in Nat /\ dataHeadInfo' \in [HeaderBytes -> Int]
  BY <1>2, <1>3, StoredTyped DEF FrameTyped
<1>7. NewPackage(e, StoredHead(ret)) \in Pkg
  BY <1>2, <1>3, <1>4, StoredTyped, NewPackageTyped
<1>8. DOMAIN NewPackage(e, StoredHead(ret)) = 0..(e - 1)
  BY <1>2, <1>3, <1>4, StoredTyped, NewPackageTyped
<1>9. ASSUME ~drifted, ~OutOfStep
      PROVE  /\ StoredHead(ret) = HeaderOf(taken + 1)
             /\ taken + 1 \in DOMAIN sent
             /\ e = sent[taken + 1].len
             /\ got' = StartOf(taken + 1) + m_iLenPkgHeader
             /\ e <= m_iLenPkgHeader => got' = StartOf(taken + 2)
             /\ e = m_iLenPkgHeader => NewPackage(e, StoredHead(ret)) = Package(taken + 1)
  <2>1. Frame
    BY <1>2, <1>9 DEF FrameInv, Whole
  <2> QED
    BY <2>1, <1>2, <1>3, <1>9, HeaderKnown
<1>10. CASE /\ RejectHeader(e)
            /\ AwaitHeader
            /\ taken' = taken + 1
            /\ UNCHANGED <<package, floodVars, delivered, open, kicked>>
  <2>1. FrameTyped'
    BY <1>3, <1>6, <1>10, AwaitTyped DEF FrameTyped
  <2>2. LTTyped'
    BY <2>1, <1>2, <1>3, <1>5, <1>10 DEF LTTyped, FloodTyped, floodVars
  <2>3. Fits
    <3> SUFFICES ASSUME ~drifted, ~OutOfStep
                 PROVE  Dropped /\ (~OutOfStep' => Frame')
      BY <1>5 DEF Fits
    <3>1. Dropped
      BY <1>2, <1>4, <1>9, <1>10 DEF Dropped
    <3>2. ASSUME ~OutOfStep'
          PROVE  Frame'
      <4>1. e <= m_iLenPkgHeader
        BY <3>2, <1>3, <1>4, <1>5, <1>9, <1>10, DroppedInStep DEF FrameTyped
      <4> QED
        BY <4>1, <1>3, <1>6, <1>9, <1>10, NextHeader
    <3> QED
      BY <3>1, <3>2
  <2>4. FloodCounts'
    BY <1>3, <1>10 DEF FloodCounts, KickedAfterCount, floodVars, AwaitHeader
  <2> QED
    BY <2>2, <2>3, <2>4, <1>10, AsksHeader
<1>11. ASSUME ~RejectHeader(e), e = m_iLenPkgHeader, NEW quick \in BOOLEAN,
              TestFloodLT(quick), Flooded(quick), Kick,
              package' = NewPackage(e, StoredHead(ret)),
              precvbuf' = [buf |-> "package", off |-> 0],
              UNCHANGED <<curStat, irecvlen, delivered, taken>>
       PROVE  LTTyped' /\ Fits /\ Asks' /\ FloodCounts'
  <2>1. /\ FloodTyped'
        /\ Len(delivered) >= m_floodKickCount
    BY <1>2, <1>11, LTTestCounts DEF TestFloodLT
  <2>2. FrameTyped'
    BY <1>3, <1>6, <1>7, <1>11 DEF FrameTyped
  <2>3. open' = FALSE /\ kicked' = TRUE
    BY <1>11 DEF Kick
  <2>4. LTTyped'
    BY <2>1, <2>2, <2>3, <1>3, <1>5 DEF LTTyped
  <2>5. Fits
    BY <2>3, <1>2, <1>11 DEF Fits, Closed
  <2>6. FloodCounts'
    BY <2>1, <2>3, <1>11 DEF FloodCounts, KickedAfterCount
  <2>7. Asks'
    BY <2>3 DEF Asks
  <2> QED
    BY <2>4, <2>5, <2>6, <2>7
<1>12. ASSUME ~RejectHeader(e), e = m_iLenPkgHeader, NEW quick \in BOOLEAN,
              TestFloodLT(quick), ~Flooded(quick),
              ngx_wait_request_handler_proc_plast(NewPackage(e, StoredHead(ret))),
              UNCHANGED <<open, kicked>>
       PROVE  LTTyped' /\ Fits /\ Asks' /\ FloodCounts'
  <2>1. /\ FloodTyped'
        /\ FloodAttackCount' <= Len(delivered)
    BY <1>2, <1>12, LTTestCounts DEF TestFloodLT
  <2>2. /\ delivered' = Append(delivered, NewPackage(e, StoredHead(ret)))
        /\ taken' = taken + 1 /\ package' = NoPackage /\ AwaitHeader
    BY <1>12 DEF ngx_wait_request_handler_proc_plast
  <2>3. /\ delivered' \in Seq(Pkg) /\ Len(delivered') = Len(delivered) + 1
        /\ Len(delivered) \in Nat
    BY <2>2, <1>3, <1>7, DeliveredGrows
  <2>4. FrameTyped'
    BY <2>2, <2>3, <1>3, <1>6, AwaitTyped, EmptyIsPkg DEF FrameTyped
  <2>5. LTTyped'
    BY <2>1, <2>4, <1>2, <1>3, <1>5, <1>12 DEF LTTyped
  <2>6. Fits
    <3> SUFFICES ASSUME ~drifted, ~OutOfStep
                 PROVE  Served /\ Frame'
      BY <1>5 DEF Fits
    <3>1. Served
      BY <2>2, <1>2, <1>4, <1>9, <1>12 DEF Served
    <3>2. Frame'
      <4>1. e <= m_iLenPkgHeader
        BY <1>12, FramingAssumption
      <4> QED
        BY <4>1, <2>2, <1>3, <1>6, <1>9, NextHeader
    <3> QED
      BY <3>1, <3>2
  <2>7. FloodCounts'
    <3>1. FloodAttackCount' < Len(delivered')
      BY <2>1, <2>3 DEF FloodTyped
    <3>2. KickedAfterCount'
      BY <2>3, <1>3, <1>12, FramingAssumption DEF KickedAfterCount
    <3> QED
      BY <3>1, <3>2, <2>2 DEF FloodCounts, AwaitHeader
  <2> QED
    BY <2>2, <2>5, <2>6, <2>7, AsksHeader
<1>13. CASE /\ ~RejectHeader(e)
            /\ e # m_iLenPkgHeader
            /\ AwaitBody(e)
            /\ package' = NewPackage(e, StoredHead(ret))
            /\ UNCHANGED <<floodVars, delivered, taken, open, kicked>>
  <2>1. FrameTyped'
    BY <1>3, <1>4, <1>6, <1>7, <1>13, AwaitTyped DEF FrameTyped
  <2>2. LTTyped'
    BY <2>1, <1>2, <1>3, <1>5, <1>13 DEF LTTyped, FloodTyped, floodVars
  <2>3. Fits
    <3> SUFFICES ASSUME ~drifted, ~OutOfStep
                 PROVE  Quiet /\ Frame'
      BY <1>5 DEF Fits
    <3>1. Quiet
      BY <1>13 DEF Quiet
    <3>2. Frame'
      BY <1>3, <1>4, <1>9, <1>13, BodyAwaited
    <3> QED
      BY <3>1, <3>2
  <2>4. FloodCounts'
    BY <1>3, <1>13 DEF FloodCounts, KickedAfterCount, floodVars, AwaitBody
  <2>5. Asks'
    BY <1>4, <1>13, <1>8, AsksBody
  <2> QED
    BY <2>2, <2>3, <2>4, <2>5
<1> QED
  BY <1>1, <1>10, <1>11, <1>12, <1>13

\* It is not.
LEMMA LTPartOfHeader ==
    ASSUME FrameInv, NEW ret, curStat \in {"HD_INIT", "HD_RECVING"},
           ~drifted => irecvlen # ret,
           Received(ret), dataHeadInfo' = StoredHead(ret),
           AwaitRest(ret, "HD_RECVING"),
           UNCHANGED <<clientVars, drifted, package, floodVars, delivered, taken, open, kicked>>
    PROVE  LTTyped' /\ Fits /\ Asks' /\ FloodCounts'
<1>1. /\ ret \in 1..irecvlen /\ ret \in Nat /\ got + ret <= total
      /\ got' = got + ret /\ open
  BY DEF Received
<1>2. /\ Layout /\ FrameTyped /\ FloodTyped /\ drifted \in BOOLEAN /\ kicked \in BOOLEAN
      /\ KickedAfterCount
      /\ \/ FloodAttackCount < Len(delivered)
         \/ FloodkickLastTime = 0 /\ FloodAttackCount = 0
  BY <1>1 DEF FrameInv, LTTyped, FloodCounts
<1>3. Layout' /\ drifted' = drifted
  BY <1>2, LayoutKept
<1>4. got' \in Nat /\ dataHeadInfo' \in [HeaderBytes -> Int]
  BY <1>1, <1>2, StoredTyped DEF FrameTyped
<1>5. /\ curStat' = "HD_RECVING" /\ irecvlen' = irecvlen - ret
      /\ precvbuf' = [precvbuf EXCEPT !.off = @ + ret]
  BY DEF AwaitRest
<1>6. irecvlen' \in Nat /\ precvbuf' \in [buf : {"dataHeadInfo", "package"}, off : Nat]
  BY <1>1, <1>2, <1>5, AwaitTyped
<1>7. FrameTyped'
  BY <1>2, <1>4, <1>5, <1>6 DEF FrameTyped, Stats
<1>8. LTTyped'
  BY <1>1, <1>2, <1>3, <1>7 DEF LTTyped, FloodTyped, floodVars
<1>9. Fits
  <2> SUFFICES ASSUME ~drifted, ~OutOfStep
               PROVE  Quiet /\ Frame'
    BY <1>3 DEF Fits
  <2>1. Frame
    BY <1>1 DEF FrameInv, Whole
  <2> QED
    BY <2>1, <1>1, <1>2, RestOfHeader DEF Quiet
<1>10. FloodCounts'
  BY <1>2, <1>5 DEF FloodCounts, KickedAfterCount, floodVars
<1>11. Asks'
  BY <1>1, <1>2, <1>3, <1>5, AsksRest DEF FrameInv
<1> QED
  BY <1>8, <1>9, <1>10, <1>11

LEMMA HeaderStep ==
    ASSUME FrameInv, NEW ret, HdInit(ret) \/ HdRecving(ret)
    PROVE  LTTyped' /\ Fits /\ Asks' /\ FloodCounts'
<1>1. PICK complete : /\ complete = (IF curStat = "HD_INIT" THEN ret = m_iLenPkgHeader ELSE irecvlen = ret)
  OBVIOUS
<1>2. curStat \in {"HD_INIT", "HD_RECVING"} /\ ReadHeader(ret, complete)
  BY <1>1 DEF HdInit, HdRecving
<1>3. ~drifted => (complete <=> irecvlen = ret)
  <2>1. CASE curStat = "HD_INIT"
    <3>1. open /\ Asks
      BY <1>2 DEF FrameInv, ReadHeader, Received
    <3>2. ~drifted => irecvlen = m_iLenPkgHeader
      BY <2>1, <3>1 DEF Asks
    <3>3. complete = (ret = m_iLenPkgHeader)
      BY <1>1, <2>1, Zenon
    <3> QED
      BY <3>2, <3>3, Zenon
  <2>2. CASE curStat # "HD_INIT"
    BY <1>1, <2>2, Zenon
  <2> QED
    BY <2>1, <2>2, Zenon
<1>4. Received(ret) /\ dataHeadInfo' = StoredHead(ret) /\ UNCHANGED <<clientVars, drifted>>
  BY <1>2 DEF ReadHeader
<1>5. CASE complete /\ ngx_wait_request_handler_proc_p1(dataHeadInfo')
  BY <1>2, <1>3, <1>4, <1>5, LTCompleteHeader
<1>6. CASE /\ ~complete /\ AwaitRest(ret, "HD_RECVING")
           /\ UNCHANGED <<package, floodVars, delivered, taken, open, kicked>>
  BY <1>2, <1>3, <1>4, <1>6, LTPartOfHeader
<1> QED
  BY <1>2, <1>5, <1>6 DEF ReadHeader

-----------------------------------------------------------------------------
(* A read of a body.                                                       *)

\* The package is complete and handed on.
LEMMA LTCompleteBody ==
    ASSUME FrameInv, NEW ret, curStat \notin {"HD_INIT", "HD_RECVING"}, irecvlen = ret,
           Received(ret), ngx_wait_request_handler_proc_plast(StoredBody(ret)),
           FloodTyped', FloodAttackCount' <= Len(delivered),
           UNCHANGED <<dataHeadInfo, clientVars, drifted, open, kicked>>
    PROVE  LTTyped' /\ Fits /\ Asks' /\ FloodCounts'
<1>1. /\ ret \in 1..irecvlen /\ ret \in Nat /\ got' = got + ret /\ open
  BY DEF Received
<1>2. /\ Layout /\ FrameTyped /\ drifted \in BOOLEAN /\ kicked \in BOOLEAN
      /\ KickedAfterCount
  BY DEF FrameInv, LTTyped, FloodCounts
<1>3. Layout' /\ drifted' = drifted /\ got' \in Nat
  BY <1>1, <1>2, LayoutKept DEF FrameTyped
<1>4. StoredBody(ret) \in Pkg
  BY <1>1, <1>2, StoredTyped
<1>5. /\ delivered' = Append(delivered, StoredBody(ret))
      /\ taken' = taken + 1 /\ package' = NoPackage /\ AwaitHeader
  BY DEF ngx_wait_request_handler_proc_plast
<1>6. /\ delivered' \in Seq(Pkg) /\ Len(delivered') = Len(delivered) + 1
      /\ Len(delivered) \in Nat
  BY <1>2, <1>4, <1>5, DeliveredGrows
<1>7. FrameTyped'
  BY <1>2, <1>3, <1>5, <1>6, AwaitTyped, EmptyIsPkg DEF FrameTyped
<1>8. LTTyped'
  BY <1>1, <1>2, <1>3, <1>7 DEF LTTyped
<1>9. Fits
  <2> SUFFICES ASSUME ~drifted, ~OutOfStep
               PROVE  Served /\ Frame'
    BY <1>3 DEF Fits
  <2>1. /\ taken + 1 \in DOMAIN sent /\ Valid(sent[taken + 1].len)
        /\ StoredBody(ret) = Package(taken + 1) /\ got' = StartOf(taken + 2)
    BY <1>1, <1>2, BodyRead DEF FrameInv, Whole
  <2>2. Served
    BY <2>1, <1>1, <1>5 DEF Served
  <2>3. Frame'
    BY <2>1, <1>2, <1>3, <1>5, NextHeader
  <2> QED
    BY <2>2, <2>3
<1>10. FloodCounts'
  <2>1. FloodAttackCount' < Len(delivered')
    BY <1>6 DEF FloodTyped
  <2>2. KickedAfterCount'
    BY <1>2, <1>6, FramingAssumption DEF KickedAfterCount
  <2> QED
    BY <2>1, <2>2, <1>5 DEF FloodCounts, AwaitHeader
<1> QED
  BY <1>5, <1>8, <1>9, <1>10, AsksHeader

\* It is not: irecvlen becomes what is still to come, or the step drifts.
LEMMA LTPartOfBody ==
    ASSUME FrameInv, NEW ret, curStat \in {"BD_INIT", "BD_RECVING"}, irecvlen # ret,
           Received(ret), package' = StoredBody(ret), curStat' = "BD_RECVING",
           precvbuf' = [precvbuf EXCEPT !.off = @ + ret],
           irecvlen' \in {irecvlen - ret, ret},
           drifted' \in BOOLEAN,
           ~drifted' => ~drifted /\ irecvlen' = irecvlen - ret,
           FloodTyped', FloodAttackCount' <= Len(delivered),
           UNCHANGED <<dataHeadInfo, clientVars, delivered, taken, open, kicked>>
    PROVE  LTTyped' /\ Fits /\ Asks' /\ FloodCounts'
<1>1. /\ ret \in 1..irecvlen /\ ret \in Nat /\ got' = got + ret /\ open
  BY DEF Received
<1>2. /\ Layout /\ FrameTyped /\ drifted \in BOOLEAN /\ kicked \in BOOLEAN
      /\ KickedAfterCount
  BY DEF FrameInv, LTTyped, FloodCounts
<1>3. Layout' /\ got' \in Nat
  BY <1>1, <1>2, LayoutKept DEF FrameTyped
<1>4. StoredBody(ret) \in Pkg
  BY <1>1, <1>2, StoredTyped
<1>5. irecvlen' \in Nat /\ precvbuf' \in [buf : {"dataHeadInfo", "package"}, off : Nat]
  BY <1>1, <1>2, AwaitTyped
<1>6. FrameTyped'
  BY <1>2, <1>3, <1>4, <1>5 DEF FrameTyped, Stats
<1>7. LTTyped'
  BY <1>1, <1>2, <1>3, <1>6 DEF LTTyped
<1>8. Fits
  <2> SUFFICES ASSUME ~drifted', ~OutOfStep
               PROVE  Quiet /\ Frame'
    BY DEF Fits
  <2>1. Frame
    BY <1>1 DEF FrameInv, Whole
  <2>2. Frame'
    BY <2>1, <1>1, <1>2, RestOfBody
  <2> QED
    BY <2>2 DEF Quiet
<1>9. FloodCounts'
  BY <1>2 DEF FloodCounts, KickedAfterCount
<1>10. Asks'
  <2>1. DOMAIN package' = DOMAIN package
    BY <1>1, <1>2, StoredTyped
  <2> QED
    BY <2>1, <1>1, <1>2, AsksRest DEF FrameInv
<1> QED
  BY <1>7, <1>8, <1>9, <1>10

LEMMA BodyStep ==
    ASSUME FrameInv, NEW ret, BdInit(ret) \/ BdRecving(ret)
    PROVE  LTTyped' /\ Fits /\ Asks' /\ FloodCounts'
<1>1. CASE BdInit(ret)
  <2>1. /\ curStat = "BD_INIT" /\ Received(ret) /\ open
        /\ UNCHANGED <<dataHeadInfo, clientVars, drifted>>
    BY <1>1 DEF BdInit, Received
  <2>2. PICK quick \in BOOLEAN :
          /\ TestFloodLT(quick)
          /\ \/ /\ Flooded(quick)
                /\ Kick
                /\ package' = StoredBody(ret)
                /\ UNCHANGED <<curStat, irecvlen, precvbuf, delivered, taken>>
             \/ /\ ~Flooded(quick)
                /\ \/ irecvlen = ret /\ ngx_wait_request_handler_proc_plast(StoredBody(ret))
                   \/ /\ irecvlen # ret
                      /\ AwaitRest(ret, "BD_RECVING")
                      /\ package' = StoredBody(ret)
                      /\ UNCHANGED <<delivered, taken>>
                /\ UNCHANGED <<open, kicked>>
    BY <1>1 DEF BdInit
  <2>3. /\ FloodTyped'
        /\ FloodAttackCount' <= Len(delivered)
        /\ Flooded(quick) => Len(delivered) >= m_floodKickCount
    BY <2>1, <2>2, LTTestCounts DEF TestFloodLT
  <2>4. CASE /\ Flooded(quick)
             /\ Kick
             /\ package' = StoredBody(ret)
             /\ UNCHANGED <<curStat, irecvlen, precvbuf, delivered, taken>>
    <3>1. open' = FALSE /\ kicked' = TRUE
      BY <2>4 DEF Kick
    <3>2. Layout /\ FrameTyped /\ drifted \in BOOLEAN
      BY DEF FrameInv, LTTyped
    <3>3. got' \in Nat /\ package' \in Pkg
      BY <2>1, <2>4, <3>2, StoredTyped DEF Received, FrameTyped
    <3>4. FrameTyped'
      BY <2>1, <2>4, <3>2, <3>3 DEF FrameTyped
    <3>5. LTTyped'
      BY <2>1, <2>3, <3>1, <3>2, <3>4, LayoutKept DEF LTTyped
    <3>6. Fits
      BY <2>1, <2>4, <3>1 DEF Fits, Closed
    <3>7. FloodCounts'
      BY <2>3, <2>4, <3>1 DEF FloodCounts, KickedAfterCount
    <3>8. Asks'
      BY <3>1 DEF Asks
    <3> QED
      BY <3>5, <3>6, <3>7, <3>8
  <2>5. CASE /\ irecvlen = ret /\ ngx_wait_request_handler_proc_plast(StoredBody(ret))
             /\ UNCHANGED <<open, kicked>>
    BY <2>1, <2>3, <2>5, LTCompleteBody
  <2>6. CASE /\ irecvlen # ret
             /\ AwaitRest(ret, "BD_RECVING")
             /\ package' = StoredBody(ret)
             /\ UNCHANGED <<delivered, taken, open, kicked>>
    <3>1. drifted' \in BOOLEAN /\ drifted' = drifted
      BY <2>1 DEF FrameInv, LTTyped
    <3>2. /\ curStat' = "BD_RECVING" /\ irecvlen' = irecvlen - ret
          /\ precvbuf' = [precvbuf EXCEPT !.off = @ + ret]
      BY <2>6 DEF AwaitRest
    <3> QED
      BY <2>1, <2>3, <2>6, <3>1, <3>2, LTPartOfBody
  <2> QED
    BY <2>2, <2>4, <2>5, <2>6
<1>2. CASE BdRecving(ret)
  <2>1. /\ curStat = "BD_RECVING" /\ Received(ret) /\ open
        /\ UNCHANGED <<dataHeadInfo, floodVars, clientVars, open, kicked>>
    BY <1>2 DEF BdRecving, Received
  <2>2. FloodTyped' /\ FloodAttackCount' <= Len(delivered)
    BY <2>1 DEF FrameInv, LTTyped, FloodTyped, FloodCounts, floodVars
  <2>3. CASE /\ irecvlen = ret /\ ngx_wait_request_handler_proc_plast(StoredBody(ret))
             /\ UNCHANGED drifted
    BY <2>1, <2>2, <2>3, LTCompleteBody
  <2>4. CASE /\ irecvlen # ret
             /\ AwaitRestOfBody(ret)
             /\ package' = StoredBody(ret)
             /\ UNCHANGED <<delivered, taken>>
    <3>1. /\ curStat' = "BD_RECVING" /\ irecvlen' = ret
          /\ precvbuf' = [precvbuf EXCEPT !.off = @ + ret]
      BY <2>1, <2>4 DEF AwaitRestOfBody
    <3>2. drifted' \in BOOLEAN /\ (~drifted' => ~drifted /\ irecvlen' = irecvlen - ret)
      BY <2>4, <3>1 DEF AwaitRestOfBody
    <3> QED
      BY <2>1, <2>2, <2>4, <3>1, <3>2, LTPartOfBody
  <2> QED
    BY <1>2, <2>3, <2>4 DEF BdRecving
<1> QED
  BY <1>1, <1>2

-----------------------------------------------------------------------------
(* Every step.                                                             *)

Outcome == Quiet \/ Dropped \/ Served \/ Closed \/ Offered

\* What is to be shown of a step.
Steps == /\ ~drifted' => ~drifted
         /\ ~drifted' /\ ~OutOfStep => Outcome

LEMMA ReadStepInv ==
    ASSUME FrameInv, NEW ret, ngx_read_request_handler(ret)
    PROVE  FrameInv' /\ Steps
<1>1. LTTyped' /\ Fits /\ Asks' /\ FloodCounts'
  BY HeaderStep, BodyStep DEF ngx_read_request_handler
<1>2. ~drifted' => ~drifted
  BY DEF ngx_read_request_handler, HdInit, HdRecving, ReadHeader, BdInit, BdRecving,
         AwaitRestOfBody
<1>3. ~OutOfStep' => ~OutOfStep
  <2>1. sent' = sent /\ taken' \in {taken, taken + 1}
    BY DEF ngx_read_request_handler, HdInit, HdRecving, ReadHeader, BdInit, BdRecving, clientVars,
           ngx_wait_request_handler_proc_p1, ngx_wait_request_handler_proc_plast
  <2>2. taken \in Nat
    BY DEF FrameInv, LTTyped, FrameTyped
  <2> QED
    BY <2>1, <2>2, StaysOutOfStep
<1>4. ~drifted' /\ ~OutOfStep => AllWhole'
  BY <1>1, <1>2, WholeKept DEF FrameInv, LTTyped, FrameTyped, Whole, Fits
<1> QED
  BY <1>1, <1>2, <1>4, <1>3 DEF FrameInv, Whole, Fits, Outcome, Steps

LEMMA FrameInvKept ==
    ASSUME FrameInv, UNCHANGED vars
    PROVE  FrameInv' /\ Steps
<1>1. UNCHANGED <<frameVars, clientVars, got, taken>> /\ UNCHANGED clientVars
  BY DEF vars
<1>2. /\ open' = open /\ kicked' = kicked /\ drifted' = drifted /\ delivered' = delivered
      /\ taken' = taken /\ got' = got /\ curStat' = curStat /\ irecvlen' = irecvlen
      /\ precvbuf' = precvbuf /\ dataHeadInfo' = dataHeadInfo /\ package' = package
      /\ FloodAttackCount' = FloodAttackCount /\ FloodkickLastTime' = FloodkickLastTime
  BY DEF vars, frameVars, floodVars
<1>3. LTTyped'
  BY <1>1, <1>2, LayoutKept DEF FrameInv, LTTyped, FrameTyped, FloodTyped
<1>4. Quiet
  BY <1>1, <1>2 DEF Quiet
<1>5. AllWhole => AllWhole'
  BY <1>4, WholeKept DEF FrameInv, LTTyped, FrameTyped
<1>6. Whole'
  <2>1. OutOfStep' = OutOfStep
    BY <1>1, <1>2 DEF OutOfStep, clientVars
  <2> QED
    BY <2>1, <1>1, <1>2, <1>5, FrameKept DEF FrameInv, Whole
<1>7. FloodCounts' /\ Asks'
  BY <1>2 DEF FrameInv, FloodCounts, KickedAfterCount, Asks
<1> QED
  BY <1>2, <1>3, <1>4, <1>6, <1>7 DEF FrameInv, Outcome, Steps

LEMMA FrameInvStep ==
    ASSUME FrameInv, [LTNext]_ltVars
    PROVE  FrameInv' /\ Steps
<1>1. CASE \E len \in Lens : SendPackage(len)
  <2>1. PICK len \in Lens : SendPackage(len)
    BY <1>1
  <2>2. /\ open' = open /\ kicked' = kicked /\ drifted' = drifted /\ delivered' = delivered
        /\ taken' = taken /\ got' = got /\ curStat' = curStat /\ irecvlen' = irecvlen
        /\ precvbuf' = precvbuf /\ dataHeadInfo' = dataHeadInfo /\ package' = package
        /\ FloodAttackCount' = FloodAttackCount /\ FloodkickLastTime' = FloodkickLastTime
    BY <2>1 DEF SendPackage, frameVars, floodVars
  <2>3. Offered
    BY <1>1 DEF Offered
  <2>4. LTTyped'
    BY <2>1, <2>2, SendLaysOut DEF FrameInv, LTTyped, FrameTyped, FloodTyped
  <2>5. AllWhole => AllWhole'
    BY <2>3, WholeKept DEF FrameInv, LTTyped, FrameTyped
  <2>6. Frame => Frame'
    BY <2>1, FrameKeptBySend DEF FrameInv, LTTyped
  <2>7. Whole'
    <3>1. ~OutOfStep' => ~OutOfStep
      BY <2>1, <2>2, SendLaysOut, StaysOutOfStep DEF FrameInv, LTTyped, FrameTyped
    <3> QED
      BY <3>1, <2>2, <2>5, <2>6 DEF FrameInv, Whole
  <2>8. FloodCounts' /\ Asks'
    BY <2>2 DEF FrameInv, FloodCounts, KickedAfterCount, Asks
  <2> QED
    BY <2>2, <2>3, <2>4, <2>7, <2>8 DEF FrameInv, Outcome, Steps
<1>2. CASE HangUp
  <2>1. open /\ open' = FALSE
        /\ UNCHANGED <<frameVars, floodVars, clientVars, drifted, got, delivered, taken, kicked>>
    BY <1>2 DEF HangUp
  <2>2. /\ kicked' = kicked /\ drifted' = drifted /\ delivered' = delivered
        /\ taken' = taken /\ got' = got /\ curStat' = curStat /\ irecvlen' = irecvlen
        /\ precvbuf' = precvbuf /\ dataHeadInfo' = dataHeadInfo /\ package' = package
        /\ FloodAttackCount' = FloodAttackCount /\ FloodkickLastTime' = FloodkickLastTime
    BY <2>1 DEF frameVars, floodVars
  <2>3. LTTyped'
    BY <2>1, <2>2, LayoutKept DEF FrameInv, LTTyped, FrameTyped, FloodTyped
  <2>4. Closed
    BY <2>1 DEF Closed
  <2>5. AllWhole => AllWhole'
    BY <2>4, WholeKept DEF FrameInv, LTTyped, FrameTyped
  <2>6. Whole' /\ FloodCounts' /\ Asks'
    <3>1. OutOfStep' = OutOfStep
      BY <2>1, <2>2 DEF OutOfStep, clientVars
    <3> QED
      BY <3>1, <2>1, <2>2, <2>5 DEF FrameInv, Whole, FloodCounts, KickedAfterCount, Asks
  <2> QED
    BY <2>2, <2>3, <2>4, <2>6 DEF FrameInv, Outcome, Steps
<1>3. CASE UNCHANGED vars
  BY <1>3, FrameInvKept
<1>4. ASSUME NEW ret, ngx_read_request_handler(ret)
      PROVE  FrameInv' /\ Steps
  BY <1>4, ReadStepInv
<1>5. \/ \E len \in Lens : SendPackage(len)
      \/ HangUp
      \/ UNCHANGED vars
      \/ \E ret : ngx_read_request_handler(ret)
  <2>1. CASE Client
    BY <2>1 DEF Client
  <2>2. CASE LTMain
    BY <2>2 DEF LTMain, MainRead, MainWaits, MainGoesOn, ReadStep, LTWrites
  <2>3. CASE MainEnd \/ Recycle \/ LTSendsRest
    BY <2>3 DEF MainEnd, Recycle, LTSendsRest
  <2>4. CASE \E d \in DOMAIN task : LTRun(d) \/ LTGetsOut(d)
    BY <2>4 DEF LTRun, LTRefuses, LTAccepts, LTLocks, LTSends, LTGoesRound, LTGetsOut
  <2>5. CASE UNCHANGED ltVars
    BY <2>5 DEF ltVars
  <2> QED
    BY <2>1, <2>2, <2>3, <2>4, <2>5 DEF LTNext
<1> QED
  BY <1>1, <1>2, <1>3, <1>4, <1>5

\* What the next recv asks for, from the receive state.
LEMMA AsksFromFrame ==
    ASSUME FrameInv
    PROVE  AsksForTheRestUntilDrift
<1> SUFFICES ASSUME ~drifted, open
             PROVE  precvbuf.off + irecvlen = BufferSize
  BY DEF AsksForTheRestUntilDrift, AsksForTheRest
<1>1. CASE curStat \in {"HD_INIT", "HD_RECVING"}
  BY <1>1 DEF FrameInv, Asks, BufferSize
<1>2. CASE curStat \notin {"HD_INIT", "HD_RECVING"}
  <2>1. precvbuf.buf = "package"
    BY <1>2 DEF FrameInv, Asks
  <2>2. PICK n \in Nat : /\ n >= 1 /\ DOMAIN package = 0..(n - 1)
                         /\ precvbuf.off + irecvlen = n
    BY <1>2 DEF FrameInv, Asks
  <2>3. package # NoPackage
    <3>1. 0 \in DOMAIN package
      BY <2>2
    <3>2. DOMAIN NoPackage = {}
      BY DEF NoPackage
    <3> QED
      BY <3>1, <3>2
  <2>4. (CHOOSE k \in DOMAIN package : k + 1 \notin DOMAIN package) = n - 1
    BY <2>2
  <2>5. BufferSize = 1 + (n - 1)
    BY <2>1, <2>3, <2>4 DEF BufferSize
  <2> QED
    BY <2>2, <2>5
<1> QED
  BY <1>1, <1>2

LEMMA FrameInvariant ==
    LTSpec => [](AsksForTheRestUntilDrift /\ PackagesWhole /\ KickedAfterCount)
<1>1. LTInit => FrameInv
  BY InitFrameInv
<1>2. FrameInv /\ [LTNext]_ltVars => FrameInv'
  BY FrameInvStep
<1>3. FrameInv => AsksForTheRestUntilDrift /\ PackagesWhole /\ KickedAfterCount
  BY AsksFromFrame DEF FrameInv, Whole, AllWhole, PackagesWhole, FloodCounts
<1> QED
  BY <1>1, <1>2, <1>3, PTL DEF LTSpec

\* However the client's bytes are cut into reads, every package handed on is one
\* of the client's, whole and in order, until the length asked for drifts or the
\* body of a package that is too long is read as headers.
THEOREM PackagesAreWhole == LTSpec => []PackagesWhole
  BY FrameInvariant, PTL

\* Until the length asked for drifts, the next recv asks for exactly the bytes
\* that its buffer lacks, whatever the earlier ones brought.
THEOREM ReadsAskForTheRest == LTSpec => []AsksForTheRestUntilDrift
  BY FrameInvariant, PTL

\* In step or not, a client is kicked only after m_floodKickCount of its packages.
THEOREM KicksAreCounted == LTSpec => []KickedAfterCount
  BY FrameInvariant, PTL

-----------------------------------------------------------------------------
(* The stream of packages.                                                 *)

\* The numbers of the packages delivered, and the lengths of all.
Numbers == [d \in DOMAIN delivered |-> CHOOSE i \in DOMAIN sent : delivered[d] = Package(i)]
Lengths == [i \in DOMAIN sent |-> sent[i].len]

\* A delivered package has one number.
LEMMA NumberOf ==
    ASSUME Layout, NEW p, NEW i \in DOMAIN sent, Valid(sent[i].len), p = Package(i)
    PROVE  (CHOOSE j \in DOMAIN sent : p = Package(j)) = i
<1>1. \A j \in DOMAIN sent : p = Package(j) => i = j
  BY PackagesDiffer
<1> QED
  BY <1>1

Distinct ==
    \A i, j \in DOMAIN sent : Valid(sent[i].len) /\ Package(i) = Package(j) => i = j

LEMMA PackagesDistinct == Layout => Distinct
  BY PackagesDiffer DEF Distinct

\* A function on 1..n is a sequence, and what Append makes of it.
LEMMA AppendToFunction ==
    ASSUME NEW n \in Nat, NEW S, NEW f \in [1..n -> S], NEW x \in S,
           NEW g, DOMAIN g = 1..(n + 1), g = [k \in DOMAIN g |-> g[k]],
           \A k \in 1..n : g[k] = f[k], g[n + 1] = x
    PROVE  f \in Seq(S) /\ Len(f) = n /\ g = Append(f, x)
<1>1. f \in Seq(S)
  BY DEF Seq
<1>2. Len(f) = n
  BY <1>1
<1>3. /\ Append(f, x) \in Seq(S) /\ Len(Append(f, x)) = n + 1
      /\ \A k \in 1..n : Append(f, x)[k] = f[k]
      /\ Append(f, x)[n + 1] = x
  BY <1>1, <1>2, AppendProperties
<1>4. g \in [1..(n + 1) -> S]
  <2>1. \A k \in 1..(n + 1) : k \in 1..n \/ k = n + 1
    OBVIOUS
  <2>2. \A k \in 1..(n + 1) : g[k] \in S
    BY <2>1
  <2> QED
    BY <2>2
<1>5. g \in Seq(S) /\ Len(g) = n + 1
  <2>1. g \in Seq(S)
    BY <1>4 DEF Seq
  <2> QED
    BY <2>1
<1>6. \A k \in 1..(n + 1) : g[k] = Append(f, x)[k]
  <2>1. \A k \in 1..(n + 1) : k \in 1..n \/ k = n + 1
    OBVIOUS
  <2> QED
    BY <2>1, <1>3
<1>7. g = Append(f, x)
  BY <1>3, <1>5, <1>6, SeqEqual
<1> QED
  BY <1>1, <1>2, <1>7

\* What the steps of the stream do to the numbers and the lengths.
LEMMA NumbersKept ==
    ASSUME Layout, AllWhole, delivered' = delivered,
           \A k \in DOMAIN sent : k \in DOMAIN sent' /\ sent'[k] = sent[k],
           Layout'
    PROVE  Numbers' = Numbers
<1>1. \A k \in DOMAIN sent : Package(k)' = Package(k) /\ Valid(sent[k].len)' = Valid(sent[k].len)
  BY DEF Package, Valid
<1>2. Distinct'
  BY PackagesDistinct, PTL
<1>3. ASSUME NEW d \in DOMAIN delivered
      PROVE  (CHOOSE j \in DOMAIN sent : delivered[d] = Package(j))
             = (CHOOSE j \in DOMAIN sent' : delivered[d] = Package(j)')
  <2>1. PICK i \in DOMAIN sent : Valid(sent[i].len) /\ delivered[d] = Package(i)
    BY DEF AllWhole
  <2>2. (CHOOSE j \in DOMAIN sent : delivered[d] = Package(j)) = i
    BY <2>1, NumberOf
  <2>3. i \in DOMAIN sent' /\ Valid(sent[i].len)' /\ delivered[d] = Package(i)'
    BY <2>1, <1>1
  <2>4. \A j \in DOMAIN sent' : delivered[d] = Package(j)' => i = j
    <3> SUFFICES ASSUME NEW j \in DOMAIN sent', delivered[d] = Package(j)'
                 PROVE  i = j
      OBVIOUS
    <3>1. Package(i)' = Package(j)'
      BY <2>3
    <3> QED
      BY <2>3, <3>1, <1>2 DEF Distinct
  <2>5. (CHOOSE j \in DOMAIN sent' : delivered[d] = Package(j)') = i
    BY <2>3, <2>4
  <2> QED
    BY <2>2, <2>5
<1>4. Numbers' = [d \in DOMAIN delivered |-> CHOOSE j \in DOMAIN sent' : delivered[d] = Package(j)']
  BY DEF Numbers
<1>5. Numbers = [d \in DOMAIN delivered |-> CHOOSE j \in DOMAIN sent : delivered[d] = Package(j)]
  BY DEF Numbers
<1> QED
  BY <1>3, <1>4, <1>5, Zenon

LEMMA StreamStep ==
    ASSUME Layout, Layout', AllWhole, FrameTyped, Outcome
    PROVE  Stream!Next \/ UNCHANGED Stream!vars
<1>1. CASE Offered
  <2>1. PICK len \in Lens : SendPackage(len)
    BY <1>1 DEF Offered
  <2>2. /\ Len(sent') = Len(sent) + 1
        /\ \A k \in DOMAIN sent : k \in DOMAIN sent' /\ sent'[k] = sent[k]
    BY <2>1, SendLaysOut
  <2>3. /\ open /\ delivered' = delivered /\ taken' = taken /\ open' = open
        /\ sent' = Append(sent, [start |-> total, len |-> len])
    BY <2>1 DEF SendPackage
  <2>4. Numbers' = Numbers
    BY <2>2, <2>3, NumbersKept
  <2>5. PICK n \in Nat : n = Len(sent) /\ DOMAIN sent = 1..n
    BY DEF Layout
  <2>6. Lengths \in [1..n -> Nat]
    <3>1. \A k \in DOMAIN sent : sent[k].len \in Nat
      BY SentTyped
    <3> QED
      BY <3>1, <2>5 DEF Lengths
  <2>7. sent' \in Seq(Entry) /\ DOMAIN sent' = 1..(n + 1) /\ sent'[n + 1].len = len
    <3>1. sent \in Seq(Entry) /\ [start |-> total, len |-> len] \in Entry
      BY FramingAssumption DEF Layout, Entry
    <3>2. /\ sent' \in Seq(Entry) /\ DOMAIN sent' = 1..(n + 1)
          /\ sent'[n + 1] = [start |-> total, len |-> len]
      BY <3>1, <2>3, <2>5
    <3> QED
      BY <3>2
  <2>8. /\ DOMAIN Lengths' = 1..(n + 1) /\ Lengths' = [k \in DOMAIN Lengths' |-> Lengths'[k]]
        /\ \A k \in 1..n : Lengths'[k] = Lengths[k]
        /\ Lengths'[n + 1] = len
    BY <2>2, <2>5, <2>7 DEF Lengths
  <2>9. Lengths' = Append(Lengths, len)
    BY <2>6, <2>8, AppendToFunction, FramingAssumption
  <2> QED
    BY <2>3, <2>4, <2>9 DEF Stream!Next, Stream!Offer, Numbers, Lengths
<1>2. CASE Quiet \/ Closed \/ Dropped
  <2>1. sent' = sent /\ delivered' = delivered
    BY <1>2 DEF Quiet, Closed, Dropped, clientVars
  <2>2. Numbers' = Numbers /\ Lengths' = Lengths
    BY <2>1 DEF Numbers, Lengths, Package
  <2>3. CASE Quiet
    BY <2>2, <2>3 DEF Quiet, Stream!vars, Numbers, Lengths
  <2>4. CASE Closed
    BY <2>2, <2>4 DEF Closed, Stream!Next, Stream!Close, Numbers, Lengths
  <2>5. CASE Dropped
    <3>1. /\ open /\ open' = open /\ taken' = taken + 1 /\ taken + 1 \in DOMAIN sent
          /\ ~Valid(sent[taken + 1].len)
      BY <2>5 DEF Dropped
    <3>2. taken < Len(Lengths)
      <4>1. PICK n \in Nat : n = Len(sent) /\ DOMAIN sent = 1..n
        BY DEF Layout
      <4>2. Lengths \in [1..n -> Nat]
        <5>1. \A k \in DOMAIN sent : sent[k].len \in Nat
          BY SentTyped
        <5> QED
          BY <5>1, <4>1 DEF Lengths
      <4>3. Lengths \in Seq(Nat)
        BY <4>2 DEF Seq
      <4>4. DOMAIN Lengths = 1..Len(Lengths) /\ DOMAIN Lengths = 1..n /\ Len(Lengths) \in Nat
        BY <4>2, <4>3
      <4> QED
        BY <4>1, <4>4, <3>1 DEF FrameTyped
    <3>3. Lengths[taken'] \notin {len \in Lens : Valid(len)}
      BY <3>1 DEF Lengths
    <3> QED
      BY <2>2, <3>1, <3>2, <3>3 DEF Stream!Next, Stream!Take, Numbers, Lengths
  <2> QED
    BY <1>2, <2>3, <2>4, <2>5
<1>3. CASE Served
  <2>1. /\ open /\ open' = open /\ taken' = taken + 1 /\ taken + 1 \in DOMAIN sent
        /\ Valid(sent[taken + 1].len) /\ sent' = sent
        /\ delivered' = Append(delivered, Package(taken + 1))
    BY <1>3 DEF Served, clientVars
  <2>2. Lengths' = Lengths
    BY <2>1 DEF Lengths
  <2>3. taken < Len(Lengths)
    <3>1. PICK n \in Nat : n = Len(sent) /\ DOMAIN sent = 1..n
      BY DEF Layout
    <3>2. Lengths \in [1..n -> Nat]
      <4>1. \A k \in DOMAIN sent : sent[k].len \in Nat
        BY SentTyped
      <4> QED
        BY <4>1, <3>1 DEF Lengths
    <3>3. Lengths \in Seq(Nat)
      BY <3>2 DEF Seq
    <3>4. DOMAIN Lengths = 1..Len(Lengths) /\ DOMAIN Lengths = 1..n /\ Len(Lengths) \in Nat
      BY <3>2, <3>3
    <3> QED
      BY <3>1, <3>4, <2>1 DEF FrameTyped
  <2>4. Lengths[taken'] \in {len \in Lens : Valid(len)}
    BY <2>1 DEF Lengths, Layout
  <2>5. PICK p : p = Package(taken + 1)
    OBVIOUS
  <2>6. p \in Pkg
    <3>1. sent[taken + 1].start \in Nat /\ sent[taken + 1].len \in Nat
      BY <2>1, SentTyped
    <3>2. p \in [0..(sent[taken + 1].len - 1) -> Int]
      BY <2>5, <3>1 DEF Package
    <3> QED
      BY <3>1, <3>2, IsPkg
  <2>7. PICK n \in Nat : n = Len(delivered) /\ DOMAIN delivered = 1..n
    BY DEF FrameTyped
  <2>8. /\ DOMAIN delivered' = 1..(n + 1)
        /\ \A d \in 1..n : delivered'[d] = delivered[d]
        /\ delivered'[n + 1] = p
    <3>1. delivered \in Seq(Pkg) /\ delivered' = Append(delivered, p)
      BY <2>1, <2>5 DEF FrameTyped
    <3> QED
      BY <3>1, <2>6, <2>7
  <2>9. Numbers' = [d \in 1..(n + 1) |-> CHOOSE i \in DOMAIN sent : delivered'[d] = Package(i)]
    <3>1. Numbers' = [d \in DOMAIN delivered' |->
                         CHOOSE i \in DOMAIN sent' : delivered'[d] = Package(i)']
      BY DEF Numbers
    <3>2. \A i : Package(i)' = Package(i)
      BY <2>1 DEF Package
    <3>3. ASSUME NEW d \in DOMAIN delivered'
          PROVE  (CHOOSE i \in DOMAIN sent' : delivered'[d] = Package(i)')
                 = (CHOOSE i \in DOMAIN sent : delivered'[d] = Package(i))
      BY <3>2, <2>1
    <3>4. Numbers' = [d \in DOMAIN delivered' |->
                         CHOOSE i \in DOMAIN sent : delivered'[d] = Package(i)]
      BY <3>1, <3>3
    <3>5. DOMAIN delivered' = 1..(n + 1)
      BY <2>8
    <3> QED
      BY <3>4, <3>5, Zenon
  <2>10. Numbers'[n + 1] = taken + 1
    <3>1. (CHOOSE i \in DOMAIN sent : p = Package(i)) = taken + 1
      BY <2>1, <2>5, NumberOf
    <3>2. Numbers'[n + 1] = CHOOSE i \in DOMAIN sent : p = Package(i)
      BY <2>8, <2>9
    <3> QED
      BY <3>1, <3>2
  <2>11. Numbers \in [1..n -> Nat]
    <3>1. ASSUME NEW d \in 1..n
          PROVE  (CHOOSE i \in DOMAIN sent : delivered[d] = Package(i)) \in Nat
      <4>1. PICK i \in DOMAIN sent : Valid(sent[i].len) /\ delivered[d] = Package(i)
        BY <2>7 DEF AllWhole
      <4> QED
        BY <4>1, NumberOf, SentTyped
    <3> QED
      BY <2>7, <3>1 DEF Numbers
  <2>12. \A d \in 1..n : Numbers'[d] = Numbers[d]
    BY <2>7, <2>8, <2>9 DEF Numbers
  <2>13. Numbers' = Append(Numbers, taken + 1)
    <3>1. DOMAIN Numbers' = 1..(n + 1) /\ Numbers' = [k \in DOMAIN Numbers' |-> Numbers'[k]]
      BY <2>9
    <3>2. taken + 1 \in Nat
      BY DEF FrameTyped
    <3> QED
      BY <3>1, <3>2, <2>10, <2>11, <2>12, AppendToFunction
  <2> QED
    BY <2>1, <2>2, <2>3, <2>4, <2>13 DEF Stream!Next, Stream!Take, Numbers, Lengths
<1> QED
  BY <1>1, <1>2, <1>3 DEF Outcome

\* Receiving implements PackageStream for as long as it is in step: every
\* step of the program takes the client's next package, delivers it if its
\* length is legal and drops it if it is not, or leaves the stream alone.
THEOREM StreamImplemented == LTSpec => StreamSpec
<1>1. LTInit => FrameInv
  BY InitFrameInv
<1>2. FrameInv /\ [LTNext]_ltVars => FrameInv'
  BY FrameInvStep
<1>3. LTInit => Stream!Init
  BY DEF LTInit, Init, Stream!Init
<1>4. FrameInv /\ [LTNext]_ltVars
      => [~drifted' /\ ~OutOfStep => Stream!Next \/ UNCHANGED Stream!vars]_vars
  <2> SUFFICES ASSUME FrameInv, [LTNext]_ltVars, ~drifted', ~OutOfStep, ~UNCHANGED vars
               PROVE  Stream!Next \/ UNCHANGED Stream!vars
    OBVIOUS
  <2>1. FrameInv' /\ Outcome
    BY FrameInvStep DEF Steps
  <2>2. Layout /\ Layout' /\ FrameTyped
    BY <2>1 DEF FrameInv, LTTyped
  <2>3. ~drifted
    BY FrameInvStep DEF Steps
  <2> QED
    BY <2>1, <2>2, <2>3, StreamStep DEF FrameInv, Whole
<1> QED
  BY <1>1, <1>2, <1>3, <1>4, PTL DEF LTSpec, StreamSpec

-----------------------------------------------------------------------------
(* Who sends.                                                              *)

LTPlaces == {"queued", "lock", "done"} \cup Sender

\* While a task sends, the mutex is locked for it, no other task sends, and
\* neither is the rest of an answer waited for nor being sent.
NoSender == \A d \in DOMAIN task : task[d] \notin Sender

SendInv ==
    /\ task \in Seq(LTPlaces) /\ remain \in Nat
    /\ ~doubled =>
         /\ \A d \in DOMAIN task : task[d] \in Sender => answer = d /\ logicPorcMutex
         /\ remain > 0 => remain = 1 /\ logicPorcMutex /\ NoSender
         /\ writeEdge /\ interest = "write" => remain = 0 /\ logicPorcMutex /\ NoSender

\* A task that moves leaves the others where they are.
LEMMA MovesOne ==
    ASSUME task \in Seq(LTPlaces), NEW d \in DOMAIN task, NEW from, NEW to \in LTPlaces,
           Moves(d, from, to)
    PROVE  /\ task' \in Seq(LTPlaces) /\ DOMAIN task' = DOMAIN task
           /\ task[d] = from /\ task'[d] = to
           /\ \A e \in DOMAIN task : e # d => task'[e] = task[e]
  BY DEF Moves

LEMMA InitSendInv ==
    ASSUME LTInit
    PROVE  SendInv
  BY DEF LTInit, SendingInit, SendInv, NoSender

LEMMA SendInvStep ==
    ASSUME SendInv, [LTNext]_ltVars
    PROVE  SendInv'
<1>1. ASSUME UNCHANGED <<logicPorcMutex, writeEdge, doubled, remain, answer>>,
             interest' = interest \/ interest' = "none",
             task' = task \/ task' = Append(task, "queued")
      PROVE  SendInv'
  <2>1. task' \in Seq(LTPlaces)
    BY <1>1 DEF SendInv, LTPlaces
  <2>2. ASSUME NEW d \in DOMAIN task', task'[d] \in Sender
        PROVE  d \in DOMAIN task /\ task[d] \in Sender
    <3>1. CASE task' = task
      BY <2>2, <3>1
    <3>2. CASE task' = Append(task, "queued")
      <4>1. task \in Seq(LTPlaces) /\ "queued" \notin Sender /\ "queued" \in LTPlaces
        BY DEF SendInv, Sender, LTPlaces
      <4>2. DOMAIN task' = 1..(Len(task) + 1) /\ DOMAIN task = 1..Len(task) /\ Len(task) \in Nat
            /\ task'[Len(task) + 1] = "queued" /\ \A k \in 1..Len(task) : task'[k] = task[k]
        BY <3>2, <4>1
      <4> QED
        BY <4>1, <4>2, <2>2
    <3> QED
      BY <1>1, <3>1, <3>2
  <2>3. NoSender => NoSender'
    BY <2>2 DEF NoSender
  <2>4. interest' = "write" => interest = "write"
    BY <1>1
  <2> QED
    BY <1>1, <2>1, <2>2, <2>3, <2>4 DEF SendInv
<1>2. ASSUME NEW ret, ReadStep(ret)
      PROVE  SendInv'
  BY <1>1, <1>2 DEF ReadStep
<1>3. CASE Client
  <2>1. CASE UNCHANGED <<sendingVars, handleVars>>
    BY <2>1, <1>1 DEF sendingVars, eventVars, handleVars
  <2>2. CASE WriteSpace /\ UNCHANGED handleVars
    BY <2>2 DEF WriteSpace, handleVars, SendInv
  <2> QED
    BY <1>3, <2>1, <2>2 DEF Client
<1>4. CASE LTMain
  <2>1. ASSUME NEW ret, MainWaits(ret)
        PROVE  SendInv'
    BY <2>1, <1>1 DEF MainWaits, sendingVars, eventVars
  <2>2. CASE LTWrites
    <3>1. /\ interest = "write" /\ writeEdge /\ remain' = remain + 1 /\ writeEdge' = FALSE
          /\ UNCHANGED <<logicPorcMutex, doubled, task, answer>>
      BY <2>2 DEF LTWrites
    <3> QED
      BY <3>1 DEF SendInv, NoSender
  <2> QED
    BY <1>2, <1>4, <2>1, <2>2 DEF LTMain, MainRead, MainGoesOn
<1>5. CASE MainEnd \/ Recycle
  BY <1>1, <1>5 DEF MainEnd, Recycle, handleVars, sendingVars, eventVars
<1>6. CASE LTSendsRest
  <2>1. remain > 0 /\ UNCHANGED <<task, answer, doubled>>
    BY <1>6 DEF LTSendsRest
  <2>2. CASE UNCHANGED <<logicPorcMutex, eventVars, remain>>
    BY <2>1, <2>2, <1>1 DEF eventVars
  <2>3. CASE /\ SendStale \/ SendRest
             /\ remain' = remain - 1
    <3>1. writeEdge' = writeEdge /\ (interest' = "write" => interest = "write")
      BY <2>3 DEF SendStale, SendRest, Watch, eventVars
    <3> QED
      BY <2>1, <2>3, <3>1 DEF SendInv, NoSender
  <2> QED
    BY <1>6, <2>2, <2>3 DEF LTSendsRest
\* A task leaves sendMsg.
<1>7. ASSUME NEW d \in DOMAIN task, task[d] \in Sender, Moves(d, task[d], "done"),
             SendStale \/ \E ping : SendAnswer(ping), UNCHANGED <<doubled, remain, answer>>
      PROVE  SendInv'
  <2>1. /\ task' \in Seq(LTPlaces) /\ DOMAIN task' = DOMAIN task
        /\ task'[d] = "done" /\ \A e \in DOMAIN task : e # d => task'[e] = task[e]
    BY <1>7, MovesOne DEF LTPlaces, SendInv
  <2>2. ~doubled => /\ logicPorcMutex /\ ~(remain > 0)
                    /\ ~(writeEdge /\ interest = "write")
                    /\ \A e \in DOMAIN task : task[e] \in Sender => e = d
    BY <1>7 DEF SendInv, NoSender
  <2>3. ~doubled => NoSender'
    BY <2>1, <2>2 DEF NoSender, Sender
  <2>4. \/ UNCHANGED eventVars
        \/ logicPorcMutex' = logicPorcMutex
    BY <1>7 DEF SendStale, SendAnswer
  <2> QED
    BY <1>7, <2>1, <2>2, <2>3, <2>4 DEF SendInv, NoSender, eventVars
<1>8. ASSUME NEW d \in DOMAIN task, LTRun(d)
      PROVE  SendInv'
  <2>1. task \in Seq(LTPlaces)
    BY DEF SendInv
  <2>2. CASE LTRefuses(d) \/ LTAccepts(d)
    <3>1. PICK to \in {"done", "lock"} : Moves(d, "queued", to)
      BY <2>2 DEF LTRefuses, LTAccepts
    <3>2. UNCHANGED <<logicPorcMutex, interest, writeEdge, doubled, remain, answer>>
      BY <2>2 DEF LTRefuses, LTAccepts, sendingVars, eventVars
    <3>3. /\ task' \in Seq(LTPlaces) /\ DOMAIN task' = DOMAIN task
          /\ task'[d] = to /\ \A e \in DOMAIN task : e # d => task'[e] = task[e]
      BY <3>1, <2>1, MovesOne DEF LTPlaces
    <3>4. to \notin Sender
      BY DEF Sender
    <3> QED
      BY <3>2, <3>3, <3>4 DEF SendInv, NoSender
  <2>3. CASE LTLocks(d)
    <3>1. PICK to \in Sender : Moves(d, "lock", to)
      BY <2>3 DEF LTLocks, Sender
    <3>2. /\ ~logicPorcMutex /\ logicPorcMutex' = TRUE /\ answer' = d
          /\ UNCHANGED <<interest, writeEdge, doubled, remain>>
      BY <2>3 DEF LTLocks, eventVars
    <3>3. /\ task' \in Seq(LTPlaces) /\ DOMAIN task' = DOMAIN task
          /\ task'[d] = to /\ \A e \in DOMAIN task : e # d => task'[e] = task[e]
      BY <3>1, <2>1, MovesOne DEF LTPlaces
    <3>4. ~doubled => NoSender /\ ~(remain > 0) /\ ~(writeEdge /\ interest = "write")
      BY <3>2 DEF SendInv, NoSender
    <3> QED
      BY <3>2, <3>3, <3>4 DEF SendInv, NoSender
  <2>4. CASE LTSends(d)
    BY <2>4, <1>7 DEF LTSends, Sender
  <2>5. CASE LTGoesRound(d)
    <3>1. /\ task[d] \in Sender /\ Moves(d, task[d], "round")
          /\ UNCHANGED <<logicPorcMutex, interest, writeEdge, doubled, remain, answer>>
      BY <2>5 DEF LTGoesRound, GoesRound, Sender, eventVars
    <3>2. /\ task' \in Seq(LTPlaces) /\ DOMAIN task' = DOMAIN task
          /\ task'[d] = "round" /\ \A e \in DOMAIN task : e # d => task'[e] = task[e]
      BY <3>1, <2>1, MovesOne DEF LTPlaces, Sender
    <3>3. \A e \in DOMAIN task : task'[e] \in Sender <=> task[e] \in Sender
      BY <3>1, <3>2 DEF Sender
    <3> QED
      BY <3>1, <3>2, <3>3 DEF SendInv, NoSender
  <2> QED
    BY <1>8, <2>2, <2>3, <2>4, <2>5 DEF LTRun
<1>9. ASSUME NEW d \in DOMAIN task, LTGetsOut(d)
      PROVE  SendInv'
  <2>1. task[d] = "round" /\ Moves(d, task[d], "done") /\ SendAnswer(FALSE)
        /\ UNCHANGED <<doubled, remain, answer>>
    BY <1>9 DEF LTGetsOut, Moves
  <2> QED
    BY <2>1, <1>7 DEF Sender
<1>10. CASE UNCHANGED ltVars
  BY <1>1, <1>10 DEF ltVars, sendingVars, eventVars, handleVars
<1> QED
  BY <1>3, <1>4, <1>5, <1>6, <1>8, <1>9, <1>10 DEF LTNext

\* The lock does what its comment asks of it: as long as epoll reports the
\* socket writable once for an answer, the task that sends is the one whose
\* answer was prepared last, and it holds the connection's mutex.
THEOREM AnswersAreOwn == LTSpec => []OwnAnswerSent
<1>1. LTInit => SendInv
  BY InitSendInv
<1>2. SendInv /\ [LTNext]_ltVars => SendInv'
  BY SendInvStep
<1>3. SendInv => OwnAnswerSent
  BY DEF SendInv, OwnAnswerSent
<1> QED
  BY <1>1, <1>2, <1>3, PTL DEF LTSpec

-----------------------------------------------------------------------------
(* Edge-triggered.                                                         *)

Holding == {"loop", "kick", "logic", "sendPing", "sendBusiness", "round", "remain"}
Places == {"idle", "lock", "reset"} \cup Holding

-----------------------------------------------------------------------------
(* The mutex.                                                              *)

\* At most one task is between lock and unlock, and the mutex is locked for
\* it; it is also locked, with no such task, from a partial send to the edge
\* that queues the task which sends the rest.
MutexInv ==
    /\ pc \in [Task -> Places]
    /\ ~doubled =>
         /\ \A t, u \in Task : pc[t] \in Holding /\ pc[u] \in Holding => t = u
         /\ \A t \in Task : pc[t] \in Holding => logicPorcMutex
         /\ writeEdge /\ interest = "write" =>
               logicPorcMutex /\ \A t \in Task : pc[t] \notin Holding

LEMMA InitMutexInv ==
    ASSUME ETInit
    PROVE  MutexInv
  BY DEF ETInit, SendingInit, MutexInv, Places, Holding

\* Where a task goes, the others do not.
LEMMA GotoOne ==
    ASSUME pc \in [Task -> Places], NEW t \in Task, NEW place \in Places, Goto(t, place)
    PROVE  /\ pc' \in [Task -> Places] /\ pc'[t] = place
           /\ \A u \in Task : u # t => pc'[u] = pc[u]
  BY DEF Goto

\* A step of a task that holds the mutex, if it keeps the mutex or gives it up.
LEMMA HolderMoves ==
    ASSUME MutexInv, NEW t \in Task, NEW place \in Places, pc[t] \in Holding,
           Goto(t, place), UNCHANGED doubled,
           place \in Holding => logicPorcMutex' = logicPorcMutex,
           writeEdge' /\ interest' = "write" =>
              \/ writeEdge /\ interest = "write"
              \/ place \notin Holding /\ logicPorcMutex' = logicPorcMutex
    PROVE  MutexInv'
<1>1. pc \in [Task -> Places]
  BY DEF MutexInv
<1>2. /\ pc' \in [Task -> Places] /\ pc'[t] = place
      /\ \A u \in Task : u # t => pc'[u] = pc[u]
  BY <1>1, GotoOne
<1>3. ~doubled => /\ logicPorcMutex /\ ~(writeEdge /\ interest = "write")
                  /\ \A u \in Task : u # t => pc[u] \notin Holding
  BY DEF MutexInv
<1>4. ~doubled => \A u \in Task : pc'[u] \in Holding => u = t /\ place \in Holding
  BY <1>2, <1>3
<1> QED
  BY <1>2, <1>3, <1>4 DEF MutexInv

\* A step of a task that does not hold it and does not take it.
LEMMA OtherMoves ==
    ASSUME MutexInv, NEW t \in Task, NEW place \in Places \ Holding, pc[t] \notin Holding,
           Goto(t, place), UNCHANGED <<doubled, logicPorcMutex, writeEdge, interest>>
    PROVE  MutexInv'
<1>1. pc \in [Task -> Places]
  BY DEF MutexInv
<1>2. /\ pc' \in [Task -> Places] /\ pc'[t] = place
      /\ \A u \in Task : u # t => pc'[u] = pc[u]
  BY <1>1, GotoOne
<1> QED
  BY <1>2 DEF MutexInv

\* RecvBytes goes on with its loop, to the logic layer, or to the kick.
LEMMA RecvBytesGoes ==
    ASSUME MutexInv, NEW t \in Task, RecvBytes(t)
    PROVE  \E place \in {"loop", "logic", "kick"} : Goto(t, place)
<1>1. pc[t] = "loop" /\ pc \in [Task -> Places]
  BY DEF RecvBytes, MutexInv
<1>2. \/ UNCHANGED pc
      \/ Goto(t, "logic")
      \/ Goto(t, "kick")
  BY DEF RecvBytes, ETReadHeader, ETReadBody, ngx_wait_request_handler_proc_p1_ET
<1>3. UNCHANGED pc => Goto(t, "loop")
  BY <1>1 DEF Goto
<1> QED
  BY <1>2, <1>3

LEMMA MutexInvStep ==
    ASSUME MutexInv, [ETNext]_etVars
    PROVE  MutexInv'
<1> USE DEF Places, Holding
<1>1. pc \in [Task -> Places]
  BY DEF MutexInv
<1>2. CASE UNCHANGED <<sendingVars, pc>>
  BY <1>2 DEF MutexInv, sendingVars, eventVars
<1>3. CASE Net
  <2>1. CASE WriteSpace /\ UNCHANGED pc
    BY <2>1 DEF WriteSpace, MutexInv
  <2> QED
    BY <1>2, <1>3, <2>1 DEF Net, ClientSends, Arrive, ClientCloses
<1>4. ASSUME NEW t \in Task, ngx_read_request_handler_ET(t)
      PROVE  MutexInv'
  BY <1>4, OtherMoves DEF ngx_read_request_handler_ET, sendingVars, eventVars
<1>5. ASSUME NEW t \in Task, ngx_write_request_handler(t)
      PROVE  MutexInv'
  <2>1. /\ interest = "write" /\ writeEdge /\ pc[t] = "idle" /\ Goto(t, "remain")
        /\ writeEdge' = FALSE /\ UNCHANGED <<logicPorcMutex, doubled>>
    BY <1>5 DEF ngx_write_request_handler
  <2>2. /\ pc' \in [Task -> Places] /\ pc'[t] = "remain"
        /\ \A u \in Task : u # t => pc'[u] = pc[u]
    BY <2>1, <1>1, GotoOne
  <2> QED
    BY <2>1, <2>2 DEF MutexInv
<1>6. ASSUME NEW t \in Task, Lock(t)
      PROVE  MutexInv'
  <2>1. /\ pc[t] = "lock" /\ Goto(t, "loop") /\ ~logicPorcMutex /\ logicPorcMutex' = TRUE
        /\ UNCHANGED <<writeEdge, interest, doubled>>
    BY <1>6 DEF Lock, eventVars
  <2>2. /\ pc' \in [Task -> Places] /\ pc'[t] = "loop"
        /\ \A u \in Task : u # t => pc'[u] = pc[u]
    BY <2>1, <1>1, GotoOne
  <2>3. ~doubled => /\ \A u \in Task : pc[u] \notin Holding
                    /\ ~(writeEdge /\ interest = "write")
    BY <2>1 DEF MutexInv
  <2> QED
    BY <2>1, <2>2, <2>3 DEF MutexInv
<1>7. ASSUME NEW t \in Task, RecvNothing(t) \/ RecvEnd(t) \/ RecvFails(t) \/ FloodKick(t)
      PROVE  MutexInv'
  <2>1. /\ pc[t] \in Holding /\ Goto(t, "idle") /\ UNCHANGED <<doubled, writeEdge>>
        /\ interest' = interest \/ interest' = "none"
    BY <1>7 DEF RecvNothing, RecvEnd, RecvFails, RecvReleases, FloodKick, eventVars
  <2> QED
    BY <2>1, HolderMoves
<1>8. ASSUME NEW t \in Task, RecvBytes(t)
      PROVE  MutexInv'
  <2>1. PICK place \in {"loop", "logic", "kick"} : Goto(t, place)
    BY <1>8, RecvBytesGoes
  <2>2. pc[t] = "loop" /\ UNCHANGED <<logicPorcMutex, writeEdge, interest, doubled>>
    BY <1>8 DEF RecvBytes, sendingVars, eventVars
  <2> QED
    BY <2>1, <2>2, HolderMoves
<1>9. ASSUME NEW t \in Task, LogicRefuses(t) \/ _HandlePing(t) \/ _HandleBusiness(t)
      PROVE  MutexInv'
  <2>1. PICK place \in {"reset", "sendPing", "sendBusiness"} : Goto(t, place)
    BY <1>9 DEF LogicRefuses, _HandlePing, _HandleBusiness
  <2>2. pc[t] = "logic" /\ UNCHANGED <<logicPorcMutex, writeEdge, interest, doubled>>
    BY <1>9 DEF LogicRefuses, _HandlePing, _HandleBusiness, eventVars
  <2> QED
    BY <2>1, <2>2, HolderMoves
<1>10. ASSUME NEW t \in Task, sendMsg(t) \/ sendMsgGetsOut(t)
       PROVE  MutexInv'
  <2>1. /\ pc[t] \in Holding /\ Goto(t, "reset") /\ UNCHANGED doubled
        /\ \E ping : SendAnswer(ping)
    BY <1>10 DEF sendMsg, sendMsgGetsOut
  <2>2. UNCHANGED eventVars \/ logicPorcMutex' = logicPorcMutex
    BY <2>1 DEF SendAnswer
  <2> QED
    BY <2>1, <2>2, HolderMoves DEF eventVars
<1>11. ASSUME NEW t \in Task, Reset(t)
       PROVE  MutexInv'
  BY <1>11, OtherMoves DEF Reset, sendingVars, eventVars
<1>12. ASSUME NEW t \in Task, sendRemainMsg(t)
       PROVE  MutexInv'
  <2>1. CASE UNCHANGED <<pc, logicPorcMutex, eventVars, doubled>>
    BY <2>1 DEF MutexInv, eventVars
  <2>2. CASE SendRest /\ Goto(t, "idle") /\ UNCHANGED doubled
    <3>1. writeEdge' = writeEdge /\ (interest' = "write" => interest = "write")
      BY <2>2 DEF SendRest, Watch
    <3> QED
      BY <2>2, <3>1, <1>12, HolderMoves DEF sendRemainMsg
  <2> QED
    BY <1>12, <2>1, <2>2 DEF sendRemainMsg
<1>13. ASSUME NEW t \in Task, sendMsgGoesRound(t)
       PROVE  MutexInv'
  <2>1. /\ pc[t] \in Holding /\ Goto(t, "round")
        /\ UNCHANGED <<logicPorcMutex, writeEdge, interest, doubled>>
    BY <1>13 DEF sendMsgGoesRound, GoesRound, eventVars
  <2> QED
    BY <2>1, HolderMoves
<1>14. CASE UNCHANGED etVars
  BY <1>2, <1>14 DEF etVars
<1> QED
  BY <1>3, <1>4, <1>5, <1>6, <1>7, <1>8, <1>9, <1>10, <1>11, <1>12, <1>13, <1>14
  DEF ETNext, Main, Run, GetsOut

\* Whatever tasks the edges queue, between the lock of recvproc_ET and the
\* unlock after the answer, made perhaps by another task, no two tasks read,
\* handle or send on the connection, unless a second edge comes for one answer.
THEOREM TasksExclusive == ETSpec => []OneAtATime
<1>1. ETInit => MutexInv
  BY InitMutexInv
<1>2. MutexInv /\ [ETNext]_etVars => MutexInv'
  BY MutexInvStep
<1>3. MutexInv => OneAtATime
  <2> SUFFICES ASSUME MutexInv, ~doubled
               PROVE  Cardinality(Critical) <= 1 /\ (Critical # {} => logicPorcMutex)
    BY DEF OneAtATime
  <2>1. \A t \in Critical : t \in Task /\ pc[t] \in Holding
    BY DEF Critical, Holding
  <2>2. Cardinality(Critical) <= 1
    <3>1. CASE Critical = {}
      BY <3>1, FS_EmptySet
    <3>2. CASE Critical # {}
      <4>1. PICK t \in Critical : TRUE
        BY <3>2
      <4>2. Critical = {t}
        BY <2>1, <4>1 DEF MutexInv
      <4> QED
        BY <4>2, FS_Singleton
    <3> QED
      BY <3>1, <3>2
  <2>3. Critical # {} => logicPorcMutex
    BY <2>1 DEF MutexInv
  <2> QED
    BY <2>2, <2>3
<1> QED
  BY <1>1, <1>2, <1>3, PTL DEF ETSpec

-----------------------------------------------------------------------------
(* The receive state, by where the task is that has it.                    *)

Typed ==
    /\ Layout /\ FrameTyped /\ FloodTyped
    /\ drifted \in BOOLEAN /\ open \in BOOLEAN /\ kicked \in BOOLEAN

Clean == ~overlapped /\ ~doubled

\* A task that uses the receive state: it reads, handles what it has read, or
\* is still to reset it.
Inside == {"loop", "kick", "logic", "sendPing", "sendBusiness", "round", "reset"}

\* Package taken + 1 is complete; the package before it is behind.
Ready ==
    /\ open /\ taken + 1 \in DOMAIN sent /\ Valid(sent[taken + 1].len)
    /\ package = Package(taken + 1)
    /\ got = StartOf(taken + 2)
Ended == taken \in 0..Len(sent) /\ got = StartOf(taken + 1)

FrameAt(place) ==
    IF place = "loop" THEN open => Frame
    ELSE IF place = "logic" THEN Ready
    ELSE IF place = "kick" THEN TRUE
    ELSE Ended

\* The count is behind the packages delivered, but for one that was tested and
\* is yet to be delivered.
Behind == FloodAttackCount < Len(delivered) \/ (FloodkickLastTime = 0 /\ FloodAttackCount = 0)

FloodAt(place) ==
    /\ KickedAfterCount
    /\ IF place = "loop"
       THEN open => IF curStat = "BD_RECVING" THEN FloodAttackCount <= Len(delivered)
                    ELSE Behind
       ELSE IF place = "logic" THEN FloodAttackCount <= Len(delivered)
       ELSE IF place = "kick" THEN Len(delivered) >= m_floodKickCount
       ELSE FloodAttackCount < Len(delivered)

\* The stream is read as it was sent.
InStep == ~drifted /\ ~OutOfStep

At(place) == FloodAt(place) /\ (InStep => AllWhole /\ FrameAt(place))

\* One task at most uses the receive state, which is what its place says, or is
\* as between two turns of the loop when there is none.
TurnInv ==
    Clean =>
      /\ \A t, u \in Task : pc[t] \in Inside /\ pc[u] \in Inside => t = u
      /\ \A t \in Task : \A place \in Inside : pc[t] = place => At(place)
      /\ (\A t \in Task : pc[t] \notin Inside) => At("loop")

ETInv == Typed /\ MutexInv /\ TurnInv

LEMMA InitETInv ==
    ASSUME ETInit
    PROVE  ETInv
<1> USE DEF ETInit, Init
<1>1. Layout
  BY DEF Layout, StartOf
<1>2. FrameTyped
  <2>1. dataHeadInfo \in [HeaderBytes -> Int]
    BY DEF HeaderBytes, NoByte
  <2>2. precvbuf \in [buf : {"dataHeadInfo", "package"}, off : Nat]
    BY DEF HeadStart
  <2> QED
    BY <2>1, <2>2, EmptyIsPkg, FramingAssumption DEF FrameTyped, Stats
<1>3. Frame
  <2>1. StartOf(taken + 1) = 0 /\ taken \in 0..Len(sent)
    BY DEF StartOf
  <2>2. precvbuf = [buf |-> "dataHeadInfo", off |-> 0]
    BY DEF HeadStart
  <2>3. AtHeader
    BY <2>1, <2>2, FramingAssumption DEF AtHeader
  <2> QED
    BY <2>1, <2>3 DEF Frame
<1>4. At("loop")
  BY <1>3 DEF At, FrameAt, FloodAt, Behind, KickedAfterCount, AllWhole
<1>5. TurnInv
  BY <1>4 DEF TurnInv, Inside
<1> QED
  BY <1>1, <1>2, <1>5, InitMutexInv DEF ETInv, Typed, FloodTyped

-----------------------------------------------------------------------------
(* Steps that do not read.                                                 *)

LEMMA VarsKept ==
    ASSUME Typed, UNCHANGED vars
    PROVE  Typed' /\ \A place : At(place) => At(place)'
<1>1. UNCHANGED <<frameVars, clientVars, got, taken>> /\ UNCHANGED clientVars
  BY DEF vars
<1>2. /\ open' = open /\ kicked' = kicked /\ drifted' = drifted /\ delivered' = delivered
      /\ taken' = taken /\ got' = got /\ curStat' = curStat /\ irecvlen' = irecvlen
      /\ precvbuf' = precvbuf /\ dataHeadInfo' = dataHeadInfo /\ package' = package
      /\ FloodAttackCount' = FloodAttackCount /\ FloodkickLastTime' = FloodkickLastTime
      /\ sent' = sent /\ total' = total
  BY DEF vars, frameVars, floodVars, clientVars
<1>3. Typed'
  BY <1>1, <1>2, LayoutKept DEF Typed, FrameTyped, FloodTyped
<1>4. AllWhole => AllWhole'
  BY <1>2 DEF AllWhole, Package, Valid
<1>5. (Frame => Frame') /\ (Ready => Ready') /\ (Ended => Ended')
  BY <1>1, <1>2, FrameKept DEF Ready, Ended, StartOf, Package, Valid
<1>6. InStep' => InStep
  BY <1>2 DEF InStep, OutOfStep
<1>7. ASSUME NEW place, At(place) PROVE At(place)'
  <2>1. FloodAt(place)'
    BY <1>2, <1>7 DEF At, FloodAt, Behind, KickedAfterCount
  <2>2. InStep => FrameAt(place)'
    BY <1>2, <1>5, <1>7 DEF At, FrameAt
  <2> QED
    BY <2>1, <2>2, <1>4, <1>7, <1>6 DEF At
<1> QED
  BY <1>3, <1>7

LEMMA VarsSend ==
    ASSUME Typed, NEW len \in Lens, SendPackage(len)
    PROVE  Typed' /\ \A place : At(place) => At(place)'
<1>1. /\ open' = open /\ kicked' = kicked /\ drifted' = drifted /\ delivered' = delivered
      /\ taken' = taken /\ got' = got /\ curStat' = curStat /\ irecvlen' = irecvlen
      /\ precvbuf' = precvbuf /\ dataHeadInfo' = dataHeadInfo /\ package' = package
      /\ FloodAttackCount' = FloodAttackCount /\ FloodkickLastTime' = FloodkickLastTime
  BY DEF SendPackage, frameVars, floodVars
<1>2. Typed'
  BY <1>1, SendLaysOut DEF Typed, FrameTyped, FloodTyped
<1>3. AllWhole => AllWhole'
  BY WholeKept DEF Typed, FrameTyped, Offered
<1>4. Frame => Frame'
  BY FrameKeptBySend DEF Typed
<1>5. /\ Len(sent') = Len(sent) + 1 /\ Len(sent) \in Nat /\ taken \in Nat
      /\ \A k \in DOMAIN sent : k \in DOMAIN sent' /\ sent'[k] = sent[k] /\ k \in 1..Len(sent)
      /\ \A k \in 1..(Len(sent) + 1) : StartOf(k)' = StartOf(k)
  BY SendLaysOut, SentTyped DEF Typed, Layout, FrameTyped
<1>6. Ready => Ready'
  <2> SUFFICES ASSUME Ready PROVE Ready'
    OBVIOUS
  <2>1. taken + 1 \in DOMAIN sent /\ taken + 2 \in 1..(Len(sent) + 1)
    BY <1>5 DEF Ready
  <2>2. StartOf(taken + 2)' = StartOf(taken + 2)
    BY <2>1, <1>1, <1>5
  <2>3. Package(taken + 1)' = Package(taken + 1) /\ Valid(sent[taken + 1].len)'
    BY <2>1, <1>1, <1>5 DEF Package, Ready, Valid
  <2> QED
    BY <2>1, <2>2, <2>3, <1>1, <1>5 DEF Ready
<1>7. Ended => Ended'
  <2> SUFFICES ASSUME Ended PROVE Ended'
    OBVIOUS
  <2>1. taken + 1 \in 1..(Len(sent) + 1)
    BY <1>5 DEF Ended
  <2>2. StartOf(taken + 1)' = StartOf(taken + 1)
    BY <2>1, <1>1, <1>5
  <2> QED
    BY <2>2, <1>1, <1>5 DEF Ended
<1>8. InStep' => InStep
  BY <1>1, <1>5, StaysOutOfStep DEF InStep
<1>9. ASSUME NEW place, At(place) PROVE At(place)'
  <2>1. FloodAt(place)'
    BY <1>1, <1>9 DEF At, FloodAt, Behind, KickedAfterCount
  <2>2. InStep => FrameAt(place)'
    BY <1>1, <1>4, <1>6, <1>7, <1>9 DEF At, FrameAt
  <2> QED
    BY <2>1, <2>2, <1>3, <1>9, <1>8 DEF At
<1> QED
  BY <1>2, <1>9

\* The task that uses the receive state goes on or leaves.
LEMMA InsiderMoves ==
    ASSUME TurnInv, pc \in [Task -> Places], NEW t \in Task, NEW place \in Places,
           pc[t] \in Inside, Goto(t, place), UNCHANGED <<overlapped, doubled>>,
           Clean => IF place \in Inside THEN At(place)' ELSE At("loop")'
    PROVE  TurnInv'
<1>1. /\ pc'[t] = place /\ \A u \in Task : u # t => pc'[u] = pc[u]
  BY GotoOne
<1>2. Clean' = Clean
  BY DEF Clean
<1>3. ASSUME Clean
      PROVE  \A u \in Task : pc'[u] \in Inside => u = t /\ place \in Inside
  BY <1>1, <1>3 DEF TurnInv
<1>4. CASE place \in Inside
  BY <1>1, <1>2, <1>3, <1>4 DEF TurnInv
<1>5. CASE place \notin Inside
  BY <1>1, <1>2, <1>3, <1>5 DEF TurnInv
<1> QED
  BY <1>4, <1>5

\* The other tasks do not concern it.
LEMMA OutsiderMoves ==
    ASSUME TurnInv, pc \in [Task -> Places],
           \/ UNCHANGED pc
           \/ \E t \in Task, place \in Places \ Inside : pc[t] \notin Inside /\ Goto(t, place),
           Clean' => Clean,
           \A place : At(place) => At(place)'
    PROVE  TurnInv'
<1>1. \A u \in Task : \A place \in Inside : pc'[u] = place <=> pc[u] = place
  <2>1. CASE UNCHANGED pc
    BY <2>1
  <2>2. ASSUME NEW t \in Task, NEW to \in Places \ Inside, pc[t] \notin Inside, Goto(t, to)
        PROVE  \A u \in Task : \A place \in Inside : pc'[u] = place <=> pc[u] = place
    BY <2>2, GotoOne
  <2> QED
    BY <2>1, <2>2
<1>2. \A u \in Task : pc'[u] \in Inside <=> pc[u] \in Inside
  BY <1>1
<1> QED
  BY <1>1, <1>2 DEF TurnInv

-----------------------------------------------------------------------------
(* A turn of the loop that reads.                                          *)

\* What every such turn leaves alone.
Turn(ret) ==
    /\ Received(ret) /\ dataHeadInfo' = StoredHead(ret)
    /\ UNCHANGED <<clientVars, delivered, open, kicked>>

LEMMA TurnTyped ==
    ASSUME Typed, NEW ret, Turn(ret), package' \in Pkg, curStat' \in Stats, irecvlen' \in Nat,
           precvbuf' \in [buf : {"dataHeadInfo", "package"}, off : Nat],
           taken' \in Nat, FloodTyped', drifted' \in BOOLEAN
    PROVE  Typed'
<1>1. Layout'
  BY LayoutKept DEF Typed, Turn
<1>2. ret \in Nat /\ got' = got + ret
  BY DEF Turn, Received
<1>3. dataHeadInfo' \in [HeaderBytes -> Int]
  BY <1>2, StoredTyped DEF Typed, Turn
<1>4. FrameTyped'
  BY <1>2, <1>3 DEF Typed, FrameTyped, Turn
<1> QED
  BY <1>1, <1>4 DEF Typed, Turn

\* The test counts the package for which it is made.
LEMMA TestCounts ==
    ASSUME Typed, NEW quick \in BOOLEAN, TestFlood(quick)
    PROVE  /\ FloodTyped'
           /\ Behind => /\ FloodAttackCount' <= Len(delivered)
                        /\ Flooded(quick) => Len(delivered) >= m_floodKickCount
<1>1. FloodAttackCount \in Nat /\ Len(delivered) \in Nat
  BY DEF Typed, FloodTyped, FrameTyped
<1>2. quick => FloodkickLastTime # 0
  BY DEF TestFlood
<1>3. Counted(quick) \in Nat /\ (Behind => Counted(quick) <= Len(delivered))
  BY <1>1, <1>2 DEF Counted, Behind
<1> QED
  BY <1>3, FramingAssumption DEF TestFlood, Flooded, FloodTyped

\* The packages delivered do not change while one is read.
LEMMA TurnWhole ==
    ASSUME Typed, NEW ret, Turn(ret)
    PROVE  /\ AllWhole => AllWhole'
           /\ KickedAfterCount => KickedAfterCount'
           /\ delivered' = delivered /\ open /\ open' = open
<1>1. sent' = sent /\ delivered' = delivered /\ kicked' = kicked /\ open /\ open' = open
  BY DEF Turn, clientVars, Received
<1> QED
  BY <1>1 DEF AllWhole, Package, Valid, KickedAfterCount

\* Reading does not get back into step.
LEMMA StaysInStep ==
    ASSUME Typed, sent' = sent, taken' \in {taken, taken + 1}, ~drifted' => ~drifted
    PROVE  InStep' => InStep
<1>1. taken \in Nat /\ taken' \in Nat /\ taken <= taken'
  BY DEF Typed, FrameTyped
<1> QED
  BY <1>1, StaysOutOfStep DEF InStep

\* A complete header, ngx_wait_request_handler_proc_p1_ET.
LEMMA CompleteHeader ==
    ASSUME Typed, pc \in [Task -> Places], NEW t \in Task, pc[t] = "loop",
           NEW ret, curStat \in {"HD_INIT", "HD_RECVING"},
           At("loop") /\ InStep => irecvlen = ret,
           Turn(ret), UNCHANGED drifted,
           ngx_wait_request_handler_proc_p1_ET(t, dataHeadInfo', StoredBody(ret))
    PROVE  Typed' /\ \E place \in {"loop", "logic", "kick"} :
                        Goto(t, place) /\ (At("loop") => At(place)')
<1>1. PICK e \in Declared(StoredHead(ret)) :
        \/ /\ RejectHeader(e)
           /\ AwaitHeader
           /\ taken' = taken + 1
           /\ package' = StoredBody(ret)
           /\ UNCHANGED <<floodVars, pc>>
        \/ /\ ~RejectHeader(e)
           /\ e = m_iLenPkgHeader
           /\ package' = NewPackage(e, StoredHead(ret))
           /\ precvbuf' = [buf |-> "package", off |-> 0]
           /\ \E quick \in BOOLEAN :
                 TestFlood(quick) /\ Goto(t, IF Flooded(quick) THEN "kick" ELSE "logic")
           /\ UNCHANGED <<curStat, irecvlen, taken>>
        \/ /\ ~RejectHeader(e)
           /\ e # m_iLenPkgHeader
           /\ AwaitBody(e)
           /\ package' = NewPackage(e, StoredHead(ret))
           /\ UNCHANGED <<floodVars, taken, pc>>
  BY DEF ngx_wait_request_handler_proc_p1_ET, Turn
<1>2. /\ ret \in 1..irecvlen /\ ret \in Nat /\ got + ret <= total
      /\ got' = got + ret /\ open
      /\ UNCHANGED clientVars /\ sent' = sent /\ total' = total
  BY DEF Turn, Received, clientVars
<1>3. Layout /\ FrameTyped /\ FloodTyped /\ drifted' \in BOOLEAN /\ drifted' = drifted
  BY DEF Typed
<1>4. e \in Nat /\ (RejectHeader(e) <=> ~Valid(e))
  BY <1>3, DeclaredNat, RejectsInvalid
<1>5. got' \in Nat /\ StoredBody(ret) \in Pkg /\ NewPackage(e, StoredHead(ret)) \in Pkg
  BY <1>2, <1>3, <1>4, StoredTyped, NewPackageTyped DEF FrameTyped
<1>6. ASSUME At("loop"), InStep
      PROVE  /\ StoredHead(ret) = HeaderOf(taken + 1)
             /\ taken + 1 \in DOMAIN sent
             /\ e = sent[taken + 1].len
             /\ got' = StartOf(taken + 1) + m_iLenPkgHeader
             /\ e <= m_iLenPkgHeader => got' = StartOf(taken + 2)
             /\ e = m_iLenPkgHeader => NewPackage(e, StoredHead(ret)) = Package(taken + 1)
  <2>1. Frame
    BY <1>2, <1>6 DEF At, FrameAt
  <2> QED
    BY <2>1, <1>2, <1>3, <1>6, HeaderKnown
<1>7. /\ AllWhole => AllWhole'
      /\ KickedAfterCount => KickedAfterCount'
      /\ delivered' = delivered /\ open /\ open' = open
  BY TurnWhole
<1>8. /\ At("loop") => Behind /\ KickedAfterCount /\ (InStep => AllWhole)
      /\ UNCHANGED floodVars => (Behind => Behind') /\ FloodTyped'
  BY <1>3, <1>7 DEF At, FloodAt, Behind, FloodTyped, floodVars
<1>9. UNCHANGED pc => Goto(t, "loop")
  BY DEF Goto
<1>10. CASE /\ RejectHeader(e)
            /\ AwaitHeader
            /\ taken' = taken + 1
            /\ package' = StoredBody(ret)
            /\ UNCHANGED <<floodVars, pc>>
  <2>1. taken' \in Nat
    BY <1>3, <1>10 DEF FrameTyped
  <2>2. Typed'
    BY <2>1, <1>3, <1>5, <1>8, <1>10, AwaitTyped, TurnTyped
  <2>3. InStep' => InStep
    BY <1>2, <1>3, <1>10, StaysInStep
  <2>4. ASSUME At("loop"), InStep'
        PROVE  Frame'
    <3>1. e <= m_iLenPkgHeader
      BY <2>4, <2>3, <1>2, <1>3, <1>4, <1>6, <1>10, DroppedInStep DEF FrameTyped, InStep
    <3> QED
      BY <2>4, <2>3, <3>1, <1>2, <1>3, <1>5, <1>6, <1>10, NextHeader
  <2>5. curStat' = "HD_INIT"
    BY <1>10 DEF AwaitHeader
  <2>6. At("loop") => At("loop")'
    BY <2>4, <2>5, <2>3, <1>7, <1>8, <1>10 DEF At, FloodAt, FrameAt
  <2> QED
    BY <2>2, <2>6, <1>9, <1>10
<1>11. ASSUME ~RejectHeader(e), e = m_iLenPkgHeader,
              package' = NewPackage(e, StoredHead(ret)),
              precvbuf' = [buf |-> "package", off |-> 0],
              NEW quick \in BOOLEAN, TestFlood(quick),
              Goto(t, IF Flooded(quick) THEN "kick" ELSE "logic"),
              UNCHANGED <<curStat, irecvlen, taken>>
       PROVE  Typed' /\ \E place \in {"loop", "logic", "kick"} :
                           Goto(t, place) /\ (At("loop") => At(place)')
  <2>1. /\ FloodTyped'
        /\ Behind => /\ FloodAttackCount' <= Len(delivered)
                     /\ Flooded(quick) => Len(delivered) >= m_floodKickCount
    BY <1>11, TestCounts
  <2>2. Typed'
    BY <2>1, <1>3, <1>5, <1>11, TurnTyped DEF FrameTyped
  <2>3. InStep' => InStep
    BY <1>2, <1>3, <1>11, StaysInStep
  <2>4. CASE Flooded(quick)
    <3>1. At("loop") => At("kick")'
      BY <2>1, <2>4, <2>3, <1>7, <1>8 DEF At, FloodAt, FrameAt
    <3> QED
      BY <2>2, <2>4, <3>1, <1>11
  <2>5. CASE ~Flooded(quick)
    <3>1. At("loop") /\ InStep => Ready'
      <4> SUFFICES ASSUME At("loop"), InStep
                   PROVE  Ready'
        OBVIOUS
      <4>1. /\ taken + 1 \in DOMAIN sent /\ Valid(sent[taken + 1].len)
            /\ package' = Package(taken + 1) /\ got' = StartOf(taken + 2)
        BY <1>4, <1>6, <1>11
      <4> QED
        BY <4>1, <1>2, <1>7, <1>11 DEF Ready, StartOf, Package, Valid
    <3>2. At("loop") => At("logic")'
      BY <2>1, <2>3, <3>1, <1>7, <1>8 DEF At, FloodAt, FrameAt
    <3> QED
      BY <2>2, <2>5, <3>2, <1>11
  <2> QED
    BY <2>4, <2>5
<1>12. CASE /\ ~RejectHeader(e)
            /\ e # m_iLenPkgHeader
            /\ AwaitBody(e)
            /\ package' = NewPackage(e, StoredHead(ret))
            /\ UNCHANGED <<floodVars, taken, pc>>
  <2>1. Typed'
    BY <1>3, <1>4, <1>5, <1>8, <1>12, AwaitTyped, TurnTyped DEF FrameTyped
  <2>2. At("loop") /\ InStep => Frame'
    BY <1>2, <1>3, <1>4, <1>6, <1>12, BodyAwaited
  <2>3. curStat' = "BD_INIT"
    BY <1>12 DEF AwaitBody
  <2>4. InStep' => InStep
    BY <1>2, <1>3, <1>12, StaysInStep
  <2>5. At("loop") => At("loop")'
    BY <2>2, <2>3, <2>4, <1>7, <1>8, <1>12 DEF At, FloodAt, FrameAt
  <2> QED
    BY <2>1, <2>5, <1>9, <1>12
<1> QED
  BY <1>1, <1>10, <1>11, <1>12

\* Part of a header.
LEMMA PartOfHeader ==
    ASSUME Typed, pc \in [Task -> Places], NEW t \in Task, pc[t] = "loop",
           NEW ret, curStat \in {"HD_INIT", "HD_RECVING"},
           At("loop") /\ InStep => irecvlen # ret,
           Turn(ret), AwaitRest(ret, "HD_RECVING"), package' = StoredBody(ret),
           UNCHANGED <<drifted, floodVars, taken, pc>>
    PROVE  Typed' /\ Goto(t, "loop") /\ (At("loop") => At("loop")')
<1>1. /\ ret \in 1..irecvlen /\ ret \in Nat /\ got + ret <= total
      /\ got' = got + ret /\ open /\ UNCHANGED clientVars
      /\ dataHeadInfo' = StoredHead(ret)
  BY DEF Turn, Received
<1>2. Layout /\ FrameTyped /\ FloodTyped /\ drifted' \in BOOLEAN /\ drifted' = drifted
  BY DEF Typed
<1>3. /\ curStat' = "HD_RECVING" /\ irecvlen' = irecvlen - ret
      /\ precvbuf' = [precvbuf EXCEPT !.off = @ + ret]
  BY DEF AwaitRest
<1>4. irecvlen' \in Nat /\ precvbuf' \in [buf : {"dataHeadInfo", "package"}, off : Nat]
  BY <1>1, <1>2, <1>3, AwaitTyped
<1>5. FloodTyped' /\ package' \in Pkg /\ taken' \in Nat
  BY <1>1, <1>2, StoredTyped DEF FloodTyped, floodVars, FrameTyped
<1>6. Typed'
  BY <1>2, <1>3, <1>4, <1>5, TurnTyped DEF Stats
<1>7. At("loop") /\ InStep => Frame'
  BY <1>1, <1>2, RestOfHeader DEF At, FrameAt
<1>8. InStep' => InStep
  BY <1>1, <1>2, StaysInStep DEF clientVars
<1>9. At("loop") => At("loop")'
  BY <1>3, <1>7, <1>8, TurnWhole DEF At, FloodAt, FrameAt, Behind, floodVars
<1> QED
  BY <1>6, <1>9 DEF Goto

\* A body that is now complete: the package is ready for the logic layer.
LEMMA CompleteBody ==
    ASSUME Typed, NEW ret, curStat \in {"BD_INIT", "BD_RECVING"}, irecvlen = ret,
           Turn(ret), package' = StoredBody(ret), FloodTyped',
           At("loop") => FloodAttackCount' <= Len(delivered),
           UNCHANGED <<curStat, irecvlen, precvbuf, drifted, taken>>
    PROVE  Typed' /\ (At("loop") => At("logic")')
<1>1. /\ ret \in 1..irecvlen /\ ret \in Nat /\ got' = got + ret /\ open
      /\ sent' = sent /\ total' = total
  BY DEF Turn, Received, clientVars
<1>2. Layout /\ FrameTyped /\ drifted' \in BOOLEAN /\ drifted' = drifted
  BY DEF Typed
<1>3. package' \in Pkg
  BY <1>1, <1>2, StoredTyped
<1>4. Typed'
  BY <1>2, <1>3, TurnTyped DEF FrameTyped
<1>5. At("loop") /\ InStep => Ready'
  <2> SUFFICES ASSUME At("loop"), InStep
               PROVE  Ready'
    OBVIOUS
  <2>1. Frame
    BY <1>1 DEF At, FrameAt
  <2>2. /\ taken + 1 \in DOMAIN sent /\ Valid(sent[taken + 1].len)
        /\ package' = Package(taken + 1) /\ got' = StartOf(taken + 2)
    BY <2>1, <1>1, <1>2, BodyRead
  <2>3. open'
    BY <1>1, TurnWhole
  <2> QED
    BY <2>2, <2>3, <1>1 DEF Ready, StartOf, Package, Valid
<1>6. InStep' => InStep
  BY <1>1, <1>2, StaysInStep
<1>7. At("loop") => At("logic")'
  BY <1>5, <1>6, TurnWhole DEF At, FloodAt, FrameAt
<1> QED
  BY <1>4, <1>7

\* Part of a body.
LEMMA PartOfBody ==
    ASSUME Typed, NEW ret, curStat \in {"BD_INIT", "BD_RECVING"}, irecvlen # ret,
           Turn(ret), package' = StoredBody(ret), curStat' = "BD_RECVING",
           precvbuf' = [precvbuf EXCEPT !.off = @ + ret],
           irecvlen' \in {irecvlen - ret, ret},
           drifted' \in BOOLEAN,
           ~drifted' => ~drifted /\ irecvlen' = irecvlen - ret,
           FloodTyped', At("loop") => FloodAttackCount' <= Len(delivered),
           UNCHANGED taken
    PROVE  Typed' /\ (At("loop") => At("loop")')
<1>1. /\ ret \in 1..irecvlen /\ ret \in Nat /\ got' = got + ret /\ open
      /\ UNCHANGED clientVars
  BY DEF Turn, Received
<1>2. Layout /\ FrameTyped
  BY DEF Typed
<1>3. package' \in Pkg /\ taken' \in Nat
  BY <1>1, <1>2, StoredTyped DEF FrameTyped
<1>4. irecvlen' \in Nat /\ precvbuf' \in [buf : {"dataHeadInfo", "package"}, off : Nat]
  BY <1>1, <1>2, AwaitTyped
<1>5. Typed'
  BY <1>3, <1>4, TurnTyped DEF Stats
<1>6. InStep' => InStep /\ irecvlen' = irecvlen - ret
  BY <1>1, StaysInStep DEF clientVars, InStep
<1>7. At("loop") /\ InStep' => Frame'
  BY <1>1, <1>2, <1>6, RestOfBody DEF At, FrameAt
<1>8. At("loop") => At("loop")'
  BY <1>7, <1>6, TurnWhole DEF At, FloodAt, FrameAt
<1> QED
  BY <1>5, <1>8

LEMMA HeaderTurn ==
    ASSUME Typed, pc \in [Task -> Places], NEW t \in Task, pc[t] = "loop",
           NEW ret, NEW complete, curStat \in {"HD_INIT", "HD_RECVING"},
           complete = (IF curStat = "HD_INIT" THEN ret = m_iLenPkgHeader ELSE irecvlen = ret),
           Turn(ret), ETReadHeader(t, ret, complete)
    PROVE  Typed' /\ \E place \in {"loop", "logic", "kick"} :
                        Goto(t, place) /\ (At("loop") => At(place)')
<1>1. At("loop") /\ InStep => (complete <=> irecvlen = ret)
  <2> SUFFICES ASSUME At("loop"), InStep, curStat = "HD_INIT"
               PROVE  irecvlen = m_iLenPkgHeader
    OBVIOUS
  <2>1. AtHeader
    BY DEF At, FrameAt, Frame, Turn, Received
  <2> QED
    BY <2>1, FramingAssumption DEF AtHeader
<1>2. UNCHANGED drifted
  BY DEF ETReadHeader
<1>3. CASE complete /\ ngx_wait_request_handler_proc_p1_ET(t, dataHeadInfo', StoredBody(ret))
  <2>1. At("loop") /\ InStep => irecvlen = ret
    BY <1>1, <1>3
  <2>2. ngx_wait_request_handler_proc_p1_ET(t, dataHeadInfo', StoredBody(ret))
    BY <1>3
  <2> QED
    BY <2>1, <2>2, <1>2, CompleteHeader
<1>4. CASE /\ ~complete
           /\ AwaitRest(ret, "HD_RECVING")
           /\ package' = StoredBody(ret)
           /\ UNCHANGED <<floodVars, taken, pc>>
  BY <1>1, <1>2, <1>4, PartOfHeader
<1> QED
  BY <1>3, <1>4 DEF ETReadHeader

LEMMA BodyTurn ==
    ASSUME Typed, pc \in [Task -> Places], NEW t \in Task, pc[t] = "loop",
           NEW ret, Turn(ret), ETReadBody(t, ret)
    PROVE  Typed' /\ \E place \in {"loop", "logic", "kick"} :
                        Goto(t, place) /\ (At("loop") => At(place)')
<1>1. package' = StoredBody(ret) /\ UNCHANGED taken /\ open
  BY DEF ETReadBody, Turn, Received
<1>2. drifted \in BOOLEAN /\ FrameTyped /\ Layout /\ FloodTyped
  BY DEF Typed
<1>3. UNCHANGED pc => Goto(t, "loop")
  BY DEF Goto
<1>4. ASSUME curStat = "BD_INIT", NEW quick \in BOOLEAN, TestFlood(quick), UNCHANGED drifted,
             \/ /\ Flooded(quick)
                /\ Goto(t, "kick")
                /\ UNCHANGED <<curStat, irecvlen, precvbuf>>
             \/ /\ ~Flooded(quick) /\ irecvlen = ret
                /\ Goto(t, "logic")
                /\ UNCHANGED <<curStat, irecvlen, precvbuf>>
             \/ /\ ~Flooded(quick) /\ irecvlen # ret
                /\ AwaitRest(ret, "BD_RECVING")
                /\ UNCHANGED pc
      PROVE  Typed' /\ \E place \in {"loop", "logic", "kick"} :
                          Goto(t, place) /\ (At("loop") => At(place)')
  <2>1. At("loop") => Behind
    BY <1>1, <1>4 DEF At, FloodAt
  <2>2. /\ FloodTyped'
        /\ Behind => /\ FloodAttackCount' <= Len(delivered)
                     /\ Flooded(quick) => Len(delivered) >= m_floodKickCount
    BY <1>4, TestCounts
  <2>3. CASE /\ Flooded(quick)
             /\ Goto(t, "kick")
             /\ UNCHANGED <<curStat, irecvlen, precvbuf>>
    <3>1. package' \in Pkg
      BY <1>1, <1>2, StoredTyped DEF Turn, Received
    <3>2. Typed'
      BY <2>2, <2>3, <3>1, <1>1, <1>2, <1>4, TurnTyped DEF FrameTyped
    <3>3. InStep' => InStep
      BY <1>1, <1>4, StaysInStep DEF Turn, clientVars
    <3>4. At("loop") => At("kick")'
      BY <2>1, <2>2, <2>3, <3>3, TurnWhole DEF At, FloodAt, FrameAt
    <3> QED
      BY <2>3, <3>2, <3>4
  <2>4. CASE /\ ~Flooded(quick) /\ irecvlen = ret
             /\ Goto(t, "logic")
             /\ UNCHANGED <<curStat, irecvlen, precvbuf>>
    BY <2>1, <2>2, <2>4, <1>1, <1>4, CompleteBody
  <2>5. CASE /\ ~Flooded(quick) /\ irecvlen # ret
             /\ AwaitRest(ret, "BD_RECVING")
             /\ UNCHANGED pc
    <3>1. /\ curStat' = "BD_RECVING" /\ irecvlen' = irecvlen - ret
          /\ precvbuf' = [precvbuf EXCEPT !.off = @ + ret]
          /\ drifted' = drifted /\ drifted' \in BOOLEAN
      BY <2>5, <1>2, <1>4 DEF AwaitRest
    <3>2. Typed' /\ (At("loop") => At("loop")')
      BY <2>1, <2>2, <2>5, <3>1, <1>1, <1>4, PartOfBody
    <3> QED
      BY <2>5, <3>2, <1>3
  <2> QED
    BY <1>4, <2>3, <2>4, <2>5
<1>5. ASSUME curStat = "BD_RECVING", UNCHANGED floodVars
      PROVE  FloodTyped' /\ (At("loop") => FloodAttackCount' <= Len(delivered))
  BY <1>1, <1>2, <1>5 DEF At, FloodAt, FloodTyped, floodVars
<1>6. CASE /\ curStat = "BD_RECVING" /\ irecvlen = ret
           /\ Goto(t, "logic")
           /\ UNCHANGED <<curStat, irecvlen, precvbuf, drifted, floodVars>>
  BY <1>1, <1>5, <1>6, CompleteBody
<1>7. CASE /\ curStat = "BD_RECVING" /\ irecvlen # ret
           /\ AwaitRestOfBody(ret)
           /\ UNCHANGED <<pc, floodVars>>
  <2>1. /\ curStat' = "BD_RECVING" /\ irecvlen' = ret
        /\ precvbuf' = [precvbuf EXCEPT !.off = @ + ret]
    BY <1>7 DEF AwaitRestOfBody
  <2>2. drifted' \in BOOLEAN /\ (~drifted' => ~drifted /\ irecvlen' = irecvlen - ret)
    BY <1>7, <2>1 DEF AwaitRestOfBody
  <2>3. Typed' /\ (At("loop") => At("loop")')
    BY <1>1, <1>5, <1>7, <2>1, <2>2, PartOfBody
  <2> QED
    BY <2>3, <1>3, <1>7
<1> QED
  BY <1>4, <1>6, <1>7 DEF ETReadBody

LEMMA RecvBytesTurn ==
    ASSUME Typed, pc \in [Task -> Places], NEW t \in Task, RecvBytes(t)
    PROVE  Typed' /\ \E place \in {"loop", "logic", "kick"} :
                        Goto(t, place) /\ (At("loop") => At(place)')
<1>1. PICK ret :
        /\ Received(ret)
        /\ dataHeadInfo' = StoredHead(ret)
        /\ \/ curStat = "HD_INIT" /\ ETReadHeader(t, ret, ret = m_iLenPkgHeader)
           \/ curStat = "HD_RECVING" /\ ETReadHeader(t, ret, irecvlen = ret)
           \/ ETReadBody(t, ret)
  BY DEF RecvBytes
<1>2. Turn(ret) /\ pc[t] = "loop"
  BY <1>1 DEF RecvBytes, Turn
<1>3. PICK complete :
        complete = (IF curStat = "HD_INIT" THEN ret = m_iLenPkgHeader ELSE irecvlen = ret)
  OBVIOUS
<1>4. \/ curStat \in {"HD_INIT", "HD_RECVING"} /\ ETReadHeader(t, ret, complete)
      \/ ETReadBody(t, ret)
  BY <1>1, <1>3
<1> QED
  BY <1>2, <1>3, <1>4, HeaderTurn, BodyTurn

-----------------------------------------------------------------------------
(* The other steps of the task that uses the receive state.                *)

\* The package goes to the logic layer.
LEMMA HandledTurn ==
    ASSUME Typed, Handled
    PROVE  Typed' /\ (At("logic") => At("reset")' /\ At("sendPing")' /\ At("sendBusiness")')
<1>1. Layout /\ FrameTyped /\ FloodTyped /\ package \in Pkg
  BY DEF Typed, FrameTyped
<1>2. /\ delivered' = Append(delivered, package) /\ taken' = taken + 1
      /\ open' = open /\ kicked' = kicked /\ drifted' = drifted
      /\ got' = got /\ curStat' = curStat /\ irecvlen' = irecvlen
      /\ precvbuf' = precvbuf /\ dataHeadInfo' = dataHeadInfo /\ package' = package
      /\ FloodAttackCount' = FloodAttackCount /\ FloodkickLastTime' = FloodkickLastTime
      /\ UNCHANGED clientVars /\ sent' = sent /\ total' = total
  BY DEF Handled, frameVars, floodVars, clientVars
<1>3. /\ delivered' \in Seq(Pkg) /\ Len(delivered') = Len(delivered) + 1
      /\ Len(delivered) \in Nat
  BY <1>1, <1>2, DeliveredGrows
<1>4. FrameTyped'
  BY <1>1, <1>2, <1>3 DEF FrameTyped
<1>5. Typed'
  BY <1>1, <1>2, <1>4, LayoutKept DEF Typed, FloodTyped
<1>6. ASSUME At("logic")
      PROVE  KickedAfterCount' /\ FloodAttackCount' < Len(delivered')
  <2>1. KickedAfterCount /\ FloodAttackCount <= Len(delivered)
    BY <1>6 DEF At, FloodAt
  <2> QED
    BY <2>1, <1>1, <1>2, <1>3, FramingAssumption DEF KickedAfterCount, FloodTyped
<1>7. ASSUME At("logic"), InStep
      PROVE  AllWhole' /\ Ended'
  <2>1. Ready /\ AllWhole
    BY <1>7 DEF At, FrameAt
  <2>2. Served
    BY <2>1, <1>2 DEF Served, Ready
  <2>3. AllWhole'
    BY <2>1, <2>2, <1>1, WholeKept DEF FrameTyped
  <2>4. taken + 1 \in 1..Len(sent) /\ Len(sent) \in Nat /\ taken \in Nat
    BY <2>1, <1>1, SentTyped DEF Ready, FrameTyped
  <2>5. taken' + 1 = taken + 2 /\ taken' \in 0..Len(sent')
    BY <2>4, <1>2
  <2>6. got' = StartOf(taken + 1)'
    BY <2>1, <2>5, <1>2 DEF Ready, StartOf
  <2> QED
    BY <2>3, <2>5, <2>6 DEF Ended
<1>8. InStep' => InStep
  BY <1>2, StaysInStep
<1> QED
  BY <1>5, <1>6, <1>7, <1>8 DEF At, FloodAt, FrameAt

\* The last lines of plast_ET.
LEMMA ResetTurn ==
    ASSUME Typed, NEW t, Reset(t)
    PROVE  Typed' /\ (At("reset") => At("loop")')
<1>1. Layout /\ FrameTyped /\ FloodTyped
  BY DEF Typed
<1>2. /\ AwaitHeader /\ package' = NoPackage
      /\ delivered' = delivered /\ taken' = taken
      /\ open' = open /\ kicked' = kicked /\ drifted' = drifted
      /\ got' = got /\ dataHeadInfo' = dataHeadInfo
      /\ FloodAttackCount' = FloodAttackCount /\ FloodkickLastTime' = FloodkickLastTime
      /\ UNCHANGED clientVars /\ sent' = sent /\ total' = total
  BY DEF Reset, floodVars, clientVars, taskVars
<1>3. FrameTyped'
  BY <1>1, <1>2, AwaitTyped, EmptyIsPkg DEF FrameTyped
<1>4. Typed'
  BY <1>1, <1>2, <1>3, LayoutKept DEF Typed, FloodTyped
<1>5. ASSUME At("reset"), InStep
      PROVE  Frame' /\ AllWhole'
  <2>1. Ended /\ AllWhole
    BY <1>5 DEF At, FrameAt
  <2>2. taken' \in 0..Len(sent') /\ got' \in Nat /\ got' = StartOf(taken + 1)'
    BY <2>1, <1>1, <1>2 DEF Ended, StartOf, FrameTyped
  <2>3. Frame'
    BY <2>2, <1>2, HeaderAwaited
  <2> QED
    BY <2>1, <2>3, <1>2 DEF AllWhole, Package, Valid
<1>6. ASSUME At("reset")
      PROVE  FloodAt("loop")'
  BY <1>2, <1>6 DEF At, FloodAt, Behind, KickedAfterCount, AwaitHeader
<1>7. InStep' => InStep
  BY <1>2, StaysInStep
<1> QED
  BY <1>4, <1>5, <1>6, <1>7 DEF At, FrameAt

\* The connection is closed: by recvproc, or by the kick.
LEMMA ClosedTurn ==
    ASSUME Typed,
           UNCHANGED <<frameVars, floodVars, clientVars, drifted, got, delivered, taken>>,
           open' = FALSE, kicked' \in BOOLEAN
    PROVE  /\ Typed'
           /\ At("loop") /\ kicked' = kicked => At("loop")'
           /\ At("kick") => At("loop")'
<1>1. Layout /\ FrameTyped /\ FloodTyped
  BY DEF Typed
<1>2. /\ delivered' = delivered /\ taken' = taken /\ drifted' = drifted
      /\ got' = got /\ curStat' = curStat /\ irecvlen' = irecvlen
      /\ precvbuf' = precvbuf /\ dataHeadInfo' = dataHeadInfo /\ package' = package
      /\ FloodAttackCount' = FloodAttackCount /\ FloodkickLastTime' = FloodkickLastTime
      /\ UNCHANGED clientVars /\ sent' = sent /\ total' = total
  BY DEF frameVars, floodVars, clientVars
<1>3. Typed'
  BY <1>1, <1>2, LayoutKept DEF Typed, FloodTyped, FrameTyped
<1>4. AllWhole => AllWhole'
  BY <1>2 DEF AllWhole, Package, Valid
<1>5. InStep' => InStep
  BY <1>2, StaysInStep
<1> QED
  BY <1>2, <1>3, <1>4, <1>5 DEF At, FloodAt, FrameAt, KickedAfterCount

-----------------------------------------------------------------------------
LEMMA ETInvStep ==
    ASSUME ETInv, [ETNext]_etVars
    PROVE  ETInv'
<1>1. Typed /\ MutexInv /\ TurnInv /\ pc \in [Task -> Places]
  BY DEF ETInv, MutexInv
<1>m. MutexInv'
  BY <1>1, MutexInvStep
<1> SUFFICES Typed' /\ TurnInv'
  BY <1>m DEF ETInv
\* The tasks that use the receive state stay where they are.
<1>2. ASSUME UNCHANGED vars, UNCHANGED overlapped, doubled' = doubled \/ doubled' = TRUE,
             \/ UNCHANGED pc
             \/ \E t \in Task, place \in Places \ Inside : pc[t] \notin Inside /\ Goto(t, place)
      PROVE  Typed' /\ TurnInv'
  <2>1. Typed' /\ \A place : At(place) => At(place)'
    BY <1>1, <1>2, VarsKept
  <2>2. Clean' => Clean
    BY <1>2 DEF Clean
  <2> QED
    BY <2>1, <2>2, <1>1, <1>2, OutsiderMoves
<1>3. CASE Net
  <2>1. ASSUME NEW len \in Lens, ClientSends(len)
        PROVE  Typed' /\ TurnInv'
    <3>1. SendPackage(len) /\ UNCHANGED <<pc, overlapped, doubled>>
      BY <2>1 DEF ClientSends, sendingVars, connVars
    <3>2. Typed' /\ \A place : At(place) => At(place)'
      BY <3>1, <1>1, VarsSend
    <3> QED
      BY <3>1, <3>2, <1>1, OutsiderMoves DEF Clean
  <2>2. CASE UNCHANGED <<vars, sendingVars, pc, connVars>>
    BY <2>2, <1>2 DEF sendingVars, connVars
  <2>3. CASE WriteSpace /\ UNCHANGED <<vars, pc, connVars>>
    BY <2>3, <1>2 DEF WriteSpace, connVars
  <2> QED
    BY <1>3, <2>1, <2>2, <2>3 DEF Net, Arrive, ClientCloses
<1>4. ASSUME NEW t \in Task, Main(t)
      PROVE  Typed' /\ TurnInv'
  <2>1. PICK place \in {"lock", "remain"} : Goto(t, place)
    BY <1>4 DEF Main, ngx_read_request_handler_ET, ngx_write_request_handler
  <2>2. pc[t] = "idle" /\ UNCHANGED vars /\ UNCHANGED <<overlapped, doubled>>
    BY <1>4 DEF Main, ngx_read_request_handler_ET, ngx_write_request_handler,
                sendingVars, connVars
  <2> QED
    BY <2>1, <2>2, <1>2 DEF Places, Holding, Inside
<1>5. ASSUME NEW t \in Task, Lock(t)
      PROVE  Typed' /\ TurnInv'
  <2>1. /\ pc[t] = "lock" /\ ~logicPorcMutex /\ Goto(t, "loop")
        /\ overlapped' = (overlapped \/ Resetting # {}) /\ UNCHANGED vars /\ UNCHANGED doubled
    BY <1>5 DEF Lock
  <2>2. /\ pc'[t] = "loop" /\ \A u \in Task : u # t => pc'[u] = pc[u]
    BY <2>1, <1>1, GotoOne DEF Places, Holding
  <2>3. Typed' /\ \A place : At(place) => At(place)'
    BY <2>1, <1>1, VarsKept
  <2>4. ASSUME Clean'
        PROVE  Clean /\ \A u \in Task : pc[u] \notin Inside
    <3>1. Clean /\ Resetting = {}
      BY <2>1, <2>4 DEF Clean
    <3>2. \A u \in Task : pc[u] # "reset"
      BY <3>1 DEF Resetting
    <3>3. \A u \in Task : pc[u] \notin Holding
      BY <3>1, <2>1, <1>1 DEF MutexInv, Clean
    <3> QED
      BY <3>1, <3>2, <3>3 DEF Inside, Holding
  <2>5. TurnInv'
    <3> SUFFICES ASSUME Clean'
                 PROVE  /\ \A u \in Task : pc'[u] \in Inside => u = t
                        /\ At("loop")'
      BY <2>2 DEF TurnInv, Inside
    <3>1. At("loop")'
      BY <2>3, <2>4, <1>1 DEF TurnInv
    <3> QED
      BY <3>1, <2>2, <2>4
  <2> QED
    BY <2>3, <2>5
<1>6. ASSUME NEW t \in Task, RecvNothing(t)
      PROVE  Typed' /\ TurnInv'
  <2>1. /\ pc[t] = "loop" /\ Goto(t, "idle") /\ UNCHANGED vars
        /\ UNCHANGED <<overlapped, doubled>>
    BY <1>6 DEF RecvNothing, connVars
  <2>2. Typed' /\ \A place : At(place) => At(place)'
    BY <2>1, <1>1, VarsKept
  <2>3. Clean => At("loop")'
    BY <2>1, <2>2, <1>1 DEF TurnInv, Inside
  <2> QED
    BY <2>1, <2>2, <2>3, <1>1, InsiderMoves DEF Inside, Places, Holding
<1>7. ASSUME NEW t \in Task, RecvEnd(t) \/ RecvFails(t) \/ FloodKick(t)
      PROVE  Typed' /\ TurnInv'
  <2>1. /\ Goto(t, "idle") /\ UNCHANGED <<overlapped, doubled>>
        /\ UNCHANGED <<frameVars, floodVars, clientVars, drifted, got, delivered, taken>>
        /\ open' = FALSE
        /\ \/ pc[t] = "loop" /\ kicked' = kicked
           \/ pc[t] = "kick" /\ kicked' = TRUE
    BY <1>7 DEF RecvEnd, RecvFails, RecvReleases, FloodKick, Kick
  <2>2. kicked' \in BOOLEAN
    BY <2>1, <1>1 DEF Typed
  <2>3. /\ Typed'
        /\ At("loop") /\ kicked' = kicked => At("loop")'
        /\ At("kick") => At("loop")'
    BY <2>1, <2>2, <1>1, ClosedTurn
  <2>4. Clean => At("loop")'
    BY <2>1, <2>3, <1>1 DEF TurnInv, Inside
  <2> QED
    BY <2>1, <2>3, <2>4, <1>1, InsiderMoves DEF Inside, Places, Holding
<1>8. ASSUME NEW t \in Task, RecvBytes(t)
      PROVE  Typed' /\ TurnInv'
  <2>1. pc[t] = "loop" /\ UNCHANGED <<overlapped, doubled>>
    BY <1>8 DEF RecvBytes, sendingVars, connVars
  <2>2. PICK place \in {"loop", "logic", "kick"} : Goto(t, place) /\ (At("loop") => At(place)')
    BY <1>8, <1>1, RecvBytesTurn
  <2>3. Typed'
    BY <1>8, <1>1, RecvBytesTurn
  <2>4. Clean => At(place)'
    BY <2>1, <2>2, <1>1 DEF TurnInv, Inside
  <2> QED
    BY <2>1, <2>2, <2>3, <2>4, <1>1, InsiderMoves DEF Inside, Places, Holding
<1>9. ASSUME NEW t \in Task, LogicRefuses(t) \/ _HandlePing(t) \/ _HandleBusiness(t)
      PROVE  Typed' /\ TurnInv'
  <2>1. PICK place \in {"reset", "sendPing", "sendBusiness"} : Goto(t, place)
    BY <1>9 DEF LogicRefuses, _HandlePing, _HandleBusiness
  <2>2. pc[t] = "logic" /\ Handled /\ UNCHANGED <<overlapped, doubled>>
    BY <1>9 DEF LogicRefuses, _HandlePing, _HandleBusiness, connVars
  <2>3. Typed' /\ (At("logic") => At(place)')
    BY <2>2, <1>1, HandledTurn
  <2>4. Clean => At(place)'
    BY <2>2, <2>3, <1>1 DEF TurnInv, Inside
  <2> QED
    BY <2>1, <2>2, <2>3, <2>4, <1>1, InsiderMoves DEF Inside, Places, Holding
<1>10. ASSUME NEW t \in Task, sendMsg(t) \/ sendMsgGoesRound(t) \/ sendMsgGetsOut(t)
       PROVE  Typed' /\ TurnInv'
  <2>1. PICK to \in {"round", "reset"} : Goto(t, to)
    BY <1>10 DEF sendMsg, sendMsgGoesRound, sendMsgGetsOut
  <2>2. /\ pc[t] \in {"sendPing", "sendBusiness", "round"} /\ UNCHANGED vars
        /\ UNCHANGED <<overlapped, doubled>>
    BY <1>10 DEF sendMsg, sendMsgGoesRound, sendMsgGetsOut, connVars
  <2>3. Typed' /\ \A place : At(place) => At(place)'
    BY <2>2, <1>1, VarsKept
  <2>4. At("sendPing") \/ At("sendBusiness") \/ At("round") => At("reset") /\ At("round")
    BY DEF At, FloodAt, FrameAt
  <2>5. Clean => At(to)'
    BY <2>1, <2>2, <2>3, <2>4, <1>1 DEF TurnInv, Inside
  <2> QED
    BY <2>1, <2>2, <2>3, <2>5, <1>1, InsiderMoves DEF Inside, Places, Holding
<1>11. ASSUME NEW t \in Task, Reset(t)
       PROVE  Typed' /\ TurnInv'
  <2>1. pc[t] = "reset" /\ Goto(t, "idle") /\ UNCHANGED <<overlapped, doubled>>
    BY <1>11 DEF Reset, sendingVars, connVars
  <2>2. Typed' /\ (At("reset") => At("loop")')
    BY <1>11, <1>1, ResetTurn
  <2>3. Clean => At("loop")'
    BY <2>1, <2>2, <1>1 DEF TurnInv, Inside
  <2> QED
    BY <2>1, <2>2, <2>3, <1>1, InsiderMoves DEF Inside, Places, Holding
<1>12. ASSUME NEW t \in Task, sendRemainMsg(t)
       PROVE  Typed' /\ TurnInv'
  <2>1. /\ pc[t] = "remain" /\ (UNCHANGED pc \/ Goto(t, "idle")) /\ UNCHANGED vars
        /\ UNCHANGED <<overlapped, doubled>>
    BY <1>12 DEF sendRemainMsg, connVars
  <2> QED
    BY <2>1, <1>2 DEF Places, Holding, Inside
<1>13. CASE UNCHANGED etVars
  BY <1>13, <1>2 DEF etVars, sendingVars, connVars
<1> QED
  BY <1>3, <1>4, <1>5, <1>6, <1>7, <1>8, <1>9, <1>10, <1>11, <1>12, <1>13
  DEF ETNext, Run, GetsOut

LEMMA TurnInvariant == ETSpec => [](PackagesWholeET /\ KickedAfterCountET)
<1>1. ETInit => ETInv
  BY InitETInv
<1>2. ETInv /\ [ETNext]_etVars => ETInv'
  BY ETInvStep
<1>3. ETInv => PackagesWholeET /\ KickedAfterCountET
  <2> SUFFICES ASSUME ETInv, Clean
               PROVE  KickedAfterCount /\ (InStep => AllWhole)
    BY DEF PackagesWholeET, KickedAfterCountET, Clean, InStep, AllWhole
  <2>1. \E place : At(place)
    BY DEF ETInv, TurnInv
  <2> QED
    BY <2>1 DEF At, FloodAt
<1> QED
  BY <1>1, <1>2, <1>3, PTL DEF ETSpec

\* In the shipped mode too packages are whole, whichever tasks read their
\* pieces, as long as no task starts to read before another one's reset, nor a
\* package that is too long has put the reading out of step.
THEOREM PackagesAreWholeET == ETSpec => []PackagesWholeET
  BY TurnInvariant, PTL

\* Nor is a client kicked then before m_floodKickCount of its packages, although
\* the tasks share the counter of the flood test.
THEOREM KicksAreCountedET == ETSpec => []KickedAfterCountET
  BY TurnInvariant, PTL
=============================================================================
