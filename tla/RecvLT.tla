------------------------------- MODULE RecvLT -------------------------------
(***************************************************************************)
(* ngx_read_request_handler: level-triggered reading, by the main thread,  *)
(* one recv for each event.  One action per value of curStat.  TestFlood    *)
(* takes logicPorcMutex in this mode, so a step that tests for a flood is  *)
(* possible while nobody holds it.  A package counts as delivered when     *)
(* AddTask has queued it; HandleLT has the tasks.                          *)
(***************************************************************************)
EXTENDS Framing, Sending

TestFloodLT(quick) == ~logicPorcMutex /\ TestFlood(quick)

\* Mutant: the package is not handed on.
ngx_wait_request_handler_proc_plast_Drops(p) ==
    /\ taken' = taken + 1
    /\ package' = NoPackage
    /\ AwaitHeader
    /\ UNCHANGED delivered

ngx_wait_request_handler_proc_plast(p) ==
    /\ delivered' = Append(delivered, p)
    /\ taken' = taken + 1
    /\ package' = NoPackage
    /\ AwaitHeader

\* The header is complete.  With the caller's reaction to a flood.
ngx_wait_request_handler_proc_p1(header) ==
    \E e_pkgLen \in Declared(header) :
      LET p == NewPackage(e_pkgLen, header) IN
      \/ /\ RejectHeader(e_pkgLen)
         /\ AwaitHeader
         /\ taken' = taken + 1
         /\ UNCHANGED <<package, floodVars, delivered, open, kicked>>
      \/ /\ ~RejectHeader(e_pkgLen)
         /\ e_pkgLen = m_iLenPkgHeader
         /\ \E quick \in BOOLEAN :
              /\ TestFloodLT(quick)
              /\ \/ /\ Flooded(quick)
                    /\ Kick
                    /\ package' = p
                    /\ precvbuf' = [buf |-> "package", off |-> 0]
                    /\ UNCHANGED <<curStat, irecvlen, delivered, taken>>
                 \/ /\ ~Flooded(quick)
                    /\ ngx_wait_request_handler_proc_plast(p)
                    /\ UNCHANGED <<open, kicked>>
      \/ /\ ~RejectHeader(e_pkgLen)
         /\ e_pkgLen # m_iLenPkgHeader
         /\ AwaitBody(e_pkgLen)
         /\ package' = p
         /\ UNCHANGED <<floodVars, delivered, taken, open, kicked>>

-----------------------------------------------------------------------------
(* ngx_read_request_handler by the state of the connection.                *)

ReadHeader(ret, complete) ==
    /\ Received(ret)
    /\ dataHeadInfo' = StoredHead(ret)
    /\ \/ complete /\ ngx_wait_request_handler_proc_p1(dataHeadInfo')
       \/ /\ ~complete
          /\ AwaitRest(ret, "HD_RECVING")
          /\ UNCHANGED <<package, floodVars, delivered, taken, open, kicked>>
    /\ UNCHANGED <<clientVars, drifted>>

HdInit(ret) == curStat = "HD_INIT" /\ ReadHeader(ret, ret = m_iLenPkgHeader)
HdRecving(ret) == curStat = "HD_RECVING" /\ ReadHeader(ret, irecvlen = ret)

\* The first piece of a body: the flood test comes before anything else.
BdInit(ret) ==
    /\ curStat = "BD_INIT"
    /\ Received(ret)
    /\ LET p == StoredBody(ret) IN
       \E quick \in BOOLEAN :
          /\ TestFloodLT(quick)
          /\ \/ /\ Flooded(quick)
                /\ Kick
                /\ package' = p
                /\ UNCHANGED <<curStat, irecvlen, precvbuf, delivered, taken>>
             \/ /\ ~Flooded(quick)
                /\ \/ irecvlen = ret /\ ngx_wait_request_handler_proc_plast(p)
                   \/ /\ irecvlen # ret
                      /\ AwaitRest(ret, "BD_RECVING")
                      /\ package' = p
                      /\ UNCHANGED <<delivered, taken>>
                /\ UNCHANGED <<open, kicked>>
    /\ UNCHANGED <<dataHeadInfo, clientVars, drifted>>

BdRecving(ret) ==
    /\ curStat = "BD_RECVING"
    /\ Received(ret)
    /\ LET p == StoredBody(ret) IN
       \/ irecvlen = ret /\ ngx_wait_request_handler_proc_plast(p) /\ UNCHANGED drifted
       \/ /\ irecvlen # ret
          /\ AwaitRestOfBody(ret)
          /\ package' = p
          /\ UNCHANGED <<delivered, taken>>
    /\ UNCHANGED <<dataHeadInfo, floodVars, clientVars, open, kicked>>

ngx_read_request_handler(ret) ==
    HdInit(ret) \/ HdRecving(ret) \/ BdInit(ret) \/ BdRecving(ret)

-----------------------------------------------------------------------------
(* Properties.                                                             *)

BufferSize == IF precvbuf.buf = "dataHeadInfo" THEN m_iLenPkgHeader
              ELSE IF package = NoPackage THEN 0
              ELSE 1 + CHOOSE k \in DOMAIN package : k + 1 \notin DOMAIN package

\* The next recv asks for exactly the bytes that the buffer it writes to still
\* lacks: "要收到多少数据，由这个变量指定，和precvbuf配套使用".
AsksForTheRest == open => precvbuf.off + irecvlen = BufferSize

\* It does as long as no body has come in three pieces of unlucky sizes.
AsksForTheRestUntilDrift == ~drifted => AsksForTheRest

\* However the stream is cut into reads, a package handed to the logic layer
\* holds the bytes of one of the client's packages, all of them, in order, until
\* the body of one that was too long is read as headers.
PackagesWhole ==
    ~drifted /\ ~OutOfStep => \A d \in DOMAIN delivered :
        \E i \in DOMAIN sent : Valid(sent[i].len) /\ delivered[d] = Package(i)

\* Until then packages are neither lost nor repeated nor reordered: every step
\* is one of PackageStream.
Stream == INSTANCE PackageStream WITH
              Legal <- {len \in Lens : Valid(len)},
              offered <- [i \in DOMAIN sent |-> sent[i].len],
              delivered <- [d \in DOMAIN delivered |->
                               CHOOSE i \in DOMAIN sent : delivered[d] = Package(i)]
StreamSpec ==
    /\ Stream!Init
    /\ [][~drifted' /\ ~OutOfStep => Stream!Next \/ UNCHANGED Stream!vars]_vars

=============================================================================
