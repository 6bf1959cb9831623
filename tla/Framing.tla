------------------------------ MODULE Framing ------------------------------
(***************************************************************************)
(* How one connection cuts the byte stream of its client into packages      *)
(* (net/ngx_c_socket_request.cpp).  A package is a header of               *)
(* m_iLenPkgHeader bytes, which declares the length of the whole, and a    *)
(* body.  The header is received into dataHeadInfo, the body into memory   *)
(* allocated for the package; precvbuf and irecvlen say where the next     *)
(* recv writes and how much it asks for.                                   *)
(*                                                                         *)
(* A byte is represented by its position in the stream, so that a buffer   *)
(* shows which bytes it holds and in which order.  This module has the     *)
(* state and the steps that both modes of epoll share; RecvLT and RecvET   *)
(* say who runs them.                                                      *)
(***************************************************************************)
EXTENDS Integers, Sequences

CONSTANTS
    m_iLenPkgHeader,    \* sizeof(COMM_PKG_HEADER)
    MaxPkgLen,          \* _PKG_MAX_LENGTH - 1000
    Lens,               \* the lengths a header may declare
    MaxPkgs,            \* bound on the packages of the client, and on those read
    m_floodKickCount    \* quick packages until the client is kicked

ASSUME FramingAssumption ==
    /\ m_iLenPkgHeader \in Nat \ {0}
    /\ MaxPkgLen \in Nat /\ MaxPkgLen >= m_iLenPkgHeader
    /\ Lens \subseteq Nat
    /\ MaxPkgs \in Nat
    /\ m_floodKickCount \in Nat \ {0}

VARIABLES
    curStat, irecvlen,
    precvbuf,           \* the buffer it points into and the offset
    dataHeadInfo,       \* bytes of the header
    package,            \* bytes at precvMemPointer, message header left out
    drifted,            \* history: irecvlen was given a wrong value
    FloodAttackCount, FloodkickLastTime,
    sent,               \* the client's packages: where each starts, its length
    total, got,         \* bytes sent, bytes received
    delivered,          \* history: the packages handed to the logic layer
    taken,              \* history: the number of packages read to their end
    open, kicked        \* the connection is open; it was closed by TestFlood

frameVars == <<curStat, irecvlen, precvbuf, dataHeadInfo, package>>
floodVars == <<FloodAttackCount, FloodkickLastTime>>
clientVars == <<sent, total>>
vars == <<frameVars, floodVars, clientVars, drifted, got, delivered, taken, open,
          kicked>>

HeaderBytes == 0..(m_iLenPkgHeader - 1)
HeadStart == [buf |-> "dataHeadInfo", off |-> 0]
NoByte == -1
NoPackage == <<>>

\* ngx_event_accept
Init ==
    /\ curStat = "HD_INIT"
    /\ irecvlen = m_iLenPkgHeader
    /\ precvbuf = HeadStart
    /\ dataHeadInfo = [k \in HeaderBytes |-> NoByte]
    /\ package = NoPackage
    /\ drifted = FALSE
    /\ FloodAttackCount = 0 /\ FloodkickLastTime = 0
    /\ sent = <<>> /\ total = 0 /\ got = 0
    /\ delivered = <<>> /\ taken = 0
    /\ open = TRUE /\ kicked = FALSE

-----------------------------------------------------------------------------
(* The client.                                                             *)

Valid(len) == len >= m_iLenPkgHeader /\ len <= MaxPkgLen

\* The bytes of a package whose header declares len: a header at least.
Wire(len) == IF len < m_iLenPkgHeader THEN m_iLenPkgHeader ELSE len

SendPackage(len) ==
    /\ open
    /\ Len(sent) < MaxPkgs
    /\ sent' = Append(sent, [start |-> total, len |-> len])
    /\ total' = total + Wire(len)
    /\ UNCHANGED <<frameVars, floodVars, drifted, got, delivered, taken, open, kicked>>

\* It closes or is lost: recvproc returns no bytes and releases the connection.
HangUp ==
    /\ open
    /\ open' = FALSE
    /\ UNCHANGED <<frameVars, floodVars, clientVars, drifted, got, delivered,
                   taken, kicked>>

-----------------------------------------------------------------------------
(* Reading.                                                                *)

\* recvproc returned ret bytes.  When all packages are read bytes are left only
\* if they were not read as they were sent.
Received(ret) ==
    /\ open /\ taken < MaxPkgs
    /\ ret \in 1..irecvlen
    /\ got + ret <= total
    /\ got' = got + ret

\* The buffers after it: the bytes go where precvbuf points.
Stored(name, buffer, ret) ==
    [k \in DOMAIN buffer |->
        IF precvbuf.buf = name /\ k \in precvbuf.off..(precvbuf.off + ret - 1)
        THEN got + k - precvbuf.off ELSE buffer[k]]
StoredHead(ret) == Stored("dataHeadInfo", dataHeadInfo, ret)
StoredBody(ret) == Stored("package", package, ret)

Package(i) == [k \in 0..(sent[i].len - 1) |-> sent[i].start + k]
HeaderOf(i) == [k \in HeaderBytes |-> sent[i].start + k]

\* The length a received header declares; any, if it is not one of the
\* client's headers.
Declared(header) ==
    IF \E i \in DOMAIN sent : header = HeaderOf(i)
    THEN {sent[i].len : i \in {j \in DOMAIN sent : header = HeaderOf(j)}}
    ELSE Lens

RejectHeader(e_pkgLen) ==
    e_pkgLen > MaxPkgLen \/ e_pkgLen < m_iLenPkgHeader

\* The memory for a package with its header copied in.
NewPackage(e_pkgLen, header) ==
    [k \in 0..(e_pkgLen - 1) |-> IF k \in HeaderBytes THEN header[k] ELSE NoByte]

AwaitHeader ==
    /\ curStat' = "HD_INIT"
    /\ irecvlen' = m_iLenPkgHeader
    /\ precvbuf' = HeadStart

\* Mutant: the body is received over the header.
AwaitBody_OverHeader(e_pkgLen) ==
    /\ curStat' = "BD_INIT"
    /\ irecvlen' = e_pkgLen - m_iLenPkgHeader
    /\ precvbuf' = [buf |-> "package", off |-> 0]

AwaitBody(e_pkgLen) ==
    /\ curStat' = "BD_INIT"
    /\ irecvlen' = e_pkgLen - m_iLenPkgHeader
    /\ precvbuf' = [buf |-> "package", off |-> m_iLenPkgHeader]

\* Mutant: the length still asked for is not reduced.
AwaitRest_KeepsLen(ret, stat) ==
    /\ curStat' = stat
    /\ precvbuf' = [precvbuf EXCEPT !.off = @ + ret]
    /\ UNCHANGED irecvlen

\* More of the same part is to come: the two lines that follow an incomplete
\* read, but for the body's second and later pieces.
AwaitRest(ret, stat) ==
    /\ curStat' = stat
    /\ precvbuf' = [precvbuf EXCEPT !.off = @ + ret]
    /\ irecvlen' = irecvlen - ret

\* There the code assigns ret instead of subtracting it, which is right only
\* when ret is half of what was asked for.
AwaitRestOfBody(ret) ==
    /\ precvbuf' = [precvbuf EXCEPT !.off = @ + ret]
    /\ irecvlen' = ret
    /\ drifted' = (drifted \/ ret # irecvlen - ret)
    /\ UNCHANGED curStat

-----------------------------------------------------------------------------
(* TestFlood.  quick: less than m_floodTimeInterval has passed since the    *)
(* last package, which is impossible for the first one.                    *)

\* Mutant: the count is not reset.
Counted_NoReset(quick) == FloodAttackCount + 1

Counted(quick) == IF quick THEN FloodAttackCount + 1 ELSE 0

TestFlood(quick) ==
    /\ quick => FloodkickLastTime # 0
    /\ FloodAttackCount' = Counted(quick)
    /\ FloodkickLastTime' = 1

Flooded(quick) == Counted(quick) = m_floodKickCount

\* A package that is too long has been refused by its header: what follows is
\* its body, which is read as headers from here on.
OutOfStep == \E k \in 1..taken : k \in DOMAIN sent /\ sent[k].len > MaxPkgLen

\* ngx_free_con_self, as far as this connection's stream is concerned.
Kick == open' = FALSE /\ kicked' = TRUE

-----------------------------------------------------------------------------
\* The flood test counts packages and not reads: a client is kicked only
\* after m_floodKickCount of its packages have been served.
KickedAfterCount == kicked => Len(delivered) >= m_floodKickCount
=============================================================================
