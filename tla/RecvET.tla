------------------------------- MODULE RecvET -------------------------------
(***************************************************************************)
(* Edge-triggered reading of one connection, the shipped configuration.    *)
(* Each edge makes the main thread queue a task recvproc_ET on the thread  *)
(* pool.  A task holds the connection's logicPorcMutex while it reads and  *)
(* handles one package; the mutex is released where the answer has been    *)
(* sent, in sendMsg or, after a partial send, in sendRemainMsg, which is a *)
(* task of its own.                                                        *)
(***************************************************************************)
EXTENDS Framing, Sending, FiniteSets

CONSTANT Task   \* tasks of this connection that may be outstanding at a time

ASSUME ETAssumption == IsFiniteSet(Task) /\ Task # {}

VARIABLES
    pc,                 \* where each task is
    arrived, fin,       \* bytes in the kernel so far; the client has closed
    readEdge,           \* epoll_wait will report the socket readable
    m_onlineUserCount,
    released,           \* history: how often the connection was released
    overlapped          \* history: a task read while another one was resetting

netVars == <<arrived, fin, readEdge>>
connVars == <<m_onlineUserCount, released, overlapped>>
taskVars == <<delivered, taken, open, kicked>>
etVars == <<vars, sendingVars, pc, netVars, connVars>>

ETInit ==
    /\ Init
    /\ SendingInit
    /\ pc = [t \in Task |-> "idle"]
    /\ arrived = 0 /\ fin = FALSE /\ readEdge = FALSE
    /\ m_onlineUserCount = 1 /\ released = 0 /\ overlapped = FALSE

Goto(t, place) == pc' = [pc EXCEPT ![t] = place]

-----------------------------------------------------------------------------
(* The network.                                                            *)

ClientSends(len) ==
    /\ ~fin
    /\ SendPackage(len)
    /\ UNCHANGED <<sendingVars, pc, netVars, connVars>>

\* A segment of the stream arrives, which is an edge.
Arrive(n) ==
    /\ open
    /\ arrived + n <= total
    /\ arrived' = arrived + n
    /\ readEdge' = TRUE
    /\ UNCHANGED <<vars, sendingVars, pc, fin, connVars>>

\* So is the end of the stream.
ClientCloses ==
    /\ ~fin /\ arrived = total
    /\ fin' = TRUE
    /\ readEdge' = TRUE
    /\ UNCHANGED <<vars, sendingVars, pc, arrived, connVars>>

-----------------------------------------------------------------------------
(* The main thread.                                                        *)

ngx_read_request_handler_ET(t) ==
    /\ ~crashed
    /\ interest = "read" /\ readEdge
    /\ pc[t] = "idle"
    /\ Goto(t, "lock")
    /\ readEdge' = FALSE
    /\ UNCHANGED <<vars, sendingVars, arrived, fin, connVars>>

ngx_write_request_handler(t) ==
    /\ ~crashed
    /\ interest = "write" /\ writeEdge
    /\ pc[t] = "idle"
    /\ Goto(t, "remain")
    /\ writeEdge' = FALSE
    /\ UNCHANGED <<vars, logicPorcMutex, interest, sendVars, stranded, doubled, crashed,
                   netVars, connVars>>

-----------------------------------------------------------------------------
(* recvproc_ET.                                                            *)

\* The end of plast_ET, run after the mutex has been released by sendMsg.
Resetting == {t \in Task : pc[t] = "reset"}

Lock(t) ==
    /\ ~crashed
    /\ pc[t] = "lock"
    /\ ~logicPorcMutex
    /\ logicPorcMutex' = TRUE
    /\ overlapped' = (overlapped \/ Resetting # {})
    /\ Goto(t, "loop")
    /\ UNCHANGED <<vars, eventVars, sendVars, stranded, doubled, crashed, netVars,
                   m_onlineUserCount, released>>

\* The bytes that recv finds, within the bound on what is read.
Unread == IF taken < MaxPkgs THEN arrived - got ELSE 0
Minimum(a, b) == IF a < b THEN a ELSE b

\* Mutant: that return does not unlock.
RecvNothing_KeepsLock(t) ==
    /\ ~crashed
    /\ pc[t] = "loop"
    /\ open /\ Unread = 0 /\ ~fin
    /\ Goto(t, "idle")
    /\ UNCHANGED <<vars, sendingVars, netVars, connVars>>

\* recv finds nothing: EAGAIN.
RecvNothing(t) ==
    /\ ~crashed
    /\ pc[t] = "loop"
    /\ open /\ Unread = 0 /\ ~fin
    /\ logicPorcMutex' = FALSE
    /\ Goto(t, "idle")
    /\ UNCHANGED <<vars, eventVars, sendVars, stranded, doubled, crashed, netVars,
                   connVars>>

\* recvproc releases the connection, at once or by a timer, and the task unlocks.
RecvReleases(t) ==
    /\ interest' = "none"
    /\ released' = released + 1
    /\ open' = FALSE
    /\ logicPorcMutex' = FALSE
    /\ Goto(t, "idle")
    /\ UNCHANGED <<frameVars, floodVars, clientVars, drifted, got, delivered, taken,
                   kicked, netVars, writeEdge, sendVars, stranded, doubled, crashed,
                   overlapped>>

\* recv returns 0: the client has closed, or an error was reported before.
RecvEnd(t) ==
    /\ ~crashed
    /\ pc[t] = "loop"
    /\ ~kicked /\ Unread = 0 /\ (fin \/ ~open)
    /\ m_onlineUserCount' = m_onlineUserCount - 1
    /\ RecvReleases(t)

\* recv fails: the client has reset the connection, or is lost; or the fd was
\* closed by ngx_free_con_self.  The online count is left as it is.
RecvFails(t) ==
    /\ ~crashed
    /\ pc[t] = "loop"
    /\ kicked \/ Unread = 0
    /\ UNCHANGED m_onlineUserCount
    /\ RecvReleases(t)

\* ngx_wait_request_handler_proc_p1_ET.  A package that is only a header goes
\* to the logic layer with the receive state untouched but for precvbuf.
ngx_wait_request_handler_proc_p1_ET(t, header, memory) ==
    \E e_pkgLen \in Declared(header) :
      LET p == NewPackage(e_pkgLen, header) IN
      \/ /\ RejectHeader(e_pkgLen)
         /\ AwaitHeader
         /\ taken' = taken + 1
         /\ package' = memory
         /\ UNCHANGED <<floodVars, pc>>
      \/ /\ ~RejectHeader(e_pkgLen)
         /\ e_pkgLen = m_iLenPkgHeader
         /\ package' = p
         /\ precvbuf' = [buf |-> "package", off |-> 0]
         /\ \E quick \in BOOLEAN :
               TestFlood(quick) /\ Goto(t, IF Flooded(quick) THEN "kick" ELSE "logic")
         /\ UNCHANGED <<curStat, irecvlen, taken>>
      \/ /\ ~RejectHeader(e_pkgLen)
         /\ e_pkgLen # m_iLenPkgHeader
         /\ AwaitBody(e_pkgLen)
         /\ package' = p
         /\ UNCHANGED <<floodVars, taken, pc>>

\* One turn of the loop with bytes to read, by the state of the connection.
ETReadHeader(t, ret, complete) ==
    /\ \/ complete /\ ngx_wait_request_handler_proc_p1_ET(t, dataHeadInfo', StoredBody(ret))
       \/ /\ ~complete
          /\ AwaitRest(ret, "HD_RECVING")
          /\ package' = StoredBody(ret)
          /\ UNCHANGED <<floodVars, taken, pc>>
    /\ UNCHANGED drifted

ETReadBody(t, ret) ==
    /\ package' = StoredBody(ret)
    /\ \/ /\ curStat = "BD_INIT"
          /\ \E quick \in BOOLEAN :
               /\ TestFlood(quick)
               /\ \/ /\ Flooded(quick)
                     /\ Goto(t, "kick")
                     /\ UNCHANGED <<curStat, irecvlen, precvbuf>>
                  \/ /\ ~Flooded(quick) /\ irecvlen = ret
                     /\ Goto(t, "logic")
                     /\ UNCHANGED <<curStat, irecvlen, precvbuf>>
                  \/ /\ ~Flooded(quick) /\ irecvlen # ret
                     /\ AwaitRest(ret, "BD_RECVING")
                     /\ UNCHANGED pc
          /\ UNCHANGED drifted
       \/ /\ curStat = "BD_RECVING" /\ irecvlen = ret
          /\ Goto(t, "logic")
          /\ UNCHANGED <<curStat, irecvlen, precvbuf, drifted, floodVars>>
       \/ /\ curStat = "BD_RECVING" /\ irecvlen # ret
          /\ AwaitRestOfBody(ret)
          /\ UNCHANGED <<pc, floodVars>>
    /\ UNCHANGED taken

RecvBytes(t) ==
    /\ ~crashed
    /\ pc[t] = "loop"
    /\ Unread > 0
    /\ LET ret == Minimum(irecvlen, Unread) IN
       /\ Received(ret)
       /\ dataHeadInfo' = StoredHead(ret)
       /\ \/ curStat = "HD_INIT" /\ ETReadHeader(t, ret, ret = m_iLenPkgHeader)
          \/ curStat = "HD_RECVING" /\ ETReadHeader(t, ret, irecvlen = ret)
          \/ ETReadBody(t, ret)
    /\ UNCHANGED <<clientVars, delivered, open, kicked, sendingVars, netVars, connVars>>

\* floodflag: the connection is closed, then the mutex released.
FloodKick(t) ==
    /\ ~crashed
    /\ pc[t] = "kick"
    /\ Kick
    /\ interest' = "none"
    /\ m_onlineUserCount' = m_onlineUserCount - 1
    /\ released' = released + 1
    /\ logicPorcMutex' = FALSE
    /\ Goto(t, "idle")
    /\ UNCHANGED <<frameVars, floodVars, clientVars, drifted, got, delivered, taken,
                   netVars, writeEdge, sendVars, stranded, doubled, crashed, overlapped>>

-----------------------------------------------------------------------------
(* threadRecvProcFunc, called by plast_ET.                                 *)

Handled ==
    /\ delivered' = Append(delivered, package)
    /\ taken' = taken + 1
    /\ UNCHANGED <<frameVars, floodVars, clientVars, drifted, got, open, kicked>>

\* A message with an unknown code, a header alone that is no ping, or a ping
\* with a body: the function or the handler returns at once.
LogicRefuses(t) ==
    /\ ~crashed
    /\ pc[t] = "logic"
    /\ "bad" \in Kinds
    /\ Handled
    /\ Goto(t, "reset")
    /\ stranded' = TRUE
    /\ UNCHANGED <<logicPorcMutex, eventVars, sendVars, doubled, crashed, netVars, connVars>>

HeaderOnly == DOMAIN package = HeaderBytes

_HandlePing(t) ==
    /\ ~crashed
    /\ pc[t] = "logic"
    /\ "ping" \in Kinds /\ HeaderOnly
    /\ Handled
    /\ PreparePing
    /\ Goto(t, "sendPing")
    /\ UNCHANGED <<logicPorcMutex, eventVars, stranded, doubled, crashed, netVars, connVars>>

_HandleBusiness(t) ==
    /\ ~crashed
    /\ pc[t] = "logic"
    /\ "business" \in Kinds /\ ~HeaderOnly
    /\ Handled
    /\ PrepareBusiness
    /\ Goto(t, "sendBusiness")
    /\ UNCHANGED <<logicPorcMutex, eventVars, stranded, doubled, crashed, netVars, connVars>>

sendMsg(t) ==
    /\ ~crashed
    /\ pc[t] \in {"sendPing", "sendBusiness"}
    /\ ~kicked /\ SendAnswer(pc[t] = "sendPing")
    /\ Goto(t, "reset")
    /\ UNCHANGED <<vars, doubled, crashed, netVars, connVars>>

sendMsgGoesRound(t) ==
    /\ ~crashed
    /\ pc[t] \in {"sendPing", "sendBusiness"}
    /\ GoesRound(pc[t] = "sendPing", kicked)
    /\ Goto(t, "round")
    /\ UNCHANGED <<vars, doubled, crashed, netVars, connVars>>

sendMsgGetsOut(t) ==
    /\ ~crashed
    /\ pc[t] = "round"
    /\ ~kicked /\ SendAnswer(FALSE)
    /\ Goto(t, "reset")
    /\ UNCHANGED <<vars, doubled, crashed, netVars, connVars>>

\* The last lines of plast_ET.
Reset(t) ==
    /\ ~crashed
    /\ pc[t] = "reset"
    /\ AwaitHeader
    /\ package' = NoPackage
    /\ Goto(t, "idle")
    /\ UNCHANGED <<dataHeadInfo, floodVars, clientVars, drifted, got, taskVars,
                   sendingVars, netVars, connVars>>

\* sendRemainMsg reads the message header through psendMemPointer, which only
\* _HandlePing sets.
sendRemainMsg(t) ==
    /\ ~crashed
    /\ pc[t] = "remain"
    /\ \/ /\ psendMemPointer = "null"
          /\ crashed' = TRUE
          /\ UNCHANGED <<pc, logicPorcMutex, eventVars, sendVars, stranded, readEdge>>
       \/ /\ psendMemPointer # "null"
          /\ SendRest
          /\ readEdge' = IF interest' = interest THEN readEdge ELSE Unread > 0 \/ fin
          /\ Goto(t, "idle")
          /\ UNCHANGED crashed
    /\ UNCHANGED <<vars, doubled, arrived, fin, connVars>>

-----------------------------------------------------------------------------
Net ==
    \/ \E len \in Lens : ClientSends(len)
    \/ \E n \in 1..(total - arrived) : Arrive(n)
    \/ ClientCloses
    \/ /\ \E t \in Task : pc[t] = "remain"
       /\ WriteSpace
       /\ UNCHANGED <<vars, pc, netVars, connVars>>

Main(t) == ngx_read_request_handler_ET(t) \/ ngx_write_request_handler(t)

Run(t) ==
    \/ Lock(t) \/ RecvNothing(t) \/ RecvEnd(t) \/ RecvFails(t) \/ RecvBytes(t)
    \/ FloodKick(t) \/ LogicRefuses(t) \/ _HandlePing(t) \/ _HandleBusiness(t)
    \/ sendMsg(t) \/ sendMsgGoesRound(t) \/ Reset(t)

GetsOut(t) == sendMsgGetsOut(t) \/ sendRemainMsg(t)

ETNext == Net \/ \E t \in Task : Main(t) \/ Run(t) \/ GetsOut(t)

ETSpec == ETInit /\ [][ETNext]_etVars

\* Bytes on the way arrive, the main thread handles events, and a pool thread
\* runs each task.  Nothing says that a loop of sendMsg or sendRemainMsg that
\* goes round is ever left.
ETFairSpec ==
    /\ ETSpec
    /\ WF_etVars(\E n \in 1..(total - arrived) : Arrive(n))
    /\ WF_etVars(\E t \in Task : Main(t))
    /\ \A t \in Task : WF_etVars(Run(t))

-----------------------------------------------------------------------------
(* Properties.                                                             *)

Critical == {t \in Task : pc[t] \in {"loop", "kick", "logic", "sendPing",
                                     "sendBusiness", "round", "remain"}}

\* Between the lock of recvproc_ET and the unlock where its answer has been
\* sent, be it by another task, no second task reads, handles or sends, unless
\* a second edge came for the rest of one answer and queues a second task.
OneAtATime ==
    ~doubled =>
        /\ Cardinality(Critical) <= 1
        /\ Critical # {} => logicPorcMutex

\* As long as no task starts to read before another one's reset, packages are
\* whole however they arrive and whichever tasks read them.  (A second edge
\* would let a task unlock the mutex for another one, too.)
PackagesWholeET ==
    ~drifted /\ ~OutOfStep /\ ~overlapped /\ ~doubled => \A d \in DOMAIN delivered :
        \E i \in DOMAIN sent : Valid(sent[i].len) /\ delivered[d] = Package(i)

\* The flood test counts packages: TestFlood runs once for each, whichever
\* tasks read its pieces, unless the reset of another task comes between them.
KickedAfterCountET == ~overlapped /\ ~doubled => KickedAfterCount

\* The mutex is locked, by no task that reads or handles a message, while the
\* rest of an answer is to be sent.
AnswerPending ==
    logicPorcMutex /\ isendlen = 1 /\ \A t \in Critical : pc[t] = "remain"

GoingRoundET == \E t \in Task : pc[t] = "round"

\* Every task ends, so that its pool thread and the mutex serve others, unless
\* an answer goes round for ever or stays in the socket, or a message was refused
\* or its answer broken off, after which the mutex stays locked, or a second edge
\* came.
TasksFinish ==
    \/ <>[](GoingRoundET \/ AnswerPending)
    \/ \A t \in Task : pc[t] # "idle" ~> (pc[t] = "idle" \/ stranded \/ doubled)
=============================================================================
