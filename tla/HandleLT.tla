------------------------------ MODULE HandleLT ------------------------------
(***************************************************************************)
(* A connection in level-triggered mode: the main thread reads, as RecvLT  *)
(* describes, and every package is handled by a task of its own on the     *)
(* thread pool.  A task takes logicPorcMutex when it has looked at its     *)
(* message, and the mutex is released where the answer has been sent.      *)
(*                                                                         *)
(* The main thread takes the same mutex in TestFlood and waits for it      *)
(* there, with every other connection of the worker process.               *)
(***************************************************************************)
EXTENDS RecvLT

VARIABLES
    main,       \* 0, or the bytes with which the main thread waits in TestFlood
    task,       \* per delivered package, where its task is
    remain,     \* tasks sendRemainMsg that are queued or run
    stale,      \* iCurrsequence has changed: the connection was recycled
    answer      \* history: the package whose answer was prepared last

MaxRemain == 2  \* bound on them

handleVars == <<main, task, remain, stale, answer>>
ltVars == <<vars, sendingVars, handleVars>>

LTInit ==
    /\ Init
    /\ SendingInit
    /\ main = 0
    /\ task = <<>>
    /\ remain = 0
    /\ stale = FALSE
    /\ answer = 0

\* In sendMsg; "round": its loop has gone round.
Sender == {"sendPing", "sendBusiness", "round"}

-----------------------------------------------------------------------------
(* The main thread.                                                        *)

\* A read that is complete, with what AddTask and ngx_free_con_self do.
ReadStep(ret) ==
    /\ ngx_read_request_handler(ret)
    /\ task' = IF Len(delivered') > Len(delivered) THEN Append(task, "queued") ELSE task
    /\ interest' = IF open' THEN interest ELSE "none"
    /\ UNCHANGED <<logicPorcMutex, writeEdge, sendVars, stranded, doubled, crashed,
                   remain, stale, answer>>

MainRead(ret) ==
    /\ ~crashed /\ main = 0 /\ interest = "read"
    /\ ReadStep(ret)
    /\ UNCHANGED main

HeaderComplete(ret) ==
    curStat \in {"HD_INIT", "HD_RECVING"} /\ irecvlen = ret

\* The read calls TestFlood, and a task holds the mutex.
MainWaits(ret) ==
    /\ ~crashed /\ main = 0 /\ interest = "read"
    /\ open /\ taken < MaxPkgs /\ got + ret <= total
    /\ logicPorcMutex
    /\ \/ curStat = "BD_INIT"
       \/ HeaderComplete(ret) /\ m_iLenPkgHeader \in Declared(StoredHead(ret))
    /\ main' = ret
    /\ UNCHANGED <<vars, sendingVars, task, remain, stale, answer>>

MainGoesOn ==
    /\ ~crashed /\ main # 0 /\ ~logicPorcMutex
    /\ ReadStep(main)
    /\ main' = 0

\* The client closes or is lost: recvproc or, while the rest of an answer is
\* waited for, ngx_evhup_handler finds out.
MainEnd ==
    /\ ~crashed /\ main = 0
    /\ HangUp
    /\ interest' = "none"
    /\ UNCHANGED <<logicPorcMutex, writeEdge, sendVars, stranded, doubled, crashed, handleVars>>

\* ngx_write_request_handler: the socket takes bytes again.
LTWrites ==
    /\ ~crashed /\ main = 0 /\ interest = "write" /\ writeEdge
    /\ remain < MaxRemain
    /\ remain' = remain + 1
    /\ writeEdge' = FALSE
    /\ UNCHANGED <<vars, logicPorcMutex, interest, sendVars, stranded, doubled, crashed,
                   main, task, stale, answer>>

\* ngx_time_tofree_connection, some time after the connection was closed.
Recycle ==
    /\ ~crashed /\ main = 0 /\ ~open
    /\ stale' = TRUE
    /\ UNCHANGED <<vars, sendingVars, main, task, remain, answer>>

-----------------------------------------------------------------------------
(* A task.                                                                 *)

Moves(d, from, to) == ~crashed /\ task[d] = from /\ task' = [task EXCEPT ![d] = to]

IsPing(d) == DOMAIN delivered[d] = HeaderBytes

\* threadRecvProcFunc or the handler returns before it locks: a header alone
\* that is no ping, a ping with a body, an unknown code, a stale message.
LTRefuses(d) ==
    /\ Moves(d, "queued", "done")
    /\ stale \/ "bad" \in Kinds
    /\ UNCHANGED <<vars, sendingVars, main, remain, stale, answer>>

LTAccepts(d) ==
    /\ Moves(d, "queued", "lock")
    /\ ~stale
    /\ (IF IsPing(d) THEN "ping" ELSE "business") \in Kinds
    /\ UNCHANGED <<vars, sendingVars, main, remain, stale, answer>>

\* Mutant: no lock.
LTLocks_Not(d) ==
    /\ Moves(d, "lock", IF IsPing(d) THEN "sendPing" ELSE "sendBusiness")
    /\ IF IsPing(d) THEN PreparePing ELSE PrepareBusiness
    /\ answer' = d
    /\ UNCHANGED <<vars, logicPorcMutex, eventVars, stranded, doubled, crashed,
                   main, remain, stale>>

\* _HandlePing and _HandleBusiness up to sendMsg.
LTLocks(d) ==
    /\ Moves(d, "lock", IF IsPing(d) THEN "sendPing" ELSE "sendBusiness")
    /\ ~logicPorcMutex
    /\ logicPorcMutex' = TRUE
    /\ IF IsPing(d) THEN PreparePing ELSE PrepareBusiness
    /\ answer' = d
    /\ UNCHANGED <<vars, eventVars, stranded, doubled, crashed, main, remain, stale>>

LTSends(d) ==
    /\ task[d] \in {"sendPing", "sendBusiness"}
    /\ Moves(d, task[d], "done")
    /\ \/ stale /\ SendStale
       \/ ~stale /\ ~kicked /\ SendAnswer(task[d] = "sendPing")
    /\ UNCHANGED <<vars, doubled, crashed, main, remain, stale, answer>>

\* The sequence number is not looked at again.
LTGoesRound(d) ==
    /\ task[d] \in {"sendPing", "sendBusiness"}
    /\ Moves(d, task[d], "round")
    /\ ~stale /\ GoesRound(task[d] = "sendPing", kicked)
    /\ UNCHANGED <<vars, doubled, crashed, main, remain, stale, answer>>

\* The fd of a recycled connection is closed, too.
LTGetsOut(d) ==
    /\ Moves(d, "round", "done")
    /\ ~stale /\ ~kicked /\ SendAnswer(FALSE)
    /\ UNCHANGED <<vars, doubled, crashed, main, remain, stale, answer>>

LTSendsRest ==
    /\ ~crashed /\ remain > 0
    /\ \/ /\ psendMemPointer = "null"
          /\ crashed' = TRUE
          /\ UNCHANGED <<logicPorcMutex, eventVars, sendVars, stranded, remain>>
       \/ /\ psendMemPointer # "null"
          /\ \/ stale /\ SendStale
             \/ ~stale /\ ~kicked /\ SendRest
          /\ remain' = remain - 1
          /\ UNCHANGED crashed
    /\ UNCHANGED <<vars, doubled, main, task, stale, answer>>

-----------------------------------------------------------------------------
Client ==
    \/ /\ \E len \in Lens : SendPackage(len)
       /\ UNCHANGED <<sendingVars, handleVars>>
    \/ remain > 0 /\ WriteSpace /\ UNCHANGED <<vars, handleVars>>

LTMain ==
    \/ \E ret \in 1..irecvlen : MainRead(ret) \/ MainWaits(ret)
    \/ MainGoesOn
    \/ LTWrites

LTRun(d) == LTRefuses(d) \/ LTAccepts(d) \/ LTLocks(d) \/ LTSends(d) \/ LTGoesRound(d)

LTNext ==
    \/ Client \/ LTMain \/ MainEnd \/ Recycle \/ LTSendsRest
    \/ \E d \in DOMAIN task : LTRun(d) \/ LTGetsOut(d)

LTSpec == LTInit /\ [][LTNext]_ltVars

\* The main thread handles the events that epoll reports at every epoll_wait,
\* and the pool runs the tasks, of which there are finitely many.  Nothing says
\* that a loop of sendMsg or sendRemainMsg that goes round is ever left.
LTFairSpec ==
    /\ LTSpec
    /\ WF_ltVars(LTMain)
    /\ WF_ltVars(\E d \in DOMAIN task : LTRun(d))

-----------------------------------------------------------------------------
(* Properties.                                                             *)

\* "有时用户会在上一条业务还未处理完成发来第二条数据，为避免业务之间冲突，所以加锁保护":
\* while a task sends, nobody else has prepared an answer in the connection's
\* send fields, and the main thread does not touch them.
OwnAnswerSent ==
    ~doubled => \A d \in DOMAIN task : task[d] \in Sender => answer = d /\ logicPorcMutex

\* An answer that the socket did not take whole, or that was broken off: the
\* mutex stays locked when its task is done.
CutShort ==
    /\ logicPorcMutex
    /\ isendlen = 1 \/ stranded
    /\ \A d \in DOMAIN task : task[d] \notin Sender

GoingRound == \E d \in DOMAIN task : task[d] = "round"

\* The main thread, with all the connections of the worker, waits in TestFlood
\* only for as long as a task is handling a message, unless that task goes round
\* for ever, or its answer stays cut short: the rest would be sent by a task
\* that only the main thread queues.
MainResumes ==
    <>[](GoingRound \/ CutShort) \/ (main # 0 ~> main = 0 \/ crashed)

\* Every package is read to its end, unless the connection closes, an answer
\* goes round for ever or stays cut short, the rest of one is never sent, or it
\* has crashed the process.
EveryPackageTaken ==
    \/ <>[](GoingRound \/ CutShort \/ interest = "write")
    \/ \A i \in 1..MaxPkgs :
          (Len(sent) >= i) ~> (taken >= i \/ ~open \/ drifted \/ OutOfStep \/ crashed)
=============================================================================
