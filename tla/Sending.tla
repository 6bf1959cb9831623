------------------------------- MODULE Sending -------------------------------
(***************************************************************************)
(* How the answer to a message leaves: _HandlePing or _HandleBusiness      *)
(* prepares it, sendMsg writes it and releases logicPorcMutex, and what    *)
(* the socket does not take is left to sendRemainMsg, a task that the main *)
(* thread queues when epoll reports the socket writable.  That report is   *)
(* always edge-triggered.  The operators are the same for both modes of    *)
(* reading; RecvET and HandleLT say when they run.                         *)
(*                                                                         *)
(* What a message asks for and how much of its answer the socket takes are *)
(* chosen where the code looks at them.                                    *)
(***************************************************************************)
CONSTANTS
    Kinds,      \* messages clients send: subset of {"ping", "business", "bad"}
    Sends       \* what writing an answer may give: ret as long as isendlen, less, EAGAIN,
                \* EPIPE or ECONNRESET, more than isendlen, any other error

ASSUME SendingAssumption ==
    /\ Kinds \subseteq {"ping", "business", "bad"}
    /\ Sends \subseteq {"whole", "part", "again", "broken", "more", "error"}

VARIABLES
    logicPorcMutex,     \* TRUE: locked
    interest,           \* the event epoll watches for
    writeEdge,          \* epoll_wait will report the socket writable
    isendlen,           \* 1: there is something left to send
    psendMemPointer,    \* what the answer is freed through, and recognised by
    m_iov_count,        \* 1: an HTTP answer has been prepared on this connection
    stranded,           \* history: the mutex was left locked with nobody to unlock
    doubled,            \* history: a second edge for the rest of one answer
    crashed

sendVars == <<isendlen, psendMemPointer, m_iov_count>>
eventVars == <<interest, writeEdge>>
sendingVars == <<logicPorcMutex, eventVars, sendVars, stranded, doubled, crashed>>

SendingInit ==
    /\ logicPorcMutex = FALSE
    /\ interest = "read" /\ writeEdge = FALSE
    /\ isendlen = 0 /\ psendMemPointer = "null" /\ m_iov_count = 0
    /\ stranded = FALSE /\ doubled = FALSE /\ crashed = FALSE

\* epoll_ctl fails for a connection that is no longer registered.
Watch(event) == interest' = IF interest = "none" THEN "none" ELSE event

-----------------------------------------------------------------------------
\* _HandlePing allocates the reply; Business prepares the answer in m_iov.
PreparePing ==
    psendMemPointer' = "reply" /\ isendlen' = 1 /\ UNCHANGED m_iov_count
PrepareBusiness ==
    m_iov_count' = 1 /\ isendlen' = 1 /\ UNCHANGED psendMemPointer

\* WriteData writes m_iov, whatever is to be sent, and all of it each time: for
\* a ping nothing, or else the last HTTP answer; for that, isendlen may be less.
WriteFunc(ping) == IF ping /\ m_iov_count = 0 THEN {"part"} ELSE Sends

SendDone == isendlen' = 0 /\ psendMemPointer' = "null" /\ UNCHANGED m_iov_count

\* Mutant: the mutex is released although the answer is still being sent.
SendAnswer_UnlocksEarly(ping) ==
    /\ \E ret \in WriteFunc(ping) :
         \/ /\ ret = "whole"
            /\ SendDone
            /\ UNCHANGED eventVars
         \/ /\ ret \in {"part", "again"}
            /\ Watch("write")
            /\ writeEdge' = TRUE
            /\ UNCHANGED sendVars
    /\ logicPorcMutex' = FALSE
    /\ UNCHANGED stranded

\* Mutant: the mutex stays locked.
SendAnswer_KeepsLock(ping) ==
    \E ret \in WriteFunc(ping) :
       \/ ret = "whole" /\ SendDone /\ UNCHANGED <<logicPorcMutex, eventVars, stranded>>
       \/ /\ ret \in {"part", "again"}
          /\ Watch("write")
          /\ writeEdge' = TRUE
          /\ UNCHANGED <<logicPorcMutex, sendVars, stranded>>

\* The branches that leave the loop of sendMsg.
SendAnswer(ping) ==
    \E ret \in WriteFunc(ping) :
       \/ /\ ret = "whole"
          /\ SendDone
          /\ logicPorcMutex' = FALSE
          /\ UNCHANGED <<eventVars, stranded>>
       \/ /\ ret = "broken"
          /\ SendDone
          /\ stranded' = TRUE
          /\ UNCHANGED <<logicPorcMutex, eventVars>>
       \/ /\ ret \in {"part", "again"}
          /\ Watch("write")
          /\ writeEdge' = TRUE
          /\ UNCHANGED <<logicPorcMutex, sendVars, stranded>>

\* There is none for a ret longer than isendlen, or for another error, which is
\* all that the fd of a kicked connection gives: the loop goes round, and writes
\* m_iov again.
GoesRound(ping, closed) ==
    /\ closed \/ WriteFunc(ping) \cap {"more", "error"} # {}
    /\ UNCHANGED <<logicPorcMutex, eventVars, sendVars, stranded>>

\* The connection was closed and recycled before sendMsg or sendRemainMsg.
SendStale ==
    /\ SendDone
    /\ logicPorcMutex' = FALSE
    /\ UNCHANGED <<eventVars, stranded>>

\* The loop of sendRemainMsg is left when a write gives just what isendlen is,
\* or the client is gone; it goes round for anything else.
SendRest ==
    /\ \E ret \in WriteFunc(TRUE) \cap {"whole", "broken"} :
          \/ ret = "whole" /\ Watch("read")
          \/ ret = "broken" /\ UNCHANGED interest
    /\ SendDone
    /\ logicPorcMutex' = FALSE
    /\ UNCHANGED <<writeEdge, stranded>>

\* Room in the socket after sendRemainMsg has filled it is one more edge.
WriteSpace ==
    /\ ~crashed
    /\ interest = "write" /\ isendlen = 1 /\ "part" \in Sends
    /\ writeEdge' = TRUE /\ doubled' = TRUE
    /\ UNCHANGED <<logicPorcMutex, interest, sendVars, stranded, crashed>>
=============================================================================
