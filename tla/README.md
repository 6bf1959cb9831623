# TLA+ models of ServerNginx

ServerNginx is a TCP and HTTP server in C++ in the manner of nginx: a master process
forks workers; a worker has one main thread with epoll and timers, and a pool of
threads that handle messages. The modules here model it from `main` to the bytes of
an answer, and above all the places in which threads, events and failures meet. TLC
checks them on small instances, and TLAPS proves every safety property and every
refinement that the passing runs check, for every size. Names of constants, variables and actions are those of the source wherever
TLA+ allows it; `PROJECT.json` maps each definition to the lines it stands for.

## Inventory

| Part | State it keeps | Operations | Hard behaviour | What makes it correct |
| --- | --- | --- | --- | --- |
| Thread pool (`misc/ngx_c_threadpool.cpp`) | `TaskBuf`, `busyNum`, `liveNum`, `exitNum`, `shutdown`, two mutexes, one condition variable | `AddTask`, `WorkThread`, `ManagerThread`, `RecycleThread`, `~CThread` | `AddTask` notifies under another mutex than the one workers wait with, so a notify can be lost; the manager decides on old figures; the destructor joins | tasks run once, in order, and are not stranded; counters exact; the pool within its bounds |
| Connection pool (`net/ngx_c_socket_conn.cpp`) | free list through `next`, counts, `iCurrsequence` of each object | `ngx_get_connection`, `More_Connection_Pool`, `ngx_free_connection` | growth at the limit; messages that outlive their connection | no connection lost or handed out twice; a stale message is recognised |
| Receiving (`net/ngx_c_socket_request.cpp`) | `curStat`, `precvbuf`, `irecvlen`, header and package buffers | `ngx_read_request_handler` (level-triggered), `recvproc_ET` (edge-triggered), `_p1`, `_plast` | the stream arrives in pieces; in edge-triggered mode several pool threads read one connection | packages whole, once, in order |
| Logic and sending (`logic/ngx_c_slogic.cpp`, `sendMsg`, `sendRemainMsg`) | `logicPorcMutex`, `isendlen`, `psendMemPointer`, `m_iov` | `threadRecvProcFunc`, `_HandlePing`, `_HandleBusiness`, sending whole or in parts | a mutex locked by one task and released by another; in level-triggered mode the main thread takes it too | exclusion; each task sends its own answer; every task ends; the main thread goes on |
| Flood test (`TestFlood`) | `FloodAttackCount`, `FloodkickLastTime` | one call per package | compared with `==`, reset by slow packages | nobody is kicked before `m_floodKickCount` packages |
| Life of a connection (`ngx_c_socket_accept.cpp`, `_ping.cpp`, `_conn.cpp`) | `m_timerQueuemap`, `lastPingTime`, `storePingTime`, `m_onlineUserCount`, `m_recyconnectionList` | accept, close in six ways, heartbeat thread, recycling thread | several ends of a connection at once; a map keyed by seconds; a mutex held while sleeping | given back once, and eventually |
| Timers (`app/ngx_c_timer.cpp`) and the worker's loop | `Timer_buf`, `id` | `AddTimer`, `DelTimer`, `SetTime`, `CheckTimer` | added by pool threads without a lock while the main thread waits | never early, never too often, not lost |
| Master (`proc/ngx_process_cycle.cpp`, `signal/ngx_signal.cpp`) | worker processes, pending signals | fork, `sigsuspend`, handler | signals that do not queue, and that arrive while workers are still being forked | the first death is noticed |
| HTTP parser and answers (`logic/ngx_c_http*.cpp`, `ngx_c_https.cpp`) | indexes and state of the parser, headers seen, file mapping, `m_write_buffer`, `m_iov`, all per connection | `Business`: `process_read`, `do_request`, `process_write`; `HttpWriteData` | state left from an earlier request; lines cut short; lengths in a narrow type; a mapping undone before it is sent | the answer is the one asked for; length, mapping and vector agree; parsing ends |
| Configuration (`app/ngx_c_conf.cpp`) | `m_ConfigItemList` | `Load`, `GetString`, `GetNum` | separators missing, repeated or in a comment; lines too long for the buffer | a value written as documented is read |
| Start-up and listening sockets (`app/nginx.cpp`, `proc/ngx_daemon.cpp`, `net/ngx_c_socket.cpp`) | `g_daemonized`, `m_ListenSocketList`, `m_worker_connections` | `main`, `ngx_daemon`, `ReadConf`, `ngx_open_listening_sockets`, `ngx_epoll_init` | one step of several fails and `main` goes on | no socket left open or unwatched; start-up ends |
| TLS, logging, process title, CRC32, memory | | | | not modelled, see below |

How they interact: `main` loads the configuration, becomes a daemon and opens the
sockets; the master forks the workers, which inherit them. In a worker the main thread
turns epoll events into calls of the receive
handlers and, in edge-triggered mode, into tasks of the pool. Handlers queue messages
as tasks; the task calls the connection's logic object, an HTTP server, and sends what
that has prepared. Every way a connection can end removes its epoll event and adds a timer; the
timer's callback moves the connection to `m_recyconnectionList`, from which the
recycling thread, a task of the pool that never returns, gives it back to the
connection pool. The heartbeat thread is the other such task. Messages and heartbeat
entries carry `iCurrsequence` so that their users can tell whether the connection is
still the same client's.

## Modules

| Module | Models | Composes, implements |
| --- | --- | --- |
| `ThreadPool` | the pool, `AddTask` and the destructor | implements `TaskService` |
| `TaskService` | a queue whose tasks start in order, each once | |
| `MCThreadPool` | symmetry for TLC | |
| `ThreadPoolProofs` | theorems about `ThreadPool` | |
| `ConnPool` | the free list and its growth | implements `ConnService` |
| `ConnService` | a set of connections of which some are held | |
| `ConnPoolProofs` | theorems about `ConnPool` | |
| `Framing` | receive state of a connection, flood test | |
| `FramingProofs` | lemmas about the stream and the receive state, for both modes | |
| `Sending` | preparing and sending an answer, the rest of one | |
| `RecvLT` | level-triggered reading by the main thread | extends `Framing` and `Sending`, implements `PackageStream` |
| `PackageStream` | packages taken and delivered in order | |
| `HandleLT` | level-triggered mode as a whole: main thread, a task for each package | extends `RecvLT` |
| `RecvET` | edge-triggered tasks that read, handle, answer | extends `Framing` and `Sending` |
| `EpollProofs` | theorems about `HandleLT` and `RecvET` | |
| `Http` | the HTTP server object of a connection | |
| `MCHttp` | requests and files for TLC | |
| `HttpProofs` | theorems about `Http` | |
| `Lifecycle` | accept, ping, close, release | uses the pool as the set `ConnService` |
| `LifecycleProofs` | theorems about `Lifecycle` | |
| `Timer` | timers and the loop of a worker | |
| `TimerProofs` | theorems about `Timer` | |
| `Config` | `Load` and `Get...` as operators on lines | |
| `Master` | forking, SIGCHLD | |
| `Startup` | `main`, daemon, listening sockets, workers' epoll | extends `Master` and `Config` |
| `MCStartup` | configuration files for TLC | |
| `StartupProofs` | theorems about `Startup` and `Config` | |

**ThreadPool.** `pc[t]` is the control point of each worker in `WorkThread`. The value
`"block"` is the window between the evaluation of the wait predicate and the sleep,
during which the worker holds `CThreadMutex` but `AddTask`, which takes only
`TQMutex`, may notify in vain. What happens under `TQMutex` is one step, because that
mutex is never held across a step of another thread. `Elastic` tells whether the
manager and recycler exist at all (`Tmin < Tmax`); the server creates a pool of five
and five. `Resident` are the two tasks that never return.

**ConnPool.** Objects are addresses, `next` is the link, and one growth is part of the
`ngx_get_connection` that needs it. `Garbage` are the values that freshly allocated
memory may have for `iCurrsequence`, which `More_Connection_Pool` does not
initialise. `headers` are messages and heartbeat entries on record.

**Framing, Sending, RecvLT, RecvET.** A byte is its position in the client's stream, so a
buffer shows exactly which bytes it holds. `drifted` records that the assignment
`irecvlen = ret` of a body's second piece gave a wrong value. A package puts as many
bytes on the wire as its header declares, at least a header. One that declares more than
the limit is refused by its header, and its body is then read as headers, which may
declare anything (`OutOfStep`, `Declared`); `MaxPkgs` bounds the packages that are read
as well as those sent. `RecvET` has a control
point per task; `readEdge` and `writeEdge` are events that epoll will report once.
What a message asks for (`Kinds`) and how much of an answer the socket takes (`Sends`)
are chosen where the code finds out. The loop of `sendMsg` has no branch for a write of
more than `isendlen`, which `m_iov` makes possible, nor for most errors: the task is then
at `"round"` (`GoesRound`), keeps the mutex, and may or may not ever leave. `recvproc`
releases the connection when the client closes (`RecvEnd`) and when `recv` fails
(`RecvFails`), where the online count is left as it is. `overlapped` records that a task began to read
while another one was still resetting the receive state, `stranded` that a task ended
on a path after which nobody unlocks the mutex.

**Lifecycle.** `main` is the main thread: in its loop, or waiting for `m_PingMutex` in
`ngx_add_check` or in one of the erasures. `"undefined"` follows `erase(end())`, about
which nothing is said further. `heart` is the heartbeat thread, which holds the mutex
in every state but `"wait"`; `"stuck"` is its attempt to lock it a second time. When it
moves an entry it reads `lastPingTime` twice, for the new key (`HeartReads`, into `first`)
and for `storePingTime` (`HeartMoves`), and a ping may come between; `torn` are the
connections for which one did.

**Timer.** `AddTimer` is three steps, for the main thread and for pool threads alike: the
time and `id` are read and `emplace` begins (the timer is in `node`), `emplace` ends, and
`id` is incremented. The multiset has no lock. An access that begins while another
caller is inside `emplace` sets `raced`; from then on the tree may be broken, and every
operation may lose any timers and take any for the first (`Begin`, `Becomes`). `shared`
says that two calls used `id` at the same time. `"undefined"` follows `CheckTimer` on an
empty multiset.

**HandleLT.** Every package delivered is a task in the sequence `task`, with the control
points queued, about to lock, about to send, going round in `sendMsg`, done. `main` is 0, or the number of bytes
of the read with which the main thread waits in `TestFlood`; while it waits no event
of any connection is handled. A second edge for the rest of one answer (`doubled`)
starts a second `sendRemainMsg`; `remain` counts them up to `MaxRemain`.

**Http.** A request is a sequence of cells: CR, LF, and the text of a line, of which is
told only what the parser finds in it (method, fault, header name and value). Lengths
count cells, each field of the answer has length 1, and lengths kept in an `unsigned
short` are reduced modulo `UShort`. Each member function is an operator from the
object to the object, so that what one request leaves in it is there for the next. The
URL is represented by what is found there, chosen at `do_request`. `mapped` is the
request whose file mapping exists, `again` records that `WriteData` was called before
for the same answer. `Outcome`, the reference, reads the request as a whole: its lines
(`IsLine`, `Lines`), whether each is accepted, and the last header of each name that
counts (`Given`, `LastOf`).

**Config, Startup, Master.** A line of the configuration is a sequence of tokens, the
separators and words; one that ends in `"..."` is longer than the buffer of `Load`.
`start` is where `main` is: `"exit"` and `"abort"` are its ends (`stoi` throws),
`"spin"` is the loop of `Load` on a failed stream. A socket is named by the index of
its port. Port 0 may be bound more than once, since `bind` then chooses one. `proc` are
the workers; `"stuck"` is one that has called `exit` in `ngx_epoll_init` and whose
`~CThread` waits for a thread of the pool, which missed its notify or runs a resident
task; `sigchld` is a single bit, as the kernel keeps it for
a blocked signal.

## Runs

| Run | Bounds | What it shows |
| --- | --- | --- |
| `pool` | 4 workers, 2 resident and 2 other tasks, spurious wake-ups | `TaskConservation`: no task lost or run twice; `ServiceLevel`: a lost notify costs at most one worker; `EveryTaskRuns`; `ExitCompletes`: the destructor ends if it finds the workers asleep |
| `pool_elastic` | 2 to 4 workers of 5 identities, 2 tasks | `LiveCount` exact; `LiveBounds`: the ceiling is kept, and the pool is at most one round below its floor; `GetTaskNeverFails`; implements `TaskService` |
| `conn` | 4 connections, one growth of 2, 7 acquisitions, 1 header | `FreeListExact`, `ExhaustedOnly`, `HeaderSound`; implements `ConnService` |
| `lt` | header of 2 bytes, packages of at most 5, declared lengths 1, 2, 3, 5, 6, three packages, kicked after two quick ones, all kinds of messages and all outcomes of sending | however the stream is cut into reads: `AsksForTheRestUntilDrift`, `PackagesWhole`, `StreamSpec`, `EveryPackageTaken`; with the tasks: `OwnAnswerSent`, and `MainResumes`: the main thread gets the tasks' mutex, unless an answer stays cut short or goes round for ever |
| `recv_lt_pieces` | header of 3 bytes, packages of at most 7 | violated: `AsksForTheRest` |
| `recv_et` | 2 tasks at a time, header of 2 bytes, packages of at most 6, 2 packages with declared lengths on and beyond both limits (1, 2, 6, 7), kicked after one quick one, all kinds of messages and all outcomes of sending | `OneAtATime`, `PackagesWholeET`, `KickedAfterCountET`, `TasksFinish` |
| `life` | 2 connections, 3 clients, a limit of 1, clock to 2 with a timeout of 2 | `ReleasedOnce`, `NoEventAfterRelease`, `OnlineNeverUnder`, `EntryKeyed`, `Recycled`, and `MutexComesFree`: the heartbeat thread lets go of the mutex again and again |
| `life_timeout` | 2 connections | violated: `MainReturns` |
| `timer` | 2 timers, main thread and one pool thread, delays 1 and 2, counts 1, 2 and for ever, clock to 3 | `FiresAsAsked`: never early and never too often; `NoTimerLost`; `EveryTimerFires` |
| `startup` | at most 2 workers; no file, a file like the shipped one, each of its lines changed in up to 15 ways, each line written twice, two ports 0; any system call that is looked at may fail, workers may be killed | `ConfigRead`: what is written as documented is what is read; `ListenExact`: sockets, list and what the workers watch agree; `StartupEnds`; `FirstReaped` |
| `http` | 2 requests on a connection, each out of 42, 7 kinds of file, all results of `writev`, `UShort` 16 | `FirstAnswerRight`: the answer to the first GET is that of the request read as a whole; `LengthAgrees` and `MappedWhenSent` also for the second, with what is stale; `Answered` |
| `http_again` | plain requests | violated: `EveryAnswerRight` |

Why the bounds are enough. The pool has, next to the residents, two workers and two
tasks: the smallest number at which one worker can be lost to a notify and another
must serve. In the elastic pool the manager can grow by a full step and shrink again.
The connection pool meets its limit exactly after one growth, and connections are used
again several times. Lengths lie on, just inside and just outside both limits of a
package; three packages let the flood count be reached, reset and reached again, and
let a read start in any state that a predecessor leaves, also in the body of one that
was refused; a body of three bytes may
come in three pieces, and three tasks may compete for the mutex. In edge-triggered mode
two packages already give 200,000 states and three more than two million, hence the flood
count of one there; `lt` has the larger figures, and `KicksAreCountedET` holds for any. Two requests are the
least at which stale fields matter, and the second leaves no field in a state the first
could not; the files include one that is empty, one whose length does not fit `UShort`
and one that a range meets, exceeds or ends at. The configurations change one line at
a time because lines meet only in the list of items, where the first of a name counts
(hence the ones written twice). Two workers let one die while the other is being
forked, and two deaths share a signal. Three clients on two
connections give a connection a second client while the first one's timer, list entry
and heartbeat entry may all still exist. Two timers suffice for an order, an equal id
and an erasure of the wrong one. The bounds `MaxAcq`, `MaxHeaders`, `MaxPkgs`,
`MaxAccepts`, `MaxTime`, `MaxRequests`, `MaxRemain`, `MaxWorkers` stop counters that would otherwise run for ever, which is why
most configurations do not check for deadlock.

Fairness. Threads that can run do (`WF` of each worker, of the tasks, of the heartbeat
and recycling thread, of the main thread's handling of reported events in `HandleLT` and
`RecvET`, of the steps of its loop and of a call of `AddTimer` under way in `Timer`, of
`process_read` in `Http`, of `main` and the forked workers in `Startup`), which is what
the operating system promises. A spurious wake-up, a call of `AddTask` or `exit` and the
actions of clients are never assumed to happen. Nor is anything assumed that only the
load, the client or the mutex decides:

- The steps that leave the loop of `sendMsg` once it has gone round, and `sendRemainMsg`,
  have no fairness: a client that reads can keep them going. `MainResumes`,
  `EveryPackageTaken` and `TasksFinish` are about behaviours in which no task goes round
  for ever and no answer stays cut short; an answer that is finished late exempts nothing.
- `TimedOut` is weakly fair only. `EveryTimerFires` holds, or waits are cut short by
  events for ever (`[]<><<ngx_epoll_process_events>>_vars`).
- Release timers in `Lifecycle` have no fairness: `Recycled` is about workers that come
  to serve all of them again and again.
- `m_PingMutex` is held over a `sleep(1)` and locked again at once, and `std::mutex`
  promises the main thread nothing. That the heartbeat thread lets it go is
  `MutexComesFree`; that the main thread then gets it is not stated. Only the violated
  run `life_timeout` assumes even this (`FairMutexSpec`, strong fairness of `MainStep`),
  so that its counterexample is the deadlock and not the unfair mutex.

Strong fairness is otherwise assumed once, of the signal handler in `Startup`: a SIGCHLD
that is pending each time the master unblocks signals is delivered, although other
signals may be delivered first.

## What the code does not guarantee

Three runs show that a property which the source states does not hold:

- `recv_lt_pieces`: a body that comes in three pieces or more. In `_pkg_bd_recving`
  the code has `irecvlen = ret` where all other branches have `irecvlen -= ret`, and
  the next `recv` asks for the wrong number of bytes
  (`net/ngx_c_socket_request.cpp:342`).
- `life_timeout`: `ngx_time_check` calls `ngx_free_con_self`, which locks
  `m_PingMutex` again. From the first client that times out, the heartbeat thread
  waits for itself and the main thread, at its next accept or close, for it.
- `http_again`: `init` is called by the constructor of the HTTP server only. A second
  request on a connection is parsed from where the first one ended, with its headers,
  and its answer is appended to the first answer.

For the following the models contain the behaviour, and the properties of the passing
runs are stated around it:

- The destructor's `notify_one` is sent without `CThreadMutex`; a worker about to fall
  asleep misses it and the join hangs, as it does for a resident task, which ends only
  when `~CSocket` sets `m_shutdown` later. `ExitCompletes` speaks of workers that are
  asleep. A worker process that calls `exit` in `ngx_epoll_init` may therefore stay,
  neither serving nor gone (`"stuck"` in `Startup`; `StartupEnds` counts it).
- `More_Connection_Pool` links `CREATECONNUM` objects also when the limit allowed the
  allocation of fewer. `WholeBlocks` is the assumption that this does not happen:
  half of `m_worker_connections` is a multiple of `CREATECONNUM`. `m_free_connection_n`
  is not increased by growth and becomes negative.
- `TestFlood` and its callers do not read `m_floodAkEnable`: clients are kicked also
  when the test is configured off.
- Edge-triggered mode: `sendMsg` unlocks `logicPorcMutex`, and only then is the receive
  state reset, which the next task may already use (`ngx_c_socket_request.cpp:491`; the
  history variable `overlapped` of `RecvET`). Then a package can be torn, and one can be
  counted by the flood test and not delivered, so that a client is kicked a package too
  early: `PackagesWholeET` and `KickedAfterCountET` speak of runs without overlap. A refused message (`threadRecvProcFunc`,
  early returns) and a broken answer leave the mutex locked; a task ends after one
  package although more may have arrived; two tasks that see the end of the stream
  both release the connection. `TasksFinish` names the exceptions; `RecvET` ends
  where the connection is released.
- Level-triggered mode: if an answer is cut short while the main thread waits in
  `TestFlood`, its rest is never sent, because only the main thread queues
  `sendRemainMsg`, and the worker process stops (`CutShort` in `MainResumes`). Answers
  may be sent in another order than their requests.
- Both modes: `sendMsg` goes round, with `logicPorcMutex` locked, when a write gives more
  than `isendlen` (a ping after an HTTP answer, a long file, some error answers) or fails
  in a way it has no branch for, for as long as the client reads what is written again
  and again; in level-triggered mode the main thread then waits in `TestFlood` with all
  connections (`GoingRound`, `GoingRoundET`). `sendRemainMsg` goes round likewise.
- Both modes: a package that declares more than the limit is refused by its header, and
  its body is read as headers from there on (`OutOfStep`). What `recv` asks for still fits
  the buffers (`AsksForTheRestUntilDrift`), but the packages delivered need not be the
  client's.
- Both modes: the answer to a ping is written from `m_iov`, which is empty or another
  answer's; `sendRemainMsg` reads through `psendMemPointer`, which is null after a
  business message; it may run twice when epoll reports the socket writable once more
  (`doubled`).
- Closing by reset or error does not decrement `m_onlineUserCount`, and neither does a
  failed `ngx_epoll_opr_event`: the count is only known not to be too low
  (`OnlineNeverUnder`). The limit is tested before the new client is counted, so one
  client more than `m_worker_connections` is let in.
- `m_timerQueuemap` is keyed by the second. Closing one client may erase the entry of
  another one of the same second, who is then not checked any more, and whose own
  close finds no entry; the branch for `ECONNRESET` looks for `lastPingTime`, which is
  no key after a ping. `EntryKeyed` is what does hold: an entry that exists is stored
  under `storePingTime`, unless a ping came between the two unlocked reads of
  `lastPingTime` at `ngx_c_socket_ping.cpp:103` and `104` (`torn`); then its key is older,
  and the close of that client finds no entry, or another one's.
- A timer that a pool thread adds does not shorten the wait under way (`Overlooked`),
  overlapping calls of `AddTimer` may share an id, after which `DelTimer` removes both
  timers (`shared`), and its `emplace` races with the main thread's uses of the same
  multiset, which takes no lock (`raced`): a timer may then be lost, and the connection
  that it would release with it. The properties of `Timer` hold up to the first race, and so
  say what a lock in `Timer` would be enough for.
- The signal handler reaps one child per SIGCHLD, and two deaths may leave one signal:
  `FirstReaped` is about the first zombie, later ones may stay (`ngx_signal.cpp:146`).
- HTTP: the answers to HEAD and OPTIONS say 200 whatever was found, HEAD with a length
  that counts a file which is not sent; POST prepares no answer, so that a former one
  or nothing is sent; error answers count the `Connect-Length` of the request; an
  empty file gives 500. For these `isendlen` and the vector differ, and for a long file
  `pkgLen` wraps: `sendMsg` then goes round or waits. `HttpWriteData` unmaps the file
  after every `writev`, so that a retry reads what is no longer there. A header without
  a colon, or with a value that `stoi` rejects, ends the process (`"aborted"`).
  `LengthAgrees` and `MappedWhenSent` are stated for GET answers with a file and for
  the first call. `m_write_buffer` is never reset, and its size is not tested.
- Start-up: `main` decides about the daemon by what `GetNum` returns, that the entry was
  found, and not by the value stored, so that `Daemon = 0` makes a daemon too
  (`nginx.cpp:49`, while `nginx.conf` says "1开启 0关闭"); without `WorkerProcesses` the number of workers is uninitialised; a
  failed `Initialize` is logged, and the workers serve the sockets opened before it; a
  line of 500 bytes or more makes `Load` go round for ever. A port other than 80 and
  443 is listened to, but has no logic object (`ngx_c_socket_accept.cpp:115`).

## Proofs

All theorems hold for every value of the constants that satisfies the named assumptions
of the modules, which TLC evaluates: `PoolAssumption` (finite sets of threads and
residents, `minNum <= maxNum`, no more workers than identities), `ConnAssumption`,
`TimerAssumption`, `LifeAssumption` and `MasterAssumption` (positive sizes, delays and
counts), `FramingAssumption` (a header is not empty and a package has room for it),
`SendingAssumption`, `ETAssumption` (finitely many tasks), `ConfigAssumption` (the words
that are numbers are no separators), `FilesAssumption` (a file is a sequence of
lines, a line one of tokens), `HttpAssumption` and `InputAssumption` (a request is a
sequence of cells in which a text reaches to the end of its line, so that no two texts
are neighbours; a file has a size and a time). The bounds of the runs (`MaxPkgs`, `MaxTime` and the like)
are arbitrary natural numbers in the proofs.

`ThreadPoolProofs`:

- `GetTaskSafe`: `MutualExclusion` and `GetTaskNeverFails`. The invariant is
  `MutexInv`: at most one worker is in the critical section, and (`Knows`) one that has
  found the predicate true still sees it true, since only the holder of
  `CThreadMutex` removes tasks. The second part is what makes it inductive.
- `TypeCorrect`: `TypeOK` and `BusyCount`. That `busyNum` is a natural number follows
  only from its being the number of busy workers; `Typed`, the part of the type
  invariant that needs no counting, is proved first.
- `TasksConserved`: `TaskConservation`. Steps are divided into those that add, take
  and finish a task and those that touch neither queue nor running tasks
  (`StepKinds`); the set of queued tasks after `Append` and `Tail` is computed in two
  lemmas.
- `Refinement`: the pool implements `TaskService`, with the queue, the tasks of running
  workers and the finished ones as refinement mapping.
- `NoLostTask`: `ServiceLevel` and `NoStrandedTask` for a pool of fixed size. The
  invariant adds `FixedCrew` (without a manager all workers stay). A notify either
  wakes a worker, or nobody is asleep and at most one worker, the holder of the mutex,
  is about to be: hence at most one available worker is missing.
- `CrewCounted` and `CrewBounded`: `LiveCount` and `LiveBounds`, also for a pool that
  grows and shrinks. `LiveInv` adds what the manager's snapshot still promises when it is used
  (`SnapshotBounds`): since it was taken, workers only left.

`ConnPoolProofs`, as long as growth fits the limit (`WholeBlocks`):

- `PoolSafe`: `TypeOK`, `FreeListSafe` and `HeaderSound`. The invariant `IInv` says
  that the remaining growth is a whole number of blocks (`Blocks`), that only
  allocated objects are held, that the list is injective with no link to its head
  (`ListSafe`) and that recorded sequence numbers are never ahead (`HeadersKnown`).
- `PoolRefines`: the linked list implements the set of `ConnService`.
- `ListIsExact` and `RefusesWhenFull`: `FreeListExact` and `ExhaustedOnly`. The list is given by a witness, a
  sequence of all free objects in the order of the links (`Listed`), which every action
  changes in one place. That following the links visits exactly its elements is a
  statement about a recursive function; it is proved with a least counterexample
  (`NatMin`: a non-empty set of natural numbers has a least element, from the
  well-foundedness of finite sets), which stands for an induction.

`TimerProofs`, `TimersFireAsAsked` and `TimersAreKept`: `FiresAsAsked` and `NoTimerLost`.
Until accesses of the multiset overlap, at most one caller is inside `emplace`, and the main
thread is then outside the multiset; each timer, stored or on its way,
owes what its request leaves (`TimerOK`: due no earlier than allowed after the request
and after every shot; shots made and shots left add up to the count), there is one
timer per job, and ids are given once until two calls share one (`IdsUnique`, which has to
speak of a call between its use of `id` and the increment).

`LifecycleProofs`:

- `ReleasesAreSingle` and `ReleasedIsSilent`: `ReleasedOnce` and `NoEventAfterRelease`. `OneRelease`: a release
  under way is in one place, the timer or the list, and its connection is held and not
  watched. It holds while heartbeat and main thread go on (`Alive`).
- `OnlineCounted`: `OnlineNeverUnder`, by the finiteness of the set of watched
  connections.
- `EntriesKeyed`: `EntryKeyed`. Entries are never ahead of their connection's sequence
  number, those of its present client are under `storePingTime`, or an older time if they
  are torn, and there is one; a
  connection about to be filed has none yet (`NotYetFiled`). Between its two reads the
  heartbeat thread knows that `lastPingTime` only grows.

`FramingProofs` are the lemmas that both modes need. `Layout` says that the client's
packages follow each other without gaps; `Frame` says what each value of `curStat` means
for the position reached in the stream (`AtHeader`, `AtBody`); a read then either
completes what was asked for or leaves the rest to be asked for.

`EpollProofs`, one connection in level-triggered mode with any number of tasks:

- `ReadsAskForTheRest`, `PackagesAreWhole` and `KicksAreCounted`:
  `AsksForTheRestUntilDrift`, `PackagesWhole` and `KickedAfterCount`, from `FrameInv`. That a
  read asks for what its buffer lacks (`Asks`) is an invariant of its own, because it holds
  out of step too, when `Frame` says nothing. The flood count is behind the packages delivered,
  but for the one whose body is being received (`FloodCounts`).
- `StreamImplemented`: receiving implements `PackageStream`; the mapping recovers the
  number of each delivered package, which is unique because packages are laid out apart.
- `AnswersAreOwn`: `OwnAnswerSent`. `SendInv` follows the mutex from the task that
  locked it through the writable event to the task that sends the rest.

and any number of tasks in edge-triggered mode:

- `TasksExclusive`: `OneAtATime`, from `MutexInv`: at most one task is between lock and
  unlock, and the mutex is also locked, with no such task, from a partial send to the
  event that queues its rest.
- `PackagesAreWholeET` and `KicksAreCountedET`: `PackagesWholeET` and
  `KickedAfterCountET`. `TurnInv` extends
  the mutex over the reset after the unlock, as long as nobody overlaps it: one task at
  most uses the receive state, and its place says what that state is (`At`), as far as the
  stream is read in step (`InStep`). The attempt
  to prove `KickedAfterCount` without that condition failed rightly: with
  `m_floodKickCount = 2` a late reset discards a package that was counted.

`StartupProofs`:

- `SocketsListed`: `ListenExact`. The list, the open sockets and the bound ports grow
  together (`ListInv`), in one phase of start-up (`PhaseInv`), before there is a worker
  (`WorkerInv`).
- `ConfigIsRead`: `ConfigRead`. `DocumentedItem` computes what `find` and `substr` cut
  out of a documented line of any length; `ItemsInv` ties the list of items to the lines
  read, the first item of a name to the first line of it. The proof showed that a name
  has to be a word (`Documented`): a line that begins with `=` has an empty name.

`HttpProofs`:

- `LengthIsRight` and `FileIsMapped`: `LengthAgrees` and `MappedWhenSent`, for any number
  of requests of a connection. The invariant `HttpInv` says of the object that is parsed
  only that it keeps its type (`Server`): what makes the answer consistent is established
  after the parser, whatever it left behind. `do_request` leaves an object whose
  `m_content_length` is that of the file or of a range that lies in it (`Prepared`), and
  the callbacks of `m_header_func_vec`, of which stale ones may be run, keep this
  although one of them overwrites the range (`Writes`; a fold, treated by a least
  counterexample as the list of `ConnPool` is).
- `FirstAnswerIsRight`: `FirstAnswerRight`, for requests of any number of lines. The
  invariant `ReadInv` says where the loop of `process_read` is in the first package: it
  has accepted `n` lines, both indexes are at `3 n`, and the length, the range and the
  time in the object are those of the last such header among these lines (`Gone`,
  `Numbers`); or it waits for a body that was announced. `ParsedLine` computes what
  `parse_line` finds there, `FirstTurn` what a turn of the loop makes of it, and
  `NumbersAsk` that the numbers at the blank line are what the request as a whole asks
  for. The induction over the lines is thus the one over the steps of the loop, which is
  why it is within the prover's reach. The proof needs nothing of a second request, for
  which the property does not hold (`http_again`).

Only model-checked: liveness (TLAPS does not treat fairness and `ENABLED`), that is
`EveryTaskRuns`, `ExitCompletes`, `EveryPackageTaken`, `MainResumes`, `TasksFinish`,
`Recycled`, `MutexComesFree`, `EveryTimerFires`, `StartupEnds`, `FirstReaped` and
`Answered`; and what the three violated runs show. Every invariant and every refinement
of the passing runs is a theorem.

## Not modelled

- TLS: the handshake loop of `ngx_event_accept`, `SSL_read` and `SSL_write` are steps of
  OpenSSL's state machine, of which this code keeps only the handles; its
  `Business` is the same as that of HTTP. `HttpsWriteData` adds up the results of
  several `SSL_write` calls, errors included.
- Logging: output only, which no other part reads. Process titles: the environment is
  moved once. CRC32: its check is commented out. The memory wrapper: `new` and `delete`.
- The vectors `ThreadBuf` and `PackBuf` of the elastic pool, which growth may reallocate
  while threads refer to them, are represented by thread identities.
- In `Http` the text of answers, dates, the weights of `Accept` (kept in copies that
  nobody reads) and the size of `m_write_buffer`; what `sendRemainMsg` does is in
  `Sending`.
- In `Lifecycle` a full connection pool is not reached with the bounds given;
  `ConnPool` covers it. Errors of `accept4` that change nothing are left out.
- In `Startup`, `ngx_close_listening_sockets`, which nobody calls.

## Plan

Done: thread pool, connection pool, receiving, handling and sending in both modes, life
of connections, timers, HTTP, configuration, start-up and master; theorems about all of
these but the master, whose one property is a liveness property.

1. A composition of `ConnPool`, `Timer` and `RecvET`: a connection released twice, and
   one that is used again while a task of its last client still holds the mutex that
   `ngx_get_connection` clears.
2. The handshake of TLS, with what `SSL_read` and `SSL_write` may return as external
   choices.
