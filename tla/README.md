# A TLA+ verification project for xfly-server

xfly-server is a small network server in the manner of nginx: a master process forks
workers, every worker runs an epoll loop over shared listening sockets and receives
length-prefixed packages from its clients; logging goes through the bundled library
fmtlog. This directory holds TLA+ modules translated from the source, the TLC
configurations that check them, and proofs checked by TLAPS. All paths below are
relative to the root of the repository.

## 1. Inventory

| component | source | state | operations |
|---|---|---|---|
| package receive path | `net/xfly_socket_request.cpp`, `_include/xfly_comm.h` | `curStat`, `precvbuf`, `irecvlen`, `dataHeadInfo`, the allocated buffer | `wait_request_handler`, `recvproc`, `.._proc_p1`, `.._proc_plast` |
| connection pool | `net/xfly_socket_conn.cpp`, `epoll_init` | array, chain of free connections, counter; per connection `fd`, `instance`, `iCurrsequence` | `get_connection`, `free_connection`, `close_connection` |
| event loop | `net/xfly_socket.cpp`, `proc/xfly_event.cpp` | `m_events`, what epoll holds | `epoll_init`, `epoll_add_event`, `epoll_process_event` |
| accepting clients | `net/xfly_socket_accept.cpp` | `use_accept4` | `event_accept`, `setnonblocking` |
| message queue, memory | `net/xfly_socket_request.cpp`, `misc/xfly_memory.cpp` | `m_MsgRecvQueue`, allocated buffers | `inMsgRecvQueue`, `tmpoutMsgRecvQueue`, `AllocMemory`, `FreeMemory` |
| master and signals | `proc/xfly_process.cpp`, `signal/xfly_signal.cpp` | signal masks, running handlers, children | `masterProcessCycle`, `spawnProcess`, `signalHandler`, `cleanWorker` |
| log queue | `log/fmtlog.h` (`SPSCVarQueueOPT`) | ring of blocks, three indices | `alloc`, `push`, `front`, `pop` |
| log collector and sink | `log/fmtlog.h`, `log/fmtlog-inl.h` | queues of all threads, heap, log infos, `membuf`, file | `log`, `poll`, `registerLogInfo`, `setLogFile`, thread exit |
| logging in signal handlers | `signal/xfly_signal.cpp`, `log/fmtlog-inl.h` | what an interrupted `log` or `poll` holds | `signalHandler` inside `log` and `poll` |
| time stamps | `log/fmtlog.h` (`TSCNS`) | seqlock, calibration | `calibrate`, `tsc2ns` |
| startup | `app/xfly.cpp`, `proc/xfly_daemon.cpp`, `open_listening_sockets` | descriptors, sessions, process tree, unwritten messages | `main`, `initLog`, `open_listening_sockets`, `createDaemon`, `startWorkProcess` |
| configuration | `app/xfly_conf.cpp`, `app/xfly_func.cpp` | list of items | `load`, `getString`, `getIntDefault`, `lStrip`, `rStrip` |

How they interact. The master forks the workers after it has opened the listening
sockets, which the workers share. A worker is one thread: `epoll_wait` fills `m_events`
with pointers to connections of the pool (the lowest bit of the pointer holds the
connection's instance bit), and each event calls the connection's `rhandler`:
`event_accept` for a listening socket, `wait_request_handler` for a client. The first
takes connections from the pool, the second collects packages, allocates buffers and
appends them to `m_MsgRecvQueue`. Nobody reads this queue yet; `tmpoutMsgRecvQueue`
trims it. Every part logs; a log statement puts a message in the ring of its thread,
and `fmtlog::poll` takes it out. xfly calls `poll` while it starts and in signal
handlers only, so what a worker logs in its loop waits for a signal.

What is hard:

* *Stale events.* Handlers run one after the other on a batch of events that was
  fetched before the first of them ran. A handler may close a connection another event
  of the batch points to, and the next may give the object and the descriptor to a new
  client.
* *Pieces.* The network cuts a package at any byte; four states must agree with a
  pointer and a remaining length.
* *Ownership.* A package buffer belongs to the connection, then to the queue.
* *Limits.* The pool, the descriptors, `XFLY_MAX_EVENTS` and the queue are bounded.
* *The ring.* A producer and a consumer share it without a lock.
* *The collector.* Threads number their log statements while `poll` moves the numbered ones
  to a list of its own; a thread may end while its queue is being collected.
* *Signals.* They do not queue, they nest, and their handlers log and poll.
* *Fork.* It copies descriptors, and the messages that are not written yet.

What makes each part correct: packages depend on the bytes alone (receive path); no
connection or descriptor is lost or used twice (pool); an event acts on the client it
was raised for, and every client is served or released in the end (event loop); buffers
have one owner and are bounded in number (queue); every ended worker is waited for
(master); the ring is a FIFO (log queue); messages come out in order, as what they are, and those
that were there when a poll began all come out (collector); a daemon is detached, its workers hold
every port, and a failure is told once (startup). `PROJECT.json` lists the hazards line by line
with the properties that cover them.

## 2. Modules

| module | what it is |
|---|---|
| `PkgState` | the receive state of a connection and what a recv does to it, as operators |
| `PkgStream` | abstract: the packages a stream of bytes consists of, delivered in order |
| `PkgReceiver` | the receive path byte by byte, shown to implement `PkgStream` |
| `PkgReceiverProofs` | its proofs |
| `ConnectionPool` | the pool and its operations, as operators |
| `Worker` | a worker process with its part of the kernel; uses `ConnectionPool` and `PkgState` |
| `WorkerPoolProofs`, `WorkerProofs` | proofs about the pool and what handlers do to the tables of a worker, and about the worker |
| `LogFifo` | abstract: the queue between a logging thread and the polling one |
| `SpscVarQueue` | `SPSCVarQueueOPT` step by step, shown to implement `LogFifo` |
| `SpscVarQueueProofs` | its proofs |
| `LogMerge` | abstract: what several logging threads may expect of the one that polls |
| `LogCollector` | `log`, `registerLogInfo`, `poll`, thread exit and the file, shown to implement `LogMerge` |
| `LogCollectorProofs` | proofs about its heap, and about it |
| `SignalLog` | one thread whose `log` and `poll` are interrupted by `signalHandler` |
| `Startup` | from `main` to serving workers, with every step that may fail |
| `StartupProofs` | its proofs |
| `Master` | the master process, its signal handlers and children |
| `MasterProofs` | its proofs |
| `Config` | loading the configuration and looking settings up |
| `ConfigProofs` | its proofs |
| `MC...` | the same modules with definitions that only TLC needs |

`PkgState` is the seam: `PkgReceiver` uses its operators with the bytes of one connection,
`Worker` uses the same operators for every connection without the bytes.

Definitions named `X_something` directly above a definition `X` are mutated forms of it: a
bug somebody could write there. For every property of every passing run, `PROJECT.json`
names one of them that the property catches.

### PkgReceiver

One action per outcome of `wait_request_handler`. `precvbuf` is the pair `rx.buf`
(`dataHeadInfo` or the allocated buffer) and `rx.off` (the bytes of the package before
it). `recv` returns any number of bytes between 1 and `irecvlen` that have not been
received. `pkgLen` is big-endian in the first two bytes of the header, over digits
below `Radix` instead of bytes. A fresh buffer holds `Junk`, so a byte that is never
written would show in a delivered package. `ImplementsPkgStream` maps the abstract package
boundary `start` to `pos - rx.off`: what is in the connection has been received
but, seen from outside, not taken yet.

### Worker

The process is single-threaded, so a handler is one step; the world (clients, other workers)
moves between any two steps. Connections are indices into the pool, 0 is `nullptr`.
`EpollWait` returns any order of any admissible subset of the ready descriptors; a
blocked or interrupted `epoll_wait` changes nothing and is not a step. `HandleEvent` takes
the next event through the two tests for staleness and calls the handler. The outcomes of
system calls that the process cannot foresee are choices: `accept4` may find nothing
(taken elsewhere, aborted, out of descriptors), `epoll_ctl` may fail, `recv` may return
EAGAIN, EINTR, a part, the end or an error. Descriptors are given out lowest first, as in
Unix. The listening sockets are assumed to be non-blocking (`open_listening_sockets`; see
the finding about `ioctl`). `fd` and `of` in an event and `from` in a message are history
variables: properties use them, actions do not.

`EPOLLRDHUP` is requested but never looked at, and comes together with `EPOLLIN`, so it is
left out; so is `EPOLLHUP`, which the code treats like `EPOLLERR`. `m_free_connection_n` and
the chain are both kept although the code reads only the chain; a property compares them.

### Master

`pending` is a set, because standard signals do not queue. `calls` is the stack of `masterProcessCycle` and
the running calls of `signalHandler`, innermost last; `Deliver` pushes a call whenever the signal is not
blocked. If `sigprocmask` succeeds (`masked`), all ten signals are blocked from then on outside `sigsuspend`; if it fails,
the code logs it and goes on to `fork` with nothing blocked. Nothing is blocked in `sigsuspend`, and
a running handler adds its own signal only.
`CleanWorker` is one round of the loop around `waitpid`, so workers may end between two
rounds. Wherever the code logs or polls, the call goes through the points of `log` and `poll` at which it takes
`logInfoMutex`, `bufferMutex` or `param_seq_`, or waits for the latter to be even; at each of them it may be
interrupted. A call cannot go on (`Enter`, `Handle`) while a call below it is inside what it needs. What is in the log, and so whether a statement
still has to register or `poll` has something to take, is left open (`Following`): each point may be passed by. Signals that are treated alike are
represented by a few. A worker's own life is in `Worker`; here it only ends.

### SpscVarQueue

Every access to memory that both threads use (`read_idx`, `blk[].size`, the bytes of a message)
is a step of its own. Steps take effect in program order: x86-64 keeps the order of stores,
and the volatile accesses and the inlined code are taken not to be reordered by the compiler,
which the C++ standard does not promise. The consumer is the loop of `poll` on one queue. That
producer and consumer do not interrupt each other is the contract of the library; the
handlers of xfly break it (see 7).

### LogCollector

A thread's queue is the abstract one, which `SpscVarQueue` implements: `Push` may refuse a message, and what is
in the queue comes out in order. `log` is four steps (the time stamp and the look at `logId`; `registerLogInfo` up
to the assignment of the id; `emplace_back`; the push), because `poll` may move `logInfos` between any two of them and
another thread reads `logId` without the mutex. `poll` is a step per shared access: the two lists, `front` of each
queue, the test of `shouldDeallocate` after it, each sift of the heap, and each message handled. Time stamps are ranks: the n-th
log statement reads n, and a poll that begins then reads n + 1. `membuf` and files are lengths in messages; the
clock of `flushDelay` is `nextFlushTime` in `{"max", "future", "past"}`. `poll` and the functions that change the file are called
by one thread, as `log/fmtlog.h:110` asks. `waiting` and `out` are history: what was queued when the poll began, and the
message handled last. `adjustHeap` speaks of the set `Way` of the places that the node moves through, so that no recursion is needed.

### SignalLog

The opposite of that contract: what xfly does. `calls` is the stack of `main` and the running handlers. Of `log` and `poll` it
has the two things that are held for a while: `logInfoMutex`, and the odd `param_seq_` of the seqlock
in `calibrate`. A call waits for them until they are free. (`Master` has these and `bufferMutex`, and what is in the log left open; here
the statements that are registered and the messages that are queued are counted.) Log statements are assumed to be let through
by the log level. It leaves out what two nested polls do to each other's heap and to messages, and signals before
`workerProcessCycle` unblocks them.

### Startup

Process 0 is the one started from the shell, -1 the daemon, 1 and up are workers; only those that exist have a place other than
`none`. `Fork` copies descriptors, session, standard streams and the messages that are queued and not written.
Every call that may fail has a failing action, followed by what the code does then: log, poll or not, exit. `exit`
runs the destructor of `fmtlog`, which polls; a worker that is killed does not. A message is a pair of what it says and of whom, and
`written` counts how often it is in the log. A message has the level of its statement; one below `conf.LogLevel` is neither queued nor written (`Passed`).
`LogLevel` is one of the five indices of `toLevel`. Ports are numbers modulo 2^16 because of the cast to `in_port_t`; two sockets cannot
be bound to the same port, except 0. After `sigsuspend` and `serving`, `Master` and `Worker` go on.

### Config

`ReadLine` is one round of the loop in `load`: `fgets` takes characters to the end of a line, of
the file or of `linebuf`; what a round that finds nothing does (`fgets` returns `nullptr`) is the
case of an empty `line`. Characters are the classes that the code tells apart, and letters in two cases for
`strcasecmp`. `LookupAsWritten` compares the result with a definition of what a file means that speaks of
positions in the file only. `lineInvalid` means to skip comments and section headers, but its string
literal begins with `'\0'`, so that `strchr` sees an empty string: a line such as `#k = 1` is not skipped and
defines a setting named `#k` (`app/xfly_conf.cpp:67`), and so does a line that begins with a blank, which is in the
list, too. The model does what the code does. What the file *means* goes by the list (`Skipped`), so
`LookupAsWritten` is about files in which no line that is to be skipped has a `=` (`SkippedAreSilent`); for the others see 5. Of the
characters in the list the model has the blank only.

## 3. Runs

| run | what it asks | bounds, and why they are enough |
|---|---|---|
| `receiver` | `TypeOK`, `FitsBuffer`, `Collected`, `ImplementsPkgStream`, `NothingWithheld` | all 6561 streams of 8 digits below 3; header of 3, packages up to 6. There are lengths below the header (0..2), equal to it, above it, at the limit and beyond (0..8); a stream holds two packages with a skipped header between them; every cut and every end is tried |
| `worker_pool` | `TypeOK`, `MemoryBounded`, `PoolConserved`, `InterestConsistent`, `EventsNotStale`, `SequenceIdentifiesSession`, `BufferOwnership`, `LiveClientKept` | 3 clients for 2 places, so that the pool runs dry and connections and descriptors are used again while events of the old client wait; one more descriptor than connections; headers of 2 bytes, packages of 1 (bad), 2 (header only), 4 and 5 (bad), queue trimmed; 4 addresses for buffers, as many as `MemoryAssumption` asks for |
| `worker_live` | `ClosedPeerReleased`, `BacklogServed` | 2 clients, 2 listening sockets, 1 descriptor for clients, at most 2 of 3 ready descriptors reported at a time, no `accept4` |
| `worker_ioctl` | `RegisteredNonblocking`: violated | see 5 |
| `master` | `TypeOK`, `ZombieAnnounced`, `ZombiesReaped` | 2 workers, which may end together, in either order, and one while the other is being waited for; 2 signals from outside: SIGCHLD, one that is caught and one that kills. So up to two handlers nest on `masterProcessCycle`, each at any point of its `log` and `poll` |
| `spsc` | `TypeOK`, `InBounds`, `ImplementsFifo`, `PushedIsHandled`, `KeepsAccepting` | 6 blocks, messages of 2 to 5 blocks (the shortest the library writes up to the longest that can fit), so the end of the ring is met in every position; 3 message numbers, more than fit at a time |
| `config` | `TypeOK`, `LookupAsWritten`, `LoadEnds` | all files of up to 6 characters of 5 kinds, at most 5 read at a time: two lines of the same name, names with a blank inside or of blanks only, lines that fill the buffer and lines that do not fit |
| `collector` | `TypeOK`, `KnownWhenHandled`, `HeapIsLive`, `ImplementsLogMerge` | 3 threads and 2 statements, so that two threads register the same statement and the third node of the heap is moved; 2 log statements executed, of which either may be urgent, once-only or not; threads start, log and end at any step of `poll` |
| `collector_live` | `PushedIsHandled`, `MembufFlushed` | 2 threads, 1 statement, 2 messages, one change of the file between polls, the buffer full at 2 messages |
| `log_position` | `FposIsFileEnd`: violated | see 5 |
| `signal_deadlock` | `SignalsReceivedNormally`: violated | see 5 |
| `startup` | `TypeOK`, `WrittenOnce`, `FailureTold`, `WorkersListen`, `Detached` | up to 2 ports out of 4 numbers, 2 of which are the same modulo the range and one of which is 0; 0 to 3 workers; with and without `Daemon`; the 5 log levels; each call fails or not |

Clients are interchangeable; the runs of safety properties use this symmetry, as does `collector` for threads; runs of liveness do
not. Bounds: a client connects once; the sequence number is
therefore bounded, and its 64 bits are not reached. `MaxSent` bounds the signals from outside.
Deadlock is checked in `spsc`. It is not in the others, where the system may really stop: when
all bytes are received or the connection is closed (`receiver`), when every client has come
and gone and the worker waits in `epoll_wait`, when the master waits in `sigsuspend`, when the
configuration is loaded, when all threads have ended (`collector`) or the server runs (`startup`).

## 4. Fairness

* `receiver`: weak fairness of `recv` as long as there is something to receive: epoll is used
  level-triggered, so the socket is reported again and again.
* `worker_live`: the worker's steps are weakly fair, as it does nothing but loop. Two
  strong assumptions are about the kernel and the clients. A descriptor that
  stays ready is reported again and again even if `XFLY_MAX_EVENTS` others are ready, because Linux
  serves its ready list round-robin. And handling the events of a client makes progress in the end:
  `epoll_ctl` and `recv` do not fail for ever with a temporary error, another worker does not
  forever win the race, and a client does not send for ever without end.
* `master`: the process is scheduled, and the kernel delivers a signal that stays unblocked. The first is weak fairness of
  `Runs`, what the process itself does. `Runs` is disabled while the innermost call waits for something that a call
  below it is inside, so nothing is promised to it then: a handler does wait for ever for what it has interrupted, if no
  other handler comes on top of it. `ZombiesReaped` names
  this outcome (`WaitsForItself`) beside the end of the master; it is the deadlock of `signal_deadlock`, met in the master.
* `config`: `load` runs on; reading the file does not fail.
* `collector_live`: `poll` is called again and again (`log/fmtlog.h:112`), a log statement that was begun
  ends, and time passes. Nothing is assumed about when threads log, end, or change the file. (xfly
  polls in handlers only, so for a worker the first is up to who sends signals.)
* `spsc`: the polling thread keeps polling, and a log statement that was begun ends. Nothing
  is assumed about when threads log.

## 5. Disagreements between code and comments

* **`worker_ioctl`** — `setnonblocking` compares the result of `ioctl` with 1; a failure is -1. If it
  fails, the event loop watches a blocking socket, contrary to the comments in
  `net/xfly_socket_accept.cpp:88` and `_include/xfly_socket.h:80` and to the error path below the call.
  (Only on kernels without `accept4`; the listening sockets go through the same function.)
* **`log_position`** — `setLogFile` sets `fpos` to the position of the new file and only then closes the old one, which adds
  what it flushes to `fpos` (`log/fmtlog-inl.h:553`). From then on the position that callbacks are told (`log/fmtlog.h:133`) is too large. xfly
  sets its file once, and uses no callbacks.
* **`signal_deadlock`** — `proc/xfly_process.cpp:77` says that the worker receives signals normally from then on.
  A handler that interrupts `registerLogInfo` or `poll` while it holds `logInfoMutex`, or `calibrate` while `param_seq_` is
  odd, waits for what its own thread holds, and the process hangs. The run is about a worker; the handlers of the master do the same,
  and one of them may hang there before it has waited for the workers that ended (`WaitsForItself` in `Master`).

Others, met while reading, without a run:

* The list of characters in `lineInvalid` begins with `'\0'` (`app/xfly_conf.cpp:67`), so `strchr` searches an empty string
  and finds nothing in it. The lines the list is for, those that begin with `#`, `;`, `[` or a blank, are not skipped: one of them
  that has a `=` defines a setting, and since the first of a name counts, an indented line does so even before a proper one.
* A port number of 2^16 or more is cut by `(in_port_t)` (`net/xfly_socket.cpp:99`): the socket listens to
  another port, and line 116 logs success for the number that is not cut. `WorkersListen` compares the ports with the configuration
  for numbers of ports only.
* A `LogLevel` outside 0 to 4 reads outside `toLevel` (`app/xfly.cpp:62`); `Startup` takes it to be inside.
* `_include/xfly_socket.h:37` and `net/xfly_socket_conn.cpp:29` call the instance bit 0 for a valid connection. It alternates
  with every use; the check in `epoll_process_event` only needs it to differ between uses.
* `log/fmtlog.h:44` says messages are discarded when the queue is full. A message longer than both ends of an *empty*
  ring is discarded too, once. `KeepsAccepting` shows that this cannot go on: the wrap mark makes room
  for the next one.
* `log/fmtlog.h:111` says that `poll(true)` flushes. It returns before that if no thread has a buffer
  (`log/fmtlog-inl.h:453`); `MembufFlushed` says so.
* `proc/xfly_process.cpp:43` says that `sigsuspend` does not permit signals to nest. It does: it is given the emptied set, and
  `sa_mask` is empty, so a running handler blocks its own signal only, and `Master` and `SignalLog` model it so. `ZombieAnnounced`
  shows that the waiting for workers survives this; `signal_deadlock` shows that the logging does not.
* A thread that pushes its last message between `front` and the test of `shouldDeallocate` loses it (`log/fmtlog-inl.h:445`).
  `LogMerge` allows this (`Lose`), and only this: nothing that was there when the poll began is lost.

## 6. Proofs

`PkgReceiverProofs` proves, for every header length of at least 2, every limit, radix and set of
streams (`PkgAssumption`, `ReceiverAssumption`):

* `TypeCorrect`, `FitsBufferHolds`, `CollectedHolds`: the three invariants of run `receiver`;
* `Refinement`: `PkgReceiver` implements `PkgStream`.

The inductive invariant is `IInv == TypeOK /\ FitsBuffer /\ Collected /\ Shape`. The three
invariants are not inductive by themselves: `Shape` adds that the write pointer is in
`dataHeadInfo` exactly in the two header states, that nothing is collected in `HD_INIT`, and
that the allocated buffer is as long as the length field *at the package boundary of the stream*
says. The last part is what the refinement needs: the length was read from `dataHeadInfo`, which the
next package overwrites. There is one lemma per action; the lemmas about `Stored` and
`NewBuffer` say once what copying does. A step with an incomplete header or body leaves
`pos - rx.off` alone and is a stuttering step; a completed header skips, delivers or stutters
(`HeaderSimulates`); a completed body delivers (`BodySimulates`).

`MasterProofs` proves for any number of workers and any sets of signals (`MasterAssumption`)
`MasterTypeCorrect` and `ZombieAnnouncedHolds`, whether or not the signals are blocked. The conjunction of the two
is inductive: the type invariant says that only calls for SIGCHLD are on their way through `cleanWorker`. The argument for `ZombieAnnounced`: an ending worker raises SIGCHLD; delivery turns the
pending signal into a call at its entry; the call stays before its last `waitpid` until one
finds no ended worker, and at that moment there is none. Calls above it come and go without touching it
(`CallPushed`, `CallPopped`, `CallGoes`, `CallLogs`).

The first part of `LogCollectorProofs` proves what `adjustHeap` does to a heap of any size, without induction: the way of a
sinking node is the least set of places closed under "goes to its earlier child" (`Way`), so that what
holds along it is proved by giving a smaller set (`WayLeast`). The way is a line (`WayLine`), it ends at one
place (`WayEnds`), the nodes are permuted (`AdjustPermutes`), and a heap that is in order below `first` is in
order from `first` on afterwards (`AdjustOrders`). `RootEarliest` takes the least place with a node earlier
than the root and looks at its parent; `Least`, that sets of numbers have least elements, comes from the
library's theorem that `<` is well-founded.

The rest of it proves for any number of threads, statements, messages and files
(`CollectorAssumption`):

* `TypeCorrect`, `KnownWhenHandledHolds`, `HeapIsLiveHolds`: the three invariants of run `collector`;
* `Refinement`: `LogCollector` implements `LogMerge`.

The inductive invariant is `IInv == TypeOK /\ Shape /\ Buffers /\ Numbers /\ Times /\ Waited`, each conjunct
preserved by a lemma of its own (`...Step`). None of the invariants of the run is inductive:

* `Shape`: from place `i + 1` on the nodes are in order while the heap is built, and from the root on while
  messages are handled;
* `Buffers`: a buffer that exists is in exactly one of `threadBuffers` and `bgThreadBuffers`, once, and belongs to
  a thread that has ended if it is marked: so `HeapIsLive`, and so nothing is pushed into a buffer
  that is being deleted;
* `Numbers`: `Places`, the pairs of a statement and its id counted over both lists *and* the
  statement that a thread is about to insert, assign one id to each statement and one statement to each id;
  every message carries such a pair. `TakeLogInfos` leaves `Places` alone because nobody is inserting, and
  `KnownWhenHandled` is the part of it that lies in `bgLogInfos`;
* `Times`: time stamps are unique and increase along every queue, also counting the message that
  a thread still writes;
* `Waited`: a thread whose node was looked at and has no message has none that waited. This is what makes it
  safe to delete a buffer (`DeallocateSimulates`) and to ignore empty nodes when the root is handled
  (`HandleSimulates`).

For `Refinement` there is a pigeonhole argument besides (`IdBound`): ids are at most 3 plus the number of
statements, since each id from 4 on has a statement of its own.

`SpscVarQueueProofs` proves, for a ring of any number of blocks and any set of message lengths
(`QueueAssumption`: a message holds at least its time stamp of 8 bytes):

* `TypeCorrect`, `InBoundsHolds`: neither side touches a block outside the ring;
* `Refinement`: the ring implements `LogFifo`.

The inductive invariant is `IInv == TypeOK /\ Ring /\ Free /\ Allocating /\ Polling`. `Ring` is about the boundaries of
messages: there is a set of blocks at which messages start, such that each start is followed by the next at the distance its
`size` says, from `read_idx` to the end of what was pushed, in one piece or, after a wrap mark, in two. `Free` says
that `free_write_cnt`, which the producer updates from an old `read_idx`, is never more than what is free. `Allocating` and
`Polling` say what each side knows between two of its steps. For the refinement, `Contents` walks from message to message; `Walk` is a
recursive function of the number of steps left. That it has a value (`WalkExists`), that more steps than needed
change nothing (`WalkSettles`) and that a push adds one message to the end of every walk (`WalkExtends`) is shown by
looking at the least number for which it would fail, along a `Trail`: the places a walk
comes across, with the distance of each from the end.

`WorkerPoolProofs` and `WorkerProofs` prove, for any number of connections, descriptors, listening
sockets, clients, events per `epoll_wait` and messages, any package lengths and any queue limits (`PkgAssumption`,
`PoolAssumption`, `WorkerAssumption`):

* `TypeCorrect`, `PoolConservedHolds`, `InterestConsistentHolds`, `EventsNotStaleHolds`, `SequenceHolds`,
  `OwnershipHolds`, `MemoryBoundedHolds`: the invariants of run `worker_pool`;
* `LiveClientKeptHolds`: its action property.

They assume besides that `new` finds an address (`MemoryAssumption`: there are as many addresses as connections and queued messages
together may need; that no more is needed is part of the proof, `RoomForHeader`). The inductive invariant is
`IInv == TypeOK /\ Tables /\ Events /\ Memory /\ Sessions`:

* `Tables` is `PoolConserved` and `InterestConsistent`, which need each other, and where the descriptors of connections in use
  come from: a listening socket that `epoll_init` has not reached is not in the pool yet;
* `Events` adds to `EventsNotStale` that the events of a batch have distinct descriptors. This is the argument why nothing goes stale:
  a handler closes or binds only the connection it was called for, or binds one that was free and so has no event, and its
  own event is out of the batch (`EventsKept`, `OnlyTouches`). The test of the instance bit is never needed for
  it;
* `Memory` adds to `BufferOwnership` that the header in front of an unfinished package names its connection, session and client, and that
  fewer than `QHigh` messages wait;
* `Sessions` adds to `SequenceIdentifiesSession` that no queued message has a higher sequence number than its connection, and that a client
  that waits to be accepted has sent nothing yet and waits at one socket only. So a new session has a
  number no queued message has, and a client no queued message is from (`NewSession`).

`WorkerPoolProofs` says once what `get_connection` (`Binds`) and `close_connection` (`Closes`) do to a pool and that both
keep it `Conserved`; every outcome of the two handlers is then one of five effects on the tables: nothing, `Registers`, `Undoes`, `Ends`, or
`Keeps` for a connection that goes on receiving.

`StartupProofs` proves for any number of ports and workers, any numbers in the configuration and any way to fail
(`StartupAssumption`) the five invariants of run `startup`: `StartupTypeCorrect`, `StartupWritesOnce`,
`StartupTellsFailure`, `StartupListens` and `StartupDetaches`. None of them but the last is near to being inductive, as they speak of
ends of long ways. The inductive invariant follows what `fork` hands on:
`IInv == TypeOK /\ ConfOK /\ LevelOK /\ Places /\ Steps /\ Listening /\ Bindings /\ Leaving /\ Queues /\ Unsaid /\ Copies /\ Reason`.

* `Places` and `Steps`: which process may be where at the same time (there is one master), and what the loop counter that
  `open_listening_sockets` and `startWorkProcess` share means to whom;
* `Listening` and `Leaving`: what has been opened, bound and given up after each call, so that every fork hands on all of it;
* `Queues`: which messages can wait in the log of which process. It is here that the polls matter: one before each
  `fork`, so that only failures of earlier forks are copied;
* `Unsaid`: a message that should be said once is in the log at most once, and not at all as long as it is *due*, that is as long as
  a process may still come to say it, or waits in a queue. A step is right if what it writes
  is neither afterwards (`UnsaidPolled`);
* `Copies`: a failed fork is written by the master and by workers forked later, hence at most as often as the number of those that have
  started and one (`CopiesStep` counts them: one start adds one);
* `Reason`: a process that exits has a failure in the log or in the queue that its destructor writes, unless the log is off;
* `Bindings`: a socket that is bound has the number of its place in the configuration, as `Port` cuts it.

`ConfigProofs` proves for every set of files and every length of the line buffer (`ConfigAssumption`):

* `ConfigTypeCorrect` and `ConfigLooksUp`: the invariants of run `config`, the latter for files whose lines fit and whose skipped lines are silent; `ConfigFinds` says the same as the latter
  for all names, where TLC looks up four;
* `LoadProgresses`: each round of `load` but the last reads something, the step on which `LoadEnds` rests.

The loop of `load` is a loop of the specification, so no induction over the file is needed. The inductive invariant says that a lookup *now*
finds what the first of the lines read *so far* says (`Found`), and that the next round begins where a line does (`BetweenLines`). Trimming
is proved as `StripLeft`, `StripRight` and `Stripped`, from the least and the greatest place of a character
that is no blank; `StrippedPart` carries it over to positions of the file. `LineRead` shows that `fgets` takes one line
and that no other line ends in what it takes (this is where `LinesFit` is needed), `LineSays` that an item says what its line says and
nothing else, and `FoundStep` that one more item changes a lookup only if there was none of that name.

Every invariant, action property and refinement that a passing run checks is proved. Only model-checked are the liveness properties:
`NothingWithheld`, `ClosedPeerReleased`, `BacklogServed`, `ZombiesReaped`, `PushedIsHandled` (of both modules), `KeepsAccepting`,
`LoadEnds` and `MembufFlushed` rest on fairness, which the proof system cannot treat. `SignalLog` has one run, which
finds a deadlock, and nothing to prove.

## 7. Not modelled, and the plan

Next, in this order:

1. The nested polls that `SignalLog` leaves out: a message handled twice by a poll inside a poll, an entry of the ring
   that is popped while it is written.
2. **`TscnsSeqlock`** with several threads that convert time stamps, without the floating-point calibration.

Left out for good: the contents of packages behind the header (nothing reads them; `msgCode` and `crc32`
are never looked at), `sock_ntop` (its caller is commented out), formatting of log lines (vendored
{fmt}), Windows branches, failures of `new`, and of the configuration a file that cannot be read, names and
contents longer than their arrays, and `atoi`.
