# A TLA+ model of MyFileServer

MyFileServer is an HTTP file server in C++ (accounts, listing, upload, download
with ranges, delete) on a muduo-style network library of its own: one main
reactor that accepts, several I/O reactors that serve connections, an
asynchronous logger and a MySQL connection pool. This directory holds TLA+
modules translated from its source, TLC configurations that check them on small
instances, and TLAPS proofs of what holds for every instance. Paths below are
relative to the repository; `PROJECT.json` maps each definition to its lines.

## 1. Inventory

| Component | State | Operations | Interacts with |
|---|---|---|---|
| `EventLoop` | `quit_`, `callingPendingFunctors_`, `pendingFunctors_` (under `mutex_`), the eventfd, `activeChannels_` | `loop`, `quit`, `runInLoop`, `queueInLoop`, `wakeup`, `handleRead`, `doPendingFunctors` | any thread posts functors; the loop thread runs them and the channels' callbacks |
| `EPollPoller`, `Channel` | `channels_`, the kernel's interest list, `index_`, `events_`, `tie_` | `updateChannel`, `removeChannel`, `poll`, `handleEvent` | raw `Channel*` in epoll, in `channels_` and in `activeChannels_` |
| `Acceptor` | listening socket | `handleRead` | calls `TcpServer::newConnection` |
| `TcpServer`, `EventLoopThreadPool` | `connections_`, `nextConnId_`, `next_` | `newConnection`, `removeConnection(InLoop)`, destructor | functors posted between the main loop and the I/O loops |
| `TcpConnection` | `state_`, `outputBuffer_`, `sendFd_`/`sendLen_`, `channel_` | `send`, `sendFile`, `shutdown`, `handleRead/Write/Close/Error`, `connectEstablished`, `connectDestroyed` | called from handlers on its loop and from other threads |
| `EventLoopThread` | `loop_`, `mutex_`, `cond_` | `startLoop`, `threadFunc`, destructor | publishes a stack `EventLoop` |
| `TimerQueue` | `timers_`, timerfd | `addTimer`, `handleRead`, `reset` | wall clock, monotonic timerfd, the loop |
| `Buffer` | a vector, reader and writer index | `append`, `retrieve`, `makeSpace`, `readFd`, `findCRLF` | connections and the parser |
| `HttpContext`, `HttpRequest` | `state_`, `request_` | `parseRequest`, `reset` | `FileServer::onMessage`, the input buffer |
| `FileServer` | `users` with `mutex_`, the `login` table, the files | `onMessage`, `onRequest`, `setResponseBody` | runs on every I/O loop at once |
| `ConnectionPool` | `connectionQueue_`, `currentSize_` | `getConnection` and its deleter, producer, recycler | database workers and two detached threads |
| `AsyncLogging`, `FixedBuffer` | two front buffers, `buffers_`, two spare buffers | `append`, `threadFunc`, `start`, `stop` | every thread logs; one thread writes |
| `LogFile`, `FileUtil` | the open file, `count_`, `startOfPeriod_`, `lastRoll_`, `lastFlush_`, `writtenBytes_` | `append`, `flush`, `rollFile` | the logger's back end, the wall clock |
| `ThreadPool` | `queue_`, `running_`, the workers | `start`, `stop`, `add`, `runInThread`, destructor | any thread adds tasks |
| `MemoryPool` | pages with `last_`, `quote_`, `failed_`; `current_`; `largeList_` | `createPool`, `malloc`, `freeMemory`, `resetPool`, `destroyPool` | one caller |
| `Logger`, `Timestamp`, `Socket`, `InetAddress`, `HttpServer`, `json.hpp` | | | see section 8 |

What is hard here, and hardly reached by a test:

- a functor queued between the swap of `doPendingFunctors` and the next
  `epoll_wait`; `quit` from another thread; `loop()` not yet entered;
- the life of a connection, whose channel is known by raw pointer to one loop
  while another loop drops the references, and the server's destructor running
  meanwhile;
- partial writes, EPOLLOUT and `shutdown` in every order, and `sendfile`;
- two clocks in one timer queue;
- a parser that is called with any prefix of its input;
- the exchange of buffers between logging threads and the back end;
- a pool whose counter, queue and condition variable must agree;
- handlers on several loops over one `users` map and one directory;
- a loop on the stack of a thread, whose address others keep;
- a roll of the log file under a clock that is set back, and an abort at any
  time;
- workers that are woken for a task that is gone, or ended by one that throws;
- pages whose counters start at whatever was left in memory.

The list, line by line and with the properties that cover each item, is
`hazards` in `PROJECT.json`.

## 2. Modules

| Module | Models | Proofs |
|---|---|---|
| `FunctorQueue` | abstract: functors are started once each, in the order posted | |
| `EventLoop` | `src/net/EventLoop.{h,cc}`; implements `FunctorQueue` | `EventLoopThreadProofs` |
| `EventLoopThread` | `src/net/EventLoopThread.cc`, `src/base/Thread.cc`, composed with `EventLoop` (`EXTENDS`); implements `FunctorQueue` | `EventLoopThreadProofs` |
| `TcpConnection` (`MCTcpConnection`) | the output side of `src/net/TcpConnection.cc` | `TcpConnectionProofs` |
| `ConnectionLife` | abstract: none, up, down, gone | |
| `TcpServer` | `TcpServer.cc`, `EventLoopThreadPool.cc`, `Acceptor.cc`, `EPollPoller.cc`, `Channel.cc` and the lifecycle half of `TcpConnection.cc`, composed over a main loop and I/O loops; implements `ConnectionLife` | `TcpServerProofs` |
| `TimerQueue` (`MCTimerQueue`) | `src/timer/TimerQueue.cc`, `Timer` | `TimerQueueProofs` |
| `HttpContext` | `HttpContext.cc`, `HttpRequest.h`, `FileServer::onMessage/onRequest` | `FileServerProofs` |
| `Buffer` | `src/net/Buffer.{h,cc}` as operators on a vector with two indices | `FileServerProofs` |
| `HttpConnection` (`MCHttpContext`) | `HttpContext` composed with the `Buffer` that `handleRead` fills and the parser empties | `FileServerProofs` |
| `FileServer` (`MCFileServer`) | `FileServer::setResponseBody` on several loops | `FileServerProofs` |
| `ConnectionPool` | `src/mysql/ConnectionPool.cc` | `ConnectionPoolProofs` |
| `AsyncLogging` | `src/logger/AsyncLogging.cc`, `FixedBuffer.h` | `LoggingToFileProofs` |
| `LogFile` | `src/logger/LogFile.cc`, `FileUtil.cc` as operators on a log | `LoggingToFileProofs` |
| `LoggingToFile` (`MCLoggingToFile`) | `AsyncLogging` composed with `LogFile`, a clock and an abort | `LoggingToFileProofs` |
| `ThreadPool` | `src/base/ThreadPool.cc` | `PoolProofs` |
| `MemoryPool` (`MCMemoryPool`) | `src/memory/MemoryPool.cc` | `PoolProofs` |

How state and steps correspond to the code:

- **EventLoop.** `pc` is the position of the loop thread; one action per
  statement that another thread can observe. The critical sections of `mutex_`
  are single actions; pushing a functor and calling `wakeup` are two, since the
  lock is released between them. An I/O callback is represented by what it may
  call on the loop (post, run, quit, or nothing).
- **EventLoopThread.** `owner` is the thread that has the object, `thread` the one
  in `threadFunc`. The loop's actions are those of EventLoop, allowed while
  `threadFunc` is in `loop()`. `dead` records that somebody used the loop, or
  the object, after its end; `selfQuit` that the loop was told to quit by
  somebody else than the destructor. Users of the loop have finished their calls
  before the owner begins the destructor.
- **TcpConnection.** Loop-thread handlers run to completion and are single
  actions whose outcome (how much `write` or `sendfile` took, which errno) is
  chosen by `\E`. Calls from other threads are split where the code is: the test
  of `state_`, the assignment to it, the queueing of the functor. `sendfile`
  with a negative count (an unopened file) sends nothing. SIGPIPE, which the
  program does not ignore, ends the process (`killed`).
- **TcpServer.** Each loop polls, handles its active channels one at a time and
  runs the functors it swapped out one at a time; loops interleave. `Freed(c)`
  is computed from who holds a `shared_ptr` (the map, functors, the loop's
  stack), not kept as a flag. Event masks are reduced to "reading or nothing".
  `main.cc` never quits its loop; the destructor is modelled nevertheless,
  because the class offers it. After its body (`DtorDestroys`) it destroys
  `threadPool_`: `DtorQuits` quits and joins one I/O loop after the other, and
  `EndLoop` lets a loop that sees `quit_` leave without running what is queued.
  `send` and `shutdown` are called from the connection's own loop only, as
  everywhere in the server; calls from other threads are in `TcpConnection`.
- **TimerQueue.** Time is in ticks. `due` is measured on the wall clock, `arm`
  on the monotonic clock of the timerfd; `ClockForward` and `ClockBack` change
  the first and not the second.
- **HttpContext.** A token is a line; only the last of a stream may lack its CRLF.
  What a line looks like is all the parser goes by, so a body is any lines, also
  ones that read like a header or a request line, and stays in the buffer where
  the next request line is expected. `request.headers[f]` is the place of the line
  that set the field `f`; a later line with the same field takes its place, in the
  head and in the part of an upload alike, since both go into one map
  (`HttpRequest.h:123`). Messages end at any half token, so inside a line too. A
  null result of `findCRLF` in the upload branch (the part headers have not
  arrived) makes `retrieveUntil` compute with a null pointer; what the build does
  there, with libstdc++, is to empty the buffer.
- **FileServer.** One request per worker, split at each system or database call
  and at each lock and unlock. `users` is read at login without the lock; the
  race is modelled as a lookup that may miss an entry being inserted. The
  database is external: the `login` table has a unique user name, and a
  statement may fail. An uploaded body is a sequence of characters and the
  content is what stands before the first 17 dashes in it, or all of it
  (`Extracted`), the CRLF before the delimiter included. A byte of a file knows
  its character, the file and the upload it was written for, its place, and the
  place where that write ended. A write may stop half way and a `remove` may fail,
  and both are answered like a success. The bounds of a range go through `stoi`,
  which may throw (`Throws`) and end the process (`up`), and the length through an
  `int` (`IntCast`). `sendFile` is one step into a socket that takes everything:
  what happens to a file that is taken in part is in `TcpConnection`.
- **ConnectionPool.** Each critical section of `mutex_` is an action. Creating a
  connection happens inside the lock, as in the code.
- **AsyncLogging.** A buffer has `Cap` cells of one line. `length()` returns the
  size of the array rather than the bytes used, so the back end writes stale
  cells as well; `NoLineLost` says that they hold lines the file already has.
- **LogFile, LoggingToFile.** A stream is named by the local time of the second it
  was opened in, `LocalTime(t)`, of which nothing is assumed: it may repeat or go
  back. It is opened for appending, so a name that is there already goes on where
  that file ended (`FileOnDisk` joins the streams of one name). It knows how many
  of its lines are flushed. The back end's write is one append for each buffer;
  what an abort leaves of the unflushed lines is chosen. `writtenBytes_` saturates
  at `rollSize + 1`, all that the code distinguishes. `flushInterval_` is 0:
  `threadFunc` passes `false` in its place (`AsyncLogging.cc:62`).
- **Buffer.** The operations with a caller, on `[cells, reader, writer]`. In
  `HttpConnection` the half token `i` of the stream is its own bytes, so that the
  parser's view can be compared with what arrived.
- **ThreadPool.** Each critical section of `mutex_` is one action; a worker that
  is notified goes back to the lock, where another may have taken the task.
- **MemoryPool.** Sizes count units of 8 bytes. A page is its `last_`, `quote_`
  and `failed_` (unsigned, so counted modulo `UIntMod`) and the value `quote_`
  began at; a new page begins at any value of `Leftover`, because the code does
  not clear it. The first page is taken to be clear, for `createPool` does not set
  its `next_` either. A page that did not count from zero may be taken back with
  pieces in use; when a piece is then given out that overlaps one in use, a
  LargeNode among them, `sound` becomes FALSE and the model stops, since what the
  memory holds from there on is anybody's. `destroyPool` follows `next_` of pages
  it has freed: the model lets the walk go on or stop there.

## 3. Runs

| Run | Shows |
|---|---|
| `event_loop` | No wakeup is lost (`NoLostWakeup`); the loop implements `FunctorQueue`; a queued functor runs without the help of the 10 s poll timeout unless the loop quits; `startLoop` returns (`StartLoopReturns`); nothing is claimed of the destructor's return, see section 7; no loop is used after its end unless somebody else has told it to quit (`NoDeadLoop`). |
| `tcp_connection` | Bytes are neither lost nor reordered between the direct write, the buffer and `sendfile`; the FIN follows the data; the buffer drains and `shutdown` completes if no file is unfinished. |
| `tcp_server` | No raw channel pointer outlives its connection and `index_` agrees with the poller (`PollersSound`); events arrive only between "up" and "down", and only the destructor drops a "down", for a connection in `kDisconnecting` or one whose loop ended before it ran the destroy functor (`EventsFramed`); a connection implements `ConnectionLife`; a closed peer's connection is freed; the destructor ends every I/O loop and leaves no connection behind but one that had been closed and whose removal is still queued. |
| `timer_queue` | The timerfd is armed for the timers that wait, and in time; every timer runs, a repeating one again, as long as the wall clock is not set back. |
| `async_logging` | Before `stop`, each line is in exactly one buffer or in the file, in order, and surplus writes repeat lines already written (`NoLineLost`); no null buffer is dereferenced (`Inv`); each line is once on disk and in order in its file, although names may repeat and old files be reopened, and an abort costs no line of a round that has ended (`LogOnDisk`); a day's file ends within `checkEveryN` appends (`DayEnds`); lines are flushed to a file in the end (`LinesOnDisk`). |
| `connection_pool` | A connection is in one place; the queue is ordered by idle time; the number of connections stays within the configured limits, although neither the producer nor the recycler goes by it (`SizeInBounds`); whoever waits on an empty queue finds a connection there in the end unless `currentSize_` has reached the limit, even if no borrower ever returns one (`PoolGrows`). |
| `http_context` | However the bytes are cut, each request that `onRequest` sees has exactly the headers that follow its request line, with those of an upload's part over them, none of another request's; the first is on the first line and each next one behind the head of the last (`RequestsIntact`); replies follow requests; a request that arrives whole is served; the input buffer holds exactly what has arrived and is not consumed, through growth, moves to the front and resets (`BufferHolds`). |
| `file_server` | Map and table agree unless an INSERT failed; a login admitted is a login registered; whatever overlaps, a file is made of its own uploads only, each in its place and one on top of the other, and an upload that nobody overlaps leaves exactly what was written of it (`UploadsIntact`); whatever overlaps, a download sends bytes of the file asked for, from the place asked for, and no more than `Content-Length`, and one that nobody overlaps sends exactly what a satisfiable range asks for, if the length fits an `int` (`DownloadsIntact`). |
| `thread_pool` | While a worker waits there is a woken one for each queued task (`WokenForEach`); the destructor returns, with the queue drained unless exceptions have ended every worker. |
| `memory_pool` | Pieces in use lie inside their page and do not overlap, LargeNodes included, in pages that count from zero (`NoOverlap`); each allocated large block is in one LargeNode and held by the user, unless memory in use has been given out again, which takes a page that did not count from zero (`LargeAccounted`); an emptied page is used again. |

Two runs show where the code does not do what it, or its documentation, says.
They are expected to be violated.

| Run | Shows |
|---|---|
| `file_sent` | What `sendfile` does not take at once is never sent: `handleWrite` only knows `outputBuffer_` (`TcpConnection.cc:226-231`, `310-347`). |
| `bad_request` | A well-formed request that arrives in two messages is answered with 400 (`HttpContext.cc:59`). |

## 4. Bounds

| Run | Bound | Why it is enough |
|---|---|---|
| `event_loop` | 3 functors, 2 posters, one owner | two posters interleave with each other, with a callback's post and with the owner's calls; a third functor is queued behind a swapped-out vector |
| `tcp_connection`, `file_sent` | messages of 2 and 1 bytes, a file of 2, `MaxFiles` = 1, 1 other thread | a message and the file can be taken in part, a second message can queue behind the rest, a thread's call can straddle a close |
| `tcp_server` | `NumConns` = 2, `MaxThreads` = 2 | one connection on each I/O loop, both on one, or both on the main loop |
| `timer_queue` | 3 timers, one repeating, `MaxDelay` = 2 | an insertion before and after the earliest timer, during the handler too; a repeating timer among others |
| `async_logging` | `Cap` = 2, `MaxLines` = 3, `rollSize` = 5, `checkEveryN` = 2, days of 2 seconds, `MaxTime` = 3 | one buffer full and another in use, hence the swap with and without `nextBuffer_`; reuse of a buffer with stale cells; rolls by size, by day, and refused; a clock set back across a day; `MCLocalTime` calls second 3 like second 1, so that a roll reopens a file |
| `connection_pool` | 5 users, `MinSize` = 1, `MaxSize` = 5, `MaxIdle` = 2 | more borrowers than the connections that the double count allows, with and without room left; growth, recycling and growth again |
| `http_context` | 10 streams of one to three requests, cut at any half token; `kCheapPrepend` = 1, `kInitialSize` = 4, `kExtraSize` = 16 | each kind of request before and after another, on a fresh and on a reused context; bodies of one line, of several, and that hold a request line; reads smaller and larger than the vector, so that it grows, moves and resets |
| `bad_request` | two GETs, or one form | |
| `file_server` | 2 workers, 1 name, 2 passwords, 2 files, 4 bodies, 9 ranges, `MaxInt` = 3, `MaxGarbage` = 1, `MaxOps` = 3, `MaxRestarts` = 1 | two requests overlap at one account, at one file or at two, a third sees the result, before or after a restart; a content of one, two or four characters, written in full or in part, with 17 dashes inside, behind it or missing; each form of a range, with an end in, at and past the end of a file, a bound and a length beyond `MaxInt`, and a bound that is no number; what an unfilled `stat` buffer holds is from -1 to 1 |
| `thread_pool` | 3 workers, 3 tasks | tasks behind one another, with some workers waiting, busy or ended by an exception |
| `memory_pool` | pages of 8 units with a SmallNode of 4, `MaxPages` = 4, sizes 1 and 4, 2 large blocks, `UIntMod` = 5, `FailedLimit` = 1, `WalkLimit` = 1 | a page holds one or two pieces with padding between; pages wear out, are passed by `current_` and come back; a LargeNode is reused, or out of the walk's reach; counters wrap: a page whose `quote_` starts at the largest value is taken back with a LargeNode in it, and the place given out again |

`memory_pool` uses symmetry on the large blocks, which are only ever compared for
equality. Deadlock is checked except in runs whose system stops when its bounded
work is done: `event_loop` (loop ended, object destroyed), `tcp_connection` and
`file_sent` (closed connection or killed process), `tcp_server` (destroyed
server), `async_logging` (after `stop` or an abort), `http_context` and
`bad_request` (stream consumed), `file_server` (`MaxOps`), `thread_pool` and
`memory_pool` (destroyed).

## 5. Fairness

- **EventLoop, EventLoopThread:** weak fairness of both threads' own steps, of the
  return of `epoll_wait` while the eventfd is readable, and of `wakeup` by a
  thread that has pushed. The poll timeout is an action without fairness:
  `QueuedRuns` and `StartLoopReturns` do without it. Nothing makes the owner start
  or destroy anything.
- **TcpConnection:** the loop runs functors and serves events; a peer that keeps
  the connection open keeps reading; a thread completes the call it is in.
- **TcpServer:** each loop finishes its iteration, and a poll returns when
  functors are pending or a peer has closed, or, at the latest by its timeout, when
  the loop has been told to quit. No peer has to close, nothing makes the server
  stop; its destructor, once begun, goes on.
- **TimerQueue:** time passes, the loop serves a readable timerfd, and an
  `addTimerInLoop` that has been posted runs; strong fairness for the latter,
  because it is disabled while a handler runs, and `QueuedRuns` of EventLoop
  says that a queued functor is reached in some iteration.
- **LoggingToFile:** the back-end thread runs, `wait_for` returns after 3 seconds,
  and `fwrite` gets its bytes out in the end (`FileUtil::append` retries for
  ever).
- **ThreadPool:** workers get the lock and their tasks return or throw; `start`
  and the joins go on.
- **ConnectionPool:** the producer runs, nothing else. No borrower has to give its
  connection back (`FileServer` keeps its own in a member for the life of the
  process), those that wait need not be scheduled, and no fairness is asked of the
  recycler.
- **HttpContext:** a handler that was called runs to its end.
- **FileServer, MemoryPool:** none; their properties are invariants.

## 6. Proofs

All are about specifications without fairness and for every value of the
constants that the assumptions of their modules allow. Each proof module goes the
same way: the inductive invariant holds initially, one lemma per action (or group
of similar actions) shows that it is kept, and the theorems follow from it. The
inductive invariants are defined with the models, so that TLC can check them too.

- **EventLoopThreadProofs**, first about `EventLoop`. `InvHolds`: `NoLostWakeup`
  is not inductive, because the state before the poll matters. The strengthening
  `PendingIsAnnounced` says that from the swap to the next poll (`PastSwap`) a
  non-empty `pendingFunctors_` has a written eventfd or a thread about to write
  it. It needs `CallingMatchesPc`: `callingPendingFunctors_` is what makes
  `queueInLoop` write the eventfd on the loop's own thread. `RunsInOrder`
  (posted = ran, then the swapped-out vector, then pending) gives `Refinement`:
  every step is a step of `FunctorQueue` or a stutter. No assumption on
  `Functors` and `Posters`. Then about `EventLoopThread`: every step of the
  composition is a step of the loop, leaves it alone or is the destructor's
  `quit` (`ThreadStepOfLoop`), so the loop's invariant carries over, and
  `NoLostWakeupInThread` and `RefinementInThread` are about the specification
  that `event_loop` checks. `NoDeadLoopHolds` needs `ThreadInv`: `loop()` returns
  only with `quit_` set, and `quit_` is set by somebody else or by a destructor
  that has got as far as the join; so as long as the destructor alone quits, it
  finds the thread in `loop()`, and it returns after the thread's end.
- **TcpConnectionProofs.** `InvHolds`, and from it `NothingLostHolds`,
  `NoStrandedHolds`, `FinAfterDataHolds`. `FinAfterData` is strengthened with
  "and EPOLLOUT is disabled", and `QuietBeforeEstablished` rules out calls on a
  connection that is not yet connected. Assumes messages and file are
  sequences of bytes (`ConstantsAssumption`).
- **TcpServerProofs.** `Invariant`, then `PollersStaySound`, `EventsStayFramed`
  and `LifeRefinement`. Whether a channel may be dereferenced depends on functors
  that have not run yet, so the invariant speaks of what each loop still has to do
  (`Todo`: the rest of the swapped-out vector, then the pending one): `QueuesOK`
  says that a functor is queued once, in the loop that may run it, and
  "established" before "destroy"; `ConnOK` gives the stages of one connection,
  each with its callbacks, its `index_`, its place in the map and its functors. A
  connection is held by the map until "remove" has run and by "destroy" until that
  has run, and the latter is what takes the channel out of the poller: hence no
  poller has the channel of a freed one. The destructor is the exception that
  `Stage` names (`Stopping`); of a connection whose loop has ended (`Over`) only
  the queues still matter, and `QuitOK` says that no loop ends before the
  destructor's body has emptied the map. Assumes that the bounds are naturals.
- **TimerQueueProofs.** `InvHolds`, `NoStrandedHolds`, `OnTimeHolds`. The invariant
  says that, while the clock has not been set back, the armed time is late enough
  for some waiting timer to be due when the timerfd fires: then `getExpired` is
  not empty and `reset` arms again. `OnTime` needs the opposite bound inside the
  handler as well, once it has dealt with the expired timers (`ArmedForFirst`).
  Assumes intervals and `MaxDelay` are naturals (`TimersAssumption`).
- **LoggingToFileProofs.** `InvHolds`: the spare buffers are never null when the
  back end moves them (`SparesReady`), because a taken `nextBuffer_` implies
  another full buffer (`NextTakenMeansFull`), so that two buffers come back to be
  reused (`RefillHasBuffers`). `LinesInOrder`: `NoLineLost` needs `LinesInv`, that
  `cur_` stays within the cells written, that a spare buffer has been reset, and
  that a round comes to its refill with all its lines in the file; then the stale
  cells that `length()` adds are old lines. `FilesHoldLines` and `DaysEnd` need
  `LogInv`: the log files hold what the back end has handed over so far (the
  buffers before `done` included), `startOfPeriod_` is the day of `lastRoll_`,
  `count_` bounds the appends since the day ended, and `safe` never exceeds what
  closed files and the last flush hold. That each file is in order although several
  streams may have its name follows from the order of all of them
  (`FilesFromStreams`): what goes to one name is a subsequence, and a line of one
  stream is in no other. Nothing is assumed of `LocalTime`. Assumes
  `Cap > 1` (`CapAssumption`) and positive `checkEveryN` and day length
  (`LogFileAssumption`). The lines of several buffers or files are one
  `FlattenSeq`, a recursive function: what it returns is shown by induction on
  the length, with an induction rule stated for a set of numbers
  (`SetInduction`), and used through `FlattenType` and `FlattenAppend`.
- **ConnectionPoolProofs.** `ConnectionsInOnePlace`, `QueueOldestFirst`,
  `PoolSizeInBounds`. `OnePlace` counts, and counting is not inductive by itself;
  `Placed` says it without numbers (no position and no borrower shares a
  connection with another, and the live ones are exactly these), and the count
  follows. That at most `MaxSize` connections live follows from `CountedAtLeast`:
  there are never more than `currentSize_`, which the producer tests.
  Assumes `0 < MinSize <= MaxSize` (`SizesAssumption`).
- **FileServerProofs.** `AccountsInv` for `MapAgreesWithTable` and
  `OnlyRegisteredAdmitted`: whoever is between the INSERT and the map holds
  `mutex_`, and for every other name map and table agree; the INSERT of a taken
  name leaves the table's password. `FilesInv` for `UploadsStayIntact` and
  `DownloadsStayIntact`: an inode keeps the file it was made for (`home`), so that
  a request with an old inode in hand still has one of its own file; every inode
  is `Layered`, which a write that covers the front of another keeps
  (`WrittenFacts`); and a request that nobody has overlapped still has its file's
  inode, of the length it has seen. That the arithmetic of the Range header gives
  the bytes asked for (`HeaderArithmetic`, `RangeArithmetic`), and that the cast
  to `int` keeps a length that fits and never gives more than `MaxInt`
  (`CastFacts`), is proved for every length and range. Assumes `None` is no
  password and no worker, that bodies are sequences of characters, and that the
  bounds of a range are naturals, absent or no numbers (`RangesAssumption`).
  Then the connection: `RequestsAreIntact`, `RepliesInOrder` and `BufferIsExact`,
  about `ConnSpec`, the parser over its buffer. `RequestsIntact` speaks of
  requests already given to `onRequest`; `HttpInv` adds what the one being parsed
  has so far (`RequestSoFar`, `HeadedBy`: the request line at some token and, for
  each field, the last line since then that names it), where the next one may begin
  (`BeginsBehind`, `MayBegin`) and that, while the connection is up, each has its reply
  (`RepliedToAll`). A parser that has thrown half a token away never gets past a
  request line again (`ReadsArrived`), so that what follows is never taken for
  somebody's headers. `ConnInv` adds that the buffer is well formed and holds the
  bytes from the last one consumed to the last one arrived. It rests on
  `BufferOperations`: on any well-formed buffer, `append` and `readFd` append to
  the content and `retrieve` drops its front, in each of the cases of `makeSpace`
  (grow, or move to the front) and of `retrieve` (advance, or reset). Assumes only that
  a stream is a sequence of lines, all but the last with their CRLF, in any order
  (`StreamsAssumption`), and that the buffer's sizes are naturals
  (`BufferAssumption`).
- **PoolProofs**, first about `ThreadPool`: `NoNotifyLost` and `DestructorDrains`.
  `WokenForEach` is inductive given the types: `add` moves one worker for its one
  task, and a worker waits only with an empty queue. `Drained` needs that a worker
  that has left without an exception (`LeftInOrder`) did so after `stop()` with an
  empty queue, so that everything now in the queue is late. Assumes finitely many
  workers (`WorkersAssumption`).
  Then about `MemoryPool`: `PiecesApart`, `LargeBlocksAccounted` and
  `EmptyPagesReused`, from `PoolInv`. What matters is when a page may be emptied:
  `NoOverlap` holds because `quote_` counts exactly the pieces in use, so that it
  reaches 0 with the last of them, and counting is in the invariant (`PageOK`).
  The count is modulo `UIntMod`; that it cannot wrap follows from `first +
  Cardinality(use) <= last`: each piece takes a unit of its page at least. No
  piece is both the user's and a LargeNode, or one free would count for two.
  `EmptyIsReused` needs that a page without pieces is empty down to its SmallNode,
  hence fits every small request, hence `mallocSmallNode`, the only place where
  `current_` moves on, is not reached while one lies ahead. Pages whose `quote_`
  did not begin at 0 are outside all of this, as in `NoOverlap` and
  `EmptyIsReused`. The list of LargeNodes concerns all pages: `SoundInv` says that
  a piece which overlaps one in use is given out only when there is such a page
  (`GivesFree`: the pages that count from zero give out what is free), and until
  then no LargeNode is overwritten. Assumes (`PoolAssumption`) that pages and
  SmallNodes are aligned, the Pool with its SmallNode fits in a page and a
  LargeNode in what a SmallNode leaves of one, and an `unsigned int` can count the
  units of a page: 4096, 16, 24, 32, 24 bytes and 2^32 in the code.

Only model-checked: all liveness (the prover has no fairness): `QueuedRuns`,
`WholeRequestServed`, `LinesOnDisk` and the others that name a fair specification.
Every invariant, action property and refinement that a passing run checks is
stated by a theorem. `InvHolds` of `EventLoop`, `TcpConnection` and `TimerQueue`,
`Invariant` of `TcpServer` and `NoStrandedHolds` of `TcpConnection` are stronger
than what the runs check.

## 7. What the models say about the code besides

These are behaviours that the models have and the properties take into account,
by naming the case or by not promising what the code does not do; a reader of
the code may want to know them.

- `quit()` tests `isInLoopThread()` the wrong way round (`EventLoop.cc:104`; the
  comment at lines 98-103 says that another thread's call wakes the loop), so a
  quit from another thread leaves the loop in `epoll_wait` until the 10 s timeout
  or other work. `~EventLoopThread` quits from another thread and then joins.
- `quit()` before `loop()` is lost (`EventLoop.cc:68`): a destructor that comes
  right after `startLoop` may wait for ever in `join`. A loop that ends before
  the owner has looked leaves `startLoop` waiting for ever. Functors still pending
  when the loop quits are not run. (`event_loop` lets other threads queue before
  `loop()`; the loop's own thread queues only from callbacks. If it did so
  before `loop()`, line 140 would write no wakeup and the functor would wait for
  the first poll to end; nothing in the server does.)
- `shutdown` tests and sets `state_` without a lock and can overwrite
  `kDisconnected`; `connectDestroyed` makes no "down" callback for a connection
  in `kDisconnecting`. `~TcpServer` queues `connectDestroyed` to the I/O loops and
  quits them next, so a loop may leave without running it: then there is no
  "down" either.
- Writing to a reset connection raises SIGPIPE and ends the process.
- A body is left in the input buffer and its first line parsed as the next
  request line: the next request is rejected, or a request is found in the body.
  The part headers of an upload replace the request's own of the same name, its
  `Content-Type` first of all. A request answered with 400 may still be carried
  out; an upload cut within its part headers loses buffered bytes; one without
  `Content-Disposition` ends the process.
- An uploaded file ends with the CRLF that belongs to the delimiter, is cut at
  the first 17 dashes, and keeps its delimiter if that begins with fewer
  (`FileServer.cc:598-600`). A write that fails and a `remove` that fails are
  reported as a success (lines 631, 673).
- A range whose end lies behind the file, or a suffix longer than the file, is
  not clipped: `Content-Length` promises more than is sent. A length beyond
  `INT_MAX` loses its upper bits in the cast at line 345, and less than promised
  or nothing is sent. A bound
  without a number, or beyond `INT_MAX`, makes `stoi` throw and ends the process
  (lines 326-336).
- `currentSize_` is incremented twice for each creation and decremented once for
  each deletion (`ConnectionPool.cc:23`, `81`, `107`, `124`), so the pool stops
  growing below `maxSize_` (the comment at line 131 promises growth up to it) and
  can be refilled finitely often; with an empty queue and no room left the producer
  takes and releases the lock in a loop without waiting; the deleter notifies
  nobody. `FileServer` keeps the connection it got in its member `conn`
  (`FileServer.cc:87`) and never gives it back.
- A task that throws ends its worker for good; when all have ended, tasks stay in
  the queue.
- A page of the memory pool whose `quote_` does not begin at 0 is never taken
  back, or is while it is in use (`MemoryPool.cc:124`); in the second case a new
  LargeNode can be given the place of a live one, whose block is then leaked, and
  the list goes in a circle (lines 98-102). `destroyPool` reads freed pages (line
  55) and may leave the rest allocated.
- Names of log files are local times (`LogFile.cc:103-105`), so they repeat when
  local time is set back, against the comments at lines 75 and 93 that a name is
  used once; the lines then go on behind those of the older file.
- `LOG_FATAL` loses the lines that are in the buffers (`Logging.cc:127-131`).
- Lines appended after the back end's last swap are not written at `stop`.
- `users` takes a name whose INSERT failed, so map and table differ until a
  restart; a name of which the INSERT failed can log in.
- A wall clock set back makes the timerfd fire for nobody; `reset` then arms
  nothing and the timers wait for the next `addTimer`.

## 8. Not modelled

- `json.hpp` is third-party code and 21045 of the 32899 lines of C++ in the
  repository; copies of headers under `include/` and the compiler's probes under
  `CMakeFiles/` are some 4000 more. That leaves about 7000 lines under `src/src/`,
  tests and comments included, of which the map names some 2700: its share of
  all lines of the repository cannot reach a third. What the program owns and
  runs is modelled but for the items below.
- `Logger`, `LogStream`, `Timestamp`, `Socket`, `InetAddress`: formatting and
  wrappers of system calls, without a state of their own. `HttpServer`: not
  built. `HttpResponse`: headers and status lines are formatting.
- `FileServer`'s HTML pages and its parsing of query strings.
- A disk that stays full: `FileUtil::append` then retries for ever; the model has
  the case that the bytes get out in the end.
- The pool's destructor, which runs after `main` while the detached threads live;
  starvation on its mutex by the producer's spin (`ConnectionPool.cc:66`), which is
  a matter of the mutex's own fairness.
- The dangling pointer of `TcpConnection::send(const std::string&)` from another
  thread (`TcpConnection.cc:80`), since memory of callers is not modelled; the
  server sends from the connection's own loop.
- `Buffer::prepend`, which nobody calls.

## 9. Plan

Done, in the order of importance: the event loop and its promise, its thread and
that thread's owner; the output side of a connection; the server's lifecycle over
several loops; the logger down to its files; the pool; the parser over its input
buffer; the file server; timers; the thread pool and the memory pool. Proved: the
safety properties of all of these, and both refinements.

What could follow: `addcontent` of a body that has not arrived
(`HttpRequest.h:133`) needs the bytes behind the writer index in the model of
`Buffer`; the liveness properties need a prover with fairness.
