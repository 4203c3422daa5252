------------------------------ MODULE TcpServer ------------------------------
(***************************************************************************)
(* The life of the connections of one TcpServer (src/net/TcpServer.cc):    *)
(* the main loop accepts, an I/O loop owns each connection, and closing    *)
(* one takes a message to the main loop and one back.  With it, what the   *)
(* pollers know of a connection's channel (src/net/poller/EPollPoller.cc)  *)
(* and the references that keep a TcpConnection alive.                     *)
(*                                                                         *)
(* Loop 0 is the main loop, 1 .. numThreads are the I/O loops.  A handler  *)
(* is one step: all it touches belongs to its own loop, except the one     *)
(* functor it hands to another.  That a queued functor wakes its loop is   *)
(* the subject of module EventLoop.  A connection is its number in         *)
(* nextConnId_; it stands for its descriptor too, which stays open as long *)
(* as the TcpConnection lives and so is not reused before that.            *)
(***************************************************************************)
EXTENDS Integers, Sequences

CONSTANTS NumConns,    \* bound on the connections that are accepted
          MaxThreads   \* bound on setThreadNum

ASSUME BoundsAssumption == NumConns \in Nat /\ MaxThreads \in Nat

Conns == 1 .. NumConns
Accept == 0          \* the acceptor's channel among the active ones
MainLoop == 0

VARIABLES
  numThreads,  \* numThreads_, chosen before start()
  nextConnId,  \* nextConnId_
  next,        \* next_ of the EventLoopThreadPool
  connections, \* connections_
  state,       \* state[c]: state_, or "none" before the constructor
  loopOf,      \* loopOf[c]: getLoop()
  index,       \* index[c]: the channel's index_, kNew, kAdded or kDeleted
  interested,  \* interested[c]: ~ isNoneEvent()
  channels,    \* channels[l]: channels_ of the poller of l
  epoll,       \* epoll[l]: the kernel's interest list
  active,      \* active[l]: activeChannels_ still to be handled
  lpc,         \* lpc[l]: "poll", "events", "run", "dtor" in ~TcpServer, or
               \* "ended", the loop and its thread being gone
  quit,        \* the I/O loops whose quit_ is set
  pending,     \* pending[l]: pendingFunctors_
  functors,    \* functors[l]: the local vector of doPendingFunctors
  done,        \* done[l]: how many of them have been run
  calls,       \* history: calls[c], the connection callbacks: "up" or "down"
  peer         \* peer[c]: "closed" when the next read gives 0, or on a hang-up

pollers == <<index, interested, channels, epoll>>
server  == <<numThreads, nextConnId, next, connections, loopOf, quit>>
queues  == <<pending, functors, done>>
vars == <<server, state, pollers, active, lpc, queues, calls, peer>>

Loops == 0 .. numThreads

Functor(op, c) == [op |-> op, conn |-> c]

\* TcpConnection is held by the map and by the functors that are bound to it;
\* those already run are held until doPendingFunctors returns.
References(c) ==
  \/ c \in connections
  \/ \E l \in Loops : \E i \in DOMAIN pending[l] : pending[l][i].conn = c
  \/ \E l \in Loops : \E i \in DOMAIN functors[l] : functors[l][i].conn = c

Freed(c) == state[c] # "none" /\ ~References(c)

Init ==
  /\ numThreads \in 0 .. MaxThreads
  /\ nextConnId = 1 /\ next = 0 /\ connections = {}
  /\ state = [c \in Conns |-> "none"]
  /\ loopOf = [c \in Conns |-> MainLoop]
  /\ index = [c \in Conns |-> "kNew"]
  /\ interested = [c \in Conns |-> FALSE]
  /\ channels = [l \in Loops |-> {}] /\ epoll = [l \in Loops |-> {}]
  /\ active = [l \in Loops |-> {}]
  /\ lpc = [l \in Loops |-> "poll"] /\ quit = {}
  /\ pending = [l \in Loops |-> <<>>] /\ functors = [l \in Loops |-> <<>>]
  /\ done = [l \in Loops |-> 0]
  /\ calls = [c \in Conns |-> <<>>]
  /\ peer = [c \in Conns |-> "open"]

-----------------------------------------------------------------------------
(***************************************************************************)
(* EPollPoller::updateChannel, with the channel's events set to "on", and  *)
(* EPollPoller::removeChannel.                                             *)
(***************************************************************************)
UpdateChannel(c, l, on) ==
  /\ interested' = [interested EXCEPT ![c] = on]
  /\ IF index[c] # "kAdded"
       THEN /\ channels' = [channels EXCEPT ![l] =
                              IF index[c] = "kNew" THEN @ \union {c} ELSE @]
            /\ index' = [index EXCEPT ![c] = "kAdded"]
            /\ epoll' = [epoll EXCEPT ![l] = @ \union {c}]
       ELSE /\ channels' = channels
            /\ index' = [index EXCEPT ![c] = IF on THEN "kAdded" ELSE "kDeleted"]
            /\ epoll' = [epoll EXCEPT ![l] = IF on THEN @ ELSE @ \ {c}]

\* off: disableAll was called just before.
RemoveChannel(c, l, off) ==
  /\ interested' = [interested EXCEPT ![c] = @ /\ ~off]
  /\ channels' = [channels EXCEPT ![l] = @ \ {c}]
  /\ epoll' = IF index[c] = "kAdded"
                THEN [epoll EXCEPT ![l] = @ \ {c}] ELSE epoll
  /\ index' = [index EXCEPT ![c] = "kNew"]

(***************************************************************************)
(* EventLoop::loop: poll, then the events, then the functors.  A channel   *)
(* is reported when there is something to read, which the environment      *)
(* decides, and for certain once the peer has closed.  A poll that returns *)
(* with nothing to do is left out.                                         *)
(***************************************************************************)
Reportable(l) ==
  {c \in epoll[l] : interested[c] \/ peer[c] = "closed"}
    \union (IF l = MainLoop /\ nextConnId <= NumConns THEN {Accept} ELSE {})

MustReport(l) == {c \in epoll[l] : interested[c] /\ peer[c] = "closed"}

Poll(l, ready) ==
  /\ lpc[l] = "poll"
  /\ ready # {} \/ pending[l] # <<>>
  /\ MustReport(l) \subseteq ready
  /\ active' = [active EXCEPT ![l] = ready]
  /\ lpc' = [lpc EXCEPT ![l] = "events"]
  /\ UNCHANGED <<server, state, pollers, queues, calls, peer>>

SwapFunctors(l) ==
  /\ lpc[l] = "events" /\ active[l] = {}
  /\ functors' = [functors EXCEPT ![l] = pending[l]]
  /\ pending' = [pending EXCEPT ![l] = <<>>]
  /\ done' = [done EXCEPT ![l] = 0]
  /\ lpc' = [lpc EXCEPT ![l] = "run"]
  /\ UNCHANGED <<server, state, pollers, active, calls, peer>>

\* Mutant: the vector of functors is not cleared.
EndFunctorsKeeps(l) ==
  /\ lpc[l] = "run" /\ done[l] = Len(functors[l]) /\ l \notin quit
  /\ done' = [done EXCEPT ![l] = 0]
  /\ lpc' = [lpc EXCEPT ![l] = "poll"]
  /\ UNCHANGED <<server, state, pollers, active, pending, functors, calls, peer>>

EndFunctors(l) ==
  /\ lpc[l] = "run" /\ done[l] = Len(functors[l]) /\ l \notin quit
  /\ functors' = [functors EXCEPT ![l] = <<>>]
  /\ done' = [done EXCEPT ![l] = 0]
  /\ lpc' = [lpc EXCEPT ![l] = "poll"]
  /\ UNCHANGED <<server, state, pollers, active, pending, calls, peer>>

Handled(l, ch) == active' = [active EXCEPT ![l] = @ \ {ch}]
Queue(l, op, c) == pending' = [pending EXCEPT ![l] = Append(@, Functor(op, c))]
Called(c, what) == calls' = [calls EXCEPT ![c] = Append(@, what)]

-----------------------------------------------------------------------------
(***************************************************************************)
(* Acceptor::handleRead and TcpServer::newConnection.                      *)
(***************************************************************************)
GetNextLoop == IF numThreads = 0 THEN MainLoop ELSE next + 1

\* connectEstablished: the channel is tied and registered, the user is told.
Established(c, l) ==
  /\ state' = [state EXCEPT ![c] = "kConnected"]
  /\ UpdateChannel(c, l, TRUE)
  /\ Called(c, "up")

NewConnection ==
  LET c == nextConnId  l == GetNextLoop IN
  /\ lpc[MainLoop] = "events" /\ Accept \in active[MainLoop]
  /\ Handled(MainLoop, Accept)
  /\ next' = IF numThreads = 0 THEN next ELSE (next + 1) % numThreads
  /\ nextConnId' = nextConnId + 1
  /\ connections' = connections \union {c}
  /\ loopOf' = [loopOf EXCEPT ![c] = l]
  /\ IF l = MainLoop
       THEN Established(c, l) /\ UNCHANGED pending
       ELSE /\ state' = [state EXCEPT ![c] = "kConnecting"]
            /\ Queue(l, "established", c)
            /\ UNCHANGED <<pollers, calls>>
  /\ UNCHANGED <<numThreads, quit, lpc, functors, done, peer>>

\* accept() fails (the client is gone, or no descriptor is left).
AcceptFails ==
  /\ lpc[MainLoop] = "events" /\ Accept \in active[MainLoop]
  /\ Handled(MainLoop, Accept)
  /\ UNCHANGED <<server, state, pollers, lpc, queues, calls, peer>>

(***************************************************************************)
(* The events of a connection.  HandleRead: data, or nothing after all;    *)
(* the message callback may call shutdown().  HandleClose: the read gives  *)
(* 0, or the channel reports a hang-up; the closing callback goes through  *)
(* removeConnection to the main loop, at once if that is the loop itself.  *)
(***************************************************************************)
HandleRead(l, c) ==
  /\ lpc[l] = "events" /\ c \in active[l] /\ peer[c] = "open"
  /\ Handled(l, c)
  /\ \/ UNCHANGED state
     \/ /\ state[c] = "kConnected"
        /\ state' = [state EXCEPT ![c] = "kDisconnecting"]
  /\ UNCHANGED <<server, pollers, lpc, queues, calls, peer>>

\* Mutant: the erasure destroys nothing.
EraseForgetsDestroy(c) ==
  /\ connections' = connections \ {c}
  /\ pending' = pending

\* removeConnectionInLoop.
Erase(c) ==
  /\ connections' = connections \ {c}
  /\ Queue(loopOf[c], "destroy", c)

\* Mutant: handleClose does not disable the channel.
HandleCloseLeavesEvents(l, c) ==
  /\ lpc[l] = "events" /\ c \in active[l] /\ peer[c] = "closed"
  /\ Handled(l, c)
  /\ state' = [state EXCEPT ![c] = "kDisconnected"]
  /\ Called(c, "down")
  /\ IF l = MainLoop THEN Erase(c)
                     ELSE Queue(MainLoop, "remove", c) /\ UNCHANGED connections
  /\ UNCHANGED <<numThreads, quit, nextConnId, next, loopOf, pollers, lpc, functors,
                 done, peer>>

HandleClose(l, c) ==
  /\ lpc[l] = "events" /\ c \in active[l] /\ peer[c] = "closed"
  /\ Handled(l, c)
  /\ state' = [state EXCEPT ![c] = "kDisconnected"]
  /\ UpdateChannel(c, l, FALSE)
  /\ Called(c, "down")
  /\ IF l = MainLoop THEN Erase(c)
                     ELSE Queue(MainLoop, "remove", c) /\ UNCHANGED connections
  /\ UNCHANGED <<numThreads, quit, nextConnId, next, loopOf, lpc, functors, done, peer>>

-----------------------------------------------------------------------------
(***************************************************************************)
(* The functors.                                                           *)
(***************************************************************************)
\* Mutant: the state is not tested, and the user is told again.
DestroyedTellsAgain(c, l) ==
  /\ RemoveChannel(c, l, TRUE)
  /\ state' = [state EXCEPT ![c] = "kDisconnected"]
  /\ Called(c, "down")

\* connectDestroyed.  disableAll takes an added channel out of epoll and marks
\* it kDeleted, so that the remove() after it leaves what remove() alone would.
Destroyed(c, l) ==
  /\ RemoveChannel(c, l, state[c] = "kConnected")
  /\ IF state[c] = "kConnected"
       THEN state' = [state EXCEPT ![c] = "kDisconnected"] /\ Called(c, "down")
       ELSE UNCHANGED <<state, calls>>

Runs(l, op, c) ==
  /\ lpc[l] = "run" /\ done[l] < Len(functors[l])
  /\ functors[l][done[l] + 1] = Functor(op, c)
  /\ done' = [done EXCEPT ![l] = @ + 1]
  /\ UNCHANGED <<functors, lpc, active, peer>>

RunEstablished(l, c) ==
  /\ Runs(l, "established", c)
  /\ Established(c, l)
  /\ UNCHANGED <<server, pending>>

RunRemove(l, c) ==
  /\ Runs(l, "remove", c)
  /\ Erase(c)
  /\ UNCHANGED <<numThreads, quit, nextConnId, next, loopOf, state, pollers, calls>>

RunDestroy(l, c) ==
  /\ Runs(l, "destroy", c)
  /\ Destroyed(c, l)
  /\ UNCHANGED <<server, pending>>

(***************************************************************************)
(* The main loop has been told to quit, and ~TcpServer goes through the    *)
(* map, the I/O loops running on.  Then threadPool_ is destroyed, and each *)
(* EventLoopThread in it sets quit_ of its loop and joins the thread.      *)
(***************************************************************************)
Quit ==
  /\ lpc[MainLoop] = "poll"
  /\ lpc' = [lpc EXCEPT ![MainLoop] = "dtor"]
  /\ UNCHANGED <<server, state, pollers, active, queues, calls, peer>>

\* Mutant: the destructor passes over connections that are shutting down.
DtorSkipsShutDown(c) ==
  /\ lpc[MainLoop] = "dtor" /\ c \in connections /\ state[c] = "kConnected"
  /\ connections' = connections \ {c}
  /\ IF loopOf[c] = MainLoop
       THEN Destroyed(c, MainLoop) /\ UNCHANGED pending
       ELSE Queue(loopOf[c], "destroy", c) /\ UNCHANGED <<state, pollers, calls>>
  /\ UNCHANGED <<numThreads, quit, nextConnId, next, loopOf, active, lpc, functors,
                 done, peer>>

DtorDestroys(c) ==
  LET l == loopOf[c] IN
  /\ lpc[MainLoop] = "dtor" /\ c \in connections
  /\ connections' = connections \ {c}
  /\ IF l = MainLoop
       THEN Destroyed(c, l) /\ UNCHANGED pending
       ELSE Queue(l, "destroy", c) /\ UNCHANGED <<state, pollers, calls>>
  /\ UNCHANGED <<numThreads, quit, nextConnId, next, loopOf, active, lpc, functors,
                 done, peer>>

\* ~EventLoopThread of an I/O loop, those before it having been joined.
DtorQuits(l) ==
  /\ lpc[MainLoop] = "dtor" /\ connections = {}
  /\ l # MainLoop /\ l \notin quit /\ \A k \in quit : lpc[k] = "ended"
  /\ quit' = quit \union {l}
  /\ UNCHANGED <<numThreads, nextConnId, next, connections, loopOf, state, pollers,
                 active, lpc, queues, calls, peer>>

\* The loop finds quit_ set at the top of its "while", whatever has been queued
\* since its last round.  The EventLoop goes with its thread: the functors that
\* it has not run, and its poller, whose last content is left as it was.
EndLoop(l) ==
  /\ l \in quit
  /\ lpc[l] = "poll" \/ (lpc[l] = "run" /\ done[l] = Len(functors[l]))
  /\ lpc' = [lpc EXCEPT ![l] = "ended"]
  /\ pending' = [pending EXCEPT ![l] = <<>>]
  /\ functors' = [functors EXCEPT ![l] = <<>>]
  /\ done' = [done EXCEPT ![l] = 0]
  /\ UNCHANGED <<server, state, pollers, active, calls, peer>>

PeerCloses(c) ==
  /\ state[c] # "none" /\ peer[c] = "open" /\ ~Freed(c)
  /\ peer' = [peer EXCEPT ![c] = "closed"]
  /\ UNCHANGED <<server, state, pollers, active, lpc, queues, calls>>

LoopStep(l) ==
  \/ \E ready \in SUBSET Reportable(l) : Poll(l, ready)
  \/ SwapFunctors(l) \/ EndFunctors(l) \/ EndLoop(l)
  \/ l = MainLoop /\ (NewConnection \/ AcceptFails)
  \/ \E c \in Conns : \/ HandleRead(l, c) \/ HandleClose(l, c)
                      \/ RunEstablished(l, c) \/ RunDestroy(l, c)
                      \/ RunRemove(l, c)

DtorStep == (\E c \in Conns : DtorDestroys(c)) \/ (\E l \in Loops : DtorQuits(l))

Next ==
  \/ \E l \in Loops : LoopStep(l)
  \/ Quit \/ DtorStep
  \/ \E c \in Conns : PeerCloses(c)

Spec == Init /\ [][Next]_vars

\* Every loop keeps running (what wakes it is in module EventLoop), and so
\* does the destructor.  Nothing makes a peer close or the main loop quit.
\* An event that is merely possible need not come, so a poll is owed only to
\* functors and to closed peers; the poll of a loop that is to quit ends, at
\* the latest by its timeout.
PollOwed(l) ==
  /\ pending[l] # <<>> \/ MustReport(l) # {}
  /\ \E ready \in SUBSET Reportable(l) : Poll(l, ready)

InIteration(l) ==
  /\ lpc[l] \in {"events", "run"}
  /\ LoopStep(l)

FairSpec ==
  /\ Spec
  /\ \A l \in 0 .. MaxThreads :
       WF_vars(l \in Loops /\ (PollOwed(l) \/ InIteration(l) \/ EndLoop(l)))
  /\ WF_vars(DtorStep)

-----------------------------------------------------------------------------
(***************************************************************************)
(* Properties.                                                             *)
(***************************************************************************)

\* TcpServer.cc:119-132 and EPollPoller.cc:107-116: epoll, channels_ and
\* activeChannels_ hold raw Channel pointers, which the loop dereferences with
\* no check; none of them outlives its TcpConnection in a loop that is there.
NoDanglingChannel ==
  \A l \in Loops : \A c \in Conns :
    lpc[l] # "ended" /\ c \in epoll[l] \union channels[l] \union active[l]
      => state[c] # "none" /\ ~Freed(c)

\* Channel.cc:50-71: the loop handles an event of a connection only between its
\* "up" and its "down" callback, so no message follows the "down".
EventsOnlyWhileUp ==
  \A l \in Loops : \A c \in active[l] \ {Accept} :
    calls[c] = <<"up">> /\ state[c] \in {"kConnected", "kDisconnecting"}

\* EPollPoller.cc:66-105 and 118-133: what index_ says of a channel is what
\* the poller of its own loop has, and no other poller knows the channel.
IndexAgrees ==
  \A c \in Conns : \A l \in Loops :
    /\ c \in epoll[l] <=> l = loopOf[c] /\ index[c] = "kAdded"
    /\ c \in channels[l] <=> l = loopOf[c] /\ index[c] # "kNew"

\* EPollPoller.cc:66-133: the pollers hold channels of live connections only, and
\* exactly the ones that the channels themselves say they do.
PollersSound == NoDanglingChannel /\ IndexAgrees

\* TcpConnection.cc:273-283, TcpServer.cc:39-50: a connection is freed without a
\* "down" callback only by the destructor of the server, and then only if
\* shutdown() had been called on it, or its loop ended before it ran the functors
\* that the connection was bound to.
DownUnlessDestroyed ==
  \A c \in Conns :
    Freed(c) /\ calls[c] # <<"up", "down">>
      => /\ lpc[MainLoop] = "dtor"
         /\ state[c] = "kDisconnecting" \/ lpc[loopOf[c]] = "ended"

\* TcpConnection.cc:256-283, 349-357: what the user of a connection is told of it
\* frames its events, "up" before them and "down" after them.
EventsFramed == EventsOnlyWhileUp /\ DownUnlessDestroyed

Phase(c) ==
  IF Freed(c) THEN "gone"
  ELSE CASE calls[c] = <<>>              -> "none"
         [] calls[c] = <<"up">>          -> "up"
         [] calls[c] = <<"up", "down">>  -> "down"
         [] OTHER                        -> "broken"

Life == INSTANCE ConnectionLife WITH phase <- [c \in Conns |-> Phase(c)],
                                     stopping <- lpc[MainLoop] = "dtor"

\* The connection callbacks come in the order of ConnectionLife, each at most
\* once; nothing happens to a connection after it has been freed, and before the
\* server is destroyed it is freed only after its "down".
ImplementsLife == Life!Spec

\* TcpConnection.cc:349-357: once the peer has closed, the connection is
\* closed here too and its memory given back, unless the server stops first.
ClosedIsFreed ==
  \A c \in Conns :
    peer[c] = "closed" ~> (Freed(c) \/ lpc[MainLoop] = "dtor")

\* TcpServer.cc:39-50, EventLoopThread.cc:15-30: the destructor does not wait for
\* ever for an I/O loop, and in the end no connection is left, whether its loop ran
\* the functors it was handed or not; only one that had been closed may still be
\* held, by the removal that it sent to the main loop.
DestructorCleansUp ==
  lpc[MainLoop] = "dtor" ~>
    /\ \A l \in Loops \ {MainLoop} : lpc[l] = "ended"
    /\ epoll[MainLoop] = {} /\ channels[MainLoop] = {}
    /\ \A c \in Conns :
         \/ state[c] = "none" \/ Freed(c)
         \/ /\ state[c] = "kDisconnected"
            /\ \E i \in DOMAIN pending[MainLoop] :
                 pending[MainLoop][i] = Functor("remove", c)

-----------------------------------------------------------------------------
(***************************************************************************)
(* The inductive invariant of TcpServerProofs.                             *)
(***************************************************************************)
Functors == [op : {"established", "remove", "destroy"}, conn : Conns]

\* The functors that a loop still has to run.
Todo == [l \in Loops |-> SubSeq(functors[l], done[l] + 1, Len(functors[l])) \o pending[l]]

InTodo(T, op, c) ==
  \E l \in DOMAIN T : \E i \in 1 .. Len(T[l]) : T[l][i] = Functor(op, c)

\* Every functor is queued in the loop that may run it, and once; a connection is
\* not destroyed before it is established.
QueuesOK(T, home) ==
  \A l \in DOMAIN T :
    /\ \A i \in 1 .. Len(T[l]) :
         l = IF T[l][i].op = "remove" THEN MainLoop ELSE home[T[l][i].conn]
    /\ \A i, j \in 1 .. Len(T[l]) : T[l][i] = T[l][j] => i = j
    /\ \A i, j \in 1 .. Len(T[l]) :
         T[l][i].op = "destroy" /\ T[l][j] = Functor("established", T[l][i].conn) => j < i

Stopping == lpc[MainLoop] = "dtor"

TypeOK ==
  /\ numThreads \in Nat /\ nextConnId \in 1 .. NumConns + 1
  /\ next \in Nat /\ (numThreads = 0 \/ next < numThreads)
  /\ connections \subseteq Conns
  /\ state \in [Conns -> {"none", "kConnecting", "kConnected", "kDisconnecting",
                          "kDisconnected"}]
  /\ loopOf \in [Conns -> Loops]
  /\ index \in [Conns -> {"kNew", "kAdded", "kDeleted"}]
  /\ channels \in [Loops -> SUBSET Conns] /\ epoll \in [Loops -> SUBSET Conns]
  /\ active \in [Loops -> SUBSET (Conns \union {Accept})]
  /\ lpc \in [Loops -> {"poll", "events", "run", "dtor", "ended"}]
  /\ pending \in [Loops -> Seq(Functors)] /\ functors \in [Loops -> Seq(Functors)]
  /\ done \in [Loops -> Nat]
  /\ calls \in [Conns -> {<<>>, <<"up">>, <<"up", "down">>}]

\* Where each loop is, what it has in hand there.
LoopsOK ==
  \A l \in Loops :
    /\ lpc[l] = "dtor" => l = MainLoop
    /\ done[l] <= Len(functors[l])
    /\ lpc[l] # "run" => functors[l] = <<>> /\ done[l] = 0
    /\ lpc[l] # "events" => active[l] = {}
    /\ active[l] \subseteq epoll[l] \union {Accept}
    /\ Accept \in active[l] => l = MainLoop /\ nextConnId <= NumConns

\* Only the I/O loops are told to quit, and by the destructor, after its body.
QuitOK ==
  \A l \in Loops :
    l \in quit \/ lpc[l] = "ended" => Stopping /\ connections = {} /\ l # MainLoop

\* The stages of a connection: what its state, its callbacks and its index_ have
\* to do with each other, with the map and with the functors on their way.
Stage(c) ==
  LET est == InTodo(Todo, "established", c)
      rem == InTodo(Todo, "remove", c)
      des == InTodo(Todo, "destroy", c) IN
  /\ state[c] = "none" <=> c >= nextConnId
  /\ state[c] = "none" => c \notin connections /\ ~rem /\ ~des
  /\ est <=> state[c] = "kConnecting"
  /\ state[c] = "kConnecting" => loopOf[c] # MainLoop
  /\ state[c] \in {"none", "kConnecting"} => calls[c] = <<>> /\ index[c] = "kNew"
  /\ state[c] \in {"kConnected", "kDisconnecting"} =>
       /\ calls[c] = <<"up">>
       /\ \/ index[c] = "kAdded"
          \/ index[c] = "kNew" /\ Stopping /\ state[c] = "kDisconnecting"
  /\ state[c] = "kDisconnected" => calls[c] = <<"up", "down">> /\ index[c] # "kAdded"
  /\ rem => state[c] = "kDisconnected" /\ (c \in connections \/ Stopping)
  /\ des => c \notin connections /\ (state[c] = "kDisconnected" \/ Stopping)
  /\ c \in connections \/ des =>
       /\ state[c] \in {"kConnected", "kDisconnecting"} => index[c] = "kAdded"
       /\ state[c] = "kDisconnected" => index[c] = "kDeleted"
  /\ state[c] = "none" \/ c \in connections \/ des
     \/ (index[c] = "kNew" /\ state[c] \in {"kDisconnecting", "kDisconnected"})

\* Nothing becomes of a connection whose loop has ended but that it is freed.
Over(c) == lpc[loopOf[c]] = "ended"

ConnOK(c) == Over(c) \/ Stage(c)

Inv ==
  /\ TypeOK /\ LoopsOK /\ QuitOK /\ IndexAgrees /\ QueuesOK(Todo, loopOf)
  /\ \A c \in Conns : ConnOK(c)
=============================================================================
