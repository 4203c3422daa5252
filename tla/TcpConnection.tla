---------------------------- MODULE TcpConnection ----------------------------
(***************************************************************************)
(* The output side of one TcpConnection (src/net/TcpConnection.cc): send,  *)
(* sendFile and shutdown, called on the connection's own loop thread or on *)
(* another thread; the functors they queue; and the channel callbacks that *)
(* write, detect errors and close.                                         *)
(*                                                                         *)
(* The kernel's socket is the sequence wire of bytes it has taken, the     *)
(* state of the peer and the pending socket error.  How much a write takes *)
(* is the kernel's choice.  No server of the repository installs a write-  *)
(* complete or a high-water-mark callback, so none is queued, and none     *)
(* changes the disposition of SIGPIPE, so a write that ends in EPIPE ends  *)
(* the process (killed).                                                   *)
(***************************************************************************)
EXTENDS Integers, Sequences

CONSTANTS Bytes,     \* what messages and files are made of
          Msgs,      \* the messages the application sends, each once
          File,      \* the contents of the file it sends
          MaxFiles,  \* bound: how often sendFile is called
          Threads    \* threads other than the connection's loop thread

ASSUME ConstantsAssumption ==
  /\ Msgs \subseteq Seq(Bytes)
  /\ File \in Seq(Bytes)
  /\ MaxFiles \in Nat

VARIABLES
  state,      \* state_
  reading,    \* kReadEvent is among the channel's events
  writing,    \* channel_->isWriting()
  outbuf,     \* the readable bytes of outputBuffer_
  fileRest,   \* the sendLen_ bytes of sendFd_ that are still to be sent
  queue,      \* functors queued in loop_ for this connection
  tfun,       \* tfun[t]: the call thread t is in the middle of
  unsent,     \* messages not yet passed to send
  files,      \* calls of sendFile so far
  wire,       \* bytes the kernel has taken, in order
  fin,        \* shutdownWrite has been called
  peer,       \* "open", "closed" (FIN received) or "reset" (RST received)
  sockErr,    \* the socket's pending error
  killed,     \* SIGPIPE has ended the process
  accepted    \* history: bytes sendInLoop kept and sendfile sent, in order

conn == <<state, reading, writing, outbuf, fileRest>>
app == <<tfun, unsent, files>>
kernel == <<wire, fin, peer, sockErr, killed>>
vars == <<conn, queue, app, kernel, accepted>>

States == {"kConnecting", "kConnected", "kDisconnecting", "kDisconnected"}

\* A queued functor; data is the message of a sendInLoop.
Functor(op, data) == [op |-> op, data |-> data]
Ops == {"sendInLoop", "sendFileInLoop", "shutdownInLoop"}
FunctorType == [op : Ops, data : Seq(Bytes)]

\* What another thread has still to do after its test of state_.
Idle == [op |-> "idle", data |-> <<>>]
SetDisconnecting == [op |-> "setDisconnecting", data |-> <<>>]

Init ==
  /\ state = "kConnecting" /\ reading = FALSE /\ writing = FALSE
  /\ outbuf = <<>> /\ fileRest = <<>>
  /\ queue = <<>> /\ tfun = [t \in Threads |-> Idle]
  /\ unsent = Msgs /\ files = 0
  /\ wire = <<>> /\ fin = FALSE /\ peer = "open" /\ sockErr = "none"
  /\ killed = FALSE /\ accepted = <<>>

ConnectEstablished ==
  /\ state = "kConnecting"
  /\ state' = "kConnected" /\ reading' = TRUE
  /\ UNCHANGED <<writing, outbuf, fileRest, queue, app, kernel, accepted>>

-----------------------------------------------------------------------------
(***************************************************************************)
(* write(2) and sendfile(2) on the socket.                                 *)
(***************************************************************************)
Writable == peer # "reset" /\ ~fin

\* The kernel takes the first n bytes of data; n = 0 is EWOULDBLOCK.
KernelTakes(data, n) ==
  /\ Writable
  /\ wire' = wire \o SubSeq(data, 1, n)
  /\ UNCHANGED <<fin, peer, sockErr, killed>>

\* The write fails with the pending ECONNRESET, which it consumes.
KernelResets ==
  /\ peer = "reset" /\ sockErr = "ECONNRESET"
  /\ sockErr' = "none"
  /\ UNCHANGED <<wire, fin, peer, killed>>

\* The write fails with EPIPE and raises SIGPIPE, whose default action stands.
KernelKills ==
  /\ fin \/ (peer = "reset" /\ sockErr # "ECONNRESET")
  /\ killed' = TRUE
  /\ UNCHANGED <<wire, fin, peer, sockErr>>

Rest(data, n) == SubSeq(data, n + 1, Len(data))

-----------------------------------------------------------------------------
(***************************************************************************)
(* The functions that run on the loop thread.  Each gives the new values   *)
(* of writing, outbuf, fileRest, accepted and the kernel variables.        *)
(***************************************************************************)
\* Mutant: the test of line 140 is dropped.
DirectWriteAlways == TRUE

DirectWriteAllowed == ~writing /\ outbuf = <<>>

\* Mutant: the remaining bytes are buffered but EPOLLOUT is not asked for.
BufferForgetsWriting(data) ==
  /\ outbuf' = outbuf \o data
  /\ UNCHANGED writing

\* Lines 171-187: keep what was not written and ask for EPOLLOUT.
BufferRemaining(data) ==
  /\ outbuf' = outbuf \o data
  /\ writing' = (writing \/ data # <<>>)

SendInLoop(data) ==
  \/ /\ state = "kDisconnected"
     /\ UNCHANGED <<writing, outbuf, fileRest, accepted, kernel>>
  \/ /\ state # "kDisconnected" /\ DirectWriteAllowed
     /\ \/ \E n \in 0 .. Len(data) :
             /\ KernelTakes(data, n)
             /\ BufferRemaining(Rest(data, n))
             /\ accepted' = accepted \o data
        \/ /\ KernelResets \/ KernelKills
           /\ UNCHANGED <<writing, outbuf, accepted>>
     /\ UNCHANGED fileRest
  \/ /\ state # "kDisconnected" /\ ~DirectWriteAllowed
     /\ BufferRemaining(data)
     /\ accepted' = accepted \o data
     /\ UNCHANGED <<fileRest, kernel>>

\* rest is the sendLen_ bytes of sendFd_ when sendFileInLoop is entered.
SendFileInLoop(rest) ==
  \/ /\ state = "kDisconnected"
     /\ fileRest' = rest
     /\ UNCHANGED <<writing, outbuf, accepted, kernel>>
  \/ /\ state # "kDisconnected" /\ DirectWriteAllowed
     /\ \/ \E n \in 0 .. Len(rest) :
             /\ KernelTakes(rest, n)
             /\ fileRest' = Rest(rest, n)
             /\ accepted' = accepted \o SubSeq(rest, 1, n)
             /\ writing' = (fileRest' # <<>>)
        \/ /\ KernelResets \/ KernelKills
           /\ fileRest' = rest
           /\ UNCHANGED <<writing, accepted>>
     /\ UNCHANGED outbuf
  \/ /\ state # "kDisconnected" /\ ~DirectWriteAllowed
     /\ fileRest' = rest
     /\ writing' = (writing \/ rest # <<>>)
     /\ UNCHANGED <<outbuf, accepted, kernel>>

\* Mutant: shutdownInLoop does not test isWriting().
ShutdownAtOnce ==
  /\ fin' = TRUE
  /\ UNCHANGED <<wire, peer, sockErr, killed>>

ShutdownInLoop ==
  /\ fin' = (fin \/ ~writing)
  /\ UNCHANGED <<wire, peer, sockErr, killed>>

-----------------------------------------------------------------------------
(***************************************************************************)
(* Calls from a callback on the loop thread: the tests of state_, then the *)
(* InLoop function at once.                                                *)
(***************************************************************************)
SendHere(m) ==
  /\ state = "kConnected" /\ m \in unsent
  /\ unsent' = unsent \ {m}
  /\ SendInLoop(m)
  /\ UNCHANGED <<state, reading, queue, tfun, files>>

SendFileHere ==
  /\ state = "kConnected" /\ files < MaxFiles
  /\ files' = files + 1
  /\ SendFileInLoop(File)
  /\ UNCHANGED <<state, reading, queue, tfun, unsent>>

ShutdownHere ==
  /\ state = "kConnected"
  /\ state' = "kDisconnecting"
  /\ ShutdownInLoop
  /\ UNCHANGED <<reading, writing, outbuf, fileRest, queue, app, accepted>>

(***************************************************************************)
(* The same calls on another thread: state_ is tested first, what follows  *)
(* happens later.  shutdown stores kDisconnecting without testing again.   *)
(***************************************************************************)
ThreadSend(t, m) ==
  /\ tfun[t] = Idle /\ state = "kConnected" /\ m \in unsent
  /\ unsent' = unsent \ {m}
  /\ tfun' = [tfun EXCEPT ![t] = Functor("sendInLoop", m)]
  /\ UNCHANGED <<conn, queue, files, kernel, accepted>>

ThreadSendFile(t) ==
  /\ tfun[t] = Idle /\ state = "kConnected" /\ files < MaxFiles
  /\ files' = files + 1
  /\ fileRest' = File
  /\ tfun' = [tfun EXCEPT ![t] = Functor("sendFileInLoop", <<>>)]
  /\ UNCHANGED <<state, reading, writing, outbuf, queue, unsent, kernel, accepted>>

ThreadShutdown(t) ==
  /\ tfun[t] = Idle /\ state = "kConnected"
  /\ tfun' = [tfun EXCEPT ![t] = SetDisconnecting]
  /\ UNCHANGED <<conn, queue, unsent, files, kernel, accepted>>

ThreadSetDisconnecting(t) ==
  /\ tfun[t] = SetDisconnecting
  /\ state' = "kDisconnecting"
  /\ tfun' = [tfun EXCEPT ![t] = Functor("shutdownInLoop", <<>>)]
  /\ UNCHANGED <<reading, writing, outbuf, fileRest, queue, unsent, files, kernel,
                 accepted>>

ThreadQueues(t) ==
  /\ tfun[t] \in FunctorType
  /\ queue' = Append(queue, tfun[t])
  /\ tfun' = [tfun EXCEPT ![t] = Idle]
  /\ UNCHANGED <<conn, unsent, files, kernel, accepted>>

-----------------------------------------------------------------------------
(***************************************************************************)
(* The loop thread: queued functors, and the channel's callbacks.          *)
(***************************************************************************)
RunFunctor ==
  /\ queue # <<>>
  /\ queue' = Tail(queue)
  /\ LET f == Head(queue)
     IN  \/ f.op = "sendInLoop" /\ SendInLoop(f.data)
         \/ f.op = "sendFileInLoop" /\ SendFileInLoop(fileRest)
         \/ /\ f.op = "shutdownInLoop" /\ ShutdownInLoop
            /\ UNCHANGED <<writing, outbuf, fileRest, accepted>>
  /\ UNCHANGED <<state, reading, app>>

\* Mutant: handleWrite does not call shutdownInLoop once the buffer is empty.
WroteForgetsFin(n) ==
  /\ KernelTakes(outbuf, n)
  /\ outbuf' = Rest(outbuf, n)
  /\ writing' = (n < Len(outbuf))

\* Lines 317-336: n bytes went out; the last one ends EPOLLOUT, and carries out
\* a shutdown() that was waiting for it.
Wrote(n) ==
  /\ Writable
  /\ wire' = wire \o SubSeq(outbuf, 1, n)
  /\ outbuf' = Rest(outbuf, n)
  /\ writing' = (n < Len(outbuf))
  /\ fin' = (n = Len(outbuf) /\ state = "kDisconnecting")
  /\ UNCHANGED <<peer, sockErr, killed>>

\* EPOLLOUT.  A write of an empty outputBuffer_ returns 0, and a failed one is
\* only logged: neither changes anything (lines 337-340).
HandleWrite ==
  /\ writing /\ outbuf # <<>>
  /\ \/ \E n \in 1 .. Len(outbuf) : Wrote(n)
     \/ (KernelResets \/ KernelKills) /\ UNCHANGED <<outbuf, writing>>
  /\ UNCHANGED <<state, reading, fileRest, queue, app, accepted>>

\* EPOLLERR, or a read that fails: the error is fetched and logged.
HandleError ==
  /\ reading /\ sockErr # "none"
  /\ sockErr' = "none"
  /\ UNCHANGED <<conn, queue, app, wire, fin, peer, killed, accepted>>

\* A read of 0 bytes.  The callbacks of handleClose are TcpServer's part.
HandleClose ==
  /\ reading /\ peer # "open" /\ sockErr = "none"
  /\ state' = "kDisconnected" /\ reading' = FALSE /\ writing' = FALSE
  /\ UNCHANGED <<outbuf, fileRest, queue, app, kernel, accepted>>

(***************************************************************************)
(* The peer.  A reset of a connection whose FIN was already received       *)
(* leaves EPIPE on the socket.                                             *)
(***************************************************************************)
PeerCloses ==
  /\ peer = "open" /\ state # "kConnecting"
  /\ peer' = "closed"
  /\ UNCHANGED <<conn, queue, app, wire, fin, sockErr, killed, accepted>>

PeerResets ==
  /\ peer # "reset" /\ state # "kConnecting"
  /\ sockErr' = IF peer = "closed" THEN "EPIPE" ELSE "ECONNRESET"
  /\ peer' = "reset"
  /\ UNCHANGED <<conn, queue, app, wire, fin, killed, accepted>>

-----------------------------------------------------------------------------
HereStep == \/ SendFileHere \/ ShutdownHere
            \/ \E m \in Msgs : SendHere(m)

ThreadStep ==
  \E t \in Threads :
    \/ ThreadSendFile(t) \/ ThreadShutdown(t)
    \/ ThreadSetDisconnecting(t) \/ ThreadQueues(t)
    \/ \E m \in Msgs : ThreadSend(t, m)

LoopStep == ConnectEstablished \/ RunFunctor \/ HandleWrite \/ HandleError \/ HandleClose

PeerStep == PeerCloses \/ PeerResets

Next == ~killed /\ (HereStep \/ ThreadStep \/ LoopStep \/ PeerStep)

Spec == Init /\ [][Next]_vars

\* The loop thread runs functors and serves events; a peer that is neither
\* closed nor reset keeps reading, so a ready socket takes at least a byte;
\* another thread that has started a call completes it.
Fairness ==
  /\ WF_vars(~killed /\ RunFunctor)
  /\ WF_vars(~killed /\ HandleWrite)
  /\ WF_vars(~killed /\ (ConnectEstablished \/ HandleError \/ HandleClose))
  /\ \A t \in Threads :
       WF_vars(~killed /\ (ThreadSetDisconnecting(t) \/ ThreadQueues(t)))

FairSpec == Spec /\ Fairness

-----------------------------------------------------------------------------
(***************************************************************************)
(* Properties.                                                             *)
(***************************************************************************)

\* Every variable has its type.
TypeOK ==
  /\ state \in States
  /\ reading \in BOOLEAN /\ writing \in BOOLEAN
  /\ outbuf \in Seq(Bytes) /\ fileRest \in Seq(Bytes)
  /\ queue \in Seq(FunctorType)
  /\ tfun \in [Threads -> FunctorType \union {Idle, SetDisconnecting}]
  /\ unsent \subseteq Msgs /\ files \in 0 .. MaxFiles
  /\ wire \in Seq(Bytes) /\ accepted \in Seq(Bytes)
  /\ fin \in BOOLEAN /\ killed \in BOOLEAN
  /\ peer \in {"open", "closed", "reset"}
  /\ sockErr \in {"none", "ECONNRESET", "EPIPE"}

\* The kernel receives the accepted bytes in order, without loss, duplicate
\* or overtaking, whichever of the direct write, the buffer and sendfile
\* carries them, and what is missing is in outputBuffer_.
NothingLostOrReordered == accepted = wire \o outbuf

\* While the channel is registered for reading, buffered bytes always have
\* EPOLLOUT enabled: outputBuffer_ is never left to nobody.
NoStrandedOutput == reading /\ outbuf # <<>> => writing

\* The FIN of shutdown() never overtakes buffered bytes on an open connection.
FinAfterData == fin /\ reading => outbuf = <<>>

\* Nothing happens to a connection before connectEstablished.
QuietBeforeEstablished ==
  state = "kConnecting" =>
    /\ ~fin /\ outbuf = <<>> /\ ~writing /\ ~reading
    /\ queue = <<>> /\ \A t \in Threads : tfun[t] = Idle

\* The inductive invariant proved in TcpConnectionProofs: after the FIN
\* EPOLLOUT is never enabled again on an open connection.
Inv ==
  /\ TypeOK
  /\ NothingLostOrReordered
  /\ NoStrandedOutput
  /\ fin /\ reading => outbuf = <<>> /\ ~writing
  /\ QuietBeforeEstablished

Ended == peer # "open" \/ killed \/ ~reading

\* handleWrite: buffered bytes reach the kernel unless the connection ends.
OutputDrains == outbuf # <<>> ~> (outbuf = <<>> \/ Ended)

\* shutdown() is carried out as soon as the buffer is empty, also when it is
\* called by another thread; an unfinished file is the case of FileSent.
ShutdownCompletes ==
  state = "kDisconnecting" ~> (fin \/ fileRest # <<>> \/ Ended)

\* The file server's downloads ("文件的上传、下载", README.md:3): a file given
\* to sendFile is sent to the end while the peer keeps the connection open.
FileSent == fileRest # <<>> ~> (fileRest = <<>> \/ Ended)
=============================================================================
