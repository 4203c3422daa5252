------------------------- MODULE TcpConnectionProofs -------------------------
(***************************************************************************)
(* Proofs about TcpConnection, for any messages, any file and any number   *)
(* of threads: no byte is lost or reordered between send and the kernel,   *)
(* buffered bytes always have EPOLLOUT, and the FIN comes after them.      *)
(***************************************************************************)
EXTENDS TcpConnection, SequenceTheorems, TLAPS

(***************************************************************************)
(* Facts about the split of a byte sequence by a partial write.            *)
(***************************************************************************)

\* What a write takes and what it leaves are the whole message.
LEMMA SplitWhole ==
  ASSUME NEW d \in Seq(Bytes), NEW n \in 0 .. Len(d)
  PROVE  /\ SubSeq(d, 1, n) \in Seq(Bytes)
         /\ Rest(d, n) \in Seq(Bytes)
         /\ SubSeq(d, 1, n) \o Rest(d, n) = d
         /\ n = Len(d) => Rest(d, n) = <<>>
<1>1. Len(d) \in Nat
  BY LenProperties
<1>2. SubSeq(d, 1, n) \in Seq(Bytes) /\ Rest(d, n) \in Seq(Bytes)
  BY <1>1, SubSeqProperties DEF Rest
<1>3. SubSeq(d, 1, n) \o SubSeq(d, n + 1, Len(d)) = SubSeq(d, 1, Len(d))
  <2>1. 1 \in 1 .. Len(d) + 1 /\ n \in 1 - 1 .. Len(d) /\ Len(d) \in n .. Len(d)
    BY <1>1
  <2> QED
    BY <2>1, ConcatAdjacentSubSeq
<1>4. SubSeq(d, 1, Len(d)) = d
  BY SubSeqFull
<1>5. ASSUME n = Len(d) PROVE Rest(d, n) = <<>>
  BY <1>1, <1>5, SubSeqEmpty DEF Rest
<1> QED
  BY <1>2, <1>3, <1>4, <1>5 DEF Rest

\* Concatenation can be regrouped.
LEMMA Regroup ==
  ASSUME NEW S, NEW w \in Seq(S), NEW p \in Seq(S), NEW r \in Seq(S)
  PROVE  /\ w \o p \in Seq(S) /\ p \o r \in Seq(S)
         /\ (w \o p) \o r = w \o (p \o r)
BY ConcatAssociative, ConcatProperties

\* Bytes that leave the buffer for the wire do not change their concatenation.
LEMMA MoveToWire ==
  ASSUME NEW w \in Seq(Bytes), NEW d \in Seq(Bytes), NEW n \in 0 .. Len(d)
  PROVE  /\ w \o SubSeq(d, 1, n) \in Seq(Bytes)
         /\ (w \o SubSeq(d, 1, n)) \o Rest(d, n) = w \o d
<1> DEFINE p == SubSeq(d, 1, n)
           r == Rest(d, n)
<1>1. p \in Seq(Bytes) /\ r \in Seq(Bytes) /\ p \o r = d
  BY SplitWhole
<1>2. w \o p \in Seq(Bytes) /\ (w \o p) \o r = w \o d
  <2> HIDE DEF p, r
  <2>1. p \in Seq(Bytes) /\ r \in Seq(Bytes)
    BY <1>1
  <2>2. w \o p \in Seq(Bytes) /\ (w \o p) \o r = w \o (p \o r)
    BY <2>1, Regroup, SMTT(30)
  <2> QED
    BY <1>1, <2>2
<1> QED
  BY <1>2

(***************************************************************************)
(* What the functions that run on the loop thread do to the stream.  The   *)
(* conclusion is the part of the invariant they can disturb.               *)
(***************************************************************************)
StreamInv ==
  /\ outbuf \in Seq(Bytes) /\ wire \in Seq(Bytes) /\ accepted \in Seq(Bytes)
  /\ fileRest \in Seq(Bytes)
  /\ reading \in BOOLEAN /\ writing \in BOOLEAN /\ fin \in BOOLEAN /\ killed \in BOOLEAN
  /\ peer \in {"open", "closed", "reset"}
  /\ sockErr \in {"none", "ECONNRESET", "EPIPE"}
  /\ NothingLostOrReordered
  /\ NoStrandedOutput
  /\ fin /\ reading => outbuf = <<>> /\ ~writing

\* The invariant implies its part about the stream.
LEMMA InvStream == Inv => StreamInv
BY DEF Inv, TypeOK, StreamInv

\* A write that fails takes nothing.
LEMMA FailedWriteKeeps ==
  ASSUME StreamInv, KernelResets \/ KernelKills, fileRest' \in Seq(Bytes),
         UNCHANGED <<reading, writing, outbuf, accepted>>
  PROVE  StreamInv'
<1>1. CASE KernelResets
  BY <1>1 DEF StreamInv, KernelResets, NothingLostOrReordered, NoStrandedOutput
<1>2. CASE KernelKills
  <2>1. killed' \in BOOLEAN /\ UNCHANGED <<wire, fin, peer, sockErr>>
    BY <1>2 DEF KernelKills
  <2> QED
    BY <2>1 DEF StreamInv, NothingLostOrReordered, NoStrandedOutput
<1> QED
  BY <1>1, <1>2

\* sendInLoop keeps the order of the bytes, whichever way they go.
LEMMA SendInLoopKeeps ==
  ASSUME StreamInv, NEW d \in Seq(Bytes), SendInLoop(d), reading' = reading
  PROVE  StreamInv'
<1> USE DEF StreamInv
<1>1. CASE state = "kDisconnected" /\ UNCHANGED <<writing, outbuf, fileRest, accepted, kernel>>
  BY <1>1 DEF kernel, NothingLostOrReordered, NoStrandedOutput
<1>2. CASE fileRest' = fileRest /\ (KernelResets \/ KernelKills)
           /\ UNCHANGED <<writing, outbuf, accepted>>
  BY <1>2, FailedWriteKeeps
<1>3. ASSUME DirectWriteAllowed, fileRest' = fileRest, NEW n \in 0 .. Len(d),
             KernelTakes(d, n), BufferRemaining(Rest(d, n)),
             accepted' = accepted \o d
      PROVE  StreamInv'
  <2>1. outbuf = <<>> /\ ~writing /\ accepted = wire
    BY <1>3, ConcatEmptySeq DEF DirectWriteAllowed, NothingLostOrReordered
  <2>2. /\ Rest(d, n) \in Seq(Bytes)
        /\ wire' \in Seq(Bytes) /\ wire' \o Rest(d, n) = wire \o d
    BY <1>3, MoveToWire, SplitWhole DEF KernelTakes
  <2>3. outbuf' = Rest(d, n)
    BY <1>3, <2>1, <2>2, ConcatEmptySeq DEF BufferRemaining
  <2>4. accepted' = wire' \o outbuf' /\ accepted' \in Seq(Bytes)
    BY <1>3, <2>1, <2>2, <2>3, ConcatProperties
  <2>5. NoStrandedOutput'
    BY <1>3, <2>3 DEF BufferRemaining, NoStrandedOutput
  <2> QED
    BY <1>3, <2>2, <2>3, <2>4, <2>5
    DEF KernelTakes, Writable, BufferRemaining, NothingLostOrReordered
<1>4. CASE ~DirectWriteAllowed /\ BufferRemaining(d)
           /\ accepted' = accepted \o d /\ UNCHANGED <<fileRest, kernel>>
  <2>1. outbuf \o d \in Seq(Bytes) /\ accepted \o d \in Seq(Bytes)
    BY ConcatProperties
  <2>2. (wire \o outbuf) \o d = wire \o (outbuf \o d)
    <3>1. outbuf \in Seq(Bytes) /\ wire \in Seq(Bytes)
      OBVIOUS
    <3> HIDE DEF StreamInv
    <3> QED
      BY <3>1, Regroup
  <2>3. NoStrandedOutput'
    <3>1. CASE writing
      BY <1>4, <3>1 DEF BufferRemaining, NoStrandedOutput
    <3>2. CASE d # <<>>
      BY <1>4, <3>2 DEF BufferRemaining, NoStrandedOutput
    <3>3. CASE d = <<>> /\ ~writing
      BY <1>4, <3>3, ConcatEmptySeq DEF BufferRemaining, NoStrandedOutput
    <3> QED
      BY <3>1, <3>2, <3>3
  <2>4. ~(fin' /\ reading')
    BY <1>4 DEF DirectWriteAllowed, kernel
  <2> QED
    BY <1>4, <2>1, <2>2, <2>3, <2>4 DEF BufferRemaining, NothingLostOrReordered, kernel
<1> QED
  BY <1>1, <1>2, <1>3, <1>4 DEF SendInLoop

\* So does sendFileInLoop.
LEMMA SendFileInLoopKeeps ==
  ASSUME StreamInv, NEW r \in Seq(Bytes), SendFileInLoop(r), reading' = reading
  PROVE  StreamInv'
<1> USE DEF StreamInv
<1>1. CASE fileRest' = r /\ UNCHANGED <<writing, outbuf, accepted, kernel>>
  BY <1>1 DEF kernel, NothingLostOrReordered, NoStrandedOutput
<1>2. CASE fileRest' = r /\ (KernelResets \/ KernelKills)
           /\ UNCHANGED <<writing, outbuf, accepted>>
  BY <1>2, FailedWriteKeeps
<1>3. ASSUME DirectWriteAllowed, outbuf' = outbuf, NEW n \in 0 .. Len(r),
             KernelTakes(r, n), fileRest' = Rest(r, n),
             accepted' = accepted \o SubSeq(r, 1, n),
             writing' = (fileRest' # <<>>)
      PROVE  StreamInv'
  <2>1. outbuf = <<>> /\ accepted = wire
    BY <1>3, ConcatEmptySeq DEF DirectWriteAllowed, NothingLostOrReordered
  <2>2. fileRest' \in Seq(Bytes) /\ wire' \in Seq(Bytes) /\ accepted' = wire'
    BY <1>3, <2>1, MoveToWire, SplitWhole DEF KernelTakes
  <2> QED
    BY <1>3, <2>1, <2>2, ConcatEmptySeq
    DEF KernelTakes, Writable, NothingLostOrReordered, NoStrandedOutput
<1>4. CASE ~DirectWriteAllowed /\ fileRest' = r /\ writing' = (writing \/ r # <<>>)
           /\ UNCHANGED <<outbuf, accepted, kernel>>
  BY <1>4 DEF DirectWriteAllowed, kernel, NothingLostOrReordered, NoStrandedOutput
<1> QED
  BY <1>1, <1>2, <1>3, <1>4 DEF SendFileInLoop

\* shutdownInLoop sends the FIN only when nothing is buffered.
LEMMA ShutdownInLoopKeeps ==
  ASSUME StreamInv, ShutdownInLoop, UNCHANGED <<reading, writing, outbuf, fileRest, accepted>>
  PROVE  StreamInv'
BY DEF StreamInv, ShutdownInLoop, NothingLostOrReordered, NoStrandedOutput

\* handleWrite moves bytes from the buffer to the wire, and ends EPOLLOUT and
\* sends a waiting FIN exactly when the buffer is empty.
LEMMA HandleWriteKeeps ==
  ASSUME StreamInv, HandleWrite
  PROVE  StreamInv'
<1> USE DEF StreamInv
<1>1. CASE (KernelResets \/ KernelKills) /\ UNCHANGED <<outbuf, writing>>
  BY <1>1, FailedWriteKeeps DEF HandleWrite
<1>2. ASSUME NEW n \in 1 .. Len(outbuf), Wrote(n)
      PROVE  StreamInv'
  <2>1. n \in 0 .. Len(outbuf)
    BY LenProperties
  <2>2. /\ wire' \in Seq(Bytes) /\ outbuf' \in Seq(Bytes)
        /\ wire' \o outbuf' = wire \o outbuf
        /\ n = Len(outbuf) => outbuf' = <<>>
    BY <1>2, <2>1, MoveToWire, SplitWhole DEF Wrote
  <2>3. accepted' = accepted /\ fileRest' = fileRest /\ reading' = reading
    BY DEF HandleWrite
  <2>4. NoStrandedOutput'
    <3>1. outbuf' # <<>> => n < Len(outbuf)
      BY <2>1, <2>2, LenProperties
    <3>2. writing' = (n < Len(outbuf))
      BY <1>2 DEF Wrote
    <3> QED
      BY <3>1, <3>2 DEF NoStrandedOutput
  <2>5. fin' => outbuf' = <<>> /\ ~writing'
    BY <1>2, <2>1, <2>2, LenProperties, SMTT(30) DEF Wrote
  <2>6. /\ writing' \in BOOLEAN /\ fin' \in BOOLEAN
        /\ UNCHANGED <<peer, sockErr, killed>>
    BY <1>2 DEF Wrote
  <2>7. NothingLostOrReordered'
    BY <2>2, <2>3 DEF NothingLostOrReordered
  <2> QED
    BY <2>2, <2>3, <2>4, <2>5, <2>6, <2>7
<1> QED
  BY <1>1, <1>2 DEF HandleWrite

(***************************************************************************)
(* The inductive invariant.                                                *)
(***************************************************************************)

\* The constructor establishes it.
LEMMA InitInv == Init => Inv
<1> SUFFICES ASSUME Init PROVE Inv
  OBVIOUS
<1>1. <<>> \in Seq(Bytes) /\ <<>> \in Seq(FunctorType)
  OBVIOUS
<1>2. tfun \in [Threads -> FunctorType \union {Idle, SetDisconnecting}]
  BY DEF Init
<1>3. TypeOK
  <2>1. outbuf \in Seq(Bytes) /\ fileRest \in Seq(Bytes) /\ queue \in Seq(FunctorType)
        /\ wire \in Seq(Bytes) /\ accepted \in Seq(Bytes)
    BY <1>1 DEF Init
  <2>2. files \in 0 .. MaxFiles /\ unsent \subseteq Msgs
    BY ConstantsAssumption DEF Init
  <2> QED
    BY <1>2, <2>1, <2>2 DEF Init, TypeOK, States
<1>4. NothingLostOrReordered
  BY <1>1, ConcatEmptySeq DEF Init, NothingLostOrReordered
<1>5. QuietBeforeEstablished
  BY DEF Init, QuietBeforeEstablished
<1> QED
  BY <1>3, <1>4, <1>5 DEF Init, Inv, NoStrandedOutput

\* The other half of the invariant: what the stream part does not say.
CallInv ==
  /\ state \in States
  /\ queue \in Seq(FunctorType)
  /\ tfun \in [Threads -> FunctorType \union {Idle, SetDisconnecting}]
  /\ unsent \subseteq Msgs /\ files \in 0 .. MaxFiles
  /\ QuietBeforeEstablished

\* The two halves are the invariant.
LEMMA Halves ==
  /\ Inv => StreamInv /\ CallInv
  /\ StreamInv' /\ CallInv' => Inv'
BY DEF Inv, TypeOK, StreamInv, CallInv

\* Calls made on the loop thread.
LEMMA HereKeeps == ASSUME Inv, HereStep PROVE Inv'
<1> USE Halves
<1>1. ASSUME NEW m \in Msgs, SendHere(m) PROVE Inv'
  <2>1. StreamInv'
    BY <1>1, SendInLoopKeeps, ConstantsAssumption DEF SendHere
  <2>2. CallInv'
    BY <1>1 DEF SendHere, CallInv, QuietBeforeEstablished
  <2> QED
    BY <2>1, <2>2
<1>2. CASE SendFileHere
  <2>1. StreamInv'
    BY <1>2, SendFileInLoopKeeps, ConstantsAssumption DEF SendFileHere
  <2>2. CallInv'
    BY <1>2, ConstantsAssumption DEF SendFileHere, CallInv, QuietBeforeEstablished
  <2> QED
    BY <2>1, <2>2
<1>3. CASE ShutdownHere
  <2>1. StreamInv'
    BY <1>3, ShutdownInLoopKeeps DEF ShutdownHere
  <2>2. CallInv'
    BY <1>3 DEF ShutdownHere, app, CallInv, QuietBeforeEstablished, States
  <2> QED
    BY <2>1, <2>2
<1> QED
  BY <1>1, <1>2, <1>3 DEF HereStep

\* Calls made on another thread touch the stream only through the queue, and
\* through sendLen_.
LEMMA ThreadKeeps == ASSUME Inv, ThreadStep PROVE Inv'
<1> USE Halves
<1> PICK t \in Threads :
      \/ ThreadSendFile(t) \/ ThreadShutdown(t)
      \/ ThreadSetDisconnecting(t) \/ ThreadQueues(t)
      \/ \E m \in Msgs : ThreadSend(t, m)
  BY DEF ThreadStep
<1>1. ASSUME NEW m \in Msgs, ThreadSend(t, m) PROVE Inv'
  <2>1. StreamInv'
    BY <1>1 DEF ThreadSend, conn, kernel, StreamInv, NothingLostOrReordered, NoStrandedOutput
  <2>2. Functor("sendInLoop", m) \in FunctorType
    BY ConstantsAssumption DEF Functor, FunctorType, Ops
  <2>3. CallInv'
    BY <1>1, <2>2 DEF ThreadSend, conn, CallInv, QuietBeforeEstablished
  <2> QED
    BY <2>1, <2>3
<1>2. CASE ThreadSendFile(t)
  <2>1. StreamInv'
    BY <1>2, ConstantsAssumption
    DEF ThreadSendFile, kernel, StreamInv, NothingLostOrReordered, NoStrandedOutput
  <2>2. Functor("sendFileInLoop", <<>>) \in FunctorType
    BY DEF Functor, FunctorType, Ops
  <2>3. CallInv'
    BY <1>2, <2>2, ConstantsAssumption
    DEF ThreadSendFile, CallInv, QuietBeforeEstablished
  <2> QED
    BY <2>1, <2>3
<1>3. CASE ThreadShutdown(t)
  <2>1. StreamInv'
    BY <1>3 DEF ThreadShutdown, conn, kernel, StreamInv, NothingLostOrReordered, NoStrandedOutput
  <2>2. CallInv'
    BY <1>3 DEF ThreadShutdown, conn, CallInv, QuietBeforeEstablished
  <2> QED
    BY <2>1, <2>2
<1>4. CASE ThreadSetDisconnecting(t)
  <2>1. StreamInv'
    BY <1>4 DEF ThreadSetDisconnecting, kernel, StreamInv, NothingLostOrReordered, NoStrandedOutput
  <2>2. Functor("shutdownInLoop", <<>>) \in FunctorType
    BY DEF Functor, FunctorType, Ops
  <2>3. CallInv'
    BY <1>4, <2>2 DEF ThreadSetDisconnecting, CallInv, QuietBeforeEstablished, States
  <2> QED
    BY <2>1, <2>3
<1>5. CASE ThreadQueues(t)
  <2>1. StreamInv'
    BY <1>5 DEF ThreadQueues, conn, kernel, StreamInv, NothingLostOrReordered, NoStrandedOutput
  <2>2. state # "kConnecting"
    <3>1. tfun[t] # Idle
      BY <1>5 DEF ThreadQueues, FunctorType, Ops, Idle
    <3> QED
      BY <3>1 DEF CallInv, QuietBeforeEstablished
  <2>3. CallInv'
    BY <1>5, <2>2 DEF ThreadQueues, conn, CallInv, QuietBeforeEstablished
  <2> QED
    BY <2>1, <2>3
<1> QED
  BY <1>1, <1>2, <1>3, <1>4, <1>5

\* Functors and channel callbacks on the loop thread.
LEMMA LoopKeeps == ASSUME Inv, LoopStep PROVE Inv'
<1> USE Halves
<1>1. CASE ConnectEstablished
  <2>1. StreamInv'
    BY <1>1 DEF ConnectEstablished, kernel, StreamInv, CallInv, QuietBeforeEstablished,
       NothingLostOrReordered, NoStrandedOutput
  <2>2. CallInv'
    BY <1>1 DEF ConnectEstablished, app, CallInv, QuietBeforeEstablished, States
  <2> QED
    BY <2>1, <2>2
<1>2. CASE RunFunctor
  <2> DEFINE f == Head(queue)
  <2>1. f \in FunctorType /\ Tail(queue) \in Seq(FunctorType)
    BY <1>2, HeadTailProperties DEF RunFunctor, CallInv
  <2>2. f.data \in Seq(Bytes)
    BY <2>1 DEF FunctorType
  <2>3. ASSUME SendInLoop(f.data) PROVE StreamInv'
    BY <1>2, <2>2, <2>3, SendInLoopKeeps DEF RunFunctor
  <2>4. ASSUME SendFileInLoop(fileRest) PROVE StreamInv'
    <3>1. fileRest \in Seq(Bytes)
      BY DEF StreamInv
    <3> QED
      BY <1>2, <2>4, <3>1, SendFileInLoopKeeps DEF RunFunctor
  <2>5. ASSUME ShutdownInLoop, UNCHANGED <<writing, outbuf, fileRest, accepted>>
        PROVE  StreamInv'
    BY <1>2, <2>5, ShutdownInLoopKeeps DEF RunFunctor
  <2>6. StreamInv'
    BY <1>2, <2>3, <2>4, <2>5 DEF RunFunctor
  <2>7. CallInv'
    BY <1>2, <2>1 DEF RunFunctor, app, CallInv, QuietBeforeEstablished
  <2> QED
    BY <2>6, <2>7
<1>3. CASE HandleWrite
  <2>1. CallInv'
    BY <1>3 DEF HandleWrite, app, CallInv, QuietBeforeEstablished
  <2> QED
    BY <1>3, <2>1, HandleWriteKeeps
<1>4. CASE HandleError
  <2>1. StreamInv'
    BY <1>4 DEF HandleError, conn, StreamInv, NothingLostOrReordered, NoStrandedOutput
  <2>2. CallInv'
    BY <1>4 DEF HandleError, conn, app, CallInv, QuietBeforeEstablished
  <2> QED
    BY <2>1, <2>2
<1>5. CASE HandleClose
  <2>1. StreamInv'
    BY <1>5 DEF HandleClose, kernel, StreamInv, NothingLostOrReordered, NoStrandedOutput
  <2>2. CallInv'
    BY <1>5 DEF HandleClose, app, CallInv, QuietBeforeEstablished, States
  <2> QED
    BY <2>1, <2>2
<1> QED
  BY <1>1, <1>2, <1>3, <1>4, <1>5 DEF LoopStep

\* The peer changes only the state of the socket.
LEMMA PeerKeeps == ASSUME Inv, PeerStep PROVE Inv'
<1>1. StreamInv'
  <2>1. /\ UNCHANGED <<reading, writing, outbuf, fileRest, wire, fin, killed, accepted>>
        /\ peer' \in {"open", "closed", "reset"}
        /\ sockErr' \in {"none", "ECONNRESET", "EPIPE"}
    BY Halves DEF PeerStep, PeerCloses, PeerResets, conn, StreamInv
  <2> QED
    BY <2>1, Halves DEF StreamInv, NothingLostOrReordered, NoStrandedOutput
<1>2. CallInv'
  BY Halves DEF PeerStep, PeerCloses, PeerResets, conn, app, CallInv, QuietBeforeEstablished
<1> QED
  BY <1>1, <1>2, Halves

\* Spec keeps the inductive invariant, hence the types of all variables.
THEOREM InvHolds == Spec => []Inv
<1>1. Inv /\ [Next]_vars => Inv'
  <2>1. CASE UNCHANGED vars
    BY <2>1 DEF vars, conn, app, kernel, Inv, TypeOK, NothingLostOrReordered,
       NoStrandedOutput, QuietBeforeEstablished
  <2> QED
    BY <2>1, HereKeeps, ThreadKeeps, LoopKeeps, PeerKeeps DEF Next
<1> QED
  BY <1>1, InitInv, PTL DEF Spec

\* Every accepted byte is on the wire or in outputBuffer_, in the order it was
\* accepted, whatever the kernel takes and whichever threads call.
THEOREM NothingLostHolds == Spec => []NothingLostOrReordered
<1>1. Inv => NothingLostOrReordered
  BY DEF Inv
<1> QED
  BY <1>1, InvHolds, PTL

\* Buffered bytes of an open connection always have EPOLLOUT enabled.
THEOREM NoStrandedHolds == Spec => []NoStrandedOutput
<1>1. Inv => NoStrandedOutput
  BY DEF Inv
<1> QED
  BY <1>1, InvHolds, PTL

\* The FIN never overtakes buffered bytes on an open connection.
THEOREM FinAfterDataHolds == Spec => []FinAfterData
<1>1. Inv => FinAfterData
  BY DEF Inv, FinAfterData
<1> QED
  BY <1>1, InvHolds, PTL
=============================================================================
