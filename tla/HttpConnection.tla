--------------------------- MODULE HttpConnection ----------------------------
(***************************************************************************)
(* HttpContext over the Buffer that its bytes are in: the input buffer of  *)
(* the TcpConnection, which handleRead fills and the parser empties.  The  *)
(* half token number i of the stream stands for its bytes.                 *)
(***************************************************************************)
EXTENDS HttpContext, Buffer

VARIABLE inputBuffer

connVars == <<httpVars, inputBuffer>>

\* Half tokens that have been retrieved, or thrown away.
Consumed(r, t) == 2 * r + (IF t THEN 1 ELSE 0)

HalfTokens(from, to) == [i \in 1 .. (to - from) |-> from + i]

ConnInit == HttpInit /\ inputBuffer = EmptyBuffer

\* TcpConnection::handleRead: one readv, and then the callback.
HandleRead(n) ==
  /\ n <= ReadLimit(inputBuffer)
  /\ OnMessage(n)
  /\ inputBuffer' = readFd(inputBuffer, HalfTokens(arrived, arrived + n))

\* What the handler's step has consumed is retrieved.
HandlerStep ==
  /\ Handler
  /\ LET len == Consumed(read', torn') - Consumed(read, torn)
     IN inputBuffer' = IF len = 0 THEN inputBuffer ELSE retrieve(inputBuffer, len)

ConnNext == HandlerStep \/ \E n \in 1 .. 2 * Len(stream) : HandleRead(n)

ConnSpec == ConnInit /\ [][ConnNext]_connVars

\* A handler that has been called runs to its end.
ConnFairSpec == ConnSpec /\ WF_connVars(HandlerStep)

\* Buffer.h:64-84, 132-137, 174-194, Buffer.cc:18-62: whatever the sizes of the
\* reads, and whether the vector grows, its content moves to the front or the
\* indices go back, the parser finds in the buffer the bytes that have arrived
\* and are not consumed, in order, and the indices stay inside the vector.
BufferHolds ==
  /\ BufferOK(inputBuffer)
  /\ Content(inputBuffer) = HalfTokens(Consumed(read, torn), arrived)
=============================================================================
