---------------------------- MODULE AsyncLogging ----------------------------
(***************************************************************************)
(* The double-buffered logger (src/logger/AsyncLogging.cc): front-end      *)
(* threads that append lines under the lock, and the back-end thread that  *)
(* swaps the filled buffers out, writes them and takes two of them back.   *)
(*                                                                         *)
(* The Logger hands over every line as exactly kSmallBuffer bytes, so a    *)
(* FixedBuffer<kLargeBuffer> is Cap cells of one line each.  Lines are     *)
(* numbered in the order of append.  The LogFile is here the sequence of   *)
(* the lines handed to it for the first time; LoggingToFile puts the real  *)
(* one in its place.                                                       *)
(***************************************************************************)
EXTENDS Integers, Sequences, Functions, SequencesExt

CONSTANTS Cap,       \* kLargeBuffer / kSmallBuffer, the cells of a buffer
          MaxLines   \* bound: lines appended

ASSUME CapAssumption == Cap \in Nat /\ Cap > 1 /\ MaxLines \in Nat

VARIABLES
  current,   \* currentBuffer_
  next,      \* nextBuffer_
  buffers,   \* buffers_
  new1,      \* newBuffer1
  new2,      \* newBuffer2
  toWrite,   \* buffersToWrite
  running,   \* running_
  pc,        \* the back-end thread
  lines,     \* lines appended so far
  file       \* first writes of lines, in the order of the file

front == <<current, next, buffers, lines>>
back == <<new1, new2, toWrite, pc>>
vars == <<front, back, running, file>>

(***************************************************************************)
(* FixedBuffer: data_ keeps what earlier uses left behind cur_.            *)
(***************************************************************************)
Null == [data |-> <<>>, cur |-> -1]       \* a unique_ptr that was moved from
FreshBuffer == [data |-> <<>>, cur |-> 0]
BufferType == [data : Seq(Nat), cur : Nat]

Avail(b) == Cap - b.cur
PutAt(d, i, x) == IF i <= Len(d) THEN [d EXCEPT ![i] = x] ELSE Append(d, x)
AppendTo(b, x) == [data |-> PutAt(b.data, b.cur + 1, x), cur |-> b.cur + 1]
Reset(b) == [b EXCEPT !.cur = 0]
Live(b) == SubSeq(b.data, 1, b.cur)
Stale(b) == SubSeq(b.data, b.cur + 1, Len(b.data))
LiveLines(bs) == FlattenSeq([i \in DOMAIN bs |-> Live(bs[i])])

Init ==
  /\ current = FreshBuffer /\ next = FreshBuffer /\ buffers = <<>>
  /\ new1 = Null /\ new2 = Null /\ toWrite = <<>>
  /\ running = FALSE /\ pc = "created"
  /\ lines = 0 /\ file = <<>>

(***************************************************************************)
(* start() and the back-end thread's own buffers.                          *)
(***************************************************************************)
Start ==
  /\ pc = "created"
  /\ running' = TRUE
  /\ new1' = FreshBuffer /\ new2' = FreshBuffer
  /\ pc' = "test"
  /\ UNCHANGED <<front, toWrite, file>>

\* stop(), or the destructor: clear the flag, notify, and join.
Stop ==
  /\ running
  /\ running' = FALSE
  /\ UNCHANGED <<front, back, file>>

(***************************************************************************)
(* append(), one critical section.                                         *)
(***************************************************************************)
AppendFits(x) ==
  /\ Avail(current) > 1
  /\ current' = AppendTo(current, x)
  /\ UNCHANGED <<next, buffers>>

\* Mutant: the full buffer is not moved to buffers_ when there is a spare one.
AppendRotatesAndDrops(x) ==
  /\ Avail(current) <= 1
  /\ buffers' = IF next # Null THEN buffers ELSE Append(buffers, current)
  /\ current' = AppendTo(IF next # Null THEN next ELSE FreshBuffer, x)
  /\ next' = Null

\* The notify_one at its end is covered by BackendSwap, which may leave the
\* wait at any time.
AppendRotates(x) ==
  /\ Avail(current) <= 1
  /\ buffers' = Append(buffers, current)
  /\ current' = AppendTo(IF next # Null THEN next ELSE FreshBuffer, x)
  /\ next' = Null

AppendLine ==
  /\ lines < MaxLines
  /\ lines' = lines + 1
  /\ AppendFits(lines') \/ AppendRotates(lines')
  /\ UNCHANGED <<back, running, file>>

(***************************************************************************)
(* threadFunc().                                                           *)
(***************************************************************************)
BackendTest ==
  /\ pc = "test"
  /\ pc' = IF running THEN "lock" ELSE "done"
  /\ UNCHANGED <<front, new1, new2, toWrite, running, file>>

BackendWait ==
  /\ pc = "lock" /\ buffers = <<>>
  /\ pc' = "waiting"
  /\ UNCHANGED <<front, new1, new2, toWrite, running, file>>

\* Mutant: nextBuffer_ is refilled whether or not it is empty.
SwapAlwaysGivesSecond ==
  /\ next' = new2 /\ new2' = Null

\* Lines 103-106.
SwapGivesSecond ==
  \/ next = Null /\ next' = new2 /\ new2' = Null
  \/ next # Null /\ UNCHANGED <<next, new2>>

\* Mutant: wait instead of wait_for, for a filled buffer.
MaySwapOnlyFilled == pc \in {"waiting", "lock"} /\ buffers # <<>>

\* The lock is held with a filled buffer, or wait_for has returned, because of
\* a notify, the 3 seconds, or for no reason.
MaySwap == pc = "waiting" \/ (pc = "lock" /\ buffers # <<>>)

BackendSwap ==
  /\ MaySwap
  /\ toWrite' = Append(buffers, current)
  /\ buffers' = <<>>
  /\ current' = new1 /\ new1' = Null
  /\ SwapGivesSecond
  /\ pc' = "write"
  /\ UNCHANGED <<lines, running, file>>

\* output.append(data(), length()), where length() is the size of the buffer:
\* the cells behind cur_ are written too.  NoLineLost says what they hold.
BackendWrite ==
  /\ pc = "write"
  /\ file' = file \o LiveLines(toWrite)
  /\ pc' = "refill"
  /\ UNCHANGED <<front, new1, new2, toWrite, running>>

\* Line 124: at most two buffers are kept.
Kept == IF Len(toWrite) > 2 THEN SubSeq(toWrite, 1, 2) ELSE toWrite

\* newBuffer1 was always moved to currentBuffer_ by the swap, newBuffer2 only
\* if nextBuffer_ was empty.
BackendRefill ==
  /\ pc = "refill"
  /\ new1' = Reset(Last(Kept))
  /\ new2' = IF new2 = Null THEN Reset(Last(Front(Kept))) ELSE new2
  /\ toWrite' = <<>>
  /\ pc' = "test"
  /\ UNCHANGED <<front, running, file>>

Backend == BackendTest \/ BackendWait \/ BackendSwap \/ BackendWrite \/ BackendRefill

Next == Start \/ Stop \/ AppendLine \/ Backend

Spec == Init /\ [][Next]_vars

-----------------------------------------------------------------------------
(***************************************************************************)
(* Properties.                                                             *)
(***************************************************************************)
BackendPCs == {"created", "test", "lock", "waiting", "write", "refill", "done"}

\* Every variable has its type; a moved-from pointer is allowed where the code
\* tests for one.
TypeOK ==
  /\ current \in BufferType /\ next \in BufferType \union {Null}
  /\ buffers \in Seq(BufferType) /\ toWrite \in Seq(BufferType)
  /\ new1 \in BufferType \union {Null} /\ new2 \in BufferType \union {Null}
  /\ running \in BOOLEAN /\ pc \in BackendPCs
  /\ lines \in Nat

\* The back end never moves a null newBuffer1 or newBuffer2 to the front end,
\* so currentBuffer_ is never null when append or the swap dereferences it.
SparesReady ==
  pc \in {"test", "lock", "waiting"} => new1 # Null /\ new2 # Null

\* Why there are enough buffers: nextBuffer_ is taken only by an append that
\* has put another buffer into buffers_.
NextTakenMeansFull == next = Null => buffers # <<>>

\* Lines 130-143 never take back() of an empty vector: after the resize there
\* is a buffer for each of the two empty pointers.
RefillHasBuffers ==
  pc \in {"write", "refill"} =>
    /\ new1 = Null
    /\ Len(toWrite) >= (IF new2 = Null THEN 2 ELSE 1)

\* The inductive invariant proved in LoggingToFileProofs.
Inv ==
  /\ TypeOK
  /\ SparesReady
  /\ NextTakenMeansFull
  /\ RefillHasBuffers

AllBuffers ==
  ({current, next, new1, new2} \union Range(buffers) \union Range(toWrite)) \ {Null}

Unwritten == IF pc = "refill" THEN <<>> ELSE LiveLines(toWrite)

\* Lines 30-52, 96-119: until it is written, every line is in exactly one buffer,
\* and lines reach the file in the order of append; and although length() makes
\* the back end write whole buffers, what they hold behind cur_ only repeats
\* lines that are in the file already.
NoLineLost ==
  /\ [i \in 1 .. lines |-> i] = ((file \o Unwritten) \o LiveLines(buffers)) \o Live(current)
  /\ \A b \in AllBuffers : Range(Stale(b)) \subseteq Range(file)

\* What makes NoLineLost inductive: cur_ stays inside the cells ever written, a
\* spare buffer has been reset, buffersToWrite is empty between two rounds, and
\* a round that comes to the refill has all its lines in the file.
LinesInv ==
  /\ file \in Seq(Nat)
  /\ \A b \in AllBuffers : b.cur <= Len(b.data)
  /\ \A b \in {next, new1, new2} \ {Null} : b.cur = 0
  /\ pc \notin {"write", "refill"} => toWrite = <<>>
  /\ pc = "refill" => \A b \in Range(toWrite) : Range(Live(b)) \subseteq Range(file)
  /\ NoLineLost
=============================================================================
