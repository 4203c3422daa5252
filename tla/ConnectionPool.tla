--------------------------- MODULE ConnectionPool ---------------------------
(***************************************************************************)
(* The MySQL connection pool (src/mysql/ConnectionPool.cc): the threads    *)
(* that borrow connections, the producer and the recycler.  Every critical *)
(* section of mutex_ is one action.  Connections are numbered as they are  *)
(* created; a connection's alive time is counted in ticks since it was     *)
(* last pushed, up to maxIdleTime_, which is all the recycler compares.    *)
(***************************************************************************)
EXTENDS Integers, Sequences, Functions, FiniteSets

CONSTANTS Users,     \* threads that call getConnection
          MinSize,   \* minSize_
          MaxSize,   \* maxSize_
          MaxIdle    \* maxIdleTime_, in ticks

ASSUME SizesAssumption ==
  /\ MinSize \in Nat \ {0} /\ MaxSize \in Nat /\ MinSize <= MaxSize
  /\ MaxIdle \in Nat

VARIABLES
  queue,        \* connectionQueue_, front first
  currentSize,  \* currentSize_
  created,      \* connections created so far: 1 .. created
  deleted,      \* the ones the recycler has deleted
  age,          \* age[c]: getAliveTime(), capped at MaxIdle
  held,         \* held[u]: the connection u has borrowed, 0 if none
  upc,          \* "idle", "waiting" in cond_.wait_for, or "using"
  producer      \* "run", or "waiting" in cond_.wait

vars == <<queue, currentSize, created, deleted, age, held, upc, producer>>

Live == (1 .. created) \ deleted

\* addConnection: a new connection, just used, at the back of the queue.
AddConnection ==
  /\ created' = created + 1
  /\ age' = [c \in 1 .. created + 1 |-> IF c <= created THEN age[c] ELSE 0]
  /\ queue' = Append(queue, created + 1)

\* The constructor: addConnection counts every connection, and so does the
\* loop around it.
Init ==
  /\ created = MinSize /\ deleted = {}
  /\ queue = [i \in 1 .. MinSize |-> i]
  /\ age = [c \in 1 .. MinSize |-> 0]
  /\ currentSize = 2 * MinSize
  /\ held = [u \in Users |-> 0] /\ upc = [u \in Users |-> "idle"]
  /\ producer = "run"

(***************************************************************************)
(* produceConnection.  The third case is its busy loop.                    *)
(***************************************************************************)
ProducerWaits ==
  /\ producer = "run" /\ queue # <<>>
  /\ producer' = "waiting"
  /\ UNCHANGED <<queue, currentSize, created, deleted, age, held, upc>>

\* Mutant: the limit is not tested.
RoomAlways == TRUE

HasRoom == currentSize < MaxSize

\* The producer finds the queue empty while it holds the mutex and creates a
\* connection, counted in addConnection and again by its caller.
ProducerAdds ==
  /\ producer = "run" /\ queue = <<>> /\ HasRoom
  /\ AddConnection
  /\ currentSize' = currentSize + 2
  /\ UNCHANGED <<deleted, held, upc, producer>>

ProducerSpins ==
  /\ producer = "run" /\ queue = <<>> /\ ~HasRoom
  /\ UNCHANGED vars

(***************************************************************************)
(* getConnection.  A waiting thread looks again on every notify and every  *)
(* timeout_ milliseconds, so it may take a connection whenever there is    *)
(* one.  Taking one wakes the producer.                                    *)
(***************************************************************************)
StartsWaiting(u) ==
  /\ upc[u] = "idle" /\ queue = <<>>
  /\ upc' = [upc EXCEPT ![u] = "waiting"]
  /\ UNCHANGED <<queue, currentSize, created, deleted, age, held, producer>>

\* Mutant: the connection is handed out without being popped.
GetsWithoutPop(u) ==
  /\ upc[u] \in {"idle", "waiting"} /\ queue # <<>>
  /\ held' = [held EXCEPT ![u] = Head(queue)]
  /\ upc' = [upc EXCEPT ![u] = "using"]
  /\ producer' = "run"
  /\ UNCHANGED <<queue, currentSize, created, deleted, age>>

\* Mutant: the producer is not notified.
GetsSilently(u) ==
  /\ upc[u] \in {"idle", "waiting"} /\ queue # <<>>
  /\ held' = [held EXCEPT ![u] = Head(queue)]
  /\ queue' = Tail(queue)
  /\ upc' = [upc EXCEPT ![u] = "using"]
  /\ UNCHANGED <<currentSize, created, deleted, age, producer>>

Gets(u) ==
  /\ upc[u] \in {"idle", "waiting"} /\ queue # <<>>
  /\ held' = [held EXCEPT ![u] = Head(queue)]
  /\ queue' = Tail(queue)
  /\ upc' = [upc EXCEPT ![u] = "using"]
  /\ producer' = "run"
  /\ UNCHANGED <<currentSize, created, deleted, age>>

\* Mutant: the deleter does not refresh the alive time.
ReleaseKeepsAge(u) ==
  /\ upc[u] = "using"
  /\ queue' = Append(queue, held[u])
  /\ held' = [held EXCEPT ![u] = 0]
  /\ upc' = [upc EXCEPT ![u] = "idle"]
  /\ UNCHANGED <<currentSize, created, deleted, age, producer>>

\* The deleter of the shared_ptr; it notifies nobody.
Releases(u) ==
  /\ upc[u] = "using"
  /\ age' = [age EXCEPT ![held[u]] = 0]
  /\ queue' = Append(queue, held[u])
  /\ held' = [held EXCEPT ![u] = 0]
  /\ upc' = [upc EXCEPT ![u] = "idle"]
  /\ UNCHANGED <<currentSize, created, deleted, producer>>

(***************************************************************************)
(* recycleConnection: one pass deletes connections from the front, while   *)
(* more than minSize_ are queued and the front one has been idle too long. *)
(***************************************************************************)
Expired(i) == age[queue[i]] >= MaxIdle

PassDeletes(k) ==
  /\ \A i \in 1 .. k : Expired(i)
  /\ Len(queue) - k >= MinSize
  /\ Len(queue) - k = MinSize \/ ~Expired(k + 1)

Recycles ==
  \E k \in 1 .. Len(queue) :
    /\ PassDeletes(k)
    /\ deleted' = deleted \union {queue[i] : i \in 1 .. k}
    /\ queue' = SubSeq(queue, k + 1, Len(queue))
    /\ currentSize' = currentSize - k
    /\ UNCHANGED <<created, age, held, upc, producer>>

\* Time passes for all connections alike.
Tick ==
  /\ \E c \in Live : age[c] < MaxIdle
  /\ age' = [c \in DOMAIN age |-> IF age[c] < MaxIdle THEN age[c] + 1 ELSE MaxIdle]
  /\ UNCHANGED <<queue, currentSize, created, deleted, held, upc, producer>>

ProducerStep == ProducerWaits \/ ProducerAdds \/ ProducerSpins
UserStep == \E u \in Users : StartsWaiting(u) \/ Gets(u) \/ Releases(u)

Next == ProducerStep \/ UserStep \/ Recycles \/ Tick

Spec == Init /\ [][Next]_vars

\* The producer thread runs.  Nothing is assumed of the borrowers: FileServer
\* keeps its connection in a member for the life of the process.
FairSpec == Spec /\ WF_vars(ProducerStep)

-----------------------------------------------------------------------------
(***************************************************************************)
(* Properties.                                                             *)
(***************************************************************************)

\* Every variable has its type.
TypeOK ==
  /\ created \in Nat /\ currentSize \in Int /\ deleted \subseteq 1 .. created
  /\ queue \in Seq(1 .. created) /\ age \in [1 .. created -> 0 .. MaxIdle]
  /\ held \in [Users -> 0 .. created]
  /\ upc \in [Users -> {"idle", "waiting", "using"}]
  /\ producer \in {"run", "waiting"}

Borrowed == {u \in Users : upc[u] = "using"}

\* Every live connection is at one place: once in the queue, or with one
\* borrower.  So no connection is lent twice, lost, or deleted in use.
OnePlace ==
  /\ Range(queue) \union {held[u] : u \in Borrowed} = Live
  /\ Len(queue) + Cardinality(Borrowed) = Cardinality(Live)

\* ConnectionPool.cc:111: the queue is in the order of idle time, so the
\* recycler may stop at the first connection that has not expired.
OldestFirst ==
  \A i, j \in 1 .. Len(queue) : i < j => age[queue[i]] >= age[queue[j]]

\* ConnectionPool.cc:18-19: the pool keeps at least minSize_ connections and
\* never has more than maxSize_, through borrowing, growth and recycling,
\* although the recycler goes by the length of the queue and the producer by
\* currentSize_, and neither is the number of connections there are.
SizeInBounds == MinSize <= Cardinality(Live) /\ Cardinality(Live) <= MaxSize

\* Why the producer's test keeps the upper bound: a creation counts at least
\* once in currentSize_, a deletion exactly once.
CountedAtLeast == Cardinality(Live) <= currentSize

\* What makes OnePlace inductive: the queue holds no connection twice, no two
\* threads hold the same one, none of theirs is queued, and the live connections
\* are those queued or held.
Placed ==
  /\ \A i, j \in 1 .. Len(queue) : queue[i] = queue[j] => i = j
  /\ \A u, v \in Borrowed : held[u] = held[v] => u = v
  /\ \A u \in Borrowed : held[u] # 0 /\ \A i \in 1 .. Len(queue) : held[u] # queue[i]
  /\ \A c \in 1 .. created :
       c \in Live <=> \/ \E i \in 1 .. Len(queue) : queue[i] = c
                     \/ \E u \in Borrowed : held[u] = c

\* The inductive invariant of ConnectionPoolProofs.
Inv == TypeOK /\ Placed /\ OldestFirst /\ SizeInBounds /\ CountedAtLeast

\* ConnectionPool.cc:73-83, 131: a thread that waits on an empty queue finds a
\* connection there in the end, whoever keeps the others and for however long,
\* unless currentSize_ has reached the limit: the producer that fell asleep over
\* a queue with connections in it has been woken by the thread that emptied it.
PoolGrows ==
  \A u \in Users : upc[u] = "waiting" ~> (queue # <<>> \/ upc[u] = "using" \/ ~HasRoom)

=============================================================================
