------------------------------ MODULE PoolProofs ------------------------------
(***************************************************************************)
(* Proofs about the two pools of the base library.                         *)
(*                                                                         *)
(* ThreadPool, for any number of workers and any tasks: no notify_one is   *)
(* lost, and the destructor leaves no task that was added before stop() to *)
(* workers that have ended in order.                                       *)
(*                                                                         *)
(* MemoryPool, for pages, nodes and requests of any size and any number of *)
(* pages and blocks: memory in use lies apart and within its page, each    *)
(* large block is in one LargeNode, and a page that is empty again is one  *)
(* that malloc looks at.                                                   *)
(***************************************************************************)
EXTENDS ThreadPool, MemoryPool, SequenceTheorems, FiniteSetTheorems,
        WellFoundedInduction, TLAPS

(***************************************************************************)
(* Workers that go from one place to another.                              *)
(***************************************************************************)

\* The workers at a place are finitely many.
LEMMA AtFinite ==
  ASSUME NEW l
  PROVE  IsFiniteSet(At(l)) /\ Cardinality(At(l)) \in Nat
<1>1. At(l) \in SUBSET Workers
  BY DEF At
<1>2. IsFiniteSet(At(l))
  BY <1>1, WorkersAssumption, FS_Subset
<1> QED
  BY <1>2, FS_CardinalityType

\* In the next state too.
LEMMA AtFiniteNext ==
  ASSUME NEW l
  PROVE  IsFiniteSet(At(l)') /\ Cardinality(At(l)') \in Nat
<1>1. At(l)' \in SUBSET Workers
  BY DEF At
<1>2. IsFiniteSet(At(l)')
  BY <1>1, WorkersAssumption, FS_Subset
<1> QED
  BY <1>2, FS_CardinalityType

\* One worker goes from k to l.
Moves(w, k, l) ==
  /\ w \in Workers /\ wpc \in [Workers -> WorkerPCs] /\ l \in WorkerPCs
  /\ wpc[w] = k /\ k # l /\ Go(w, l)

\* It leaves the one place for the other, and nobody else moves.
LEMMA MovesAt ==
  ASSUME NEW w, NEW k, NEW l, Moves(w, k, l)
  PROVE  /\ wpc' \in [Workers -> WorkerPCs]
         /\ w \in At(k) /\ w \notin At(l)
         /\ At(k)' = At(k) \ {w} /\ At(l)' = At(l) \union {w}
         /\ \A m : m # k /\ m # l => At(m)' = At(m)
BY DEF Moves, Go, At

\* Then there is one more at l, and one less at k.
LEMMA MovesCount ==
  ASSUME NEW w, NEW k, NEW l, Moves(w, k, l)
  PROVE  /\ Cardinality(At(l)') = Cardinality(At(l)) + 1
         /\ Cardinality(At(k)') = Cardinality(At(k)) - 1
<1>1. w \in At(k) /\ w \notin At(l) /\ At(k)' = At(k) \ {w} /\ At(l)' = At(l) \union {w}
  BY MovesAt
<1>2. Cardinality(At(l) \union {w}) = Cardinality(At(l)) + 1
  BY <1>1, AtFinite, FS_AddElement
<1>3. Cardinality(At(k) \ {w}) = Cardinality(At(k)) - 1
  BY <1>1, AtFinite, FS_RemoveElement
<1> QED
  BY <1>1, <1>2, <1>3

(***************************************************************************)
(* The inductive invariant.                                                *)
(***************************************************************************)

\* A pool that has been constructed.
LEMMA InitInv == Init => Inv
<1> SUFFICES ASSUME Init PROVE Inv
  OBVIOUS
<1>1. \A w \in Workers : wpc[w] = "none"
  BY DEF Init
<1>2. At("waiting") = {} /\ At("exited") = {} /\ At("none") = Workers
  BY <1>1 DEF At
<1>3. TypeOK
  <2>1. queue \in Seq(Tasks) /\ started \in Seq(Tasks)
    BY DEF Init
  <2> QED
    BY <2>1 DEF Init, TypeOK, WorkerPCs
<1>4. WokenForEach
  BY <1>2 DEF WokenForEach
<1>5. ~LeftInOrder
  BY <1>2 DEF LeftInOrder
<1> QED
  BY <1>2, <1>3, <1>4, <1>5 DEF Init, Inv

\* A step of one worker, or of the owner for it, that leaves the queue alone: if it
\* comes to wait then with an empty queue, and it does not leave.
Shifts(w, k, l) ==
  /\ Moves(w, k, l) /\ UNCHANGED <<running, queue, failed, started, late>>
  /\ owner' = owner \/ (owner = "starting" /\ owner' = "started")
  /\ owner \notin {"new", "gone"}
  /\ k # "exited" /\ l # "exited"
  /\ k = "lock" => queue = <<>>
  /\ l = "waiting" => queue = <<>>

\* Such a step keeps the invariant.
LEMMA MoveKeeps == ASSUME Inv, NEW w, NEW k, NEW l, Shifts(w, k, l) PROVE Inv'
<1> USE DEF Shifts
<1>1. /\ wpc' \in [Workers -> WorkerPCs] /\ At("exited")' = At("exited")
      /\ \A m : m # k /\ m # l => At(m)' = At(m)
      /\ At(k)' = At(k) \ {w} /\ At(l)' = At(l) \union {w}
  <2>1. k # "exited"
    OBVIOUS
  <2> QED
    BY <2>1, MovesAt
<1>2. TypeOK'
  BY <1>1 DEF Inv, TypeOK
<1>3. WokenForEach'
  <2>1. CASE queue = <<>>
    <3>1. Len(queue') = 0
      BY <2>1
    <3>2. Cardinality(At("lock")') \in Nat
      BY AtFiniteNext
    <3> QED
      BY <3>1, <3>2 DEF WokenForEach
  <2>2. CASE queue # <<>>
    <3>1. k # "lock" /\ l # "waiting"
      BY <2>2
    <3>2. At("waiting")' \subseteq At("waiting")
      BY <1>1, <3>1
    <3>3. Cardinality(At("lock")') >= Cardinality(At("lock"))
      <4>1. Cardinality(At("lock")) \in Nat
        BY AtFinite
      <4>2. CASE l = "lock"
        BY <4>1, <4>2, MovesCount
      <4>3. CASE l # "lock"
        BY <1>1, <3>1, <4>1, <4>3
      <4> QED
        BY <4>2, <4>3
    <3>4. Len(queue) \in Nat /\ Cardinality(At("lock")) \in Nat /\ Cardinality(At("lock")') \in Nat
      BY AtFinite, AtFiniteNext, LenProperties DEF Inv, TypeOK
    <3>5. At("waiting")' # {} => Len(queue) <= Cardinality(At("lock"))
      BY <3>2 DEF Inv, WokenForEach
    <3>6. At("waiting")' # {} => Len(queue) <= Cardinality(At("lock")')
      BY <3>3, <3>4, <3>5
    <3> QED
      BY <3>6 DEF WokenForEach
  <2> QED
    BY <2>1, <2>2
<1>4. LeftInOrder' => LeftInOrder
  BY <1>1 DEF LeftInOrder
<1> QED
  BY <1>1, <1>2, <1>3, <1>4 DEF Inv

\* start() and its threads.
LEMMA StartKeeps == ASSUME Inv, Start \/ \E w \in Workers : StartThread(w) PROVE Inv'
<1>1. CASE Start
  <2>1. /\ owner = "new" /\ running' = TRUE /\ owner' \in {"started", "starting"}
        /\ UNCHANGED <<queue, wpc, failed, started, late>>
    BY <1>1 DEF Start
  <2>2. \A l : At(l)' = At(l)
    BY <2>1 DEF At
  <2>3. TypeOK'
    BY <2>1 DEF Inv, TypeOK
  <2>4. WokenForEach'
    BY <2>1, <2>2 DEF Inv, WokenForEach
  <2>5. ~LeftInOrder'
    BY <2>1, <2>2 DEF Inv, LeftInOrder
  <2> QED
    BY <2>1, <2>2, <2>3, <2>4, <2>5 DEF Inv
<1>2. ASSUME NEW w \in Workers, StartThread(w) PROVE Inv'
  <2>1. Moves(w, "none", "init")
    BY <1>2 DEF StartThread, Moves, Inv, TypeOK, WorkerPCs
  <2>2. /\ owner = "starting" /\ (owner' = owner \/ owner' = "started")
        /\ UNCHANGED <<running, queue, failed, started, late>>
    BY <1>2 DEF StartThread
  <2>3. Shifts(w, "none", "init")
    BY <2>1, <2>2 DEF Shifts
  <2> QED
    BY <2>3, MoveKeeps
<1> QED
  BY <1>1, <1>2

\* stop(), the destructor and the joins.
LEMMA StopKeeps == ASSUME Inv, Stop \/ BeginDestructor \/ JoinAll PROVE Inv'
<1>1. CASE Stop \/ BeginDestructor
  <2>1. /\ running' = FALSE /\ UNCHANGED <<queue, failed, started, late>>
        /\ wpc' = [w \in Workers |-> IF w \in At("waiting") THEN "lock" ELSE wpc[w]]
        /\ owner' \in {"started", "dtor"}
        /\ owner' = owner \/ owner' = "dtor"
    BY <1>1 DEF Stop, BeginDestructor, StopWorkers
  <2>2. wpc' \in [Workers -> WorkerPCs] /\ At("waiting")' = {} /\ At("exited")' = At("exited")
    BY <2>1 DEF Inv, TypeOK, WorkerPCs, At
  <2>3. TypeOK'
    BY <2>1, <2>2 DEF Inv, TypeOK
  <2>4. WokenForEach'
    BY <2>2 DEF WokenForEach
  <2>5. LeftInOrder' => LeftInOrder
    BY <2>1, <2>2 DEF LeftInOrder
  <2> QED
    BY <2>1, <2>2, <2>3, <2>4, <2>5 DEF Inv
<1>2. CASE JoinAll
  <2>1. /\ owner = "dtor" /\ owner' = "gone" /\ At("exited") \union At("none") = Workers
        /\ UNCHANGED <<running, queue, wpc, failed, started, late>>
    BY <1>2 DEF JoinAll
  <2>2. \A l : At(l)' = At(l)
    BY <2>1 DEF At
  <2>3. TypeOK'
    BY <2>1 DEF Inv, TypeOK
  <2>4. WokenForEach' /\ LeftInOrder' = LeftInOrder
    BY <2>1, <2>2 DEF Inv, WokenForEach, LeftInOrder
  <2> QED
    BY <2>1, <2>2, <2>3, <2>4 DEF Inv
<1> QED
  BY <1>1, <1>2

\* add() wakes a worker for its task if one waits.
LEMMA AddKeeps == ASSUME Inv, NEW t \in Tasks, Add(t) PROVE Inv'
<1>1. /\ owner \notin {"dtor", "gone"} /\ queue' = Append(queue, t)
      /\ late' = (IF owner = "started" /\ ~running THEN late \union {t} ELSE late)
      /\ UNCHANGED <<owner, running, failed, started>>
  BY DEF Add
<1>2. /\ queue \in Seq(Tasks) /\ queue' \in Seq(Tasks) /\ Len(queue) \in Nat
      /\ Len(queue') = Len(queue) + 1
  BY <1>1, AppendProperties, LenProperties DEF Inv, TypeOK
<1>3. \/ At("waiting") = {} /\ UNCHANGED wpc
      \/ \E w \in Workers : Moves(w, "waiting", "lock")
  <2>1. CASE At("waiting") = {}
    BY <2>1 DEF Add, NotifyOne
  <2>2. CASE At("waiting") # {}
    <3>1. PICK w \in At("waiting") : Go(w, "lock")
      BY <2>2 DEF Add, NotifyOne
    <3>2. w \in Workers /\ wpc[w] = "waiting"
      BY DEF At
    <3>3. Moves(w, "waiting", "lock")
      BY <3>1, <3>2 DEF Moves, Inv, TypeOK, WorkerPCs
    <3> QED
      BY <3>2, <3>3
  <2> QED
    BY <2>1, <2>2
<1>4. /\ wpc' \in [Workers -> WorkerPCs] /\ WokenForEach'
      /\ At("exited")' = At("exited") /\ At("none")' = At("none")
  <2>1. CASE At("waiting") = {} /\ UNCHANGED wpc
    <3>1. \A l : At(l)' = At(l)
      BY <2>1 DEF At
    <3> QED
      BY <2>1, <3>1 DEF Inv, TypeOK, WokenForEach
  <2>2. ASSUME NEW w \in Workers, Moves(w, "waiting", "lock")
        PROVE  /\ wpc' \in [Workers -> WorkerPCs] /\ WokenForEach'
               /\ At("exited")' = At("exited") /\ At("none")' = At("none")
    <3>1. /\ wpc' \in [Workers -> WorkerPCs] /\ w \in At("waiting")
          /\ At("exited")' = At("exited") /\ At("none")' = At("none")
      BY <2>2, MovesAt
    <3>2. Cardinality(At("lock")') = Cardinality(At("lock")) + 1
      BY <2>2, MovesCount
    <3>3. Len(queue) <= Cardinality(At("lock"))
      BY <3>1 DEF Inv, WokenForEach
    <3>4. Cardinality(At("lock")) \in Nat
      BY AtFinite
    <3>5. Len(queue') <= Cardinality(At("lock")')
      BY <1>2, <3>2, <3>3, <3>4
    <3> QED
      BY <3>1, <3>5 DEF WokenForEach
  <2> QED
    BY <1>3, <2>1, <2>2
<1>5. TypeOK'
  BY <1>1, <1>2, <1>4 DEF Inv, TypeOK
<1>6. LeftInOrder' => Range(queue') \subseteq late'
  <2> SUFFICES ASSUME LeftInOrder' PROVE Range(queue') \subseteq late'
    OBVIOUS
  <2>1. LeftInOrder
    BY <1>1, <1>4 DEF LeftInOrder
  <2>2. late' = late \union {t} /\ Range(queue) \subseteq late
    BY <1>1, <2>1 DEF Inv
  <2>3. Range(queue') \subseteq Range(queue) \union {t}
    <3>1. /\ \A i \in 1 .. Len(queue) : queue'[i] = queue[i]
          /\ queue'[Len(queue) + 1] = t
      BY <1>1, <1>2, AppendProperties
    <3>2. /\ Range(queue) = {queue[i] : i \in 1 .. Len(queue)}
          /\ Range(queue') = {queue'[i] : i \in 1 .. Len(queue) + 1}
      BY <1>2, RangeEquality
    <3>3. \A i \in 1 .. Len(queue) + 1 : i \in 1 .. Len(queue) \/ i = Len(queue) + 1
      BY <1>2
    <3> QED
      BY <3>1, <3>2, <3>3
  <2> QED
    BY <2>2, <2>3
<1>7. LeftInOrder' => LeftInOrder
  BY <1>1, <1>4 DEF LeftInOrder
<1> QED
  BY <1>1, <1>4, <1>5, <1>6, <1>7 DEF Inv

\* A worker that takes a task was one of those that were woken for the queue.
LEMMA TakeKeeps == ASSUME Inv, NEW w \in Workers, Take(w) PROVE Inv'
<1>1. /\ queue # <<>> /\ queue' = Tail(queue) /\ started' = Append(started, Head(queue))
      /\ UNCHANGED <<owner, running, failed, late>>
  BY DEF Take
<1>2. Moves(w, "lock", "task")
  BY DEF Take, Moves, Inv, TypeOK, WorkerPCs
<1>3. /\ wpc' \in [Workers -> WorkerPCs] /\ At("exited")' = At("exited")
      /\ At("none")' = At("none") /\ At("waiting")' = At("waiting") /\ w \in At("lock")
  BY <1>2, MovesAt
<1>4. Cardinality(At("lock")') = Cardinality(At("lock")) - 1
  BY <1>2, MovesCount
<1>5. /\ queue \in Seq(Tasks) /\ started \in Seq(Tasks) /\ Len(queue) \in Nat
      /\ Head(queue) \in Tasks /\ Tail(queue) \in Seq(Tasks)
      /\ Len(Tail(queue)) = Len(queue) - 1
      /\ \A i \in 1 .. Len(Tail(queue)) : Tail(queue)[i] = queue[i + 1]
  BY <1>1, HeadTailProperties, LenProperties DEF Inv, TypeOK
<1>6. TypeOK'
  <2>1. started' \in Seq(Tasks)
    BY <1>1, <1>5, AppendProperties
  <2> QED
    BY <1>1, <1>3, <1>5, <2>1 DEF Inv, TypeOK
<1>7. WokenForEach'
  <2>1. Cardinality(At("lock")) \in Nat
    BY AtFinite
  <2>2. At("waiting")' # {} => Len(queue) <= Cardinality(At("lock"))
    BY <1>3 DEF Inv, WokenForEach
  <2>3. At("waiting")' # {} => Len(queue') <= Cardinality(At("lock")')
    BY <1>1, <1>4, <1>5, <2>1, <2>2
  <2> QED
    BY <2>3 DEF WokenForEach
<1>8. Range(queue') \subseteq Range(queue)
  <2>1. \A i \in 1 .. Len(Tail(queue)) : i + 1 \in 1 .. Len(queue)
    BY <1>5
  <2>2. /\ Range(queue) = {queue[i] : i \in 1 .. Len(queue)}
        /\ Range(Tail(queue)) = {Tail(queue)[i] : i \in 1 .. Len(Tail(queue))}
    BY <1>5, RangeEquality
  <2> QED
    BY <1>1, <1>5, <2>1, <2>2
<1>9. LeftInOrder' => LeftInOrder
  BY <1>1, <1>3 DEF LeftInOrder
<1> QED
  BY <1>1, <1>3, <1>6, <1>7, <1>8, <1>9 DEF Inv

\* A worker leaves in order, or because of an exception.
LEMMA EndKeeps == ASSUME Inv, NEW w \in Workers, Leave(w) \/ Throws(w) PROVE Inv'
<1>1. PICK k : k \in {"lock", "init", "task"} /\ Moves(w, k, "exited")
  BY DEF Leave, Throws, Moves, Inv, TypeOK, WorkerPCs
<1>2. /\ wpc' \in [Workers -> WorkerPCs] /\ At("exited")' = At("exited") \union {w}
      /\ At("waiting")' = At("waiting") /\ w \in At(k) /\ w \notin At("exited")
      /\ k # "lock" => At("lock")' = At("lock")
  BY <1>1, MovesAt
<1>3. owner \notin {"new", "gone"}
  BY <1>1, <1>2 DEF Inv, At
<1>4. CASE Leave(w)
  <2>1. /\ queue = <<>> /\ ~running
        /\ UNCHANGED <<owner, running, queue, failed, started, late>>
    BY <1>4 DEF Leave
  <2>2. owner \in {"started", "dtor"}
    BY <1>3, <2>1 DEF Inv, TypeOK
  <2>3. TypeOK'
    BY <1>2, <2>1 DEF Inv, TypeOK
  <2>4. WokenForEach'
    <3>1. Len(queue') = 0 /\ Cardinality(At("lock")') \in Nat
      BY <2>1, AtFiniteNext
    <3> QED
      BY <3>1 DEF WokenForEach
  <2>5. Range(queue') = {}
    BY <2>1 DEF Range
  <2>6. failed' \subseteq At("exited")'
    BY <1>2, <2>1 DEF Inv
  <2> QED
    BY <2>1, <2>2, <2>3, <2>4, <2>5, <2>6 DEF Inv
<1>5. CASE Throws(w)
  <2>1. /\ failed' = failed \union {w} /\ k # "lock"
        /\ UNCHANGED <<owner, running, queue, started, late>>
    BY <1>1, <1>5 DEF Throws, Moves
  <2>2. TypeOK'
    BY <1>2, <2>1 DEF Inv, TypeOK
  <2>3. WokenForEach'
    BY <1>2, <2>1 DEF Inv, WokenForEach
  <2>4. LeftInOrder' => LeftInOrder
    BY <1>2, <2>1 DEF LeftInOrder
  <2>5. failed' \subseteq At("exited")'
    BY <1>2, <2>1 DEF Inv
  <2> QED
    BY <1>3, <2>1, <2>2, <2>3, <2>4, <2>5 DEF Inv
<1> QED
  BY <1>4, <1>5

\* The other steps of a worker.
LEMMA WorkerKeeps ==
  ASSUME Inv, NEW w \in Workers,
         BeginLoop(w) \/ Wait(w) \/ TaskReturns(w) \/ SpuriousWakeup(w)
  PROVE  Inv'
<1>1. PICK k, l : /\ Moves(w, k, l)
                  /\ k \in {"init", "lock", "task", "waiting"} /\ l \in {"lock", "waiting"}
                  /\ k = "lock" => queue = <<>>
                  /\ l = "waiting" => queue = <<>>
  BY DEF BeginLoop, Wait, TaskReturns, SpuriousWakeup, Moves, Inv, TypeOK, WorkerPCs
<1>2. UNCHANGED <<owner, running, queue, failed, started, late>>
  BY DEF BeginLoop, Wait, TaskReturns, SpuriousWakeup
<1>3. owner \notin {"new", "gone"}
  BY <1>1 DEF Inv, At, Moves
<1>4. Shifts(w, k, l)
  BY <1>1, <1>2, <1>3 DEF Shifts
<1> QED
  BY <1>4, MoveKeeps

\* Every step keeps the invariant.
LEMMA NextInv == Inv /\ [Next]_vars => Inv'
<1> SUFFICES ASSUME Inv, [Next]_vars PROVE Inv'
  OBVIOUS
<1>1. CASE UNCHANGED vars
  <2>1. \A l : At(l)' = At(l)
    BY <1>1 DEF vars, At
  <2>2. TypeOK'
    BY <1>1 DEF vars, Inv, TypeOK
  <2>3. WokenForEach' /\ LeftInOrder' = LeftInOrder
    BY <1>1, <2>1 DEF vars, Inv, WokenForEach, LeftInOrder
  <2> QED
    BY <1>1, <2>1, <2>2, <2>3 DEF vars, Inv
<1>2. CASE OwnerStep
  BY <1>2, StartKeeps, StopKeeps DEF OwnerStep
<1>3. CASE \E t \in Tasks : Add(t)
  BY <1>3, AddKeeps
<1>4. CASE \E w \in Workers : WorkerStep(w) \/ SpuriousWakeup(w) \/ Throws(w)
  BY <1>4, TakeKeeps, EndKeeps, WorkerKeeps DEF WorkerStep
<1> QED
  BY <1>1, <1>2, <1>3, <1>4 DEF Next

\* It holds throughout.
LEMMA InvHolds == Spec => []Inv
BY InitInv, NextInv, PTL DEF Spec

\* ThreadPool.cc:53-58, 72-82, for any number of workers and tasks: as long as a
\* worker waits, each task in the queue has a worker on its way to it.
THEOREM NoNotifyLost == Spec => []WokenForEach
<1>1. Inv => WokenForEach
  BY DEF Inv
<1> QED
  BY <1>1, InvHolds, PTL

\* ThreadPool.cc:11-19, 72-78: after the destructor no task is left that was added
\* before stop(), unless every worker that was created has been ended by an exception.
THEOREM DestructorDrains == Spec => []Drained
<1>1. Inv => Drained
  <2> SUFFICES ASSUME Inv, owner = "gone", ~(Range(queue) \subseteq late)
               PROVE  failed = {w \in Workers : wpc[w] # "none"}
    BY DEF Drained
  <2>1. ~LeftInOrder /\ At("exited") \union At("none") = Workers /\ failed \subseteq At("exited")
    BY DEF Inv
  <2>2. failed = At("exited")
    BY <2>1 DEF LeftInOrder
  <2> QED
    BY <2>1, <2>2 DEF At
<1> QED
  BY <1>1, InvHolds, PTL

-----------------------------------------------------------------------------
(***************************************************************************)
(* Numbers.                                                                *)
(***************************************************************************)

\* A set of numbers that is not empty has a least one.
LEMMA LeastExists ==
  ASSUME NEW S \in SUBSET Nat, S # {}
  PROVE  \E x \in S : \A y \in S : x <= y
<1> DEFINE R == OpToRel(<, Nat)
<1>1. IsWellFoundedOn(R, Nat)
  BY NatLessThanWellFounded
<1>2. \A x, y \in Nat : <<y, x>> \in R <=> y < x
  BY DEF OpToRel
<1> HIDE DEF R
<1>3. PICK x \in S : \A y \in S : ~ (<<y, x>> \in R)
  BY <1>1, WFMin
<1>4. ASSUME NEW y \in S PROVE x <= y
  <2>1. x \in Nat /\ y \in Nat /\ ~ (<<y, x>> \in R)
    BY <1>3
  <2>2. ~(y < x)
    BY <1>2, <2>1
  <2> QED
    BY <2>1, <2>2
<1> QED
  BY <1>4

\* Min gives it.
LEMMA MinIn ==
  ASSUME NEW S \in SUBSET Nat, S # {}
  PROVE  Min(S) \in S
<1>1. \E x \in S : \A y \in S : x <= y
  BY LeastExists
<1> QED
  BY <1>1 DEF Min

\* If none is above n, Max gives one of them too.
LEMMA MaxIn ==
  ASSUME NEW S \in SUBSET Nat, S # {}, NEW n \in Nat, \A x \in S : x <= n
  PROVE  Max(S) \in S
<1> DEFINE T == {y \in Nat : n - y \in S}
<1>1. PICK x \in S : TRUE
  OBVIOUS
<1>2. x \in Nat /\ n - x \in Nat /\ n - (n - x) = x
  BY <1>1
<1>3. T \in SUBSET Nat /\ n - x \in T
  BY <1>1, <1>2
<1>4. PICK t \in T : \A y \in T : t <= y
  BY <1>3, LeastExists
<1>5. t \in Nat /\ n - t \in S
  BY <1>4
<1>6. ASSUME NEW y \in S PROVE n - t >= y
  <2>1. y \in Nat /\ n - y \in Nat /\ n - (n - y) = y
    BY <1>6
  <2>2. n - y \in T
    BY <2>1
  <2>3. t <= n - y
    BY <1>4, <2>2
  <2> QED
    BY <1>5, <2>1, <2>3
<1>7. \E z \in S : \A y \in S : z >= y
  BY <1>5, <1>6
<1> QED
  BY <1>7 DEF Max

\* Division.
LEMMA DivMod ==
  ASSUME NEW a \in Nat \ {0}, NEW x \in Nat
  PROVE  x \div a \in Nat /\ x % a \in 0 .. a - 1 /\ x = a * (x \div a) + (x % a)
OBVIOUS

\* Rounding up to a multiple of a.
LEMMA RoundsUp ==
  ASSUME NEW a \in Nat \ {0}, NEW n \in Nat, NEW q \in Nat, NEW r \in 0 .. a - 1,
         n + a - 1 = a * q + r
  PROVE  q * a \in Nat /\ n <= q * a
OBVIOUS

\* A multiple is its own.
LEMMA RoundsSame ==
  ASSUME NEW a \in Nat \ {0}, NEW s \in Nat, NEW q \in Nat, NEW r \in 0 .. a - 1,
         a * s + a - 1 = a * q + r
  PROVE  q = s
<1>1. ASSUME q < s PROVE FALSE
  <2> PICK d \in Nat : s = q + 1 + d
    BY <1>1
  <2>1. a * s = a * q + a + a * d
    OBVIOUS
  <2>2. a * d \in Nat /\ a * q \in Nat /\ a * s \in Nat
    OBVIOUS
  <2> QED
    BY <2>1, <2>2
<1>2. ASSUME s < q PROVE FALSE
  <2> PICK d \in Nat : q = s + 1 + d
    BY <1>2
  <2>1. a * q = a * s + a + a * d
    OBVIOUS
  <2>2. a * d \in Nat /\ a * q \in Nat /\ a * s \in Nat
    OBVIOUS
  <2> QED
    BY <2>1, <2>2
<1> QED
  BY <1>1, <1>2

\* mp_align does not go back.
LEMMA AlignFacts ==
  ASSUME NEW n \in Nat
  PROVE  mp_align(n) \in Nat /\ n <= mp_align(n)
<1> PICK a : a = Alignment
  OBVIOUS
<1> PICK x : x = n + a - 1
  OBVIOUS
<1> PICK q : q = x \div a
  OBVIOUS
<1> PICK r : r = x % a
  OBVIOUS
<1>1. a \in Nat \ {0}
  BY PoolAssumption
<1>2. x \in Nat
  BY <1>1
<1>3. q \in Nat /\ r \in 0 .. a - 1 /\ x = a * q + r
  BY <1>1, <1>2, DivMod
<1>4. q * a \in Nat /\ n <= q * a
  BY <1>1, <1>3, RoundsUp
<1>5. mp_align(n) = q * a
  BY DEF mp_align
<1> QED
  BY <1>4, <1>5

\* The end of a SmallNode is aligned.
LEMMA AlignNode == mp_align(SmallNodeSize) = SmallNodeSize
<1> PICK a : a = Alignment
  OBVIOUS
<1> PICK n : n = SmallNodeSize
  OBVIOUS
<1>1. a \in Nat \ {0} /\ n \in Nat /\ n % a = 0
  BY PoolAssumption
<1> PICK s : s = n \div a
  OBVIOUS
<1> PICK x : x = n + a - 1
  OBVIOUS
<1> PICK q : q = x \div a
  OBVIOUS
<1> PICK r : r = x % a
  OBVIOUS
<1>2. s \in Nat /\ n = a * s
  BY <1>1, DivMod
<1>3. x \in Nat
  BY <1>1
<1>4. q \in Nat /\ r \in 0 .. a - 1 /\ x = a * q + r
  BY <1>1, <1>3, DivMod
<1>5. a * s + a - 1 = a * q + r
  BY <1>2, <1>4
<1>6. q = s
  BY <1>1, <1>2, <1>4, <1>5, RoundsSame
<1>7. q * a = n
  BY <1>1, <1>2, <1>6
<1>8. mp_align(n) = q * a
  BY DEF mp_align
<1> QED
  BY <1>7, <1>8

\* The sizes.
LEMMA SizeFacts ==
  /\ PageSize \in Nat /\ PoolSize \in Nat /\ SmallNodeSize \in Nat /\ SmallNodeSize > 0
  /\ LargeNodeSize \in Nat \ {0} /\ LargeNodeSize <= PageSize - SmallNodeSize
  /\ UIntMod \in Nat /\ PageSize - SmallNodeSize < UIntMod
  /\ PoolSize + SmallNodeSize <= PageSize /\ SmallNodeSize <= PageSize
<1>1. /\ PageSize \in Nat /\ PoolSize \in Nat /\ SmallNodeSize \in Nat /\ SmallNodeSize > 0
      /\ LargeNodeSize \in Nat \ {0} /\ LargeNodeSize <= PageSize - SmallNodeSize
      /\ UIntMod \in Nat /\ PageSize - SmallNodeSize < UIntMod
      /\ PoolSize + SmallNodeSize <= PageSize
  BY PoolAssumption
<1> QED
  BY <1>1

\* Where a page begins.
LEMMA FirstFacts ==
  ASSUME NEW p
  PROVE  FirstFree(p) \in Nat /\ SmallNodeSize <= FirstFree(p) /\ FirstFree(p) <= PageSize
BY SizeFacts DEF FirstFree

-----------------------------------------------------------------------------
(***************************************************************************)
(* One page.                                                               *)
(***************************************************************************)

\* The page has room for e behind the pieces in use.
CanGive(page, first, use, e) ==
  /\ page \in PageData /\ first \in Nat /\ SmallNodeSize <= first
  /\ use \in SUBSET Piece /\ PageOK(page, first, use)
  /\ e \in Piece /\ e.at = mp_align(page.last) /\ e.at + e.size <= PageSize

\* The piece is a new one, and the page is good with it.
Given(page, first, use, e) ==
  e \notin use /\ PageOK(Used(page, e.at + e.size), first, use \union {e})

\* A piece that is given is a new one, behind the others, and is counted.
LEMMA PageGives ==
  ASSUME NEW page, NEW first, NEW use, NEW e, CanGive(page, first, use, e)
  PROVE  Given(page, first, use, e)
<1> USE DEF CanGive, Given
<1> PICK at : at = e.at
  OBVIOUS
<1> PICK size : size = e.size
  OBVIOUS
<1>0. at \in Nat /\ size \in Nat \ {0}
  BY DEF Piece
<1> PICK last : last = page.last
  OBVIOUS
<1> PICK n : n = Cardinality(use)
  OBVIOUS
<1>1. last \in Nat /\ page.quote \in Nat /\ last <= at
  BY <1>0, AlignFacts DEF PageData
<1>2. /\ \A m \in use : first <= m.at /\ m.at + m.size <= last
      /\ \A m, k \in use : m = k \/ m.at + m.size <= k.at \/ k.at + k.size <= m.at
      /\ IsFiniteSet(use) /\ page.quote = n /\ first + n <= last
  BY DEF PageOK, LieApart
<1>3. \A m \in Piece : m.at \in Nat /\ m.size \in Nat /\ m.size > 0
  BY DEF Piece
<1>4. \A m \in use : m.at + m.size <= at
  BY <1>0, <1>1, <1>2, <1>3
<1>5. e \notin use
  <2> SUFFICES ASSUME e \in use PROVE FALSE
    OBVIOUS
  <2>1. at + size <= at
    BY <1>4
  <2> QED
    BY <1>0, <2>1
<1>6. n \in Nat
  BY <1>2, FS_CardinalityType
<1>7. IsFiniteSet(use \union {e}) /\ Cardinality(use \union {e}) = n + 1
  BY <1>2, <1>5, FS_AddElement
<1>8. /\ Used(page, at + size).last = at + size /\ Used(page, at + size).quote = Inc(n)
  BY <1>2 DEF Used, PageData
<1>9. first + (n + 1) <= at + size
  BY <1>0, <1>1, <1>2, <1>6
<1>10. Inc(n) = n + 1
  <2>1. n + 1 < UIntMod /\ UIntMod \in Nat
    BY <1>0, <1>6, <1>9, SizeFacts
  <2> QED
    BY <1>6, <2>1 DEF Inc
<1>11. LieApart(use \union {e}, first, at + size)
  <2>1. ASSUME NEW m \in use \union {e} PROVE first <= m.at /\ m.at + m.size <= at + size
    <3>1. CASE m \in use
      <4>1. m \in Piece /\ m.at \in Nat /\ m.size \in Nat
        BY <1>3, <3>1
      <4> QED
        BY <1>0, <1>2, <1>4, <3>1, <4>1
    <3>2. CASE m = e
      BY <1>0, <1>1, <1>2, <1>6, <3>2
    <3> QED
      BY <3>1, <3>2
  <2>2. ASSUME NEW m \in use \union {e}, NEW k \in use \union {e}
        PROVE  m = k \/ m.at + m.size <= k.at \/ k.at + k.size <= m.at
    BY <1>2, <1>4
  <2> QED
    BY <2>1, <2>2 DEF LieApart
<1> QED
  BY <1>5, <1>7, <1>8, <1>9, <1>10, <1>11 DEF PageOK

\* The piece that a new page is made for.
LEMMA PageBegins ==
  ASSUME NEW size \in Nat \ {0}, SmallNodeSize + size <= PageSize,
         NEW e \in Piece, e.at = SmallNodeSize, e.size = size,
         NEW page, page.last = SmallNodeSize + size, page.quote = Inc(0)
  PROVE  PageOK(page, SmallNodeSize, {e})
<1>1. IsFiniteSet({e}) /\ Cardinality({e}) = 1
  BY FS_Singleton
<1>2. Inc(0) = 1
  <2>1. 1 < UIntMod /\ UIntMod \in Nat
    BY SizeFacts
  <2> QED
    BY <2>1 DEF Inc
<1>3. LieApart({e}, SmallNodeSize, SmallNodeSize + size)
  BY SizeFacts DEF LieApart
<1> QED
  BY <1>1, <1>2, <1>3, SizeFacts DEF PageOK

\* A piece is taken back: the page is emptied exactly if it was the last one.
LEMMA PageTakes ==
  ASSUME NEW page \in PageData, NEW first \in Nat, SmallNodeSize <= first,
         NEW use \in SUBSET Piece, PageOK(page, first, use), NEW m \in use
  PROVE  /\ Dec(page.quote) = 0 =>
              PageOK(Emptied(page, first), first, use \ {m})
         /\ Dec(page.quote) # 0 =>
              PageOK(Freed(page), first, use \ {m}) /\ use \ {m} # {}
<1> PICK last : last = page.last
  OBVIOUS
<1> PICK n : n = Cardinality(use)
  OBVIOUS
<1>1. last \in Nat /\ last <= PageSize
  BY SizeFacts DEF PageData
<1>2. /\ LieApart(use, first, last)
      /\ IsFiniteSet(use) /\ page.quote = n /\ first + n <= last
  BY DEF PageOK
<1>3. n \in Nat
  BY <1>2, FS_CardinalityType
<1>4. IsFiniteSet(use \ {m}) /\ Cardinality(use \ {m}) = n - 1
  BY <1>2, FS_RemoveElement
<1>5. n # 0
  BY <1>2, FS_EmptySet
<1>6. n - 1 \in Nat /\ n - 1 < UIntMod
  BY <1>1, <1>2, <1>3, <1>5, SizeFacts
<1>7. Dec(page.quote) = n - 1
  BY <1>2, <1>3, <1>6, SizeFacts DEF Dec
<1>8. n - 1 = 0 <=> use \ {m} = {}
  BY <1>4, FS_EmptySet
<1>9. LieApart(use \ {m}, first, last)
  BY <1>2 DEF LieApart
<1>10. CASE n - 1 = 0
  <2>1. Emptied(page, first).last = first /\ Emptied(page, first).quote = 0
    BY <1>7, <1>10 DEF Emptied, PageData
  <2>2. LieApart({}, first, first)
    BY DEF LieApart
  <2> QED
    BY <1>4, <1>7, <1>8, <1>10, <2>1, <2>2 DEF PageOK
<1>11. CASE n - 1 # 0
  <2>1. Freed(page).last = last /\ Freed(page).quote = n - 1
    BY <1>7 DEF Freed, PageData
  <2>2. first + (n - 1) <= last
    BY <1>1, <1>2, <1>3
  <2> QED
    BY <1>4, <1>7, <1>8, <1>9, <1>11, <2>1, <2>2 DEF PageOK
<1> QED
  BY <1>10, <1>11

\* The counters stay in their range.
LEMMA CountFacts ==
  ASSUME NEW n \in 0 .. UIntMod - 1
  PROVE  Inc(n) \in 0 .. UIntMod - 1 /\ Dec(n) \in 0 .. UIntMod - 1
<1>1. UIntMod \in Nat /\ UIntMod > 0
  BY SizeFacts
<1>2. \A x \in Int : x % UIntMod \in 0 .. UIntMod - 1
  BY <1>1
<1>3. n + 1 \in Int /\ n - 1 \in Int
  BY <1>1
<1> QED
  BY <1>2, <1>3 DEF Inc, Dec

\* What a page becomes is a page.
LEMMA PageTypes ==
  ASSUME NEW page \in PageData, NEW last \in 0 .. PageSize
  PROVE  /\ Used(page, last) \in PageData /\ Used(page, last).left = page.left
         /\ Emptied(page, last) \in PageData /\ Emptied(page, last).left = page.left
         /\ Freed(page) \in PageData /\ Freed(page).left = page.left
         /\ Failed(page) \in PageData /\ Failed(page).left = page.left
         /\ Failed(page).last = page.last /\ Failed(page).quote = page.quote
<1>1. page.quote \in 0 .. UIntMod - 1 /\ page.failed \in 0 .. UIntMod - 1
  BY DEF PageData
<1>2. Inc(page.quote) \in 0 .. UIntMod - 1 /\ Dec(page.quote) \in 0 .. UIntMod - 1
      /\ Inc(page.failed) \in 0 .. UIntMod - 1 /\ 0 \in 0 .. UIntMod - 1
  BY <1>1, CountFacts, SizeFacts
<1>3. Used(page, last) \in PageData /\ Used(page, last).left = page.left
  BY <1>2 DEF Used, PageData
<1>4. Emptied(page, last) \in PageData /\ Emptied(page, last).left = page.left
  BY <1>2 DEF Emptied, PageData
<1>5. Freed(page) \in PageData /\ Freed(page).left = page.left
  BY <1>2 DEF Freed, PageData
<1>6. /\ Failed(page) \in PageData /\ Failed(page).left = page.left
      /\ Failed(page).last = page.last /\ Failed(page).quote = page.quote
  BY <1>2 DEF Failed, PageData
<1> QED
  BY <1>3, <1>4, <1>5, <1>6

-----------------------------------------------------------------------------
(***************************************************************************)
(* The pool.                                                               *)
(***************************************************************************)

\* The pages are pages, and what is in use are pieces.
PoolTypes ==
  /\ Len(pages) \in Nat /\ DOMAIN pages = 1 .. Len(pages)
  /\ \A p \in 1 .. Len(pages) : pages[p] \in PageData
  /\ held \ Chunks \subseteq Piece /\ Nodes \subseteq Piece
  /\ \A p : InUse(p) \in SUBSET Piece

\* They are.
LEMMA HasPoolTypes == ASSUME PoolTypeOK PROVE PoolTypes
<1>1. pages \in Seq(PageData) /\ large \in Seq(LargeNode) /\ held \subseteq Piece \union Chunks
  BY DEF PoolTypeOK
<1>2. /\ Len(pages) \in Nat /\ DOMAIN pages = 1 .. Len(pages)
      /\ \A p \in 1 .. Len(pages) : pages[p] \in PageData
  BY <1>1, LenProperties
<1>3. \A i \in DOMAIN large : large[i] \in LargeNode
  BY <1>1, LenProperties
<1>4. \A x \in LargeNode : x.node \in Piece
  BY DEF LargeNode
<1>5. Nodes \subseteq Piece
  BY <1>3, <1>4 DEF Nodes
<1>6. held \ Chunks \subseteq Piece
  BY <1>1
<1>7. \A p : InUse(p) \in SUBSET Piece
  BY <1>5, <1>6 DEF InUse
<1> QED
  BY <1>2, <1>5, <1>6, <1>7 DEF PoolTypes

\* One piece more is in use, by the user or as a LargeNode.
Adds(e) ==
  \/ held' \ Chunks = (held \ Chunks) \union {e} /\ Nodes' = Nodes
  \/ held' \ Chunks = held \ Chunks /\ Nodes' = Nodes \union {e}

\* What that does to the pages.
LEMMA AddsUse ==
  ASSUME NEW e \in Piece, Adds(e), NEW p
  PROVE  /\ InUse(p)' = IF p = e.page THEN InUse(p) \union {e} ELSE InUse(p)
         /\ \A m \in Piece : m # e => (m \in held' <=> m \in held) /\ (m \in Nodes' <=> m \in Nodes)
         /\ e \notin InUse(e.page) => e \notin held' \/ e \notin Nodes'
<1>1. (held' \ Chunks) \union Nodes' = (held \ Chunks) \union Nodes \union {e}
  BY DEF Adds
<1>2. InUse(p)' = IF p = e.page THEN InUse(p) \union {e} ELSE InUse(p)
  BY <1>1 DEF InUse
<1>3. \A m \in Piece : m \notin Chunks
  BY PoolAssumption
<1>4. ASSUME NEW m \in Piece, m # e
      PROVE  (m \in held' <=> m \in held) /\ (m \in Nodes' <=> m \in Nodes)
  BY <1>3, <1>4 DEF Adds
<1>5. ASSUME e \notin InUse(e.page) PROVE e \notin held' \/ e \notin Nodes'
  <2>1. e \notin held \ Chunks /\ e \notin Nodes
    BY <1>5 DEF InUse
  <2> QED
    BY <1>3, <2>1 DEF Adds
<1> QED
  BY <1>2, <1>4, <1>5

\* A page that the step leaves alone, but for failed_, stays good.
LEMMA PageLeftAlone ==
  ASSUME NEW p, PageInv(p), pages'[p].left = pages[p].left, pages'[p].last = pages[p].last,
         pages'[p].quote = pages[p].quote, InUse(p)' = InUse(p),
         \A m \in InUse(p) : (m \in held' => m \in held) /\ (m \in Nodes' => m \in Nodes),
         p # 1 /\ InUse(p) = {} /\ pages[p].left = 0 /\ current <= p => current' <= p
  PROVE  PageInv(p)'
<1> SUFFICES ASSUME pages[p].left = 0
             PROVE  /\ PageOK(pages'[p], FirstFree(p), InUse(p)')
                    /\ \A m \in InUse(p) : m \notin held' \/ m \notin Nodes'
                    /\ p # 1 /\ InUse(p) = {} => current' <= p
  BY DEF PageInv
<1>1. /\ PageOK(pages[p], FirstFree(p), InUse(p))
      /\ \A m \in InUse(p) : m \notin held \/ m \notin Nodes
      /\ p # 1 /\ InUse(p) = {} => current <= p
  BY DEF PageInv
<1>2. PageOK(pages'[p], FirstFree(p), InUse(p)')
  BY <1>1 DEF PageOK
<1> QED
  BY <1>1, <1>2

\* A piece from a page that has room.
LEMMA GivesOld ==
  ASSUME PoolInv, up, NEW size \in Nat \ {0}, NEW q \in 1 .. Len(pages), Fits(q, size),
         NEW e, e = [page |-> q, at |-> mp_align(pages[q].last), size |-> size],
         pages' = [pages EXCEPT ![q] = Used(@, mp_align(pages[q].last) + size)],
         current' = current, Adds(e)
  PROVE  PagesInv' /\ pages' \in Seq(PageData) /\ e \in Piece
<1> PICK at : at = mp_align(pages[q].last)
  OBVIOUS
<1>1. PoolTypes /\ PagesInv
  BY HasPoolTypes DEF PoolInv
<1>2. pages[q] \in PageData /\ pages[q].last \in Nat
  BY <1>1 DEF PoolTypes, PageData
<1>3. at \in Nat
  BY <1>2, AlignFacts
<1>4. at + size <= PageSize /\ at + size \in 0 .. PageSize
  <2>1. PageSize - at >= size
    BY DEF Fits
  <2> QED
    BY <1>3, <2>1, SizeFacts
<1>5. e \in Piece /\ e.page = q /\ e.at = at /\ e.size = size
  <2>1. q \in Nat \ {0}
    BY <1>1 DEF PoolTypes
  <2> QED
    BY <1>3, <2>1 DEF Piece
<1>6. Used(pages[q], at + size) \in PageData /\ Used(pages[q], at + size).left = pages[q].left
  BY <1>2, <1>4, PageTypes
<1>7. /\ DOMAIN pages' = 1 .. Len(pages)
      /\ pages'[q] = Used(pages[q], at + size)
      /\ \A p \in 1 .. Len(pages) : p # q => pages'[p] = pages[p]
  BY <1>1 DEF PoolTypes
<1>8. pages' \in Seq(PageData)
  <2>1. \A p \in 1 .. Len(pages) : pages'[p] \in PageData
    BY <1>1, <1>6, <1>7 DEF PoolTypes
  <2>2. pages \in Seq(PageData)
    BY DEF PoolInv, PoolTypeOK
  <2> QED
    BY <1>6, <2>2
<1>9. ASSUME NEW p \in 1 .. Len(pages) PROVE PageInv(p)'
  <2>0. PageInv(p)
    BY <1>1 DEF PagesInv, PoolTypes
  <2>1. CASE p # q
    <3>1. InUse(p)' = InUse(p) /\ InUse(p) \in SUBSET Piece
      BY <1>1, <1>5, <2>1, AddsUse DEF PoolTypes
    <3>2. e \notin InUse(p)
      BY <1>5, <2>1 DEF InUse
    <3>3. \A m \in InUse(p) : (m \in held' => m \in held) /\ (m \in Nodes' => m \in Nodes)
      BY <1>5, <3>1, <3>2, AddsUse
    <3> QED
      BY <1>7, <2>0, <2>1, <3>1, <3>3, PageLeftAlone
  <2>2. CASE p = q
    <3> SUFFICES ASSUME pages[q].left = 0
                 PROVE  /\ PageOK(pages'[q], FirstFree(q), InUse(q)')
                        /\ \A m \in InUse(q)' : m \notin held' \/ m \notin Nodes'
                        /\ InUse(q)' # {}
      BY <1>6, <1>7, <2>2 DEF PageInv
    <3>1. InUse(q)' = InUse(q) \union {e}
      BY <1>5, AddsUse
    <3>2. /\ PageOK(pages[q], FirstFree(q), InUse(q))
          /\ \A m \in InUse(q) : m \notin held \/ m \notin Nodes
      BY <2>0, <2>2 DEF PageInv
    <3>3. InUse(q) \in SUBSET Piece
      BY <1>1 DEF PoolTypes
    <3>4. e \notin InUse(q) /\ PageOK(Used(pages[q], at + size), FirstFree(q), InUse(q) \union {e})
      <4> PICK page : page = pages[q]
        OBVIOUS
      <4> PICK first : first = FirstFree(q)
        OBVIOUS
      <4> PICK use : use = InUse(q)
        OBVIOUS
      <4>1. page \in PageData /\ first \in Nat /\ SmallNodeSize <= first
            /\ use \in SUBSET Piece /\ PageOK(page, first, use) /\ at = mp_align(page.last)
        BY <1>2, <3>2, <3>3, FirstFacts
      <4>2. e.at = mp_align(page.last) /\ e.at + e.size <= PageSize
        BY <1>4, <1>5, <4>1
      <4>3. e \notin use /\ PageOK(Used(page, e.at + e.size), first, use \union {e})
        <5>1. CanGive(page, first, use, e)
          BY <1>5, <4>1, <4>2 DEF CanGive
        <5>2. Given(page, first, use, e)
          BY <5>1, PageGives
        <5> QED
          BY <5>2 DEF Given
      <4> QED
        BY <1>5, <4>3
    <3>5. e \notin held' \/ e \notin Nodes'
      BY <1>5, <3>4, AddsUse
    <3>6. ASSUME NEW m \in InUse(q), m # e PROVE m \notin held' \/ m \notin Nodes'
      BY <1>5, <3>2, <3>3, <3>6, AddsUse
    <3> QED
      BY <1>7, <3>1, <3>4, <3>5, <3>6
  <2> QED
    BY <2>1, <2>2
<1>10. ASSUME NEW m \in (held' \ Chunks) \union Nodes' PROVE m.page \in 1 .. Len(pages)
  <2>1. m = e \/ m \in (held \ Chunks) \union Nodes
    BY DEF Adds
  <2> QED
    BY <1>1, <1>5, <2>1 DEF PagesInv, PoolTypes
<1>11. pages' # <<>>
  BY <1>7
<1> QED
  BY <1>5, <1>7, <1>8, <1>9, <1>10, <1>11 DEF PagesInv

\* A new page: only where no page from current_ on is empty.
LEMMA GivesNew ==
  ASSUME PoolInv, up, NEW size \in Nat \ {0}, size <= PageSize - SmallNodeSize,
         Fitting(size) = {}, NEW found \in Leftover, NEW r, r = FromNewPage(size, found),
         pages' = r.pages, current' = r.current, Adds(r.piece)
  PROVE  /\ PagesInv' /\ pages' \in Seq(PageData) /\ r.piece \in Piece
         /\ current' \in Nat \ {0}
<1> PICK e : e = r.piece
  OBVIOUS
<1> PICK len : len = Len(pages)
  OBVIOUS
<1> PICK n : n = len + 1
  OBVIOUS
<1>1. PoolTypes /\ PagesInv /\ current \in Nat \ {0} /\ len \in Nat
  BY HasPoolTypes DEF PoolInv, PoolTypeOK, PoolTypes
<1>2. mp_align(SmallNodeSize) = SmallNodeSize
  BY AlignNode
<1> DEFINE walked == current .. Len(pages) - 1
           worn == {p \in walked : pages[p].failed >= FailedLimit}
           older == [p \in 1 .. len |-> IF p \in walked THEN Failed(pages[p]) ELSE pages[p]]
<1> PICK newest : newest = [last |-> SmallNodeSize + size, quote |-> Inc(found[1]),
                            failed |-> found[2], left |-> found[1]]
  OBVIOUS
<1>3. /\ pages' = Append(older, newest)
      /\ current' = (IF worn = {} THEN current ELSE Max(worn) + 1)
      /\ e = [page |-> n, at |-> SmallNodeSize, size |-> size]
  BY <1>2 DEF FromNewPage
<1>4. current' \in Nat \ {0}
  <2>1. CASE worn = {}
    BY <1>1, <1>3, <2>1
  <2>2. CASE worn # {}
    <3>1. worn \in SUBSET Nat /\ \A x \in worn : x <= len
      BY <1>1
    <3>2. Max(worn) \in Nat
      BY <1>1, <2>2, <3>1, MaxIn
    <3> QED
      BY <1>3, <2>2, <3>2
  <2> QED
    BY <2>1, <2>2
<1>5. /\ found[1] \in 0 .. UIntMod - 1 /\ found[2] \in 0 .. UIntMod - 1
  BY PoolAssumption
<1>6. newest \in PageData
  <2>1. Inc(found[1]) \in 0 .. UIntMod - 1
    BY <1>5, CountFacts
  <2>2. SmallNodeSize + size \in 0 .. PageSize
    BY SizeFacts
  <2> QED
    BY <1>5, <2>1, <2>2 DEF PageData
<1>7. ASSUME NEW p \in 1 .. len
      PROVE  /\ older[p] \in PageData /\ older[p].left = pages[p].left
             /\ older[p].last = pages[p].last /\ older[p].quote = pages[p].quote
  <2>1. pages[p] \in PageData
    BY <1>1 DEF PoolTypes
  <2>2. 0 \in 0 .. PageSize
    BY SizeFacts
  <2>3. CASE p \in walked
    BY <2>1, <2>2, <2>3, PageTypes
  <2>4. CASE p \notin walked
    BY <2>1, <2>4
  <2> QED
    BY <2>3, <2>4
<1> HIDE DEF older, worn
<1>8. older \in Seq(PageData) /\ Len(older) = len
  <2>1. older \in [1 .. len -> PageData]
    BY <1>7 DEF older
  <2> QED
    BY <1>1, <2>1
<1>9. /\ pages' \in Seq(PageData) /\ DOMAIN pages' = 1 .. n
      /\ pages'[n] = newest /\ \A p \in 1 .. len : pages'[p] = older[p]
  BY <1>3, <1>6, <1>8, AppendProperties
<1>10. e \in Piece /\ e.page = n /\ e.at = SmallNodeSize /\ e.size = size
  BY <1>1, <1>3, SizeFacts DEF Piece
<1>11. ASSUME NEW m \in (held \ Chunks) \union Nodes PROVE m.page \in 1 .. len
  BY <1>1 DEF PagesInv, PoolTypes
<1>12. InUse(n) = {}
  <2> SUFFICES ASSUME NEW m \in InUse(n) PROVE FALSE
    OBVIOUS
  <2>1. m \in (held \ Chunks) \union Nodes /\ m.page = n
    BY DEF InUse
  <2>2. n \in 1 .. len
    BY <1>11, <2>1
  <2> QED
    BY <1>1, <2>2
<1>13. ASSUME NEW p \in 1 .. len PROVE PageInv(p)'
  <2>0. PageInv(p) /\ p # n
    BY <1>1 DEF PagesInv, PoolTypes
  <2>1. InUse(p)' = InUse(p) /\ InUse(p) \in SUBSET Piece
    BY <1>1, <1>10, <2>0, AddsUse DEF PoolTypes
  <2>2. e \notin InUse(p)
    BY <1>10, <2>0 DEF InUse
  <2>3. \A m \in InUse(p) : (m \in held' => m \in held) /\ (m \in Nodes' => m \in Nodes)
    BY <1>10, <2>1, <2>2, AddsUse
  <2>4. ASSUME p # 1, InUse(p) = {}, pages[p].left = 0, current <= p PROVE FALSE
    <3>1. pages[p].last = SmallNodeSize
      BY <2>0, <2>4 DEF PageInv, PageOK, FirstFree
    <3>2. Fits(p, size)
      BY <1>2, <3>1, SizeFacts DEF Fits
    <3>3. p \in current .. Len(pages)
      BY <1>1, <2>4
    <3> QED
      BY <3>2, <3>3 DEF Fitting
  <2> QED
    BY <1>7, <1>9, <2>0, <2>1, <2>3, <2>4, PageLeftAlone
<1>14. PageInv(n)'
  <2> SUFFICES ASSUME found[1] = 0
               PROVE  /\ PageOK(newest, FirstFree(n), InUse(n)')
                      /\ \A m \in InUse(n)' : m \notin held' \/ m \notin Nodes'
                      /\ InUse(n)' # {}
    BY <1>9 DEF PageInv
  <2>1. InUse(n)' = {e}
    BY <1>10, <1>12, AddsUse
  <2>2. len # 0 /\ n # 1 /\ FirstFree(n) = SmallNodeSize
    <3>1. pages # <<>>
      BY <1>1 DEF PagesInv
    <3>2. len # 0
      BY <1>1, <3>1 DEF PoolInv, PoolTypeOK
    <3> QED
      BY <1>1, <3>2 DEF FirstFree
  <2>3. newest.last = SmallNodeSize + size /\ newest.quote = Inc(0)
    OBVIOUS
  <2>4. SmallNodeSize + size <= PageSize
    BY SizeFacts
  <2>5. PageOK(newest, SmallNodeSize, {e})
    BY <1>10, <2>3, <2>4, PageBegins
  <2>6. e \notin held' \/ e \notin Nodes'
    BY <1>10, <1>12, AddsUse
  <2> QED
    BY <2>1, <2>2, <2>5, <2>6
<1>15. ASSUME NEW p \in DOMAIN pages' PROVE PageInv(p)'
  <2>1. p \in 1 .. len \/ p = n
    BY <1>1, <1>9
  <2> QED
    BY <1>13, <1>14, <2>1
<1>16. ASSUME NEW m \in (held' \ Chunks) \union Nodes' PROVE m.page \in DOMAIN pages'
  <2>1. m = e \/ m \in (held \ Chunks) \union Nodes
    BY DEF Adds
  <2>2. n \in 1 .. n /\ \A x \in 1 .. len : x \in 1 .. n
    BY <1>1
  <2> QED
    BY <1>9, <1>10, <1>11, <2>1, <2>2
<1>17. pages' # <<>>
  <2>1. n \in DOMAIN pages'
    BY <1>1, <1>9
  <2> QED
    BY <2>1
<1> QED
  BY <1>4, <1>9, <1>10, <1>15, <1>16, <1>17 DEF PagesInv

\* A small request, and one for a LargeNode.
LEMMA SmallGives ==
  ASSUME PoolInv, up, NEW size \in Nat \ {0}, size <= PageSize - SmallNodeSize,
         NEW r \in SmallResults(size), pages' = r.pages, current' = r.current,
         Adds(r.piece)
  PROVE  /\ PagesInv' /\ pages' \in Seq(PageData) /\ r.piece \in Piece
         /\ current' \in Nat \ {0}
<1>1. PoolTypes /\ current \in Nat \ {0}
  BY HasPoolTypes DEF PoolInv, PoolTypeOK
<1>2. CASE Fitting(size) # {}
  <2> PICK q : q = Min(Fitting(size))
    OBVIOUS
  <2>1. r = FromPage(q, size)
    BY <1>2 DEF SmallResults
  <2>2. Fitting(size) \in SUBSET Nat
    BY <1>1 DEF Fitting, PoolTypes
  <2>3. q \in Fitting(size)
    BY <1>2, <2>2, MinIn
  <2>4. q \in 1 .. Len(pages) /\ Fits(q, size)
    BY <1>1, <2>3 DEF Fitting, PoolTypes
  <2>5. /\ r.piece = [page |-> q, at |-> mp_align(pages[q].last), size |-> size]
        /\ pages' = [pages EXCEPT ![q] = Used(@, mp_align(pages[q].last) + size)]
        /\ current' = current
    BY <2>1 DEF FromPage
  <2> QED
    BY <1>1, <2>4, <2>5, GivesOld
<1>3. CASE Fitting(size) = {}
  <2>1. PICK found \in Leftover : r = FromNewPage(size, found)
    BY <1>3 DEF SmallResults
  <2> QED
    BY <1>3, <2>1, GivesNew
<1> QED
  BY <1>2, <1>3

\* What it gives is a piece.
LEMMA GivesPiece ==
  ASSUME PoolTypeOK, NEW size \in Nat \ {0}, NEW r \in SmallResults(size)
  PROVE  r.piece \in Piece
<1>1. PoolTypes /\ current \in Nat \ {0}
  BY HasPoolTypes DEF PoolTypeOK
<1>2. CASE Fitting(size) # {}
  <2> PICK q : q = Min(Fitting(size))
    OBVIOUS
  <2>1. r = FromPage(q, size)
    BY <1>2 DEF SmallResults
  <2>2. Fitting(size) \in SUBSET Nat
    BY <1>1 DEF Fitting, PoolTypes
  <2>3. q \in Fitting(size)
    BY <1>2, <2>2, MinIn
  <2>4. q \in 1 .. Len(pages) /\ q \in Nat \ {0}
    BY <1>1, <2>3 DEF Fitting, PoolTypes
  <2>5. mp_align(pages[q].last) \in Nat
    <3>1. pages[q].last \in Nat
      BY <1>1, <2>4, SizeFacts DEF PoolTypes, PageData
    <3> QED
      BY <3>1, AlignFacts
  <2>6. r.piece = [page |-> q, at |-> mp_align(pages[q].last), size |-> size]
    BY <2>1 DEF FromPage
  <2> QED
    BY <2>4, <2>5, <2>6 DEF Piece
<1>3. CASE Fitting(size) = {}
  <2>1. PICK found \in Leftover : r = FromNewPage(size, found)
    BY <1>3 DEF SmallResults
  <2>2. r.piece = [page |-> Len(pages) + 1, at |-> SmallNodeSize, size |-> size]
    BY <2>1, AlignNode DEF FromNewPage
  <2>3. Len(pages) + 1 \in Nat \ {0}
    BY <1>1 DEF PoolTypes
  <2> QED
    BY <2>2, <2>3, SizeFacts DEF Piece
<1> QED
  BY <1>2, <1>3

\* A small request.
LEMMA MallocSmallKeeps ==
  ASSUME PoolInv, NEW size \in Sizes, MallocSmall(size)
  PROVE  PoolInv'
<1>1. PICK r \in SmallResults(size) :
        /\ pages' = r.pages /\ current' = r.current
        /\ held' = held \union {r.piece} /\ sound' = IsFree(r.piece)
  BY DEF MallocSmall
<1>2. up /\ UNCHANGED <<up, large, heap>>
  BY DEF MallocSmall
<1>3. size \in Nat \ {0} /\ size <= PageSize - SmallNodeSize
  BY PoolAssumption, SizeFacts DEF MallocSmall, IsLarge
<1>4. r.piece \in Piece /\ r.piece \notin Chunks
  BY <1>3, GivesPiece, PoolAssumption DEF PoolInv
<1>5. Nodes' = Nodes /\ Addresses' = Addresses
  BY <1>2 DEF Nodes, Addresses
<1>6. Adds(r.piece)
  BY <1>1, <1>4, <1>5 DEF Adds
<1>7. PagesInv' /\ pages' \in Seq(PageData) /\ current' \in Nat \ {0}
  BY <1>1, <1>2, <1>3, <1>6, SmallGives
<1>8. PoolTypeOK'
  <2>1. sound' \in BOOLEAN
    BY <1>1, Zenon DEF IsFree
  <2> QED
    BY <1>1, <1>2, <1>4, <1>7, <2>1 DEF PoolInv, PoolTypeOK
<1>9. LargeListOK'
  BY <1>1, <1>2, <1>4, <1>5 DEF PoolInv, LargeListOK
<1> QED
  BY <1>7, <1>8, <1>9 DEF PoolInv

\* A small piece is freed.
LEMMA FreeSmallKeeps ==
  ASSUME PoolInv, NEW m \in held \ Chunks, FreeSmall(m)
  PROVE  PoolInv'
<1> PICK q : q = m.page
  OBVIOUS
<1> PICK page : page = pages[q]
  OBVIOUS
<1> PICK first : first = FirstFree(q)
  OBVIOUS
<1> PICK new : new = IF Dec(page.quote) = 0 THEN Emptied(page, first) ELSE Freed(page)
  OBVIOUS
<1>1. /\ up /\ held' = held \ {m} /\ UNCHANGED <<up, large, heap, sound>>
      /\ pages' = [pages EXCEPT ![q] = new]
      /\ current' = IF Dec(page.quote) = 0 THEN 1 ELSE current
  BY DEF FreeSmall, Reclaim
<1>2. PoolTypes /\ PagesInv /\ current \in Nat \ {0}
  BY <1>1, HasPoolTypes DEF PoolInv, PoolTypeOK
<1>3. m \in Piece /\ q \in 1 .. Len(pages)
  BY <1>2 DEF PoolTypes, PagesInv
<1>4. page \in PageData /\ first \in Nat /\ SmallNodeSize <= first /\ first \in 0 .. PageSize
  BY <1>2, <1>3, FirstFacts, SizeFacts DEF PoolTypes
<1>5. new \in PageData /\ new.left = page.left
  BY <1>4, PageTypes
<1>6. /\ DOMAIN pages' = 1 .. Len(pages) /\ pages'[q] = new
      /\ \A p \in 1 .. Len(pages) : p # q => pages'[p] = pages[p]
  BY <1>1, <1>2, <1>3 DEF PoolTypes
<1>7. pages' \in Seq(PageData)
  <2>1. \A p \in 1 .. Len(pages) : pages'[p] \in PageData
    BY <1>2, <1>5, <1>6 DEF PoolTypes
  <2>2. pages' = [p \in 1 .. Len(pages) |-> pages'[p]]
    BY <1>1, <1>2 DEF PoolTypes
  <2>3. pages' \in [1 .. Len(pages) -> PageData]
    BY <2>1, <2>2
  <2> QED
    BY <1>2, <2>3 DEF PoolTypes
<1>8. Nodes' = Nodes /\ Addresses' = Addresses
  BY <1>1 DEF Nodes, Addresses
<1>9. ASSUME NEW p \in 1 .. Len(pages) PROVE PageInv(p)'
  <2>0. PageInv(p)
    BY <1>2 DEF PagesInv, PoolTypes
  <2>1. CASE p # q
    <3>1. InUse(p)' = InUse(p)
      BY <1>1, <1>8, <2>1 DEF InUse
    <3>2. \A x \in InUse(p) : (x \in held' => x \in held) /\ (x \in Nodes' => x \in Nodes)
      BY <1>1, <1>8
    <3>3. current <= p => current' <= p
      BY <1>1, <1>2
    <3> QED
      BY <1>6, <2>0, <2>1, <3>1, <3>2, <3>3, PageLeftAlone
  <2>2. CASE p = q
    <3> SUFFICES ASSUME page.left = 0
                 PROVE  /\ PageOK(new, first, InUse(q)')
                        /\ \A x \in InUse(q)' : x \notin held' \/ x \notin Nodes'
                        /\ q # 1 /\ InUse(q)' = {} => current' <= q
      BY <1>5, <1>6, <2>2 DEF PageInv
    <3> PICK use : use = InUse(q)
      OBVIOUS
    <3>1. /\ PageOK(page, first, use) /\ use \in SUBSET Piece
          /\ \A x \in use : x \notin held \/ x \notin Nodes
      BY <1>2, <2>0, <2>2 DEF PageInv, PoolTypes
    <3>2. m \in use
      BY DEF InUse
    <3>3. InUse(q)' = use \ {m}
      BY <1>1, <1>8, <3>1, <3>2 DEF InUse
    <3>4. /\ Dec(page.quote) = 0 => PageOK(Emptied(page, first), first, use \ {m})
          /\ Dec(page.quote) # 0 => PageOK(Freed(page), first, use \ {m}) /\ use \ {m} # {}
      BY <1>4, <3>1, <3>2, PageTakes
    <3>5. PageOK(new, first, use \ {m})
      BY <3>4
    <3>6. use \ {m} = {} => current' <= q
      BY <1>1, <1>3, <3>4
    <3>7. \A x \in use \ {m} : x \notin held' \/ x \notin Nodes'
      BY <1>1, <1>8, <3>1
    <3> QED
      BY <3>3, <3>5, <3>6, <3>7
  <2> QED
    BY <2>1, <2>2
<1>10. \A x \in (held' \ Chunks) \union Nodes' : x.page \in 1 .. Len(pages)
  BY <1>1, <1>2, <1>8 DEF PagesInv, PoolTypes
<1>11. PagesInv'
  <2>1. pages' # <<>>
    BY <1>3, <1>6
  <2> QED
    BY <1>6, <1>9, <1>10, <2>1 DEF PagesInv
<1>12. PoolTypeOK'
  BY <1>1, <1>2, <1>7 DEF PoolInv, PoolTypeOK
<1>13. LargeListOK'
  BY <1>1, <1>8 DEF PoolInv, LargeListOK
<1> QED
  BY <1>11, <1>12, <1>13 DEF PoolInv

-----------------------------------------------------------------------------
(***************************************************************************)
(* The list of LargeNodes.                                                 *)
(***************************************************************************)

\* Its nodes are nodes.
LEMMA LargeFacts ==
  ASSUME PoolTypeOK
  PROVE  /\ Len(large) \in Nat /\ DOMAIN large = 1 .. Len(large)
         /\ \A i \in DOMAIN large : large[i] \in LargeNode
BY LenProperties DEF PoolTypeOK

\* The address of one node changes.
LEMMA AddressSet ==
  ASSUME PoolTypeOK, NEW i \in DOMAIN large, NEW x \in Chunks \union {None},
         large' = [large EXCEPT ![i].address = x]
  PROVE  /\ large' \in Seq(LargeNode) /\ DOMAIN large' = DOMAIN large
         /\ large'[i].address = x
         /\ \A j \in DOMAIN large : j # i => large'[j] = large[j]
         /\ Nodes' = Nodes
<1> PICK new : new = [large[i] EXCEPT !.address = x]
  OBVIOUS
<1>1. large \in Seq(LargeNode) /\ large[i] \in LargeNode
  BY LargeFacts DEF PoolTypeOK
<1>2. new \in LargeNode /\ new.address = x /\ new.node = large[i].node
  BY <1>1 DEF LargeNode
<1>3. large' = [large EXCEPT ![i] = new]
  OBVIOUS
<1>4. /\ DOMAIN large' = DOMAIN large /\ large'[i] = new
      /\ \A j \in DOMAIN large : j # i => large'[j] = large[j]
  BY <1>1, <1>3
<1>5. large' \in Seq(LargeNode)
  BY <1>1, <1>2, <1>3
<1>6. \A j \in DOMAIN large : large'[j].node = large[j].node
  BY <1>2, <1>4
<1>7. Nodes' = Nodes
  BY <1>4, <1>6 DEF Nodes
<1> QED
  BY <1>2, <1>4, <1>5, <1>7

\* The pages do not notice.
LEMMA PagesLeftAlone ==
  ASSUME PoolTypeOK, PagesInv, pages' = pages, current' = current,
         held' \ Chunks = held \ Chunks, Nodes' = Nodes
  PROVE  PagesInv'
<1>1. PoolTypes
  BY HasPoolTypes
<1>2. ASSUME NEW p \in DOMAIN pages PROVE PageInv(p)'
  <2>1. PageInv(p)
    BY DEF PagesInv
  <2>2. InUse(p)' = InUse(p)
    BY DEF InUse
  <2>3. \A m \in InUse(p) : m \notin Chunks
    BY <1>1, PoolAssumption DEF PoolTypes
  <2>4. \A m \in InUse(p) : (m \in held' => m \in held) /\ (m \in Nodes' => m \in Nodes)
    BY <2>3
  <2> QED
    BY <2>1, <2>2, <2>4, PageLeftAlone
<1>3. \A m \in (held' \ Chunks) \union Nodes' : m.page \in DOMAIN pages'
  BY DEF PagesInv
<1>4. pages' # <<>>
  BY DEF PagesInv
<1> QED
  BY <1>2, <1>3, <1>4 DEF PagesInv

\* A large block goes into a LargeNode without memory.
LEMMA ReuseKeeps ==
  ASSUME PoolInv, NEW c \in Chunks, MallocLarge(c), ReuseNode(c)
  PROVE  PoolInv'
<1> PICK i : i = Min(FreeNodes)
  OBVIOUS
<1>1. /\ up /\ c \notin heap /\ UNCHANGED <<up, pages, current, sound>>
      /\ heap' = heap \union {c} /\ held' = held \union {c}
      /\ FreeNodes # {} /\ large' = [large EXCEPT ![i].address = c]
  BY DEF MallocLarge, ReuseNode
<1>2. PoolTypeOK /\ LargeListOK /\ PagesInv
  BY <1>1 DEF PoolInv
<1>3. FreeNodes \in SUBSET Nat
  BY <1>2, LargeFacts DEF FreeNodes
<1>4. i \in DOMAIN large /\ large[i].address = None
  BY <1>1, <1>3, MinIn DEF FreeNodes
<1>5. /\ large' \in Seq(LargeNode) /\ DOMAIN large' = DOMAIN large
      /\ large'[i].address = c /\ Nodes' = Nodes
      /\ \A j \in DOMAIN large : j # i => large'[j] = large[j]
  BY <1>1, <1>2, <1>4, AddressSet
<1>6. PagesInv'
  BY <1>1, <1>2, <1>5, PagesLeftAlone
<1>7. PoolTypeOK'
  BY <1>1, <1>2, <1>5 DEF PoolTypeOK
<1>8. c # None
  BY PoolAssumption
<1>9. Addresses' = Addresses \union {c}
  BY <1>4, <1>5, <1>8 DEF Addresses
<1>10. \A j \in DOMAIN large : large[j].address # c
  BY <1>1, <1>2, <1>8 DEF LargeListOK, Addresses
<1>11. ASSUME NEW j \in DOMAIN large', NEW k \in DOMAIN large',
              large'[j].address = large'[k].address
       PROVE  j = k \/ large'[j].address = None
  BY <1>2, <1>5, <1>10, <1>11 DEF LargeListOK
<1>12. heap' = held' \cap Chunks /\ heap' = Addresses'
  BY <1>1, <1>2, <1>9 DEF LargeListOK
<1>13. LargeListOK'
  BY <1>11, <1>12 DEF LargeListOK
<1> QED
  BY <1>6, <1>7, <1>13 DEF PoolInv

\* A node in front of the list.
LEMMA NodePushed ==
  ASSUME PoolTypeOK, NEW x \in LargeNode, large' = <<x>> \o large
  PROVE  /\ large' \in Seq(LargeNode) /\ 1 \in DOMAIN large' /\ large'[1] = x
         /\ \A j \in DOMAIN large' : j # 1 => j - 1 \in DOMAIN large /\ large'[j] = large[j - 1]
         /\ \A j \in DOMAIN large : j + 1 \in DOMAIN large' /\ large'[j + 1] = large[j]
         /\ \A j \in DOMAIN large' : j \in Nat
<1>1. large \in Seq(LargeNode) /\ Len(large) \in Nat /\ DOMAIN large = 1 .. Len(large)
  BY LargeFacts DEF PoolTypeOK
<1>2. <<x>> \in Seq(LargeNode) /\ Len(<<x>>) = 1 /\ <<x>>[1] = x
  OBVIOUS
<1>3. /\ large' \in Seq(LargeNode) /\ Len(large') = 1 + Len(large)
      /\ \A k \in 1 .. 1 + Len(large) : large'[k] = IF k <= 1 THEN <<x>>[k] ELSE large[k - 1]
  BY <1>1, <1>2, ConcatProperties
<1>4. DOMAIN large' = 1 .. 1 + Len(large)
  BY <1>3, LenProperties
<1> QED
  BY <1>1, <1>2, <1>3, <1>4

\* A large block gets a LargeNode of its own.
LEMMA NewKeeps ==
  ASSUME PoolInv, NEW c \in Chunks, MallocLarge(c), NewNode(c)
  PROVE  PoolInv'
<1>1. /\ up /\ c \notin heap /\ UNCHANGED up
      /\ heap' = heap \union {c} /\ held' = held \union {c}
  BY DEF MallocLarge
<1>2. PICK r \in SmallResults(LargeNodeSize) :
        /\ pages' = r.pages /\ current' = r.current
        /\ large' = <<[address |-> c, node |-> r.piece]>> \o large
        /\ sound' = IsFree(r.piece)
  BY DEF NewNode
<1>3. PoolTypeOK /\ LargeListOK
  BY DEF PoolInv
<1>4. r.piece \in Piece
  BY <1>3, GivesPiece, SizeFacts
<1> PICK x : x = [address |-> c, node |-> r.piece]
  OBVIOUS
<1>5. x \in LargeNode /\ x.address = c /\ x.node = r.piece /\ c # None
  BY <1>4, PoolAssumption DEF LargeNode
<1>6. large' = <<x>> \o large
  BY <1>2
<1>7. /\ large' \in Seq(LargeNode) /\ 1 \in DOMAIN large' /\ large'[1] = x
      /\ \A j \in DOMAIN large' : j # 1 => j - 1 \in DOMAIN large /\ large'[j] = large[j - 1]
      /\ \A j \in DOMAIN large : j + 1 \in DOMAIN large' /\ large'[j + 1] = large[j]
      /\ \A j \in DOMAIN large' : j \in Nat
  BY <1>3, <1>5, <1>6, NodePushed
<1>8. Nodes' = Nodes \union {r.piece}
  <2>1. \A y \in Nodes' : y \in Nodes \union {r.piece}
    BY <1>5, <1>7 DEF Nodes
  <2>2. \A y \in Nodes : y \in Nodes'
    BY <1>7 DEF Nodes
  <2>3. r.piece \in Nodes'
    BY <1>5, <1>7 DEF Nodes
  <2> QED
    BY <2>1, <2>2, <2>3
<1>9. Addresses' = Addresses \union {c}
  <2>1. \A y \in Addresses' : y \in Addresses \union {c}
    BY <1>5, <1>7 DEF Addresses
  <2>2. \A y \in Addresses : y \in Addresses'
    BY <1>7 DEF Addresses
  <2>3. c \in Addresses'
    BY <1>5, <1>7 DEF Addresses
  <2> QED
    BY <2>1, <2>2, <2>3
<1>10. Adds(r.piece)
  BY <1>1, <1>8 DEF Adds
<1>11. PagesInv' /\ pages' \in Seq(PageData) /\ current' \in Nat \ {0}
  BY <1>1, <1>2, <1>10, SizeFacts, SmallGives
<1>12. PoolTypeOK'
  <2>1. sound' \in BOOLEAN
    BY <1>2, Zenon DEF IsFree
  <2> QED
    BY <1>1, <1>3, <1>7, <1>11, <2>1 DEF PoolTypeOK
<1>13. \A j \in DOMAIN large : large[j].address # c
  BY <1>1, <1>3, <1>5 DEF LargeListOK, Addresses
<1>14. ASSUME NEW j \in DOMAIN large', NEW k \in DOMAIN large',
              large'[j].address = large'[k].address, j # k
       PROVE  large'[j].address = None
  <2>1. j # 1 /\ k # 1
    BY <1>5, <1>7, <1>13, <1>14
  <2>2. /\ j - 1 \in DOMAIN large /\ large'[j] = large[j - 1]
        /\ k - 1 \in DOMAIN large /\ large'[k] = large[k - 1]
        /\ j - 1 # k - 1
    BY <1>7, <1>14, <2>1
  <2> QED
    BY <1>3, <1>14, <2>2 DEF LargeListOK
<1>15. heap' = held' \cap Chunks /\ heap' = Addresses'
  BY <1>1, <1>3, <1>9 DEF LargeListOK
<1>16. LargeListOK'
  BY <1>14, <1>15 DEF LargeListOK
<1> QED
  BY <1>11, <1>12, <1>16 DEF PoolInv

\* A large block is freed: the LargeNode that has it is the only one.
LEMMA FreeLargeKeeps ==
  ASSUME PoolInv, NEW c \in Chunks, FreeLarge(c)
  PROVE  PoolInv'
<1> DEFINE its == {j \in DOMAIN large : large[j].address = c}
<1> PICK i : i = Min(its)
  OBVIOUS
<1>1. /\ up /\ c \in held /\ UNCHANGED <<up, pages, current, sound>>
      /\ heap' = heap \ {c} /\ held' = held \ {c}
      /\ large' = [large EXCEPT ![i].address = None]
  BY DEF FreeLarge
<1>2. PoolTypeOK /\ LargeListOK /\ PagesInv
  BY <1>1 DEF PoolInv
<1>3. c \in Addresses /\ c # None
  BY <1>1, <1>2, PoolAssumption DEF LargeListOK
<1>4. its # {} /\ its \in SUBSET Nat
  BY <1>2, <1>3, LargeFacts DEF Addresses
<1>5. i \in DOMAIN large /\ large[i].address = c
  BY <1>4, MinIn
<1>6. \A j \in DOMAIN large : j # i => large[j].address # c
  BY <1>2, <1>3, <1>5 DEF LargeListOK
<1>7. /\ large' \in Seq(LargeNode) /\ DOMAIN large' = DOMAIN large
      /\ large'[i].address = None /\ Nodes' = Nodes
      /\ \A j \in DOMAIN large : j # i => large'[j] = large[j]
  BY <1>1, <1>2, <1>5, AddressSet
<1>8. PagesInv'
  BY <1>1, <1>2, <1>7, PagesLeftAlone
<1>9. PoolTypeOK'
  BY <1>1, <1>2, <1>7 DEF PoolTypeOK
<1>10. Addresses' = Addresses \ {c}
  BY <1>5, <1>6, <1>7 DEF Addresses
<1>11. ASSUME NEW j \in DOMAIN large', NEW k \in DOMAIN large',
              large'[j].address = large'[k].address
       PROVE  j = k \/ large'[j].address = None
  BY <1>2, <1>7, <1>11 DEF LargeListOK
<1>12. heap' = held' \cap Chunks /\ heap' = Addresses'
  BY <1>1, <1>2, <1>10 DEF LargeListOK
<1>13. LargeListOK'
  BY <1>11, <1>12 DEF LargeListOK
<1> QED
  BY <1>8, <1>9, <1>13 DEF PoolInv

-----------------------------------------------------------------------------
(***************************************************************************)
(* The beginning and the end.                                              *)
(***************************************************************************)

\* A clear page that holds nothing is good.
LEMMA ClearFacts ==
  ASSUME NEW p
  PROVE  ClearPage(p) \in PageData /\ PageOK(ClearPage(p), FirstFree(p), {})
<1>1. FirstFree(p) \in 0 .. PageSize /\ 0 \in 0 .. UIntMod - 1
  BY FirstFacts, SizeFacts
<1>2. IsFiniteSet({}) /\ Cardinality({}) = 0
  BY FS_EmptySet
<1>3. ClearPage(p) \in PageData
  BY <1>1 DEF ClearPage, PageData
<1>4. LieApart({}, FirstFree(p), ClearPage(p).last)
  BY DEF LieApart
<1>5. PageOK(ClearPage(p), FirstFree(p), {})
  BY <1>1, <1>2, <1>4 DEF PageOK, ClearPage
<1> QED
  BY <1>3, <1>5

\* A pool that has nothing in use.
LEMMA NothingInUse ==
  ASSUME large = <<>>, heap = {}, held = {}
  PROVE  LargeListOK /\ Nodes = {} /\ \A p : InUse(p) = {}
<1>1. DOMAIN large = {}
  OBVIOUS
<1>2. Addresses = {} /\ Nodes = {}
  BY <1>1 DEF Addresses, Nodes
<1> QED
  BY <1>1, <1>2 DEF LargeListOK, InUse

\* A new pool.
LEMMA PoolInitial ==
  ASSUME createPool
  PROVE  PoolInv
<1>1. /\ up = TRUE /\ pages = <<ClearPage(1)>> /\ current = 1
      /\ large = <<>> /\ heap = {} /\ held = {} /\ sound = TRUE
  BY DEF createPool
<1>2. LargeListOK /\ Nodes = {} /\ \A p : InUse(p) = {}
  BY <1>1, NothingInUse
<1>3. ClearPage(1) \in PageData /\ PageOK(ClearPage(1), FirstFree(1), {})
  BY ClearFacts
<1>4. PoolTypeOK
  BY <1>1, <1>3 DEF PoolTypeOK
<1>5. DOMAIN pages = {1} /\ pages[1] = ClearPage(1) /\ pages # <<>>
  BY <1>1
<1>6. PageInv(1)
  BY <1>2, <1>3, <1>5 DEF PageInv
<1>7. PagesInv
  BY <1>1, <1>2, <1>5, <1>6 DEF PagesInv
<1> QED
  BY <1>2, <1>4, <1>7 DEF PoolInv

\* What resetPool and destroyPool leave in use.
LEMMA NothingLeft ==
  ASSUME LargeListOK, large' = <<>>, heap' = heap \ Addresses, held' = {}
  PROVE  LargeListOK' /\ heap' = {} /\ Nodes' = {} /\ \A p : InUse(p)' = {}
<1>1. heap' = {}
  BY DEF LargeListOK
<1>2. DOMAIN large' = {}
  OBVIOUS
<1>3. Addresses' = {} /\ Nodes' = {}
  BY <1>2 DEF Addresses, Nodes
<1> QED
  BY <1>1, <1>2, <1>3 DEF LargeListOK, InUse

\* All memory is taken back.
LEMMA ResetKeeps ==
  ASSUME PoolInv, resetPool
  PROVE  PoolInv'
<1>1. /\ up /\ UNCHANGED <<up, sound>> /\ current' = 1 /\ held' = {}
      /\ heap' = heap \ Addresses /\ large' = <<>>
      /\ pages' = [p \in DOMAIN pages |-> ClearPage(p)]
  BY DEF resetPool
<1>2. PoolTypeOK /\ LargeListOK /\ PagesInv /\ PoolTypes
  BY <1>1, HasPoolTypes DEF PoolInv
<1>3. LargeListOK' /\ heap' = {} /\ Nodes' = {} /\ \A p : InUse(p)' = {}
  BY <1>1, <1>2, NothingLeft
<1>4. DOMAIN pages' = DOMAIN pages /\ \A p \in DOMAIN pages : pages'[p] = ClearPage(p)
  BY <1>1
<1>5. pages' \in Seq(PageData)
  <2>1. pages' \in [1 .. Len(pages) -> PageData]
    BY <1>1, <1>2, ClearFacts DEF PoolTypes
  <2> QED
    BY <1>2, <2>1 DEF PoolTypes
<1>6. PoolTypeOK'
  BY <1>1, <1>2, <1>3, <1>5 DEF PoolTypeOK
<1>7. ASSUME NEW p \in DOMAIN pages PROVE PageInv(p)'
  <2>1. PageOK(pages'[p], FirstFree(p), InUse(p)')
    BY <1>3, <1>4, ClearFacts
  <2>2. p # 1 => current' <= p
    BY <1>1, <1>2 DEF PoolTypes
  <2> QED
    BY <1>3, <2>1, <2>2 DEF PageInv
<1>8. pages' # <<>>
  <2>1. Len(pages) # 0
    BY <1>2 DEF PagesInv, PoolTypeOK
  <2>2. 1 \in DOMAIN pages
    BY <1>2, <2>1 DEF PoolTypes
  <2> QED
    BY <1>4, <2>2
<1>9. PagesInv'
  BY <1>1, <1>3, <1>4, <1>7, <1>8 DEF PagesInv
<1> QED
  BY <1>3, <1>6, <1>9 DEF PoolInv

\* The pool is destroyed.
LEMMA DestroyKeeps ==
  ASSUME PoolInv, destroyPool
  PROVE  PoolInv'
<1>1. /\ up' = FALSE /\ UNCHANGED sound /\ current' = 1 /\ held' = {}
      /\ heap' = heap \ Addresses /\ large' = <<>>
  BY DEF destroyPool
<1>2. PoolTypeOK /\ LargeListOK /\ PoolTypes
  BY HasPoolTypes DEF PoolInv
<1>3. LargeListOK' /\ heap' = {}
  BY <1>1, <1>2, NothingLeft
<1>4. PICK n \in (2 .. Len(pages)) \union {Len(pages)} :
        pages' = SubSeq(pages, n + 1, Len(pages))
  BY DEF destroyPool
<1>5. pages' \in Seq(PageData)
  <2>1. pages \in Seq(PageData) /\ Len(pages) \in Nat
    BY <1>2 DEF PoolTypeOK, PoolTypes
  <2>2. n \in Nat /\ n <= Len(pages)
    BY <1>4, <2>1
  <2>3. n + 1 \in 1 .. Len(pages) + 1
    BY <2>1, <2>2
  <2> QED
    BY <1>4, <2>1, <2>3, SubSeqProperties, SMTT(30)
<1>6. up' \in BOOLEAN /\ current' \in Nat \ {0}
  <2>1. up' \in BOOLEAN
    BY <1>1, Zenon
  <2>2. current' \in Nat \ {0}
    BY <1>1
  <2> QED
    BY <2>1, <2>2
<1>7. large' \in Seq(LargeNode) /\ heap' \subseteq Chunks /\ held' \subseteq Piece \union Chunks
  BY <1>1, <1>3
<1>8. PoolTypeOK'
  BY <1>1, <1>2, <1>5, <1>6, <1>7 DEF PoolTypeOK
<1> QED
  BY <1>1, <1>3, <1>8 DEF PoolInv

\* Every step keeps the invariant.
LEMMA PoolStep ==
  ASSUME PoolInv, [PoolNext]_poolVars
  PROVE  PoolInv'
<1>1. ASSUME NEW size \in Sizes, MallocSmall(size) PROVE PoolInv'
  BY <1>1, MallocSmallKeeps
<1>2. ASSUME NEW c \in Chunks, MallocLarge(c) PROVE PoolInv'
  <2>1. ReuseNode(c) \/ NewNode(c)
    BY <1>2 DEF MallocLarge
  <2> QED
    BY <1>2, <2>1, ReuseKeeps, NewKeeps
<1>3. ASSUME NEW c \in Chunks, FreeLarge(c) PROVE PoolInv'
  BY <1>3, FreeLargeKeeps
<1>4. ASSUME NEW m \in held \ Chunks, FreeSmall(m) PROVE PoolInv'
  BY <1>4, FreeSmallKeeps
<1>5. CASE resetPool
  BY <1>5, ResetKeeps
<1>6. CASE destroyPool
  BY <1>6, DestroyKeeps
<1>7. CASE UNCHANGED poolVars
  <2>1. /\ UNCHANGED <<up, pages, current, large, heap, held, sound>>
        /\ Nodes' = Nodes /\ Addresses' = Addresses
    BY <1>7 DEF poolVars, Nodes, Addresses
  <2>2. PoolTypeOK' /\ LargeListOK'
    BY <2>1 DEF PoolInv, PoolTypeOK, LargeListOK
  <2>3. up' => PagesInv'
    BY <2>1, PagesLeftAlone DEF PoolInv
  <2> QED
    BY <2>2, <2>3 DEF PoolInv
<1> QED
  BY <1>1, <1>2, <1>3, <1>4, <1>5, <1>6, <1>7 DEF PoolNext

\* A piece from a page that counts from zero, or from a new page, is nobody
\* else's.
LEMMA GivesFree ==
  ASSUME PoolInv, up, NEW size \in Nat \ {0}, NEW r \in SmallResults(size),
         pages' = r.pages, sound' = IsFree(r.piece)
  PROVE  SoundInv'
<1>1. PoolTypes /\ PagesInv /\ current \in Nat \ {0}
  BY HasPoolTypes DEF PoolInv, PoolTypeOK
<1>2. CASE Fitting(size) # {}
  <2> PICK q : q = Min(Fitting(size))
    OBVIOUS
  <2> PICK at : at = mp_align(pages[q].last)
    OBVIOUS
  <2>1. r = FromPage(q, size)
    BY <1>2 DEF SmallResults
  <2>2. Fitting(size) \in SUBSET Nat
    BY <1>1 DEF Fitting, PoolTypes
  <2>3. q \in 1 .. Len(pages) /\ pages[q] \in PageData /\ PageInv(q)
    <3>1. q \in Fitting(size)
      BY <1>2, <2>2, MinIn
    <3>2. q \in 1 .. Len(pages)
      BY <1>1, <3>1 DEF Fitting, PoolTypes
    <3> QED
      BY <1>1, <3>2 DEF PoolTypes, PagesInv
  <2>4. /\ r.piece = [page |-> q, at |-> at, size |-> size]
        /\ pages' = [pages EXCEPT ![q] = Used(@, at + size)]
    BY <2>1 DEF FromPage
  <2>5. q \in DOMAIN pages' /\ pages'[q].left = pages[q].left
    BY <1>1, <2>3, <2>4 DEF Used, PageData, PoolTypes
  <2>6. CASE pages[q].left # 0
    BY <2>5, <2>6 DEF SoundInv
  <2>7. CASE pages[q].left = 0
    <3>1. pages[q].last \in Nat /\ at \in Nat /\ pages[q].last <= at
      BY <2>3, AlignFacts, SizeFacts, SMTT(30) DEF PageData
    <3>2. \A m \in InUse(q) : m \in Piece /\ m.at + m.size <= pages[q].last
      BY <1>1, <2>3, <2>7 DEF PageInv, PageOK, LieApart, PoolTypes
    <3>3. \A m \in InUse(q) : m.at + m.size <= at
      BY <3>1, <3>2 DEF Piece
    <3>4. r.piece.page = q /\ r.piece.at = at
      BY <2>4
    <3>5. IsFree(r.piece)
      BY <3>3, <3>4 DEF IsFree
    <3> QED
      BY <3>5 DEF SoundInv
  <2> QED
    BY <2>6, <2>7
<1>3. CASE Fitting(size) = {}
  <2>1. PICK found \in Leftover : r = FromNewPage(size, found)
    BY <1>3 DEF SmallResults
  <2>2. r.piece.page = Len(pages) + 1
    BY <2>1 DEF FromNewPage
  <2>3. InUse(Len(pages) + 1) = {}
    BY <1>1 DEF InUse, PagesInv, PoolTypes
  <2>4. IsFree(r.piece)
    BY <2>2, <2>3 DEF IsFree
  <2> QED
    BY <2>4 DEF SoundInv
<1> QED
  BY <1>2, <1>3

\* Only malloc gives out memory.
LEMMA SoundStep ==
  ASSUME PoolInv, SoundInv, [PoolNext]_poolVars
  PROVE  SoundInv'
<1>1. ASSUME NEW size \in Sizes, MallocSmall(size) PROVE SoundInv'
  <2>1. size \in Nat \ {0}
    BY PoolAssumption
  <2> QED
    BY <1>1, <2>1, GivesFree DEF MallocSmall
<1>2. ASSUME NEW c \in Chunks, MallocLarge(c), sound PROVE SoundInv'
  <2>1. CASE ReuseNode(c)
    BY <1>2, <2>1 DEF ReuseNode, SoundInv
  <2>2. CASE NewNode(c)
    BY <1>2, <2>2, GivesFree, SizeFacts DEF MallocLarge, NewNode
  <2> QED
    BY <1>2, <2>1, <2>2 DEF MallocLarge
<1>3. ASSUME sound, sound' = sound PROVE SoundInv'
  BY <1>3 DEF SoundInv
<1>4. CASE UNCHANGED poolVars
  BY <1>4 DEF poolVars, SoundInv
<1>5. CASE PoolNext
  <2>1. sound
    BY <1>5 DEF PoolNext
  <2>2. \/ \E size \in Sizes : MallocSmall(size)
        \/ \E c \in Chunks : MallocLarge(c)
        \/ sound' = sound
    BY <1>5 DEF PoolNext, FreeLarge, FreeSmall, resetPool, destroyPool
  <2> QED
    BY <1>1, <1>2, <1>3, <2>1, <2>2
<1> QED
  BY <1>4, <1>5

\* The invariant holds.
LEMMA PoolInvariant == PoolSpec => []PoolInv
BY PoolInitial, PoolStep, PTL DEF PoolSpec

\* So does the other.
LEMMA SoundInvariant == PoolSpec => []SoundInv
<1>1. createPool => SoundInv
  BY DEF createPool, SoundInv
<1> QED
  BY <1>1, SoundStep, PoolInvariant, PTL DEF PoolSpec

-----------------------------------------------------------------------------
\* MemoryPool.cc:146-180, 208-234: for pages, nodes and requests of every size,
\* any number of pages and any sequence of malloc, freeMemory and resetPool, the
\* pieces in use, those of LargeNodes too, lie within their page and apart, in
\* every page whose quote_ began at 0.
THEOREM PiecesApart == PoolSpec => []NoOverlap
<1>1. PoolInv => NoOverlap
  <2> SUFFICES ASSUME PoolInv, NEW p \in DOMAIN pages, up, pages[p].left = 0
               PROVE  /\ pages[p].last <= PageSize
                      /\ LieApart(InUse(p), FirstFree(p), pages[p].last)
    BY DEF NoOverlap, LieApart
  <2>1. PoolTypes /\ PagesInv
    BY HasPoolTypes DEF PoolInv
  <2>2. pages[p].last <= PageSize
    BY <2>1, SizeFacts DEF PoolTypes, PageData
  <2> QED
    BY <2>1, <2>2 DEF PagesInv, PageInv, PageOK
<1> QED
  BY <1>1, PoolInvariant, PTL

\* MemoryPool.cc:62-104, 195-206, 241-250: for any number of large blocks and
\* pages, and whatever new pages hold, each block that is allocated is held by
\* the user and in exactly one LargeNode, as long as no memory in use has been
\* given out again; and it never has been in a pool whose pages all count from
\* zero.
THEOREM LargeBlocksAccounted == PoolSpec => []LargeAccounted
<1>1. PoolInv /\ SoundInv => LargeAccounted
  BY DEF PoolInv, SoundInv, LargeAccounted
<1> QED
  BY <1>1, PoolInvariant, SoundInvariant, PTL

\* MemoryPool.cc:127-142, 214-229: for any number of pages and any FailedLimit, a
\* page that holds nothing is empty down to its SmallNode and not behind current_:
\* malloc walks over it again.
THEOREM EmptyPagesReused == PoolSpec => []EmptyIsReused
<1>1. PoolInv => EmptyIsReused
  <2> SUFFICES ASSUME PoolInv, NEW p \in DOMAIN pages \ {1}, up, pages[p].left = 0, InUse(p) = {}
               PROVE  pages[p].last = FirstFree(p) /\ current <= p
    BY DEF EmptyIsReused
  <2> QED
    BY DEF PoolInv, PagesInv, PageInv, PageOK
<1> QED
  BY <1>1, PoolInvariant, PTL
===============================================================================
