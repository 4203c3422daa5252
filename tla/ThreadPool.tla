----------------------------- MODULE ThreadPool ------------------------------
(***************************************************************************)
(* The fixed thread pool (src/base/ThreadPool.cc): the thread that owns it *)
(* (start, stop, the destructor), threads that add tasks, and the workers  *)
(* in runInThread.  Every critical section of mutex_ is one action.        *)
(*                                                                         *)
(* A task is a value added at most once.  setThreadSize has been called    *)
(* before start, because threadSize_ has no initial value, and nobody adds *)
(* a task to a pool that is being destroyed.                               *)
(***************************************************************************)
EXTENDS Integers, Sequences, FiniteSets, Functions

CONSTANTS Workers,   \* the threads that start creates
          Tasks

ASSUME WorkersAssumption == IsFiniteSet(Workers)   \* threadSize_ of them

VARIABLES
  owner,    \* "new", "starting" (in the loop of start), "started", "dtor"
            \* (~ThreadPool, after stop), "gone"
  running,  \* running_
  queue,    \* queue_
  wpc,      \* wpc[w]: see WorkerPCs
  failed,   \* history: workers that a task or threadInitCallback_ has ended
  started,  \* history: tasks taken from the queue, oldest first
  late      \* history: tasks added after stop()

vars == <<owner, running, queue, wpc, failed, started, late>>

WorkerPCs == {"none",     \* not created
              "init",     \* in threadInitCallback_
              "lock",     \* about to hold the lock, from the top or from wait
              "waiting",  \* in cond_.wait
              "task",     \* in task()
              "exited"}

At(l) == {w \in Workers : wpc[w] = l}
Go(w, l) == wpc' = [wpc EXCEPT ![w] = l]
Added == Range(started) \union Range(queue)

Init ==
  /\ owner = "new" /\ running = FALSE
  /\ queue = <<>> /\ wpc = [w \in Workers |-> "none"]
  /\ failed = {} /\ started = <<>> /\ late = {}

(***************************************************************************)
(* The owner.  Thread::start returns once the new thread runs.             *)
(***************************************************************************)
Start ==
  /\ owner = "new"
  /\ running' = TRUE
  /\ owner' = IF Workers = {} THEN "started" ELSE "starting"
  /\ UNCHANGED <<queue, wpc, failed, started, late>>

StartThread(w) ==
  /\ owner = "starting" /\ wpc[w] = "none"
  /\ Go(w, "init")
  /\ owner' = IF At("none") = {w} THEN "started" ELSE owner
  /\ UNCHANGED <<running, queue, failed, started, late>>

\* Mutant: notify_one instead of notify_all.
StopWakesOne ==
  /\ running' = FALSE
  /\ \/ At("waiting") = {} /\ UNCHANGED wpc
     \/ \E w \in At("waiting") : Go(w, "lock")
  /\ UNCHANGED <<queue, failed, started, late>>

StopWorkers ==
  /\ running' = FALSE
  /\ wpc' = [w \in Workers |-> IF w \in At("waiting") THEN "lock" ELSE wpc[w]]
  /\ UNCHANGED <<queue, failed, started, late>>

Stop == owner = "started" /\ StopWorkers /\ UNCHANGED owner

BeginDestructor == owner \in {"new", "started"} /\ StopWorkers /\ owner' = "dtor"

JoinAll ==
  /\ owner = "dtor" /\ At("exited") \union At("none") = Workers
  /\ owner' = "gone"
  /\ UNCHANGED <<running, queue, wpc, failed, started, late>>

(***************************************************************************)
(* add(): push, and wake one of the waiting workers.                       *)
(***************************************************************************)
\* Mutant: only the first task of an empty queue is announced.
NotifyIfFirst ==
  IF At("waiting") = {} \/ queue # <<>>
    THEN UNCHANGED wpc
    ELSE \E w \in At("waiting") : Go(w, "lock")

NotifyOne ==
  IF At("waiting") = {}
    THEN UNCHANGED wpc
    ELSE \E w \in At("waiting") : Go(w, "lock")

Add(t) ==
  /\ owner \notin {"dtor", "gone"} /\ t \notin Added
  /\ queue' = Append(queue, t)
  /\ NotifyOne
  /\ late' = IF owner = "started" /\ ~running THEN late \union {t} ELSE late
  /\ UNCHANGED <<owner, running, failed, started>>

(***************************************************************************)
(* runInThread.                                                            *)
(***************************************************************************)
BeginLoop(w) ==
  /\ wpc[w] = "init" /\ Go(w, "lock")
  /\ UNCHANGED <<owner, running, queue, failed, started, late>>

SpuriousWakeup(w) ==
  /\ wpc[w] = "waiting" /\ Go(w, "lock")
  /\ UNCHANGED <<owner, running, queue, failed, started, late>>

Wait(w) ==
  /\ wpc[w] = "lock" /\ queue = <<>> /\ running
  /\ Go(w, "waiting")
  /\ UNCHANGED <<owner, running, queue, failed, started, late>>

\* Mutant: running_ is tested before the queue, so that stop() abandons tasks.
LeaveAtOnce(w) ==
  /\ wpc[w] = "lock" /\ ~running
  /\ Go(w, "exited")
  /\ UNCHANGED <<owner, running, queue, failed, started, late>>

Leave(w) ==
  /\ wpc[w] = "lock" /\ queue = <<>> /\ ~running
  /\ Go(w, "exited")
  /\ UNCHANGED <<owner, running, queue, failed, started, late>>

Take(w) ==
  /\ wpc[w] = "lock" /\ queue # <<>>
  /\ started' = Append(started, Head(queue))
  /\ queue' = Tail(queue)
  /\ Go(w, "task")
  /\ UNCHANGED <<owner, running, failed, late>>

TaskReturns(w) ==
  /\ wpc[w] = "task" /\ Go(w, "lock")
  /\ UNCHANGED <<owner, running, queue, failed, started, late>>

\* The exception of a task, or of threadInitCallback_, is caught outside the
\* loop: it ends the worker.
Throws(w) ==
  /\ wpc[w] \in {"init", "task"} /\ Go(w, "exited")
  /\ failed' = failed \union {w}
  /\ UNCHANGED <<owner, running, queue, started, late>>

OwnerStep ==
  \/ Start \/ Stop \/ BeginDestructor \/ JoinAll
  \/ \E w \in Workers : StartThread(w)

WorkerStep(w) ==
  BeginLoop(w) \/ Wait(w) \/ Leave(w) \/ Take(w) \/ TaskReturns(w)

Next ==
  \/ OwnerStep
  \/ \E t \in Tasks : Add(t)
  \/ \E w \in Workers : WorkerStep(w) \/ SpuriousWakeup(w) \/ Throws(w)

Spec == Init /\ [][Next]_vars

\* start() and the join go on; a worker gets the lock and its task returns.
FairSpec ==
  /\ Spec
  /\ WF_vars(JoinAll) /\ \A w \in Workers : WF_vars(StartThread(w))
  /\ \A w \in Workers : WF_vars(WorkerStep(w))

-----------------------------------------------------------------------------
(***************************************************************************)
(* Properties.                                                             *)
(***************************************************************************)

\* Every variable has its type.
TypeOK ==
  /\ owner \in {"new", "starting", "started", "dtor", "gone"}
  /\ running \in BOOLEAN
  /\ queue \in Seq(Tasks) /\ started \in Seq(Tasks) /\ late \subseteq Tasks
  /\ wpc \in [Workers -> WorkerPCs] /\ failed \subseteq Workers

\* ThreadPool.cc:53-58, 72-82: while a worker waits, there is a woken worker
\* for each task in the queue: no notify_one is lost, although it wakes one
\* worker whether or not that one finds the task still there.
WokenForEach == At("waiting") # {} => Len(queue) <= Cardinality(At("lock"))

\* ThreadPool.cc:11-19, 72-78: the destructor returns with every task taken that
\* was added before stop(), unless exceptions have ended all the workers that
\* start() had created, if any.
Drained ==
  owner = "gone" =>
    \/ Range(queue) \subseteq late
    \/ failed = {w \in Workers : wpc[w] # "none"}

\* What makes the two inductive: a worker leaves without an exception only when
\* stop() has been called and the queue is empty; all that is added later is late.
LeftInOrder == \E w \in At("exited") : w \notin failed

Inv ==
  /\ TypeOK /\ WokenForEach
  /\ owner = "new" => At("none") = Workers
  /\ owner = "starting" => running
  /\ owner = "gone" => At("exited") \union At("none") = Workers
  /\ failed \subseteq At("exited")
  /\ LeftInOrder =>
       owner \in {"started", "dtor", "gone"} /\ ~running /\ Range(queue) \subseteq late

\* ThreadPool.cc:11-19: the destructor returns if tasks do.
DestructorReturns == owner = "dtor" ~> owner = "gone"

=============================================================================
