------------------------------ MODULE EventLoop ------------------------------
(***************************************************************************)
(* One EventLoop (src/net/EventLoop.cc): the thread that runs loop(), and  *)
(* the other threads that call queueInLoop, runInLoop and quit on it.      *)
(*                                                                         *)
(* The eventfd counter is abstracted to whether it is positive, which is   *)
(* all that epoll and the loop distinguish.  Every channel other than the  *)
(* wakeup channel is the one channel "io", ready whenever the environment  *)
(* likes.  A functor is a value posted at most once.                       *)
(***************************************************************************)
EXTENDS Integers, Sequences, Functions

CONSTANTS Functors,  \* the callbacks that are ever handed to the loop
          Posters    \* the threads other than the loop's own

VARIABLES
  pc,         \* where the loop thread is (see LoopPCs)
  ctx,        \* "io" or "functor": the callback the loop thread is inside of
  quit,       \* quit_
  calling,    \* callingPendingFunctors_
  active,     \* activeChannels_ still to be handled in this iteration
  wakeupFd,   \* the eventfd counter is positive
  pending,    \* pendingFunctors_
  functors,   \* the local vector of doPendingFunctors, not yet run
  ran,        \* history: queued functors that were started, oldest first
  posted,     \* history: functors pushed by queueInLoop, oldest first
  tpc         \* tpc[p]: "idle", or "wakeup" between the push and wakeup()

vars == <<pc, ctx, quit, calling, active, wakeupFd, pending, functors, ran,
          posted, tpc>>

LoopPCs == {"start",     \* constructed, loop() not yet entered
            "check",     \* at while (!quit_)
            "poll",      \* in epoll_wait
            "events",    \* in the for loop over activeChannels_
            "swap",      \* callingPendingFunctors_ set, lock not yet taken
            "run",       \* in the for loop over the local functors
            "callback",  \* inside a channel handler or a functor
            "pushed",    \* in queueInLoop, after the push, before line 140
            "done"}      \* loop() has returned

Unused == Functors \ Range(posted)

(***************************************************************************)
(* EventLoop::EventLoop.                                                   *)
(***************************************************************************)
Init ==
  /\ pc = "start" /\ ctx = "io"
  /\ quit = FALSE /\ calling = FALSE
  /\ active = {} /\ wakeupFd = FALSE
  /\ pending = <<>> /\ functors = <<>> /\ ran = <<>> /\ posted = <<>>
  /\ tpc = [p \in Posters |-> "idle"]

(***************************************************************************)
(* loop(): entry, the loop test, and the poll.                             *)
(***************************************************************************)
EnterLoop ==
  /\ pc = "start"
  /\ quit' = FALSE
  /\ pc' = "check"
  /\ UNCHANGED <<ctx, calling, active, wakeupFd, pending, functors, ran,
                 posted, tpc>>

CheckQuit ==
  /\ pc = "check"
  /\ pc' = IF quit THEN "done" ELSE "poll"
  /\ active' = {}
  /\ UNCHANGED <<ctx, quit, calling, wakeupFd, pending, functors, ran,
                 posted, tpc>>

\* EPollPoller::poll with numEvents > 0: level-triggered, so a positive
\* eventfd counter is always among the reported channels.
PollReturns(ready) ==
  /\ pc = "poll"
  /\ ready # {}
  /\ ("wakeup" \in ready) <=> wakeupFd
  /\ active' = ready
  /\ pc' = "events"
  /\ UNCHANGED <<ctx, quit, calling, wakeupFd, pending, functors, ran,
                 posted, tpc>>

\* epoll_wait reports nothing: kPollTimeMs has passed, or EINTR.
PollTimeout ==
  /\ pc = "poll" /\ ~wakeupFd
  /\ active' = {}
  /\ pc' = "events"
  /\ UNCHANGED <<ctx, quit, calling, wakeupFd, pending, functors, ran,
                 posted, tpc>>

(***************************************************************************)
(* handleEvent of the wakeup channel (EventLoop::handleRead) and of the    *)
(* other channels, whose handlers are user code.                           *)
(***************************************************************************)
HandleRead ==
  /\ pc = "events" /\ "wakeup" \in active
  /\ wakeupFd' = FALSE
  /\ active' = active \ {"wakeup"}
  /\ UNCHANGED <<pc, ctx, quit, calling, pending, functors, ran, posted, tpc>>

HandleIo ==
  /\ pc = "events" /\ "io" \in active
  /\ active' = active \ {"io"}
  /\ pc' = "callback" /\ ctx' = "io"
  /\ UNCHANGED <<quit, calling, wakeupFd, pending, functors, ran, posted, tpc>>

(***************************************************************************)
(* doPendingFunctors: set the flag, swap under the lock, run the vector,   *)
(* clear the flag and go back to the loop test.                            *)
(***************************************************************************)
BeginPending ==
  /\ pc = "events" /\ active = {}
  /\ calling' = TRUE
  /\ pc' = "swap"
  /\ UNCHANGED <<ctx, quit, active, wakeupFd, pending, functors, ran, posted,
                 tpc>>

SwapPending ==
  /\ pc = "swap"
  /\ functors' = pending
  /\ pending' = <<>>
  /\ pc' = "run"
  /\ UNCHANGED <<ctx, quit, calling, active, wakeupFd, ran, posted, tpc>>

RunFunctor ==
  /\ pc = "run" /\ functors # <<>>
  /\ ran' = Append(ran, Head(functors))
  /\ functors' = Tail(functors)
  /\ pc' = "callback" /\ ctx' = "functor"
  /\ UNCHANGED <<quit, calling, active, wakeupFd, pending, posted, tpc>>

EndPending ==
  /\ pc = "run" /\ functors = <<>>
  /\ calling' = FALSE
  /\ pc' = "check"
  /\ UNCHANGED <<ctx, quit, active, wakeupFd, pending, functors, ran, posted,
                 tpc>>

(***************************************************************************)
(* What a callback on the loop thread may do: return, quit(), or           *)
(* queueInLoop.  runInLoop called here runs its argument at once, as part  *)
(* of the same callback (EventLoop.cc:115-118).                            *)
(***************************************************************************)
CallbackReturns ==
  /\ pc = "callback"
  /\ pc' = IF ctx = "io" THEN "events" ELSE "run"
  /\ UNCHANGED <<ctx, quit, calling, active, wakeupFd, pending, functors, ran,
                 posted, tpc>>

\* quit() on the loop thread: isInLoopThread() holds, so it wakes itself.
QuitInLoop ==
  /\ pc = "callback"
  /\ quit' = TRUE
  /\ wakeupFd' = TRUE
  /\ UNCHANGED <<pc, ctx, calling, active, pending, functors, ran, posted, tpc>>

\* Mutant: the functor is inserted at the front of the vector.
PushFront(f) ==
  /\ pending' = <<f>> \o pending
  /\ posted' = Append(posted, f)

Push(f) ==
  /\ pending' = Append(pending, f)
  /\ posted' = Append(posted, f)

LoopPush(f) ==
  /\ pc = "callback"
  /\ Push(f)
  /\ pc' = "pushed"
  /\ UNCHANGED <<ctx, quit, calling, active, wakeupFd, functors, ran, tpc>>

\* Mutant: line 140 without "|| callingPendingFunctors_".
LoopNeverWakes ==
  /\ pc = "pushed"
  /\ pc' = "callback"
  /\ UNCHANGED <<ctx, quit, calling, active, wakeupFd, pending, functors, ran,
                 posted, tpc>>

\* Line 140 on the loop thread: wakeup() only if callingPendingFunctors_.
LoopWakeupIfCalling ==
  /\ pc = "pushed"
  /\ wakeupFd' = (wakeupFd \/ calling)
  /\ pc' = "callback"
  /\ UNCHANGED <<ctx, quit, calling, active, pending, functors, ran, posted,
                 tpc>>

(***************************************************************************)
(* The other threads.  runInLoop there is queueInLoop.                     *)
(***************************************************************************)
PosterPush(p, f) ==
  /\ tpc[p] = "idle"
  /\ Push(f)
  /\ tpc' = [tpc EXCEPT ![p] = "wakeup"]
  /\ UNCHANGED <<pc, ctx, quit, calling, active, wakeupFd, functors, ran>>

\* Mutant: line 140 reads "&&", so another thread wakes the loop only while it
\* is running functors.
PosterWakesIfCalling(p) ==
  /\ tpc[p] = "wakeup"
  /\ wakeupFd' = (wakeupFd \/ calling)
  /\ tpc' = [tpc EXCEPT ![p] = "idle"]
  /\ UNCHANGED <<pc, ctx, quit, calling, active, pending, functors, ran,
                 posted>>

PosterWakeup(p) ==
  /\ tpc[p] = "wakeup"
  /\ wakeupFd' = TRUE
  /\ tpc' = [tpc EXCEPT ![p] = "idle"]
  /\ UNCHANGED <<pc, ctx, quit, calling, active, pending, functors, ran,
                 posted>>

\* quit() from another thread: lines 104-107 do not call wakeup().
PosterQuit(p) ==
  /\ tpc[p] = "idle"
  /\ quit' = TRUE
  /\ UNCHANGED <<pc, ctx, calling, active, wakeupFd, pending, functors, ran,
                 posted, tpc>>

(***************************************************************************)
(* Next.  The fairness of the loop is stated where its thread is, in       *)
(* module EventLoopThread.                                                 *)
(***************************************************************************)
LoopStep ==
  \/ EnterLoop \/ CheckQuit \/ HandleRead \/ HandleIo
  \/ BeginPending \/ SwapPending \/ RunFunctor \/ EndPending
  \/ CallbackReturns \/ LoopWakeupIfCalling

CallbackStep == QuitInLoop \/ \E f \in Unused : LoopPush(f)

PosterStep ==
  \E p \in Posters :
    \/ PosterWakeup(p)
    \/ PosterQuit(p)
    \/ \E f \in Unused : PosterPush(p, f)

Next ==
  \/ LoopStep
  \/ CallbackStep
  \/ PosterStep
  \/ PollTimeout
  \/ \E ready \in SUBSET {"wakeup", "io"} : PollReturns(ready)

Spec == Init /\ [][Next]_vars

-----------------------------------------------------------------------------
(***************************************************************************)
(* Properties.                                                             *)
(***************************************************************************)

\* Every variable has its type.
TypeOK ==
  /\ pc \in LoopPCs /\ ctx \in {"io", "functor"}
  /\ quit \in BOOLEAN /\ calling \in BOOLEAN /\ wakeupFd \in BOOLEAN
  /\ active \in SUBSET {"wakeup", "io"}
  /\ pending \in Seq(Functors) /\ functors \in Seq(Functors)
  /\ ran \in Seq(Functors) /\ posted \in Seq(Functors)
  /\ tpc \in [Posters -> {"idle", "wakeup"}]

\* The loop thread is between the swap of doPendingFunctors and the next
\* poll: whatever is pushed from here on is not seen before that poll.
PastSwap ==
  \/ pc \in {"start", "check", "poll", "run", "done"}
  \/ pc = "callback" /\ ctx = "functor"

WakeupDue == wakeupFd \/ \E p \in Posters : tpc[p] = "wakeup"

\* The loop thread is in the for loop of doPendingFunctors (lines 199-202).
Running ==
  \/ pc = "run"
  \/ pc \in {"callback", "pushed"} /\ ctx = "functor"

\* callingPendingFunctors_ is exactly "inside doPendingFunctors", the flag
\* that line 140 of EventLoop.cc relies on.
CallingMatchesPc == calling <=> (pc = "swap" \/ Running)

\* The strengthening that makes NoLostWakeup inductive: a functor pushed
\* after the swap has a wakeup on the eventfd, or a thread about to write it.
PendingIsAnnounced == PastSwap /\ pending # <<>> => WakeupDue

\* The loop never blocks in epoll_wait with a queued functor that nobody will
\* wake it for (queueInLoop/wakeup/handleRead/doPendingFunctors).
NoLostWakeup == pc = "poll" /\ pending # <<>> => WakeupDue

\* Functors run in the order they were queued, and each exactly once: what
\* was queued is what ran, then the swapped-out vector, then pendingFunctors_.
RunsInOrder == posted = (ran \o functors) \o pending

\* The inductive invariant proved in EventLoopThreadProofs.
Inv ==
  /\ TypeOK
  /\ CallingMatchesPc
  /\ PendingIsAnnounced
  /\ RunsInOrder
  /\ functors # <<>> => Running

\* A queued functor runs without waiting for I/O or for the poll timeout,
\* unless loop() returns first because someone called quit().
QueuedRuns ==
  \A f \in Functors : f \in Range(pending) ~> (f \in Range(ran) \/ pc = "done")

FQ == INSTANCE FunctorQueue WITH queue <- functors \o pending

\* EventLoop implements the functor queue its header promises.
ImplementsQueue == FQ!FQSpec
=============================================================================
