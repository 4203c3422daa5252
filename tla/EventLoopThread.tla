--------------------------- MODULE EventLoopThread ---------------------------
(***************************************************************************)
(* An EventLoopThread (src/net/EventLoopThread.cc, src/base/Thread.cc)     *)
(* around the EventLoop of its thread: startLoop, which waits for the new  *)
(* thread to publish the address of its loop; threadFunc, which keeps the  *)
(* loop on its stack; and the destructor, which quits the loop and joins.  *)
(*                                                                         *)
(* The loop itself, and what the threads that were given its address do to *)
(* it, is module EventLoop.  Those threads stop using the loop before its  *)
(* owner destroys the EventLoopThread.                                     *)
(***************************************************************************)
EXTENDS EventLoop

VARIABLES
  owner,     \* the thread that has the EventLoopThread (see OwnerPCs)
  thread,    \* the thread that runs threadFunc (see ThreadPCs)
  loopPtr,   \* loop_ is not null
  selfQuit,  \* history: the loop was told to quit, not by the destructor
  dead       \* history: the loop was used after its end, or the
             \* EventLoopThread by its thread after the destructor

threadVars == <<owner, thread, loopPtr, selfQuit, dead>>
allVars == <<vars, threadVars>>

OwnerPCs == {"new",       \* constructed
             "locked",    \* in startLoop, about to test loop_
             "waiting",   \* in cond_.wait
             "has",       \* startLoop has returned the address
             "quitting",  \* in the destructor, loop_ was not null
             "joining",   \* in thread_.join()
             "gone"}      \* destroyed

ThreadPCs == {"none",     \* not started
              "init",     \* EventLoop constructed, in callback_
              "loop",     \* published, in loop.loop()
              "unlock",   \* loop_ is null again, mutex_ still held
              "exited"}   \* its stack, with the loop, is gone

ThreadInit ==
  /\ Init
  /\ owner = "new" /\ thread = "none" /\ loopPtr = FALSE
  /\ selfQuit = FALSE /\ dead = FALSE

(***************************************************************************)
(* startLoop: Thread::start, which returns when the thread runs, then the  *)
(* wait for loop_.                                                         *)
(***************************************************************************)
StartThread ==
  /\ owner = "new"
  /\ owner' = "locked" /\ thread' = "init"
  /\ UNCHANGED <<vars, loopPtr, selfQuit, dead>>

TestLoop ==
  /\ owner = "locked"
  /\ owner' = IF loopPtr THEN "has" ELSE "waiting"
  /\ UNCHANGED <<vars, thread, loopPtr, selfQuit, dead>>

SpuriousWakeup ==
  /\ owner = "waiting"
  /\ owner' = "locked"
  /\ UNCHANGED <<vars, thread, loopPtr, selfQuit, dead>>

(***************************************************************************)
(* threadFunc: publish the loop, run it, and take its address back.        *)
(***************************************************************************)
\* Mutant: the owner that waits for loop_ is not notified.
PublishSilently ==
  /\ thread = "init"
  /\ thread' = "loop" /\ loopPtr' = TRUE
  /\ UNCHANGED <<vars, owner, selfQuit, dead>>

PublishLoop ==
  /\ thread = "init"
  /\ thread' = "loop" /\ loopPtr' = TRUE
  /\ owner' = IF owner = "waiting" THEN "locked" ELSE owner
  /\ UNCHANGED <<vars, selfQuit, dead>>

ClearLoop ==
  /\ thread = "loop" /\ pc = "done"
  /\ thread' = "unlock" /\ loopPtr' = FALSE
  /\ UNCHANGED <<vars, owner, selfQuit, dead>>

\* The lock, then the loop, are destroyed at the end of threadFunc.
ThreadExits ==
  /\ thread = "unlock"
  /\ thread' = "exited"
  /\ dead' = (dead \/ owner = "gone")
  /\ UNCHANGED <<vars, owner, loopPtr, selfQuit>>

(***************************************************************************)
(* The destructor.  It reads loop_ without the lock; with a null loop_ it  *)
(* does not join, and ~Thread detaches a thread that was started.  Nothing  *)
(* promises that the join returns: quit() does not wake a loop in its poll *)
(* (EventLoop.cc:104), and one that comes before line 68 of loop() is lost. *)
(***************************************************************************)
BeginDestructor ==
  /\ owner \in {"new", "has"}
  /\ \A p \in Posters : tpc[p] = "idle"
  /\ owner' = IF loopPtr THEN "quitting" ELSE "gone"
  /\ UNCHANGED <<vars, thread, loopPtr, selfQuit, dead>>

\* quit(), as another thread than the loop's calls it.
DestructorQuits ==
  /\ owner = "quitting"
  /\ quit' = TRUE
  /\ dead' = (dead \/ thread = "exited" \/ ~loopPtr)
  /\ owner' = "joining"
  /\ UNCHANGED <<pc, ctx, calling, active, wakeupFd, pending, functors, ran,
                 posted, tpc, thread, loopPtr, selfQuit>>

\* Mutant: the destructor does not wait for the thread.
DestructorDetaches ==
  /\ owner = "joining"
  /\ owner' = "gone"
  /\ UNCHANGED <<vars, thread, loopPtr, selfQuit, dead>>

DestructorJoins ==
  /\ owner = "joining" /\ thread = "exited"
  /\ owner' = "gone"
  /\ UNCHANGED <<vars, thread, loopPtr, selfQuit, dead>>

(***************************************************************************)
(* The loop, while threadFunc is in loop(), and its users, while the owner *)
(* has the EventLoopThread.  The pointer that startLoop gave them is not   *)
(* taken back when the loop ends.                                          *)
(***************************************************************************)
LoopRuns ==
  /\ thread = "loop"
  /\ \/ LoopStep \/ PollTimeout
     \/ \E ready \in SUBSET {"wakeup", "io"} : PollReturns(ready)
     \/ \E f \in Unused : LoopPush(f)
  /\ UNCHANGED threadVars

LoopQuits ==
  /\ thread = "loop" /\ QuitInLoop
  /\ selfQuit' = TRUE
  /\ UNCHANGED <<owner, thread, loopPtr, dead>>

Alive == thread \in {"loop", "unlock"}

UserPosts ==
  /\ owner = "has" /\ Alive
  /\ \E p \in Posters : PosterWakeup(p) \/ \E f \in Unused : PosterPush(p, f)
  /\ UNCHANGED threadVars

UserQuits ==
  /\ owner = "has" /\ Alive
  /\ \E p \in Posters : PosterQuit(p)
  /\ selfQuit' = TRUE
  /\ UNCHANGED <<owner, thread, loopPtr, dead>>

\* A user of the loop after the end of its thread's stack.
UserFindsDead ==
  /\ owner = "has" /\ ~Alive
  /\ dead' = TRUE
  /\ UNCHANGED <<vars, owner, thread, loopPtr, selfQuit>>

OwnerStep == TestLoop \/ DestructorQuits \/ DestructorJoins
ThreadStep == PublishLoop \/ ClearLoop \/ ThreadExits

ThreadNext ==
  \/ StartThread \/ SpuriousWakeup \/ BeginDestructor \/ OwnerStep
  \/ ThreadStep \/ LoopRuns \/ LoopQuits
  \/ UserPosts \/ UserQuits \/ UserFindsDead

ThreadSpec == ThreadInit /\ [][ThreadNext]_allVars

\* Both threads run; a callback that does not block returns, and a user that has
\* pushed goes on to wakeup().  Neither the poll timeout nor I/O is assumed ever
\* to happen, and nothing makes the owner start or destroy anything.
ThreadFairness ==
  /\ WF_allVars(OwnerStep) /\ WF_allVars(ThreadStep)
  /\ WF_allVars(thread = "loop" /\ LoopStep /\ UNCHANGED threadVars)
  /\ WF_allVars(/\ thread = "loop" /\ wakeupFd /\ UNCHANGED threadVars
                /\ \E r \in SUBSET {"wakeup", "io"} : PollReturns(r))
  /\ \A p \in Posters :
       WF_allVars(owner = "has" /\ Alive /\ PosterWakeup(p) /\ UNCHANGED threadVars)

ThreadFairSpec == ThreadSpec /\ ThreadFairness

-----------------------------------------------------------------------------
(***************************************************************************)
(* Properties.                                                             *)
(***************************************************************************)

\* Every variable of this module has its type.
ThreadTypeOK ==
  /\ owner \in OwnerPCs /\ thread \in ThreadPCs
  /\ loopPtr \in BOOLEAN /\ selfQuit \in BOOLEAN /\ dead \in BOOLEAN

\* EventLoopThread.cc:15-30 and 67-72: as long as only the destructor tells the
\* loop to quit, neither the loop nor the EventLoopThread is used after its
\* end, although loop_ is read without the lock and its address is given away;
\* and who has the address has that of a loop that was published.
NoDeadLoop ==
  /\ dead => selfQuit
  /\ owner = "has" => thread \notin {"none", "init"}

\* The strengthening that makes NoDeadLoop inductive: where the owner can be for
\* each place of the thread, loop() returns only if quit_ is set, and quit_ was
\* set by somebody else or the destructor has got as far as the join.
ThreadInv ==
  /\ ThreadTypeOK
  /\ NoDeadLoop
  /\ loopPtr <=> thread = "loop"
  /\ owner = "new" => thread = "none"
  /\ owner = "quitting" => thread \notin {"none", "init"}
  /\ thread \in {"unlock", "exited"} => pc = "done"
  /\ pc = "done" => quit
  /\ quit => selfQuit \/ owner \in {"joining", "gone"}
  /\ owner = "gone" => selfQuit \/ thread \in {"none", "exited"}

\* EventLoopThread.cc:32-48 and 60-64: startLoop returns, whether the thread
\* publishes its loop before or after the owner has begun to wait.
\* (A loop that ends before the owner looks leaves loop_ null for good.)
StartLoopReturns ==
  owner = "locked" ~> (owner = "has" \/ selfQuit)
=============================================================================
