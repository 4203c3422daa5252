------------------------ MODULE EventLoopThreadProofs ------------------------
(***************************************************************************)
(* Proofs about EventLoop and EventLoopThread, for any set of functors and *)
(* any set of threads.  The loop by itself: the inductive invariant Inv,   *)
(* from which NoLostWakeup and RunsInOrder follow, and the refinement of   *)
(* FunctorQueue.  Then the loop with its thread and its owner: it keeps    *)
(* its invariant, so no wakeup is lost; and the destructor and the loop do *)
(* not outlive each other.                                                 *)
(***************************************************************************)
EXTENDS EventLoopThread, SequenceTheorems, TLAPS

(***************************************************************************)
(* Facts about sequences that the steps of the loop rest on.               *)
(***************************************************************************)

\* Running the head of the swapped-out vector moves it to the end of ran.
LEMMA MoveHead ==
  ASSUME NEW S, NEW r \in Seq(S), NEW q \in Seq(S), q # <<>>
  PROVE  /\ Head(q) \in S /\ Tail(q) \in Seq(S)
         /\ Append(r, Head(q)) \in Seq(S)
         /\ Append(r, Head(q)) \o Tail(q) = r \o q
<1>1. Head(q) \in S /\ Tail(q) \in Seq(S)
  BY HeadTailProperties
<1>2. q = <<Head(q)>> \o Tail(q)
  <2>1. <<Head(q)>> \in Seq(S) /\ Len(<<Head(q)>>) = 1
    BY <1>1
  <2>2. <<Head(q)>> \o Tail(q) \in Seq(S)
    BY <1>1, <2>1, ConcatProperties
  <2>3. Len(<<Head(q)>> \o Tail(q)) = Len(q)
    BY <1>1, <2>1, ConcatProperties, HeadTailProperties
  <2>4. \A i \in 1 .. Len(q) : (<<Head(q)>> \o Tail(q))[i] = q[i]
    BY <1>1, <2>1
  <2> QED
    BY <2>2, <2>3, <2>4, SeqEqual
<1>3. Append(r, Head(q)) = r \o <<Head(q)>>
  BY <1>1, AppendIsConcat
<1>4. <<Head(q)>> \in Seq(S)
  BY <1>1
<1>5. (r \o <<Head(q)>>) \o Tail(q) = r \o (<<Head(q)>> \o Tail(q))
  BY <1>1, <1>4, ConcatAssociative
<1> QED
  BY <1>1, <1>2, <1>3, <1>5

\* Pushing on pendingFunctors_ pushes on the whole of what is still to run.
LEMMA ConcatAppend ==
  ASSUME NEW S, NEW r \in Seq(S), NEW q \in Seq(S), NEW e \in S
  PROVE  r \o Append(q, e) = Append(r \o q, e)
<1>1. <<e>> \in Seq(S)
  OBVIOUS
<1>2. Append(q, e) = q \o <<e>>
  BY AppendIsConcat
<1>3. r \o q \in Seq(S)
  BY ConcatProperties
<1>4. Append(r \o q, e) = (r \o q) \o <<e>>
  BY <1>3, AppendIsConcat
<1> QED
  BY <1>1, <1>2, <1>4, ConcatAssociative

(***************************************************************************)
(* The inductive invariant.                                                *)
(***************************************************************************)

\* The constructor establishes the invariant.
LEMMA InitInv == Init => Inv
<1> SUFFICES ASSUME Init PROVE Inv
  OBVIOUS
<1>1. TypeOK
  <2>1. tpc \in [Posters -> {"idle", "wakeup"}]
    BY DEF Init
  <2>2. <<>> \in Seq(Functors)
    OBVIOUS
  <2> QED
    BY <2>1, <2>2 DEF Init, TypeOK, LoopPCs
<1>2. CallingMatchesPc /\ PendingIsAnnounced /\ (functors # <<>> => Running)
  BY DEF Init, CallingMatchesPc, PendingIsAnnounced, Running
<1>3. RunsInOrder
  <2>1. <<>> \in Seq(Functors)
    OBVIOUS
  <2> QED
    BY <2>1, ConcatEmptySeq DEF Init, RunsInOrder
<1> QED
  BY <1>1, <1>2, <1>3 DEF Inv

\* No step of the loop thread, of a callback or of another thread breaks it.
LEMMA NextInv == Inv /\ [Next]_vars => Inv'
<1> SUFFICES ASSUME Inv, [Next]_vars PROVE Inv'
  OBVIOUS
<1> USE DEF Inv
<1>1. CASE EnterLoop
  BY <1>1 DEF EnterLoop, TypeOK, LoopPCs, CallingMatchesPc, PendingIsAnnounced,
     PastSwap, WakeupDue, Running, RunsInOrder
<1>2. CASE CheckQuit
  BY <1>2 DEF CheckQuit, TypeOK, LoopPCs, CallingMatchesPc, PendingIsAnnounced,
     PastSwap, WakeupDue, Running, RunsInOrder
<1>3. CASE PollTimeout
  BY <1>3 DEF PollTimeout, TypeOK, LoopPCs, CallingMatchesPc, PendingIsAnnounced,
     PastSwap, WakeupDue, Running, RunsInOrder
<1>4. CASE HandleRead
  BY <1>4 DEF HandleRead, TypeOK, LoopPCs, CallingMatchesPc, PendingIsAnnounced,
     PastSwap, WakeupDue, Running, RunsInOrder
<1>5. CASE HandleIo
  BY <1>5 DEF HandleIo, TypeOK, LoopPCs, CallingMatchesPc, PendingIsAnnounced,
     PastSwap, WakeupDue, Running, RunsInOrder
<1>6. CASE BeginPending
  BY <1>6 DEF BeginPending, TypeOK, LoopPCs, CallingMatchesPc, PendingIsAnnounced,
     PastSwap, WakeupDue, Running, RunsInOrder
<1>7. CASE EndPending
  BY <1>7 DEF EndPending, TypeOK, LoopPCs, CallingMatchesPc, PendingIsAnnounced,
     PastSwap, WakeupDue, Running, RunsInOrder
<1>8. CASE CallbackReturns
  BY <1>8 DEF CallbackReturns, TypeOK, LoopPCs, CallingMatchesPc, PendingIsAnnounced,
     PastSwap, WakeupDue, Running, RunsInOrder
<1>9. CASE QuitInLoop
  BY <1>9 DEF QuitInLoop, TypeOK, LoopPCs, CallingMatchesPc, PendingIsAnnounced,
     PastSwap, WakeupDue, Running, RunsInOrder
<1>10. CASE LoopWakeupIfCalling
  BY <1>10 DEF LoopWakeupIfCalling, TypeOK, LoopPCs, CallingMatchesPc, PendingIsAnnounced,
     PastSwap, WakeupDue, Running, RunsInOrder
<1>11. ASSUME NEW ready \in SUBSET {"wakeup", "io"}, PollReturns(ready)
      PROVE  Inv'
  BY <1>11 DEF PollReturns, TypeOK, LoopPCs, CallingMatchesPc, PendingIsAnnounced,
     PastSwap, WakeupDue, Running, RunsInOrder
<1>12. ASSUME NEW p \in Posters, PosterWakeup(p)
      PROVE  Inv'
  BY <1>12 DEF PosterWakeup, TypeOK, LoopPCs, CallingMatchesPc, PendingIsAnnounced,
     PastSwap, WakeupDue, Running, RunsInOrder
<1>13. ASSUME NEW p \in Posters, PosterQuit(p)
      PROVE  Inv'
  BY <1>13 DEF PosterQuit, TypeOK, LoopPCs, CallingMatchesPc, PendingIsAnnounced,
     PastSwap, WakeupDue, Running, RunsInOrder
<1>14. CASE SwapPending
  <2>1. functors = <<>>
    BY <1>14 DEF SwapPending, Running
  <2>2. functors' \o pending' = functors \o pending
    BY <1>14, <2>1, ConcatEmptySeq DEF SwapPending, TypeOK
  <2>3. RunsInOrder'
    BY <1>14, <2>1, <2>2, ConcatAssociative, ConcatEmptySeq
    DEF SwapPending, RunsInOrder, TypeOK
  <2> QED
    BY <1>14, <2>3 DEF SwapPending, TypeOK, LoopPCs, CallingMatchesPc,
       PendingIsAnnounced, PastSwap, Running
<1>15. CASE RunFunctor
  <2>1. /\ Tail(functors) \in Seq(Functors)
        /\ Append(ran, Head(functors)) \in Seq(Functors)
        /\ Append(ran, Head(functors)) \o Tail(functors) = ran \o functors
    BY <1>15, MoveHead DEF RunFunctor, TypeOK
  <2>2. RunsInOrder'
    BY <1>15, <2>1 DEF RunFunctor, RunsInOrder
  <2> QED
    BY <1>15, <2>1, <2>2 DEF RunFunctor, TypeOK, LoopPCs, CallingMatchesPc,
       PendingIsAnnounced, PastSwap, WakeupDue, Running
<1>16. ASSUME NEW f \in Functors, Push(f), ran' = ran, functors' = functors
      PROVE  /\ RunsInOrder'
             /\ pending' \in Seq(Functors) /\ posted' \in Seq(Functors)
  <2>1. ran \o functors \in Seq(Functors)
    BY ConcatProperties DEF TypeOK
  <2>2. (ran \o functors) \o Append(pending, f)
          = Append((ran \o functors) \o pending, f)
    <3>1. pending \in Seq(Functors)
      BY DEF TypeOK
    <3> PICK r : r = ran \o functors
      OBVIOUS
    <3> PICK q : q = pending
      OBVIOUS
    <3>2. r \in Seq(Functors) /\ q \in Seq(Functors)
      BY <2>1, <3>1
    <3>3. r \o Append(q, f) = Append(r \o q, f)
      BY <3>2, ConcatAppend
    <3> QED
      BY <3>3
  <2> QED
    BY <1>16, <2>2 DEF Push, RunsInOrder, TypeOK
<1>17. ASSUME NEW f \in Functors, LoopPush(f)
      PROVE  Inv'
  BY <1>17, <1>16 DEF LoopPush, TypeOK, LoopPCs, CallingMatchesPc,
     PendingIsAnnounced, PastSwap, Running
<1>18. ASSUME NEW p \in Posters, NEW f \in Functors, PosterPush(p, f)
      PROVE  Inv'
  <2>1. tpc'[p] = "wakeup" /\ tpc' \in [Posters -> {"idle", "wakeup"}]
    BY <1>18 DEF PosterPush, TypeOK
  <2> QED
    BY <1>18, <1>16, <2>1 DEF PosterPush, TypeOK, CallingMatchesPc,
       PendingIsAnnounced, WakeupDue, Running
<1>19. CASE UNCHANGED vars
  BY <1>19 DEF vars, TypeOK, CallingMatchesPc, PendingIsAnnounced, PastSwap,
     WakeupDue, Running, RunsInOrder
<1> QED
  BY <1>1, <1>2, <1>3, <1>4, <1>5, <1>6, <1>7, <1>8, <1>9, <1>10, <1>11, <1>12, <1>13, <1>14, <1>15, <1>17, <1>18, <1>19
  DEF Next, LoopStep, CallbackStep, PosterStep, Unused

\* Spec keeps the inductive invariant, hence the types of all variables.
THEOREM InvHolds == Spec => []Inv
BY InitInv, NextInv, PTL DEF Spec

\* The loop never blocks in epoll_wait on a queued functor without a wakeup on
\* the eventfd or a thread that is about to write it, however the threads
\* interleave (queueInLoop, wakeup, handleRead, doPendingFunctors).
THEOREM NoLostWakeupHolds == Spec => []NoLostWakeup
<1>1. Inv => NoLostWakeup
  BY DEF Inv, NoLostWakeup, PendingIsAnnounced, PastSwap
<1> QED
  BY <1>1, InvHolds, PTL

\* Queued functors run in queue order and exactly once.
THEOREM RunsInOrderHolds == Spec => []RunsInOrder
<1>1. Inv => RunsInOrder
  BY DEF Inv
<1> QED
  BY <1>1, InvHolds, PTL

(***************************************************************************)
(* EventLoop implements FunctorQueue: queueInLoop's push is Post, the      *)
(* start of a functor is RunHead, every other step is a stutter.           *)
(***************************************************************************)

\* A push appends to the abstract queue.
LEMMA PushIsPost ==
  ASSUME TypeOK, NEW f \in Functors, Push(f), ran' = ran, functors' = functors
  PROVE  FQ!Post(f)
<1>1. functors \o Append(pending, f) = Append(functors \o pending, f)
  BY ConcatAppend DEF TypeOK
<1> QED
  BY <1>1 DEF FQ!Post, Push

\* Starting the head of the swapped-out vector takes the abstract head.
LEMMA RunFunctorIsRunHead ==
  ASSUME TypeOK, RunFunctor
  PROVE  FQ!RunHead
<1>1. functors \in Seq(Functors) /\ functors # <<>> /\ pending \in Seq(Functors)
  BY DEF TypeOK, RunFunctor
<1> DEFINE q == functors \o pending
<1>2. q \in Seq(Functors) /\ Len(q) = Len(functors) + Len(pending) /\ q # <<>>
  BY <1>1, ConcatProperties, ConcatEqualIffEmpty
<1>3. Head(q) = Head(functors)
  BY <1>1, <1>2, ConcatProperties, HeadTailProperties
<1>4. Tail(q) = Tail(functors) \o pending
  <2>1. Tail(functors) \in Seq(Functors) /\ Len(Tail(functors)) = Len(functors) - 1
    BY <1>1, HeadTailProperties
  <2>2. Tail(q) \in Seq(Functors) /\ Len(Tail(q)) = Len(q) - 1
    BY <1>2, HeadTailProperties
  <2>3. /\ Tail(functors) \o pending \in Seq(Functors)
        /\ Len(Tail(functors) \o pending) = Len(q) - 1
    BY <1>1, <1>2, <2>1, ConcatProperties
  <2>4. ASSUME NEW i \in 1 .. Len(q) - 1
        PROVE  Tail(q)[i] = (Tail(functors) \o pending)[i]
    <3>1. Tail(q)[i] = q[i + 1]
      BY <1>2, <2>2
    <3>2. q[i + 1] = IF i + 1 <= Len(functors) THEN functors[i + 1]
                                            ELSE pending[i + 1 - Len(functors)]
      BY <1>1, <1>2
    <3>3. (Tail(functors) \o pending)[i]
            = IF i <= Len(functors) - 1 THEN Tail(functors)[i]
                                        ELSE pending[i - (Len(functors) - 1)]
      BY <1>1, <1>2, <2>1
    <3>4. i <= Len(functors) - 1 => Tail(functors)[i] = functors[i + 1]
      BY <1>1, <2>1
    <3> QED
      BY <1>1, <3>1, <3>2, <3>3, <3>4, LenProperties
  <2> QED
    BY <2>2, <2>3, <2>4, <1>2, SeqEqual
<1> QED
  BY <1>2, <1>3, <1>4 DEF RunFunctor, FQ!RunHead

\* Every step of the loop is a step of the queue or leaves it unchanged.
LEMMA StepRefines == Inv /\ [Next]_vars => [FQ!FQNext]_(FQ!fqVars)
<1> SUFFICES ASSUME Inv, [Next]_vars PROVE [FQ!FQNext]_(FQ!fqVars)
  OBVIOUS
<1>1. ASSUME NEW f \in Functors, Push(f), ran' = ran, functors' = functors
      PROVE  FQ!FQNext
  BY <1>1, PushIsPost DEF Inv, FQ!FQNext
<1>2. CASE RunFunctor
  BY <1>2, RunFunctorIsRunHead DEF Inv, FQ!FQNext
<1>3. CASE SwapPending
  <2>1. functors = <<>>
    BY <1>3 DEF Inv, SwapPending, Running
  <2>2. functors' \o pending' = functors \o pending
    BY <1>3, <2>1, ConcatEmptySeq DEF Inv, SwapPending, TypeOK
  <2> QED
    BY <1>3, <2>2 DEF SwapPending, FQ!fqVars
<1>4. CASE UNCHANGED <<ran, functors, pending>>
  BY <1>4 DEF FQ!fqVars
<1>5. CASE CallbackStep
  BY <1>1, <1>4, <1>5 DEF CallbackStep, QuitInLoop, LoopPush, Unused
<1>6. CASE PosterStep
  BY <1>1, <1>4, <1>6 DEF PosterStep, PosterWakeup, PosterQuit, PosterPush, Unused
<1>7. CASE LoopStep
  BY <1>2, <1>3, <1>4, <1>7 DEF LoopStep, EnterLoop, CheckQuit, HandleRead,
     HandleIo, BeginPending, EndPending, CallbackReturns, LoopWakeupIfCalling
<1> QED
  BY <1>4, <1>5, <1>6, <1>7 DEF Next, PollTimeout, PollReturns, vars

\* EventLoop is a FIFO executor: every behaviour of the two vectors, the lock
\* and the eventfd is one of FunctorQueue.
THEOREM Refinement == Spec => ImplementsQueue
<1>1. Init => FQ!FQInit
  <2>1. <<>> \in Seq(Functors)
    OBVIOUS
  <2> QED
    BY <2>1, ConcatEmptySeq DEF Init, FQ!FQInit
<1> QED
  BY <1>1, StepRefines, InvHolds, PTL DEF Spec, ImplementsQueue, FQ!FQSpec

(***************************************************************************)
(* The loop with its thread and its owner.                                 *)
(***************************************************************************)

\* A step of the thread, the owner or a user is a step of the loop, leaves the
\* loop alone, or is the destructor's quit(), which sets quit_ only.
LEMMA ThreadStepOfLoop ==
  ASSUME [ThreadNext]_allVars
  PROVE  [Next]_vars \/ DestructorQuits
<1>1. CASE UNCHANGED vars
  BY <1>1
<1>2. CASE OwnerStep
  BY <1>1, <1>2 DEF OwnerStep, TestLoop, DestructorJoins
<1>3. CASE ThreadStep
  BY <1>1, <1>3 DEF ThreadStep, PublishLoop, ClearLoop, ThreadExits
<1>4. CASE StartThread \/ SpuriousWakeup \/ BeginDestructor \/ UserFindsDead
  BY <1>1, <1>4 DEF StartThread, SpuriousWakeup, BeginDestructor, UserFindsDead
<1>5. CASE LoopRuns \/ LoopQuits
  BY <1>5 DEF LoopRuns, LoopQuits, Next, CallbackStep
<1>6. CASE UserPosts \/ UserQuits
  BY <1>6 DEF UserPosts, UserQuits, Next, PosterStep
<1>7. CASE UNCHANGED allVars
  BY <1>1, <1>7 DEF allVars
<1> QED
  BY <1>2, <1>3, <1>4, <1>5, <1>6, <1>7 DEF ThreadNext

\* The loop of an EventLoopThread keeps the invariant of EventLoop.
THEOREM LoopInvHolds == ThreadSpec => []Inv
<1>1. ThreadInit => Inv
  BY InitInv DEF ThreadInit
<1>2. Inv /\ [ThreadNext]_allVars => Inv'
  <2> SUFFICES ASSUME Inv, [ThreadNext]_allVars PROVE Inv'
    OBVIOUS
  <2>1. CASE DestructorQuits
    BY <2>1 DEF DestructorQuits, Inv, TypeOK, CallingMatchesPc,
       PendingIsAnnounced, PastSwap, WakeupDue, Running, RunsInOrder
  <2> QED
    BY <2>1, NextInv, ThreadStepOfLoop
<1> QED
  BY <1>1, <1>2, PTL DEF ThreadSpec

\* EventLoop.cc:126-146, 183-205: no wakeup is lost either while the thread that
\* owns the loop's thread starts, quits and joins it.
THEOREM NoLostWakeupInThread == ThreadSpec => []NoLostWakeup
<1>1. Inv => NoLostWakeup
  BY DEF Inv, NoLostWakeup, PendingIsAnnounced, PastSwap
<1> QED
  BY <1>1, LoopInvHolds, PTL

\* EventLoop.cc:126-146, 183-205: the loop of an EventLoopThread runs what is
\* queued once and in order, as FunctorQueue does, quit and join included.
THEOREM RefinementInThread == ThreadSpec => ImplementsQueue
<1>1. ThreadInit => FQ!FQInit
  <2>1. <<>> \in Seq(Functors)
    OBVIOUS
  <2> QED
    BY <2>1, ConcatEmptySeq DEF ThreadInit, Init, FQ!FQInit
<1>2. Inv /\ [ThreadNext]_allVars => [FQ!FQNext]_(FQ!fqVars)
  <2> SUFFICES ASSUME Inv, [ThreadNext]_allVars PROVE [FQ!FQNext]_(FQ!fqVars)
    OBVIOUS
  <2>1. CASE DestructorQuits
    BY <2>1 DEF DestructorQuits, FQ!fqVars
  <2> QED
    BY <2>1, StepRefines, ThreadStepOfLoop
<1> QED
  BY <1>1, <1>2, LoopInvHolds, PTL DEF ThreadSpec, ImplementsQueue, FQ!FQSpec

(***************************************************************************)
(* The inductive invariant of the thread and its owner.                    *)
(***************************************************************************)

\* What a step of the loop, or of a user of it, leaves of the invariant: loop()
\* returns only when quit_ is set, and only line 68 clears quit_.
LEMMA LoopStepQuits ==
  ASSUME TypeOK, [Next]_vars, pc = "done" => quit
  PROVE  /\ pc' = "done" => quit'
         /\ pc = "done" => pc' = "done"
<1>1. CASE LoopStep
  BY <1>1 DEF LoopStep, EnterLoop, CheckQuit, HandleRead, HandleIo, BeginPending,
     SwapPending, RunFunctor, EndPending, CallbackReturns, LoopWakeupIfCalling
<1>2. CASE CallbackStep
  BY <1>2 DEF CallbackStep, QuitInLoop, LoopPush
<1>3. CASE PosterStep
  BY <1>3 DEF PosterStep, PosterWakeup, PosterQuit, PosterPush
<1>4. CASE UNCHANGED vars
  BY <1>4 DEF vars
<1> QED
  BY <1>1, <1>2, <1>3, <1>4 DEF Next, PollTimeout, PollReturns

\* Only quit() sets quit_.
LEMMA LoopRunsKeepsQuit ==
  ASSUME LoopRuns \/ UserPosts
  PROVE  quit' => quit
<1>1. CASE LoopRuns
  BY <1>1 DEF LoopRuns, LoopStep, EnterLoop, CheckQuit, HandleRead, HandleIo,
     BeginPending, SwapPending, RunFunctor, EndPending, CallbackReturns,
     LoopWakeupIfCalling, PollTimeout, PollReturns, LoopPush
<1>2. CASE UserPosts
  BY <1>2 DEF UserPosts, PosterWakeup, PosterPush
<1> QED
  BY <1>1, <1>2

\* No step of the owner, the thread, the loop or a user breaks the invariant.
LEMMA ThreadNextInv ==
  ASSUME TypeOK, ThreadInv, [ThreadNext]_allVars
  PROVE  ThreadInv'
<1> USE DEF ThreadInv, ThreadTypeOK, NoDeadLoop, OwnerPCs, ThreadPCs
<1>1. CASE StartThread
  BY <1>1 DEF StartThread, vars
<1>2. CASE TestLoop
  BY <1>2 DEF TestLoop, vars
<1>3. CASE SpuriousWakeup
  BY <1>3 DEF SpuriousWakeup, vars
<1>4. CASE PublishLoop
  BY <1>4 DEF PublishLoop, vars
<1>5. CASE ClearLoop
  BY <1>5 DEF ClearLoop, vars
<1>6. CASE ThreadExits
  BY <1>6 DEF ThreadExits, vars
<1>7. CASE BeginDestructor
  BY <1>7 DEF BeginDestructor, vars
<1>8. CASE DestructorQuits
  BY <1>8 DEF DestructorQuits
<1>9. CASE DestructorJoins
  BY <1>9 DEF DestructorJoins, vars
<1>10. CASE UserFindsDead
  BY <1>10 DEF UserFindsDead, vars, Alive
<1>11. CASE LoopRuns \/ UserPosts
  <2>1. [Next]_vars /\ UNCHANGED threadVars
    BY <1>11 DEF LoopRuns, UserPosts, Next, CallbackStep, PosterStep
  <2>2. (pc' = "done" => quit') /\ (pc = "done" => pc' = "done")
    BY <2>1, LoopStepQuits
  <2> QED
    BY <1>11, <2>1, <2>2, LoopRunsKeepsQuit DEF threadVars
<1>12. CASE LoopQuits \/ UserQuits
  <2>1. [Next]_vars
    BY <1>12 DEF LoopQuits, UserQuits, Next, CallbackStep, PosterStep
  <2>2. (pc' = "done" => quit') /\ (pc = "done" => pc' = "done")
    BY <2>1, LoopStepQuits
  <2>3. UNCHANGED <<owner, thread, loopPtr, dead>> /\ selfQuit' = TRUE
    BY <1>12 DEF LoopQuits, UserQuits
  <2> QED
    BY <2>2, <2>3
<1>13. CASE UNCHANGED allVars
  BY <1>13 DEF allVars, vars, threadVars
<1> QED
  BY <1>1, <1>2, <1>3, <1>4, <1>5, <1>6, <1>7, <1>8, <1>9, <1>10, <1>11, <1>12, <1>13
  DEF ThreadNext, OwnerStep, ThreadStep

\* EventLoopThread.cc:15-30, 67-72: the thread and its owner keep the invariant.
THEOREM ThreadInvHolds == ThreadSpec => []ThreadInv
<1>1. ThreadInit => ThreadInv
  BY DEF ThreadInit, Init, ThreadInv, ThreadTypeOK, NoDeadLoop, OwnerPCs, ThreadPCs
<1>2. ThreadInv /\ Inv /\ [ThreadNext]_allVars => ThreadInv'
  BY ThreadNextInv DEF Inv
<1> QED
  BY <1>1, <1>2, LoopInvHolds, PTL DEF ThreadSpec

\* EventLoopThread.cc:15-30, 67-72: unless somebody else has told the loop to
\* quit, neither the loop nor the EventLoopThread is used after its end, and
\* startLoop gives away the address of a published loop only.
THEOREM NoDeadLoopHolds == ThreadSpec => []NoDeadLoop
<1>1. ThreadInv => NoDeadLoop
  BY DEF ThreadInv
<1> QED
  BY <1>1, ThreadInvHolds, PTL
=============================================================================
