---------------------------- MODULE FunctorQueue ----------------------------
(***************************************************************************)
(* What EventLoop promises to a thread that calls queueInLoop: a posted    *)
(* functor joins the end of one queue, and the loop thread runs the queue  *)
(* from its head, each functor once.  Locks, the swap of the vector, the   *)
(* eventfd and epoll do not appear.                                        *)
(***************************************************************************)
EXTENDS Sequences

CONSTANT Functors

VARIABLES queue,   \* posted and not yet started, oldest first
          ran      \* started, oldest first

fqVars == <<queue, ran>>

FQInit == queue = <<>> /\ ran = <<>>

Post(f) == queue' = Append(queue, f) /\ UNCHANGED ran

RunHead == /\ queue # <<>>
           /\ ran' = Append(ran, Head(queue))
           /\ queue' = Tail(queue)

FQNext == RunHead \/ \E f \in Functors : Post(f)

FQSpec == FQInit /\ [][FQNext]_fqVars
=============================================================================
