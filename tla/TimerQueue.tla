----------------------------- MODULE TimerQueue ------------------------------
(***************************************************************************)
(* The timers of one event loop (src/timer/TimerQueue.cc, Timer.cc): a set *)
(* ordered by wall-clock time of expiration, and one timerfd, which runs   *)
(* on the monotonic clock and is armed for the first of them.              *)
(*                                                                         *)
(* Times are relative to the wall clock's now.  A timer that is overdue is *)
(* so by an unknown amount.  Expired timers run in any order.              *)
(***************************************************************************)
EXTENDS Integers

CONSTANTS Timers,
          Interval,    \* Interval[t]: 0 for a timer that runs once
          MaxDelay     \* bound on the delay a timer is added with

ASSUME TimersAssumption ==
  Interval \in [Timers -> Nat] /\ MaxDelay \in Nat

Overdue == -1
Disarmed == -1

VARIABLES
  place,     \* place[t]: "new", "posted" (addTimerInLoop is queued), "set"
             \* (in timers_), "expired", "ran" (both in the list of
             \* handleRead), "freed"
  due,       \* due[t]: its expiration_ less now, or Overdue
  arm,       \* ticks until the timerfd fires, 0 once it has, or Disarmed
  reported,  \* the poll has returned the timerfd's channel
  pc,        \* "idle", or "calling" in handleRead
  clock      \* history: "steady", or the wall clock has been set "forward" or
             \* at least once "back"

vars == <<place, due, arm, reported, pc, clock>>

In(p) == {t \in Timers : place[t] = p}
Handling == In("expired") \union In("ran")

Init ==
  /\ place = [t \in Timers |-> "new"] /\ due = [t \in Timers |-> 0]
  /\ arm = Disarmed /\ reported = FALSE /\ pc = "idle" /\ clock = "steady"

\* resetTimerfd: at least 100 microseconds; what has fired is forgotten.
TicksTo(d) == IF d < 1 THEN 1 ELSE d

\* Mutant: the timerfd is armed for the first timer only.
InsertArmsIfEmpty(t, d) ==
  /\ place' = [place EXCEPT ![t] = "set"]
  /\ arm' = IF In("set") = {} THEN TicksTo(d) ELSE arm

\* addTimerInLoop and insert: the timerfd is armed again if the timer is now
\* the first.  Of two that are overdue either may be.
Insert(t, d) ==
  /\ place' = [place EXCEPT ![t] = "set"]
  /\ \/ /\ \A u \in In("set") : d < due[u] \/ d = Overdue
        /\ arm' = TicksTo(d)
     \/ /\ \E u \in In("set") : due[u] <= d
        /\ arm' = arm

\* addTimer called on the loop's thread, from any callback.
AddHere(t, d) ==
  /\ place[t] = "new"
  /\ due' = [due EXCEPT ![t] = d]
  /\ Insert(t, d)
  /\ UNCHANGED <<reported, pc, clock>>

\* addTimer called by another thread, and the functor it queues.
AddElsewhere(t, d) ==
  /\ place[t] = "new"
  /\ place' = [place EXCEPT ![t] = "posted"]
  /\ due' = [due EXCEPT ![t] = d]
  /\ UNCHANGED <<arm, reported, pc, clock>>

AddTimerInLoop(t) ==
  /\ pc = "idle" /\ ~reported /\ place[t] = "posted"
  /\ Insert(t, due[t])
  /\ UNCHANGED <<due, reported, pc, clock>>

Poll ==
  /\ pc = "idle" /\ ~reported /\ arm = 0
  /\ reported' = TRUE
  /\ UNCHANGED <<place, due, arm, pc, clock>>

\* handleRead: the read empties the timerfd, or fails if it has been armed
\* again since the poll; getExpired takes what is due.
HandleRead ==
  /\ pc = "idle" /\ reported
  /\ reported' = FALSE /\ pc' = "calling"
  /\ arm' = IF arm = 0 THEN Disarmed ELSE arm
  /\ place' = [t \in Timers |->
                 IF place[t] = "set" /\ due[t] <= 0 THEN "expired" ELSE place[t]]
  /\ UNCHANGED <<due, clock>>

RunTimer(t) ==
  /\ pc = "calling" /\ place[t] = "expired"
  /\ place' = [place EXCEPT ![t] = "ran"]
  /\ UNCHANGED <<due, arm, reported, pc, clock>>

\* Mutant: resetTimerfd only for a timer that has been inserted again.
RearmForRepeated ==
  IF \E t \in In("ran") : Interval[t] > 0
    THEN \E t \in Timers :
           /\ place'[t] = "set"
           /\ \A u \in Timers : place'[u] = "set" => due'[t] <= due'[u]
           /\ arm' = TicksTo(due'[t])
    ELSE arm' = arm

\* The end of reset: nothing unless a timer had expired; then the timerfd is
\* armed for the first timer, if there is one.
Rearm ==
  IF In("ran") # {} /\ \E t \in Timers : place'[t] = "set"
    THEN \E t \in Timers :
           /\ place'[t] = "set"
           /\ \A u \in Timers : place'[u] = "set" => due'[t] <= due'[u]
           /\ arm' = TicksTo(due'[t])
    ELSE arm' = arm

\* Mutant: a repeated timer is not inserted again.
PlaceAfterLost(t) == "freed"

PlaceAfter(t) == IF Interval[t] > 0 THEN "set" ELSE "freed"

Reset ==
  /\ pc = "calling" /\ In("expired") = {}
  /\ pc' = "idle"
  /\ place' = [t \in Timers |->
                 IF place[t] = "ran" THEN PlaceAfter(t) ELSE place[t]]
  /\ due' = [t \in Timers |-> IF place[t] = "ran" THEN Interval[t] ELSE due[t]]
  /\ Rearm
  /\ UNCHANGED <<reported, clock>>

(***************************************************************************)
(* Time: both clocks advance; the wall clock alone is set forward or, once *)
(* in a behaviour, back.                                                   *)
(***************************************************************************)
Sooner(d) == IF d = Overdue THEN d ELSE d - 1

Tick ==
  /\ due' = [t \in Timers |-> Sooner(due[t])]
  /\ arm' = IF arm > 0 THEN arm - 1 ELSE arm
  /\ UNCHANGED <<place, reported, pc, clock>>

ClockForward ==
  /\ due' = [t \in Timers |-> Sooner(due[t])]
  /\ clock' = IF clock = "back" THEN "back" ELSE "forward"
  /\ UNCHANGED <<place, arm, reported, pc>>

ClockBack ==
  /\ clock # "back" /\ clock' = "back"
  /\ \E n \in {0, 1} :
       due' = [t \in Timers |-> due[t] + (IF due[t] = Overdue THEN n ELSE 1)]
  /\ UNCHANGED <<place, arm, reported, pc>>

Add ==
  \E t \in Timers, d \in Overdue .. MaxDelay : AddHere(t, d) \/ AddElsewhere(t, d)

Handler == Poll \/ HandleRead \/ Reset \/ \E t \in Timers : RunTimer(t)

Next ==
  \/ Add \/ Handler \/ \E t \in Timers : AddTimerInLoop(t)
  \/ Tick \/ ClockForward \/ ClockBack

Spec == Init /\ [][Next]_vars

\* Time passes, the loop serves the timerfd, and each of its iterations ends
\* with the queued functors (QueuedRuns of EventLoop).
FairSpec ==
  /\ Spec /\ WF_vars(Tick) /\ WF_vars(Handler)
  /\ \A t \in Timers : SF_vars(AddTimerInLoop(t))

-----------------------------------------------------------------------------
(***************************************************************************)
(* Properties.                                                             *)
(***************************************************************************)
TypeOK ==
  /\ place \in [Timers -> {"new", "posted", "set", "expired", "ran", "freed"}]
  /\ due \in [Timers -> Int] /\ \A t \in Timers : due[t] >= Overdue
  /\ arm \in Int /\ arm >= Disarmed
  /\ reported \in BOOLEAN /\ clock \in {"steady", "forward", "back"}
  /\ pc \in {"idle", "calling"}

\* When the timerfd fires there is a timer to run, and it is armed, unless
\* handleRead is about to arm it.
ArmedForSomeone ==
  clock # "back" /\ In("set") # {} /\ (pc = "idle" \/ Handling = {})
    => arm >= 0 /\ \E t \in In("set") : due[t] <= arm

\* The timerfd fires for the first of them, while the wall clock is steady.
ArmedForFirst ==
  clock = "steady" /\ (pc = "idle" \/ Handling = {})
    => \A t \in In("set") : arm <= TicksTo(due[t])

\* Only the handler has expired timers.
HandlingInHandler == pc = "idle" => Handling = {}

\* The inductive invariant proved in TimerQueueProofs, and with it ArmedForFirst.
Inv == TypeOK /\ ArmedForSomeone /\ HandlingInHandler

\* TimerQueue.cc:64-74 and 146-172: outside handleRead no timer waits for a
\* timerfd that is disarmed, as long as the wall clock is not set back (then
\* getExpired finds nothing, and reset arms nothing).
NoStrandedTimer ==
  pc = "idle" /\ clock # "back" => (In("set") = {} \/ arm # Disarmed)

\* TimerQueue.cc:70, 180: and while the wall clock is steady, the timerfd fires
\* no later than the first timer is due.
OnTime ==
  pc = "idle" /\ clock = "steady"
    => \A t \in In("set") : arm <= TicksTo(due[t])

\* Every timer that has been added runs, and one that repeats runs again.
TimersRun ==
  \A t \in Timers :
    /\ place[t] \in {"posted", "set"} ~> (place[t] = "ran" \/ clock = "back")
    /\ place[t] = "ran" /\ Interval[t] > 0
         ~> (place[t] = "expired" \/ clock = "back")
=============================================================================
