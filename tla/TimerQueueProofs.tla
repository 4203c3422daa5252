--------------------------- MODULE TimerQueueProofs ---------------------------
(***************************************************************************)
(* Proofs about TimerQueue, for any set of timers and any intervals.       *)
(***************************************************************************)
EXTENDS TimerQueue, TLAPS

\* The constructor leaves no timers and a timerfd that is not armed.
LEMMA InitInv == Init => Inv
<1> SUFFICES ASSUME Init PROVE Inv
  OBVIOUS
<1>1. TypeOK
  <2>1. reported \in BOOLEAN
    BY DEF Init
  <2>2. arm \in Int /\ arm >= Disarmed
    BY DEF Init, Disarmed
  <2>3. due \in [Timers -> Int] /\ \A t \in Timers : due[t] >= Overdue
    BY DEF Init, Overdue
  <2> QED
    BY <2>1, <2>2, <2>3 DEF Init, TypeOK
<1>2. \A t \in Timers : place[t] = "new"
  BY DEF Init
<1>3. In("set") = {} /\ Handling = {}
  BY <1>2 DEF In, Handling
<1> QED
  BY <1>1, <1>3 DEF Inv, ArmedForSomeone, HandlingInHandler

\* resetTimerfd arms the timerfd for at least one tick, and no earlier than asked.
LEMMA TicksToFacts ==
  ASSUME NEW d \in Int
  PROVE  TicksTo(d) \in Int /\ TicksTo(d) >= 1 /\ d <= TicksTo(d)
BY DEF TicksTo

\* insert keeps the timerfd armed for someone: for the new timer if it comes
\* first, for the one it was armed for if not.
LEMMA InsertKeepsArmed ==
  ASSUME Inv, NEW t \in Timers, NEW d \in Int, d >= Overdue,
         place[t] \in {"new", "posted"},
         Insert(t, d), due' = [due EXCEPT ![t] = d],
         UNCHANGED <<pc, clock>>
  PROVE  arm' \in Int /\ arm' >= Disarmed /\ ArmedForSomeone' /\ HandlingInHandler'
<1> USE DEF Inv, TypeOK, Overdue, Disarmed
<1>1. /\ place'[t] = "set" /\ due'[t] = d
      /\ \A u \in Timers \ {t} : place'[u] = place[u] /\ due'[u] = due[u]
  BY DEF Insert
<1>2. Handling' = Handling
  BY <1>1 DEF Handling, In
<1>3. HandlingInHandler'
  BY <1>2 DEF HandlingInHandler
<1>4. CASE arm' = TicksTo(d)
  <2>1. arm' \in Int /\ arm' >= 1 /\ due'[t] <= arm'
    BY <1>1, <1>4, TicksToFacts
  <2>2. t \in In("set")'
    BY <1>1 DEF In
  <2> QED
    BY <1>3, <2>1, <2>2 DEF ArmedForSomeone
<1>5. CASE arm' = arm /\ In("set") # {}
  <2>1. In("set") \subseteq In("set")' /\ \A u \in In("set") : due'[u] = due[u]
    BY <1>1 DEF In
  <2> QED
    BY <1>2, <1>3, <1>5, <2>1 DEF ArmedForSomeone
<1> QED
  BY <1>4, <1>5 DEF Insert

\* The whole of reset arms the timerfd for the first timer, if there is one.
LEMMA ResetKeepsInv ==
  ASSUME Inv, Reset
  PROVE  Inv'
<1> USE DEF Inv, TypeOK, Overdue, Disarmed
<1>1. /\ place' \in [Timers -> {"new", "posted", "set", "expired", "ran", "freed"}]
      /\ due' \in [Timers -> Int] /\ \A t \in Timers : due'[t] >= Overdue
  BY TimersAssumption DEF Reset, PlaceAfter
<1>2. HandlingInHandler'
  BY TimersAssumption DEF Reset, HandlingInHandler, Handling, In, PlaceAfter
<1>3. CASE In("ran") # {} /\ \E t \in Timers : place'[t] = "set"
  <2>1. PICK t \in Timers : place'[t] = "set" /\ arm' = TicksTo(due'[t])
    BY <1>3 DEF Reset, Rearm
  <2>2. arm' \in Int /\ arm' >= 1 /\ due'[t] <= arm'
    BY <1>1, <2>1, TicksToFacts
  <2> QED
    BY <1>1, <1>2, <2>1, <2>2 DEF Reset, ArmedForSomeone, In
<1>4. CASE In("ran") = {}
  <2>1. arm' = arm
    BY <1>4 DEF Reset, Rearm
  <2>2. \A t \in Timers : place[t] # "ran"
    BY <1>4 DEF In
  <2>3. place' = place /\ due' = due
    BY <2>2 DEF Reset
  <2>4. Handling = {}
    BY <1>4 DEF Reset, Handling
  <2> QED
    BY <1>1, <1>2, <2>1, <2>3, <2>4 DEF Reset, ArmedForSomeone, In
<1>5. CASE ~ \E t \in Timers : place'[t] = "set"
  <2>1. arm' = arm /\ In("set")' = {}
    BY <1>5 DEF Reset, Rearm, In
  <2> QED
    BY <1>1, <1>2, <2>1 DEF Reset, ArmedForSomeone
<1> QED
  BY <1>3, <1>4, <1>5

\* Every step keeps the invariant.
LEMMA NextInv == Inv /\ [Next]_vars => Inv'
<1> SUFFICES ASSUME Inv, [Next]_vars PROVE Inv'
  OBVIOUS
<1> USE DEF Inv, TypeOK, Overdue, Disarmed
<1>1. ASSUME NEW t \in Timers, NEW d \in Overdue .. MaxDelay, AddHere(t, d)
      PROVE  Inv'
  <2>1. d \in Int /\ d >= Overdue
    BY TimersAssumption
  <2>2. arm' \in Int /\ arm' >= Disarmed /\ ArmedForSomeone' /\ HandlingInHandler'
    BY <1>1, <2>1, InsertKeepsArmed DEF AddHere
  <2> QED
    BY <1>1, <2>1, <2>2 DEF AddHere, Insert
<1>2. ASSUME NEW t \in Timers, NEW d \in Overdue .. MaxDelay, AddElsewhere(t, d)
      PROVE  Inv'
  <2>1. d \in Int /\ d >= Overdue
    BY TimersAssumption
  <2>2. /\ In("set")' = In("set") /\ Handling' = Handling
        /\ \A u \in In("set") : due'[u] = due[u]
    BY <1>2 DEF AddElsewhere, In, Handling
  <2> QED
    BY <1>2, <2>1, <2>2 DEF AddElsewhere, ArmedForSomeone, HandlingInHandler
<1>3. ASSUME NEW t \in Timers, AddTimerInLoop(t)
      PROVE  Inv'
  <2>1. due' = [due EXCEPT ![t] = due[t]]
    BY <1>3 DEF AddTimerInLoop
  <2>2. arm' \in Int /\ arm' >= Disarmed /\ ArmedForSomeone' /\ HandlingInHandler'
    BY <1>3, <2>1, InsertKeepsArmed DEF AddTimerInLoop
  <2> QED
    BY <1>3, <2>2 DEF AddTimerInLoop, Insert
<1>4. CASE Poll
  BY <1>4 DEF Poll, ArmedForSomeone, HandlingInHandler, Handling, In
<1>5. CASE HandleRead
  <2>1. place' \in [Timers -> {"new", "posted", "set", "expired", "ran", "freed"}]
    BY <1>5 DEF HandleRead
  <2>2. ArmedForSomeone'
    <3> SUFFICES ASSUME clock # "back", In("set")' # {}, Handling' = {}
                 PROVE  arm' >= 0 /\ \E t \in In("set")' : due[t] <= arm'
      BY <1>5 DEF HandleRead, ArmedForSomeone
    <3>1. \A t \in In("set") : ~(due[t] <= 0)
      BY <1>5 DEF HandleRead, Handling, In
    <3>2. In("set")' = In("set")
      BY <1>5, <3>1 DEF HandleRead, In
    <3>3. arm >= 0 /\ \E t \in In("set") : due[t] <= arm
      BY <1>5, <3>2 DEF HandleRead, ArmedForSomeone
    <3>4. arm' = arm
      BY <1>5, <3>1, <3>3 DEF HandleRead
    <3> QED
      BY <3>2, <3>3, <3>4
  <2>3. reported' \in BOOLEAN
    BY <1>5 DEF HandleRead
  <2>4. arm' \in Int /\ arm' >= Disarmed
    BY <1>5 DEF HandleRead
  <2> QED
    BY <1>5, <2>1, <2>2, <2>3, <2>4 DEF HandleRead, HandlingInHandler
<1>6. ASSUME NEW t \in Timers, RunTimer(t)
      PROVE  Inv'
  <2>1. place'[t] = "ran" /\ pc' = "calling"
    BY <1>6 DEF RunTimer
  <2>2. Handling' # {}
    BY <2>1 DEF Handling, In
  <2>3. TypeOK'
    BY <1>6 DEF RunTimer
  <2> QED
    BY <2>1, <2>2, <2>3 DEF RunTimer, ArmedForSomeone, HandlingInHandler
<1>7. CASE Reset
  BY <1>7, ResetKeepsInv
<1>8. CASE Tick
  <2>1. /\ In("set")' = In("set") /\ Handling' = Handling
        /\ due' \in [Timers -> Int]
        /\ \A t \in Timers : due'[t] >= Overdue /\ due'[t] <= due[t]
        /\ \A t \in Timers : due[t] >= 0 => due'[t] = due[t] - 1
    BY <1>8 DEF Tick, In, Handling, Sooner
  <2>2. ArmedForSomeone'
    <3> SUFFICES ASSUME clock # "back", In("set") # {}, pc = "idle" \/ Handling = {}
                 PROVE  arm' >= 0 /\ \E t \in In("set") : due'[t] <= arm'
      BY <1>8, <2>1 DEF Tick, ArmedForSomeone
    <3>1. PICK t \in In("set") : arm >= 0 /\ due[t] <= arm
      BY DEF ArmedForSomeone
    <3>2. t \in Timers
      BY <3>1 DEF In
    <3>3. due'[t] <= arm' /\ arm' >= 0
      BY <1>8, <2>1, <3>1, <3>2 DEF Tick
    <3> QED
      BY <3>1, <3>3
  <2> QED
    BY <1>8, <2>1, <2>2 DEF Tick, HandlingInHandler
<1>9. CASE ClockForward
  <2>1. /\ In("set")' = In("set") /\ Handling' = Handling
        /\ due' \in [Timers -> Int]
        /\ \A t \in Timers : due'[t] >= Overdue /\ due'[t] <= due[t]
    BY <1>9 DEF ClockForward, In, Handling, Sooner
  <2>2. \A t \in In("set") : t \in Timers
    BY DEF In
  <2>3. \A t \in In("set") : due[t] <= arm => due'[t] <= arm
    BY <2>1, <2>2
  <2> QED
    BY <1>9, <2>1, <2>3 DEF ClockForward, ArmedForSomeone, HandlingInHandler
<1>10. CASE ClockBack
  <2>1. due' \in [Timers -> Int] /\ \A t \in Timers : due'[t] >= Overdue
    BY <1>10 DEF ClockBack
  <2> QED
    BY <1>10, <2>1 DEF ClockBack, ArmedForSomeone, HandlingInHandler, Handling, In
<1>11. CASE UNCHANGED vars
  BY <1>11 DEF vars, ArmedForSomeone, HandlingInHandler, Handling, In
<1> QED
  BY <1>1, <1>2, <1>3, <1>4, <1>5, <1>6, <1>7, <1>8, <1>9, <1>10, <1>11
     DEF Next, Add, Handler

\* TimerQueue: types, and the timerfd fires for someone.
THEOREM InvHolds == Spec => []Inv
BY InitInv, NextInv, PTL DEF Spec

\* TimerQueue.cc:64-74, 146-172: while the wall clock is not set back, no timer
\* waits for a disarmed timerfd outside handleRead.
THEOREM NoStrandedHolds == Spec => []NoStrandedTimer
<1>1. Inv => NoStrandedTimer
  BY DEF Inv, ArmedForSomeone, NoStrandedTimer, TypeOK, Disarmed
<1> QED
  BY <1>1, InvHolds, PTL

\* An earlier timer has the timerfd armed no later.
LEMMA TicksToOrder ==
  ASSUME NEW d \in Int, NEW e \in Int, d <= e
  PROVE  TicksTo(d) <= TicksTo(e)
BY DEF TicksTo

\* insert keeps the timerfd armed for the first timer.
LEMMA InsertKeepsFirst ==
  ASSUME Inv, ArmedForFirst, NEW t \in Timers, NEW d \in Int, d >= Overdue,
         place[t] \in {"new", "posted"},
         Insert(t, d), due' = [due EXCEPT ![t] = d],
         UNCHANGED <<pc, clock>>
  PROVE  ArmedForFirst'
<1> USE DEF Inv, TypeOK, Overdue
<1>1. /\ place'[t] = "set" /\ due'[t] = d
      /\ \A u \in Timers \ {t} : place'[u] = place[u] /\ due'[u] = due[u]
  BY DEF Insert
<1>2. Handling' = Handling
  BY <1>1 DEF Handling, In
<1>3. In("set")' = In("set") \union {t} /\ t \notin In("set") /\ In("set") \subseteq Timers
  BY <1>1 DEF In
<1>4. SUFFICES ASSUME clock = "steady", pc = "idle" \/ Handling = {}, NEW u \in In("set")'
               PROVE  arm' <= TicksTo(due'[u])
  BY <1>2 DEF ArmedForFirst
<1>5. \A v \in In("set") : arm <= TicksTo(due[v]) /\ due'[v] = due[v] /\ due[v] \in Int
  BY <1>1, <1>3, <1>4 DEF ArmedForFirst
<1>6. CASE arm' = TicksTo(d) /\ \A v \in In("set") : d < due[v] \/ d = Overdue
  <2>1. d <= due'[u] /\ due'[u] \in Int
    <3>1. CASE u = t
      BY <1>1, <3>1
    <3>2. CASE u # t
      <4>1. u \in In("set") /\ u \in Timers
        BY <1>3, <3>2
      <4>2. due'[u] = due[u] /\ due[u] \in Int /\ due[u] >= -1
        BY <1>5, <4>1
      <4>3. d < due[u] \/ d = -1
        BY <1>6, <4>1
      <4> QED
        BY <4>2, <4>3
    <3> QED
      BY <3>1, <3>2
  <2> QED
    BY <1>6, <2>1, TicksToOrder
<1>7. CASE arm' = arm /\ \E v \in In("set") : due[v] <= d
  <2>1. CASE u = t
    <3>1. PICK v \in In("set") : due[v] <= d
      BY <1>7
    <3>2. arm <= TicksTo(due[v]) /\ TicksTo(due[v]) <= TicksTo(d)
      BY <1>5, <3>1, TicksToOrder
    <3>3. TicksTo(due[v]) \in Int /\ TicksTo(d) \in Int
      BY <1>5, <3>1, TicksToFacts
    <3> QED
      BY <1>1, <1>7, <2>1, <3>2, <3>3
  <2>2. CASE u # t
    BY <1>3, <1>5, <1>7, <2>2
  <2> QED
    BY <2>1, <2>2
<1> QED
  BY <1>6, <1>7 DEF Insert

\* Every step keeps the timerfd armed for the first timer while the clock is steady.
LEMMA NextFirst == Inv /\ ArmedForFirst /\ [Next]_vars => ArmedForFirst'
<1> SUFFICES ASSUME Inv, ArmedForFirst, [Next]_vars PROVE ArmedForFirst'
  OBVIOUS
<1> USE DEF Inv, TypeOK, Overdue, Disarmed
<1>0. \A t \in Timers : TicksTo(due[t]) \in Int /\ TicksTo(due[t]) >= 1
  BY TicksToFacts
<1>1. ASSUME NEW t \in Timers, NEW d \in Overdue .. MaxDelay, AddHere(t, d)
      PROVE  ArmedForFirst'
  <2>1. d \in Int /\ d >= Overdue
    BY TimersAssumption
  <2> QED
    BY <1>1, <2>1, InsertKeepsFirst DEF AddHere
<1>2. ASSUME NEW t \in Timers, NEW d \in Overdue .. MaxDelay, AddElsewhere(t, d)
      PROVE  ArmedForFirst'
  <2>1. /\ In("set")' = In("set") /\ Handling' = Handling
        /\ \A u \in In("set") : due'[u] = due[u]
    BY <1>2 DEF AddElsewhere, In, Handling
  <2> QED
    BY <1>2, <2>1 DEF AddElsewhere, ArmedForFirst
<1>3. ASSUME NEW t \in Timers, AddTimerInLoop(t)
      PROVE  ArmedForFirst'
  <2>1. due' = [due EXCEPT ![t] = due[t]]
    BY <1>3 DEF AddTimerInLoop
  <2> QED
    BY <1>3, <2>1, InsertKeepsFirst DEF AddTimerInLoop
<1>4. CASE HandleRead
  <2> SUFFICES ASSUME clock = "steady", Handling' = {}, NEW t \in In("set")'
               PROVE  arm' <= TicksTo(due'[t])
    BY <1>4 DEF HandleRead, ArmedForFirst
  <2>1. In("set")' \subseteq In("set") /\ t \in Timers /\ Handling = {}
    BY <1>4 DEF HandleRead, In, Handling, HandlingInHandler
  <2>2. arm <= TicksTo(due[t]) /\ TicksTo(due[t]) >= 1 /\ TicksTo(due[t]) \in Int
    BY <1>0, <2>1 DEF ArmedForFirst
  <2>3. due' = due /\ (arm' = arm \/ arm' = -1)
    BY <1>4 DEF HandleRead
  <2> QED
    BY <2>2, <2>3
<1>5. ASSUME NEW t \in Timers, RunTimer(t)
      PROVE  ArmedForFirst'
  <2>1. place'[t] = "ran" /\ pc' = "calling"
    BY <1>5 DEF RunTimer
  <2>2. Handling' # {}
    BY <2>1 DEF Handling, In
  <2> QED
    BY <2>1, <2>2 DEF ArmedForFirst
<1>6. CASE Reset
  <2>1. due' \in [Timers -> Int]
    BY <1>6, TimersAssumption DEF Reset
  <2>2. CASE In("ran") # {} /\ \E t \in Timers : place'[t] = "set"
    <3>1. PICK t \in Timers : /\ arm' = TicksTo(due'[t])
                              /\ \A u \in Timers : place'[u] = "set" => due'[t] <= due'[u]
      BY <1>6, <2>2 DEF Reset, Rearm
    <3>2. \A u \in In("set")' : u \in Timers /\ due'[t] <= due'[u]
      BY <3>1 DEF In
    <3>3. \A u \in In("set")' : TicksTo(due'[t]) <= TicksTo(due'[u])
      BY <2>1, <3>2, TicksToOrder
    <3> QED
      BY <3>1, <3>3 DEF ArmedForFirst
  <2>3. CASE In("ran") = {}
    <3>1. \A t \in Timers : place[t] # "ran"
      BY <2>3 DEF In
    <3>2. place' = place /\ due' = due /\ arm' = arm /\ clock' = clock
      BY <1>6, <2>3, <3>1 DEF Reset, Rearm
    <3>3. Handling = {} /\ In("set")' = In("set")
      BY <1>6, <2>3, <3>2 DEF Reset, Handling, In
    <3> QED
      BY <3>2, <3>3 DEF ArmedForFirst
  <2>4. CASE ~ \E t \in Timers : place'[t] = "set"
    <3>1. In("set")' = {}
      BY <2>4 DEF In
    <3> QED
      BY <3>1 DEF ArmedForFirst
  <2> QED
    BY <2>2, <2>3, <2>4
<1>7. CASE Tick
  <2> SUFFICES ASSUME clock = "steady", pc = "idle" \/ Handling = {}, NEW t \in In("set")
               PROVE  arm' <= TicksTo(due'[t])
    BY <1>7 DEF Tick, ArmedForFirst, Handling, In
  <2>1. t \in Timers /\ arm <= TicksTo(due[t])
    BY DEF In, ArmedForFirst
  <2>2. due'[t] = (IF due[t] = -1 THEN -1 ELSE due[t] - 1) /\ due[t] \in Int /\ due[t] >= -1
    BY <1>7, <2>1 DEF Tick, Sooner
  <2>3. arm' = (IF arm > 0 THEN arm - 1 ELSE arm) /\ arm \in Int
    BY <1>7 DEF Tick
  <2> QED
    BY <2>1, <2>2, <2>3 DEF TicksTo
<1>8. CASE Poll \/ UNCHANGED vars
  BY <1>8 DEF Poll, vars, ArmedForFirst, Handling, In
<1>9. CASE ClockForward \/ ClockBack
  BY <1>9 DEF ClockForward, ClockBack, ArmedForFirst
<1> QED
  BY <1>1, <1>2, <1>3, <1>4, <1>5, <1>6, <1>7, <1>8, <1>9 DEF Next, Add, Handler

\* TimerQueue.cc:70, 180: while the wall clock is steady the timerfd fires, outside
\* handleRead, no later than the first timer is due.
THEOREM OnTimeHolds == Spec => []OnTime
<1>1. Init => ArmedForFirst
  BY DEF Init, ArmedForFirst, In
<1>2. Spec => []ArmedForFirst
  BY <1>1, NextFirst, InvHolds, PTL DEF Spec
<1>3. ArmedForFirst => OnTime
  BY DEF ArmedForFirst, OnTime
<1> QED
  BY <1>2, <1>3, PTL
=============================================================================
