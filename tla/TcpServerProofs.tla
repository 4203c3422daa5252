--------------------------- MODULE TcpServerProofs ----------------------------
(***************************************************************************)
(* Proofs about TcpServer, for any number of connections and of I/O loops: *)
(* no poller keeps the channel of a connection that is gone, events come   *)
(* between "up" and "down" only, and TcpServer implements ConnectionLife.  *)
(***************************************************************************)
EXTENDS TcpServer, SequenceTheorems, TLAPS

-----------------------------------------------------------------------------
(***************************************************************************)
(* The functors on their way.                                              *)
(***************************************************************************)

\* The functors on their way in U are those of T and one more, or those of T but one.
OneMore(T, U, op, c) ==
  \A o \in {"established", "remove", "destroy"}, d \in Conns :
    InTodo(U, o, d) <=> InTodo(T, o, d) \/ (o = op /\ d = c)

OneLess(T, U, op, c) ==
  \A o \in {"established", "remove", "destroy"}, d \in Conns :
    InTodo(U, o, d) <=> InTodo(T, o, d) /\ ~(o = op /\ d = c)

\* U is T with a functor appended in the loop that may run it, which was not on its
\* way yet and is not behind its opposite; U is T with the first functor of a loop gone.
Appends(Ls, T, U, home, l, op, c) ==
  /\ T \in [Ls -> Seq(Functors)] /\ U \in [Ls -> Seq(Functors)] /\ l \in Ls
  /\ op \in {"established", "remove", "destroy"} /\ c \in Conns
  /\ QueuesOK(T, home) /\ ~InTodo(T, op, c)
  /\ op = "remove" => l = MainLoop
  /\ op # "remove" => l = home[c]
  /\ op = "established" => ~InTodo(T, "destroy", c)
  /\ U[l] = Append(T[l], Functor(op, c)) /\ \A k \in Ls \ {l} : U[k] = T[k]

Takes(Ls, T, U, home, l, op, c) ==
  /\ T \in [Ls -> Seq(Functors)] /\ U \in [Ls -> Seq(Functors)] /\ l \in Ls
  /\ op \in {"established", "remove", "destroy"} /\ c \in Conns
  /\ QueuesOK(T, home) /\ T[l] # <<>> /\ T[l][1] = Functor(op, c)
  /\ U[l] = Tail(T[l]) /\ \A k \in Ls \ {l} : U[k] = T[k]

\* queueInLoop: the functors stay in order, and there is one more.
LEMMA QueueAppends ==
  ASSUME NEW Ls, NEW T, NEW U, NEW home, NEW l, NEW op, NEW c, Appends(Ls, T, U, home, l, op, c)
  PROVE  QueuesOK(U, home) /\ OneMore(T, U, op, c)
<1> USE DEF Appends
<1> DEFINE f == Functor(op, c)
           n == Len(T[l])
<1>1. f \in Functors /\ f.op = op /\ f.conn = c
  BY DEF Functors, Functor
<1>2. /\ U \in [Ls -> Seq(Functors)] /\ DOMAIN U = Ls /\ DOMAIN T = Ls
      /\ \A k \in Ls \ {l} : U[k] = T[k]
      /\ n \in Nat /\ Len(U[l]) = n + 1 /\ U[l][n + 1] = f
      /\ \A i \in 1 .. n : U[l][i] = T[l][i]
  BY <1>1, AppendProperties
<1>3. \A i \in 1 .. n : T[l][i] # f
  BY <1>2 DEF InTodo
<1>4. \A i \in 1 .. n : T[l][i] \in Functors
  BY <1>2
<1>5. QueuesOK(U, home)
  <2>1. ASSUME NEW k \in Ls, k # l
        PROVE /\ \A i \in 1 .. Len(U[k]) :
                   k = IF U[k][i].op = "remove" THEN MainLoop ELSE home[U[k][i].conn]
              /\ \A i, j \in 1 .. Len(U[k]) : U[k][i] = U[k][j] => i = j
              /\ \A i, j \in 1 .. Len(U[k]) :
                   U[k][i].op = "destroy" /\ U[k][j] = Functor("established", U[k][i].conn) => j < i
    BY <1>2, <2>1 DEF QueuesOK
  <2>2. \A i \in 1 .. Len(U[l]) :
          l = IF U[l][i].op = "remove" THEN MainLoop ELSE home[U[l][i].conn]
    BY <1>1, <1>2 DEF QueuesOK
  <2>3. \A i, j \in 1 .. Len(U[l]) : U[l][i] = U[l][j] => i = j
    BY <1>2, <1>3 DEF QueuesOK
  <2>4. ASSUME NEW i \in 1 .. Len(U[l]), NEW j \in 1 .. Len(U[l]),
               U[l][i].op = "destroy", U[l][j] = Functor("established", U[l][i].conn)
        PROVE  j < i
    <3>1. CASE i = n + 1
      <4>1. op = "destroy"
        BY <1>1, <1>2, <2>4, <3>1
      <4>2. j # n + 1
        BY <1>1, <1>2, <2>4, <4>1 DEF Functor
      <4> QED
        BY <1>2, <3>1, <4>2
    <3>2. CASE i # n + 1 /\ j = n + 1
      <4>1. f = Functor("established", U[l][i].conn) /\ i \in 1 .. n /\ T[l][i].op = "destroy"
        BY <1>2, <2>4, <3>2
      <4>2. op = "established" /\ T[l][i].conn = c
        BY <1>1, <1>2, <4>1 DEF Functor
      <4>3. T[l][i] = Functor("destroy", c)
        BY <1>4, <4>1, <4>2 DEF Functors, Functor
      <4> QED
        BY <1>2, <4>1, <4>2, <4>3 DEF InTodo
    <3>3. CASE i # n + 1 /\ j # n + 1
      BY <1>2, <2>4, <3>3 DEF QueuesOK
    <3> QED
      BY <3>1, <3>2, <3>3
  <2>5. \A i, j \in 1 .. Len(U[l]) :
          U[l][i].op = "destroy" /\ U[l][j] = Functor("established", U[l][i].conn) => j < i
    BY <2>4
  <2>6. DOMAIN U = Ls
    BY <1>2
  <2>7. ASSUME NEW k \in Ls
        PROVE /\ \A i \in 1 .. Len(U[k]) :
                   k = IF U[k][i].op = "remove" THEN MainLoop ELSE home[U[k][i].conn]
              /\ \A i, j \in 1 .. Len(U[k]) : U[k][i] = U[k][j] => i = j
              /\ \A i, j \in 1 .. Len(U[k]) :
                   U[k][i].op = "destroy" /\ U[k][j] = Functor("established", U[k][i].conn) => j < i
    <3>1. CASE k = l
      BY <2>2, <2>3, <2>5, <3>1, Zenon
    <3>2. CASE k # l
      BY <2>1, <3>2, Zenon
    <3> QED
      BY <3>1, <3>2
  <2> QED
    BY <2>6, <2>7, Zenon DEF QueuesOK
<1>6. ASSUME NEW o \in {"established", "remove", "destroy"}, NEW d \in Conns
      PROVE  InTodo(U, o, d) <=> InTodo(T, o, d) \/ (o = op /\ d = c)
  <2>1. ASSUME InTodo(T, o, d) PROVE InTodo(U, o, d)
    <3>1. PICK k \in Ls : \E i \in 1 .. Len(T[k]) : T[k][i] = Functor(o, d)
      BY <1>2, <2>1 DEF InTodo
    <3>2. PICK i \in 1 .. Len(T[k]) : T[k][i] = Functor(o, d)
      BY <3>1
    <3>3. i \in 1 .. Len(U[k]) /\ U[k][i] = T[k][i]
      <4>1. CASE k = l
        BY <1>2, <4>1
      <4>2. CASE k # l
        BY <1>2, <4>2
      <4> QED
        BY <4>1, <4>2
    <3> QED
      BY <1>2, <3>2, <3>3 DEF InTodo
  <2>2. ASSUME o = op, d = c PROVE InTodo(U, o, d)
    <3>1. n + 1 \in 1 .. Len(U[l]) /\ U[l][n + 1] = Functor(o, d)
      BY <1>2, <2>2
    <3> QED
      BY <1>2, <3>1 DEF InTodo
  <2>3. ASSUME InTodo(U, o, d) PROVE InTodo(T, o, d) \/ (o = op /\ d = c)
    <3>1. PICK k \in Ls : \E i \in 1 .. Len(U[k]) : U[k][i] = Functor(o, d)
      BY <1>2, <2>3 DEF InTodo
    <3>2. PICK i \in 1 .. Len(U[k]) : U[k][i] = Functor(o, d)
      BY <3>1
    <3>3. CASE k = l /\ i = n + 1
      BY <1>2, <3>2, <3>3 DEF Functor
    <3>4. CASE ~(k = l /\ i = n + 1)
      <4>1. i \in 1 .. Len(T[k]) /\ T[k][i] = Functor(o, d)
        <5>1. CASE k = l
          BY <1>2, <3>2, <3>4, <5>1
        <5>2. CASE k # l
          BY <1>2, <3>2, <5>2
        <5> QED
          BY <5>1, <5>2
      <4> QED
        BY <1>2, <4>1 DEF InTodo
    <3> QED
      BY <3>3, <3>4
  <2> QED
    BY <2>1, <2>2, <2>3
<1> QED
  BY <1>5, <1>6 DEF OneMore

\* doPendingFunctors: the functor that is run is on its way no longer, because it
\* was so only once.
LEMMA RunTakes ==
  ASSUME NEW Ls, NEW T, NEW U, NEW home, NEW l, NEW op, NEW c, Takes(Ls, T, U, home, l, op, c)
  PROVE  /\ QueuesOK(U, home) /\ InTodo(T, op, c)
         /\ op = "remove" => l = MainLoop
         /\ op # "remove" => l = home[c]
         /\ OneLess(T, U, op, c)
         /\ op = "destroy" => ~InTodo(T, "established", c)
<1> USE DEF Takes
<1> DEFINE f == Functor(op, c)
           n == Len(T[l])
<1>1. f \in Functors /\ f.op = op /\ f.conn = c
  BY DEF Functors, Functor
<1>2. /\ U \in [Ls -> Seq(Functors)] /\ DOMAIN U = Ls /\ DOMAIN T = Ls
      /\ \A k \in Ls \ {l} : U[k] = T[k]
      /\ n \in Nat \ {0} /\ Len(U[l]) = n - 1
      /\ \A i \in 1 .. n - 1 : U[l][i] = T[l][i + 1]
  BY HeadTailProperties
<1>3. l = IF op = "remove" THEN MainLoop ELSE home[c]
  BY <1>1, <1>2, SMTT(30) DEF QueuesOK
<1>4. \A k \in Ls : \A i \in 1 .. Len(T[k]) : T[k][i] = f => k = l /\ i = 1
  BY <1>1, <1>2, <1>3 DEF QueuesOK
<1>5. QueuesOK(U, home)
  <2>1. ASSUME NEW k \in Ls, k # l
        PROVE /\ \A i \in 1 .. Len(U[k]) :
                   k = IF U[k][i].op = "remove" THEN MainLoop ELSE home[U[k][i].conn]
              /\ \A i, j \in 1 .. Len(U[k]) : U[k][i] = U[k][j] => i = j
              /\ \A i, j \in 1 .. Len(U[k]) :
                   U[k][i].op = "destroy" /\ U[k][j] = Functor("established", U[k][i].conn) => j < i
    BY <1>2, <2>1 DEF QueuesOK
  <2>2. \A i \in 1 .. n - 1 : i + 1 \in 1 .. Len(T[l])
    BY <1>2
  <2>3. \A i \in 1 .. Len(U[l]) :
          l = IF U[l][i].op = "remove" THEN MainLoop ELSE home[U[l][i].conn]
    BY <1>2, <2>2 DEF QueuesOK
  <2>4. \A i, j \in 1 .. Len(U[l]) : U[l][i] = U[l][j] => i = j
    BY <1>2, <2>2 DEF QueuesOK
  <2>5. ASSUME NEW i \in 1 .. Len(U[l]), NEW j \in 1 .. Len(U[l]),
               U[l][i].op = "destroy", U[l][j] = Functor("established", U[l][i].conn)
        PROVE  j < i
    BY <1>2, <2>2, <2>5 DEF QueuesOK
  <2>6. \A i, j \in 1 .. Len(U[l]) :
          U[l][i].op = "destroy" /\ U[l][j] = Functor("established", U[l][i].conn) => j < i
    BY <2>5, Zenon
  <2>7. ASSUME NEW k \in Ls
        PROVE /\ \A i \in 1 .. Len(U[k]) :
                   k = IF U[k][i].op = "remove" THEN MainLoop ELSE home[U[k][i].conn]
              /\ \A i, j \in 1 .. Len(U[k]) : U[k][i] = U[k][j] => i = j
              /\ \A i, j \in 1 .. Len(U[k]) :
                   U[k][i].op = "destroy" /\ U[k][j] = Functor("established", U[k][i].conn) => j < i
    <3>1. CASE k = l
      BY <2>3, <2>4, <2>6, <3>1, Zenon
    <3>2. CASE k # l
      BY <2>1, <3>2, Zenon
    <3> QED
      BY <3>1, <3>2, Zenon
  <2>8. DOMAIN U = Ls
    BY <1>2
  <2> QED
    BY <2>7, <2>8, Zenon DEF QueuesOK
<1>6. InTodo(T, op, c)
  BY <1>2 DEF InTodo
<1>7. ASSUME NEW o \in {"established", "remove", "destroy"}, NEW d \in Conns
      PROVE  InTodo(U, o, d) <=> InTodo(T, o, d) /\ ~(o = op /\ d = c)
  <2>1. ASSUME InTodo(T, o, d), ~(o = op /\ d = c) PROVE InTodo(U, o, d)
    <3>1. PICK k \in Ls : \E i \in 1 .. Len(T[k]) : T[k][i] = Functor(o, d)
      BY <1>2, <2>1 DEF InTodo
    <3>2. PICK i \in 1 .. Len(T[k]) : T[k][i] = Functor(o, d)
      BY <3>1
    <3>3. ~(k = l /\ i = 1)
      BY <2>1, <3>2 DEF Functor
    <3>4. CASE k = l
      <4>1. i - 1 \in 1 .. Len(U[l]) /\ U[l][i - 1] = Functor(o, d)
        BY <1>2, <3>2, <3>3, <3>4
      <4> QED
        BY <1>2, <4>1 DEF InTodo
    <3>5. CASE k # l
      BY <1>2, <3>2, <3>5 DEF InTodo
    <3> QED
      BY <3>4, <3>5
  <2>2. ASSUME InTodo(U, o, d) PROVE InTodo(T, o, d) /\ ~(o = op /\ d = c)
    <3>1. PICK k \in Ls : \E i \in 1 .. Len(U[k]) : U[k][i] = Functor(o, d)
      BY <1>2, <2>2 DEF InTodo
    <3>2. PICK i \in 1 .. Len(U[k]) : U[k][i] = Functor(o, d)
      BY <3>1
    <3>3. PICK j \in 1 .. Len(T[k]) : T[k][j] = Functor(o, d) /\ ~(k = l /\ j = 1)
      <4>1. CASE k = l
        <5>1. i + 1 \in 1 .. Len(T[k]) /\ T[k][i + 1] = Functor(o, d) /\ i + 1 # 1
          BY <1>2, <3>2, <4>1
        <5> QED
          BY <5>1
      <4>2. CASE k # l
        BY <1>2, <3>2, <4>2
      <4> QED
        BY <4>1, <4>2
    <3>4. ~(o = op /\ d = c)
      BY <1>4, <3>3
    <3> QED
      BY <1>2, <3>3, <3>4 DEF InTodo
  <2> QED
    BY <2>1, <2>2
<1>8. ASSUME op = "destroy", InTodo(T, "established", c) PROVE FALSE
  <2>1. PICK k \in Ls : \E i \in 1 .. Len(T[k]) : T[k][i] = Functor("established", c)
    BY <1>2, <1>8 DEF InTodo
  <2>2. PICK j \in 1 .. Len(T[k]) : T[k][j] = Functor("established", c)
    BY <2>1
  <2>3. Functor("established", c).op = "established" /\ Functor("established", c).conn = c
    BY DEF Functor
  <2>4. k = l
    <3>1. l = home[c] /\ T[k][j].op # "remove" /\ T[k][j].conn = c
      BY <1>3, <1>8, <2>2, <2>3
    <3>2. k = home[T[k][j].conn]
      BY <1>2, <2>2, <3>1 DEF QueuesOK
    <3> QED
      BY <3>1, <3>2
  <2>5. 1 \in 1 .. Len(T[l]) /\ T[l][1].op = "destroy" /\ T[l][1].conn = c
    BY <1>1, <1>2, <1>8
  <2>6. j < 1
    BY <1>2, <2>2, <2>4, <2>5 DEF QueuesOK
  <2> QED
    BY <2>6
<1> QED
  BY <1>3, <1>5, <1>6, <1>7, <1>8 DEF OneLess

\* The functors left of a vector f of which d have been run, before those of p.
Rest(f, d, p) == SubSeq(f, d + 1, Len(f)) \o p

\* Appending to a concatenation.
LEMMA ConcatAppend ==
  ASSUME NEW S, NEW h \in Seq(S), NEW p \in Seq(S), NEW g \in S
  PROVE  h \o Append(p, g) = Append(h \o p, g)
<1>1. <<g>> \in Seq(S)
  OBVIOUS
<1>2. Append(p, g) = p \o <<g>>
  BY AppendIsConcat
<1>3. h \o p \in Seq(S)
  BY ConcatProperties
<1>4. Append(h \o p, g) = (h \o p) \o <<g>>
  BY <1>3, AppendIsConcat
<1> QED
  BY <1>1, <1>2, <1>4, ConcatAssociative

\* An element, then two sequences.
Joined(e, k, p) == (<<e>> \o k) \o p

\* The first of a concatenation, and what is behind it.
LEMMA ConcatFirst ==
  ASSUME NEW S, NEW e \in S, NEW k \in Seq(S), NEW p \in Seq(S)
  PROVE  /\ Joined(e, k, p) # <<>> /\ Joined(e, k, p)[1] = e
         /\ Tail(Joined(e, k, p)) = k \o p
<1> USE DEF Joined
<1> DEFINE q == (<<e>> \o k) \o p
<1>1. <<e>> \in Seq(S)
  OBVIOUS
<1>2. q = <<e>> \o (k \o p)
  BY <1>1, ConcatAssociative
<1>3. k \o p \in Seq(S)
  BY ConcatProperties
<1> HIDE DEF q
<1>4. q \in Seq(S) /\ Len(q) = 1 + Len(k \o p) /\ q[1] = e
      /\ \A i \in 1 .. Len(k \o p) : q[i + 1] = (k \o p)[i]
  BY <1>1, <1>2, <1>3, ConcatProperties
<1>5. q # <<>> /\ Tail(q) \in Seq(S) /\ Len(Tail(q)) = Len(k \o p)
      /\ \A i \in 1 .. Len(Tail(q)) : Tail(q)[i] = q[i + 1]
  <2>1. Len(k \o p) \in Nat
    BY <1>3
  <2>2. q \in Seq(S) /\ q # <<>> /\ Len(q) - 1 = Len(k \o p)
    BY <1>4, <2>1
  <2>3. /\ Tail(q) \in Seq(S) /\ Len(Tail(q)) = Len(q) - 1
        /\ \A i \in 1 .. Len(Tail(q)) : Tail(q)[i] = q[i + 1]
    BY <2>2, HeadTailProperties
  <2> QED
    BY <2>2, <2>3
<1>6. Tail(q) = k \o p
  BY <1>3, <1>4, <1>5, SeqEqual
<1> QED
  BY <1>4, <1>5, <1>6 DEF q

\* What is left is a sequence; it grows at its end with p and shrinks at its front
\* with d.
LEMMA RestFacts ==
  ASSUME NEW S, NEW f \in Seq(S), NEW p \in Seq(S), NEW d \in Nat, d <= Len(f)
  PROVE  /\ Rest(f, d, p) \in Seq(S)
         /\ \A g \in S : Rest(f, d, Append(p, g)) = Append(Rest(f, d, p), g)
         /\ d < Len(f) => /\ Rest(f, d, p) # <<>> /\ Rest(f, d, p)[1] = f[d + 1]
                          /\ Rest(f, d + 1, p) = Tail(Rest(f, d, p))
<1> DEFINE n == Len(f)
           h == SubSeq(f, d + 1, n)
           k == SubSeq(f, d + 1 + 1, n)
<1>1. n \in Nat /\ \A i \in 1 .. n : f[i] \in S
  OBVIOUS
<1>2. h \in Seq(S) /\ k \in Seq(S)
  <2>1. \A i \in d + 1 .. n : f[i] \in S
    BY <1>1
  <2>2. \A i \in d + 1 + 1 .. n : f[i] \in S
    BY <1>1
  <2>3. d + 1 \in Int /\ d + 1 + 1 \in Int /\ n \in Int
    BY <1>1
  <2> QED
    BY <2>1, <2>2, <2>3, SubSeqProperties
<1>3. ASSUME d < n PROVE h = <<f[d + 1]>> \o k /\ f[d + 1] \in S
  <2>1. d + 1 \in 1 .. n /\ n \in d + 1 .. n
    BY <1>1, <1>3
  <2> QED
    BY <1>1, <2>1, SubSeqRecursiveFirst
<1>4. Rest(f, d, p) = h \o p /\ Rest(f, d + 1, p) = k \o p
      /\ \A g : Rest(f, d, Append(p, g)) = h \o Append(p, g)
  BY DEF Rest
<1> HIDE DEF h, k
<1>5. Rest(f, d, p) \in Seq(S)
  BY <1>2, <1>4, ConcatProperties
<1>6. ASSUME NEW g \in S PROVE Rest(f, d, Append(p, g)) = Append(Rest(f, d, p), g)
  <2>1. h \o Append(p, g) = Append(h \o p, g)
    BY <1>2, ConcatAppend
  <2> QED
    BY <1>4, <2>1, Zenon
<1>7. ASSUME d < n
      PROVE  /\ Rest(f, d, p) # <<>> /\ Rest(f, d, p)[1] = f[d + 1]
             /\ Rest(f, d + 1, p) = Tail(Rest(f, d, p))
  <2> DEFINE e == f[d + 1]
  <2>1. e \in S /\ Rest(f, d, p) = Joined(e, k, p) /\ Rest(f, d + 1, p) = k \o p
    BY <1>3, <1>4, <1>7 DEF Joined
  <2> HIDE DEF e
  <2>2. /\ Joined(e, k, p) # <<>> /\ Joined(e, k, p)[1] = e
        /\ Tail(Joined(e, k, p)) = k \o p
    <3>1. e \in S /\ k \in Seq(S) /\ p \in Seq(S)
      BY <1>2, <2>1
    <3> QED
      BY <3>1, ConcatFirst
  <2> QED
    BY <2>1, <2>2 DEF e
<1> QED
  BY <1>5, <1>6, <1>7

\* Todo is a sequence of functors for every loop.
LEMMA TodoType ==
  ASSUME TypeOK, LoopsOK
  PROVE  Todo \in [Loops -> Seq(Functors)] /\ \A l \in Loops : Todo[l] = Rest(functors[l], done[l], pending[l])
<1>1. \A l \in Loops : Todo[l] = Rest(functors[l], done[l], pending[l])
  BY DEF Todo, Rest
<1>2. ASSUME NEW l \in Loops PROVE Rest(functors[l], done[l], pending[l]) \in Seq(Functors)
  <2> DEFINE f == functors[l]
             d == done[l]
  <2>1. f \in Seq(Functors) /\ pending[l] \in Seq(Functors) /\ d \in Nat /\ d <= Len(f)
    BY DEF TypeOK, LoopsOK
  <2>2. Len(f) \in Nat /\ \A i \in d + 1 .. Len(f) : f[i] \in Functors
    BY <2>1, SMTT(30)
  <2>3. SubSeq(f, d + 1, Len(f)) \in Seq(Functors)
    BY <2>1, <2>2, SubSeqProperties
  <2> QED
    BY <2>1, <2>3, ConcatProperties DEF Rest
<1> QED
  BY <1>1, <1>2 DEF Todo, Rest

\* queueInLoop appends to Todo.
LEMMA TodoQueue ==
  ASSUME TypeOK, LoopsOK, NEW l \in Loops, NEW g \in Functors,
         pending' = [pending EXCEPT ![l] = Append(@, g)],
         UNCHANGED <<functors, done, numThreads>>
  PROVE  Todo' = [Todo EXCEPT ![l] = Append(@, g)]
<1>1. Loops' = Loops
  BY DEF Loops
<1>2. ASSUME NEW k \in Loops PROVE Todo'[k] = [Todo EXCEPT ![l] = Append(@, g)][k]
  <2>1. /\ functors[k] \in Seq(Functors) /\ pending[k] \in Seq(Functors) /\ done[k] \in Nat
        /\ done[k] <= Len(functors[k])
    BY DEF TypeOK, LoopsOK
  <2>2. Todo'[k] = Rest(functors[k], done[k], pending'[k])
    BY <1>1 DEF Todo, Rest
  <2>3. Todo[k] = Rest(functors[k], done[k], pending[k])
    BY DEF Todo, Rest
  <2>4. pending'[k] = IF k = l THEN Append(pending[k], g) ELSE pending[k]
    BY DEF TypeOK
  <2>5. Rest(functors[k], done[k], Append(pending[k], g))
          = Append(Rest(functors[k], done[k], pending[k]), g)
    BY <2>1, RestFacts, SMTT(30)
  <2> QED
    BY <2>2, <2>3, <2>4, <2>5 DEF Todo
<1> QED
  BY <1>1, <1>2 DEF Todo

\* Running the next functor takes it from the front of Todo; what the functor
\* itself queues comes to the end of some loop's.
LEMMA TodoRun ==
  ASSUME TypeOK, LoopsOK, NEW l \in Loops, done[l] < Len(functors[l]),
         done' = [done EXCEPT ![l] = @ + 1], UNCHANGED <<functors, numThreads>>
  PROVE  /\ Todo[l] # <<>> /\ Todo[l][1] = functors[l][done[l] + 1]
         /\ pending' = pending => Todo' = [Todo EXCEPT ![l] = Tail(@)]
         /\ \A m \in Loops, g \in Functors :
              pending' = [pending EXCEPT ![m] = Append(@, g)] =>
                Todo' = [[Todo EXCEPT ![l] = Tail(@)] EXCEPT ![m] = Append(@, g)]
<1>1. Loops' = Loops
  BY DEF Loops
<1> DEFINE T == [Todo EXCEPT ![l] = Tail(@)]
<1>2. ASSUME NEW k \in Loops
      PROVE  /\ functors[k] \in Seq(Functors) /\ pending[k] \in Seq(Functors)
             /\ done[k] \in Nat /\ done'[k] \in Nat /\ done'[k] <= Len(functors[k])
             /\ done[k] <= Len(functors[k])
             /\ done'[k] = IF k = l THEN done[k] + 1 ELSE done[k]
             /\ Todo'[k] = Rest(functors[k], done'[k], pending'[k])
             /\ Todo[k] = Rest(functors[k], done[k], pending[k])
  <2>1. /\ functors[k] \in Seq(Functors) /\ pending[k] \in Seq(Functors) /\ done[k] \in Nat
        /\ done[k] <= Len(functors[k]) /\ Len(functors[k]) \in Nat
    BY DEF TypeOK, LoopsOK
  <2>2. done'[k] = IF k = l THEN done[k] + 1 ELSE done[k]
    BY DEF TypeOK
  <2>3. done'[k] \in Nat /\ done'[k] <= Len(functors[k])
    BY <2>1, <2>2
  <2> QED
    BY <1>1, <2>1, <2>2, <2>3 DEF Todo, Rest
<1>4. /\ Rest(functors[l], done[l], pending[l]) # <<>>
      /\ Rest(functors[l], done[l], pending[l])[1] = functors[l][done[l] + 1]
      /\ Rest(functors[l], done[l] + 1, pending[l]) = Tail(Rest(functors[l], done[l], pending[l]))
  <2>1. /\ functors[l] \in Seq(Functors) /\ pending[l] \in Seq(Functors)
        /\ done[l] \in Nat /\ done[l] <= Len(functors[l])
    BY <1>2
  <2> QED
    BY <2>1, RestFacts, ZenonT(60)
<1>5. Todo[l] # <<>> /\ Todo[l][1] = functors[l][done[l] + 1]
  BY <1>2, <1>4, Zenon
<1>6. DOMAIN T = Loops /\ DOMAIN Todo' = Loops /\ DOMAIN Todo = Loops
  BY <1>1 DEF Todo
<1>9. ASSUME NEW k \in Loops PROVE T[k] = Rest(functors[k], done'[k], pending[k])
  <2>1. CASE k = l
    <3>1. T[l] = Tail(Todo[l])
      BY <1>6
    <3>2. Todo[l] = Rest(functors[l], done[l], pending[l]) /\ done'[l] = done[l] + 1
      BY <1>2
    <3> QED
      BY <1>4, <2>1, <3>1, <3>2, Zenon
  <2>2. CASE k # l
    <3>1. T[k] = Todo[k]
      BY <1>6, <2>2
    <3>2. Todo[k] = Rest(functors[k], done[k], pending[k]) /\ done'[k] = done[k]
      BY <1>2, <2>2
    <3> QED
      BY <3>1, <3>2, Zenon
  <2> QED
    BY <2>1, <2>2
<1>7. ASSUME pending' = pending PROVE Todo' = T
  <2>1. ASSUME NEW k \in Loops PROVE Todo'[k] = T[k]
    BY <1>2, <1>7, <1>9, Zenon
  <2> QED
    BY <1>1, <2>1 DEF Todo
<1>8. ASSUME NEW m \in Loops, NEW g \in Functors, pending' = [pending EXCEPT ![m] = Append(@, g)]
      PROVE  Todo' = [T EXCEPT ![m] = Append(@, g)]
  <2>1. ASSUME NEW k \in Loops PROVE Todo'[k] = [T EXCEPT ![m] = Append(@, g)][k]
    <3>1. pending'[k] = IF k = m THEN Append(pending[k], g) ELSE pending[k]
      BY <1>8 DEF TypeOK
    <3>2. Rest(functors[k], done'[k], Append(pending[k], g))
            = Append(Rest(functors[k], done'[k], pending[k]), g)
      <4>1. /\ functors[k] \in Seq(Functors) /\ pending[k] \in Seq(Functors)
            /\ done'[k] \in Nat /\ done'[k] <= Len(functors[k])
        BY <1>2
      <4> QED
        BY <4>1, RestFacts, SMTT(30)
    <3>3. Todo'[k] = Rest(functors[k], done'[k], pending'[k])
      BY <1>2
    <3>4. T[k] = Rest(functors[k], done'[k], pending[k])
      BY <1>9
    <3> HIDE DEF T
    <3> QED
      BY <1>6, <3>1, <3>2, <3>3, <3>4
  <2> HIDE DEF T
  <2> QED
    BY <1>1, <1>6, <2>1 DEF Todo
<1> QED
  BY <1>5, <1>7, <1>8

-----------------------------------------------------------------------------
(***************************************************************************)
(* The steps.                                                              *)
(***************************************************************************)

\* What TypeOK says of one connection.
LEMMA ConnTypes ==
  ASSUME Inv, NEW c \in Conns
  PROVE  /\ state[c] \in {"none", "kConnecting", "kConnected", "kDisconnecting", "kDisconnected"}
         /\ nextConnId \in Int /\ c \in Int
<1>1. NumConns \in Nat
  BY BoundsAssumption
<1>2. nextConnId \in Int /\ c \in Int
  BY <1>1 DEF Inv, TypeOK, Conns
<1>3. state[c] \in {"none", "kConnecting", "kConnected", "kDisconnecting", "kDisconnected"}
  BY DEF Inv, TypeOK
<1> QED
  BY <1>2, <1>3

\* A connection that a step does not concern stays in its stage.
LEMMA ConnKept ==
  ASSUME NEW c \in Conns, ConnOK(c),
         state'[c] = state[c], calls'[c] = calls[c], index'[c] = index[c],
         loopOf'[c] = loopOf[c], c \in connections' <=> c \in connections,
         c >= nextConnId' <=> c >= nextConnId, Stopping => Stopping', Over(c) => Over(c)',
         \A op \in {"established", "remove", "destroy"} :
           InTodo(Todo', op, c) <=> InTodo(Todo, op, c)
  PROVE  ConnOK(c)'
<1>2. CASE Over(c)
  BY <1>2 DEF ConnOK
<1>1. /\ InTodo(Todo', "established", c) <=> InTodo(Todo, "established", c)
      /\ InTodo(Todo', "remove", c) <=> InTodo(Todo, "remove", c)
      /\ InTodo(Todo', "destroy", c) <=> InTodo(Todo, "destroy", c)
  OBVIOUS
<1>3. CASE Stage(c)
  BY <1>1, <1>3 DEF ConnOK, Stage
<1> QED
  BY <1>2, <1>3 DEF ConnOK

\* A connection of a loop that is there is in its stage.
LEMMA InvStage ==
  ASSUME Inv, NEW c \in Conns, ~Over(c)
  PROVE  Stage(c)
BY DEF Inv, ConnOK

\* No loop is told to quit in a step, and none ends.
GoesOn == quit' = quit /\ \A k \in Loops : lpc'[k] = "ended" <=> lpc[k] = "ended"

\* Then what the destructor has done to the loops is what it had done.
LEMMA QuitKept ==
  ASSUME QuitOK, GoesOn, Loops' = Loops, Stopping => Stopping' /\ connections' \subseteq connections
  PROVE  QuitOK'
BY DEF QuitOK, GoesOn

\* A connection does not get its loop back.
LEMMA OverKept ==
  ASSUME Inv, NEW c \in Conns, \A k \in Loops : lpc[k] = "ended" => lpc'[k] = "ended",
         loopOf'[c] = loopOf[c], Over(c)
  PROVE  Over(c)'
BY DEF Over, Inv, TypeOK

\* As long as the server is not being destroyed, every loop is there; and so is one
\* that has something in hand, or whose connection is in the map.
LEMMA NotOver ==
  ASSUME Inv, NEW c \in Conns,
         ~Stopping \/ lpc[loopOf[c]] \in {"poll", "events", "run"} \/ connections # {}
  PROVE  ~Over(c)
BY DEF Over, Inv, TypeOK, QuitOK

\* A step that moves on in a loop and concerns no connection.
LEMMA QuietKeepsInv ==
  ASSUME Inv, UNCHANGED <<numThreads, nextConnId, connections, loopOf>>,
         UNCHANGED <<state, index, channels, epoll, calls>>,
         Todo' = Todo, Stopping => Stopping', TypeOK', LoopsOK', QuitOK',
         \A k \in Loops : lpc[k] = "ended" => lpc'[k] = "ended"
  PROVE  Inv'
<1>1. UNCHANGED <<numThreads, nextConnId, connections, loopOf, state, index, channels, epoll, calls>>
  OBVIOUS
<1>2. Loops' = Loops
  BY <1>1 DEF Loops
<1>3. IndexAgrees'
  BY <1>1, <1>2 DEF Inv, IndexAgrees
<1>4. QueuesOK(Todo', loopOf')
  BY <1>1 DEF Inv
<1>5. \A c \in Conns : ConnOK(c)'
  <2>1. \A c \in Conns : Over(c) => Over(c)'
    BY <1>1, OverKept
  <2> QED
    BY <1>1, <2>1, ConnKept DEF Inv
<1> QED
  BY <1>3, <1>4, <1>5 DEF Inv

\* Todo does not change where nothing is queued and nothing run.
LEMMA TodoKept ==
  ASSUME UNCHANGED <<numThreads, pending, functors, done>>
  PROVE  Todo' = Todo
BY DEF Todo, Loops

\* poll returns.
LEMMA PollKeepsInv ==
  ASSUME Inv, NEW l \in Loops, NEW ready \in SUBSET Reportable(l), Poll(l, ready)
  PROVE  Inv'
<1>1. UNCHANGED <<connections, loopOf, quit, next, numThreads, state, index, channels, epoll, calls, pending, functors, done, nextConnId>>
  BY DEF Poll, server, pollers, queues
<1>2. Loops' = Loops /\ Todo' = Todo
  BY <1>1, TodoKept DEF Loops
<1>3. ready \subseteq epoll[l] \union {Accept}
      /\ (Accept \in ready => l = MainLoop /\ nextConnId <= NumConns)
  BY DEF Reportable, Inv, TypeOK, Accept, Conns, MainLoop
<1>4. TypeOK'
  BY <1>1, <1>2, <1>3 DEF Inv, TypeOK, Poll
<1>5. LoopsOK'
  BY <1>1, <1>2, <1>3 DEF Inv, TypeOK, LoopsOK, Poll
<1>6. (Stopping => Stopping') /\ GoesOn
  BY <1>1 DEF Poll, Stopping, GoesOn, Inv, TypeOK
<1>10. QuitOK'
  BY <1>1, <1>2, <1>6, QuitKept DEF Inv
<1> QED
  BY <1>1, <1>2, <1>4, <1>5, <1>6, <1>10, QuietKeepsInv DEF GoesOn

\* What is left of a vector not begun, of none and of one that is done.
LEMMA RestEnds ==
  ASSUME NEW S, NEW f \in Seq(S), NEW p \in Seq(S)
  PROVE  Rest(p, 0, <<>>) = p /\ Rest(<<>>, 0, p) = p /\ Rest(f, Len(f), p) = p
<1>1. <<>> \in Seq(S) /\ Len(<<>>) = 0 /\ 0 + 1 = 1 /\ Len(f) \in Nat
  OBVIOUS
<1>2. SubSeq(p, 0 + 1, Len(p)) = p
  BY <1>1, SubSeqFull
<1>3. SubSeq(<<>>, 0 + 1, Len(<<>>)) = <<>>
  BY <1>1, SubSeqEmpty
<1>4. SubSeq(f, Len(f) + 1, Len(f)) = <<>>
  BY <1>1, SubSeqEmpty
<1>5. p \o <<>> = p /\ <<>> \o p = p
  BY ConcatEmptySeq
<1> QED
  BY <1>2, <1>3, <1>4, <1>5, Zenon DEF Rest

\* Todo is what is left in each loop.
LEMMA TodoByRest ==
  ASSUME Loops' = Loops,
         \A k \in Loops : Rest(functors'[k], done'[k], pending'[k])
                             = Rest(functors[k], done[k], pending[k])
  PROVE  Todo' = Todo
BY DEF Todo, Rest

\* doPendingFunctors: the swap.
LEMMA SwapKeepsInv ==
  ASSUME Inv, NEW l \in Loops, SwapFunctors(l)
  PROVE  Inv'
<1> USE DEF SwapFunctors
<1>1. UNCHANGED <<connections, loopOf, quit, next, numThreads, state, index, channels, epoll, calls, active, nextConnId>>
  BY DEF server, pollers
<1>2. Loops' = Loops
  BY <1>1 DEF Loops
<1>3. functors[l] = <<>> /\ done[l] = 0 /\ pending[l] \in Seq(Functors)
  BY DEF Inv, TypeOK, LoopsOK
<1>4. TypeOK'
  BY <1>1, <1>2, <1>3 DEF Inv, TypeOK
<1>5. LoopsOK'
  BY <1>1, <1>2, <1>3 DEF Inv, TypeOK, LoopsOK
<1>6. (Stopping => Stopping') /\ GoesOn
  BY <1>1 DEF Stopping, GoesOn, Inv, TypeOK
<1>10. QuitOK'
  BY <1>1, <1>2, <1>6, QuitKept DEF Inv
<1>7. \A k \in Loops \ {l} : functors'[k] = functors[k] /\ pending'[k] = pending[k] /\ done'[k] = done[k]
  BY DEF Inv, TypeOK
<1>8. functors'[l] = pending[l] /\ pending'[l] = <<>> /\ done'[l] = 0
  BY DEF Inv, TypeOK
<1>9. Todo' = Todo
  <2>1. Rest(pending[l], 0, <<>>) = pending[l] /\ Rest(<<>>, 0, pending[l]) = pending[l]
    BY <1>3, RestEnds
  <2>2. ASSUME NEW k \in Loops
        PROVE  Rest(functors'[k], done'[k], pending'[k]) = Rest(functors[k], done[k], pending[k])
    <3>1. CASE k = l
      BY <1>3, <1>8, <2>1, <3>1, Zenon
    <3>2. CASE k # l
      BY <1>7, <3>2
    <3> QED
      BY <3>1, <3>2
  <2> QED
    BY <1>2, <2>2, TodoByRest
<1> QED
  BY <1>1, <1>4, <1>5, <1>6, <1>9, <1>10, QuietKeepsInv DEF GoesOn

\* doPendingFunctors returns, and lets go of what it has run.
LEMMA EndKeepsInv ==
  ASSUME Inv, NEW l \in Loops, EndFunctors(l)
  PROVE  Inv'
<1> USE DEF EndFunctors
<1>1. UNCHANGED <<connections, loopOf, quit, next, numThreads, state, index, channels, epoll, calls, active, pending, nextConnId>>
  BY DEF server, pollers
<1>2. Loops' = Loops
  BY <1>1 DEF Loops
<1>3. functors[l] \in Seq(Functors) /\ Len(functors[l]) \in Nat /\ done[l] = Len(functors[l])
  BY DEF Inv, TypeOK
<1>4. TypeOK'
  BY <1>1, <1>2, <1>3 DEF Inv, TypeOK
<1>5. LoopsOK'
  BY <1>1, <1>2, <1>3 DEF Inv, TypeOK, LoopsOK
<1>6. (Stopping => Stopping') /\ GoesOn
  BY <1>1 DEF Stopping, GoesOn, Inv, TypeOK
<1>10. QuitOK'
  BY <1>1, <1>2, <1>6, QuitKept DEF Inv
<1>7. \A k \in Loops \ {l} : functors'[k] = functors[k] /\ done'[k] = done[k]
  BY DEF Inv, TypeOK
<1>8. functors'[l] = <<>> /\ done'[l] = 0
  BY DEF Inv, TypeOK
<1>9. Todo' = Todo
  <2>1. /\ Rest(<<>>, 0, pending[l]) = pending[l]
        /\ Rest(functors[l], Len(functors[l]), pending[l]) = pending[l]
    BY <1>3, RestEnds DEF Inv, TypeOK
  <2>2. ASSUME NEW k \in Loops
        PROVE  Rest(functors'[k], done'[k], pending'[k]) = Rest(functors[k], done[k], pending[k])
    <3>1. CASE k = l
      BY <1>1, <1>3, <1>8, <2>1, <3>1, Zenon
    <3>2. CASE k # l
      BY <1>1, <1>7, <3>2
    <3> QED
      BY <3>1, <3>2
  <2> QED
    BY <1>2, <2>2, TodoByRest
<1> QED
  BY <1>1, <1>4, <1>5, <1>6, <1>9, <1>10, QuietKeepsInv DEF GoesOn

\* accept() fails, the loop is told to quit, a peer closes.
LEMMA OtherQuietKeepsInv ==
  ASSUME Inv, AcceptFails \/ Quit \/ (\E c \in Conns : PeerCloses(c))
  PROVE  Inv'
<1>1. UNCHANGED <<connections, loopOf, quit, next, numThreads, state, index, channels, epoll, calls, pending, functors, done, nextConnId>>
  BY DEF AcceptFails, Quit, PeerCloses, server, pollers, queues
<1>2. Loops' = Loops /\ Todo' = Todo /\ MainLoop \in Loops
  BY <1>1, TodoKept DEF Loops, MainLoop, Inv, TypeOK
<1>6. (Stopping => Stopping') /\ GoesOn
  BY <1>1 DEF AcceptFails, Quit, PeerCloses, Stopping, GoesOn, Inv, TypeOK
<1>7. QuitOK'
  BY <1>1, <1>2, <1>6, QuitKept DEF Inv
<1>3. CASE AcceptFails
  <2>1. TypeOK'
    BY <1>1, <1>2, <1>3 DEF Inv, TypeOK, AcceptFails, Handled
  <2>2. LoopsOK'
    BY <1>1, <1>2, <1>3 DEF Inv, TypeOK, LoopsOK, AcceptFails, Handled
  <2> QED
    BY <1>1, <1>2, <1>3, <2>1, <2>2, <1>6, <1>7, QuietKeepsInv DEF GoesOn
<1>4. CASE Quit
  <2>1. TypeOK'
    BY <1>1, <1>2, <1>4 DEF Inv, TypeOK, Quit
  <2>2. LoopsOK'
    BY <1>1, <1>2, <1>4 DEF Inv, TypeOK, LoopsOK, Quit
  <2> QED
    BY <1>1, <1>2, <2>1, <2>2, <1>6, <1>7, QuietKeepsInv DEF GoesOn
<1>5. CASE \E c \in Conns : PeerCloses(c)
  <2>1. UNCHANGED <<active, lpc>>
    BY <1>5 DEF PeerCloses
  <2>2. TypeOK' /\ LoopsOK'
    BY <1>1, <1>2, <2>1 DEF Inv, TypeOK, LoopsOK
  <2> QED
    BY <1>1, <1>2, <2>1, <2>2, <1>6, <1>7, QuietKeepsInv DEF GoesOn
<1> QED
  BY <1>3, <1>4, <1>5

\* queueInLoop, with what it means for the functors on their way.
LEMMA Queued ==
  ASSUME NEW l, NEW home, NEW op, NEW c, TypeOK, LoopsOK, l \in Loops, c \in Conns,
         op \in {"established", "remove", "destroy"},
         pending' = [pending EXCEPT ![l] = Append(@, Functor(op, c))],
         UNCHANGED <<functors, done, numThreads>>,
         QueuesOK(Todo, home), ~InTodo(Todo, op, c),
         op = "remove" => l = MainLoop, op # "remove" => l = home[c],
         op = "established" => ~InTodo(Todo, "destroy", c)
  PROVE  /\ pending' \in [Loops -> Seq(Functors)]
         /\ QueuesOK(Todo', home) /\ OneMore(Todo, Todo', op, c)
<1>1. Functor(op, c) \in Functors
  BY DEF Functor, Functors
<1>2. Todo' = [Todo EXCEPT ![l] = Append(@, Functor(op, c))]
  BY <1>1, TodoQueue
<1>3. Todo \in [Loops -> Seq(Functors)]
  BY TodoType
<1>4. pending' \in [Loops -> Seq(Functors)]
  BY <1>1 DEF TypeOK
<1>5. Appends(Loops, Todo, Todo', home, l, op, c)
  BY <1>1, <1>2, <1>3 DEF Appends
<1> QED
  BY <1>4, <1>5, QueueAppends

\* A step that concerns one connection: what it owes is that connection's stage.
LEMMA OneConnection ==
  ASSUME Inv, NEW c \in Conns, TypeOK', LoopsOK', IndexAgrees', QueuesOK(Todo', loopOf'),
         Stopping => Stopping' /\ connections' \subseteq connections, ConnOK(c)',
         UNCHANGED <<numThreads, quit, lpc>>,
         \A d \in Conns \ {c} :
           /\ state'[d] = state[d] /\ calls'[d] = calls[d] /\ index'[d] = index[d]
           /\ loopOf'[d] = loopOf[d] /\ (d \in connections' <=> d \in connections)
           /\ d >= nextConnId' <=> d >= nextConnId,
         \A d \in Conns \ {c}, op \in {"established", "remove", "destroy"} :
           InTodo(Todo', op, d) <=> InTodo(Todo, op, d)
  PROVE  Inv'
<1>1. GoesOn /\ Loops' = Loops
  BY DEF GoesOn, Loops
<1>2. QuitOK'
  BY <1>1, QuitKept DEF Inv
<1>3. \A d \in Conns \ {c} : Over(d) => Over(d)'
  BY <1>1, OverKept DEF GoesOn
<1>4. \A d \in Conns \ {c} : ConnOK(d)'
  BY <1>3, ConnKept DEF Inv
<1> QED
  BY <1>2, <1>4 DEF Inv

\* updateChannel, called in the loop of the connection, keeps index_ and poller
\* together; a connection that no poller knows may have been given its loop just now.
LEMMA UpdateAgrees ==
  ASSUME TypeOK, IndexAgrees, NEW c \in Conns, NEW on \in BOOLEAN, UNCHANGED numThreads,
         loopOf' \in [Conns -> Loops], \A d \in Conns \ {c} : loopOf'[d] = loopOf[d],
         index[c] = "kNew" \/ loopOf'[c] = loopOf[c],
         UpdateChannel(c, loopOf'[c], on)
  PROVE  /\ IndexAgrees'
         /\ index' \in [Conns -> {"kNew", "kAdded", "kDeleted"}]
         /\ channels' \in [Loops -> SUBSET Conns] /\ epoll' \in [Loops -> SUBSET Conns]
         /\ \A d \in Conns \ {c} : index'[d] = index[d]
         /\ index'[c] = IF index[c] = "kAdded" /\ ~on THEN "kDeleted" ELSE "kAdded"
         /\ \A l \in Loops : epoll[l] \ {c} \subseteq epoll'[l]
         /\ on \/ index[c] # "kAdded" => \A l \in Loops : epoll[l] \subseteq epoll'[l]
         /\ \A l \in Loops \ {loopOf'[c]} : epoll'[l] = epoll[l]
<1> DEFINE m == loopOf'[c]
<1>0. Loops' = Loops /\ m \in Loops
  BY DEF Loops
<1>1. CASE index[c] # "kAdded"
  <2>1. /\ channels' = [channels EXCEPT ![m] = IF index[c] = "kNew" THEN @ \union {c} ELSE @]
        /\ index' = [index EXCEPT ![c] = "kAdded"]
        /\ epoll' = [epoll EXCEPT ![m] = @ \union {c}]
    BY <1>1 DEF UpdateChannel
  <2>2. IndexAgrees'
    BY <1>0, <1>1, <2>1, SMTT(30) DEF TypeOK, IndexAgrees
  <2> QED
    BY <1>0, <1>1, <2>1, <2>2 DEF TypeOK
<1>2. CASE index[c] = "kAdded"
  <2>1. /\ channels' = channels
        /\ index' = [index EXCEPT ![c] = IF on THEN "kAdded" ELSE "kDeleted"]
        /\ epoll' = [epoll EXCEPT ![m] = IF on THEN @ ELSE @ \ {c}]
    BY <1>2 DEF UpdateChannel
  <2>2. IndexAgrees'
    BY <1>0, <1>2, <2>1 DEF TypeOK, IndexAgrees
  <2> QED
    BY <1>0, <1>2, <2>1, <2>2 DEF TypeOK
<1> QED
  BY <1>1, <1>2

\* removeChannel, in the loop of the connection, forgets the channel everywhere.
LEMMA RemoveAgrees ==
  ASSUME TypeOK, IndexAgrees, NEW c \in Conns, NEW off, UNCHANGED <<numThreads, loopOf>>,
         RemoveChannel(c, loopOf[c], off)
  PROVE  /\ IndexAgrees'
         /\ index' \in [Conns -> {"kNew", "kAdded", "kDeleted"}]
         /\ channels' \in [Loops -> SUBSET Conns] /\ epoll' \in [Loops -> SUBSET Conns]
         /\ \A d \in Conns \ {c} : index'[d] = index[d]
         /\ index'[c] = "kNew"
         /\ \A l \in Loops \ {loopOf[c]} : epoll'[l] = epoll[l]
<1>0. Loops' = Loops /\ loopOf[c] \in Loops
  BY DEF Loops, TypeOK
<1>1. /\ channels' = [channels EXCEPT ![loopOf[c]] = @ \ {c}]
      /\ epoll' = IF index[c] = "kAdded" THEN [epoll EXCEPT ![loopOf[c]] = @ \ {c}] ELSE epoll
      /\ index' = [index EXCEPT ![c] = "kNew"]
  BY DEF RemoveChannel
<1>2. IndexAgrees'
  BY <1>0, <1>1 DEF TypeOK, IndexAgrees
<1> QED
  BY <1>0, <1>1, <1>2 DEF TypeOK

\* A connection that no functor is bound to may be given a loop.
LEMMA QueuesRehomed ==
  ASSUME NEW Ls, NEW T \in [Ls -> Seq(Functors)], NEW home, NEW home2, QueuesOK(T, home),
         NEW c \in Conns, \A d \in Conns \ {c} : home2[d] = home[d],
         \A op \in {"established", "remove", "destroy"} : ~InTodo(T, op, c)
  PROVE  QueuesOK(T, home2)
<1>1. ASSUME NEW l \in Ls, NEW i \in 1 .. Len(T[l])
      PROVE  home2[T[l][i].conn] = home[T[l][i].conn]
  <2>1. T[l][i] \in Functors
    OBVIOUS
  <2>2. T[l][i] = Functor(T[l][i].op, T[l][i].conn) /\ T[l][i].conn \in Conns
        /\ T[l][i].op \in {"established", "remove", "destroy"}
    BY <2>1 DEF Functor, Functors
  <2>3. T[l][i].conn # c
    BY <2>2 DEF InTodo
  <2> QED
    BY <2>2, <2>3
<1> QED
  BY <1>1 DEF QueuesOK

-----------------------------------------------------------------------------
(***************************************************************************)
(* The steps that concern a connection.                                    *)
(***************************************************************************)

\* The message callback, which may shut down.
LEMMA ReadKeepsInv ==
  ASSUME Inv, NEW l \in Loops, NEW c \in Conns, HandleRead(l, c)
  PROVE  Inv'
<1> USE DEF HandleRead, Handled
<1>1. UNCHANGED <<numThreads, quit, nextConnId, next, connections, loopOf, index, channels, epoll,
                  lpc, pending, functors, done, calls>>
  BY DEF server, pollers, queues
<1>2. Loops' = Loops /\ Todo' = Todo
  BY <1>1, TodoKept DEF Loops
<1>3. state' = state \/ (state[c] = "kConnected" /\ state' = [state EXCEPT ![c] = "kDisconnecting"])
  OBVIOUS
<1>4. TypeOK'
  <2>1. state' \in [Conns -> {"none", "kConnecting", "kConnected", "kDisconnecting", "kDisconnected"}]
    BY <1>3 DEF Inv, TypeOK
  <2> QED
    BY <1>1, <1>2, <2>1 DEF Inv, TypeOK
<1>5. LoopsOK'
  BY <1>1, <1>2 DEF Inv, TypeOK, LoopsOK
<1>6. IndexAgrees' /\ QueuesOK(Todo', loopOf')
  BY <1>1, <1>2 DEF Inv, IndexAgrees
<1>7. ConnOK(c)'
  <2>4. c # Accept /\ c \in active[l] /\ lpc[l] = "events"
    BY DEF Conns, Accept
  <2>5. l = loopOf[c]
    BY <2>4 DEF Inv, LoopsOK, IndexAgrees
  <2>1. Stage(c)
    BY <2>4, <2>5, NotOver, InvStage
  <2>2. CASE state' = state
    BY <1>1, <1>2, <2>1, <2>2 DEF ConnOK, Stage, Stopping
  <2>3. CASE state[c] = "kConnected" /\ state'[c] = "kDisconnecting"
    BY <1>1, <1>2, <2>1, <2>3 DEF ConnOK, Stage, Stopping
  <2> QED
    BY <1>3, <2>2, <2>3 DEF Inv, TypeOK
<1>8. \A d \in Conns \ {c} : state'[d] = state[d]
  BY <1>3 DEF Inv, TypeOK
<1> QED
  BY <1>1, <1>2, <1>4, <1>5, <1>6, <1>7, <1>8, OneConnection DEF Stopping

\* The callbacks that a step appends.
LEMMA CallsAppended ==
  ASSUME TypeOK, NEW c \in Conns, NEW what, Called(c, what),
         (calls[c] = <<>> /\ what = "up") \/ (calls[c] = <<"up">> /\ what = "down")
  PROVE  /\ calls' \in [Conns -> {<<>>, <<"up">>, <<"up", "down">>}]
         /\ calls'[c] = IF what = "up" THEN <<"up">> ELSE <<"up", "down">>
         /\ \A d \in Conns \ {c} : calls'[d] = calls[d]
<1>1. Append(<<>>, "up") = <<"up">> /\ Append(<<"up">>, "down") = <<"up", "down">>
  <2> DEFINE S == {"up", "down"}
             q == Append(<<"up">>, "down")
  <2>1. Append(<<>>, "up") = <<"up">>
    OBVIOUS
  <2>2. <<"up", "down">> \in Seq(S) /\ Len(<<"up", "down">>) = 2
    OBVIOUS
  <2>3. q \in Seq(S) /\ Len(q) = 2 /\ q[1] = "up" /\ q[2] = "down"
    OBVIOUS
  <2>4. \A i \in 1 .. 2 : q[i] = <<"up", "down">>[i]
    BY <2>3
  <2>5. q = <<"up", "down">>
    BY <2>2, <2>3, <2>4, SeqEqual
  <2> QED
    BY <2>1, <2>5
<1>2. calls'[c] = Append(calls[c], what) /\ \A d \in Conns \ {c} : calls'[d] = calls[d]
  BY DEF Called, TypeOK
<1>3. calls'[c] = IF what = "up" THEN <<"up">> ELSE <<"up", "down">>
  BY <1>1, <1>2
<1>4. calls' \in [Conns -> {<<>>, <<"up">>, <<"up", "down">>}]
  <2>1. calls' = [d \in Conns |-> calls'[d]]
    BY DEF Called, TypeOK
  <2>2. \A d \in Conns : calls'[d] \in {<<>>, <<"up">>, <<"up", "down">>}
    BY <1>2, <1>3 DEF TypeOK
  <2> QED
    BY <2>1, <2>2
<1> QED
  BY <1>2, <1>3, <1>4

\* The closing event: the channel is disabled, the user told, the removal begun.
LEMMA CloseKeepsInv ==
  ASSUME Inv, NEW l \in Loops, NEW c \in Conns, HandleClose(l, c)
  PROVE  Inv'
<1>1. UNCHANGED <<numThreads, quit, nextConnId, next, loopOf, lpc, functors, done>>
  BY DEF HandleClose
<1>2. Loops' = Loops /\ MainLoop \in Loops
  BY <1>1 DEF Loops, MainLoop, Inv, TypeOK
<1>3. c # Accept /\ c \in active[l] /\ lpc[l] = "events"
  BY DEF HandleClose, Conns, Accept
<1>4. l = loopOf[c] /\ index[c] = "kAdded"
  BY <1>3 DEF Inv, LoopsOK, IndexAgrees
<1>5. Stage(c)
  BY <1>3, <1>4, NotOver, InvStage
<1>6. /\ state[c] \in {"kConnected", "kDisconnecting"} /\ calls[c] = <<"up">>
      /\ ~InTodo(Todo, "established", c) /\ ~InTodo(Todo, "remove", c)
      /\ InTodo(Todo, "destroy", c) => Stopping /\ c \notin connections
      /\ c \in connections \/ InTodo(Todo, "destroy", c)
      /\ c < nextConnId
  <2>1. state[c] \in {"none", "kConnecting", "kConnected", "kDisconnecting", "kDisconnected"}
        /\ nextConnId \in Int /\ c \in Int
    BY ConnTypes
  <2>2. state[c] \in {"kConnected", "kDisconnecting"}
    BY <1>4, <1>5, <2>1 DEF ConnOK, Stage
  <2> QED
    BY <1>4, <1>5, <2>1, <2>2 DEF ConnOK, Stage
<1>7. /\ IndexAgrees'
      /\ index' \in [Conns -> {"kNew", "kAdded", "kDeleted"}]
      /\ channels' \in [Loops -> SUBSET Conns] /\ epoll' \in [Loops -> SUBSET Conns]
      /\ \A d \in Conns \ {c} : index'[d] = index[d]
      /\ index'[c] = "kDeleted"
      /\ \A k \in Loops : epoll[k] \ {c} \subseteq epoll'[k]
      /\ \A k \in Loops \ {l} : epoll'[k] = epoll[k]
  <2>1. TypeOK /\ IndexAgrees /\ loopOf' \in [Conns -> Loops] /\ UpdateChannel(c, loopOf'[c], FALSE)
    BY <1>1, <1>4 DEF Inv, TypeOK, HandleClose
  <2> QED
    BY <1>1, <1>4, <2>1, UpdateAgrees
<1>8. /\ calls' \in [Conns -> {<<>>, <<"up">>, <<"up", "down">>}]
      /\ calls'[c] = <<"up", "down">>
      /\ \A d \in Conns \ {c} : calls'[d] = calls[d]
  BY <1>6, CallsAppended DEF HandleClose, Inv
<1>9. /\ state' \in [Conns -> {"none", "kConnecting", "kConnected", "kDisconnecting", "kDisconnected"}]
      /\ state'[c] = "kDisconnected" /\ \A d \in Conns \ {c} : state'[d] = state[d]
  BY DEF HandleClose, Inv, TypeOK
<1>10. Stopping' <=> Stopping
  BY <1>1 DEF Stopping
<1> DEFINE op == IF l = MainLoop THEN "destroy" ELSE "remove"
<1>11. /\ pending' = [pending EXCEPT ![MainLoop] = Append(@, Functor(op, c))]
       /\ connections' = IF l = MainLoop THEN connections \ {c} ELSE connections
  BY <1>4 DEF HandleClose, Erase, Queue
<1>12. Functor(op, c) \in Functors
  BY DEF Functor, Functors
<1>13. TypeOK'
  <2>1. pending' \in [Loops -> Seq(Functors)]
    BY <1>2, <1>11, <1>12 DEF Inv, TypeOK
  <2>2. active' \in [Loops -> SUBSET (Conns \union {Accept})] /\ connections' \subseteq Conns
    BY <1>11 DEF HandleClose, Handled, Inv, TypeOK
  <2> QED
    BY <1>1, <1>2, <1>7, <1>8, <1>9, <2>1, <2>2 DEF Inv, TypeOK
<1>14. LoopsOK'
  <2>1. \A k \in Loops : active'[k] = IF k = l THEN active[k] \ {c} ELSE active[k]
    BY DEF HandleClose, Handled, Inv, TypeOK
  <2>2. LoopsOK
    BY DEF Inv
  <2>3. ASSUME NEW k \in Loops PROVE active'[k] \subseteq epoll'[k] \union {Accept}
    BY <1>7, <2>1, <2>2 DEF LoopsOK
  <2> QED
    BY <1>1, <1>2, <2>1, <2>2, <2>3 DEF LoopsOK
<1>15. Todo' = [Todo EXCEPT ![MainLoop] = Append(@, Functor(op, c))]
  BY <1>1, <1>2, <1>11, <1>12, TodoQueue DEF Inv
<1>16. op = "destroy" => ~InTodo(Todo, "destroy", c) /\ loopOf[c] = MainLoop /\ ~Stopping
  BY <1>3, <1>4, <1>6 DEF Stopping
<1>17. QueuesOK(Todo', loopOf) /\ OneMore(Todo, Todo', op, c)
  <2>1. Todo \in [Loops -> Seq(Functors)]
    BY TodoType DEF Inv
  <2>2. ~InTodo(Todo, op, c) /\ (op # "remove" => MainLoop = loopOf[c])
        /\ op \in {"established", "remove", "destroy"} /\ op # "established"
    BY <1>6, <1>16
  <2>3. QueuesOK(Todo, loopOf)
    BY DEF Inv
  <2> HIDE DEF op
  <2> QED
    BY <1>1, <1>2, <1>11, <2>2, <2>3, Queued DEF Inv
<1>18. ConnOK(c)'
  <2>1. ~InTodo(Todo', "established", c)
        /\ (InTodo(Todo', "remove", c) <=> l # MainLoop)
        /\ (InTodo(Todo', "destroy", c) <=> InTodo(Todo, "destroy", c) \/ l = MainLoop)
    BY <1>6, <1>17 DEF OneMore
  <2>2. c < nextConnId' /\ c \in Int /\ nextConnId' \in Int
    BY <1>1, <1>6, ConnTypes
  <2>3. l = MainLoop => c \notin connections'
    BY <1>11
  <2>4. l # MainLoop => (c \in connections' <=> c \in connections)
    BY <1>11
  <2> HIDE DEF op
  <2> QED
    <3>1. CASE l = MainLoop
      BY <1>6, <1>7, <1>8, <1>9, <1>10, <2>1, <2>2, <2>3, <3>1, SMTT(30) DEF ConnOK, Stage
    <3>2. CASE l # MainLoop
      BY <1>6, <1>7, <1>8, <1>9, <1>10, <2>1, <2>2, <2>4, <3>2, SMTT(30) DEF ConnOK, Stage
    <3> QED
      BY <3>1, <3>2
<1>21. connections' \subseteq connections
  BY <1>11
<1>19. \A d \in Conns \ {c} : d \in connections' <=> d \in connections
  BY <1>11
<1>20. \A d \in Conns \ {c}, o \in {"established", "remove", "destroy"} :
         InTodo(Todo', o, d) <=> InTodo(Todo, o, d)
  BY <1>17 DEF OneMore
<1> HIDE DEF op
<1> QED
  BY <1>1, <1>7, <1>8, <1>9, <1>10, <1>13, <1>14, <1>17, <1>18, <1>19, <1>20, <1>21, OneConnection

\* doPendingFunctors runs the next functor.
LEMMA Ran ==
  ASSUME NEW l, NEW op, NEW c, Inv, l \in Loops, c \in Conns,
         op \in {"established", "remove", "destroy"}, Runs(l, op, c), UNCHANGED numThreads
  PROVE  /\ InTodo(Todo, op, c)
         /\ op = "remove" => l = MainLoop
         /\ op # "remove" => l = loopOf[c]
         /\ op = "destroy" => ~InTodo(Todo, "established", c)
         /\ pending' = pending => QueuesOK(Todo', loopOf) /\ OneLess(Todo, Todo', op, c)
<1> DEFINE U == [Todo EXCEPT ![l] = Tail(@)]
<1>1. /\ done[l] < Len(functors[l]) /\ done' = [done EXCEPT ![l] = @ + 1]
      /\ UNCHANGED <<functors, numThreads>> /\ functors[l][done[l] + 1] = Functor(op, c)
  BY DEF Runs
<1>2. /\ Todo[l] # <<>> /\ Todo[l][1] = functors[l][done[l] + 1]
      /\ pending' = pending => Todo' = U
  BY <1>1, TodoRun DEF Inv
<1>3. Todo \in [Loops -> Seq(Functors)]
  BY TodoType DEF Inv
<1>4. Tail(Todo[l]) \in Seq(Functors)
  BY <1>2, <1>3, HeadTailProperties
<1>5. U \in [Loops -> Seq(Functors)] /\ U[l] = Tail(Todo[l]) /\ \A k \in Loops \ {l} : U[k] = Todo[k]
  BY <1>3, <1>4
<1> HIDE DEF U
<1>6. Takes(Loops, Todo, U, loopOf, l, op, c)
  BY <1>1, <1>2, <1>3, <1>5 DEF Takes, Inv
<1>7. /\ QueuesOK(U, loopOf) /\ InTodo(Todo, op, c) /\ OneLess(Todo, U, op, c)
      /\ op = "remove" => l = MainLoop
      /\ op # "remove" => l = loopOf[c]
      /\ op = "destroy" => ~InTodo(Todo, "established", c)
  BY <1>6, RunTakes
<1>8. pending' = pending => QueuesOK(Todo', loopOf) /\ OneLess(Todo, Todo', op, c)
  BY <1>2, <1>7, Zenon
<1> QED
  BY <1>7, <1>8, Zenon

\* What Runs leaves of TypeOK and LoopsOK for the functor itself to keep.
LEMMA RunsLoops ==
  ASSUME Inv, NEW l \in Loops, NEW op, NEW c, Runs(l, op, c), UNCHANGED numThreads,
         nextConnId' = nextConnId,
         \A k \in Loops \ {l} : epoll[k] \subseteq epoll'[k]
  PROVE  /\ done' \in [Loops -> Nat] /\ LoopsOK' /\ (Stopping' <=> Stopping)
         /\ UNCHANGED <<active, lpc, functors>>
<1>1. /\ done[l] < Len(functors[l]) /\ done' = [done EXCEPT ![l] = @ + 1] /\ lpc[l] = "run"
      /\ UNCHANGED <<functors, lpc, active>>
  BY DEF Runs
<1>2. Loops' = Loops
  BY DEF Loops
<1>3. functors[l] \in Seq(Functors) /\ Len(functors[l]) \in Nat /\ done[l] \in Nat
  BY DEF Inv, TypeOK
<1>4. done' \in [Loops -> Nat] /\ \A k \in Loops : done'[k] = IF k = l THEN done[k] + 1 ELSE done[k]
  BY <1>1, <1>3 DEF Inv, TypeOK
<1>5. LoopsOK /\ active[l] = {}
  BY <1>1 DEF Inv, LoopsOK
<1>6. ASSUME NEW k \in Loops PROVE done'[k] <= Len(functors'[k])
  BY <1>1, <1>3, <1>4, <1>5 DEF LoopsOK
<1>7. ASSUME NEW k \in Loops PROVE active'[k] \subseteq epoll'[k] \union {Accept}
  BY <1>1, <1>5 DEF LoopsOK
<1>8. LoopsOK'
  BY <1>1, <1>2, <1>4, <1>5, <1>6, <1>7 DEF LoopsOK
<1> QED
  BY <1>1, <1>4, <1>8 DEF Stopping

\* connectEstablished, run by the loop of the connection.
LEMMA EstablishedKeepsInv ==
  ASSUME Inv, NEW l \in Loops, NEW c \in Conns, RunEstablished(l, c)
  PROVE  Inv'
<1>1. /\ Runs(l, "established", c) /\ UNCHANGED <<numThreads, quit, nextConnId, next, connections, loopOf, pending>>
      /\ state' = [state EXCEPT ![c] = "kConnected"] /\ UpdateChannel(c, l, TRUE) /\ Called(c, "up")
  BY DEF RunEstablished, Established, server
<1>2. /\ InTodo(Todo, "established", c) /\ l = loopOf[c]
      /\ QueuesOK(Todo', loopOf) /\ OneLess(Todo, Todo', "established", c)
  BY <1>1, Ran
<1>3. Loops' = Loops
  BY <1>1 DEF Loops
<1>13. lpc[l] = "run"
  BY <1>1 DEF Runs
<1>4. Stage(c) /\ TypeOK /\ IndexAgrees
  BY <1>2, <1>13, NotOver, InvStage DEF Inv
<1>5. state[c] = "kConnecting" /\ calls[c] = <<>> /\ index[c] = "kNew"
  BY <1>2, <1>4 DEF ConnOK, Stage
<1>6. /\ IndexAgrees'
      /\ index' \in [Conns -> {"kNew", "kAdded", "kDeleted"}]
      /\ channels' \in [Loops -> SUBSET Conns] /\ epoll' \in [Loops -> SUBSET Conns]
      /\ \A d \in Conns \ {c} : index'[d] = index[d]
      /\ index'[c] = "kAdded"
      /\ \A k \in Loops \ {l} : epoll'[k] = epoll[k]
  <2>1. loopOf' \in [Conns -> Loops] /\ UpdateChannel(c, loopOf'[c], TRUE)
    BY <1>1, <1>2, <1>4 DEF TypeOK
  <2> QED
    BY <1>1, <1>2, <1>4, <1>5, <2>1, UpdateAgrees
<1>7. /\ calls' \in [Conns -> {<<>>, <<"up">>, <<"up", "down">>}]
      /\ calls'[c] = <<"up">>
      /\ \A d \in Conns \ {c} : calls'[d] = calls[d]
  BY <1>1, <1>4, <1>5, CallsAppended
<1>8. /\ state' \in [Conns -> {"none", "kConnecting", "kConnected", "kDisconnecting", "kDisconnected"}]
      /\ state'[c] = "kConnected" /\ \A d \in Conns \ {c} : state'[d] = state[d]
  BY <1>1, <1>4 DEF TypeOK
<1>9. /\ done' \in [Loops -> Nat] /\ LoopsOK' /\ (Stopping' <=> Stopping)
      /\ UNCHANGED <<active, lpc, functors>>
  BY <1>1, <1>6, RunsLoops
<1>10. TypeOK'
  BY <1>1, <1>3, <1>4, <1>6, <1>7, <1>8, <1>9 DEF TypeOK
<1>11. ConnOK(c)'
  <2>1. /\ ~InTodo(Todo', "established", c)
        /\ InTodo(Todo', "remove", c) <=> InTodo(Todo, "remove", c)
        /\ InTodo(Todo', "destroy", c) <=> InTodo(Todo, "destroy", c)
    BY <1>2 DEF OneLess
  <2> QED
    BY <1>1, <1>4, <1>5, <1>6, <1>7, <1>8, <1>9, <2>1 DEF ConnOK, Stage
<1>12. \A d \in Conns \ {c}, o \in {"established", "remove", "destroy"} :
         InTodo(Todo', o, d) <=> InTodo(Todo, o, d)
  BY <1>2 DEF OneLess
<1> QED
  BY <1>1, <1>2, <1>6, <1>7, <1>8, <1>9, <1>10, <1>11, <1>12, OneConnection

\* removeConnectionInLoop, run by the main loop: the connection is in the map still.
LEMMA RemoveKeepsInv ==
  ASSUME Inv, NEW l \in Loops, NEW c \in Conns, RunRemove(l, c)
  PROVE  Inv'
<1>1. /\ Runs(l, "remove", c) /\ connections' = connections \ {c}
      /\ pending' = [pending EXCEPT ![loopOf[c]] = Append(@, Functor("destroy", c))]
      /\ UNCHANGED <<numThreads, quit, nextConnId, next, loopOf, state, index, channels, epoll, calls>>
  BY DEF RunRemove, Erase, Queue, pollers
<1>2. Loops' = Loops
  BY <1>1 DEF Loops
<1>3. TypeOK /\ IndexAgrees
  BY DEF Inv
<1>4. loopOf[c] \in Loops /\ Functor("destroy", c) \in Functors
  BY <1>3 DEF TypeOK, Functor, Functors
<1>5. InTodo(Todo, "remove", c) /\ l = MainLoop
  BY <1>1, Ran
<1>6. PICK U \in [Loops -> Seq(Functors)] :
        /\ QueuesOK(U, loopOf) /\ OneLess(Todo, U, "remove", c)
        /\ Todo' = [U EXCEPT ![loopOf[c]] = Append(@, Functor("destroy", c))]
  <2> DEFINE V == [Todo EXCEPT ![l] = Tail(@)]
  <2>1. /\ done[l] < Len(functors[l]) /\ done' = [done EXCEPT ![l] = @ + 1]
        /\ UNCHANGED <<functors, numThreads>> /\ functors[l][done[l] + 1] = Functor("remove", c)
    BY <1>1 DEF Runs
  <2>2. /\ Todo[l] # <<>> /\ Todo[l][1] = functors[l][done[l] + 1]
        /\ \A m \in Loops, g \in Functors :
             pending' = [pending EXCEPT ![m] = Append(@, g)] => Todo' = [V EXCEPT ![m] = Append(@, g)]
    BY <2>1, TodoRun DEF Inv
  <2>3. Todo \in [Loops -> Seq(Functors)]
    BY TodoType DEF Inv
  <2>4. Tail(Todo[l]) \in Seq(Functors)
    BY <2>2, <2>3, HeadTailProperties
  <2>5. V \in [Loops -> Seq(Functors)] /\ V[l] = Tail(Todo[l]) /\ \A k \in Loops \ {l} : V[k] = Todo[k]
    BY <2>3, <2>4
  <2> HIDE DEF V
  <2>6. Takes(Loops, Todo, V, loopOf, l, "remove", c)
    BY <2>1, <2>2, <2>3, <2>5 DEF Takes, Inv
  <2>7. QueuesOK(V, loopOf) /\ OneLess(Todo, V, "remove", c)
    BY <2>6, RunTakes
  <2>8. Todo' = [V EXCEPT ![loopOf[c]] = Append(@, Functor("destroy", c))]
    BY <1>1, <1>4, <2>2, Zenon
  <2> QED
    BY <2>5, <2>7, <2>8, Zenon
<1>7. lpc[MainLoop] = "run" /\ ~Stopping
  BY <1>1, <1>5 DEF Runs, Stopping
<1>16. Stage(c)
  BY <1>7, NotOver, InvStage
<1>8. state[c] = "kDisconnected" /\ c \in connections
      /\ ~InTodo(Todo, "destroy", c) /\ ~InTodo(Todo, "established", c)
  BY <1>16, <1>5, <1>7 DEF Stage
<1>9. Appends(Loops, U, Todo', loopOf, loopOf[c], "destroy", c)
  <2>1. ~InTodo(U, "destroy", c)
    BY <1>6, <1>8 DEF OneLess
  <2>2. /\ Todo' \in [Loops -> Seq(Functors)]
        /\ Todo'[loopOf[c]] = Append(U[loopOf[c]], Functor("destroy", c))
        /\ \A k \in Loops \ {loopOf[c]} : Todo'[k] = U[k]
    BY <1>4, <1>6
  <2> QED
    BY <1>4, <1>6, <2>1, <2>2 DEF Appends
<1>10. QueuesOK(Todo', loopOf) /\ OneMore(U, Todo', "destroy", c)
  BY <1>9, QueueAppends
<1>11. /\ done' \in [Loops -> Nat] /\ LoopsOK' /\ (Stopping' <=> Stopping)
       /\ UNCHANGED <<active, lpc, functors>>
  BY <1>1, RunsLoops
<1>12. TypeOK'
  <2>1. pending' \in [Loops -> Seq(Functors)] /\ connections' \subseteq Conns
    BY <1>1, <1>3, <1>4 DEF TypeOK
  <2> QED
    BY <1>1, <1>2, <1>3, <1>11, <2>1 DEF TypeOK
<1>13. IndexAgrees'
  BY <1>1, <1>2, <1>3 DEF IndexAgrees
<1>14. ConnOK(c)'
  <2>1. /\ ~InTodo(Todo', "established", c) /\ ~InTodo(Todo', "remove", c)
        /\ InTodo(Todo', "destroy", c)
    BY <1>6, <1>8, <1>10 DEF OneLess, OneMore
  <2> QED
    BY <1>1, <1>16, <1>8, <2>1 DEF ConnOK, Stage
<1>15. \A d \in Conns \ {c}, o \in {"established", "remove", "destroy"} :
         InTodo(Todo', o, d) <=> InTodo(Todo, o, d)
  BY <1>6, <1>10 DEF OneLess, OneMore
<1> QED
  BY <1>1, <1>10, <1>11, <1>12, <1>13, <1>14, <1>15, OneConnection

\* connectDestroyed, in the loop of a connection that is in the map no longer: it
\* has been closed, or the server is being destroyed.
LEMMA DestroyedStage ==
  ASSUME Inv, NEW c \in Conns, ~Over(c), Destroyed(c, loopOf[c]),
         UNCHANGED <<numThreads, nextConnId, loopOf>>, Stopping' <=> Stopping,
         state[c] \notin {"none", "kConnecting"}, state[c] = "kDisconnected" \/ Stopping,
         c \notin connections', c \in connections => Stopping,
         ~InTodo(Todo', "established", c), ~InTodo(Todo', "destroy", c),
         InTodo(Todo', "remove", c) <=> InTodo(Todo, "remove", c)
  PROVE  /\ ConnOK(c)' /\ IndexAgrees'
         /\ index' \in [Conns -> {"kNew", "kAdded", "kDeleted"}]
         /\ channels' \in [Loops -> SUBSET Conns] /\ epoll' \in [Loops -> SUBSET Conns]
         /\ calls' \in [Conns -> {<<>>, <<"up">>, <<"up", "down">>}]
         /\ state' \in [Conns -> {"none", "kConnecting", "kConnected", "kDisconnecting", "kDisconnected"}]
         /\ \A d \in Conns \ {c} : /\ index'[d] = index[d] /\ state'[d] = state[d]
                                   /\ calls'[d] = calls[d]
         /\ \A l \in Loops \ {loopOf[c]} : epoll'[l] = epoll[l]
<1>1. TypeOK /\ IndexAgrees /\ Stage(c)
  BY InvStage DEF Inv
<1>2. /\ IndexAgrees'
      /\ index' \in [Conns -> {"kNew", "kAdded", "kDeleted"}]
      /\ channels' \in [Loops -> SUBSET Conns] /\ epoll' \in [Loops -> SUBSET Conns]
      /\ \A d \in Conns \ {c} : index'[d] = index[d]
      /\ index'[c] = "kNew"
      /\ \A l \in Loops \ {loopOf[c]} : epoll'[l] = epoll[l]
  <2>1. RemoveChannel(c, loopOf[c], state[c] = "kConnected")
    BY DEF Destroyed
  <2> DEFINE off == state[c] = "kConnected"
  <2>2. RemoveChannel(c, loopOf[c], off)
    BY <2>1
  <2> HIDE DEF off
  <2> QED
    BY <1>1, <2>2, RemoveAgrees
<1>3. state[c] \in {"none", "kConnecting", "kConnected", "kDisconnecting", "kDisconnected"}
      /\ nextConnId \in Int /\ c \in Int
  BY ConnTypes
<1>4. CASE state[c] = "kConnected"
  <2>1. state' = [state EXCEPT ![c] = "kDisconnected"] /\ Called(c, "down") /\ calls[c] = <<"up">>
    BY <1>1, <1>4 DEF Destroyed, ConnOK, Stage
  <2>2. /\ calls' \in [Conns -> {<<>>, <<"up">>, <<"up", "down">>}]
        /\ calls'[c] = <<"up", "down">>
        /\ \A d \in Conns \ {c} : calls'[d] = calls[d]
    BY <1>1, <2>1, CallsAppended
  <2>3. /\ state' \in [Conns -> {"none", "kConnecting", "kConnected", "kDisconnecting", "kDisconnected"}]
        /\ state'[c] = "kDisconnected" /\ \A d \in Conns \ {c} : state'[d] = state[d]
    BY <1>1, <2>1 DEF TypeOK
  <2>4. ConnOK(c)'
    BY <1>1, <1>2, <1>3, <1>4, <2>2, <2>3 DEF ConnOK, Stage
  <2> QED
    BY <1>2, <2>2, <2>3, <2>4
<1>5. CASE state[c] \in {"kDisconnecting", "kDisconnected"}
  <2>1. UNCHANGED <<state, calls>>
    BY <1>5 DEF Destroyed
  <2>2. ConnOK(c)'
    BY <1>1, <1>2, <1>3, <1>5, <2>1 DEF ConnOK, Stage
  <2> QED
    BY <1>1, <1>2, <2>1, <2>2 DEF TypeOK
<1> QED
  BY <1>3, <1>4, <1>5

\* connectDestroyed as a functor.
LEMMA DestroyKeepsInv ==
  ASSUME Inv, NEW l \in Loops, NEW c \in Conns, RunDestroy(l, c)
  PROVE  Inv'
<1>1. /\ Runs(l, "destroy", c) /\ UNCHANGED <<numThreads, quit, nextConnId, next, connections, loopOf, pending>>
      /\ Destroyed(c, l)
  BY DEF RunDestroy, server
<1>2. /\ InTodo(Todo, "destroy", c) /\ ~InTodo(Todo, "established", c) /\ l = loopOf[c]
      /\ QueuesOK(Todo', loopOf) /\ OneLess(Todo, Todo', "destroy", c)
  BY <1>1, Ran
<1>10. lpc[l] = "run"
  BY <1>1 DEF Runs
<1>11. ~Over(c)
  BY <1>2, <1>10, NotOver
<1>3. Loops' = Loops /\ TypeOK /\ Stage(c)
  BY <1>1, <1>11, InvStage DEF Loops, Inv
<1>4. /\ state[c] \notin {"none", "kConnecting"} /\ (state[c] = "kDisconnected" \/ Stopping)
      /\ c \notin connections
  BY <1>2, <1>3 DEF ConnOK, Stage
<1>5. /\ ~InTodo(Todo', "established", c) /\ ~InTodo(Todo', "destroy", c)
      /\ InTodo(Todo', "remove", c) <=> InTodo(Todo, "remove", c)
      /\ \A d \in Conns \ {c}, o \in {"established", "remove", "destroy"} :
           InTodo(Todo', o, d) <=> InTodo(Todo, o, d)
  BY <1>2 DEF OneLess
<1>6. UNCHANGED lpc /\ (Stopping' <=> Stopping)
  BY <1>1 DEF Runs, Stopping
<1>7. /\ ConnOK(c)' /\ IndexAgrees'
      /\ index' \in [Conns -> {"kNew", "kAdded", "kDeleted"}]
      /\ channels' \in [Loops -> SUBSET Conns] /\ epoll' \in [Loops -> SUBSET Conns]
      /\ calls' \in [Conns -> {<<>>, <<"up">>, <<"up", "down">>}]
      /\ state' \in [Conns -> {"none", "kConnecting", "kConnected", "kDisconnecting", "kDisconnected"}]
      /\ \A d \in Conns \ {c} : /\ index'[d] = index[d] /\ state'[d] = state[d]
                                /\ calls'[d] = calls[d]
      /\ \A k \in Loops \ {l} : epoll'[k] = epoll[k]
  BY <1>1, <1>2, <1>4, <1>5, <1>6, <1>11, DestroyedStage
<1>8. /\ done' \in [Loops -> Nat] /\ LoopsOK' /\ UNCHANGED <<active, lpc, functors>>
  BY <1>1, <1>7, RunsLoops
<1>9. TypeOK'
  BY <1>1, <1>3, <1>7, <1>8 DEF TypeOK
<1> QED
  BY <1>1, <1>2, <1>5, <1>6, <1>7, <1>8, <1>9, OneConnection

\* ~TcpServer destroys a connection of its map, at once or through its loop.
LEMMA DtorKeepsInv ==
  ASSUME Inv, NEW c \in Conns, DtorDestroys(c)
  PROVE  Inv'
<1>1. /\ lpc[MainLoop] = "dtor" /\ c \in connections /\ connections' = connections \ {c}
      /\ UNCHANGED <<numThreads, quit, nextConnId, next, loopOf, active, lpc, functors, done>>
  BY DEF DtorDestroys
<1>8. ~Over(c)
  BY <1>1, NotOver
<1>2. Loops' = Loops /\ TypeOK /\ Stage(c) /\ LoopsOK /\ IndexAgrees
  BY <1>1, <1>8, InvStage DEF Loops, Inv
<1>3. Stopping /\ (Stopping' <=> Stopping) /\ MainLoop \in Loops
  BY <1>1, <1>2 DEF Stopping, MainLoop, Loops, TypeOK
<1>4. connections' \subseteq Conns
  BY <1>1, <1>2 DEF TypeOK
<1>5. state[c] # "none" /\ ~InTodo(Todo, "destroy", c)
  BY <1>1, <1>2 DEF ConnOK, Stage
<1>6. CASE loopOf[c] = MainLoop
  <2>1. Destroyed(c, loopOf[c]) /\ UNCHANGED pending
    BY <1>6 DEF DtorDestroys
  <2>2. Todo' = Todo
    BY <1>1, <2>1, TodoKept
  <2>3. state[c] # "kConnecting" /\ ~InTodo(Todo, "established", c)
    BY <1>2, <1>6 DEF ConnOK, Stage
  <2>4. /\ ConnOK(c)' /\ IndexAgrees'
        /\ index' \in [Conns -> {"kNew", "kAdded", "kDeleted"}]
        /\ channels' \in [Loops -> SUBSET Conns] /\ epoll' \in [Loops -> SUBSET Conns]
        /\ calls' \in [Conns -> {<<>>, <<"up">>, <<"up", "down">>}]
        /\ state' \in [Conns -> {"none", "kConnecting", "kConnected", "kDisconnecting", "kDisconnected"}]
        /\ \A d \in Conns \ {c} : /\ index'[d] = index[d] /\ state'[d] = state[d]
                                  /\ calls'[d] = calls[d]
        /\ \A k \in Loops \ {loopOf[c]} : epoll'[k] = epoll[k]
    BY <1>1, <1>3, <1>5, <2>1, <2>2, <2>3, <1>8, DestroyedStage
  <2>5. TypeOK'
    BY <1>1, <1>2, <1>4, <2>1, <2>4 DEF TypeOK
  <2>6. LoopsOK'
    <3>1. active[MainLoop] = {}
      BY <1>1, <1>2, <1>3 DEF LoopsOK
    <3>2. ASSUME NEW k \in Loops PROVE active'[k] \subseteq epoll'[k] \union {Accept}
      BY <1>1, <1>2, <1>6, <2>4, <3>1 DEF LoopsOK
    <3> QED
      BY <1>1, <1>2, <3>2 DEF LoopsOK
  <2>7. QueuesOK(Todo', loopOf')
    BY <1>1, <2>2 DEF Inv
  <2> QED
    BY <1>1, <1>3, <2>2, <2>4, <2>5, <2>6, <2>7, OneConnection
<1>7. CASE loopOf[c] # MainLoop
  <2>1. /\ pending' = [pending EXCEPT ![loopOf[c]] = Append(@, Functor("destroy", c))]
        /\ UNCHANGED <<state, index, channels, epoll, calls>>
    BY <1>7 DEF DtorDestroys, Queue, pollers
  <2>2. loopOf[c] \in Loops
    BY <1>2 DEF TypeOK
  <2>3. /\ pending' \in [Loops -> Seq(Functors)]
        /\ QueuesOK(Todo', loopOf) /\ OneMore(Todo, Todo', "destroy", c)
    BY <1>1, <1>2, <1>5, <2>1, <2>2, Queued DEF Inv
  <2>4. TypeOK'
    BY <1>1, <1>2, <1>4, <2>1, <2>3 DEF TypeOK
  <2>5. LoopsOK' /\ IndexAgrees'
    BY <1>1, <1>2, <2>1 DEF LoopsOK, IndexAgrees
  <2>6. ConnOK(c)'
    <3>1. /\ InTodo(Todo', "destroy", c)
          /\ InTodo(Todo', "remove", c) <=> InTodo(Todo, "remove", c)
          /\ InTodo(Todo', "established", c) <=> InTodo(Todo, "established", c)
      BY <2>3 DEF OneMore
    <3> QED
      BY <1>1, <1>2, <1>3, <1>5, <2>1, <3>1 DEF ConnOK, Stage
  <2>7. \A d \in Conns \ {c}, o \in {"established", "remove", "destroy"} :
          InTodo(Todo', o, d) <=> InTodo(Todo, o, d)
    BY <2>3 DEF OneMore
  <2> QED
    BY <1>1, <1>3, <2>1, <2>3, <2>4, <2>5, <2>6, <2>7, OneConnection
<1> QED
  BY <1>6, <1>7

\* newConnection: the next loop of the pool, the map, and connectEstablished.
LEMMA NewKeepsInv ==
  ASSUME Inv, NewConnection
  PROVE  Inv'
<1>17. PICK c : c = nextConnId
  OBVIOUS
<1>18. PICK l : l = GetNextLoop
  OBVIOUS
<1>1. /\ lpc[MainLoop] = "events" /\ Accept \in active[MainLoop]
      /\ active' = [active EXCEPT ![MainLoop] = @ \ {Accept}]
      /\ next' = IF numThreads = 0 THEN next ELSE (next + 1) % numThreads
      /\ nextConnId' = nextConnId + 1
      /\ connections' = connections \union {c}
      /\ loopOf' = [loopOf EXCEPT ![c] = l]
      /\ UNCHANGED <<numThreads, quit, lpc, functors, done>>
  BY <1>17, <1>18 DEF NewConnection, Handled
<1>2. /\ l = MainLoop => /\ state' = [state EXCEPT ![c] = "kConnected"]
                         /\ UpdateChannel(c, l, TRUE) /\ Called(c, "up") /\ UNCHANGED pending
      /\ l # MainLoop => /\ state' = [state EXCEPT ![c] = "kConnecting"]
                         /\ pending' = [pending EXCEPT ![l] = Append(@, Functor("established", c))]
                         /\ UNCHANGED <<index, channels, epoll, calls>>
  BY <1>17, <1>18 DEF NewConnection, Established, Queue, pollers
<1>3. Loops' = Loops /\ MainLoop \in Loops /\ TypeOK /\ LoopsOK /\ IndexAgrees
  BY <1>1, SMTT(30) DEF Loops, MainLoop, Inv, TypeOK
<1>4. c \in Conns /\ nextConnId \in Int /\ nextConnId' \in 1 .. NumConns + 1
  <2>1. NumConns \in Nat /\ nextConnId \in 1 .. NumConns + 1 /\ nextConnId <= NumConns
    BY <1>1, <1>3, BoundsAssumption DEF LoopsOK, TypeOK
  <2> QED
    BY <1>17, <1>1, <2>1 DEF Conns
<1>5. l \in Loops /\ next' \in Nat /\ (numThreads = 0 \/ next' < numThreads)
  <2>1. numThreads \in Nat /\ next \in Nat /\ (numThreads = 0 \/ next < numThreads)
    BY <1>3 DEF TypeOK
  <2>2. l = IF numThreads = 0 THEN 0 ELSE next + 1
    BY <1>18 DEF GetNextLoop, MainLoop
  <2>3. l \in Loops
    BY <2>1, <2>2 DEF Loops
  <2>4. numThreads # 0 => (next + 1) % numThreads \in Nat /\ (next + 1) % numThreads < numThreads
    BY <2>1
  <2> QED
    BY <1>1, <2>1, <2>3, <2>4
<1>6. ~Stopping /\ Stage(c)
  <2>1. ~Stopping
    BY <1>1 DEF Stopping
  <2> QED
    BY <1>4, <2>1, NotOver, InvStage
<1>7. /\ state[c] = "none" /\ calls[c] = <<>> /\ index[c] = "kNew" /\ c \notin connections
      /\ ~InTodo(Todo, "established", c) /\ ~InTodo(Todo, "remove", c) /\ ~InTodo(Todo, "destroy", c)
  BY <1>17, <1>4, <1>6 DEF ConnOK, Stage
<1>8. /\ loopOf' \in [Conns -> Loops] /\ loopOf'[c] = l
      /\ \A d \in Conns \ {c} : loopOf'[d] = loopOf[d]
  BY <1>1, <1>3, <1>4, <1>5 DEF TypeOK
<1>9. QueuesOK(Todo, loopOf')
  <2>1. Todo \in [Loops -> Seq(Functors)] /\ QueuesOK(Todo, loopOf)
    BY <1>3, TodoType DEF Inv
  <2>2. \A op \in {"established", "remove", "destroy"} : ~InTodo(Todo, op, c)
    BY <1>7
  <2> DEFINE home2 == loopOf'
  <2>3. \A d \in Conns \ {c} : home2[d] = loopOf[d]
    BY <1>8
  <2> HIDE DEF home2
  <2>4. QueuesOK(Todo, home2)
    BY <1>4, <2>1, <2>2, <2>3, QueuesRehomed
  <2> QED
    BY <2>4 DEF home2
<1>10. Stopping' <=> Stopping
  BY <1>1 DEF Stopping
<1>11. /\ active' \in [Loops -> SUBSET (Conns \union {Accept})]
       /\ connections' \subseteq Conns
       /\ \A k \in Loops : active'[k] \subseteq active[k] /\ Accept \notin active'[k]
  BY <1>1, <1>3, <1>4 DEF TypeOK, LoopsOK
<1>12. \A d \in Conns \ {c} : /\ d \in connections' <=> d \in connections
                              /\ d >= nextConnId' <=> d >= nextConnId
  <2>1. \A d \in Conns : d \in Int
    BY BoundsAssumption DEF Conns
  <2> QED
    BY <1>17, <1>1, <1>4, <2>1
<1>13. c < nextConnId' /\ c \in Int /\ nextConnId' \in Int /\ c \in connections'
  BY <1>17, <1>1, <1>4
<1>14. (\A k \in Loops : epoll[k] \subseteq epoll'[k]) => LoopsOK'
  <2>1. SUFFICES ASSUME \A k \in Loops : epoll[k] \subseteq epoll'[k] PROVE LoopsOK'
    OBVIOUS
  <2>2. ASSUME NEW k \in Loops PROVE active'[k] \subseteq epoll'[k] \union {Accept}
    BY <1>3, <1>11, <2>1 DEF LoopsOK
  <2>3. ASSUME NEW k \in Loops, lpc'[k] # "events" PROVE active'[k] = {}
    BY <1>1, <1>3, <1>11, <2>3 DEF LoopsOK
  <2> QED
    BY <1>1, <1>3, <1>11, <2>2, <2>3 DEF LoopsOK
<1>15. CASE l = MainLoop
  <2>1. /\ state' = [state EXCEPT ![c] = "kConnected"]
        /\ UpdateChannel(c, loopOf'[c], TRUE) /\ Called(c, "up") /\ UNCHANGED pending
    BY <1>2, <1>8, <1>15
  <2>2. /\ IndexAgrees'
        /\ index' \in [Conns -> {"kNew", "kAdded", "kDeleted"}]
        /\ channels' \in [Loops -> SUBSET Conns] /\ epoll' \in [Loops -> SUBSET Conns]
        /\ \A d \in Conns \ {c} : index'[d] = index[d]
        /\ index'[c] = "kAdded"
        /\ \A k \in Loops : epoll[k] \subseteq epoll'[k]
    BY <1>1, <1>3, <1>4, <1>7, <1>8, <2>1, UpdateAgrees
  <2>3. /\ calls' \in [Conns -> {<<>>, <<"up">>, <<"up", "down">>}]
        /\ calls'[c] = <<"up">>
        /\ \A d \in Conns \ {c} : calls'[d] = calls[d]
    BY <1>3, <1>4, <1>7, <2>1, CallsAppended
  <2>4. /\ state' \in [Conns -> {"none", "kConnecting", "kConnected", "kDisconnecting", "kDisconnected"}]
        /\ state'[c] = "kConnected" /\ \A d \in Conns \ {c} : state'[d] = state[d]
    BY <1>3, <1>4, <2>1 DEF TypeOK
  <2>5. Todo' = Todo
    BY <1>1, <2>1, TodoKept
  <2>6. TypeOK'
    BY <1>1, <1>3, <1>4, <1>5, <1>8, <1>11, <2>1, <2>2, <2>3, <2>4 DEF TypeOK
  <2>7. ConnOK(c)'
    BY <1>7, <1>13, <2>2, <2>3, <2>4, <2>5 DEF ConnOK, Stage
  <2>8. LoopsOK' /\ QueuesOK(Todo', loopOf')
    BY <1>9, <1>14, <2>2, <2>5
  <2> QED
    BY <1>1, <1>4, <1>6, <1>8, <1>10, <1>12, <2>2, <2>3, <2>4, <2>5, <2>6, <2>7, <2>8, OneConnection
<1>16. CASE l # MainLoop
  <2>1. /\ state' = [state EXCEPT ![c] = "kConnecting"]
        /\ pending' = [pending EXCEPT ![l] = Append(@, Functor("established", c))]
        /\ UNCHANGED <<index, channels, epoll, calls>>
    BY <1>2, <1>16
  <2>2. /\ pending' \in [Loops -> Seq(Functors)]
        /\ QueuesOK(Todo', loopOf') /\ OneMore(Todo, Todo', "established", c)
    <3> DEFINE home == loopOf'
    <3>1. QueuesOK(Todo, home) /\ l = home[c]
      BY <1>8, <1>9
    <3> HIDE DEF home
    <3>2. /\ pending' \in [Loops -> Seq(Functors)]
          /\ QueuesOK(Todo', home) /\ OneMore(Todo, Todo', "established", c)
      BY <1>1, <1>3, <1>4, <1>5, <1>7, <2>1, <3>1, Queued
    <3> QED
      BY <3>2 DEF home
  <2>3. /\ state' \in [Conns -> {"none", "kConnecting", "kConnected", "kDisconnecting", "kDisconnected"}]
        /\ state'[c] = "kConnecting" /\ \A d \in Conns \ {c} : state'[d] = state[d]
    BY <1>3, <1>4, <2>1 DEF TypeOK
  <2>4. TypeOK'
    BY <1>1, <1>3, <1>4, <1>5, <1>8, <1>11, <2>1, <2>2, <2>3 DEF TypeOK
  <2>5. LoopsOK'
    BY <1>14, <2>1
  <2>6. IndexAgrees'
    BY <1>3, <1>4, <1>7, <1>8, <2>1 DEF IndexAgrees
  <2>7. ConnOK(c)'
    <3>1. /\ ~InTodo(Todo', "destroy", c) /\ ~InTodo(Todo', "remove", c)
          /\ InTodo(Todo', "established", c)
      BY <1>4, <1>7, <2>2 DEF OneMore
    <3> QED
      BY <1>7, <1>8, <1>13, <1>16, <2>1, <2>3, <3>1 DEF ConnOK, Stage
  <2>8. \A d \in Conns \ {c}, o \in {"established", "remove", "destroy"} :
          InTodo(Todo', o, d) <=> InTodo(Todo, o, d)
    BY <2>2 DEF OneMore
  <2> QED
    BY <1>1, <1>4, <1>6, <1>8, <1>10, <1>12, <2>1, <2>2, <2>3, <2>4, <2>5, <2>6, <2>7, <2>8, OneConnection
<1> QED
  BY <1>15, <1>16

\* ~EventLoopThread tells a loop to quit.
LEMMA DtorQuitsKeepsInv ==
  ASSUME Inv, NEW l \in Loops, DtorQuits(l)
  PROVE  Inv'
<1>1. /\ lpc[MainLoop] = "dtor" /\ connections = {} /\ l # MainLoop /\ quit' = quit \union {l}
      /\ UNCHANGED <<numThreads, nextConnId, next, connections, loopOf>>
      /\ UNCHANGED <<state, index, channels, epoll, calls, active, lpc, pending, functors, done>>
  BY DEF DtorQuits, pollers, queues
<1>2. Loops' = Loops /\ Todo' = Todo
  BY <1>1, TodoKept DEF Loops
<1>3. TypeOK' /\ LoopsOK'
  BY <1>1, <1>2 DEF Inv, TypeOK, LoopsOK
<1>4. QuitOK' /\ (Stopping => Stopping')
  BY <1>1, <1>2 DEF Inv, QuitOK, Stopping
<1> QED
  BY <1>1, <1>2, <1>3, <1>4, QuietKeepsInv

\* A loop ends, and the functors that it has not run go with it: they were bound to
\* its own connections.
LEMMA EndLoopKeepsInv ==
  ASSUME Inv, NEW l \in Loops, EndLoop(l)
  PROVE  Inv'
<1>1. /\ l \in quit /\ (lpc[l] = "poll" \/ lpc[l] = "run") /\ lpc' = [lpc EXCEPT ![l] = "ended"]
      /\ pending' = [pending EXCEPT ![l] = <<>>] /\ functors' = [functors EXCEPT ![l] = <<>>]
      /\ done' = [done EXCEPT ![l] = 0]
      /\ UNCHANGED <<numThreads, nextConnId, next, connections, loopOf, quit>>
      /\ UNCHANGED <<state, index, channels, epoll, active, calls>>
  BY DEF EndLoop, server, pollers
<1>2. Loops' = Loops
  BY <1>1 DEF Loops
<1>3. Stopping /\ connections = {} /\ l # MainLoop /\ TypeOK /\ LoopsOK /\ QuitOK
  BY <1>1 DEF Inv, QuitOK
<1>4. /\ lpc'[l] = "ended" /\ pending'[l] = <<>> /\ functors'[l] = <<>> /\ done'[l] = 0
      /\ \A k \in Loops \ {l} : /\ lpc'[k] = lpc[k] /\ pending'[k] = pending[k]
                               /\ functors'[k] = functors[k] /\ done'[k] = done[k]
  BY <1>1, <1>3 DEF TypeOK
<1>5. TypeOK'
  <2>1. <<>> \in Seq(Functors)
    OBVIOUS
  <2> QED
    BY <1>1, <1>2, <1>3, <2>1 DEF TypeOK
<1>6. LoopsOK'
  <2>1. active[l] = {} /\ Len(<<>>) = 0
    BY <1>1, <1>3 DEF LoopsOK
  <2> QED
    BY <1>1, <1>2, <1>3, <1>4, <2>1 DEF LoopsOK
<1>7. Stopping' /\ MainLoop \in Loops
  BY <1>3, <1>4, SMTT(30) DEF Stopping, TypeOK, MainLoop, Loops
<1>8. QuitOK'
  BY <1>1, <1>2, <1>3, <1>4, <1>7 DEF QuitOK
<1>9. IndexAgrees'
  BY <1>1, <1>2 DEF Inv, IndexAgrees
<1>10. Todo \in [Loops -> Seq(Functors)] /\ DOMAIN Todo' = Loops /\ Todo'[l] = <<>>
       /\ \A k \in Loops \ {l} : Todo'[k] = Todo[k]
  <2>1. Todo \in [Loops -> Seq(Functors)] /\ DOMAIN Todo' = Loops
    BY <1>2, <1>3, TodoType DEF Todo
  <2>2. \A k \in Loops : Todo'[k] = Rest(functors'[k], done'[k], pending'[k])
                        /\ Todo[k] = Rest(functors[k], done[k], pending[k])
    BY <1>2 DEF Todo, Rest
  <2>3. Rest(<<>>, 0, <<>>) = <<>>
    <3>1. <<>> \in Seq(Functors)
      OBVIOUS
    <3> QED
      BY <3>1, RestEnds
  <2>4. Todo'[l] = <<>>
    BY <1>4, <2>2, <2>3, Zenon
  <2>5. ASSUME NEW k \in Loops \ {l} PROVE Todo'[k] = Todo[k]
    BY <1>4, <2>2, <2>5, Zenon
  <2> QED
    BY <2>1, <2>4, <2>5
<1>11. QueuesOK(Todo, loopOf) /\ DOMAIN Todo = Loops /\ Len(<<>>) = 0
  BY <1>10 DEF Inv
<1>12. QueuesOK(Todo', loopOf')
  <2>1. ASSUME NEW k \in Loops
        PROVE /\ \A i \in 1 .. Len(Todo'[k]) :
                   k = IF Todo'[k][i].op = "remove" THEN MainLoop ELSE loopOf[Todo'[k][i].conn]
              /\ \A i, j \in 1 .. Len(Todo'[k]) : Todo'[k][i] = Todo'[k][j] => i = j
              /\ \A i, j \in 1 .. Len(Todo'[k]) :
                   Todo'[k][i].op = "destroy" /\ Todo'[k][j] = Functor("established", Todo'[k][i].conn)
                     => j < i
    <3>1. CASE k = l
      <4>1. 1 .. Len(Todo'[k]) = {}
        BY <1>10, <1>11, <3>1
      <4> QED
        BY <4>1, Zenon
    <3>2. CASE k # l
      <4>1. Todo'[k] = Todo[k]
        BY <1>10, <3>2
      <4>2. /\ \A i \in 1 .. Len(Todo[k]) :
                 k = IF Todo[k][i].op = "remove" THEN MainLoop ELSE loopOf[Todo[k][i].conn]
            /\ \A i, j \in 1 .. Len(Todo[k]) : Todo[k][i] = Todo[k][j] => i = j
            /\ \A i, j \in 1 .. Len(Todo[k]) :
                 Todo[k][i].op = "destroy" /\ Todo[k][j] = Functor("established", Todo[k][i].conn)
                   => j < i
        BY <1>11, Zenon DEF QueuesOK
      <4> QED
        BY <4>1, <4>2
    <3> QED
      BY <3>1, <3>2
  <2> QED
    BY <1>1, <1>10, <2>1, Zenon DEF QueuesOK
<1>13. ASSUME NEW c \in Conns PROVE ConnOK(c)'
  <2>1. CASE loopOf[c] = l
    BY <1>1, <1>4, <2>1 DEF ConnOK, Over
  <2>2. CASE loopOf[c] # l
    <3>1. ASSUME NEW op \in {"established", "remove", "destroy"}
          PROVE  InTodo(Todo', op, c) <=> InTodo(Todo, op, c)
      <4>1. Functor(op, c).op = op /\ Functor(op, c).conn = c
        BY DEF Functor
      <4>2. \A i \in 1 .. Len(Todo[l]) : Todo[l][i] # Functor(op, c)
        BY <1>3, <1>11, <2>2, <4>1 DEF QueuesOK
      <4>3. \A i \in 1 .. Len(Todo'[l]) : FALSE
        BY <1>10, <1>11
      <4> QED
        BY <1>10, <1>11, <4>2, <4>3 DEF InTodo
    <3>2. Over(c) => Over(c)'
      BY <1>1, <1>4, OverKept
    <3>3. ConnOK(c)
      BY DEF Inv
    <3> QED
      BY <1>1, <1>7, <3>1, <3>2, <3>3, ConnKept
  <2> QED
    BY <2>1, <2>2
<1> QED
  BY <1>5, <1>6, <1>8, <1>9, <1>12, <1>13 DEF Inv

\* In the initial state nothing has been accepted and nothing is queued.
LEMMA InitInv == Init => Inv
<1>1. SUFFICES ASSUME Init PROVE Inv
  OBVIOUS
<1>2. MaxThreads \in Nat /\ NumConns \in Nat
  BY BoundsAssumption
<1>3. numThreads \in Nat /\ MainLoop \in Loops
  BY <1>1, <1>2 DEF Init, MainLoop, Loops
<1>4. TypeOK
  <2>1. nextConnId \in 1 .. NumConns + 1 /\ next \in Nat /\ (numThreads = 0 \/ next < numThreads)
    BY <1>1, <1>2, <1>3 DEF Init
  <2>2. <<>> \in Seq(Functors)
    OBVIOUS
  <2> QED
    BY <1>1, <1>3, <2>1, <2>2 DEF Init, TypeOK
<1>5. LoopsOK
  BY <1>1, <1>3 DEF Init, LoopsOK
<1>6. IndexAgrees
  BY <1>1 DEF Init, IndexAgrees
<1>7. \A l \in Loops : Todo[l] = <<>>
  <2>2. <<>> \in Seq(Functors)
    OBVIOUS
  <2>1. Rest(<<>>, 0, <<>>) = <<>>
    BY <2>2, RestEnds
  <2> QED
    BY <1>1, <1>4, <1>5, <2>1, TodoType DEF Init
<1>8. DOMAIN Todo = Loops
  BY DEF Todo
<1>9. QueuesOK(Todo, loopOf)
  BY <1>7, <1>8 DEF QueuesOK
<1>10. ASSUME NEW c \in Conns PROVE ConnOK(c)
  <2>1. \A op : ~InTodo(Todo, op, c)
    BY <1>7, <1>8 DEF InTodo
  <2>2. c \in Int /\ c >= 1
    BY <1>2 DEF Conns
  <2> QED
    BY <1>1, <2>1, <2>2 DEF ConnOK, Stage, Init
<1>11. QuitOK
  BY <1>1 DEF Init, QuitOK
<1> QED
  BY <1>4, <1>5, <1>6, <1>9, <1>10, <1>11 DEF Inv

\* Every step keeps the invariant.
LEMMA NextKeepsInv == Inv /\ [Next]_vars => Inv'
<1>1. SUFFICES ASSUME Inv, [Next]_vars PROVE Inv'
  OBVIOUS
<1>2. CASE UNCHANGED vars
  <2>1. /\ UNCHANGED <<numThreads, quit, nextConnId, next, connections, loopOf, state>>
        /\ UNCHANGED <<index, channels, epoll, active, lpc, pending, functors, done, calls>>
    BY <1>2 DEF vars, server, pollers, queues
  <2>2. Todo' = Todo /\ Loops' = Loops
    BY <2>1, TodoKept DEF Loops
  <2>3. TypeOK' /\ LoopsOK'
    BY <1>1, <2>1, <2>2 DEF Inv, TypeOK, LoopsOK
  <2>4. (Stopping => Stopping') /\ QuitOK'
    BY <1>1, <2>1, <2>2 DEF Stopping, Inv, QuitOK
  <2> QED
    BY <1>1, <2>1, <2>2, <2>3, <2>4, QuietKeepsInv
<1>3. ASSUME NEW l \in Loops, LoopStep(l) PROVE Inv'
  <2>1. CASE \E ready \in SUBSET Reportable(l) : Poll(l, ready)
    BY <1>1, <2>1, PollKeepsInv
  <2>2. CASE SwapFunctors(l)
    BY <1>1, <2>2, SwapKeepsInv
  <2>3. CASE EndFunctors(l)
    BY <1>1, <2>3, EndKeepsInv
  <2>11. CASE EndLoop(l)
    BY <1>1, <2>11, EndLoopKeepsInv
  <2>4. CASE NewConnection
    BY <1>1, <2>4, NewKeepsInv
  <2>5. CASE AcceptFails
    BY <1>1, <2>5, OtherQuietKeepsInv
  <2>6. ASSUME NEW c \in Conns, HandleRead(l, c) PROVE Inv'
    BY <1>1, <2>6, ReadKeepsInv
  <2>7. ASSUME NEW c \in Conns, HandleClose(l, c) PROVE Inv'
    BY <1>1, <2>7, CloseKeepsInv
  <2>8. ASSUME NEW c \in Conns, RunEstablished(l, c) PROVE Inv'
    BY <1>1, <2>8, EstablishedKeepsInv
  <2>9. ASSUME NEW c \in Conns, RunDestroy(l, c) PROVE Inv'
    BY <1>1, <2>9, DestroyKeepsInv
  <2>10. ASSUME NEW c \in Conns, RunRemove(l, c) PROVE Inv'
    BY <1>1, <2>10, RemoveKeepsInv
  <2> QED
    BY <1>3, <2>1, <2>2, <2>3, <2>4, <2>5, <2>6, <2>7, <2>8, <2>9, <2>10, <2>11 DEF LoopStep
<1>4. CASE Quit \/ \E c \in Conns : PeerCloses(c)
  BY <1>1, <1>4, OtherQuietKeepsInv
<1>5. CASE DtorStep
  BY <1>1, <1>5, DtorKeepsInv, DtorQuitsKeepsInv DEF DtorStep
<1> QED
  BY <1>1, <1>2, <1>3, <1>4, <1>5 DEF Next

\* Inv holds in every reachable state.
THEOREM Invariant == Spec => []Inv
<1>1. Init => Inv
  BY InitInv
<1>2. Inv /\ [Next]_vars => Inv'
  BY NextKeepsInv
<1> QED
  BY <1>1, <1>2, PTL DEF Spec

\* A functor on its way is one of the references to its connection.
LEMMA TodoRefers ==
  ASSUME Inv, NEW c \in Conns, NEW op, InTodo(Todo, op, c)
  PROVE  References(c)
<1>1. PICK l \in Loops : \E i \in 1 .. Len(Todo[l]) : Todo[l][i] = Functor(op, c)
  BY DEF InTodo, Todo
<1>2. PICK i \in 1 .. Len(Todo[l]) : Todo[l][i] = Functor(op, c)
  BY <1>1
<1> DEFINE f == functors[l]
           d == done[l]
           h == SubSeq(f, d + 1, Len(f))
           p == pending[l]
<1>3. f \in Seq(Functors) /\ p \in Seq(Functors) /\ d \in Nat /\ Len(f) \in Nat /\ d <= Len(f)
  BY DEF Inv, TypeOK, LoopsOK
<1>4. \A j \in d + 1 .. Len(f) : f[j] \in Functors
  BY <1>3
<1>5. /\ h \in Seq(Functors)
      /\ Len(h) = Len(f) - d
      /\ \A j \in 1 .. Len(h) : h[j] = f[d + j]
  <2>1. /\ h \in Seq(Functors)
        /\ Len(h) = IF d + 1 <= Len(f) THEN Len(f) - (d + 1) + 1 ELSE 0
        /\ \A j \in 1 .. Len(f) - (d + 1) + 1 : h[j] = f[(d + 1) + j - 1]
    <3> DEFINE m == d + 1
               n == Len(f)
    <3>1. m \in Int /\ n \in Int /\ \A j \in m .. n : f[j] \in Functors
      BY <1>3, <1>4
    <3> HIDE DEF m, n
    <3>2. /\ SubSeq(f, m, n) \in Seq(Functors)
          /\ Len(SubSeq(f, m, n)) = IF m <= n THEN n - m + 1 ELSE 0
          /\ \A j \in 1 .. n - m + 1 : SubSeq(f, m, n)[j] = f[m + j - 1]
      BY <3>1, SubSeqProperties
    <3> QED
      BY <3>2 DEF m, n
  <2>2. Len(h) = Len(f) - d
    BY <1>3, <2>1
  <2>3. ASSUME NEW j \in 1 .. Len(h) PROVE h[j] = f[d + j]
    <3>1. j \in 1 .. Len(f) - (d + 1) + 1 /\ (d + 1) + j - 1 = d + j
      BY <1>3, <2>2
    <3> QED
      BY <2>1, <3>1
  <2> QED
    BY <2>1, <2>2, <2>3
<1>6. Todo[l] = h \o p
  BY DEF Todo
<1> HIDE DEF h
<1>7. /\ Len(h \o p) = Len(h) + Len(p)
      /\ \A j \in 1 .. Len(h) + Len(p) : (h \o p)[j] = IF j <= Len(h) THEN h[j] ELSE p[j - Len(h)]
  BY <1>3, <1>5, ConcatProperties
<1>8. Functor(op, c).conn = c
  BY DEF Functor
<1>9. CASE i <= Len(h)
  <2>1. i \in 1 .. Len(h) /\ h[i] = Functor(op, c)
    BY <1>2, <1>3, <1>5, <1>6, <1>7, <1>9
  <2>2. d + i \in 1 .. Len(f) /\ f[d + i] = Functor(op, c)
    BY <1>3, <1>5, <2>1
  <2> QED
    BY <1>3, <1>8, <2>2 DEF References
<1>10. CASE i > Len(h)
  <2>1. i - Len(h) \in 1 .. Len(p) /\ p[i - Len(h)] = Functor(op, c)
    <3>1. Len(h) \in Nat /\ Len(p) \in Nat
      BY <1>3, <1>5
    <3>2. i \in 1 .. Len(h) + Len(p)
      BY <1>2, <1>6, <1>7
    <3>3. ~(i <= Len(h)) /\ i - Len(h) \in 1 .. Len(p)
      BY <1>10, <3>1, <3>2
    <3>4. (h \o p)[i] = p[i - Len(h)]
      BY <1>7, <3>2, <3>3
    <3> QED
      BY <1>2, <1>6, <3>3, <3>4
  <2> QED
    BY <1>3, <1>8, <2>1 DEF References
<1> QED
  BY <1>3, <1>5, <1>9, <1>10

\* A connection of which nothing is left has been closed, or shut down and then
\* destroyed with the server, and no poller knows it, unless its loop has ended.
LEMMA FreedStage ==
  ASSUME Inv, NEW c \in Conns, ~Over(c), Freed(c)
  PROVE  /\ state[c] \in {"kDisconnecting", "kDisconnected"} /\ index[c] = "kNew"
         /\ state[c] = "kDisconnecting" => calls[c] = <<"up">> /\ Stopping
         /\ state[c] = "kDisconnected" => calls[c] = <<"up", "down">>
<1>1. state[c] # "none" /\ ~References(c)
  BY DEF Freed
<1>2. c \notin connections /\ ~InTodo(Todo, "destroy", c)
  BY <1>1, TodoRefers DEF References
<1> QED
  BY <1>1, <1>2, InvStage DEF Stage

\* PollersSound is a consequence of the invariant.
LEMMA InvPollers == Inv => PollersSound
<1>1. SUFFICES ASSUME Inv PROVE NoDanglingChannel
  BY DEF Inv, PollersSound
<1>2. SUFFICES ASSUME NEW l \in Loops, NEW c \in Conns,
                      lpc[l] # "ended", c \in epoll[l] \union channels[l] \union active[l]
               PROVE  state[c] # "none" /\ ~Freed(c)
  BY DEF NoDanglingChannel
<1>3. c # Accept
  BY BoundsAssumption DEF Conns, Accept
<1>4. c \in epoll[l] \union channels[l]
  BY <1>1, <1>2, <1>3 DEF Inv, LoopsOK
<1>5. index[c] # "kNew" /\ ~Over(c)
  BY <1>1, <1>2, <1>4 DEF Inv, IndexAgrees, Over
<1>6. state[c] # "none"
  BY <1>1, <1>5, InvStage DEF Stage
<1> QED
  BY <1>1, <1>5, <1>6, FreedStage

\* EventsFramed is a consequence of the invariant.
LEMMA InvFramed == Inv => EventsFramed
<1> SUFFICES ASSUME Inv PROVE EventsFramed
  OBVIOUS
<1>1. EventsOnlyWhileUp
  <2>1. SUFFICES ASSUME NEW l \in Loops, NEW c \in active[l] \ {Accept}
                 PROVE  calls[c] = <<"up">> /\ state[c] \in {"kConnected", "kDisconnecting"}
    BY DEF EventsOnlyWhileUp
  <2>2. c \in Conns /\ c \in epoll[l]
    BY <2>1 DEF Inv, TypeOK, LoopsOK
  <2>5. lpc[l] = "events"
    BY <2>1 DEF Inv, LoopsOK
  <2>3. index[c] = "kAdded" /\ Stage(c)
    <3>1. index[c] = "kAdded" /\ l = loopOf[c]
      BY <2>2 DEF Inv, IndexAgrees
    <3> QED
      BY <2>2, <2>5, <3>1, NotOver, InvStage
  <2>4. state[c] \in {"none", "kConnecting", "kConnected", "kDisconnecting", "kDisconnected"}
    BY <2>2, ConnTypes
  <2> QED
    BY <2>3, <2>4 DEF ConnOK, Stage
<1>2. DownUnlessDestroyed
  <2> SUFFICES ASSUME NEW c \in Conns, Freed(c), calls[c] # <<"up", "down">>
               PROVE  Stopping /\ (state[c] = "kDisconnecting" \/ Over(c))
    BY DEF DownUnlessDestroyed, Stopping, Over
  <2>1. CASE Over(c)
    BY <2>1, NotOver
  <2>2. CASE ~Over(c)
    BY <2>2, FreedStage
  <2> QED
    BY <2>1, <2>2
<1> QED
  BY <1>1, <1>2 DEF EventsFramed

\* No poller and no list of active channels keeps a raw pointer to the channel of a
\* connection that is gone, and index_ says what the poller of the loop has.
THEOREM PollersStaySound == Spec => []PollersSound
BY Invariant, InvPollers, PTL

\* The loop handles the events of a connection between its "up" and its "down"
\* callback only, and only ~TcpServer frees one without a "down", if it was shut down
\* or if its loop has ended.
THEOREM EventsStayFramed == Spec => []EventsFramed
BY Invariant, InvFramed, PTL

-----------------------------------------------------------------------------
(***************************************************************************)
(* TcpServer implements ConnectionLife.                                    *)
(***************************************************************************)

\* A step on behalf of connection c, which is alive: the others keep their state,
\* their callbacks and their references.
Concerns(c) ==
  /\ \A d \in Conns \ {c} : /\ state'[d] = state[d] /\ calls'[d] = calls[d]
                            /\ d \in connections' <=> d \in connections
  /\ functors' = functors /\ numThreads' = numThreads /\ lpc' = lpc
  /\ \/ pending' = pending
     \/ \E m \in Loops, op \in {"established", "remove", "destroy"} :
          pending' = [pending EXCEPT ![m] = Append(@, Functor(op, c))]
  /\ ~Freed(c)

\* The other connections keep their references in such a step.
LEMMA OthersReferences ==
  ASSUME Inv, NEW c \in Conns, Concerns(c), NEW d \in Conns, d # c
  PROVE  References(d)' <=> References(d)
<1>1. Loops' = Loops /\ functors' = functors /\ (d \in connections' <=> d \in connections)
  <2>1. /\ \A e \in Conns \ {c} : e \in connections' <=> e \in connections
        /\ functors' = functors /\ numThreads' = numThreads
    BY Zenon DEF Concerns
  <2>2. Loops' = Loops
    BY <2>1 DEF Loops
  <2> QED
    BY <2>1, <2>2
<1>2. ASSUME NEW l \in Loops
      PROVE  (\E i \in DOMAIN pending'[l] : pending'[l][i].conn = d)
               <=> \E i \in DOMAIN pending[l] : pending[l][i].conn = d
  <2>1. CASE pending' = pending
    BY <2>1
  <2>2. ASSUME NEW m \in Loops, NEW op \in {"established", "remove", "destroy"},
               pending' = [pending EXCEPT ![m] = Append(@, Functor(op, c))]
        PROVE  (\E i \in DOMAIN pending'[l] : pending'[l][i].conn = d)
                 <=> \E i \in DOMAIN pending[l] : pending[l][i].conn = d
    <3>1. Functor(op, c) \in Functors /\ Functor(op, c).conn = c
      BY DEF Functor, Functors
    <3>2. CASE l = m
      <4> DEFINE p == pending[l]
                 q == pending'[l]
      <4>1. p \in Seq(Functors) /\ q = Append(p, Functor(op, c))
        BY <2>2, <3>2 DEF Inv, TypeOK
      <4> HIDE DEF p, q
      <4>2. /\ DOMAIN p = 1 .. Len(p) /\ DOMAIN q = 1 .. Len(p) + 1 /\ Len(p) \in Nat
            /\ q[Len(p) + 1].conn = c /\ \A i \in 1 .. Len(p) : q[i] = p[i]
        BY <3>1, <4>1, AppendProperties
      <4>3. (\E i \in DOMAIN q : q[i].conn = d) <=> \E i \in DOMAIN p : p[i].conn = d
        <5>1. ASSUME NEW i \in DOMAIN q, q[i].conn = d PROVE \E j \in DOMAIN p : p[j].conn = d
          <6>1. i \in 1 .. Len(p)
            BY <4>2, <5>1
          <6> QED
            BY <4>2, <5>1, <6>1
        <5>2. ASSUME NEW i \in DOMAIN p, p[i].conn = d PROVE \E j \in DOMAIN q : q[j].conn = d
          <6>1. i \in DOMAIN q /\ q[i] = p[i]
            BY <4>2
          <6> QED
            BY <5>2, <6>1
        <5> QED
          BY <5>1, <5>2
      <4> QED
        BY <4>3 DEF p, q
    <3>3. CASE l # m
      <4>1. pending'[l] = pending[l]
        BY <2>2, <3>3 DEF Inv, TypeOK
      <4> QED
        BY <4>1
    <3> QED
      BY <3>2, <3>3
  <2> QED
    BY <2>1, <2>2 DEF Concerns
<1> QED
  BY <1>1, <1>2, Zenon DEF References

\* So they stay alive, or freed.
LEMMA OthersFreed ==
  ASSUME Inv, NEW c \in Conns, Concerns(c), NEW d \in Conns, d # c
  PROVE  Freed(d)' <=> Freed(d)
<1>1. state'[d] = state[d]
  <2>1. \A e \in Conns \ {c} : state'[e] = state[e]
    BY Zenon DEF Concerns
  <2> QED
    BY <2>1
<1> QED
  BY <1>1, OthersReferences DEF Freed

\* A connection whose functor is being run is alive, and stays so in that step.
LEMMA RunningAlive ==
  ASSUME Inv, NEW l \in Loops, NEW op, NEW c \in Conns, Runs(l, op, c), UNCHANGED numThreads
  PROVE  ~Freed(c) /\ ~Freed(c)' /\ functors' = functors
<1>1. /\ done[l] < Len(functors[l]) /\ functors[l][done[l] + 1] = Functor(op, c)
      /\ functors' = functors /\ done[l] \in Nat /\ functors[l] \in Seq(Functors)
  BY DEF Runs, Inv, TypeOK
<1>2. done[l] + 1 \in DOMAIN functors[l] /\ functors[l][done[l] + 1].conn = c
  <2>1. Len(functors[l]) \in Nat /\ DOMAIN functors[l] = 1 .. Len(functors[l])
    BY <1>1
  <2>2. Functor(op, c).conn = c
    BY DEF Functor
  <2> QED
    BY <1>1, <2>1, <2>2
<1>3. l \in Loops'
  BY DEF Loops
<1>4. References(c)
  BY <1>2, Zenon DEF References
<1>5. References(c)'
  BY <1>1, <1>2, <1>3, Zenon DEF References
<1> QED
  BY <1>1, <1>4, <1>5 DEF Freed

\* What the steps on behalf of a connection do to its callbacks: nothing, the "up",
\* after which it is alive, or the "down".
LEMMA StepConcerns ==
  ASSUME Inv, Inv', NEW c \in Conns,
         \/ NewConnection /\ c = nextConnId
         \/ \E l \in Loops : \/ HandleRead(l, c) \/ HandleClose(l, c) \/ RunEstablished(l, c)
                             \/ RunRemove(l, c) \/ RunDestroy(l, c)
         \/ DtorDestroys(c)
  PROVE  /\ Concerns(c)
         /\ \/ calls'[c] = calls[c]
            \/ calls[c] = <<>> /\ calls'[c] = <<"up">> /\ ~Freed(c)'
            \/ calls[c] = <<"up">> /\ calls'[c] = <<"up", "down">> /\ (~Freed(c)' \/ Stopping)
<1> DEFINE Goal == /\ Concerns(c)
                   /\ \/ calls'[c] = calls[c]
                      \/ calls[c] = <<>> /\ calls'[c] = <<"up">> /\ ~Freed(c)'
                      \/ calls[c] = <<"up">> /\ calls'[c] = <<"up", "down">> /\ (~Freed(c)' \/ Stopping)
<1>1. TypeOK /\ Stage(c) /\ TypeOK' /\ NoDanglingChannel /\ MainLoop \in Loops
  <2>1. TypeOK /\ TypeOK'
    BY DEF Inv
  <2>4. Stage(c)
    <3>1. ASSUME NEW l \in Loops, HandleRead(l, c) \/ HandleClose(l, c) PROVE ~Over(c)
      <4>3. c # Accept
        BY DEF Conns, Accept
      <4>4. c \in active[l] /\ lpc[l] = "events"
        BY <3>1 DEF HandleRead, HandleClose
      <4>1. c # Accept /\ c \in active[l] /\ lpc[l] = "events"
        BY <4>3, <4>4
      <4>2. l = loopOf[c]
        BY <4>1 DEF Inv, LoopsOK, IndexAgrees
      <4> QED
        BY <4>1, <4>2, NotOver
    <3>2. ASSUME NEW l \in Loops, RunEstablished(l, c) \/ RunDestroy(l, c) PROVE ~Over(c)
      <4>1. PICK op \in {"established", "destroy"} : Runs(l, op, c) /\ UNCHANGED numThreads
        BY <3>2 DEF RunEstablished, RunDestroy, server
      <4>3. op \in {"established", "remove", "destroy"} /\ op # "remove"
        OBVIOUS
      <4>4. l = loopOf[c]
        BY <4>1, <4>3, Ran
      <4>5. lpc[l] = "run"
        BY <4>1 DEF Runs
      <4>2. l = loopOf[c] /\ lpc[l] = "run"
        BY <4>4, <4>5
      <4> QED
        BY <4>2, NotOver
    <3>3. ASSUME NEW l \in Loops, RunRemove(l, c) PROVE ~Over(c)
      <4>1. Runs(l, "remove", c) /\ UNCHANGED numThreads
        BY <3>3 DEF RunRemove
      <4>2. l = MainLoop /\ lpc[l] = "run"
        BY <4>1, Ran DEF Runs
      <4> QED
        BY <4>2, NotOver DEF Stopping
    <3>4. NewConnection \/ DtorDestroys(c) => ~Over(c)
      BY NotOver DEF NewConnection, DtorDestroys, Stopping
    <3> QED
      BY <3>1, <3>2, <3>3, <3>4, InvStage
  <2>2. NoDanglingChannel
    BY InvPollers DEF PollersSound
  <2>3. MainLoop \in Loops
    BY <2>1 DEF TypeOK, MainLoop, Loops
  <2> QED
    BY <2>1, <2>2, <2>3, <2>4
<1>2. ASSUME NewConnection, c = nextConnId PROVE Goal
  <2>1. /\ connections' = connections \union {c} /\ UNCHANGED <<numThreads, functors, lpc>>
        /\ IF GetNextLoop = MainLoop
             THEN state' = [state EXCEPT ![c] = "kConnected"] /\ Called(c, "up") /\ UNCHANGED pending
             ELSE /\ state' = [state EXCEPT ![c] = "kConnecting"] /\ UNCHANGED calls
                  /\ pending' = [pending EXCEPT ![GetNextLoop] = Append(@, Functor("established", c))]
    BY <1>2 DEF NewConnection, Established, Queue
  <2>2. state[c] = "none" /\ calls[c] = <<>> /\ nextConnId \in Int
    BY <1>1, <1>2, ConnTypes DEF ConnOK, Stage
  <2>3. ~Freed(c)
    BY <2>2 DEF Freed
  <2>4. ~Freed(c)'
    BY <2>1 DEF Freed, References
  <2>5. GetNextLoop \in Loops
    BY <1>1 DEF GetNextLoop, TypeOK, Loops, MainLoop
  <2>6. CASE GetNextLoop = MainLoop
    <3>1. /\ calls'[c] = <<"up">>
          /\ \A d \in Conns \ {c} : calls'[d] = calls[d]
      BY <1>1, <2>1, <2>2, <2>6, CallsAppended
    <3>2. Concerns(c)
      BY <1>1, <2>1, <2>3, <2>6, <3>1, ZenonT(60) DEF Concerns, TypeOK
    <3> QED
      BY <2>2, <2>4, <3>1, <3>2
  <2>7. CASE GetNextLoop # MainLoop
    <3>1. Concerns(c)
      BY <1>1, <2>1, <2>3, <2>5, <2>7, ZenonT(60) DEF Concerns, TypeOK
    <3> QED
      BY <2>1, <2>7, <3>1
  <2> QED
    BY <2>6, <2>7
<1>3. ASSUME NEW l \in Loops, c \in active[l] PROVE ~Freed(c)
  <2>1. lpc[l] = "events"
    BY <1>3 DEF Inv, LoopsOK
  <2> QED
    BY <1>1, <1>3, <2>1 DEF NoDanglingChannel
<1>4. ASSUME NEW l \in Loops, HandleRead(l, c) PROVE Goal
  <2>1. UNCHANGED <<connections, functors, pending, numThreads, calls, lpc>> /\ c \in active[l]
        /\ (state' = state \/ state' = [state EXCEPT ![c] = "kDisconnecting"])
    BY <1>4 DEF HandleRead, server, queues
  <2>2. ~Freed(c)
    BY <1>3, <2>1
  <2>3. \A d \in Conns \ {c} : state'[d] = state[d]
    BY <1>1, <2>1 DEF TypeOK
  <2> QED
    BY <2>1, <2>2, <2>3 DEF Concerns
<1>5. ASSUME NEW l \in Loops, HandleClose(l, c) PROVE Goal
  <2>1. /\ UNCHANGED <<functors, numThreads, lpc>> /\ c \in active[l]
        /\ state' = [state EXCEPT ![c] = "kDisconnected"] /\ Called(c, "down")
        /\ connections' = connections \/ connections' = connections \ {c}
        /\ \/ pending' = [pending EXCEPT ![loopOf[c]] = Append(@, Functor("destroy", c))]
           \/ pending' = [pending EXCEPT ![MainLoop] = Append(@, Functor("remove", c))]
    BY <1>5 DEF HandleClose, Erase, Queue
  <2>2. loopOf[c] \in Loops /\ ~Freed(c)
    BY <1>1, <1>3, <2>1 DEF TypeOK
  <2>3. EventsOnlyWhileUp /\ c # Accept
    BY InvFramed, BoundsAssumption DEF EventsFramed, Accept, Conns
  <2>4. calls[c] = <<"up">>
    BY <2>1, <2>3 DEF EventsOnlyWhileUp
  <2>5. calls'[c] = <<"up", "down">> /\ \A d \in Conns \ {c} : calls'[d] = calls[d]
    BY <1>1, <2>1, <2>4, CallsAppended
  <2>6. \E m \in Loops, op \in {"established", "remove", "destroy"} :
          pending' = [pending EXCEPT ![m] = Append(@, Functor(op, c))]
    BY <1>1, <2>1, <2>2, Zenon
  <2>7. \A d \in Conns \ {c} : state'[d] = state[d]
    BY <1>1, <2>1 DEF TypeOK
  <2>8. \A d \in Conns \ {c} : d \in connections' <=> d \in connections
    BY <2>1
  <2>9. ~Freed(c)'
    <3>1. PICK m \in Loops, op \in {"established", "remove", "destroy"} :
            pending' = [pending EXCEPT ![m] = Append(@, Functor(op, c))]
      BY <2>6
    <3>2. PICK p \in Seq(Functors) : p = pending[m]
      BY <1>1 DEF TypeOK
    <3>3. Functor(op, c) \in Functors /\ Functor(op, c).conn = c /\ pending'[m] = Append(p, Functor(op, c))
      BY <1>1, <3>1, <3>2 DEF Functor, Functors, TypeOK
    <3>4. Len(p) + 1 \in DOMAIN pending'[m] /\ pending'[m][Len(p) + 1].conn = c
      BY <3>3, AppendProperties
    <3>5. m \in Loops'
      BY <2>1 DEF Loops
    <3> QED
      BY <3>4, <3>5, Zenon DEF Freed, References
  <2> QED
    BY <2>1, <2>2, <2>4, <2>5, <2>6, <2>7, <2>8, <2>9, Zenon DEF Concerns
<1>6. ASSUME NEW l \in Loops, RunEstablished(l, c) PROVE Goal
  <2>1. /\ Runs(l, "established", c) /\ UNCHANGED <<connections, numThreads, pending>>
        /\ state' = [state EXCEPT ![c] = "kConnected"] /\ Called(c, "up")
    BY <1>6 DEF RunEstablished, Established, server
  <2>2. ~Freed(c) /\ ~Freed(c)' /\ functors' = functors /\ lpc' = lpc
    BY <2>1, RunningAlive DEF Runs
  <2>3. InTodo(Todo, "established", c)
    BY <2>1, Ran
  <2>4. calls[c] = <<>>
    BY <1>1, <2>3 DEF ConnOK, Stage
  <2>5. calls'[c] = <<"up">> /\ \A d \in Conns \ {c} : calls'[d] = calls[d]
    BY <1>1, <2>1, <2>4, CallsAppended
  <2>6. \A d \in Conns \ {c} : state'[d] = state[d]
    BY <1>1, <2>1 DEF TypeOK
  <2> QED
    BY <2>1, <2>2, <2>4, <2>5, <2>6 DEF Concerns
<1>7. ASSUME NEW l \in Loops, RunRemove(l, c) PROVE Goal
  <2>1. /\ Runs(l, "remove", c) /\ connections' = connections \ {c}
        /\ pending' = [pending EXCEPT ![loopOf[c]] = Append(@, Functor("destroy", c))]
        /\ UNCHANGED <<numThreads, state, calls>>
    BY <1>7 DEF RunRemove, Erase, Queue
  <2>2. ~Freed(c) /\ functors' = functors /\ lpc' = lpc /\ loopOf[c] \in Loops
    BY <1>1, <2>1, RunningAlive DEF TypeOK, Runs
  <2> QED
    BY <2>1, <2>2 DEF Concerns
<1>8. ASSUME Destroyed(c, loopOf[c]) PROVE
             /\ \A d \in Conns \ {c} : state'[d] = state[d] /\ calls'[d] = calls[d]
             /\ calls'[c] = calls[c] \/ (calls[c] = <<"up">> /\ calls'[c] = <<"up", "down">>)
  <2>1. CASE state[c] = "kConnected"
    <3>1. state' = [state EXCEPT ![c] = "kDisconnected"] /\ Called(c, "down") /\ calls[c] = <<"up">>
      BY <1>1, <1>8, <2>1 DEF Destroyed, ConnOK, Stage
    <3>2. calls'[c] = <<"up", "down">> /\ \A d \in Conns \ {c} : calls'[d] = calls[d]
      BY <1>1, <3>1, CallsAppended
    <3>3. \A d \in Conns \ {c} : state'[d] = state[d]
      BY <1>1, <3>1 DEF TypeOK
    <3> QED
      BY <3>1, <3>2, <3>3
  <2>2. CASE state[c] # "kConnected"
    BY <1>8, <2>2 DEF Destroyed
  <2> QED
    BY <2>1, <2>2
<1>9. ASSUME NEW l \in Loops, RunDestroy(l, c) PROVE Goal
  <2>1. /\ Runs(l, "destroy", c) /\ UNCHANGED <<connections, numThreads, pending>> /\ Destroyed(c, l)
    BY <1>9 DEF RunDestroy, server
  <2>2. l = loopOf[c]
    BY <2>1, Ran
  <2>3. ~Freed(c) /\ ~Freed(c)' /\ functors' = functors /\ lpc' = lpc
    BY <2>1, RunningAlive DEF Runs
  <2> QED
    BY <1>8, <2>1, <2>2, <2>3 DEF Concerns
<1>10. ASSUME DtorDestroys(c) PROVE Goal
  <2>1. /\ c \in connections /\ connections' = connections \ {c} /\ UNCHANGED <<numThreads, functors, lpc>>
        /\ Stopping
        /\ \/ Destroyed(c, loopOf[c]) /\ pending' = pending
           \/ /\ pending' = [pending EXCEPT ![loopOf[c]] = Append(@, Functor("destroy", c))]
              /\ UNCHANGED <<state, calls>>
    BY <1>10 DEF DtorDestroys, Queue, Stopping
  <2>2. ~Freed(c) /\ loopOf[c] \in Loops
    BY <1>1, <2>1 DEF Freed, References, TypeOK
  <2> QED
    BY <1>8, <2>1, <2>2 DEF Concerns
<1> QED
  BY <1>2, <1>4, <1>5, <1>6, <1>7, <1>9, <1>10

\* A step makes no callback for c and does not bring it back.
Quiet(c) == calls'[c] = calls[c] /\ (Freed(c) => Freed(c)')

\* Such are, for every connection, the steps that concern none.
LEMMA QuietSteps ==
  ASSUME Inv, NEW c \in Conns,
         \/ \E l \in Loops : \/ \E ready \in SUBSET Reportable(l) : Poll(l, ready)
                             \/ SwapFunctors(l) \/ EndFunctors(l) \/ EndLoop(l) \/ DtorQuits(l)
         \/ AcceptFails \/ Quit \/ (\E d \in Conns : PeerCloses(d)) \/ UNCHANGED vars
  PROVE  Quiet(c)
<1>1. UNCHANGED <<numThreads, connections, state, calls>>
  BY DEF Poll, SwapFunctors, EndFunctors, EndLoop, DtorQuits, AcceptFails, Quit, PeerCloses, vars, server
<1>2. Loops' = Loops
  BY <1>1 DEF Loops
<1>3. SUFFICES ASSUME References(c)' PROVE References(c)
  BY <1>1 DEF Quiet, Freed
<1>4. CASE UNCHANGED <<pending, functors>>
  BY <1>1, <1>2, <1>3, <1>4 DEF References
<1>5. ASSUME NEW l \in Loops, SwapFunctors(l) PROVE References(c)
  <2>1. /\ \A k \in Loops \ {l} : functors'[k] = functors[k] /\ pending'[k] = pending[k]
        /\ functors'[l] = pending[l] /\ pending'[l] = <<>>
    BY <1>5 DEF SwapFunctors, Inv, TypeOK
  <2>2. DOMAIN pending'[l] = {}
    BY <2>1
  <2> QED
    BY <1>1, <1>2, <1>3, <2>1, <2>2 DEF References
<1>6. ASSUME NEW l \in Loops, EndFunctors(l) PROVE References(c)
  <2>1. /\ \A k \in Loops \ {l} : functors'[k] = functors[k]
        /\ functors'[l] = <<>> /\ pending' = pending
    BY <1>6 DEF EndFunctors, Inv, TypeOK
  <2>2. DOMAIN functors'[l] = {}
    BY <2>1
  <2> QED
    BY <1>1, <1>2, <1>3, <2>1, <2>2 DEF References
<1>7. ASSUME NEW l \in Loops, EndLoop(l) PROVE References(c)
  <2>1. /\ \A k \in Loops \ {l} : functors'[k] = functors[k] /\ pending'[k] = pending[k]
        /\ functors'[l] = <<>> /\ pending'[l] = <<>>
    BY <1>7 DEF EndLoop, Inv, TypeOK
  <2>2. DOMAIN functors'[l] = {} /\ DOMAIN pending'[l] = {}
    BY <2>1
  <2> QED
    BY <1>1, <1>2, <1>3, <2>1, <2>2 DEF References
<1> QED
  BY <1>4, <1>5, <1>6, <1>7 DEF Poll, AcceptFails, Quit, PeerCloses, DtorQuits, vars, queues

\* Only Quit begins the destructor.
LEMMA StoppingKept ==
  ASSUME Inv,
         \/ \E l \in Loops : \/ \E ready \in SUBSET Reportable(l) : Poll(l, ready)
                             \/ SwapFunctors(l) \/ EndFunctors(l) \/ EndLoop(l) \/ DtorQuits(l)
         \/ AcceptFails \/ (\E d \in Conns : PeerCloses(d)) \/ UNCHANGED vars
  PROVE  Stopping' <=> Stopping
<1>1. CASE UNCHANGED lpc
  BY <1>1 DEF Stopping
<1>2. ASSUME NEW l \in Loops, NEW x, lpc[l] # "dtor", x # "dtor", lpc' = [lpc EXCEPT ![l] = x]
      PROVE  Stopping' <=> Stopping
  BY <1>2 DEF Stopping, Inv, TypeOK
<1>3. ASSUME NEW l \in Loops, EndLoop(l) PROVE Stopping' <=> Stopping
  BY <1>2, <1>3 DEF EndLoop
<1>4. ASSUME NEW l \in Loops, SwapFunctors(l) \/ EndFunctors(l) PROVE Stopping' <=> Stopping
  BY <1>2, <1>4 DEF SwapFunctors, EndFunctors
<1>5. ASSUME NEW l \in Loops, NEW ready, Poll(l, ready) PROVE Stopping' <=> Stopping
  BY <1>2, <1>5 DEF Poll
<1> QED
  BY <1>1, <1>3, <1>4, <1>5 DEF DtorQuits, AcceptFails, PeerCloses, vars

\* A connection that is freed has been told so, unless the server is being destroyed.
LEMMA FreedCalls == \A c \in Conns : Inv /\ Freed(c) => calls[c] = <<"up", "down">> \/ Stopping
<1> SUFFICES ASSUME NEW c \in Conns, Inv, Freed(c) PROVE calls[c] = <<"up", "down">> \/ Stopping
  OBVIOUS
<1>1. CASE Over(c)
  BY <1>1, NotOver
<1>2. CASE ~Over(c)
  BY <1>2, FreedStage
<1> QED
  BY <1>1, <1>2

\* And so after every step.
LEMMA FreedCallsAfter ==
  (\A c \in Conns : Inv /\ Freed(c) => calls[c] = <<"up", "down">> \/ Stopping)'
BY FreedCalls, PTL

\* The phase of a connection that is not freed, by its callbacks.
LEMMA PhaseByCalls ==
  ASSUME Inv, NEW c \in Conns, ~Freed(c)
  PROVE  /\ Phase(c) \in {"none", "up", "down"}
         /\ calls[c] = <<"up", "down">> => Phase(c) = "down"
<1>1. calls[c] \in {<<>>, <<"up">>, <<"up", "down">>}
  BY DEF Inv, TypeOK
<1>2. <<"up">> # <<>> /\ <<"up", "down">> # <<>> /\ <<"up">> # <<"up", "down">>
  <2>1. Len(<<>>) = 0 /\ Len(<<"up">>) = 1 /\ Len(<<"up", "down">>) = 2
    OBVIOUS
  <2> QED
    BY <2>1
<1> QED
  BY <1>1, <1>2 DEF Phase

\* A step in which no callback is made frees the connections that lose their last
\* reference in it; they have been told, or the server is being destroyed.
LEMMA QuietRefines ==
  ASSUME Inv, Inv', Stopping' <=> Stopping, \A c \in Conns : Quiet(c)
  PROVE  Life!Next
<1> DEFINE ph == [c \in Conns |-> Phase(c)]
           S == {c \in Conns : ~Freed(c) /\ Freed(c)'}
<1>1. ASSUME NEW c \in S PROVE ph[c] = "down" \/ (Stopping /\ ph[c] \in {"none", "up"})
  <2>1. calls'[c] = <<"up", "down">> \/ Stopping'
    BY FreedCallsAfter
  <2>2. (calls[c] = <<"up", "down">> \/ Stopping) /\ ~Freed(c)
    BY <2>1 DEF Quiet
  <2> QED
    BY <2>2, PhaseByCalls
<1>2. ASSUME NEW c \in Conns PROVE ph'[c] = IF c \in S THEN "gone" ELSE ph[c]
  <2>1. calls'[c] = calls[c] /\ (Freed(c) => Freed(c)')
    BY DEF Quiet
  <2>2. CASE Freed(c)
    BY <2>1, <2>2 DEF Phase
  <2>3. CASE ~Freed(c) /\ Freed(c)'
    BY <2>3 DEF Phase
  <2>4. CASE ~Freed(c) /\ ~Freed(c)'
    BY <2>1, <2>4 DEF Phase
  <2> QED
    BY <2>1, <2>2, <2>3, <2>4
<1>3. Life!Free(S)
  <2>1. \A c \in S : ph[c] = "down" \/ (lpc[MainLoop] = "dtor" /\ ph[c] \in {"none", "up"})
    BY <1>1 DEF Stopping
  <2>2. ph' = [c \in Conns |-> IF c \in S THEN "gone" ELSE ph[c]]
    BY <1>2
  <2>3. (lpc'[MainLoop] = "dtor") = (lpc[MainLoop] = "dtor")
    BY DEF Stopping
  <2> QED
    BY <2>1, <2>2, <2>3 DEF Life!Free
<1> QED
  BY <1>3 DEF Life!Next

\* Quit frees nothing.
LEMMA QuitRefines ==
  ASSUME Inv, Quit
  PROVE  Life!Next
<1> DEFINE ph == [c \in Conns |-> Phase(c)]
<1>1. UNCHANGED <<numThreads, connections, state, calls, pending, functors>>
  BY DEF Quit, server, queues
<1>2. ASSUME NEW c \in Conns PROVE Phase(c)' = Phase(c)
  <2>1. Freed(c)' <=> Freed(c)
    BY <1>1 DEF Freed, References, Loops
  <2> QED
    BY <1>1, <2>1 DEF Phase
<1>3. ph' = ph
  BY <1>2
<1>4. MainLoop \in Loops
  BY DEF Inv, TypeOK, MainLoop, Loops
<1>5. lpc'[MainLoop] = "dtor"
  BY <1>4 DEF Quit, Inv, TypeOK
<1>6. (lpc'[MainLoop] = "dtor") = TRUE
  BY <1>5
<1> QED
  BY <1>3, <1>6 DEF Life!Next, Life!Stop

\* A step on behalf of one connection moves that one on, or frees it.
LEMMA ConcernedRefines ==
  ASSUME Inv, Inv', NEW c \in Conns, Concerns(c),
         \/ calls'[c] = calls[c]
         \/ calls[c] = <<>> /\ calls'[c] = <<"up">> /\ ~Freed(c)'
         \/ calls[c] = <<"up">> /\ calls'[c] = <<"up", "down">> /\ (~Freed(c)' \/ Stopping)
  PROVE  Life!Next
<1> DEFINE ph == [d \in Conns |-> Phase(d)]
<1>1. \A d \in Conns \ {c} : calls'[d] = calls[d] /\ (Freed(d)' <=> Freed(d))
  BY OthersFreed DEF Concerns
<1>2. ~Freed(c) /\ lpc' = lpc
  BY DEF Concerns
<1>3. \A d \in Conns \ {c} : ph'[d] = ph[d]
  BY <1>1 DEF Phase
<1>4. <<"up">> # <<>> /\ <<"up", "down">> # <<>> /\ <<"up">> # <<"up", "down">>
  <2>1. Len(<<>>) = 0 /\ Len(<<"up">>) = 1 /\ Len(<<"up", "down">>) = 2
    OBVIOUS
  <2> QED
    BY <2>1
<1>9. (lpc'[MainLoop] = "dtor") = (lpc[MainLoop] = "dtor") /\ (Stopping' <=> Stopping)
  BY <1>2 DEF Stopping
<1>5. CASE calls'[c] = calls[c]
  <2>1. \A d \in Conns : Quiet(d)
    BY <1>1, <1>2, <1>5 DEF Quiet
  <2> QED
    BY <1>9, <2>1, QuietRefines
<1>6. CASE calls[c] = <<>> /\ calls'[c] = <<"up">> /\ ~Freed(c)'
  <2>1. ph[c] = "none" /\ ph'[c] = "up"
    BY <1>2, <1>4, <1>6 DEF Phase
  <2>2. ph' = [ph EXCEPT ![c] = "up"]
    BY <1>3, <2>1
  <2> QED
    BY <1>9, <2>1, <2>2 DEF Life!Next, Life!Up
<1>7. CASE calls[c] = <<"up">> /\ calls'[c] = <<"up", "down">> /\ ~Freed(c)'
  <2>1. ph[c] = "up" /\ ph'[c] = "down"
    BY <1>2, <1>4, <1>7 DEF Phase
  <2>2. ph' = [ph EXCEPT ![c] = "down"]
    BY <1>3, <2>1
  <2> QED
    BY <1>9, <2>1, <2>2 DEF Life!Next, Life!Down
<1>8. CASE calls[c] = <<"up">> /\ Stopping /\ Freed(c)'
  <2>1. ph[c] = "up" /\ ph'[c] = "gone"
    BY <1>2, <1>4, <1>8 DEF Phase
  <2>2. ph' = [d \in Conns |-> IF d \in {c} THEN "gone" ELSE ph[d]]
    BY <1>3, <2>1
  <2>3. Life!Free({c})
    BY <1>8, <1>9, <2>1, <2>2 DEF Life!Free, Stopping
  <2> QED
    BY <2>3 DEF Life!Next
<1> QED
  BY <1>5, <1>6, <1>7, <1>8

\* Every step is a step of ConnectionLife.
LEMMA StepRefines == Inv /\ Inv' /\ [Next]_vars => Life!Next
<1>1. SUFFICES ASSUME Inv, Inv', [Next]_vars PROVE Life!Next
  OBVIOUS
<1>2. ASSUME NEW c \in Conns,
             \/ NewConnection /\ c = nextConnId
             \/ \E l \in Loops : \/ HandleRead(l, c) \/ HandleClose(l, c) \/ RunEstablished(l, c)
                                 \/ RunRemove(l, c) \/ RunDestroy(l, c)
             \/ DtorDestroys(c)
      PROVE  Life!Next
  BY <1>1, <1>2, StepConcerns, ConcernedRefines
<1>3. ASSUME \/ \E l \in Loops : \/ \E ready \in SUBSET Reportable(l) : Poll(l, ready)
                                 \/ SwapFunctors(l) \/ EndFunctors(l) \/ EndLoop(l) \/ DtorQuits(l)
             \/ AcceptFails \/ (\E d \in Conns : PeerCloses(d)) \/ UNCHANGED vars
      PROVE  Life!Next
  <2>1. Stopping' <=> Stopping
    BY <1>1, <1>3, StoppingKept
  <2>2. \A c \in Conns : Quiet(c)
    BY <1>1, <1>3, QuietSteps
  <2> QED
    BY <1>1, <2>1, <2>2, QuietRefines
<1>6. ASSUME Quit PROVE Life!Next
  BY <1>1, <1>6, QuitRefines
<1>4. ASSUME NewConnection PROVE Life!Next
  <2>1. Accept \in active[MainLoop] /\ MainLoop \in Loops
    BY <1>1, <1>4 DEF NewConnection, Inv, TypeOK, MainLoop, Loops
  <2>2. nextConnId \in 1 .. NumConns + 1 /\ nextConnId <= NumConns /\ NumConns \in Nat
    BY <1>1, <2>1, BoundsAssumption DEF Inv, TypeOK, LoopsOK
  <2>3. nextConnId \in Conns
    BY <2>2 DEF Conns
  <2>4. PICK c \in Conns : c = nextConnId
    BY <2>3
  <2> QED
    BY <1>2, <1>4, <2>4
<1>5. ASSUME NEW l \in Loops, LoopStep(l) PROVE Life!Next
  BY <1>2, <1>3, <1>4, <1>5, Zenon DEF LoopStep
<1> QED
  BY <1>1, <1>2, <1>3, <1>5, <1>6, Zenon DEF Next, DtorStep

\* The connection callbacks and the end of each TcpConnection are those of
\* ConnectionLife: once "up", then once "down", and freed after that; the server's
\* destructor alone may free one before.
THEOREM LifeRefinement == Spec => ImplementsLife
<1>1. Init => Life!Init
  <2>1. SUFFICES ASSUME Init PROVE Life!Init
    OBVIOUS
  <2>2. \A c \in Conns : Phase(c) = "none"
    BY <2>1 DEF Init, Phase, Freed
  <2>3. (lpc[MainLoop] = "dtor") = FALSE
    BY <2>1, BoundsAssumption DEF Init, MainLoop, Loops
  <2> QED
    BY <2>2, <2>3 DEF Life!Init
<1> QED
  BY <1>1, StepRefines, Invariant, PTL DEF Spec, ImplementsLife, Life!Spec

=============================================================================
