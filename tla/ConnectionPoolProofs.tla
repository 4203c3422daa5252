------------------------- MODULE ConnectionPoolProofs -------------------------
(***************************************************************************)
(* Proofs about ConnectionPool, for any set of threads, any sizes and any  *)
(* idle time.                                                              *)
(***************************************************************************)
EXTENDS ConnectionPool, FiniteSetTheorems, SequenceTheorems, TLAPS

\* There are finitely many live connections, since each has a number.
LEMMA LiveFinite == TypeOK => IsFiniteSet(Live)
<1> SUFFICES ASSUME TypeOK PROVE IsFiniteSet(Live)
  OBVIOUS
<1>1. Live \in SUBSET (1 .. created) /\ created \in Int /\ 1 \in Int
  BY DEF Live, TypeOK
<1>2. IsFiniteSet(1 .. created)
  BY <1>1, FS_Interval, Zenon
<1> QED
  BY <1>1, <1>2, FS_Subset, Zenon

\* Connections in one place are counted once: the queue's length and the number
\* of borrowers add up to the live connections.  Nothing is assumed of Users: the
\* borrowers are finitely many because they hold different connections.
LEMMA PlacedIsOnePlace == TypeOK /\ Placed => OnePlace
<1> SUFFICES ASSUME TypeOK, Placed PROVE OnePlace
  OBVIOUS
<1> USE DEF TypeOK
<1> DEFINE Q == Range(queue)
           H == {held[u] : u \in Borrowed}
<1>0. Len(queue) \in Nat /\ queue \in [1 .. Len(queue) -> 1 .. created]
  BY LenProperties
<1>1. Q = {queue[i] : i \in 1 .. Len(queue)}
  BY <1>0 DEF Range
<1>2. Q \union H = Live
  <2>1. Q \subseteq 1 .. created
    BY <1>1
  <2>2. H \subseteq 1 .. created
    BY DEF Placed, Borrowed
  <2>3. Live \subseteq 1 .. created
    BY DEF Live
  <2>4. \A c \in 1 .. created : c \in Live <=> c \in Q \/ c \in H
    BY <1>1 DEF Placed
  <2> QED
    BY <2>1, <2>2, <2>3, <2>4
<1>3. Q \intersect H = {}
  BY <1>1 DEF Placed
<1>4. IsFiniteSet(Live)
  BY LiveFinite
<1>5. IsFiniteSet(Q) /\ IsFiniteSet(H)
  <2>1. Q \in SUBSET Live /\ H \in SUBSET Live
    BY <1>2
  <2> QED
    BY <1>4, <2>1, FS_Subset
<1>6. Cardinality(Q) = Len(queue)
  <2>1. queue \in Bijection(1 .. Len(queue), Q)
    BY <1>0, <1>1 DEF Placed, Bijection, Injection, Surjection, IsInjective
  <2>2. ExistsBijection(1 .. Len(queue), Q)
    BY <2>1 DEF ExistsBijection
  <2>3. IsFiniteSet(1 .. Len(queue)) /\ Cardinality(1 .. Len(queue)) = Len(queue)
    <3>1. 1 \in Int /\ Len(queue) \in Int /\ (1 > Len(queue) => Len(queue) = 0)
      BY <1>0
    <3> HIDE DEF TypeOK
    <3>2. /\ IsFiniteSet(1 .. Len(queue))
          /\ Cardinality(1 .. Len(queue)) =
               IF 1 > Len(queue) THEN 0 ELSE Len(queue) - 1 + 1
      BY <3>1, FS_Interval, Zenon
    <3> QED
      BY <3>1, <3>2
  <2> QED
    BY <2>2, <2>3, FS_Bijection
<1>7. Cardinality(H) = Cardinality(Borrowed)
  <2> DEFINE f == [u \in Borrowed |-> held[u]]
  <2>1. f \in Bijection(Borrowed, H)
    BY DEF Placed, Bijection, Injection, Surjection, IsInjective
  <2>2. IsFiniteSet(Borrowed)
    BY <1>5, <2>1, FS_Injection DEF Bijection
  <2>3. ExistsBijection(Borrowed, H)
    BY <2>1 DEF ExistsBijection
  <2> QED
    BY <2>2, <2>3, FS_Bijection
<1>8. Cardinality(Live) = Cardinality(Q) + Cardinality(H)
  <2> HIDE DEF Q, H
  <2>1. Cardinality(Q \union H) = Cardinality(Q) + Cardinality(H) - Cardinality(Q \intersect H)
    BY <1>5, FS_Union, Zenon
  <2>2. Cardinality(Q) \in Nat /\ Cardinality(H) \in Nat
    BY <1>5, FS_CardinalityType, Zenon
  <2>3. Cardinality(Q \intersect H) = 0
    BY <1>3, FS_EmptySet, Zenon
  <2>4. Cardinality(Live) = Cardinality(Q) + Cardinality(H) - 0
    BY <1>2, <2>1, <2>3, Zenon
  <2> QED
    BY <2>2, <2>4
<1> QED
  BY <1>2, <1>6, <1>7, <1>8 DEF OnePlace

\* The constructor queues minSize_ connections, all of them new.
LEMMA InitInv == Init => Inv
<1> SUFFICES ASSUME Init PROVE Inv
  OBVIOUS
<1> USE SizesAssumption
<1>1. Len(queue) = MinSize /\ queue \in Seq(1 .. created)
  BY DEF Init
<1>2. TypeOK
  BY <1>1 DEF Init, TypeOK
<1>3. Borrowed = {} /\ Live = 1 .. created
  BY DEF Init, Borrowed, Live
<1>4. Placed
  BY <1>1, <1>3 DEF Init, Placed
<1>5. OldestFirst
  BY <1>1 DEF Init, OldestFirst
<1>6. Cardinality(Live) = MinSize
  <2>1. OnePlace
    BY <1>2, <1>4, PlacedIsOnePlace
  <2>2. Cardinality(Borrowed) = 0
    BY <1>3, FS_EmptySet, Zenon
  <2> QED
    BY <1>1, <2>1, <2>2 DEF OnePlace
<1>7. SizeInBounds /\ CountedAtLeast
  BY <1>6 DEF Init, SizeInBounds, CountedAtLeast
<1> QED
  BY <1>2, <1>4, <1>5, <1>7 DEF Inv

\* In a state that is typed and placed, before or after a step, the count of the
\* live connections is the queue's length and the number of borrowers.
LEMMA LiveCount ==
  ASSUME Inv, TypeOK', Placed', Borrowed' = Borrowed
  PROVE  /\ Cardinality(Live) \in Nat /\ Cardinality(Borrowed) \in Nat
         /\ Cardinality(Live) = Len(queue) + Cardinality(Borrowed)
         /\ Cardinality(Live') = Len(queue') + Cardinality(Borrowed)
<1>1. OnePlace
  BY PlacedIsOnePlace DEF Inv
<1>2. (TypeOK /\ Placed => OnePlace)'
  BY PlacedIsOnePlace, PTL
<1>3. OnePlace'
  BY <1>2
<1>4. IsFiniteSet(Live)
  BY LiveFinite DEF Inv
<1>5. Cardinality(Live) \in Nat
  BY <1>4, FS_CardinalityType, Zenon
<1>6. IsFiniteSet(Borrowed)
  <2> DEFINE f == [u \in Borrowed |-> held[u]]
  <2>1. f \in Injection(Borrowed, Live)
    BY <1>1 DEF Inv, Placed, OnePlace, Injection, IsInjective
  <2> QED
    BY <1>4, <2>1, FS_Injection
<1>7. Cardinality(Borrowed) \in Nat
  BY <1>6, FS_CardinalityType, Zenon
<1> QED
  BY <1>1, <1>3, <1>5, <1>7 DEF OnePlace

\* A step that keeps every connection where it is, and of the same age, keeps the
\* invariant.
LEMMA StillInv ==
  ASSUME Inv, TypeOK', UNCHANGED <<queue, currentSize, created, deleted, age, held>>,
         Borrowed' = Borrowed
  PROVE  Inv'
BY DEF Inv, Placed, OldestFirst, SizeInBounds, CountedAtLeast, Live

\* produceConnection: the new connection is the only one queued.
LEMMA AddsKeepsInv ==
  ASSUME Inv, ProducerAdds
  PROVE  Inv'
<1> USE SizesAssumption DEF ProducerAdds, AddConnection, Inv
<1>1. queue' = <<created + 1>> /\ Len(queue') = 1 /\ queue'[1] = created + 1
  BY DEF TypeOK
<1>2. TypeOK'
  BY <1>1 DEF TypeOK
<1>3. Borrowed' = Borrowed /\ \A u \in Borrowed : held'[u] = held[u] /\ held[u] <= created
  BY DEF Borrowed, TypeOK
<1>4. Live' = Live \union {created + 1}
  BY DEF Live, TypeOK
<1>5. Placed'
  BY <1>1, <1>3, <1>4 DEF Placed, TypeOK
<1>6. OldestFirst'
  BY <1>1 DEF OldestFirst
<1>7. SizeInBounds' /\ CountedAtLeast'
  <2>1. /\ Cardinality(Live) \in Nat /\ Cardinality(Borrowed) \in Nat
        /\ Cardinality(Live) = 0 + Cardinality(Borrowed)
        /\ Cardinality(Live') = 1 + Cardinality(Borrowed)
    BY <1>1, <1>2, <1>3, <1>5, LiveCount
  <2>2. /\ Cardinality(Live) <= currentSize /\ currentSize < MaxSize
        /\ currentSize' = currentSize + 2 /\ currentSize \in Int
        /\ MinSize <= Cardinality(Live)
    BY DEF SizeInBounds, CountedAtLeast, HasRoom, TypeOK
  <2> HIDE DEF Inv, ProducerAdds
  <2>3. Cardinality(Live') = Cardinality(Live) + 1
    BY <2>1
  <2>4. MinSize <= Cardinality(Live') /\ Cardinality(Live') <= MaxSize
    BY <2>1, <2>2, <2>3
  <2>5. Cardinality(Live') <= currentSize'
    BY <2>1, <2>2, <2>3
  <2> QED
    BY <2>4, <2>5 DEF SizeInBounds, CountedAtLeast
<1> QED
  BY <1>2, <1>5, <1>6, <1>7

\* getConnection: the front connection goes from the queue to the caller.
LEMMA GetsKeepsInv ==
  ASSUME Inv, NEW u \in Users, Gets(u)
  PROVE  Inv'
<1> USE DEF Gets, Inv
<1>1. /\ Len(queue) \in Nat \ {0} /\ Head(queue) = queue[1] /\ queue[1] \in 1 .. created
      /\ queue' \in Seq(1 .. created) /\ Len(queue') = Len(queue) - 1
      /\ \A i \in 1 .. Len(queue') : queue'[i] = queue[i + 1]
  BY HeadTailProperties DEF TypeOK
<1>2. TypeOK'
  BY <1>1 DEF TypeOK
<1>3. Borrowed' = Borrowed \union {u} /\ u \notin Borrowed
  BY DEF Borrowed, TypeOK
<1>4. held'[u] = queue[1] /\ \A v \in Borrowed : held'[v] = held[v]
  BY <1>1, <1>3 DEF TypeOK, Borrowed
<1>5. Live' = Live
  BY DEF Live
<1>6. Placed'
  <2>1. \A i, j \in 1 .. Len(queue') : queue'[i] = queue'[j] => i = j
    BY <1>1 DEF Placed
  <2>2. \A v, w \in Borrowed' : held'[v] = held'[w] => v = w
    BY <1>1, <1>3, <1>4 DEF Placed
  <2>3. \A v \in Borrowed' : held'[v] # 0 /\ \A i \in 1 .. Len(queue') : held'[v] # queue'[i]
    BY <1>1, <1>3, <1>4 DEF Placed
  <2>4. ASSUME NEW c \in 1 .. created
        PROVE  c \in Live' <=> \/ \E i \in 1 .. Len(queue') : queue'[i] = c
                               \/ \E v \in Borrowed' : held'[v] = c
    <3>1. (\E i \in 1 .. Len(queue) : queue[i] = c)
             <=> (\E i \in 1 .. Len(queue') : queue'[i] = c) \/ queue[1] = c
      <4>1. \A i \in 1 .. Len(queue) : i = 1 \/ (i - 1 \in 1 .. Len(queue') /\ queue'[i - 1] = queue[i])
        BY <1>1
      <4>2. \A i \in 1 .. Len(queue') : i + 1 \in 1 .. Len(queue) /\ queue'[i] = queue[i + 1]
        BY <1>1
      <4>3. 1 \in 1 .. Len(queue)
        BY <1>1
      <4>4. ASSUME NEW i \in 1 .. Len(queue), queue[i] = c
            PROVE  (\E j \in 1 .. Len(queue') : queue'[j] = c) \/ queue[1] = c
        BY <4>1, <4>4
      <4>5. ASSUME NEW j \in 1 .. Len(queue'), queue'[j] = c
            PROVE  \E i \in 1 .. Len(queue) : queue[i] = c
        BY <4>2, <4>5
      <4> QED
        BY <4>3, <4>4, <4>5
    <3>2. (\E v \in Borrowed' : held'[v] = c)
             <=> (\E v \in Borrowed : held[v] = c) \/ queue[1] = c
      BY <1>3, <1>4
    <3> QED
      BY <1>5, <3>1, <3>2 DEF Placed
  <2> QED
    BY <2>1, <2>2, <2>3, <2>4 DEF Placed
<1>7. OldestFirst'
  BY <1>1 DEF OldestFirst
<1>8. SizeInBounds' /\ CountedAtLeast'
  BY <1>5 DEF SizeInBounds, CountedAtLeast
<1> QED
  BY <1>2, <1>6, <1>7, <1>8

\* The deleter of the shared_ptr: the connection goes from its borrower to the
\* back of the queue, and is as young as any.
LEMMA ReleasesKeepsInv ==
  ASSUME Inv, NEW u \in Users, Releases(u)
  PROVE  Inv'
<1> USE SizesAssumption DEF Releases, Inv
<1> DEFINE c0 == held[u]
           n  == Len(queue)
<1>1. u \in Borrowed /\ c0 \in 1 .. created /\ n \in Nat
  BY DEF Borrowed, TypeOK, Placed
<1>2. /\ queue' \in Seq(1 .. created) /\ Len(queue') = n + 1 /\ queue'[n + 1] = c0
      /\ \A i \in 1 .. n : queue'[i] = queue[i]
  BY <1>1, AppendProperties DEF TypeOK
<1>3. TypeOK'
  BY <1>1, <1>2 DEF TypeOK
<1>4. Borrowed' = Borrowed \ {u} /\ \A v \in Borrowed' : held'[v] = held[v]
  BY DEF Borrowed, TypeOK
<1>5. Live' = Live
  BY DEF Live
<1>6. Placed'
  <2>1. \A i, j \in 1 .. Len(queue') : queue'[i] = queue'[j] => i = j
    BY <1>1, <1>2 DEF Placed
  <2>2. \A v, w \in Borrowed' : held'[v] = held'[w] => v = w
    BY <1>4 DEF Placed
  <2>3. \A v \in Borrowed' : held'[v] # 0 /\ \A i \in 1 .. Len(queue') : held'[v] # queue'[i]
    BY <1>1, <1>2, <1>4 DEF Placed
  <2>4. ASSUME NEW c \in 1 .. created
        PROVE  c \in Live' <=> \/ \E i \in 1 .. Len(queue') : queue'[i] = c
                               \/ \E v \in Borrowed' : held'[v] = c
    <3>1. (\E i \in 1 .. Len(queue') : queue'[i] = c)
             <=> (\E i \in 1 .. n : queue[i] = c) \/ c0 = c
      BY <1>1, <1>2
    <3>2. (\E v \in Borrowed : held[v] = c)
             <=> (\E v \in Borrowed' : held'[v] = c) \/ c0 = c
      BY <1>1, <1>4
    <3> QED
      BY <1>5, <3>1, <3>2 DEF Placed
  <2> QED
    BY <2>1, <2>2, <2>3, <2>4 DEF Placed
<1>7. OldestFirst'
  <2>1. \A i \in 1 .. n : age'[queue'[i]] = age[queue[i]] /\ age[queue[i]] \in 0 .. MaxIdle
    BY <1>1, <1>2, SMTT(30) DEF Placed, TypeOK
  <2>2. age'[queue'[n + 1]] = 0
    BY <1>1, <1>2 DEF TypeOK
  <2> QED
    BY <1>1, <1>2, <2>1, <2>2 DEF OldestFirst
<1>8. SizeInBounds' /\ CountedAtLeast'
  BY <1>5 DEF SizeInBounds, CountedAtLeast
<1> QED
  BY <1>3, <1>6, <1>7, <1>8

\* recycleConnection: the expired connections at the front leave the queue and
\* are deleted; at least minSize_ stay queued.
LEMMA RecyclesKeepsInv ==
  ASSUME Inv, Recycles
  PROVE  Inv'
<1> USE SizesAssumption DEF Inv
<1> DEFINE n == Len(queue)
<1>1. PICK k \in 1 .. Len(queue) :
        /\ PassDeletes(k)
        /\ deleted' = deleted \union {queue[i] : i \in 1 .. k}
        /\ queue' = SubSeq(queue, k + 1, Len(queue))
        /\ currentSize' = currentSize - k
        /\ UNCHANGED <<created, age, held, upc, producer>>
  BY DEF Recycles
<1>2. n \in Nat /\ n - k >= MinSize /\ n - k \in Nat /\ MinSize \in Nat
      /\ \A i \in 1 .. n : queue[i] \in 1 .. created
  <2>1. n \in Nat /\ MinSize \in Nat /\ \A i \in 1 .. n : queue[i] \in 1 .. created
    BY SMTT(30) DEF TypeOK
  <2>2. n - k >= MinSize
    BY <1>1 DEF PassDeletes
  <2> QED
    BY <2>1, <2>2
<1>3. /\ queue' \in Seq(1 .. created) /\ Len(queue') = n - k
      /\ \A i \in 1 .. n - k : queue'[i] = queue[i + k]
  <2>1. \A i \in k + 1 .. n : queue[i] \in 1 .. created
    BY <1>2
  <2>2. k + 1 \in Int /\ n \in Int /\ (k + 1 <= n => n - (k + 1) + 1 = n - k)
        /\ (~(k + 1 <= n) => n - k = 0)
    BY <1>2
  <2>3. /\ SubSeq(queue, k + 1, n) \in Seq(1 .. created)
        /\ Len(SubSeq(queue, k + 1, n)) = IF k + 1 <= n THEN n - (k + 1) + 1 ELSE 0
        /\ \A i \in 1 .. n - (k + 1) + 1 : SubSeq(queue, k + 1, n)[i] = queue[k + 1 + i - 1]
    BY <2>1, <2>2, SubSeqProperties
  <2> QED
    BY <1>1, <1>2, <2>2, <2>3
<1>4. TypeOK'
  <2>1. currentSize' \in Int
    BY <1>1 DEF TypeOK
  <2>2. \A c \in deleted' : c \in deleted \/ \E i \in 1 .. n : queue[i] = c
    BY <1>1, <1>2
  <2>3. deleted' \subseteq 1 .. created
    BY <1>2, <2>2 DEF TypeOK
  <2> QED
    BY <1>1, <1>3, <2>1, <2>3 DEF TypeOK
<1>5. Borrowed' = Borrowed
  BY <1>1 DEF Borrowed
<1>6. Live' = Live \ {queue[i] : i \in 1 .. k}
  BY <1>1 DEF Live
<1>7. Placed'
  <2>1. \A i, j \in 1 .. Len(queue') : queue'[i] = queue'[j] => i = j
    BY <1>2, <1>3, SMTT(30) DEF Placed
  <2>2. \A v, w \in Borrowed' : held'[v] = held'[w] => v = w
    BY <1>1, <1>5 DEF Placed
  <2>3. \A v \in Borrowed' : held'[v] # 0 /\ \A i \in 1 .. Len(queue') : held'[v] # queue'[i]
    BY <1>1, <1>2, <1>3, <1>5 DEF Placed
  <2>4. ASSUME NEW c \in 1 .. created
        PROVE  c \in Live' <=> \/ \E i \in 1 .. Len(queue') : queue'[i] = c
                               \/ \E v \in Borrowed' : held'[v] = c
    <3>1. (\E i \in 1 .. n : queue[i] = c)
             <=> (\E i \in 1 .. Len(queue') : queue'[i] = c) \/ (\E i \in 1 .. k : queue[i] = c)
      <4>1. \A i \in 1 .. n : i \in 1 .. k \/ (i - k \in 1 .. n - k /\ queue'[i - k] = queue[i])
        BY <1>2, <1>3
      <4>2. \A i \in 1 .. n - k : i + k \in 1 .. n /\ queue'[i] = queue[i + k]
        BY <1>2, <1>3
      <4>3. \A i \in 1 .. k : i \in 1 .. n
        BY <1>2
      <4>4. ASSUME NEW i \in 1 .. n, queue[i] = c
            PROVE  (\E j \in 1 .. n - k : queue'[j] = c) \/ (\E j \in 1 .. k : queue[j] = c)
        BY <4>1, <4>4
      <4>5. ASSUME NEW j \in 1 .. n - k, queue'[j] = c
            PROVE  \E i \in 1 .. n : queue[i] = c
        BY <4>2, <4>5
      <4> QED
        BY <1>3, <4>3, <4>4, <4>5
    <3>2. \A i \in 1 .. k, j \in 1 .. Len(queue') : queue[i] # queue'[j]
      BY <1>2, <1>3 DEF Placed
    <3>3. \A i \in 1 .. k, v \in Borrowed : queue[i] # held[v]
      BY <1>2 DEF Placed
    <3>4. (\E v \in Borrowed' : held'[v] = c) <=> (\E v \in Borrowed : held[v] = c)
      BY <1>1, <1>5
    <3>5. c \in Live <=> (\E i \in 1 .. n : queue[i] = c) \/ (\E v \in Borrowed : held[v] = c)
      BY DEF Placed
    <3>6. c \in Live' <=> c \in Live /\ ~(\E i \in 1 .. k : queue[i] = c)
      BY <1>6
    <3>7. CASE \E i \in 1 .. k : queue[i] = c
      BY <3>2, <3>3, <3>4, <3>6, <3>7
    <3>8. CASE ~(\E i \in 1 .. k : queue[i] = c)
      BY <3>1, <3>4, <3>5, <3>6, <3>8
    <3> QED
      BY <3>7, <3>8
  <2> QED
    BY <1>1, <2>1, <2>2, <2>3, <2>4 DEF Placed
<1>8. OldestFirst'
  BY <1>1, <1>2, <1>3, SMTT(30) DEF OldestFirst
<1>9. SizeInBounds' /\ CountedAtLeast'
  <2>1. /\ Cardinality(Live) \in Nat /\ Cardinality(Borrowed) \in Nat
        /\ Cardinality(Live) = n + Cardinality(Borrowed)
        /\ Cardinality(Live') = n - k + Cardinality(Borrowed)
    BY <1>3, <1>4, <1>5, <1>7, LiveCount
  <2>2. /\ Cardinality(Live) <= currentSize /\ Cardinality(Live) <= MaxSize
        /\ currentSize' = currentSize - k /\ currentSize \in Int
    BY <1>1 DEF SizeInBounds, CountedAtLeast, TypeOK
  <2> HIDE DEF Inv
  <2>3. Cardinality(Live') = Cardinality(Live) - k
    BY <1>2, <2>1
  <2>4. MinSize <= Cardinality(Live') /\ Cardinality(Live') <= MaxSize
    BY <1>2, <2>1, <2>2, <2>3, SMTT(30)
  <2>5. Cardinality(Live') <= currentSize'
    BY <1>2, <2>1, <2>2, <2>3, SMTT(30)
  <2> QED
    BY <2>4, <2>5 DEF SizeInBounds, CountedAtLeast
<1> QED
  BY <1>4, <1>7, <1>8, <1>9

\* Time ages all connections by the same amount, so the order stays.
LEMMA TickKeepsInv ==
  ASSUME Inv, Tick
  PROVE  Inv'
<1> USE SizesAssumption DEF Tick, Inv
<1>1. TypeOK'
  BY DEF TypeOK
<1>2. Borrowed' = Borrowed /\ Live' = Live
  BY DEF Borrowed, Live
<1>3. Placed' /\ SizeInBounds' /\ CountedAtLeast'
  BY <1>2 DEF Placed, SizeInBounds, CountedAtLeast
<1>4. OldestFirst'
  <2>1. \A i \in 1 .. Len(queue) :
          /\ age[queue[i]] \in 0 .. MaxIdle
          /\ age'[queue[i]] = IF age[queue[i]] < MaxIdle THEN age[queue[i]] + 1 ELSE MaxIdle
    BY DEF TypeOK
  <2> SUFFICES ASSUME NEW i \in 1 .. Len(queue), NEW j \in 1 .. Len(queue), i < j
               PROVE  age'[queue[i]] >= age'[queue[j]]
    BY DEF OldestFirst
  <2>2. age[queue[i]] >= age[queue[j]]
    BY DEF OldestFirst
  <2> HIDE DEF Inv, Tick
  <2> QED
    BY <2>1, <2>2
<1> QED
  BY <1>1, <1>3, <1>4

\* Every step of the producer, the borrowers, the recycler and the clock.
LEMMA NextKeepsInv == Inv /\ [Next]_vars => Inv'
<1> SUFFICES ASSUME Inv, [Next]_vars PROVE Inv'
  OBVIOUS
<1>1. CASE ProducerWaits
  <2>1. TypeOK' /\ Borrowed' = Borrowed
    BY <1>1 DEF ProducerWaits, Inv, TypeOK, Borrowed
  <2> QED
    BY <1>1, <2>1, StillInv DEF ProducerWaits
<1>2. CASE ProducerAdds
  BY <1>2, AddsKeepsInv
<1>3. CASE \E u \in Users : StartsWaiting(u)
  <2>1. TypeOK' /\ Borrowed' = Borrowed
    BY <1>3 DEF StartsWaiting, Inv, TypeOK, Borrowed
  <2> QED
    BY <1>3, <2>1, StillInv DEF StartsWaiting
<1>4. CASE \E u \in Users : Gets(u)
  BY <1>4, GetsKeepsInv
<1>5. CASE \E u \in Users : Releases(u)
  BY <1>5, ReleasesKeepsInv
<1>6. CASE Recycles
  BY <1>6, RecyclesKeepsInv
<1>7. CASE Tick
  BY <1>7, TickKeepsInv
<1>8. CASE UNCHANGED vars
  <2>1. TypeOK' /\ Borrowed' = Borrowed
    BY <1>8 DEF vars, Inv, TypeOK, Borrowed
  <2> QED
    BY <1>8, <2>1, StillInv DEF vars
<1> QED
  BY <1>1, <1>2, <1>3, <1>4, <1>5, <1>6, <1>7, <1>8
  DEF Next, ProducerStep, ProducerSpins, UserStep

\* The inductive invariant holds always.
LEMMA Invariance == Spec => []Inv
BY InitInv, NextKeepsInv, PTL DEF Spec

\* ConnectionPool.cc:76-151: whatever the threads do, every live connection is
\* once in the queue or with one borrower: none is lent twice, lost, or deleted
\* while in use.
THEOREM ConnectionsInOnePlace == Spec => []OnePlace
<1>1. Inv => OnePlace
  BY PlacedIsOnePlace DEF Inv
<1> QED
  BY <1>1, Invariance, PTL

\* ConnectionPool.cc:111: the queue stays in the order of idle time, which the
\* recycler relies on when it stops at the first connection that is not expired.
THEOREM QueueOldestFirst == Spec => []OldestFirst
<1>1. Inv => OldestFirst
  BY DEF Inv
<1> QED
  BY <1>1, Invariance, PTL

\* ConnectionPool.cc:18-19: however connections are borrowed, created and
\* recycled, at least minSize_ and at most maxSize_ of them exist.
THEOREM PoolSizeInBounds == Spec => []SizeInBounds
<1>1. Inv => SizeInBounds
  BY DEF Inv
<1> QED
  BY <1>1, Invariance, PTL

=============================================================================
