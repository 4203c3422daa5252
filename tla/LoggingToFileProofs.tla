------------------------ MODULE LoggingToFileProofs ------------------------
(***************************************************************************)
(* Proofs about AsyncLogging and LoggingToFile, for any buffer size and    *)
(* any number of lines: the hand-over of buffers between the two sides     *)
(* never dereferences a moved-from pointer and never takes the last        *)
(* element of an empty vector, and it neither loses nor reorders a line;   *)
(* the log files hold each line once and in order, and a day's file        *)
(* ends soon after its day, for any sizes and any clock.                   *)
(***************************************************************************)
EXTENDS LoggingToFile, SequenceTheorems, WellFoundedInduction, TLAPS

(***************************************************************************)
(* Flattening.  SequencesExt defines it by a recursive function on the     *)
(* prefixes of the sequence; that there is such a function, and what it    *)
(* returns, is shown by induction, stated for a set of numbers.            *)
(***************************************************************************)

\* A set of numbers that has 0 and the successor of each of its members has
\* them all.
LEMMA SetInduction ==
  ASSUME NEW S, 0 \in S, \A n \in Nat : n \in S => n + 1 \in S
  PROVE  Nat \subseteq S
<1> DEFINE T == Nat \ S
           R == OpToRel(<, Nat)
<1>1. SUFFICES ASSUME T # {} PROVE FALSE
  OBVIOUS
<1>2. IsWellFoundedOn(R, Nat)
  BY NatLessThanWellFounded
<1>3. \A x, y \in Nat : <<y, x>> \in R <=> y < x
  BY DEF OpToRel
<1> HIDE DEF R
<1>4. PICK x \in T : \A y \in T : ~ (<<y, x>> \in R)
  BY <1>1, <1>2, WFMin
<1>5. \A y \in T : ~(y < x)
  BY <1>3, <1>4
<1>6. x # 0 /\ x - 1 \in Nat /\ x - 1 < x /\ x - 1 + 1 = x
  OBVIOUS
<1> QED
  BY <1>5, <1>6

\* f[i] is what the first i of the sequences s flatten to, for i up to n.
Flattens(f, s, n) ==
  f = [i \in 1 .. n |-> IF i = 1 THEN s[i] ELSE f[i - 1] \o s[i]]

\* There is such a function.
LEMMA FlattenerExists ==
  ASSUME NEW s, NEW n \in Nat
  PROVE  \E f : Flattens(f, s, n)
<1> DEFINE S == {k \in Nat : \E f : Flattens(f, s, k)}
<1>1. 0 \in S
  <2> DEFINE f == [i \in 1 .. 0 |-> 0]
  <2>1. Flattens(f, s, 0)
    BY DEF Flattens
  <2> QED
    BY <2>1
<1>2. ASSUME NEW k \in Nat, k \in S PROVE k + 1 \in S
  <2>1. PICK f : Flattens(f, s, k)
    BY <1>2
  <2> DEFINE x == IF k = 0 THEN s[1] ELSE f[k] \o s[k + 1]
             g == [i \in 1 .. k + 1 |-> IF i = k + 1 THEN x ELSE f[i]]
  <2>2. \A i \in 1 .. k : f[i] = (IF i = 1 THEN s[i] ELSE f[i - 1] \o s[i])
    BY <2>1 DEF Flattens
  <2>3. \A i \in 1 .. k + 1 : g[i] = (IF i = 1 THEN s[i] ELSE g[i - 1] \o s[i])
    <3> SUFFICES ASSUME NEW i \in 1 .. k + 1
                 PROVE  g[i] = (IF i = 1 THEN s[i] ELSE g[i - 1] \o s[i])
      OBVIOUS
    <3>1. CASE i = 1 
      BY <2>2, <3>1
    <3>2. CASE i # 1 /\ i = k + 1 
      <4>1. k # 0
        BY <3>2
      <4>2. x = f[k] \o s[k + 1]
        BY <4>1, Zenon
      <4>3. g[i] = f[k] \o s[k + 1]
        <5> HIDE DEF x
        <5> QED
          BY <3>2, <4>2
      <4>4. g[i - 1] = f[k]
        BY <3>2
      <4> QED
        BY <3>2, <4>3, <4>4
    <3>3. CASE i # 1 /\ i # k + 1 
      <4>1. i \in 1 .. k /\ i - 1 \in 1 .. k
        BY <3>3
      <4>2. g[i] = f[i] /\ g[i - 1] = f[i - 1]
        BY <3>3, <4>1
      <4> QED
        BY <2>2, <3>3, <4>1, <4>2
    <3> QED
      BY <3>1, <3>2, <3>3
  <2>4. Flattens(g, s, k + 1)
    <3> DEFINE h == [i \in 1 .. k + 1 |-> IF i = 1 THEN s[i] ELSE g[i - 1] \o s[i]]
    <3>1. g = [i \in 1 .. k + 1 |-> g[i]]
      OBVIOUS
    <3> HIDE DEF g
    <3>2. g = h
      BY <2>3, <3>1
    <3> QED
      BY <3>2 DEF Flattens
  <2> QED
    BY <2>4
<1> HIDE DEF S
<1>3. Nat \subseteq S
  BY <1>1, <1>2, SetInduction
<1> QED
  BY <1>3 DEF S

\* It is what FlattenSeq uses.
LEMMA FlattenIs ==
  ASSUME NEW s, Len(s) \in Nat, Len(s) # 0
  PROVE  \E f : Flattens(f, s, Len(s)) /\ FlattenSeq(s) = f[Len(s)]
<1> DEFINE f == CHOOSE f : Flattens(f, s, Len(s))
<1>1. Flattens(f, s, Len(s))
  BY FlattenerExists
<1>2. FlattenSeq(s) = f[Len(s)]
  BY DEF FlattenSeq, Flattens
<1> QED
  BY <1>1, <1>2

\* Nothing flattens to nothing.
LEMMA FlattenEmpty == FlattenSeq(<<>>) = <<>>
BY DEF FlattenSeq

\* What the prefixes of s flatten to.
LEMMA FlattenedPrefixes ==
  ASSUME NEW T, NEW s \in Seq(Seq(T)), NEW f, Flattens(f, s, Len(s))
  PROVE  \A n \in 1 .. Len(s) : /\ f[n] \in Seq(T)
                                /\ \A i \in 1 .. n : Range(s[i]) \subseteq Range(f[n])
<1> DEFINE P(n) == /\ f[n] \in Seq(T)
                   /\ \A i \in 1 .. n : Range(s[i]) \subseteq Range(f[n])
           S == {k \in Nat : k + 1 \in 1 .. Len(s) => P(k + 1)}
<1>0. Len(s) \in Nat /\ \A i \in 1 .. Len(s) : s[i] \in Seq(T)
  BY ElementOfSeq, LenProperties
<1>1. \A i \in 1 .. Len(s) : f[i] = (IF i = 1 THEN s[i] ELSE f[i - 1] \o s[i])
  BY DEF Flattens
<1>2. 0 \in S
  <2> SUFFICES ASSUME 1 \in 1 .. Len(s) PROVE P(1)
    OBVIOUS
  <2>1. f[1] = s[1]
    BY <1>1
  <2> QED
    BY <1>0, <2>1
<1>3. ASSUME NEW k \in Nat, k \in S PROVE k + 1 \in S
  <2> SUFFICES ASSUME k + 2 \in 1 .. Len(s) PROVE P(k + 2)
    OBVIOUS
  <2>1. k + 1 \in 1 .. Len(s)
    BY <1>0
  <2>2. P(k + 1)
    BY <1>3, <2>1
  <2>3. f[k + 2] = f[k + 1] \o s[k + 2]
    <3>1. k + 2 # 1 /\ (k + 2) - 1 = k + 1
      OBVIOUS
    <3> QED
      BY <1>1, <3>1
  <2>4. s[k + 2] \in Seq(T)
    BY <1>0
  <2>5. f[k + 2] \in Seq(T)
    BY <2>2, <2>3, <2>4, ConcatProperties
  <2>6. Range(f[k + 2]) = Range(f[k + 1]) \union Range(s[k + 2])
    BY <2>2, <2>3, <2>4, RangeConcatenation
  <2>7. ASSUME NEW i \in 1 .. k + 2 PROVE Range(s[i]) \subseteq Range(f[k + 2])
    <3>1. CASE i = k + 2
      BY <2>6, <3>1
    <3>2. CASE i # k + 2
      <4>1. i \in 1 .. k + 1
        BY <3>2
      <4> QED
        BY <2>2, <2>6, <4>1
    <3> QED
      BY <3>1, <3>2
  <2> QED
    BY <2>5, <2>7
<1> HIDE DEF P, S
<1>4. Nat \subseteq S
  BY <1>2, <1>3, SetInduction
<1>5. ASSUME NEW n \in 1 .. Len(s) PROVE P(n)
  <2>1. n - 1 \in Nat /\ (n - 1) + 1 = n
    BY <1>0
  <2> QED
    BY <1>4, <2>1 DEF S
<1> QED
  BY <1>5 DEF P

\* A flattened sequence holds what its elements do.
LEMMA FlattenType ==
  ASSUME NEW T, NEW s \in Seq(Seq(T))
  PROVE  /\ FlattenSeq(s) \in Seq(T)
         /\ \A i \in 1 .. Len(s) : Range(s[i]) \subseteq Range(FlattenSeq(s))
<1>0. Len(s) \in Nat
  BY LenProperties
<1>1. CASE Len(s) = 0
  <2>1. s = <<>>
    BY <1>1, EmptySeq
  <2>2. <<>> \in Seq(T)
    OBVIOUS
  <2>3. \A i : i \notin 1 .. Len(s)
    BY <1>1
  <2> QED
    BY <2>1, <2>2, <2>3, FlattenEmpty, Zenon
<1>2. CASE Len(s) # 0
  <2>1. PICK f : Flattens(f, s, Len(s)) /\ FlattenSeq(s) = f[Len(s)]
    BY <1>0, <1>2, FlattenIs
  <2>2. Len(s) \in 1 .. Len(s)
    BY <1>0, <1>2
  <2> QED
    BY <2>1, <2>2, FlattenedPrefixes
<1> QED
  BY <1>1, <1>2

\* Another element is flattened behind the others.
LEMMA FlattenAppend ==
  ASSUME NEW T, NEW s \in Seq(Seq(T)), NEW x \in Seq(T)
  PROVE  FlattenSeq(Append(s, x)) = FlattenSeq(s) \o x
<1> DEFINE t == Append(s, x)
           n == Len(s)
<1>0. n \in Nat
  BY LenProperties
<1>1. /\ t \in Seq(Seq(T)) /\ Len(t) = n + 1 /\ t[n + 1] = x
      /\ \A i \in 1 .. n : t[i] = s[i]
  BY AppendProperties
<1> HIDE DEF t
<1>2. PICK g : Flattens(g, t, n + 1) /\ FlattenSeq(t) = g[n + 1]
  <2>1. Len(t) \in Nat /\ Len(t) # 0
    BY <1>0, <1>1
  <2> QED
    BY <1>1, <2>1, FlattenIs
<1>3. \A i \in 1 .. n + 1 : g[i] = (IF i = 1 THEN t[i] ELSE g[i - 1] \o t[i])
  BY <1>2 DEF Flattens
<1>4. CASE n = 0
  <2>1. s = <<>>
    BY <1>4, EmptySeq
  <2>2. g[1] = x
    BY <1>1, <1>3, <1>4
  <2>3. <<>> \o x = x
    BY ConcatEmptySeq
  <2> QED
    BY <1>2, <1>4, <2>1, <2>2, <2>3, FlattenEmpty DEF t
<1>5. CASE n # 0
  <2>1. PICK f : Flattens(f, s, n) /\ FlattenSeq(s) = f[n]
    BY <1>0, <1>5, FlattenIs
  <2>2. \A i \in 1 .. n : f[i] = (IF i = 1 THEN s[i] ELSE f[i - 1] \o s[i])
    BY <2>1 DEF Flattens
  <2> DEFINE S == {k \in Nat : k + 1 \in 1 .. n => f[k + 1] = g[k + 1]}
  <2>3. 0 \in S
    BY <1>0, <1>1, <1>3, <2>2
  <2>4. ASSUME NEW k \in Nat, k \in S PROVE k + 1 \in S
    <3> SUFFICES ASSUME k + 2 \in 1 .. n PROVE f[k + 2] = g[k + 2]
      OBVIOUS
    <3>1. k + 1 \in 1 .. n /\ k + 2 \in 1 .. n + 1
      BY <1>0
    <3>2. f[k + 1] = g[k + 1]
      BY <2>4, <3>1
    <3>3. k + 2 # 1 /\ (k + 2) - 1 = k + 1
      OBVIOUS
    <3>4. f[k + 2] = f[k + 1] \o s[k + 2]
      BY <2>2, <3>3
    <3>5. g[k + 2] = g[k + 1] \o t[k + 2]
      BY <1>3, <3>1, <3>3
    <3> QED
      BY <1>1, <3>2, <3>4, <3>5
  <2> HIDE DEF S
  <2>5. Nat \subseteq S
    BY <2>3, <2>4, SetInduction
  <2>6. f[n] = g[n]
    <3>1. n - 1 \in Nat /\ (n - 1) + 1 = n /\ n \in 1 .. n
      BY <1>0, <1>5
    <3> QED
      BY <2>5, <3>1 DEF S
  <2>7. g[n + 1] = g[n] \o x
    <3>1. n + 1 # 1 /\ (n + 1) - 1 = n /\ n + 1 \in 1 .. n + 1
      BY <1>0, <1>5
    <3> QED
      BY <1>1, <1>3, <3>1
  <2> QED
    BY <1>2, <2>1, <2>6, <2>7 DEF t
<1> QED
  BY <1>4, <1>5

(***************************************************************************)
(* Buffers.                                                                *)
(***************************************************************************)

\* A moved-from pointer is not a buffer.
LEMMA NullIsNoBuffer == Null \notin BufferType
BY DEF Null, BufferType

\* A new buffer is one.
LEMMA FreshIsBuffer == FreshBuffer \in BufferType
<1>1. <<>> \in Seq(Nat)
  OBVIOUS
<1> QED
  BY <1>1 DEF FreshBuffer, BufferType

\* append() and reset() keep a buffer a buffer.
LEMMA AppendToType ==
  ASSUME NEW b \in BufferType, NEW x \in Nat
  PROVE  AppendTo(b, x) \in BufferType
<1>1. b.data \in Seq(Nat) /\ b.cur \in Nat
  BY DEF BufferType
<1> DEFINE d == b.data
<1>2. PutAt(d, b.cur + 1, x) \in Seq(Nat)
  <2>1. CASE b.cur + 1 <= Len(d)
    <3>1. b.cur + 1 \in 1 .. Len(d)
      BY <1>1, <2>1, LenProperties
    <3>2. [d EXCEPT ![b.cur + 1] = x] \in Seq(Nat)
      BY <1>1, <3>1, ExceptSeq
    <3> QED
      BY <2>1, <3>2 DEF PutAt
  <2>2. CASE ~(b.cur + 1 <= Len(d))
    <3>1. Append(d, x) \in Seq(Nat)
      BY <1>1, AppendProperties
    <3> QED
      BY <2>2, <3>1 DEF PutAt
  <2> QED
    BY <2>1, <2>2
<1> QED
  BY <1>1, <1>2 DEF AppendTo, BufferType

\* Taking a buffer back keeps its contents and rewinds cur_.
LEMMA ResetType ==
  ASSUME NEW b \in BufferType
  PROVE  Reset(b) \in BufferType
BY DEF Reset, BufferType

(***************************************************************************)
(* The inductive invariant.                                                *)
(***************************************************************************)

\* The constructor establishes it.
LEMMA InitInv == Init => Inv
<1> SUFFICES ASSUME Init PROVE Inv
  OBVIOUS
<1>1. TypeOK
  <2>1. buffers \in Seq(BufferType) /\ toWrite \in Seq(BufferType)
    BY DEF Init
  <2> QED
    BY <2>1, FreshIsBuffer DEF Init, TypeOK, BackendPCs
<1>2. next # Null
  BY FreshIsBuffer, NullIsNoBuffer DEF Init
<1> QED
  BY <1>1, <1>2 DEF Init, Inv, SparesReady, NextTakenMeansFull, RefillHasBuffers

\* append() leaves a buffer in currentBuffer_, and takes nextBuffer_ only
\* together with filling buffers_.
LEMMA AppendKeeps == ASSUME Inv, AppendLine PROVE Inv'
<1> USE DEF Inv
<1>1. lines' \in Nat
  BY DEF AppendLine, TypeOK
<1>2. UNCHANGED <<new1, new2, toWrite, pc, running>>
  BY DEF AppendLine, back
<1>3. CASE AppendFits(lines')
  <2>1. current' \in BufferType
    BY <1>1, <1>3, AppendToType DEF AppendFits, TypeOK
  <2> QED
    BY <1>1, <1>2, <1>3, <2>1
    DEF AppendFits, TypeOK, SparesReady, NextTakenMeansFull, RefillHasBuffers
<1>4. CASE AppendRotates(lines')
  <2>1. buffers' \in Seq(BufferType) /\ buffers' # <<>>
    BY <1>4, AppendProperties DEF AppendRotates, TypeOK
  <2>2. PICK b \in BufferType : current' = AppendTo(b, lines')
    BY <1>4, FreshIsBuffer DEF AppendRotates, TypeOK
  <2>3. current' \in BufferType
    BY <1>1, <2>2, AppendToType
  <2> QED
    BY <1>1, <1>2, <1>4, <2>1, <2>3
    DEF AppendRotates, TypeOK, SparesReady, NextTakenMeansFull, RefillHasBuffers
<1> QED
  BY <1>3, <1>4 DEF AppendLine

\* The swap finds both spares ready, and leaves as many buffers to write as
\* there are pointers to refill.
LEMMA SwapKeeps == ASSUME Inv, BackendSwap PROVE Inv'
<1> USE DEF Inv
<1>1. new1 \in BufferType /\ new2 \in BufferType
  BY DEF BackendSwap, MaySwap, SparesReady, TypeOK
<1>2. toWrite' \in Seq(BufferType) /\ Len(toWrite') = Len(buffers) + 1
  BY AppendProperties DEF BackendSwap, TypeOK
<1>3. buffers' = <<>> /\ buffers' \in Seq(BufferType)
  BY DEF BackendSwap
<1>4. next' \in BufferType /\ new2' \in BufferType \union {Null}
  BY <1>1 DEF BackendSwap, SwapGivesSecond, TypeOK
<1>5. new2' = Null => Len(toWrite') >= 2
  <2>1. CASE next = Null
    <3>1. buffers # <<>>
      BY <2>1 DEF NextTakenMeansFull
    <3>2. Len(buffers) >= 1
      BY <3>1, EmptySeq, LenProperties DEF TypeOK
    <3> QED
      BY <1>2, <3>2, LenProperties DEF TypeOK
  <2>2. CASE next # Null
    BY <1>1, <2>2, NullIsNoBuffer DEF BackendSwap, SwapGivesSecond
  <2> QED
    BY <2>1, <2>2
<1>6. TypeOK'
  BY <1>1, <1>2, <1>3, <1>4 DEF BackendSwap, TypeOK, BackendPCs
<1>7. RefillHasBuffers'
  BY <1>2, <1>5, LenProperties DEF BackendSwap, RefillHasBuffers, TypeOK
<1> QED
  BY <1>4, <1>6, <1>7, NullIsNoBuffer DEF BackendSwap, SparesReady, NextTakenMeansFull

\* The refill takes as many buffers as there are.
LEMMA RefillKeeps == ASSUME Inv, BackendRefill PROVE Inv'
<1> USE DEF Inv
<1>1. Len(toWrite) \in Nat /\ Len(toWrite) >= 1 /\ (new2 = Null => Len(toWrite) >= 2)
  BY LenProperties DEF BackendRefill, RefillHasBuffers, TypeOK
<1>2. /\ Kept \in Seq(BufferType) /\ Len(Kept) >= 1 /\ Len(Kept) \in Nat
      /\ new2 = Null => Len(Kept) = 2
  <2>1. CASE Len(toWrite) > 2
    <3>1. /\ SubSeq(toWrite, 1, 2) \in Seq(BufferType)
          /\ Len(SubSeq(toWrite, 1, 2)) = 2
      BY <1>1, <2>1, SubSeqProperties DEF TypeOK
    <3>2. Kept = SubSeq(toWrite, 1, 2)
      BY <2>1 DEF Kept
    <3>3. Kept \in Seq(BufferType) /\ Len(Kept) = 2
      BY <3>1, <3>2, Zenon
    <3> QED
      BY <3>3
  <2>2. CASE ~(Len(toWrite) > 2)
    <3>1. Kept = toWrite
      BY <2>2 DEF Kept
    <3>2. new2 = Null => Len(toWrite) = 2
      <4>1. \A k \in Nat : k >= 2 /\ ~(k > 2) => k = 2
        OBVIOUS
      <4> QED
        BY <1>1, <2>2, <4>1, Zenon
    <3>3. toWrite \in Seq(BufferType)
      BY DEF TypeOK
    <3> QED
      BY <1>1, <3>1, <3>2, <3>3, Zenon
  <2> QED
    BY <2>1, <2>2
<1>3. Last(Kept) \in BufferType
  BY <1>2, ElementOfSeq DEF Last
<1>4. new2 = Null => Last(Front(Kept)) \in BufferType
  <2> SUFFICES ASSUME new2 = Null PROVE Last(Front(Kept)) \in BufferType
    OBVIOUS
  <2>1. Len(Kept) = 2 /\ Kept[1] \in BufferType
    BY <1>2, ElementOfSeq
  <2>2. /\ Len(SubSeq(Kept, 1, 1)) = 1
        /\ SubSeq(Kept, 1, 1)[1] = Kept[1]
    BY <1>2, <2>1, SubSeqProperties
  <2> QED
    BY <2>1, <2>2 DEF Last, Front
<1>5. new1' \in BufferType /\ new2' \in BufferType
  BY <1>3, <1>4, ResetType DEF BackendRefill, TypeOK
<1>6. toWrite' \in Seq(BufferType)
  BY DEF BackendRefill
<1> QED
  BY <1>5, <1>6, NullIsNoBuffer DEF BackendRefill, front, TypeOK, BackendPCs,
     SparesReady, NextTakenMeansFull, RefillHasBuffers

\* Every step keeps the invariant.
LEMMA NextInv == Inv /\ [Next]_vars => Inv'
<1> SUFFICES ASSUME Inv, [Next]_vars PROVE Inv'
  OBVIOUS
<1>1. CASE Start
  BY <1>1, FreshIsBuffer, NullIsNoBuffer DEF Start, front, Inv, TypeOK, BackendPCs,
     SparesReady, NextTakenMeansFull, RefillHasBuffers
<1>2. CASE Stop
  BY <1>2 DEF Stop, front, back, Inv, TypeOK, SparesReady, NextTakenMeansFull,
     RefillHasBuffers
<1>3. CASE BackendTest \/ BackendWait \/ BackendWrite
  BY <1>3 DEF BackendTest, BackendWait, BackendWrite, front, Inv, TypeOK, BackendPCs,
     SparesReady, NextTakenMeansFull, RefillHasBuffers
<1>4. CASE UNCHANGED vars
  BY <1>4 DEF vars, front, back, Inv, TypeOK, SparesReady, NextTakenMeansFull,
     RefillHasBuffers
<1> QED
  BY <1>1, <1>2, <1>3, <1>4, AppendKeeps, SwapKeeps, RefillKeeps DEF Next, Backend

\* The buffers never run out: currentBuffer_ is a buffer whenever the lock is
\* free, and threadFunc never takes back() of an empty buffersToWrite.
THEOREM InvHolds == Spec => []Inv
BY InitInv, NextInv, PTL DEF Spec

(***************************************************************************)
(* The cells of a buffer.                                                  *)
(***************************************************************************)

\* A buffer of which cur_ is inside the cells that have been written.
Filled(b) == b \in BufferType /\ b.cur <= Len(b.data)

\* The cells in front of cur_ and those behind it.
LEMMA CellsOf ==
  ASSUME NEW b, Filled(b)
  PROVE  /\ b.data \in Seq(Nat) /\ b.cur \in Nat /\ Len(b.data) \in Nat
         /\ Live(b) \in Seq(Nat) /\ Len(Live(b)) = b.cur
         /\ \A i \in 1 .. b.cur : Live(b)[i] = b.data[i]
         /\ Range(Live(b)) = {b.data[i] : i \in 1 .. b.cur}
         /\ Range(Stale(b)) = {b.data[i] : i \in b.cur + 1 .. Len(b.data)}
<1> DEFINE d == b.data
           c == b.cur
           n == Len(d)
<1>1. d \in Seq(Nat) /\ c \in Nat /\ n \in Nat /\ c <= n
  BY LenProperties DEF Filled, BufferType
<1> HIDE DEF d, c, n
<1>2. /\ SubSeq(d, 1, c) \in Seq(Nat) /\ Len(SubSeq(d, 1, c)) = c
      /\ \A i \in 1 .. c : SubSeq(d, 1, c)[i] = d[i]
  <2>1. \A i \in 1 .. c : i \in 1 .. n
    BY <1>1
  <2>2. \A i \in 1 .. n : d[i] \in Nat
    BY <1>1, ElementOfSeq DEF n
  <2>3. SubSeq(d, 1, c) = [i \in 1 .. c |-> d[i]]
    BY <1>1
  <2>4. [i \in 1 .. c |-> d[i]] \in Seq(Nat)
    BY <1>1, <2>1, <2>2, IsASeq
  <2>5. Len([i \in 1 .. c |-> d[i]]) = c
    BY <1>1, <2>4, LenProperties
  <2> QED
    BY <2>3, <2>4, <2>5
<1>3. Range(SubSeq(d, 1, c)) = {d[i] : i \in 1 .. c}
  <2>1. Range(SubSeq(d, 1, c)) = {SubSeq(d, 1, c)[i] : i \in 1 .. c}
    BY <1>2, RangeEquality
  <2> QED
    BY <1>2, <2>1
<1>4. Range(SubSeq(d, c + 1, n)) = {d[i] : i \in c + 1 .. n}
  <2>1. SubSeq(d, c + 1, n) = [i \in 1 .. n - c |-> d[i + c]]
    BY <1>1
  <2>2. \A x : (\E i \in 1 .. n - c : x = d[i + c]) <=> (\E i \in c + 1 .. n : x = d[i])
    <3>1. \A i \in 1 .. n - c : i + c \in c + 1 .. n
      BY <1>1
    <3>2. \A i \in c + 1 .. n : i - c \in 1 .. n - c /\ (i - c) + c = i
      BY <1>1
    <3> QED
      BY <3>1, <3>2, Zenon
  <2>3. Range([i \in 1 .. n - c |-> d[i + c]]) = {d[i + c] : i \in 1 .. n - c}
    BY DEF Range
  <2>4. {d[i + c] : i \in 1 .. n - c} = {d[i] : i \in c + 1 .. n}
    BY <2>2, Zenon
  <2> QED
    BY <2>1, <2>3, <2>4, Zenon
<1> QED
  BY <1>1, <1>2, <1>3, <1>4 DEF Live, Stale, d, c, n

\* append() puts the line behind the others and overwrites, at most, a cell of an
\* earlier use.
LEMMA AppendToCells ==
  ASSUME NEW b, Filled(b), NEW x \in Nat
  PROVE  /\ Filled(AppendTo(b, x))
         /\ Live(AppendTo(b, x)) = Append(Live(b), x)
         /\ Range(Stale(AppendTo(b, x))) \subseteq Range(Stale(b))
<1> DEFINE e == AppendTo(b, x)
           d == b.data
           c == b.cur
           n == Len(d)
<1>1. d \in Seq(Nat) /\ c \in Nat /\ n \in Nat /\ c <= n
  BY CellsOf DEF Filled
<1>2. e \in BufferType /\ e.cur = c + 1 /\ e.data = PutAt(d, c + 1, x)
  BY AppendToType DEF Filled, AppendTo
<1>3. /\ Len(e.data) \in Nat /\ c + 1 <= Len(e.data)
      /\ n <= Len(e.data) /\ (Len(e.data) = n \/ Len(e.data) = c + 1)
      /\ e.data[c + 1] = x
      /\ \A i \in 1 .. Len(e.data) : i # c + 1 => i \in 1 .. n /\ e.data[i] = d[i]
  <2>1. CASE c + 1 <= n
    <3>1. c + 1 \in 1 .. n
      BY <1>1, <2>1
    <3>2. e.data = [d EXCEPT ![c + 1] = x]
      BY <1>2, <2>1 DEF PutAt
    <3> HIDE DEF e, d, c
    <3>3. DOMAIN d = 1 .. n
      BY <1>1, LenProperties
    <3>4. [d EXCEPT ![c + 1] = x] \in Seq(Nat)
      BY <1>1, <3>1, ExceptSeq
    <3>5. Len([d EXCEPT ![c + 1] = x]) = n
      BY <1>1, <3>1, ExceptSeq
    <3>6. \A i \in 1 .. n : [d EXCEPT ![c + 1] = x][i] = IF i = c + 1 THEN x ELSE d[i]
      BY <3>3
    <3> HIDE DEF n
    <3> QED
      BY <1>1, <2>1, <3>1, <3>2, <3>5, <3>6
  <2>2. CASE ~(c + 1 <= n)
    <3>1. e.data = Append(d, x)
      BY <1>2, <2>2 DEF PutAt
    <3>2. c = n
      <4> HIDE DEF c, n
      <4> QED
        BY <1>1, <2>2
    <3> HIDE DEF e, d, c
    <3>3. /\ Len(Append(d, x)) = n + 1 /\ Append(d, x)[n + 1] = x
          /\ \A i \in 1 .. n : Append(d, x)[i] = d[i]
      BY <1>1, AppendProperties
    <3> HIDE DEF n
    <3> QED
      BY <1>1, <3>1, <3>2, <3>3
  <2> QED
    BY <2>1, <2>2
<1>4. Filled(e)
  BY <1>2, <1>3 DEF Filled
<1>5. Live(e) = Append(Live(b), x)
  <2>1. /\ Live(e) \in Seq(Nat) /\ Len(Live(e)) = c + 1
        /\ \A i \in 1 .. c + 1 : Live(e)[i] = e.data[i]
    BY <1>2, <1>4, CellsOf
  <2>2. /\ Live(b) \in Seq(Nat) /\ Len(Live(b)) = c
        /\ \A i \in 1 .. c : Live(b)[i] = d[i]
    BY CellsOf
  <2> HIDE DEF e, d, c, n
  <2>3. /\ Append(Live(b), x) \in Seq(Nat) /\ Len(Append(Live(b), x)) = c + 1
        /\ Append(Live(b), x)[c + 1] = x
        /\ \A i \in 1 .. c : Append(Live(b), x)[i] = Live(b)[i]
    BY <2>2, AppendProperties
  <2>4. \A i \in 1 .. c + 1 : Live(e)[i] = Append(Live(b), x)[i]
    <3> SUFFICES ASSUME NEW i \in 1 .. c + 1 PROVE Live(e)[i] = Append(Live(b), x)[i]
      OBVIOUS
    <3>1. CASE i = c + 1
      BY <1>3, <2>1, <2>3, <3>1
    <3>2. CASE i # c + 1
      <4>1. i \in 1 .. c /\ i \in 1 .. Len(e.data)
        BY <1>1, <1>3, <3>2
      <4> QED
        BY <1>3, <2>1, <2>2, <2>3, <3>2, <4>1
    <3> QED
      BY <3>1, <3>2
  <2> QED
    BY <2>1, <2>3, <2>4, SeqEqual
<1>6. Range(Stale(e)) \subseteq Range(Stale(b))
  <2>1. Range(Stale(e)) = {e.data[i] : i \in (c + 1) + 1 .. Len(e.data)}
    BY <1>2, <1>4, CellsOf
  <2>2. Range(Stale(b)) = {d[i] : i \in c + 1 .. n}
    BY CellsOf
  <2> HIDE DEF e, d, c, n
  <2>3. ASSUME NEW i \in (c + 1) + 1 .. Len(e.data)
        PROVE  i \in c + 1 .. n /\ e.data[i] = d[i]
    <3>1. i \in 1 .. Len(e.data) /\ i # c + 1
      BY <1>1, <1>3
    <3>2. i \in 1 .. n /\ e.data[i] = d[i]
      BY <1>3, <3>1
    <3> QED
      BY <1>1, <3>1, <3>2
  <2> QED
    BY <2>1, <2>2, <2>3
<1> QED
  BY <1>4, <1>5, <1>6

\* reset() keeps the cells: those in front of cur_ are now behind it.
LEMMA ResetCells ==
  ASSUME NEW b, Filled(b)
  PROVE  /\ Filled(Reset(b)) /\ Reset(b).cur = 0
         /\ Range(Stale(Reset(b))) \subseteq Range(Live(b)) \union Range(Stale(b))
<1>1. Reset(b).data = b.data /\ Reset(b).cur = 0 /\ Reset(b) \in BufferType
  BY ResetType DEF Reset, Filled, BufferType
<1>2. Filled(Reset(b))
  BY <1>1, CellsOf DEF Filled
<1>3. Range(Stale(Reset(b))) = {b.data[i] : i \in 0 + 1 .. Len(b.data)}
  <2> DEFINE r == Reset(b)
  <2> HIDE DEF r
  <2>1. Range(Stale(r)) = {r.data[i] : i \in r.cur + 1 .. Len(r.data)}
    BY <1>2, CellsOf DEF r
  <2> QED
    BY <1>1, <2>1, Zenon DEF r
<1>4. \A i \in 0 + 1 .. Len(b.data) : i \in 1 .. b.cur \/ i \in b.cur + 1 .. Len(b.data)
  BY CellsOf
<1>5. /\ Range(Live(b)) = {b.data[i] : i \in 1 .. b.cur}
      /\ Range(Stale(b)) = {b.data[i] : i \in b.cur + 1 .. Len(b.data)}
  BY CellsOf
<1> QED
  BY <1>1, <1>2, <1>3, <1>4, <1>5

\* A buffer that was reset, or is new, holds no lines.
LEMMA EmptyCells ==
  ASSUME NEW b, Filled(b), b.cur = 0
  PROVE  Live(b) = <<>>
BY CellsOf, EmptySeq

\* A new buffer has no cells either.
LEMMA FreshCells == Filled(FreshBuffer) /\ FreshBuffer.cur = 0 /\ Range(Stale(FreshBuffer)) = {}
<1>1. Filled(FreshBuffer) /\ FreshBuffer.cur = 0 /\ Len(FreshBuffer.data) = 0
  BY FreshIsBuffer DEF Filled, FreshBuffer
<1>2. Range(Stale(FreshBuffer)) = {FreshBuffer.data[i] : i \in 0 + 1 .. 0}
  BY <1>1, CellsOf
<1> QED
  BY <1>1, <1>2

\* The lines of several buffers.
LEMMA LiveLinesOf ==
  ASSUME NEW bs \in Seq(BufferType), \A i \in 1 .. Len(bs) : Filled(bs[i])
  PROVE  /\ LiveLines(bs) \in Seq(Nat)
         /\ \A i \in 1 .. Len(bs) : Range(Live(bs[i])) \subseteq Range(LiveLines(bs))
         /\ \A b : Filled(b) => LiveLines(Append(bs, b)) = LiveLines(bs) \o Live(b)
<1> DEFINE ls == [i \in DOMAIN bs |-> Live(bs[i])]
<1>1. DOMAIN bs = 1 .. Len(bs) /\ Len(bs) \in Nat
  BY LenProperties
<1>2. ls \in Seq(Seq(Nat)) /\ Len(ls) = Len(bs) /\ \A i \in 1 .. Len(bs) : ls[i] = Live(bs[i])
  <2>1. \A i \in 1 .. Len(bs) : Live(bs[i]) \in Seq(Nat)
    BY CellsOf
  <2>2. ls \in Seq(Seq(Nat))
    BY <1>1, <2>1, IsASeq
  <2>3. Len(ls) = Len(bs)
    BY <1>1, <2>2, LenProperties
  <2> QED
    BY <1>1, <2>2, <2>3
<1>3. LiveLines(bs) = FlattenSeq(ls)
  BY DEF LiveLines
<1> HIDE DEF ls
<1>4. /\ LiveLines(bs) \in Seq(Nat)
      /\ \A i \in 1 .. Len(bs) : Range(Live(bs[i])) \subseteq Range(LiveLines(bs))
  BY <1>2, <1>3, FlattenType
<1>5. ASSUME NEW b, Filled(b)
      PROVE  LiveLines(Append(bs, b)) = LiveLines(bs) \o Live(b)
  <2> DEFINE cs == Append(bs, b)
             ms == [i \in DOMAIN cs |-> Live(cs[i])]
  <2>1. /\ cs \in Seq(BufferType) /\ Len(cs) = Len(bs) + 1 /\ cs[Len(bs) + 1] = b
        /\ \A i \in 1 .. Len(bs) : cs[i] = bs[i]
        /\ DOMAIN cs = 1 .. Len(bs) + 1
    BY <1>5, AppendProperties, LenProperties DEF Filled
  <2>2. Live(b) \in Seq(Nat)
    BY <1>5, CellsOf
  <2>3. LiveLines(cs) = FlattenSeq(ms)
    BY DEF LiveLines
  <2> HIDE DEF cs
  <2>4. /\ Append(ls, Live(b)) \in Seq(Seq(Nat))
        /\ Len(Append(ls, Live(b))) = Len(bs) + 1
        /\ Append(ls, Live(b))[Len(bs) + 1] = Live(b)
        /\ \A i \in 1 .. Len(bs) : Append(ls, Live(b))[i] = ls[i]
    BY <1>2, <2>2, AppendProperties
  <2>5. \A i \in 1 .. Len(bs) + 1 : ms[i] = Append(ls, Live(b))[i]
    <3> SUFFICES ASSUME NEW i \in 1 .. Len(bs) + 1 PROVE ms[i] = Append(ls, Live(b))[i]
      OBVIOUS
    <3>1. ms[i] = Live(cs[i])
      BY <2>1
    <3>2. CASE i = Len(bs) + 1
      BY <2>1, <2>4, <3>1, <3>2
    <3>3. CASE i # Len(bs) + 1
      <4>1. i \in 1 .. Len(bs)
        BY <1>1, <3>3
      <4> QED
        BY <1>2, <2>1, <2>4, <3>1, <4>1
    <3> QED
      BY <3>2, <3>3
  <2>6. ms \in Seq(Seq(Nat)) /\ Len(ms) = Len(bs) + 1
    <3>1. \A i \in 1 .. Len(bs) + 1 : ms[i] \in Seq(Nat)
      BY <2>4, <2>5, ElementOfSeq
    <3>2. ms = [i \in 1 .. Len(bs) + 1 |-> ms[i]] 
      BY <2>1
    <3> HIDE DEF ms
    <3>3. ms \in Seq(Seq(Nat))
      BY <1>1, <3>1, <3>2, IsASeq
    <3> QED
      BY <1>1, <3>2, <3>3, LenProperties
  <2> HIDE DEF ms
  <2>7. ms = Append(ls, Live(b))
    BY <2>4, <2>5, <2>6, SeqEqual
  <2> QED
    BY <1>2, <1>3, <2>2, <2>3, <2>7, FlattenAppend DEF cs
<1> QED
  BY <1>4, <1>5

\* No buffers have no lines.
LEMMA NoLiveLines == LiveLines(<<>>) = <<>>
<1>1. [i \in DOMAIN <<>> |-> Live(<<>>[i])] = <<>>
  OBVIOUS
<1> QED
  BY <1>1, FlattenEmpty DEF LiveLines

(***************************************************************************)
(* Every line is in one place.                                             *)
(***************************************************************************)

\* A buffer that may be handed over: what it holds behind cur_ is in the file f.
Clean(b, f) == Filled(b) /\ Range(Stale(b)) \subseteq Range(f)

\* All buffers are, and the lines they hold are sequences of numbers.
LEMMA AllClean ==
  ASSUME Inv, LinesInv
  PROVE  /\ \A b \in AllBuffers : Clean(b, file)
         /\ Clean(current, file)
         /\ \A b \in {next, new1, new2} : b # Null => Clean(b, file) /\ b.cur = 0
         /\ \A i \in 1 .. Len(buffers) : Clean(buffers[i], file)
         /\ \A i \in 1 .. Len(toWrite) : Clean(toWrite[i], file)
<1>1. TypeOK
  BY DEF Inv
<1>2. /\ \A i \in 1 .. Len(buffers) : buffers[i] \in BufferType /\ buffers[i] \in Range(buffers)
      /\ \A b \in Range(buffers) : b \in BufferType
  BY <1>1, ElementOfSeq, RangeEquality, RangeOfSeq DEF TypeOK
<1>3. /\ \A i \in 1 .. Len(toWrite) : toWrite[i] \in BufferType /\ toWrite[i] \in Range(toWrite)
      /\ \A b \in Range(toWrite) : b \in BufferType
  BY <1>1, ElementOfSeq, RangeEquality, RangeOfSeq DEF TypeOK
<1>4. \A b \in AllBuffers : Clean(b, file)
  <2>1. \A b \in AllBuffers : b \in BufferType
    BY <1>1, <1>2, <1>3 DEF TypeOK, AllBuffers
  <2> QED
    BY <2>1 DEF LinesInv, NoLineLost, Clean, Filled
<1>5. current \in AllBuffers
  BY <1>1, NullIsNoBuffer DEF TypeOK, AllBuffers
<1>6. \A b \in {next, new1, new2} : b # Null => b \in AllBuffers
  BY DEF AllBuffers
<1>7. \A b \in {next, new1, new2} : b # Null => b.cur = 0
  BY DEF LinesInv
<1>8. /\ \A i \in 1 .. Len(buffers) : buffers[i] \in AllBuffers
      /\ \A i \in 1 .. Len(toWrite) : toWrite[i] \in AllBuffers
  BY <1>2, <1>3, NullIsNoBuffer DEF AllBuffers
<1> QED
  BY <1>4, <1>5, <1>6, <1>7, <1>8

\* The lines in their places.
LEMMA LinesTyped ==
  ASSUME Inv, LinesInv
  PROVE  /\ file \in Seq(Nat) /\ Live(current) \in Seq(Nat)
         /\ LiveLines(buffers) \in Seq(Nat) /\ LiveLines(toWrite) \in Seq(Nat)
         /\ Unwritten \in Seq(Nat)
         /\ \A b : Filled(b) =>
              LiveLines(Append(buffers, b)) = LiveLines(buffers) \o Live(b)
<1>1. file \in Seq(Nat)
  BY DEF LinesInv
<1>2. /\ \A i \in 1 .. Len(buffers) : Filled(buffers[i])
      /\ \A i \in 1 .. Len(toWrite) : Filled(toWrite[i])
      /\ Filled(current)
  BY AllClean DEF Clean
<1>3. buffers \in Seq(BufferType) /\ toWrite \in Seq(BufferType)
  BY DEF Inv, TypeOK
<1>4. /\ LiveLines(buffers) \in Seq(Nat)
      /\ \A b : Filled(b) => LiveLines(Append(buffers, b)) = LiveLines(buffers) \o Live(b)
  BY <1>2, <1>3, LiveLinesOf
<1>5. LiveLines(toWrite) \in Seq(Nat)
  BY <1>2, <1>3, LiveLinesOf
<1>6. Live(current) \in Seq(Nat)
  BY <1>2, CellsOf
<1>7. <<>> \in Seq(Nat)
  OBVIOUS
<1> QED
  BY <1>1, <1>4, <1>5, <1>6, <1>7 DEF Unwritten

\* The numbers up to n + 1 are those up to n and n + 1.
LEMMA UpToNext ==
  ASSUME NEW n \in Nat
  PROVE  /\ UpTo(n) \in Seq(Nat) /\ Len(UpTo(n)) = n
         /\ UpTo(n + 1) = UpTo(n) \o <<n + 1>>
<1>1. \A k \in Nat : UpTo(k) \in Seq(Nat) /\ Len(UpTo(k)) = k
  <2> SUFFICES ASSUME NEW k \in Nat PROVE UpTo(k) \in Seq(Nat) /\ Len(UpTo(k)) = k
    OBVIOUS
  <2>1. \A i \in 1 .. k : i \in Nat
    OBVIOUS
  <2>2. UpTo(k) \in Seq(Nat)
    BY <2>1, IsASeq DEF UpTo
  <2> QED
    BY <2>2, LenProperties DEF UpTo
<1>2. \A i \in 1 .. n : UpTo(n)[i] = i
  BY DEF UpTo
<1>3. \A i \in 1 .. n + 1 : UpTo(n + 1)[i] = i
  BY DEF UpTo
<1>4. /\ Append(UpTo(n), n + 1) \in Seq(Nat) /\ Len(Append(UpTo(n), n + 1)) = n + 1
      /\ \A i \in 1 .. n : Append(UpTo(n), n + 1)[i] = UpTo(n)[i]
      /\ Append(UpTo(n), n + 1)[n + 1] = n + 1
  <2>1. n + 1 \in Nat
    OBVIOUS
  <2> DEFINE u == UpTo(n)
             m == n + 1
  <2> HIDE DEF u, m
  <2>2. u \in Seq(Nat) /\ m \in Nat /\ Len(u) = n
    BY <1>1, <2>1 DEF u, m
  <2>3. /\ Append(u, m) \in Seq(Nat) /\ Len(Append(u, m)) = n + 1
        /\ \A i \in 1 .. n : Append(u, m)[i] = u[i]
        /\ Append(u, m)[n + 1] = m
    BY <2>2, AppendProperties
  <2> QED
    BY <2>3 DEF u, m
<1>5. UpTo(n + 1) = Append(UpTo(n), n + 1)
  <2>1. \A i \in 1 .. n + 1 : UpTo(n + 1)[i] = Append(UpTo(n), n + 1)[i]
    BY <1>2, <1>3, <1>4
  <2>2. Len(UpTo(n + 1)) = n + 1 /\ UpTo(n + 1) \in Seq(Nat)
    BY <1>1
  <2> QED
    BY <1>4, <2>1, <2>2, SeqEqual
<1>6. Append(UpTo(n), n + 1) = UpTo(n) \o <<n + 1>>
  <2>1. n + 1 \in Nat /\ UpTo(n) \in Seq(Nat)
    BY <1>1
  <2> QED
    BY <2>1, AppendIsConcat, Zenon
<1>7. UpTo(n) \in Seq(Nat) /\ Len(UpTo(n)) = n
  BY <1>1
<1> QED
  BY <1>5, <1>6, <1>7, Zenon

\* Concatenation, as a name that the provers do not look into.
Cat(s, t) == s \o t

\* What it is at each position.
LEMMA CatAt ==
  ASSUME NEW q \in Seq(Nat), NEW r \in Seq(Nat)
  PROVE  /\ Cat(q, r) \in Seq(Nat) /\ Len(Cat(q, r)) = Len(q) + Len(r)
         /\ \A i \in 1 .. Len(q) + Len(r) :
              Cat(q, r)[i] = IF i <= Len(q) THEN q[i] ELSE r[i - Len(q)]
BY ConcatProperties DEF Cat

\* It is associative.
LEMMA CatAssoc ==
  ASSUME NEW q \in Seq(Nat), NEW r \in Seq(Nat), NEW t \in Seq(Nat)
  PROVE  Cat(Cat(q, r), t) = Cat(q, Cat(r, t))
<1>1. PICK a : a = Cat(q, r)
  OBVIOUS
<1>2. PICK b : b = Cat(r, t)
  OBVIOUS
<1>3. /\ a \in Seq(Nat) /\ Len(a) = Len(q) + Len(r)
      /\ \A i \in 1 .. Len(q) + Len(r) : a[i] = IF i <= Len(q) THEN q[i] ELSE r[i - Len(q)]
  BY <1>1, CatAt
<1>4. /\ b \in Seq(Nat) /\ Len(b) = Len(r) + Len(t)
      /\ \A i \in 1 .. Len(r) + Len(t) : b[i] = IF i <= Len(r) THEN r[i] ELSE t[i - Len(r)]
  BY <1>2, CatAt
<1>5. PICK v : v = Cat(a, t)
  OBVIOUS
<1>6. PICK w : w = Cat(q, b)
  OBVIOUS
<1>7. /\ v \in Seq(Nat) /\ Len(v) = Len(a) + Len(t)
      /\ \A i \in 1 .. Len(a) + Len(t) : v[i] = IF i <= Len(a) THEN a[i] ELSE t[i - Len(a)]
  BY <1>3, <1>5, CatAt
<1>8. /\ w \in Seq(Nat) /\ Len(w) = Len(q) + Len(b)
      /\ \A i \in 1 .. Len(q) + Len(b) : w[i] = IF i <= Len(q) THEN q[i] ELSE b[i - Len(q)]
  BY <1>4, <1>6, CatAt
<1>9. Len(q) \in Nat /\ Len(r) \in Nat /\ Len(t) \in Nat
  OBVIOUS
<1>10. ASSUME NEW i \in 1 .. Len(v) PROVE v[i] = w[i]
  <2>1. PICK x : x = Len(q)
    OBVIOUS
  <2>2. PICK y : y = Len(r)
    OBVIOUS
  <2>3. PICK z : z = Len(t)
    OBVIOUS
  <2>4. x \in Nat /\ y \in Nat /\ z \in Nat /\ i \in 1 .. x + y + z
    BY <1>3, <1>7, <1>9, <2>1, <2>2, <2>3
  <2>5. \A k \in 1 .. x + y : a[k] = IF k <= x THEN q[k] ELSE r[k - x]
    BY <1>3, <2>1, <2>2
  <2>6. \A k \in 1 .. y + z : b[k] = IF k <= y THEN r[k] ELSE t[k - y]
    BY <1>4, <2>2, <2>3
  <2>7. v[i] = IF i <= x + y THEN a[i] ELSE t[i - (x + y)]
    BY <1>3, <1>7, <2>1, <2>2
  <2>8. w[i] = IF i <= x THEN q[i] ELSE b[i - x]
    <3>1. i \in 1 .. Len(q) + Len(b)
      BY <1>3, <1>4, <1>7, <1>9
    <3> QED
      BY <1>8, <2>1, <3>1
  <2>9. CASE i <= x
    <3>1. i \in 1 .. x + y /\ i <= x + y
      BY <2>4, <2>9
    <3>2. a[i] = q[i]
      BY <2>5, <2>9, <3>1
    <3> QED
      BY <2>7, <2>8, <2>9, <3>1, <3>2
  <2>10. CASE ~(i <= x) /\ i <= x + y
    <3>1. i \in 1 .. x + y /\ i - x \in 1 .. y + z /\ i - x <= y
      BY <2>4, <2>10
    <3>2. a[i] = r[i - x]
      BY <2>5, <2>10, <3>1
    <3>3. b[i - x] = r[i - x]
      BY <2>6, <3>1
    <3> QED
      BY <2>7, <2>8, <2>10, <3>2, <3>3
  <2>11. CASE ~(i <= x + y)
    <3>1. /\ ~(i <= x) /\ i - x \in 1 .. y + z /\ ~(i - x <= y)
          /\ i - x - y = i - (x + y)
      BY <2>4, <2>11
    <3>2. b[i - x] = t[i - x - y]
      BY <2>6, <3>1
    <3> QED
      BY <2>7, <2>8, <2>11, <3>1, <3>2
  <2> QED
    BY <2>9, <2>10, <2>11
<1>11. v = w
  <2>1. Len(v) = Len(w)
    BY <1>3, <1>4, <1>7, <1>8, <1>9
  <2> QED
    BY <1>7, <1>8, <1>10, <2>1, SeqEqual
<1> QED
  BY <1>1, <1>2, <1>5, <1>6, <1>11

\* Sequences of lines.
LEMMA CatType ==
  ASSUME NEW q \in Seq(Nat), NEW r \in Seq(Nat)
  PROVE  Cat(q, r) \in Seq(Nat) /\ Cat(q, <<>>) = q /\ Cat(<<>>, q) = q
BY ConcatProperties, ConcatEmptySeq DEF Cat

\* The line appended to currentBuffer_ is behind all others.
LEMMA GroupWithLast ==
  ASSUME NEW f \in Seq(Nat), NEW u \in Seq(Nat), NEW p \in Seq(Nat), NEW c \in Seq(Nat),
         NEW x \in Seq(Nat)
  PROVE  Cat(Cat(Cat(Cat(f, u), p), c), x) = Cat(Cat(Cat(f, u), p), Cat(c, x))
<1>1. Cat(f, u) \in Seq(Nat)
  BY CatType
<1>2. Cat(Cat(f, u), p) \in Seq(Nat)
  BY <1>1, CatType
<1> QED
  BY <1>2, CatAssoc

\* The full buffer joins buffers_.
LEMMA GroupWithFull ==
  ASSUME NEW f \in Seq(Nat), NEW u \in Seq(Nat), NEW p \in Seq(Nat), NEW c \in Seq(Nat)
  PROVE  Cat(Cat(Cat(f, u), p), c) = Cat(Cat(f, u), Cat(p, c))
<1>1. Cat(f, u) \in Seq(Nat)
  BY CatType
<1> QED
  BY <1>1, CatAssoc

\* The filled buffers and currentBuffer_ become buffersToWrite.
LEMMA GroupSwapped ==
  ASSUME NEW f \in Seq(Nat), NEW p \in Seq(Nat), NEW c \in Seq(Nat)
  PROVE  Cat(Cat(Cat(f, <<>>), p), c) = Cat(Cat(Cat(f, Cat(p, c)), <<>>), <<>>)
<1>1. Cat(p, c) \in Seq(Nat)
  BY CatType
<1>2. Cat(f, Cat(p, c)) \in Seq(Nat)
  BY <1>1, CatType
<1> QED
  BY <1>2, CatAssoc, CatType

\* The constructor: no line, and no cell written.
LEMMA InitLines == Init => LinesInv
<1> SUFFICES ASSUME Init PROVE LinesInv
  OBVIOUS
<1>1. AllBuffers \subseteq {FreshBuffer}
  <2>1. Range(buffers) = {} /\ Range(toWrite) = {}
    BY DEF Init, Range
  <2> QED
    BY <2>1 DEF Init, AllBuffers
<1>2. FreshBuffer.cur <= Len(FreshBuffer.data)
  BY FreshCells DEF Filled
<1>3. Live(current) = <<>>
  BY FreshCells, EmptyCells DEF Init
<1>4. Unwritten = <<>> /\ LiveLines(buffers) = <<>>
  BY NoLiveLines DEF Init, Unwritten
<1>5. [i \in 1 .. lines |-> i] = <<>>
  BY DEF Init
<1>6. ((<<>> \o <<>>) \o <<>>) \o <<>> = <<>>
  OBVIOUS
<1>7. NoLineLost
  BY <1>1, <1>3, <1>4, <1>5, <1>6, FreshCells DEF Init, NoLineLost
<1>8. \A b \in {next, new1, new2} \ {Null} : b.cur = 0
  BY FreshCells DEF Init
<1>9. file \in Seq(Nat) /\ toWrite = <<>> /\ pc = "created"
  BY DEF Init
<1> QED
  BY <1>1, <1>2, <1>7, <1>8, <1>9 DEF LinesInv

\* A step that leaves the lines in their places and adds no buffer to a place but
\* clean ones.
LEMMA LinesKept ==
  ASSUME Inv, LinesInv,
         Unwritten' = Unwritten, UNCHANGED <<current, buffers, lines, file>>,
         \A b \in {next', new1', new2'} : b # Null => Clean(b, file) /\ b.cur = 0,
         toWrite' = toWrite \/ toWrite' = <<>>,
         pc' \notin {"write", "refill"} => toWrite' = <<>>,
         pc' # "refill"
  PROVE  LinesInv'
<1>1. \A b \in AllBuffers' : Clean(b, file)
  <2>1. AllBuffers' \subseteq AllBuffers \union ({next', new1', new2'} \ {Null})
    <3>1. Range(toWrite') \subseteq Range(toWrite)
      BY DEF Range
    <3>2. Range(buffers') = Range(buffers) /\ current' = current
      BY DEF Range
    <3> QED
      BY <3>1, <3>2 DEF AllBuffers
  <2> QED
    BY <2>1, AllClean
<1>2. NoLineLost'
  <2>1. \A b \in AllBuffers' : Range(Stale(b)) \subseteq Range(file')
    BY <1>1 DEF Clean
  <2> QED
    BY <2>1 DEF LinesInv, NoLineLost
<1>3. \A b \in AllBuffers' : b.cur <= Len(b.data)
  BY <1>1 DEF Clean, Filled
<1>4. \A b \in {next', new1', new2'} \ {Null} : b.cur = 0
  OBVIOUS
<1>5. file' \in Seq(Nat)
  BY DEF LinesInv
<1> QED
  BY <1>2, <1>3, <1>4, <1>5 DEF LinesInv

\* append() puts its line behind all others, in currentBuffer_.
LEMMA AppendLines == ASSUME Inv, LinesInv, AppendLine PROVE LinesInv'
<1> DEFINE n == lines
           c == current
           p == LiveLines(buffers)
           x == n + 1
<1>1. n \in Nat /\ x \in Nat /\ lines' = x /\ <<x>> \in Seq(Nat)
  BY DEF AppendLine, Inv, TypeOK
<1>2. UNCHANGED <<new1, new2, toWrite, pc, running, file>> /\ Unwritten' = Unwritten
  BY DEF AppendLine, back, Unwritten
<1>3. /\ UpTo(n) = ((file \o Unwritten) \o p) \o Live(c)
      /\ UpTo(x) = UpTo(n) \o <<x>>
  BY <1>1, UpToNext DEF LinesInv, NoLineLost, UpTo
<1>4. /\ file \in Seq(Nat) /\ Unwritten \in Seq(Nat) /\ p \in Seq(Nat)
      /\ Live(c) \in Seq(Nat)
  BY LinesTyped
<1>5. Clean(c, file) /\ Filled(c)
  BY AllClean DEF Clean
<1>6. CASE AppendFits(x)
  <2>1. current' = AppendTo(c, x) /\ UNCHANGED <<next, buffers>>
    BY <1>6 DEF AppendFits
  <2>2. /\ Filled(AppendTo(c, x)) /\ Live(AppendTo(c, x)) = Append(Live(c), x)
        /\ Range(Stale(AppendTo(c, x))) \subseteq Range(Stale(c))
    BY <1>1, <1>5, AppendToCells
  <2>3. Clean(current', file)
    BY <1>5, <2>1, <2>2 DEF Clean
  <2>4. \A b \in AllBuffers' : Clean(b, file)
    <3>1. AllBuffers' \subseteq AllBuffers \union {current'}
      BY <1>2, <2>1 DEF AllBuffers
    <3> QED
      BY <2>3, <3>1, AllClean
  <2>5. Append(Live(c), x) = Live(c) \o <<x>>
    BY <1>1, <1>4, AppendIsConcat
  <2>6. UpTo(lines') = ((file \o Unwritten) \o p) \o Live(current')
    <3>1. Cat(Cat(Cat(Cat(file, Unwritten), p), Live(c)), <<x>>) =
          Cat(Cat(Cat(file, Unwritten), p), Cat(Live(c), <<x>>))
      <4> DEFINE y == <<x>>
      <4>1. y \in Seq(Nat)
        BY <1>1
      <4> HIDE DEF y, x, p, c
      <4>2. Cat(Cat(Cat(Cat(file, Unwritten), p), Live(c)), y) =
            Cat(Cat(Cat(file, Unwritten), p), Cat(Live(c), y))
        BY <1>4, <4>1, GroupWithLast
      <4> QED
        BY <4>2 DEF y
    <3>2. UpTo(x) = Cat(Cat(Cat(Cat(file, Unwritten), p), Live(c)), <<x>>)
      BY <1>3 DEF Cat
    <3>3. Live(current') = Cat(Live(c), <<x>>)
      BY <2>1, <2>2, <2>5 DEF Cat
    <3>4. UpTo(x) = Cat(Cat(Cat(file, Unwritten), p), Live(current'))
      BY <3>1, <3>2, <3>3
    <3> QED
      BY <1>1, <3>4 DEF Cat
  <2> QED
    BY <1>2, <2>1, <2>4, <2>6 DEF LinesInv, NoLineLost, Clean, Filled, UpTo
<1>7. CASE AppendRotates(x)
  <2> DEFINE e == IF next # Null THEN next ELSE FreshBuffer
  <2>1. current' = AppendTo(e, x) /\ next' = Null /\ buffers' = Append(buffers, c)
    BY <1>7 DEF AppendRotates
  <2>2. Clean(e, file) /\ e.cur = 0 /\ Filled(e)
    <3>1. CASE next # Null
      BY <3>1, AllClean DEF Clean
    <3>2. CASE next = Null
      BY <3>2, FreshCells DEF Clean
    <3> QED
      BY <3>1, <3>2
  <2> HIDE DEF e
  <2>3. /\ Filled(AppendTo(e, x)) /\ Live(AppendTo(e, x)) = Append(Live(e), x)
        /\ Range(Stale(AppendTo(e, x))) \subseteq Range(Stale(e))
    BY <1>1, <2>2, AppendToCells
  <2>4. Clean(current', file)
    BY <2>1, <2>2, <2>3 DEF Clean
  <2>5. \A b \in AllBuffers' : Clean(b, file)
    <3>1. Range(buffers') \subseteq Range(buffers) \union {c}
      <4>1. buffers \in Seq(BufferType) /\ c \in BufferType
        BY DEF Inv, TypeOK
      <4> HIDE DEF c
      <4>2. /\ Append(buffers, c) \in Seq(BufferType)
            /\ Len(Append(buffers, c)) = Len(buffers) + 1
            /\ \A i \in 1 .. Len(buffers) : Append(buffers, c)[i] = buffers[i]
            /\ Append(buffers, c)[Len(buffers) + 1] = c
            /\ Len(buffers) \in Nat
        BY <4>1, AppendProperties, LenProperties
      <4>3. /\ Range(buffers) = {buffers[i] : i \in 1 .. Len(buffers)}
            /\ Range(Append(buffers, c)) =
                 {Append(buffers, c)[i] : i \in 1 .. Len(buffers) + 1}
        BY <4>1, <4>2, RangeEquality
      <4>4. \A i \in 1 .. Len(buffers) + 1 : i \in 1 .. Len(buffers) \/ i = Len(buffers) + 1
        BY <4>2
      <4> QED
        BY <2>1, <4>2, <4>3, <4>4
    <3>2. c \in AllBuffers
      BY NullIsNoBuffer DEF Inv, TypeOK, AllBuffers
    <3>3. AllBuffers' \subseteq AllBuffers \union {current'}
      BY <1>2, <2>1, <3>1, <3>2 DEF AllBuffers
    <3> QED
      BY <2>4, <3>3, AllClean
  <2>6. Live(current') = <<x>>
    <3>1. Live(e) = <<>>
      BY <2>2, EmptyCells
    <3>2. Append(<<>>, x) = <<x>>
      OBVIOUS
    <3> QED
      BY <2>1, <2>3, <3>1, <3>2
  <2>7. LiveLines(buffers') = p \o Live(c)
    BY <1>5, <2>1, LinesTyped
  <2>8. UpTo(lines') = ((file \o Unwritten) \o LiveLines(buffers')) \o Live(current')
    <3>1. Cat(Cat(Cat(file, Unwritten), p), Live(c)) =
          Cat(Cat(file, Unwritten), Cat(p, Live(c)))
      BY <1>4, GroupWithFull
    <3>2. UpTo(x) = Cat(Cat(Cat(Cat(file, Unwritten), p), Live(c)), <<x>>)
      BY <1>3 DEF Cat
    <3>3. LiveLines(buffers') = Cat(p, Live(c))
      BY <2>7 DEF Cat
    <3>4. UpTo(x) = Cat(Cat(Cat(file, Unwritten), LiveLines(buffers')), Live(current'))
      BY <2>6, <3>1, <3>2, <3>3
    <3> QED
      BY <1>1, <3>4 DEF Cat
  <2>9. \A b \in {next', new1', new2'} \ {Null} : b.cur = 0
    BY <1>2, <2>1, AllClean
  <2> QED
    BY <1>2, <2>5, <2>8, <2>9 DEF LinesInv, NoLineLost, Clean, Filled, UpTo
<1> QED
  BY <1>1, <1>6, <1>7 DEF AppendLine

\* The swap moves the lines from the front end to buffersToWrite, and gives the
\* front end empty buffers.
LEMMA SwapLines == ASSUME Inv, LinesInv, BackendSwap PROVE LinesInv'
<1> DEFINE c == current
           p == LiveLines(buffers)
<1>1. pc \in {"lock", "waiting"} /\ toWrite = <<>>
  BY DEF BackendSwap, MaySwap, LinesInv
<1>2. Unwritten = <<>>
  BY <1>1, NoLiveLines DEF Unwritten
<1>3. /\ toWrite' = Append(buffers, c) /\ buffers' = <<>>
      /\ current' = new1 /\ new1' = Null /\ pc' = "write"
      /\ UNCHANGED <<lines, running, file>>
  BY DEF BackendSwap
<1>4. \/ next = Null /\ next' = new2 /\ new2' = Null
      \/ next' = next /\ new2' = new2
  BY DEF BackendSwap, SwapGivesSecond
<1>5. new1 # Null
  BY <1>1 DEF Inv, SparesReady
<1>6. Clean(new1, file) /\ Filled(new1) /\ new1.cur = 0 /\ Clean(c, file) /\ Filled(c)
  BY <1>5, AllClean DEF Clean
<1>7. /\ file \in Seq(Nat) /\ Unwritten \in Seq(Nat) /\ p \in Seq(Nat)
      /\ Live(c) \in Seq(Nat)
  BY LinesTyped
<1>8. \A b \in AllBuffers' : Clean(b, file)
  <2>1. toWrite' \in Seq(BufferType)
    BY SwapKeeps DEF Inv, TypeOK
  <2>2. Range(toWrite') \subseteq Range(buffers) \union {c}
    <3>1. buffers \in Seq(BufferType) /\ c \in BufferType
      BY DEF Inv, TypeOK
    <3> HIDE DEF c
    <3>2. /\ Append(buffers, c) \in Seq(BufferType)
          /\ Len(Append(buffers, c)) = Len(buffers) + 1
          /\ \A i \in 1 .. Len(buffers) : Append(buffers, c)[i] = buffers[i]
          /\ Append(buffers, c)[Len(buffers) + 1] = c
          /\ Len(buffers) \in Nat
      BY <3>1, AppendProperties, LenProperties
    <3>3. /\ Range(buffers) = {buffers[i] : i \in 1 .. Len(buffers)}
          /\ Range(Append(buffers, c)) =
               {Append(buffers, c)[i] : i \in 1 .. Len(buffers) + 1}
      BY <3>1, <3>2, RangeEquality
    <3>4. \A i \in 1 .. Len(buffers) + 1 : i \in 1 .. Len(buffers) \/ i = Len(buffers) + 1
      BY <3>2
    <3> QED
      BY <1>3, <3>2, <3>3, <3>4
  <2>3. Range(buffers') = {}
    BY <1>3 DEF Range
  <2>4. c \in AllBuffers
    BY NullIsNoBuffer DEF Inv, TypeOK, AllBuffers
  <2>5. AllBuffers' \subseteq AllBuffers
    BY <1>3, <1>4, <2>2, <2>3, <2>4 DEF AllBuffers
  <2> QED
    BY <2>5, AllClean
<1>9. LiveLines(toWrite') = p \o Live(c)
  BY <1>3, <1>6, LinesTyped
<1>10. Unwritten' = p \o Live(c)
  BY <1>3, <1>9 DEF Unwritten
<1>11. Live(current') = <<>> /\ LiveLines(buffers') = <<>>
  BY <1>3, <1>6, EmptyCells, NoLiveLines
<1>12. UpTo(lines') = ((file' \o Unwritten') \o LiveLines(buffers')) \o Live(current')
  <2>1. UpTo(lines) = ((file \o <<>>) \o p) \o Live(c)
    BY <1>2 DEF LinesInv, NoLineLost, UpTo
  <2>2. Cat(Cat(Cat(file, <<>>), p), Live(c)) = Cat(Cat(Cat(file, Cat(p, Live(c))), <<>>), <<>>)
    BY <1>7, GroupSwapped
  <2>3. ((file \o <<>>) \o p) \o Live(c) = ((file \o (p \o Live(c))) \o <<>>) \o <<>>
    BY <2>2 DEF Cat
  <2> QED
    BY <1>3, <1>10, <1>11, <2>1, <2>3
<1>13. \A b \in {next', new1', new2'} \ {Null} : b.cur = 0
  BY <1>3, <1>4, AllClean
<1> QED
  BY <1>3, <1>7, <1>8, <1>12, <1>13 DEF LinesInv, NoLineLost, Clean, Filled, UpTo

\* The write moves the lines from buffersToWrite to the file.
LEMMA WriteLines == ASSUME Inv, LinesInv, BackendWrite PROVE LinesInv'
<1> DEFINE c == Live(current)
           p == LiveLines(buffers)
           w == LiveLines(toWrite)
<1>1. /\ pc = "write" /\ pc' = "refill" /\ file' = file \o w
      /\ UNCHANGED <<current, next, buffers, lines, new1, new2, toWrite, running>>
  BY DEF BackendWrite, front
<1>2. Unwritten = w /\ Unwritten' = <<>>
  BY <1>1 DEF Unwritten
<1>3. file \in Seq(Nat) /\ w \in Seq(Nat) /\ p \in Seq(Nat) /\ c \in Seq(Nat)
  BY LinesTyped
<1>4. UpTo(lines') = ((file' \o Unwritten') \o LiveLines(buffers')) \o Live(current')
  <2>1. UpTo(lines) = ((file \o w) \o p) \o c
    BY <1>2 DEF LinesInv, NoLineLost, UpTo
  <2>2. (file \o w) \o <<>> = file \o w
    <3>1. file \o w \in Seq(Nat)
      BY <1>3, ConcatProperties
    <3> QED
      BY <3>1, ConcatEmptySeq
  <2> QED
    BY <1>1, <1>2, <2>1, <2>2
<1>5. Range(file') = Range(file) \union Range(w) /\ file' \in Seq(Nat)
  BY <1>1, <1>3, RangeConcatenation, ConcatProperties
<1>6. \A b \in AllBuffers' : Clean(b, file')
  <2>1. AllBuffers' = AllBuffers
    BY <1>1 DEF AllBuffers
  <2> QED
    BY <1>5, <2>1, AllClean DEF Clean
<1>7. \A b \in Range(toWrite') : Range(Live(b)) \subseteq Range(file')
  <2>1. toWrite \in Seq(BufferType) /\ \A i \in 1 .. Len(toWrite) : Filled(toWrite[i])
    BY AllClean DEF Inv, TypeOK, Clean
  <2>2. \A i \in 1 .. Len(toWrite) : Range(Live(toWrite[i])) \subseteq Range(w)
    BY <2>1, LiveLinesOf
  <2>3. Range(toWrite) = {toWrite[i] : i \in 1 .. Len(toWrite)}
    BY <2>1, RangeEquality
  <2> QED
    BY <1>1, <1>5, <2>2, <2>3
<1>8. \A b \in {next', new1', new2'} \ {Null} : b.cur = 0
  BY <1>1, AllClean
<1> QED
  BY <1>1, <1>4, <1>5, <1>6, <1>7, <1>8 DEF LinesInv, NoLineLost, Clean, Filled, UpTo

\* The refill takes back buffers of which all lines are in the file.
LEMMA RefillLines == ASSUME Inv, LinesInv, BackendRefill PROVE LinesInv'
<1>1. /\ pc = "refill" /\ pc' = "test" /\ toWrite' = <<>>
      /\ UNCHANGED <<current, next, buffers, lines, running, file>>
      /\ new1' = Reset(Last(Kept))
      /\ new2' = new2 \/ (new2 = Null /\ new2' = Reset(Last(Front(Kept))))
  BY DEF BackendRefill, front
<1>2. Unwritten' = Unwritten
  BY <1>1, NoLiveLines DEF Unwritten
<1>3. toWrite \in Seq(BufferType) /\ Len(toWrite) \in Nat /\ Len(toWrite) >= 1
  BY <1>1, LenProperties DEF Inv, TypeOK, RefillHasBuffers
<1>4. new2 = Null => Len(toWrite) >= 2
  BY <1>1 DEF Inv, RefillHasBuffers
<1>5. \A i \in 1 .. Len(toWrite) : Clean(Reset(toWrite[i]), file) /\ Reset(toWrite[i]).cur = 0
  <2> SUFFICES ASSUME NEW i \in 1 .. Len(toWrite)
               PROVE  Clean(Reset(toWrite[i]), file) /\ Reset(toWrite[i]).cur = 0
    OBVIOUS
  <2>1. Clean(toWrite[i], file) /\ Filled(toWrite[i])
    BY AllClean DEF Clean
  <2>2. Range(Live(toWrite[i])) \subseteq Range(file)
    <3>1. toWrite[i] \in Range(toWrite)
      BY <1>3, RangeEquality
    <3> QED
      BY <1>1, <3>1 DEF LinesInv
  <2> QED
    BY <2>1, <2>2, ResetCells DEF Clean
<1>6. \E i \in 1 .. Len(toWrite) : Last(Kept) = toWrite[i]
  <2>1. CASE Len(toWrite) > 2
    <3>1. /\ Len(SubSeq(toWrite, 1, 2)) = 2 /\ SubSeq(toWrite, 1, 2)[2] = toWrite[2]
      BY <1>3, <2>1, SubSeqProperties
    <3>2. Last(Kept) = toWrite[2]
      BY <2>1, <3>1 DEF Kept, Last
    <3>3. 2 \in 1 .. Len(toWrite)
      BY <1>3, <2>1
    <3> QED
      BY <3>2, <3>3
  <2>2. CASE ~(Len(toWrite) > 2)
    <3>1. Last(Kept) = toWrite[Len(toWrite)]
      BY <2>2 DEF Kept, Last
    <3>2. Len(toWrite) \in 1 .. Len(toWrite)
      BY <1>3
    <3> QED
      BY <3>1, <3>2
  <2> QED
    BY <2>1, <2>2
<1>7. new2 = Null => \E i \in 1 .. Len(toWrite) : Last(Front(Kept)) = toWrite[i]
  <2> SUFFICES ASSUME new2 = Null PROVE Last(Front(Kept)) = toWrite[1]
    BY <1>3
  <2>1. Len(toWrite) >= 2
    BY <1>4
  <2>2. Kept \in Seq(BufferType) /\ Len(Kept) = 2 /\ Kept[1] = toWrite[1]
    <3>1. CASE Len(toWrite) > 2
      <4>1. /\ SubSeq(toWrite, 1, 2) \in Seq(BufferType)
            /\ Len(SubSeq(toWrite, 1, 2)) = 2
            /\ SubSeq(toWrite, 1, 2)[1] = toWrite[1]
        BY <1>3, <3>1, SubSeqProperties
      <4>2. Kept = SubSeq(toWrite, 1, 2)
        BY <3>1 DEF Kept
      <4> QED
        BY <4>1, <4>2, Zenon
    <3>2. CASE ~(Len(toWrite) > 2)
      <4>1. Kept = toWrite
        BY <3>2 DEF Kept
      <4>2. Len(toWrite) = 2
        <5>1. \A k \in Nat : k >= 2 /\ ~(k > 2) => k = 2
          OBVIOUS
        <5> QED
          BY <1>3, <2>1, <3>2, <5>1, Zenon
      <4> QED
        BY <1>3, <4>1, <4>2, Zenon
    <3> QED
      BY <3>1, <3>2
  <2>3. Len(SubSeq(Kept, 1, 1)) = 1 /\ SubSeq(Kept, 1, 1)[1] = Kept[1]
    BY <2>2, SubSeqProperties
  <2> QED
    BY <2>2, <2>3 DEF Last, Front
<1>8. Clean(new1', file) /\ new1'.cur = 0
  BY <1>1, <1>5, <1>6
<1>9. new2' # Null => Clean(new2', file) /\ new2'.cur = 0
  BY <1>1, <1>5, <1>7, AllClean
<1>10. \A b \in {next', new1', new2'} : b # Null => Clean(b, file) /\ b.cur = 0
  BY <1>1, <1>8, <1>9, AllClean
<1>11. UNCHANGED <<current, buffers, lines, file>>
  BY <1>1
<1> QED
  BY <1>1, <1>2, <1>10, <1>11, LinesKept

\* Every step keeps every line in one place.
LEMMA NextLines == Inv /\ LinesInv /\ [Next]_vars => LinesInv'
<1> SUFFICES ASSUME Inv, LinesInv, [Next]_vars PROVE LinesInv'
  OBVIOUS
<1>1. CASE Start
  <2>1. /\ pc = "created" /\ pc' = "test" /\ toWrite' = toWrite /\ next' = next
        /\ new1' = FreshBuffer /\ new2' = FreshBuffer
        /\ UNCHANGED <<current, buffers, lines, file>>
    BY <1>1 DEF Start, front
  <2>2. toWrite = <<>> /\ Unwritten' = Unwritten
    BY <2>1 DEF LinesInv, Unwritten
  <2>3. \A b \in {next', new1', new2'} : b # Null => Clean(b, file) /\ b.cur = 0
    BY <2>1, AllClean, FreshCells DEF Clean
  <2> QED
    BY <2>1, <2>2, <2>3, LinesKept
<1>2. CASE Stop \/ BackendTest \/ BackendWait \/ UNCHANGED vars
  <2>1. UNCHANGED <<current, next, buffers, lines, new1, new2, toWrite, file>>
    BY <1>2 DEF Stop, BackendTest, BackendWait, vars, front, back
  <2>2. CASE pc' = pc
    <3>1. Unwritten' = Unwritten /\ AllBuffers' = AllBuffers
      BY <2>1, <2>2 DEF Unwritten, AllBuffers
    <3>2. NoLineLost'
      BY <2>1, <3>1 DEF LinesInv, NoLineLost
    <3> QED
      BY <2>1, <2>2, <3>1, <3>2 DEF LinesInv
  <2>3. CASE pc' # pc
    <3>1. pc \in {"test", "lock"} /\ pc' \in {"lock", "done", "waiting"}
      BY <1>2, <2>3 DEF Stop, BackendTest, BackendWait, vars, front, back
    <3>2. toWrite = <<>> /\ Unwritten' = Unwritten
      BY <2>1, <3>1 DEF LinesInv, Unwritten
    <3>3. \A b \in {next', new1', new2'} : b # Null => Clean(b, file) /\ b.cur = 0
      BY <2>1, AllClean
    <3>4. UNCHANGED <<current, buffers, lines, file>> /\ toWrite' = toWrite
      BY <2>1
    <3> QED
      BY <3>1, <3>2, <3>3, <3>4, LinesKept
  <2> QED
    BY <2>2, <2>3
<1> QED
  BY <1>1, <1>2, AppendLines, SwapLines, WriteLines, RefillLines DEF Next, Backend

\* Lines 30-52, 96-119 of AsyncLogging.cc, for any buffer size: no line is lost,
\* doubled or overtaken between append() and the file.
THEOREM LinesInOrder == Spec => []NoLineLost
<1>1. Spec => [](Inv /\ LinesInv)
  BY InitInv, InitLines, NextInv, NextLines, PTL DEF Spec
<1>2. LinesInv => NoLineLost
  BY DEF LinesInv
<1> QED
  BY <1>1, <1>2, PTL

(***************************************************************************)
(* The log file.                                                           *)
(***************************************************************************)

\* The lines of a sequence of files.
AllLines(fs) == FlattenSeq([i \in DOMAIN fs |-> fs[i].lines])

\* The later of two times is not in an earlier period.
LEMMA PeriodMonotonic ==
  ASSUME NEW s \in Nat, NEW t \in Nat, s <= t
  PROVE  PeriodOf(s) \in Nat /\ PeriodOf(s) <= PeriodOf(t)
<1> DEFINE k == kRollPerSeconds
           q == s \div k
           r == t \div k
<1>1. k \in Nat /\ k > 0
  BY LogFileAssumption
<1> HIDE DEF k
<1>2. q \in Nat /\ r \in Nat
  BY <1>1
<1>3. q <= r
  BY <1>1
<1> HIDE DEF q, r
<1>4. q * k \in Nat /\ q * k <= r * k
  BY <1>1, <1>2, <1>3
<1> QED
  BY <1>4 DEF PeriodOf, q, r, k

\* writtenBytes_ is a number.
LEMMA MinNat == ASSUME NEW a \in Nat, NEW b \in Nat PROVE Min({a, b}) \in Nat
<1>1. \E x \in {a, b} : \A y \in {a, b} : x <= y
  <2>1. CASE a <= b
    BY <2>1
  <2>2. CASE b <= a
    BY <2>2
  <2> QED
    BY <2>1, <2>2
<1> QED
  BY <1>1 DEF Min

\* The last file.
LEMMA LastOf ==
  ASSUME NEW T, NEW fs \in Seq(T), fs # <<>>
  PROVE  /\ Len(fs) \in Nat /\ Len(fs) >= 1 /\ Len(fs) - 1 \in Nat
         /\ Last(fs) = fs[Len(fs)] /\ Last(fs) \in T /\ DOMAIN fs = 1 .. Len(fs)
<1>1. Len(fs) \in Nat /\ Len(fs) # 0 /\ DOMAIN fs = 1 .. Len(fs)
  BY EmptySeq, LenProperties
<1>2. Len(fs) >= 1 /\ Len(fs) - 1 \in Nat /\ Len(fs) \in 1 .. Len(fs)
  BY <1>1
<1>3. fs[Len(fs)] \in T
  BY <1>2, ElementOfSeq
<1> QED
  BY <1>1, <1>2, <1>3 DEF Last

\* The lines of the files are the lines of the older ones and of the last.
LEMMA LinesSplit ==
  ASSUME NEW fs \in Seq(FileType), fs # <<>>
  PROVE  /\ OldLines(fs) \in Seq(Nat) /\ Last(fs).lines \in Seq(Nat)
         /\ AllLines(fs) = Cat(OldLines(fs), Last(fs).lines)
<1> DEFINE n == Len(fs)
           o == [i \in 1 .. n - 1 |-> fs[i].lines]
           a == [i \in DOMAIN fs |-> fs[i].lines]
           x == fs[n].lines
<1>1. n \in Nat /\ n >= 1 /\ n - 1 \in Nat /\ Last(fs) = fs[n] /\ DOMAIN fs = 1 .. n
  BY LastOf
<1>2. \A i \in 1 .. n : fs[i].lines \in Seq(Nat)
  <2>1. \A i \in 1 .. n : fs[i] \in FileType
    BY ElementOfSeq
  <2>2. \A f \in FileType : f.lines \in Seq(Nat)
    BY DEF FileType
  <2> QED
    BY <2>1, <2>2
<1>3. x \in Seq(Nat)
  BY <1>1, <1>2
<1>4. o \in Seq(Seq(Nat)) /\ Len(o) = n - 1
  <2>1. \A i \in 1 .. n - 1 : i \in 1 .. n
    BY <1>1
  <2>2. \A i \in 1 .. n - 1 : fs[i].lines \in Seq(Nat)
    BY <1>2, <2>1
  <2>3. o \in Seq(Seq(Nat))
    BY <1>1, <2>2, IsASeq
  <2> QED
    BY <1>1, <2>3, LenProperties
<1>5. a \in Seq(Seq(Nat)) /\ Len(a) = n
  <2>1. a = [i \in 1 .. n |-> fs[i].lines]
    BY <1>1
  <2>2. [i \in 1 .. n |-> fs[i].lines] \in Seq(Seq(Nat))
    BY <1>1, <1>2, IsASeq
  <2> QED
    BY <1>1, <2>1, <2>2, LenProperties
<1>6. \A i \in 1 .. n - 1 : o[i] = a[i]
  BY <1>1
<1>7. a[n] = x
  BY <1>1
<1>8. OldLines(fs) = FlattenSeq(o) /\ AllLines(fs) = FlattenSeq(a)
  BY DEF OldLines, AllLines
<1> HIDE DEF n, o, a, x
<1>9. /\ Append(o, x) \in Seq(Seq(Nat)) /\ Len(Append(o, x)) = (n - 1) + 1
      /\ \A i \in 1 .. n - 1 : Append(o, x)[i] = o[i]
      /\ Append(o, x)[(n - 1) + 1] = x
  BY <1>3, <1>4, AppendProperties
<1>10. a = Append(o, x)
  <2>1. (n - 1) + 1 = n
    BY <1>1
  <2>2. \A i \in 1 .. n : a[i] = Append(o, x)[i]
    <3>1. \A i \in 1 .. n : i \in 1 .. n - 1 \/ i = n
      BY <1>1
    <3> QED
      BY <1>6, <1>7, <1>9, <2>1, <3>1
  <2> QED
    BY <1>5, <1>9, <2>1, <2>2, SeqEqual
<1>11. FlattenSeq(o) \in Seq(Nat)
  BY <1>4, FlattenType
<1>12. FlattenSeq(Append(o, x)) = FlattenSeq(o) \o x
  BY <1>3, <1>4, FlattenAppend
<1> QED
  BY <1>1, <1>3, <1>8, <1>10, <1>11, <1>12 DEF Cat, x

\* The last file is changed.
LEMMA ReplaceLast ==
  ASSUME NEW fs \in Seq(FileType), fs # <<>>, NEW g \in FileType,
         NEW hs, hs = [fs EXCEPT ![Len(fs)] = g]
  PROVE  /\ hs \in Seq(FileType) /\ hs # <<>> /\ Last(hs) = g
         /\ OldLines(hs) = OldLines(fs)
         /\ g.safe <= Len(g.lines) => FilesOK(hs)
<1> DEFINE n == Len(fs)
<1>1. n \in Nat /\ n >= 1 /\ n - 1 \in Nat /\ Last(fs) = fs[n] /\ DOMAIN fs = 1 .. n
  BY LastOf
<1>2. n \in 1 .. n
  BY <1>1
<1>3. hs \in Seq(FileType) /\ Len(hs) = n
  BY <1>2, ExceptSeq, SMTT(30)
<1>4. hs[n] = g /\ \A i \in 1 .. n : i # n => hs[i] = fs[i]
  BY <1>1, <1>2
<1> HIDE DEF n
<1>5. hs # <<>>
  BY <1>1, <1>3, EmptySeq
<1>6. Last(hs) = g
  BY <1>3, <1>4, SMTT(30) DEF Last
<1>7. OldLines(hs) = OldLines(fs)
  <2>1. \A i \in 1 .. n - 1 : hs[i].lines = fs[i].lines
    <3>1. \A i \in 1 .. n - 1 : i \in 1 .. n /\ i # n
      BY <1>1
    <3> QED
      BY <1>4, <3>1
  <2>2. [i \in 1 .. n - 1 |-> hs[i].lines] = [i \in 1 .. n - 1 |-> fs[i].lines]
    BY <2>1
  <2> QED
    BY <1>3, <2>2 DEF OldLines, n
<1>8. g.safe <= Len(g.lines) => FilesOK(hs)
  BY <1>6 DEF FilesOK
<1> QED
  BY <1>3, <1>5, <1>6, <1>7, <1>8

\* A file is opened, and the one before it closed.
LEMMA AddLast ==
  ASSUME NEW fs \in Seq(FileType), NEW g \in FileType, g.safe <= Len(g.lines),
         NEW hs, hs = Append([i \in DOMAIN fs |-> Flushed(fs[i])], g)
  PROVE  /\ hs \in Seq(FileType) /\ hs # <<>> /\ Last(hs) = g
         /\ OldLines(hs) = AllLines(fs) /\ FilesOK(hs)
<1> DEFINE n == Len(fs)
           es == [i \in DOMAIN fs |-> Flushed(fs[i])]
<1>1. n \in Nat /\ DOMAIN fs = 1 .. n
  BY LenProperties
<1>2. \A i \in 1 .. n : fs[i] \in FileType
  BY ElementOfSeq
<1>3. \A f \in FileType : /\ Flushed(f) \in FileType
                          /\ Flushed(f).name = f.name /\ Flushed(f).lines = f.lines
  <2> SUFFICES ASSUME NEW f \in FileType
               PROVE  /\ Flushed(f) \in FileType
                      /\ Flushed(f).name = f.name /\ Flushed(f).lines = f.lines
    OBVIOUS
  <2>1. Len(f.lines) \in Nat
    BY LenProperties DEF FileType
  <2> QED
    BY <2>1 DEF FileType, Flushed
<1>4. es \in Seq(FileType) /\ Len(es) = n
  <2>1. es = [i \in 1 .. n |-> Flushed(fs[i])]
    BY <1>1
  <2>2. [i \in 1 .. n |-> Flushed(fs[i])] \in Seq(FileType)
    BY <1>1, <1>2, <1>3, IsASeq
  <2> QED
    BY <1>1, <2>1, <2>2, LenProperties
<1>5. \A i \in 1 .. n : es[i].name = fs[i].name /\ es[i].lines = fs[i].lines
  BY <1>1, <1>2, <1>3
<1> HIDE DEF n, es
<1>6. /\ hs \in Seq(FileType) /\ hs # <<>> /\ Len(hs) = n + 1
      /\ \A i \in 1 .. n : hs[i] = es[i]
      /\ hs[n + 1] = g
  BY <1>4, AppendProperties DEF es
<1>7. Last(hs) = g
  BY <1>6 DEF Last
<1>8. OldLines(hs) = AllLines(fs)
  <2>1. (n + 1) - 1 = n
    BY <1>1
  <2>2. [i \in 1 .. n |-> hs[i].lines] = [i \in DOMAIN fs |-> fs[i].lines]
    BY <1>1, <1>5, <1>6
  <2>3. OldLines(hs) = FlattenSeq([i \in 1 .. n |-> hs[i].lines])
    BY <1>6, <2>1 DEF OldLines
  <2> QED
    BY <2>2, <2>3 DEF AllLines
<1>9. FilesOK(hs)
  BY <1>7 DEF FilesOK
<1> QED
  BY <1>6, <1>7, <1>8, <1>9

\* What a LogFile with an open file holds.
LEMMA LogHas ==
  ASSUME NEW l, LogOK(l)
  PROVE  /\ l \in LogType /\ l.files \in Seq(FileType) /\ l.files # <<>>
         /\ Last(l.files) \in FileType /\ Len(Last(l.files).lines) \in Nat
         /\ LinesOf(l) = AllLines(l.files) /\ LinesOf(l) \in Seq(Nat)
         /\ Len(LinesOf(l)) = Len(OldLines(l.files)) + Len(Last(l.files).lines)
         /\ Len(OldLines(l.files)) \in Nat /\ SafeLen(l) \in Nat
         /\ SafeLen(l) <= Len(LinesOf(l))
<1>1. l \in LogType /\ l.files \in Seq(FileType) /\ l.files # <<>> /\ FilesOK(l.files)
  BY DEF LogOK, LogType
<1>2. LinesOf(l) = AllLines(l.files)
  BY DEF LinesOf, AllLines
<1>3. Last(l.files) \in FileType
  BY <1>1, LastOf
<1> DEFINE fs == l.files
           o == OldLines(fs)
           x == Last(fs).lines
           k == Last(fs).safe
<1>4. o \in Seq(Nat) /\ x \in Seq(Nat) /\ AllLines(fs) = Cat(o, x)
  BY <1>1, LinesSplit
<1>5. k \in Nat /\ k <= Len(x)
  BY <1>1, <1>3 DEF FilesOK, FileType
<1>6. SafeLen(l) = Len(o) + k
  BY DEF SafeLen
<1> HIDE DEF fs, o, x, k
<1>7. Cat(o, x) \in Seq(Nat) /\ Len(Cat(o, x)) = Len(o) + Len(x)
  BY <1>4, ConcatProperties DEF Cat
<1>8. Len(o) \in Nat /\ Len(x) \in Nat
  BY <1>4, LenProperties
<1>9. SafeLen(l) \in Nat /\ SafeLen(l) <= Len(o) + Len(x)
  BY <1>5, <1>6, <1>8
<1>10. LinesOf(l) = Cat(o, x)
  BY <1>2, <1>4 DEF fs
<1>11. /\ LinesOf(l) \in Seq(Nat) /\ Len(LinesOf(l)) = Len(o) + Len(x)
       /\ SafeLen(l) <= Len(LinesOf(l))
  BY <1>7, <1>9, <1>10
<1> QED
  BY <1>1, <1>2, <1>3, <1>8, <1>9, <1>11 DEF fs, o, x

\* flush() makes everything safe and moves nothing.
LEMMA FlushOK ==
  ASSUME NEW l, LogOK(l), NEW m, m = flush(l)
  PROVE  /\ LogOK(m) /\ LinesOf(m) = LinesOf(l) /\ SafeLen(m) = Len(LinesOf(l))
         /\ Last(m.files).late = Last(l.files).late /\ m.count = l.count
<1> DEFINE fs == l.files
           f == Last(fs)
           g == Flushed(f)
           hs == [fs EXCEPT ![Len(fs)] = g]
<1>1. /\ l \in LogType /\ fs \in Seq(FileType) /\ fs # <<>> /\ f \in FileType
      /\ Len(f.lines) \in Nat
  BY LogHas
<1>2. /\ g \in FileType /\ g.name = f.name /\ g.lines = f.lines /\ g.late = f.late
      /\ g.safe = Len(f.lines)
  BY <1>1 DEF FileType, Flushed
<1>3. fs[Len(fs)] = f
  BY DEF Last
<1>4. /\ hs \in Seq(FileType) /\ hs # <<>> /\ Last(hs) = g
      /\ OldLines(hs) = OldLines(fs) /\ FilesOK(hs)
  <2>1. FilesOK(fs) /\ g.safe <= Len(g.lines)
    BY <1>1, <1>2 DEF LogOK
  <2> HIDE DEF g, f, fs
  <2>2. /\ hs \in Seq(FileType) /\ hs # <<>> /\ Last(hs) = g
        /\ OldLines(hs) = OldLines(fs)
        /\ g.safe <= Len(g.lines) => FilesOK(hs)
    BY <1>1, <1>2, ReplaceLast
  <2> QED
    BY <1>2, <2>1, <2>2 DEF f
<1>5. m = [l EXCEPT !.files = hs]
  <2>1. m = [l EXCEPT !.files = [fs EXCEPT ![Len(fs)] = Flushed(fs[Len(fs)])]]
    BY <1>1 DEF flush, LogType
  <2> QED
    BY <1>3, <2>1
<1> HIDE DEF hs
<1>6. /\ m \in LogType /\ m.files = hs /\ m.count = l.count /\ m.lastRoll = l.lastRoll
      /\ m.startOfPeriod = l.startOfPeriod
  BY <1>1, <1>4, <1>5 DEF LogType
<1>7. LogOK(m)
  BY <1>2, <1>4, <1>6 DEF LogOK
<1>8. AllLines(hs) = AllLines(fs)
  BY <1>1, <1>2, <1>4, LinesSplit
<1>9. LinesOf(m) = LinesOf(l)
  BY <1>6, <1>7, <1>8, LogHas
<1>10. SafeLen(m) = Len(OldLines(fs)) + Len(f.lines)
  BY <1>2, <1>4, <1>6 DEF SafeLen
<1>11. SafeLen(m) = Len(LinesOf(l))
  BY <1>10, LogHas
<1> QED
  BY <1>2, <1>4, <1>6, <1>7, <1>9, <1>11

\* What rollFile makes of a LogFile when the second is a new one.
Rolled(l, t) ==
  [l EXCEPT !.lastRoll = t, !.lastFlush = t, !.startOfPeriod = PeriodOf(t),
            !.files = Append([i \in DOMAIN @ |-> Flushed(@[i])], NewFile(t))]

\* A roll opens a file, and closes the last one.
LEMMA RolledOK ==
  ASSUME NEW l \in LogType, l.count < checkEveryN, NEW t \in Nat,
         NEW m, m = Rolled(l, t)
  PROVE  /\ LogOK(m) /\ LinesOf(m) = AllLines(l.files)
         /\ SafeLen(m) = Len(AllLines(l.files))
         /\ Last(m.files).late = 0 /\ m.count = l.count
<1> DEFINE fs == l.files
           g == NewFile(t)
           hs == Append([i \in DOMAIN fs |-> Flushed(fs[i])], g)
<1>1. fs \in Seq(FileType)
  BY DEF LogType
<1>2. /\ g \in FileType /\ g.lines = <<>> /\ g.safe = 0 /\ g.late = 0
      /\ g.safe <= Len(g.lines)
  <2>1. <<>> \in Seq(Nat) /\ Len(<<>>) = 0
    OBVIOUS
  <2> QED
    BY <2>1 DEF NewFile, getLogFileName, FileType
<1>3. /\ hs \in Seq(FileType) /\ hs # <<>> /\ Last(hs) = g
      /\ OldLines(hs) = AllLines(fs) /\ FilesOK(hs)
  <2> HIDE DEF g, fs
  <2>1. /\ hs \in Seq(FileType) /\ hs # <<>> /\ Last(hs) = g
        /\ OldLines(hs) = AllLines(fs) /\ FilesOK(hs)
    BY <1>1, <1>2, AddLast
  <2> QED
    BY <1>2, <2>1 DEF fs
<1>4. PeriodOf(t) \in Nat
  BY PeriodMonotonic
<1>5. m = [l EXCEPT !.lastRoll = t, !.lastFlush = t, !.startOfPeriod = PeriodOf(t),
                    !.files = hs]
  BY DEF Rolled
<1> HIDE DEF hs
<1>6. /\ m \in LogType /\ m.files = hs /\ m.count = l.count /\ m.lastRoll = t
      /\ m.startOfPeriod = PeriodOf(t)
  BY <1>3, <1>4, <1>5 DEF LogType
<1>7. LogOK(m)
  BY <1>2, <1>3, <1>6 DEF LogOK
<1>8. AllLines(hs) = AllLines(fs) /\ AllLines(fs) \in Seq(Nat)
  <2>1. OldLines(hs) \in Seq(Nat) /\ AllLines(hs) = Cat(OldLines(hs), <<>>)
    BY <1>2, <1>3, LinesSplit
  <2> QED
    BY <1>3, <2>1, CatType
<1>9. LinesOf(m) = AllLines(fs)
  BY <1>6, <1>7, <1>8, LogHas
<1>10. SafeLen(m) = Len(AllLines(fs)) + 0
  BY <1>2, <1>3, <1>6 DEF SafeLen
<1>11. Len(AllLines(fs)) \in Nat
  BY <1>8, LenProperties
<1> QED
  BY <1>2, <1>3, <1>6, <1>7, <1>9, <1>10, <1>11

\* rollFile, allowed or refused.
LEMMA RollOK ==
  ASSUME NEW l, LogOK(l), NEW t \in Nat, NEW m, m = rollFile(l, t)
  PROVE  /\ LogOK(m) /\ LinesOf(m) = LinesOf(l) /\ SafeLen(m) >= SafeLen(l)
         /\ m.count = l.count
         /\ (m = l /\ t <= l.lastRoll) \/ Last(m.files).late = 0
<1>1. l \in LogType /\ l.lastRoll \in Nat
  BY DEF LogOK, LogType
<1>2. CASE t > l.lastRoll
  <2>1. m = Rolled(l, t)
    BY <1>2 DEF rollFile, Rolled
  <2>2. l.count < checkEveryN
    BY <1>1, <1>2 DEF LogOK
  <2>3. /\ LogOK(m) /\ LinesOf(m) = AllLines(l.files)
        /\ SafeLen(m) = Len(AllLines(l.files))
        /\ Last(m.files).late = 0 /\ m.count = l.count
    BY <1>1, <2>1, <2>2, RolledOK
  <2>4. LinesOf(l) = AllLines(l.files) /\ SafeLen(l) <= Len(LinesOf(l)) /\ SafeLen(l) \in Nat
    BY LogHas
  <2>5. Len(LinesOf(l)) \in Nat
    BY LogHas, LenProperties
  <2>6. SafeLen(m) >= SafeLen(l)
    BY <2>3, <2>4, <2>5
  <2> QED
    BY <2>3, <2>4, <2>6
<1>3. CASE ~(t > l.lastRoll)
  <2>1. m = l
    BY <1>3 DEF rollFile
  <2>2. SafeLen(l) \in Nat
    BY LogHas
  <2>3. t <= l.lastRoll /\ SafeLen(l) >= SafeLen(l)
    BY <1>1, <1>3, <2>2
  <2> QED
    BY <2>1, <2>3
<1> QED
  BY <1>2, <1>3

\* The constructor opens the first file.
LEMMA NewLogOK ==
  ASSUME NEW t \in Nat \ {0}, NEW m, m = NewLogFile(t)
  PROVE  /\ LogOK(m) /\ LinesOf(m) = <<>> /\ SafeLen(m) = 0
         /\ Last(m.files).late = 0 /\ m.count = 0
<1> DEFINE l == [count |-> 0, startOfPeriod |-> 0, lastRoll |-> 0, lastFlush |-> 0,
                 files |-> <<>>]
<1>1. l \in LogType /\ l.files = <<>> /\ l.count = 0
  <2>1. <<>> \in Seq(FileType)
    OBVIOUS
  <2> QED
    BY <2>1 DEF LogType
<1>2. m = Rolled(l, t)
  <2>1. t > l.lastRoll
    OBVIOUS
  <2> QED
    BY <2>1 DEF NewLogFile, rollFile, Rolled
<1> HIDE DEF l
<1>3. l.count < checkEveryN
  BY <1>1, LogFileAssumption
<1>4. /\ LogOK(m) /\ LinesOf(m) = AllLines(l.files)
      /\ SafeLen(m) = Len(AllLines(l.files))
      /\ Last(m.files).late = 0 /\ m.count = l.count
  BY <1>1, <1>2, <1>3, RolledOK
<1>5. AllLines(<<>>) = <<>>
  <2>1. [i \in DOMAIN <<>> |-> <<>>[i].lines] = <<>>
    OBVIOUS
  <2> QED
    BY <2>1, FlattenEmpty DEF AllLines
<1> QED
  BY <1>1, <1>4, <1>5

\* FileUtil::append.
LEMMA FileAppendOK ==
  ASSUME NEW l, LogOK(l), NEW ls \in Seq(Nat), NEW n \in Nat, NEW t \in Nat,
         NEW m, m = FileAppend(l, ls, n, t)
  PROVE  /\ LogOK(m) /\ LinesOf(m) = Cat(LinesOf(l), ls) /\ SafeLen(m) = SafeLen(l)
         /\ m.count = l.count /\ m.lastRoll = l.lastRoll
         /\ m.startOfPeriod = l.startOfPeriod
         /\ Last(m.files).late =
              (IF PeriodOf(t) > l.startOfPeriod THEN Last(l.files).late + 1 ELSE 0)
<1> DEFINE fs == l.files
           f == Last(fs)
           late == IF PeriodOf(t) > l.startOfPeriod THEN f.late + 1 ELSE 0
           w == Min({f.written + n, rollSize + 1})
           g == [f EXCEPT !.written = w, !.lines = f.lines \o ls, !.late = late]
           hs == [fs EXCEPT ![Len(fs)] = g]
<1>1. /\ l \in LogType /\ fs \in Seq(FileType) /\ fs # <<>> /\ f \in FileType
      /\ Len(f.lines) \in Nat
  BY LogHas
<1>2. w \in Nat
  <2>1. f.written + n \in Nat /\ rollSize + 1 \in Nat
    <3>1. f.written \in Nat
      BY <1>1 DEF FileType
    <3>2. rollSize \in Nat
      BY LogFileAssumption
    <3> HIDE DEF f
    <3> QED
      BY <3>1, <3>2
  <2> QED
    BY <2>1, MinNat
<1>3. late \in Nat
  BY <1>1 DEF FileType
<1>4. /\ f.lines \in Seq(Nat) /\ f.lines \o ls \in Seq(Nat)
      /\ Len(f.lines \o ls) = Len(f.lines) + Len(ls) /\ Len(ls) \in Nat
  <2>1. f.lines \in Seq(Nat)
    BY <1>1 DEF FileType
  <2> QED
    BY <2>1, ConcatProperties, LenProperties
<1> HIDE DEF late, w, f
<1>5. /\ g \in FileType /\ g.name = f.name /\ g.lines = f.lines \o ls /\ g.late = late
      /\ g.safe = f.safe
  BY <1>1, <1>2, <1>3, <1>4 DEF FileType
<1>6. f = fs[Len(fs)]
  BY DEF Last, f
<1>7. /\ hs \in Seq(FileType) /\ hs # <<>> /\ Last(hs) = g
      /\ OldLines(hs) = OldLines(fs) /\ FilesOK(hs)
  <2>1. FilesOK(fs) /\ f.safe <= Len(f.lines) /\ f.safe \in Nat
    BY <1>1 DEF LogOK, FilesOK, FileType, f
  <2>2. g.safe <= Len(g.lines)
    BY <1>1, <1>4, <1>5, <2>1
  <2> HIDE DEF g, fs
  <2>3. /\ hs \in Seq(FileType) /\ hs # <<>> /\ Last(hs) = g
        /\ OldLines(hs) = OldLines(fs)
        /\ g.safe <= Len(g.lines) => FilesOK(hs)
    BY <1>1, <1>5, ReplaceLast
  <2> QED
    BY <1>5, <2>1, <2>2, <2>3 DEF f
<1>8. m = [l EXCEPT !.files = hs]
  <2> DEFINE late1 == PeriodOf(t) > l.startOfPeriod
  <2>1. m = [l EXCEPT !.files = [fs EXCEPT ![Len(fs)] = FileWrite(fs[Len(fs)], ls, n, late1)]]
    BY <1>1 DEF FileAppend, LogType
  <2>2. FileWrite(f, ls, n, late1) = g
    BY DEF FileWrite, late, w
  <2> QED
    BY <1>6, <2>1, <2>2
<1> HIDE DEF hs, g
<1>9. /\ m \in LogType /\ m.files = hs /\ m.count = l.count /\ m.lastRoll = l.lastRoll
      /\ m.startOfPeriod = l.startOfPeriod
  BY <1>1, <1>7, <1>8 DEF LogType
<1>10. LogOK(m)
  BY <1>5, <1>7, <1>9 DEF LogOK, f
<1>11. AllLines(hs) = Cat(AllLines(fs), ls)
  <2>1. /\ OldLines(fs) \in Seq(Nat) /\ AllLines(fs) = Cat(OldLines(fs), f.lines)
    BY <1>1, LinesSplit DEF f
  <2>2. AllLines(hs) = Cat(OldLines(fs), Cat(f.lines, ls))
    BY <1>5, <1>7, LinesSplit DEF Cat
  <2> QED
    BY <1>4, <2>1, <2>2, CatAssoc
<1>12. LinesOf(m) = Cat(LinesOf(l), ls)
  BY <1>9, <1>10, <1>11, LogHas
<1>13. SafeLen(m) = SafeLen(l)
  BY <1>5, <1>7, <1>9 DEF SafeLen, f
<1> QED
  BY <1>5, <1>7, <1>9, <1>10, <1>12, <1>13 DEF late, f

\* From l to m only count_, now k, and lastFlush_ change.
Counted(l, m, k) ==
  /\ m \in LogType /\ m.files = l.files /\ m.count = k /\ m.lastRoll = l.lastRoll
  /\ m.startOfPeriod = l.startOfPeriod

\* They say nothing about the files.
LEMMA CountersOK ==
  ASSUME NEW l, LogOK(l), NEW k, k < checkEveryN, NEW m, Counted(l, m, k)
  PROVE  LogOK(m) /\ LinesOf(m) = LinesOf(l) /\ SafeLen(m) = SafeLen(l)
BY DEF Counted, LogOK, LinesOf, SafeLen

\* What appendInLock and the check at its end promise: from l to m the lines stay,
\* nothing safe gets unsafe, and the late appends are counted.
Carries(l, m) ==
  /\ LogOK(m) /\ LinesOf(m) = LinesOf(l) /\ SafeLen(m) >= SafeLen(l)
  /\ Last(m.files).late <= m.count

\* No append of this period is late.
LateOnlyAfter(l, t) == PeriodOf(t) > l.startOfPeriod \/ Last(l.files).late = 0

\* The roll for size: a roll that is refused is one in the same or in an earlier
\* period.
LEMMA SizeRollOK ==
  ASSUME NEW l, LogOK(l), NEW t \in Nat, LateOnlyAfter(l, t),
         NEW m, m = rollFile(l, t)
  PROVE  Carries(l, m) /\ m.count = l.count
<1>1. /\ LogOK(m) /\ LinesOf(m) = LinesOf(l) /\ SafeLen(m) >= SafeLen(l)
      /\ m.count = l.count
      /\ (m = l /\ t <= l.lastRoll) \/ Last(m.files).late = 0
  BY RollOK
<1>2. l.count \in Nat /\ l.lastRoll \in Nat /\ l.startOfPeriod = PeriodOf(l.lastRoll)
  BY DEF LogOK, LogType
<1>3. Last(m.files).late = 0
  <2>1. CASE m = l /\ t <= l.lastRoll
    <3>1. PeriodOf(t) \in Nat /\ PeriodOf(t) <= l.startOfPeriod /\ l.startOfPeriod \in Nat
      BY <1>2, <2>1, PeriodMonotonic
    <3>2. ~(PeriodOf(t) > l.startOfPeriod)
      BY <3>1
    <3> QED
      BY <2>1, <3>2 DEF LateOnlyAfter
  <2> QED
    BY <1>1, <2>1
<1> QED
  BY <1>1, <1>2, <1>3 DEF Carries

\* The check of every checkEveryN calls.
LEMMA CheckOK ==
  ASSUME NEW l, LogOK(l), NEW t \in Nat, LateOnlyAfter(l, t), NEW m, m = Check(l, t)
  PROVE  Carries(l, m)
<1> DEFINE z == [l EXCEPT !.count = 0]
           y == [l EXCEPT !.count = 0, !.lastFlush = t]
<1>1. checkEveryN \in Nat /\ 0 < checkEveryN
  BY LogFileAssumption
<1>2. /\ LogOK(z) /\ z.files = l.files /\ z.count = 0 /\ z.startOfPeriod = l.startOfPeriod
      /\ LinesOf(z) = LinesOf(l) /\ SafeLen(z) = SafeLen(l)
  <2>1. Counted(l, z, 0)
    BY DEF Counted, LogOK, LogType
  <2> HIDE DEF z
  <2> QED
    BY <1>1, <2>1, CountersOK DEF Counted
<1>3. /\ LogOK(y) /\ y.files = l.files /\ y.count = 0
      /\ LinesOf(y) = LinesOf(l) /\ SafeLen(y) = SafeLen(l)
  <2>1. Counted(l, y, 0)
    BY DEF Counted, LogOK, LogType
  <2> HIDE DEF y
  <2> QED
    BY <1>1, <2>1, CountersOK DEF Counted
<1>4. m = (IF PeriodOf(t) # l.startOfPeriod THEN rollFile(z, t)
           ELSE IF t - l.lastFlush > flushInterval THEN flush(y) ELSE z)
  BY DEF Check
<1> HIDE DEF z, y
<1>5. l.startOfPeriod \in Nat /\ PeriodOf(t) \in Nat
  BY PeriodMonotonic DEF LogOK, LogType
<1>6. CASE PeriodOf(t) # l.startOfPeriod
  <2>1. m = rollFile(z, t)
    BY <1>4, <1>6
  <2>2. LateOnlyAfter(z, t)
    BY <1>2 DEF LateOnlyAfter
  <2>3. Carries(z, m)
    BY <1>2, <2>1, <2>2, SizeRollOK
  <2> QED
    BY <1>2, <2>3 DEF Carries
<1>7. CASE PeriodOf(t) = l.startOfPeriod
  <2>1. Last(l.files).late = 0
    BY <1>5, <1>7 DEF LateOnlyAfter
  <2>2. CASE t - l.lastFlush > flushInterval
    <3>1. m = flush(y)
      BY <1>4, <1>7, <2>2
    <3>2. /\ LogOK(m) /\ LinesOf(m) = LinesOf(y) /\ SafeLen(m) = Len(LinesOf(y))
          /\ Last(m.files).late = Last(y.files).late /\ m.count = y.count
      BY <1>3, <3>1, FlushOK
    <3>3. SafeLen(l) <= Len(LinesOf(l)) /\ SafeLen(l) \in Nat /\ Len(LinesOf(l)) \in Nat
      BY LogHas, LenProperties
    <3>4. SafeLen(m) >= SafeLen(l)
      BY <1>3, <3>2, <3>3
    <3> QED
      BY <1>3, <2>1, <3>2, <3>4 DEF Carries
  <2>3. CASE ~(t - l.lastFlush > flushInterval)
    <3>1. m = z
      BY <1>4, <1>7, <2>3
    <3>2. SafeLen(l) \in Nat
      BY LogHas
    <3> QED
      BY <1>2, <2>1, <3>1, <3>2 DEF Carries
  <2> QED
    BY <2>2, <2>3
<1> QED
  BY <1>6, <1>7

\* One append to the LogFile.
LEMMA AppendOK ==
  ASSUME NEW l, LogOK(l), Last(l.files).late <= l.count,
         NEW ls \in Seq(Nat), NEW n \in Nat, NEW t \in Nat,
         NEW m, m = appendInLock(l, ls, n, t)
  PROVE  /\ LogOK(m) /\ LinesOf(m) = Cat(LinesOf(l), ls) /\ SafeLen(m) >= SafeLen(l)
         /\ Last(m.files).late <= m.count
<1> DEFINE k == FileAppend(l, ls, n, t)
<1>1. /\ LogOK(k) /\ LinesOf(k) = Cat(LinesOf(l), ls) /\ SafeLen(k) = SafeLen(l)
      /\ k.count = l.count /\ k.startOfPeriod = l.startOfPeriod
      /\ Last(k.files).late =
           (IF PeriodOf(t) > l.startOfPeriod THEN Last(l.files).late + 1 ELSE 0)
  BY FileAppendOK
<1>2. m = (IF Last(k.files).written > rollSize THEN rollFile(k, t)
           ELSE IF k.count + 1 >= checkEveryN THEN Check(k, t)
           ELSE [k EXCEPT !.count = k.count + 1])
  BY DEF appendInLock
<1> HIDE DEF k
<1>3. /\ SafeLen(k) \in Nat /\ k.count \in Nat /\ Last(k.files).late \in Nat
      /\ Last(l.files).late \in Nat
  BY <1>1, LogHas DEF LogType, FileType
<1>4. LateOnlyAfter(k, t)
  BY <1>1 DEF LateOnlyAfter
<1>5. CASE Last(k.files).written > rollSize
  <2>1. Carries(k, m)
    BY <1>1, <1>2, <1>4, <1>5, SizeRollOK
  <2> QED
    BY <1>1, <2>1 DEF Carries
<1>6. CASE ~(Last(k.files).written > rollSize) /\ k.count + 1 >= checkEveryN
  <2>1. Carries(k, m)
    BY <1>1, <1>2, <1>4, <1>6, CheckOK
  <2> QED
    BY <1>1, <2>1 DEF Carries
<1>7. CASE ~(Last(k.files).written > rollSize) /\ ~(k.count + 1 >= checkEveryN)
  <2> DEFINE c == k.count + 1
  <2>1. m = [k EXCEPT !.count = c]
    BY <1>2, <1>7
  <2>2. c \in Nat /\ c < checkEveryN
    BY <1>3, <1>7, LogFileAssumption
  <2> HIDE DEF c
  <2>3. /\ LogOK(m) /\ m.files = k.files /\ m.count = c
        /\ LinesOf(m) = LinesOf(k) /\ SafeLen(m) = SafeLen(k)
    <3>1. Counted(k, m, c)
      BY <1>1, <2>1, <2>2 DEF Counted, LogOK, LogType
    <3> QED
      BY <1>1, <2>2, <3>1, CountersOK DEF Counted
  <2>4. Last(k.files).late <= c
    BY <1>1, <1>3 DEF c
  <2>5. SafeLen(m) >= SafeLen(l)
    BY <1>1, <1>3, <2>3
  <2> QED
    BY <1>1, <2>3, <2>4, <2>5
<1> QED
  BY <1>5, <1>6, <1>7

(***************************************************************************)
(* The back end and its file.                                              *)
(***************************************************************************)

\* Buffers that can be written.
AllFilled(bs) == bs \in Seq(BufferType) /\ \A i \in 1 .. Len(bs) : Filled(bs[i])

\* The lines of the first k buffers.
FirstLines(bs, k) == LiveLines(SubSeq(bs, 1, k))

\* One more buffer.
LEMMA FirstLinesNext ==
  ASSUME NEW bs, AllFilled(bs), NEW k \in Nat, k <= Len(bs)
  PROVE  /\ FirstLines(bs, k) \in Seq(Nat)
         /\ k + 1 <= Len(bs) =>
              /\ Filled(bs[k + 1])
              /\ FirstLines(bs, k + 1) = Cat(FirstLines(bs, k), Live(bs[k + 1]))
<1> DEFINE n == Len(bs)
           fs == SubSeq(bs, 1, k)
<1>1. bs \in Seq(BufferType) /\ n \in Nat /\ \A i \in 1 .. n : Filled(bs[i]) /\ bs[i] \in BufferType
  BY ElementOfSeq, LenProperties DEF AllFilled
<1>2. ASSUME NEW j \in Nat, j <= n
      PROVE  /\ SubSeq(bs, 1, j) \in Seq(BufferType) /\ Len(SubSeq(bs, 1, j)) = j
             /\ \A i \in 1 .. j : SubSeq(bs, 1, j)[i] = bs[i]
  <2>1. \A i \in 1 .. j : bs[i] \in BufferType
    <3>1. \A i \in 1 .. j : i \in 1 .. n
      BY <1>1, <1>2
    <3> QED
      BY <1>1, <3>1
  <2>2. SubSeq(bs, 1, j) = [i \in 1 .. j |-> bs[i]]
    BY <1>1, <1>2
  <2>3. [i \in 1 .. j |-> bs[i]] \in Seq(BufferType)
    BY <1>2, <2>1, IsASeq
  <2>4. Len([i \in 1 .. j |-> bs[i]]) = j
    BY <1>2, <2>3, LenProperties
  <2> QED
    BY <2>2, <2>3, <2>4
<1>3. fs \in Seq(BufferType) /\ Len(fs) = k /\ \A i \in 1 .. k : fs[i] = bs[i]
  BY <1>2
<1>4. \A i \in 1 .. Len(fs) : Filled(fs[i])
  <2>1. \A i \in 1 .. k : i \in 1 .. n
    BY <1>1
  <2> QED
    BY <1>1, <1>3, <2>1
<1> HIDE DEF fs
<1>5. /\ LiveLines(fs) \in Seq(Nat)
      /\ \A b : Filled(b) => LiveLines(Append(fs, b)) = LiveLines(fs) \o Live(b)
  BY <1>3, <1>4, LiveLinesOf
<1>6. ASSUME k + 1 <= n
      PROVE  /\ Filled(bs[k + 1])
             /\ FirstLines(bs, k + 1) = Cat(FirstLines(bs, k), Live(bs[k + 1]))
  <2> DEFINE b == bs[k + 1]
             gs == SubSeq(bs, 1, k + 1)
  <2>1. Filled(b) /\ b \in BufferType
    BY <1>1, <1>6
  <2>2. gs \in Seq(BufferType) /\ Len(gs) = k + 1 /\ \A i \in 1 .. k + 1 : gs[i] = bs[i]
    BY <1>2, <1>6
  <2> HIDE DEF b, gs
  <2>3. /\ Append(fs, b) \in Seq(BufferType) /\ Len(Append(fs, b)) = k + 1
        /\ \A i \in 1 .. k : Append(fs, b)[i] = fs[i]
        /\ Append(fs, b)[k + 1] = b
    BY <1>3, <2>1, AppendProperties
  <2>4. gs = Append(fs, b)
    <3>1. \A i \in 1 .. k + 1 : gs[i] = Append(fs, b)[i]
      <4>1. \A i \in 1 .. k + 1 : i \in 1 .. k \/ i = k + 1
        OBVIOUS
      <4>2. bs[k + 1] = b
        BY DEF b
      <4> QED
        BY <1>3, <2>2, <2>3, <4>1, <4>2
    <3> QED
      BY <2>2, <2>3, <3>1, SeqEqual
  <2> QED
    BY <1>5, <2>1, <2>4 DEF FirstLines, Cat, fs, gs, b
<1> QED
  BY <1>5, <1>6 DEF FirstLines, fs

\* No buffer, and all of them.
LEMMA FirstLinesEnds ==
  ASSUME NEW bs, AllFilled(bs)
  PROVE  FirstLines(bs, 0) = <<>> /\ FirstLines(bs, Len(bs)) = LiveLines(bs)
<1>1. bs \in Seq(BufferType)
  BY DEF AllFilled
<1>2. SubSeq(bs, 1, Len(bs)) = bs
  BY <1>1, SubSeqFull
<1>3. SubSeq(bs, 1, 0) = <<>>
  BY <1>1
<1> QED
  BY <1>2, <1>3, NoLiveLines DEF FirstLines

\* The lines of the first buffers are a prefix of those of all.
LEMMA FirstLinesPrefix ==
  ASSUME NEW bs, AllFilled(bs), NEW k \in Nat, k <= Len(bs)
  PROVE  \E t \in Seq(Nat) : LiveLines(bs) = Cat(FirstLines(bs, k), t)
<1> DEFINE n == Len(bs)
           S == {j \in Nat : k + j <= n =>
                  \E t \in Seq(Nat) : FirstLines(bs, k + j) = Cat(FirstLines(bs, k), t)}
<1>1. n \in Nat
  BY LenProperties DEF AllFilled
<1>2. 0 \in S
  <2>1. FirstLines(bs, k) \in Seq(Nat)
    BY FirstLinesNext
  <2>2. <<>> \in Seq(Nat)
    OBVIOUS
  <2>3. FirstLines(bs, k) = Cat(FirstLines(bs, k), <<>>)
    BY <2>1, <2>2, CatType
  <2>4. k + 0 = k
    OBVIOUS
  <2> QED
    BY <2>2, <2>3, <2>4
<1>3. ASSUME NEW j \in Nat, j \in S PROVE j + 1 \in S
  <2> SUFFICES ASSUME k + (j + 1) <= n
               PROVE  \E t \in Seq(Nat) : FirstLines(bs, k + (j + 1)) = Cat(FirstLines(bs, k), t)
    OBVIOUS
  <2>1. k + j \in Nat /\ k + j <= n /\ k + (j + 1) = (k + j) + 1
    BY <1>1
  <2>2. PICK t \in Seq(Nat) : FirstLines(bs, k + j) = Cat(FirstLines(bs, k), t)
    BY <1>3, <2>1
  <2> DEFINE i == k + j
             x == Live(bs[i + 1])
  <2>3. i \in Nat /\ i <= n /\ i + 1 <= n
    BY <2>1
  <2> HIDE DEF i
  <2>4. Filled(bs[i + 1]) /\ FirstLines(bs, i + 1) = Cat(FirstLines(bs, i), x)
    BY <2>3, FirstLinesNext
  <2>5. x \in Seq(Nat)
    BY <2>4, CellsOf
  <2>6. FirstLines(bs, k) \in Seq(Nat) /\ Cat(t, x) \in Seq(Nat)
    BY <2>5, FirstLinesNext, CatType
  <2> HIDE DEF x
  <2>7. FirstLines(bs, i + 1) = Cat(FirstLines(bs, k), Cat(t, x))
    BY <2>2, <2>4, <2>5, <2>6, CatAssoc DEF i
  <2> QED
    BY <2>1, <2>6, <2>7 DEF i
<1> HIDE DEF S
<1>4. n - k \in S
  <2>1. n - k \in Nat
    BY <1>1
  <2>2. Nat \subseteq S
    BY <1>2, <1>3, SetInduction
  <2> QED
    BY <2>1, <2>2
<1>5. \E t \in Seq(Nat) : FirstLines(bs, n) = Cat(FirstLines(bs, k), t)
  <2>1. k + (n - k) = n /\ n <= n
    BY <1>1
  <2> QED
    BY <1>4, <2>1 DEF S
<1> QED
  BY <1>5, FirstLinesEnds

\* What the numbers up to n begin with are the numbers up to some number.
LEMMA UpToPrefix ==
  ASSUME NEW n \in Nat, NEW a \in Seq(Nat), NEW b \in Seq(Nat), UpTo(n) = Cat(a, b)
  PROVE  a = UpTo(Len(a))
<1> DEFINE k == Len(a)
<1>1. k \in Nat /\ Len(b) \in Nat
  BY LenProperties
<1>2. Len(Cat(a, b)) = k + Len(b) /\ \A i \in 1 .. k : Cat(a, b)[i] = a[i]
  <2>1. /\ Len(a \o b) = k + Len(b)
        /\ \A i \in 1 .. k + Len(b) : (a \o b)[i] = IF i <= k THEN a[i] ELSE b[i - k]
    BY ConcatProperties
  <2>2. \A i \in 1 .. k : i \in 1 .. k + Len(b) /\ i <= k
    BY <1>1
  <2> QED
    BY <2>1, <2>2 DEF Cat
<1>3. k <= n
  <2>1. Len(UpTo(n)) = n
    BY UpToNext
  <2>2. k + Len(b) = n
    BY <1>2, <2>1
  <2> HIDE DEF k
  <2> QED
    BY <1>1, <2>2
<1>4. \A i \in 1 .. k : a[i] = i
  <2>1. \A i \in 1 .. k : i \in 1 .. n
    BY <1>1, <1>3
  <2>2. \A i \in 1 .. n : UpTo(n)[i] = i
    BY DEF UpTo
  <2> QED
    BY <1>2, <2>1, <2>2
<1>5. UpTo(k) \in Seq(Nat) /\ Len(UpTo(k)) = k /\ \A i \in 1 .. k : UpTo(k)[i] = i
  <2>1. UpTo(k) \in Seq(Nat) /\ Len(UpTo(k)) = k
    BY <1>1, UpToNext
  <2> QED
    BY <2>1 DEF UpTo
<1> QED
  BY <1>4, <1>5, SeqEqual

\* What has been handed to the file so far is lines in order, with none missing.
LEMMA WrittenInOrder ==
  ASSUME Inv, LinesInv, NEW k \in Nat, k <= Len(toWrite), pc # "write" => k = 0
  PROVE  /\ AllFilled(toWrite) /\ FirstLines(toWrite, k) \in Seq(Nat)
         /\ Cat(file, FirstLines(toWrite, k)) \in Seq(Nat)
         /\ Cat(file, FirstLines(toWrite, k)) = UpTo(Len(Cat(file, FirstLines(toWrite, k))))
<1> DEFINE p == LiveLines(buffers)
           c == Live(current)
           w == FirstLines(toWrite, k)
<1>1. AllFilled(toWrite)
  BY AllClean DEF AllFilled, Inv, TypeOK, Clean
<1>2. w \in Seq(Nat)
  BY <1>1, FirstLinesNext
<1>3. file \in Seq(Nat) /\ p \in Seq(Nat) /\ c \in Seq(Nat) /\ Unwritten \in Seq(Nat)
  BY LinesTyped
<1>4. PICK t \in Seq(Nat) : Unwritten = Cat(w, t)
  <2>1. CASE pc = "write"
    <3>1. Unwritten = LiveLines(toWrite)
      BY <2>1 DEF Unwritten
    <3> QED
      BY <1>1, <3>1, FirstLinesPrefix
  <2>2. CASE pc # "write"
    <3>1. w = <<>>
      BY <1>1, <2>2, FirstLinesEnds
    <3> QED
      BY <1>3, <3>1, CatType
  <2> QED
    BY <2>1, <2>2
<1>5. lines \in Nat /\ UpTo(lines) = Cat(Cat(Cat(file, Unwritten), p), c)
  BY DEF LinesInv, NoLineLost, UpTo, Cat, Inv, TypeOK
<1> HIDE DEF p, c, w
<1>6. Cat(file, w) \in Seq(Nat) /\ Cat(p, c) \in Seq(Nat)
  BY <1>2, <1>3, CatType
<1>7. Cat(t, Cat(p, c)) \in Seq(Nat)
  BY <1>6, CatType
<1>8. UpTo(lines) = Cat(Cat(file, w), Cat(t, Cat(p, c)))
  <2>1. Cat(file, Unwritten) \in Seq(Nat) /\ Cat(file, Unwritten) = Cat(Cat(file, w), t)
    BY <1>2, <1>3, <1>4, CatType, CatAssoc
  <2>2. Cat(Cat(Cat(file, Unwritten), p), c) = Cat(Cat(file, Unwritten), Cat(p, c))
    BY <1>3, <2>1, CatAssoc
  <2>3. Cat(Cat(Cat(file, w), t), Cat(p, c)) = Cat(Cat(file, w), Cat(t, Cat(p, c)))
    BY <1>6, CatAssoc
  <2> QED
    BY <1>5, <2>1, <2>2, <2>3
<1>9. Cat(file, w) = UpTo(Len(Cat(file, w)))
  BY <1>5, <1>6, <1>7, <1>8, UpToPrefix
<1> QED
  BY <1>1, <1>2, <1>6, <1>9 DEF w

\* The invariants of AsyncLogging, which LoggingToFile inherits.
BufferInv == Inv /\ LinesInv

\* Every step of the composition is a step of AsyncLogging or leaves it alone.
LEMMA LogStepOfBuffers == [LogNext]_logVars => [Next]_vars
<1> SUFFICES ASSUME [LogNext]_logVars PROVE [Next]_vars
  OBVIOUS
<1>1. CASE LogStart
  BY <1>1 DEF LogStart, Next
<1>2. CASE FrontEnd
  BY <1>2 DEF FrontEnd, Next
<1>3. CASE WriteBuffer \/ ClockMoves \/ Abort \/ UNCHANGED logVars
  BY <1>3 DEF WriteBuffer, ClockMoves, Abort, logVars
<1>4. CASE EndWrite
  BY <1>4 DEF EndWrite, Next, Backend
<1>5. CASE EndRound
  BY <1>5 DEF EndRound, Next, Backend
<1>6. CASE RoundBegins
  BY <1>6 DEF RoundBegins, Next, Backend
<1> QED
  BY <1>1, <1>2, <1>3, <1>4, <1>5, <1>6 DEF LogNext, LogBackend

\* The parts of LogInv.
LogStarted == LogOK(log) /\ Last(log.files).late <= log.count /\ safe <= SafeLen(log)
LogWritten == LinesOf(log) = Cat(file, FirstLines(toWrite, done))

\* They are what LogInv says.
LogParts ==
  /\ now \in Nat \ {0} /\ safe \in Nat
  /\ done \in 0 .. Len(toWrite) /\ (pc # "write" => done = 0)
  /\ pc = "created" => log = NoLog /\ safe = 0 /\ file = <<>>
  /\ pc # "created" => LogStarted
  /\ aborted => LinesOf(log) = UpTo(Len(LinesOf(log)))
  /\ ~aborted => LogWritten

\* In this state.
LEMMA LogInvParts == LogInv <=> LogParts
BY DEF LogInv, LogParts, LogStarted, LogWritten, Cat, FirstLines

\* And in the next.
LEMMA LogInvPartsNext == LogParts' => LogInv'
BY DEF LogInv, LogParts, LogStarted, LogWritten, Cat, FirstLines

\* Before start() there is no file.
LEMMA NoLogLines == LinesOf(NoLog) = <<>>
<1>1. [i \in DOMAIN <<>> |-> <<>>[i].lines] = <<>>
  OBVIOUS
<1>2. NoLog.files = <<>>
  BY DEF NoLog
<1> QED
  BY <1>1, <1>2, FlattenEmpty DEF LinesOf

\* The process starts without a log.
LEMMA LogInitInv == LogInit => LogInv
<1> SUFFICES ASSUME LogInit PROVE LogInv
  OBVIOUS
<1>1. /\ now = 1 /\ safe = 0 /\ done = 0 /\ pc = "created" /\ toWrite = <<>>
      /\ file = <<>> /\ log = NoLog /\ ~aborted
  BY DEF LogInit, Init
<1>2. AllFilled(<<>>)
  BY DEF AllFilled
<1>3. FirstLines(<<>>, 0) = <<>>
  BY <1>2, FirstLinesEnds
<1>4. Cat(<<>>, <<>>) = <<>>
  BY DEF Cat
<1>5. LogWritten
  BY <1>1, <1>3, <1>4, NoLogLines DEF LogWritten
<1>6. now \in Nat \ {0} /\ safe \in Nat /\ done \in 0 .. Len(toWrite)
  BY <1>1
<1> QED
  BY <1>1, <1>5, <1>6, LogInvParts DEF LogParts

\* A step that leaves the log alone, and buffersToWrite or what it has shown.
LEMMA LogKept ==
  ASSUME LogInv, now' \in Nat \ {0}, UNCHANGED <<log, safe, aborted, file>>,
         done' \in 0 .. Len(toWrite'), pc' # "write" => done' = 0,
         pc' = "created" <=> pc = "created",
         aborted \/ FirstLines(toWrite', done') = FirstLines(toWrite, done)
  PROVE  LogInv'
<1>1. LogParts
  BY LogInvParts
<1>2. pc' # "created" => LogStarted'
  BY <1>1 DEF LogParts, LogStarted
<1>3. ~aborted' => LogWritten'
  BY <1>1 DEF LogParts, LogWritten
<1>4. LogParts'
  BY <1>1, <1>2, <1>3 DEF LogParts
<1> QED
  BY <1>4, LogInvPartsNext

\* start(): the LogFile opens its first file.
LEMMA LogStartKeeps == ASSUME BufferInv, LogInv, LogStart PROVE LogInv'
<1>1. /\ pc = "created" /\ pc' = "test" /\ log' = NewLogFile(now)
      /\ UNCHANGED <<toWrite, file, now, done, safe, aborted>> /\ ~aborted
  BY DEF LogStart, Start
<1>2. /\ now \in Nat \ {0} /\ done = 0 /\ safe = 0 /\ file = <<>> /\ toWrite = <<>>
  BY <1>1, LogInvParts DEF LogParts, BufferInv, LinesInv
<1>3. /\ LogOK(log') /\ LinesOf(log') = <<>> /\ SafeLen(log') = 0
      /\ Last(log'.files).late = 0 /\ log'.count = 0
  BY <1>1, <1>2, NewLogOK
<1>4. LogStarted'
  BY <1>1, <1>2, <1>3 DEF LogStarted
<1>5. LogWritten'
  <2>1. AllFilled(<<>>)
    BY DEF AllFilled
  <2>2. FirstLines(<<>>, 0) = <<>> /\ Cat(<<>>, <<>>) = <<>>
    BY <2>1, FirstLinesEnds DEF Cat
  <2> QED
    BY <1>1, <1>2, <1>3, <2>2 DEF LogWritten
<1>6. now' \in Nat \ {0} /\ safe' \in Nat /\ done' \in 0 .. Len(toWrite')
  BY <1>1, <1>2
<1> QED
  BY <1>1, <1>2, <1>4, <1>5, <1>6, LogInvPartsNext DEF LogParts

\* One buffer is appended to the log.
LEMMA WriteBufferKeeps == ASSUME BufferInv, LogInv, WriteBuffer PROVE LogInv'
<1> DEFINE k == done
           b == toWrite[k + 1]
<1>1. /\ ~aborted /\ pc = "write" /\ k < Len(toWrite) /\ done' = k + 1
      /\ log' = appendInLock(log, Live(b), Cap, now)
      /\ UNCHANGED <<pc, toWrite, file, now, safe, aborted>>
  BY DEF WriteBuffer, vars, back
<1>2. /\ now \in Nat \ {0} /\ safe \in Nat /\ k \in 0 .. Len(toWrite) /\ LogStarted
      /\ LogWritten
  BY <1>1, LogInvParts DEF LogParts
<1>3. Len(toWrite) \in Nat /\ AllFilled(toWrite)
  BY AllClean, LenProperties DEF BufferInv, Inv, TypeOK, AllFilled, Clean
<1>4. k \in Nat /\ k <= Len(toWrite) /\ k + 1 <= Len(toWrite) /\ k + 1 \in 0 .. Len(toWrite)
  BY <1>1, <1>2, <1>3
<1> HIDE DEF k
<1>5. /\ FirstLines(toWrite, k) \in Seq(Nat) /\ Filled(b)
      /\ FirstLines(toWrite, k + 1) = Cat(FirstLines(toWrite, k), Live(b))
  BY <1>3, <1>4, FirstLinesNext
<1>6. Live(b) \in Seq(Nat)
  BY <1>5, CellsOf
<1>7. Cap \in Nat /\ now \in Nat
  BY <1>2, CapAssumption
<1> HIDE DEF b
<1>8. /\ LogOK(log') /\ LinesOf(log') = Cat(LinesOf(log), Live(b))
      /\ SafeLen(log') >= SafeLen(log) /\ Last(log'.files).late <= log'.count
  <2>1. PICK l : l = log
    OBVIOUS
  <2>2. PICK ls : ls = Live(b)
    OBVIOUS
  <2>3. PICK m : m = log'
    OBVIOUS
  <2>4. m = appendInLock(l, ls, Cap, now) /\ LogOK(l) /\ Last(l.files).late <= l.count
    BY <1>1, <1>2, <2>1, <2>2, <2>3 DEF LogStarted
  <2>5. ls \in Seq(Nat)
    BY <1>6, <2>2
  <2>6. /\ LogOK(m) /\ LinesOf(m) = Cat(LinesOf(l), ls)
        /\ SafeLen(m) >= SafeLen(l) /\ Last(m.files).late <= m.count
    BY <1>7, <2>4, <2>5, AppendOK
  <2> QED
    BY <2>1, <2>2, <2>3, <2>6
<1>9. LogStarted'
  <2>1. SafeLen(log) \in Nat /\ SafeLen(log') \in Nat
    BY <1>2, <1>8, LogHas DEF LogStarted
  <2>2. safe' <= SafeLen(log')
    BY <1>1, <1>2, <1>8, <2>1 DEF LogStarted
  <2> QED
    BY <1>8, <2>2 DEF LogStarted
<1>10. LogWritten'
  <2>1. file \in Seq(Nat)
    BY DEF BufferInv, LinesInv
  <2>2. Cat(Cat(file, FirstLines(toWrite, k)), Live(b)) =
        Cat(file, Cat(FirstLines(toWrite, k), Live(b)))
    BY <1>5, <1>6, <2>1, CatAssoc
  <2> QED
    BY <1>1, <1>2, <1>5, <1>8, <2>2 DEF LogWritten, k
<1> QED
  BY <1>1, <1>2, <1>4, <1>9, <1>10, LogInvPartsNext DEF LogParts

\* The last buffer has been appended: the log holds what AsyncLogging has written.
LEMMA EndWriteKeeps == ASSUME BufferInv, LogInv, EndWrite PROVE LogInv'
<1>1. /\ ~aborted /\ pc = "write" /\ pc' = "refill" /\ done = Len(toWrite) /\ done' = 0
      /\ file' = file \o LiveLines(toWrite)
      /\ UNCHANGED <<toWrite, now, log, safe, aborted>>
  BY DEF EndWrite, BackendWrite
<1>2. now \in Nat \ {0} /\ safe \in Nat /\ LogStarted /\ LogWritten
  BY <1>1, LogInvParts DEF LogParts
<1>3. Len(toWrite) \in Nat /\ AllFilled(toWrite)
  BY AllClean, LenProperties DEF BufferInv, Inv, TypeOK, AllFilled, Clean
<1>4. FirstLines(toWrite, done) = LiveLines(toWrite) /\ FirstLines(toWrite, 0) = <<>>
  BY <1>1, <1>3, FirstLinesEnds
<1>5. file \in Seq(Nat) /\ LiveLines(toWrite) \in Seq(Nat)
  BY LinesTyped DEF BufferInv
<1>6. LogWritten'
  <2>1. Cat(file, LiveLines(toWrite)) \in Seq(Nat)
    BY <1>5, CatType
  <2>2. Cat(Cat(file, LiveLines(toWrite)), <<>>) = Cat(file, LiveLines(toWrite))
    BY <2>1, CatType
  <2>3. file' = Cat(file, LiveLines(toWrite))
    BY <1>1 DEF Cat
  <2>4. FirstLines(toWrite', done') = <<>>
    BY <1>1, <1>4
  <2> QED
    BY <1>1, <1>2, <1>4, <2>2, <2>3, <2>4 DEF LogWritten
<1>7. LogStarted'
  BY <1>1, <1>2 DEF LogStarted
<1>8. done' \in 0 .. Len(toWrite')
  BY <1>1, <1>3
<1> QED
  BY <1>1, <1>2, <1>6, <1>7, <1>8, LogInvPartsNext DEF LogParts

\* The flush at the end of the round makes its lines safe.
LEMMA EndRoundKeeps == ASSUME BufferInv, LogInv, EndRound PROVE LogInv'
<1>1. /\ ~aborted /\ pc = "refill" /\ pc' = "test" /\ toWrite' = <<>>
      /\ log' = flush(log) /\ safe' = Len(file)
      /\ UNCHANGED <<file, now, done, aborted>>
  BY DEF EndRound, BackendRefill
<1>2. now \in Nat \ {0} /\ done = 0 /\ LogStarted /\ LogWritten
  BY <1>1, LogInvParts DEF LogParts
<1>3. AllFilled(toWrite) /\ AllFilled(<<>>)
  BY AllClean DEF BufferInv, Inv, TypeOK, AllFilled, Clean
<1>4. FirstLines(toWrite, 0) = <<>> /\ FirstLines(<<>>, 0) = <<>>
  BY <1>3, FirstLinesEnds
<1>5. file \in Seq(Nat) /\ Len(file) \in Nat
  BY LenProperties DEF BufferInv, LinesInv
<1>6. LinesOf(log) = file
  BY <1>2, <1>4, <1>5, CatType DEF LogWritten
<1>7. /\ LogOK(log') /\ LinesOf(log') = LinesOf(log) /\ SafeLen(log') = Len(LinesOf(log))
      /\ Last(log'.files).late = Last(log.files).late /\ log'.count = log.count
  BY <1>1, <1>2, FlushOK DEF LogStarted
<1>8. LogStarted'
  BY <1>1, <1>2, <1>5, <1>6, <1>7 DEF LogStarted
<1>9. LogWritten'
  BY <1>1, <1>2, <1>4, <1>5, <1>6, <1>7, CatType DEF LogWritten
<1>10. done' \in 0 .. Len(toWrite') /\ safe' \in Nat
  BY <1>1, <1>2, <1>5
<1> QED
  BY <1>1, <1>2, <1>8, <1>9, <1>10, LogInvPartsNext DEF LogParts

\* The next round begins, or the back end leaves.
LEMMA RoundBeginsKeeps == ASSUME BufferInv, BufferInv', LogInv, RoundBegins PROVE LogInv'
<1>1. /\ ~aborted /\ pc \in {"test", "lock", "waiting"}
      /\ pc' \in {"lock", "done", "waiting", "write"}
      /\ log' = (IF pc' = "done" THEN flush(log) ELSE log)
      /\ UNCHANGED <<file, now, done, safe, aborted>>
  BY DEF RoundBegins, BackendTest, BackendWait, BackendSwap, MaySwap
<1>2. now \in Nat \ {0} /\ safe \in Nat /\ done = 0 /\ LogStarted /\ LogWritten
  BY <1>1, LogInvParts DEF LogParts
<1>3. AllFilled(toWrite)
  BY AllClean DEF BufferInv, Inv, TypeOK, AllFilled, Clean
<1>4. toWrite' \in Seq(BufferType)
  BY DEF BufferInv, Inv, TypeOK
<1>5. FirstLines(toWrite, 0) = <<>>
  BY <1>3, FirstLinesEnds
<1>6. FirstLines(toWrite', 0) = <<>>
  <2>1. SubSeq(toWrite', 1, 0) = <<>>
    BY SubSeqEmpty
  <2> QED
    BY <2>1, NoLiveLines DEF FirstLines
<1>7. done' \in 0 .. Len(toWrite')
  BY <1>1, <1>2, <1>4, LenProperties
<1>8. CASE pc' = "done"
  <2>1. /\ LogOK(log') /\ LinesOf(log') = LinesOf(log) /\ SafeLen(log') = Len(LinesOf(log))
        /\ Last(log'.files).late = Last(log.files).late /\ log'.count = log.count
    BY <1>1, <1>2, <1>8, FlushOK DEF LogStarted
  <2>2. SafeLen(log) <= Len(LinesOf(log)) /\ SafeLen(log) \in Nat /\ Len(LinesOf(log)) \in Nat
    BY <1>2, LogHas, LenProperties DEF LogStarted
  <2>3. safe' <= SafeLen(log')
    BY <1>1, <1>2, <2>1, <2>2 DEF LogStarted
  <2>4. LogStarted'
    BY <1>2, <2>1, <2>3 DEF LogStarted
  <2>5. LogWritten'
    BY <1>1, <1>2, <1>5, <1>6, <2>1 DEF LogWritten
  <2> QED
    BY <1>1, <1>2, <1>7, <2>4, <2>5, LogInvPartsNext DEF LogParts
<1>9. CASE pc' # "done"
  <2>1. log' = log
    BY <1>1, <1>9
  <2>2. LogStarted' /\ LogWritten'
    BY <1>1, <1>2, <1>5, <1>6, <2>1 DEF LogStarted, LogWritten
  <2> QED
    BY <1>1, <1>2, <1>7, <2>2, LogInvPartsNext DEF LogParts
<1> QED
  BY <1>8, <1>9

\* append(), stop() and the clock leave the log alone.
LEMMA OthersKeep ==
  ASSUME BufferInv, LogInv, FrontEnd \/ ClockMoves \/ UNCHANGED logVars PROVE LogInv'
<1>1. UNCHANGED <<log, safe, aborted, file, toWrite, done, pc>>
  BY DEF FrontEnd, AppendLine, Stop, ClockMoves, logVars, vars, back
<1>2. LogParts
  BY LogInvParts
<1>3. now' \in Nat \ {0}
  <2>1. CASE ClockMoves
    <3>1. now' \in 1 .. MaxTime
      BY <2>1 DEF ClockMoves
    <3> QED
      BY <3>1
  <2>2. CASE FrontEnd \/ UNCHANGED logVars
    BY <1>2, <2>2 DEF LogParts, FrontEnd, logVars
  <2> QED
    BY <2>1, <2>2
<1>4. done' \in 0 .. Len(toWrite') /\ (pc' # "write" => done' = 0)
  BY <1>1, <1>2 DEF LogParts
<1>5. FirstLines(toWrite', done') = FirstLines(toWrite, done)
  BY <1>1
<1> QED
  BY <1>1, <1>3, <1>4, <1>5, LogKept

\* An abort loses unflushed lines of the last file only.
LEMMA AbortKeeps == ASSUME BufferInv, LogInv, Abort PROVE LogInv'
<1>1. ~aborted /\ aborted' = TRUE /\ UNCHANGED <<pc, toWrite, file, now, done, safe>>
  BY DEF Abort, vars, back
<1>2. LogParts
  BY LogInvParts
<1>3. /\ LinesOf(log) \in Seq(Nat) /\ LinesOf(log) = UpTo(Len(LinesOf(log)))
  <2>1. done \in 0 .. Len(toWrite) /\ (pc # "write" => done = 0) /\ LogWritten
    BY <1>1, <1>2 DEF LogParts
  <2>2. Len(toWrite) \in Nat
    BY LenProperties DEF BufferInv, Inv, TypeOK
  <2>3. done \in Nat /\ done <= Len(toWrite)
    BY <2>1, <2>2
  <2> QED
    BY <2>1, <2>3, WrittenInOrder DEF BufferInv, LogWritten
<1>4. CASE log.files = <<>>
  <2>1. log' = log
    BY <1>4 DEF Abort
  <2>2. pc # "created" => LogStarted'
    BY <1>1, <1>2, <2>1 DEF LogParts, LogStarted
  <2> QED
    BY <1>1, <1>2, <1>3, <2>1, <2>2, LogInvPartsNext DEF LogParts
<1>5. CASE log.files # <<>>
  <2> DEFINE fs == log.files
             f == Last(fs)
  <2>1. LogStarted /\ pc # "created"
    BY <1>2, <1>5 DEF LogParts, NoLog
  <2>2. /\ log \in LogType /\ fs \in Seq(FileType) /\ f \in FileType /\ LogOK(log)
        /\ Len(f.lines) \in Nat
    BY <2>1, LogHas DEF LogStarted
  <2>3. PICK n \in f.safe .. Len(f.lines) :
          log' = [log EXCEPT !.files[Len(log.files)].lines = SubSeq(@, 1, n)]
    BY <1>5 DEF Abort
  <2>4. f.safe \in Nat /\ f.lines \in Seq(Nat) /\ f.late \in Nat
    BY <2>2 DEF FileType
  <2>5. n \in Nat /\ f.safe <= n /\ n <= Len(f.lines)
    BY <2>2, <2>3, <2>4
  <2> DEFINE x == SubSeq(f.lines, 1, n)
             y == SubSeq(f.lines, n + 1, Len(f.lines))
             g == [f EXCEPT !.lines = x]
             hs == [fs EXCEPT ![Len(fs)] = g]
  <2>6. x \in Seq(Nat) /\ Len(x) = n
    <3> HIDE DEF f
    <3>1. \A i \in 1 .. n : f.lines[i] \in Nat
      <4>1. \A i \in 1 .. n : i \in 1 .. Len(f.lines)
        BY <2>2, <2>5
      <4> QED
        BY <2>4, <4>1, ElementOfSeq
    <3>2. x = [i \in 1 .. n |-> f.lines[i]]
      BY <2>2, <2>4, <2>5
    <3>3. [i \in 1 .. n |-> f.lines[i]] \in Seq(Nat)
      BY <2>5, <3>1, IsASeq
    <3> QED
      BY <2>5, <3>2, <3>3, LenProperties
  <2>7. y \in Seq(Nat) /\ f.lines = Cat(x, y)
    <3> DEFINE d == f.lines
               m == Len(d)
    <3>1. d \in Seq(Nat) /\ m \in Nat /\ n \in Nat /\ n <= m
      BY <2>2, <2>4, <2>5
    <3>2. x = SubSeq(d, 1, n) /\ y = SubSeq(d, n + 1, m)
      OBVIOUS
    <3> HIDE DEF d, x, y
    <3>3. y \in Seq(Nat) /\ Len(y) = m - n /\ \A i \in 1 .. m - n : y[i] = d[i + n]
      <4>1. y = [i \in 1 .. m - n |-> d[i + n]]
        BY <3>1, <3>2
      <4>2. \A i \in 1 .. m - n : i + n \in 1 .. m
        BY <3>1
      <4>3. \A i \in 1 .. m : d[i] \in Nat
        BY <3>1, ElementOfSeq
      <4>4. m - n \in Nat
        BY <3>1
      <4> HIDE DEF m
      <4>5. [i \in 1 .. m - n |-> d[i + n]] \in Seq(Nat)
        BY <4>2, <4>3, <4>4, IsASeq
      <4>6. Len([i \in 1 .. m - n |-> d[i + n]]) = m - n
        BY <4>4, <4>5, LenProperties
      <4> QED
        BY <4>1, <4>5, <4>6
    <3>4. \A i \in 1 .. n : x[i] = d[i]
      BY <3>1, <3>2
    <3>5. /\ x \o y \in Seq(Nat) /\ Len(x \o y) = n + (m - n)
          /\ \A i \in 1 .. n + (m - n) : (x \o y)[i] = IF i <= n THEN x[i] ELSE y[i - n]
      <4>1. /\ x \o y \in Seq(Nat) /\ Len(x \o y) = Len(x) + Len(y)
            /\ \A i \in 1 .. Len(x) + Len(y) :
                 (x \o y)[i] = IF i <= Len(x) THEN x[i] ELSE y[i - Len(x)]
        <5>1. x \in Seq(Nat) /\ y \in Seq(Nat)
          BY <2>6, <3>3
        <5> QED
          BY <5>1, ConcatProperties
      <4> HIDE DEF m
      <4> QED
        BY <2>6, <3>3, <4>1
    <3>6. n + (m - n) = m
      BY <3>1
    <3>7. \A i \in 1 .. m : (x \o y)[i] = d[i]
      <4> SUFFICES ASSUME NEW i \in 1 .. m PROVE (x \o y)[i] = d[i]
        OBVIOUS
      <4>1. CASE i <= n
        <5>1. i \in 1 .. n
          BY <3>1, <4>1
        <5> QED
          BY <3>4, <3>5, <3>6, <4>1, <5>1
      <4>2. CASE ~(i <= n)
        <5>1. i - n \in 1 .. m - n /\ (i - n) + n = i
          BY <3>1, <4>2
        <5> QED
          BY <3>3, <3>5, <3>6, <4>2, <5>1
      <4> QED
        BY <4>1, <4>2
    <3>8. x \o y = d
      BY <3>1, <3>5, <3>6, <3>7, SeqEqual
    <3> QED
      BY <3>3, <3>8 DEF Cat, d
  <2> HIDE DEF x, y
  <2>8. /\ g \in FileType /\ g.name = f.name /\ g.lines = x /\ g.safe = f.safe
        /\ g.late = f.late
    <3> HIDE DEF f
    <3> QED
      BY <2>2, <2>6 DEF FileType
  <2>9. log' = [log EXCEPT !.files = hs]
    <3>1. fs[Len(fs)] = f
      BY DEF Last
    <3>2. log' = [log EXCEPT !.files = [fs EXCEPT ![Len(fs)] =
                   [fs[Len(fs)] EXCEPT !.lines = SubSeq(fs[Len(fs)].lines, 1, n)]]]
      BY <2>2, <2>3 DEF LogType
    <3> QED
      BY <3>1, <3>2 DEF x
  <2>10. /\ hs \in Seq(FileType) /\ hs # <<>> /\ Last(hs) = g
         /\ OldLines(hs) = OldLines(fs) /\ FilesOK(hs)
    <3>1. FilesOK(fs)
      BY <2>2 DEF LogOK
    <3>2. g.safe <= Len(g.lines)
      BY <2>5, <2>6, <2>8
    <3>3. fs # <<>>
      BY <1>5
    <3> HIDE DEF g, fs
    <3>4. /\ hs \in Seq(FileType) /\ hs # <<>> /\ Last(hs) = g
          /\ OldLines(hs) = OldLines(fs)
          /\ g.safe <= Len(g.lines) => FilesOK(hs)
      BY <2>2, <2>8, <3>3, ReplaceLast
    <3> QED
      BY <3>1, <3>2, <3>3, <3>4
  <2> HIDE DEF hs, g
  <2>11. /\ log' \in LogType /\ log'.files = hs /\ log'.count = log.count
         /\ log'.lastRoll = log.lastRoll /\ log'.startOfPeriod = log.startOfPeriod
    BY <2>2, <2>9, <2>10 DEF LogType
  <2>12. LogOK(log')
    BY <2>2, <2>8, <2>10, <2>11 DEF LogOK
  <2>13. SafeLen(log') = SafeLen(log)
    BY <2>8, <2>10, <2>11 DEF SafeLen
  <2>14. LogStarted'
    BY <1>1, <2>1, <2>8, <2>10, <2>11, <2>12, <2>13 DEF LogStarted
  <2>15. LinesOf(log) = Cat(LinesOf(log'), y)
    <3> DEFINE o == OldLines(fs)
    <3>1. o \in Seq(Nat) /\ AllLines(fs) = Cat(o, f.lines)
      BY <1>5, <2>2, LinesSplit
    <3>2. AllLines(hs) = Cat(o, x)
      BY <2>8, <2>10, LinesSplit
    <3> HIDE DEF o
    <3>3. Cat(Cat(o, x), y) = Cat(o, Cat(x, y))
      BY <2>6, <2>7, <3>1, CatAssoc
    <3>4. LinesOf(log') = AllLines(hs) /\ LinesOf(log) = AllLines(fs)
      BY <2>2, <2>11, <2>12, LogHas
    <3> QED
      BY <2>7, <3>1, <3>2, <3>3, <3>4
  <2>16. LinesOf(log') = UpTo(Len(LinesOf(log')))
    <3>1. LinesOf(log') \in Seq(Nat)
      BY <2>12, LogHas
    <3>2. Len(LinesOf(log)) \in Nat
      BY <1>3, LenProperties
    <3>3. UpTo(Len(LinesOf(log))) = Cat(LinesOf(log'), y)
      BY <1>3, <2>15
    <3> QED
      BY <2>7, <3>1, <3>2, <3>3, UpToPrefix
  <2> QED
    BY <1>1, <1>2, <2>1, <2>14, <2>16, LogInvPartsNext DEF LogParts
<1> QED
  BY <1>4, <1>5

\* Every step keeps the log's invariant.
LEMMA LogNextInv == BufferInv /\ BufferInv' /\ LogInv /\ [LogNext]_logVars => LogInv'
BY LogStartKeeps, WriteBufferKeeps, EndWriteKeeps, EndRoundKeeps, RoundBeginsKeeps,
   OthersKeep, AbortKeeps DEF LogNext, LogBackend

\* One more sequence is flattened behind the others.
LEMMA FlattenStep ==
  ASSUME NEW T, NEW s, NEW k \in Nat, \A i \in 1 .. k + 1 : s[i] \in Seq(T)
  PROVE  /\ FlattenSeq([i \in 1 .. k |-> s[i]]) \in Seq(T)
         /\ FlattenSeq([i \in 1 .. k + 1 |-> s[i]])
              = FlattenSeq([i \in 1 .. k |-> s[i]]) \o s[k + 1]
<1> DEFINE o == [i \in 1 .. k |-> s[i]]
           a == [i \in 1 .. k + 1 |-> s[i]]
           x == s[k + 1]
<1>1. x \in Seq(T) /\ \A i \in 1 .. k : i \in 1 .. k + 1 /\ s[i] \in Seq(T)
  OBVIOUS
<1>2. o \in Seq(Seq(T)) /\ Len(o) = k
  <2>1. o \in Seq(Seq(T))
    BY <1>1, IsASeq
  <2> QED
    BY <2>1, LenProperties
<1>3. a \in Seq(Seq(T)) /\ Len(a) = k + 1
  <2>1. a \in Seq(Seq(T))
    BY IsASeq
  <2> QED
    BY <2>1, LenProperties
<1>4. (\A i \in 1 .. k : o[i] = a[i]) /\ a[k + 1] = x
  BY <1>1
<1> HIDE DEF o, a, x
<1>5. /\ Append(o, x) \in Seq(Seq(T)) /\ Len(Append(o, x)) = k + 1
      /\ \A i \in 1 .. k : Append(o, x)[i] = o[i]
      /\ Append(o, x)[k + 1] = x
  BY <1>1, <1>2, AppendProperties
<1>6. a = Append(o, x)
  <2>1. \A i \in 1 .. k + 1 : i \in 1 .. k \/ i = k + 1
    OBVIOUS
  <2>2. \A i \in 1 .. k + 1 : a[i] = Append(o, x)[i]
    BY <1>4, <1>5, <2>1
  <2> QED
    BY <1>3, <1>5, <2>2, SeqEqual
<1>7. FlattenSeq(o) \in Seq(T) /\ FlattenSeq(Append(o, x)) = FlattenSeq(o) \o x
  BY <1>1, <1>2, FlattenType, FlattenAppend
<1> QED
  BY <1>6, <1>7 DEF o, a, x

\* The numbers from n + 1 on, behind smaller ones.
LEMMA SortedNext ==
  ASSUME NEW d \in Seq(Nat), NEW e \in Seq(Nat), NEW n \in Nat, Sorted(d),
         Range(d) \subseteq 1 .. n, \A i \in 1 .. Len(e) : e[i] = n + i
  PROVE  /\ d \o e \in Seq(Nat) /\ Sorted(d \o e)
         /\ Range(d \o e) = Range(d) \union (n + 1 .. n + Len(e))
<1>1. Len(d) \in Nat /\ Len(e) \in Nat /\ DOMAIN d = 1 .. Len(d) /\ DOMAIN e = 1 .. Len(e)
  BY LenProperties
<1>2. /\ d \o e \in Seq(Nat) /\ Len(d \o e) = Len(d) + Len(e)
      /\ \A i \in 1 .. Len(d) + Len(e) :
           (d \o e)[i] = IF i <= Len(d) THEN d[i] ELSE e[i - Len(d)]
  BY ConcatProperties
<1>3. Range(e) = n + 1 .. n + Len(e)
  <2>1. \A v \in Range(e) : v \in n + 1 .. n + Len(e)
    BY <1>1 DEF Range
  <2>2. ASSUME NEW v \in n + 1 .. n + Len(e) PROVE v \in Range(e)
    <3>1. v - n \in 1 .. Len(e) /\ n + (v - n) = v
      BY <1>1
    <3> QED
      BY <1>1, <3>1 DEF Range
  <2> QED
    BY <2>1, <2>2
<1>4. Range(d \o e) = Range(d) \union Range(e)
  BY RangeConcatenation
<1>5. \A i \in 1 .. Len(d) : d[i] \in 1 .. n
  BY <1>1 DEF Range
<1>6. Sorted(d \o e)
  <2> SUFFICES ASSUME NEW i \in 1 .. Len(d) + Len(e), NEW j \in 1 .. Len(d) + Len(e), i < j
               PROVE  (d \o e)[i] < (d \o e)[j]
    BY <1>2 DEF Sorted
  <2>1. CASE j <= Len(d)
    <3>1. i \in 1 .. Len(d) /\ j \in 1 .. Len(d) /\ i <= Len(d)
      BY <1>1, <2>1
    <3> QED
      BY <1>2, <2>1, <3>1 DEF Sorted
  <2>2. CASE ~(j <= Len(d))
    <3>1. j - Len(d) \in 1 .. Len(e) /\ (d \o e)[j] = n + (j - Len(d))
      BY <1>1, <1>2, <2>2
    <3>2. CASE i <= Len(d)
      <4>1. i \in 1 .. Len(d)
        BY <1>1, <3>2
      <4>2. (d \o e)[i] = d[i] /\ d[i] \in 1 .. n
        BY <1>2, <1>5, <3>2, <4>1
      <4> QED
        BY <1>1, <3>1, <4>2
    <3>3. CASE ~(i <= Len(d))
      <4>1. i - Len(d) \in 1 .. Len(e) /\ (d \o e)[i] = n + (i - Len(d))
        BY <1>1, <1>2, <3>3
      <4> QED
        BY <1>1, <3>1, <4>1
    <3> QED
      BY <3>2, <3>3
  <2> QED
    BY <2>1, <2>2
<1> QED
  BY <1>2, <1>3, <1>4, <1>6

\* The file x after the streams up to k, and all of them.
DiskUpTo(fs, k, x) == FlattenSeq([i \in 1 .. k |-> Through(fs[i], x)])
AllUpTo(fs, k) == FlattenSeq([i \in 1 .. k |-> fs[i].lines])

\* They have the lines up to n, each once and in order.
DiskOK(fs, k, n) ==
  /\ n \in Nat
  /\ \A x : /\ DiskUpTo(fs, k, x) \in Seq(Nat) /\ Sorted(DiskUpTo(fs, k, x))
            /\ Range(DiskUpTo(fs, k, x)) \subseteq 1 .. n
  /\ \A x, y : x # y => Range(DiskUpTo(fs, k, x)) \intersect Range(DiskUpTo(fs, k, y)) = {}
  /\ \A l \in 1 .. n : \E i \in 1 .. k : l \in Range(DiskUpTo(fs, k, fs[i].name))

\* One more stream.
LEMMA DiskStep ==
  ASSUME NEW fs, NEW k \in Nat, \A i \in 1 .. k + 1 : fs[i].lines \in Seq(Nat),
         NEW n, DiskOK(fs, k, n), \A i \in 1 .. Len(fs[k + 1].lines) : fs[k + 1].lines[i] = n + i
  PROVE  DiskOK(fs, k + 1, n + Len(fs[k + 1].lines))
<1> DEFINE ls == fs[k + 1].lines
           z == fs[k + 1].name
           m == n + Len(ls)
<1>1. ls \in Seq(Nat) /\ Len(ls) \in Nat /\ n \in Nat /\ k + 1 \in 1 .. k + 1
  BY LenProperties DEF DiskOK
<1>2. ASSUME NEW x PROVE DiskUpTo(fs, k + 1, x) = DiskUpTo(fs, k, x) \o Through(fs[k + 1], x)
  <2> DEFINE s == [i \in 1 .. k + 1 |-> Through(fs[i], x)]
  <2>1. \A i \in 1 .. k + 1 : s[i] \in Seq(Nat)
    BY DEF Through
  <2>2. \A i \in 1 .. k : i \in 1 .. k + 1
    OBVIOUS
  <2>3. [i \in 1 .. k |-> s[i]] = [i \in 1 .. k |-> Through(fs[i], x)]
    BY <2>2
  <2>4. [i \in 1 .. k + 1 |-> s[i]] = s /\ s[k + 1] = Through(fs[k + 1], x)
    BY <1>1
  <2> HIDE DEF s
  <2>5. FlattenSeq([i \in 1 .. k + 1 |-> s[i]]) = FlattenSeq([i \in 1 .. k |-> s[i]]) \o s[k + 1]
    BY <2>1, FlattenStep
  <2> QED
    BY <2>3, <2>4, <2>5 DEF DiskUpTo, s
<1>3. /\ DiskUpTo(fs, k + 1, z) \in Seq(Nat) /\ Sorted(DiskUpTo(fs, k + 1, z))
      /\ Range(DiskUpTo(fs, k + 1, z)) = Range(DiskUpTo(fs, k, z)) \union (n + 1 .. m)
  <2>1. DiskUpTo(fs, k + 1, z) = DiskUpTo(fs, k, z) \o ls
    BY <1>2 DEF Through
  <2> PICK d : d = DiskUpTo(fs, k, z)
    OBVIOUS
  <2>2. d \in Seq(Nat) /\ Sorted(d) /\ Range(d) \subseteq 1 .. n
    BY DEF DiskOK
  <2>3. \A i \in 1 .. Len(ls) : ls[i] = n + i
    OBVIOUS
  <2> HIDE DEF z, ls, m
  <2>4. /\ d \o ls \in Seq(Nat) /\ Sorted(d \o ls)
        /\ Range(d \o ls) = Range(d) \union (n + 1 .. n + Len(ls))
    BY <1>1, <2>2, <2>3, SortedNext
  <2> QED
    BY <2>1, <2>4 DEF m
<1>4. ASSUME NEW x, x # z PROVE DiskUpTo(fs, k + 1, x) = DiskUpTo(fs, k, x)
  <2>1. DiskUpTo(fs, k + 1, x) = DiskUpTo(fs, k, x) \o <<>>
    BY <1>2, <1>4 DEF Through
  <2>2. DiskUpTo(fs, k, x) \in Seq(Nat)
    BY DEF DiskOK
  <2> QED
    BY <2>1, <2>2, ConcatEmptySeq
<1> HIDE DEF z, ls, m
<1>5. m \in Nat /\ n <= m /\ m = n + Len(ls)
  BY <1>1 DEF m
<1>6. 1 .. n \subseteq 1 .. m /\ (n + 1 .. m) \subseteq 1 .. m /\ (n + 1 .. m) \intersect (1 .. n) = {}
      /\ \A l \in 1 .. m : l \in 1 .. n \/ l \in n + 1 .. m
  BY <1>1, <1>5
<1>7. ASSUME NEW x
      PROVE  /\ DiskUpTo(fs, k + 1, x) \in Seq(Nat) /\ Sorted(DiskUpTo(fs, k + 1, x))
             /\ Range(DiskUpTo(fs, k + 1, x)) \subseteq 1 .. m
             /\ Range(DiskUpTo(fs, k, x)) \subseteq Range(DiskUpTo(fs, k + 1, x))
  <2>1. Range(DiskUpTo(fs, k, x)) \subseteq 1 .. n
    BY DEF DiskOK
  <2>2. CASE x = z
    BY <1>3, <1>6, <2>1, <2>2
  <2>3. CASE x # z
    <3>1. DiskUpTo(fs, k, x) \in Seq(Nat) /\ Sorted(DiskUpTo(fs, k, x))
      BY DEF DiskOK
    <3> QED
      BY <1>4, <1>6, <2>1, <2>3, <3>1
  <2> QED
    BY <2>2, <2>3
<1>8. ASSUME NEW x, NEW y, x # y
      PROVE  Range(DiskUpTo(fs, k + 1, x)) \intersect Range(DiskUpTo(fs, k + 1, y)) = {}
  <2>1. /\ Range(DiskUpTo(fs, k, x)) \subseteq 1 .. n /\ Range(DiskUpTo(fs, k, y)) \subseteq 1 .. n
        /\ Range(DiskUpTo(fs, k, x)) \intersect Range(DiskUpTo(fs, k, y)) = {}
    BY <1>8 DEF DiskOK
  <2>2. CASE x = z
    BY <1>3, <1>4, <1>6, <1>8, <2>1, <2>2
  <2>3. CASE y = z
    BY <1>3, <1>4, <1>6, <1>8, <2>1, <2>3
  <2>4. CASE x # z /\ y # z
    BY <1>4, <2>1, <2>4
  <2> QED
    BY <2>2, <2>3, <2>4
<1>9. ASSUME NEW l \in 1 .. m
      PROVE  \E i \in 1 .. k + 1 : l \in Range(DiskUpTo(fs, k + 1, fs[i].name))
  <2>1. CASE l \in n + 1 .. m
    BY <1>1, <1>3, <2>1 DEF z
  <2>2. CASE l \in 1 .. n
    <3>1. PICK i \in 1 .. k : l \in Range(DiskUpTo(fs, k, fs[i].name))
      BY <2>2 DEF DiskOK
    <3>2. i \in 1 .. k + 1
      OBVIOUS
    <3> QED
      BY <1>7, <3>1, <3>2
  <2> QED
    BY <1>6, <2>1, <2>2
<1>10. DiskOK(fs, k + 1, m)
  BY <1>5, <1>7, <1>8, <1>9 DEF DiskOK
<1> QED
  BY <1>10 DEF m, ls

\* Streams that hold the numbers up to some number, one after the other, make files
\* that hold each of them once and in order.
LEMMA FilesFromStreams ==
  ASSUME log.files \in Seq(FileType), LinesOf(log) = UpTo(Len(LinesOf(log))),
         safe <= Len(LinesOf(log))
  PROVE  LogOnDisk
<1> PICK fs : fs = log.files
  OBVIOUS
<1> PICK n : n = Len(fs)
  OBVIOUS
<1>1. n \in Nat /\ DOMAIN fs = 1 .. n /\ \A i \in 1 .. n : fs[i].lines \in Seq(Nat)
  <2>1. n \in Nat /\ DOMAIN fs = 1 .. n /\ \A i \in 1 .. n : fs[i] \in FileType
    BY LenProperties, ElementOfSeq
  <2> QED
    BY <2>1 DEF FileType
<1>2. LinesOf(log) = AllUpTo(fs, n) /\ \A x : FileOnDisk(log, x) = DiskUpTo(fs, n, x)
  BY <1>1 DEF LinesOf, AllUpTo, FileOnDisk, DiskUpTo
<1>3. ASSUME NEW k \in Nat, k + 1 <= n
      PROVE  /\ AllUpTo(fs, k) \in Seq(Nat) /\ fs[k + 1].lines \in Seq(Nat)
             /\ AllUpTo(fs, k + 1) = Cat(AllUpTo(fs, k), fs[k + 1].lines)
  <2> DEFINE s == [i \in 1 .. k + 1 |-> fs[i].lines]
  <2>1. \A i \in 1 .. k + 1 : i \in 1 .. n
    BY <1>1, <1>3
  <2>2. \A i \in 1 .. k + 1 : s[i] \in Seq(Nat)
    BY <1>1, <2>1
  <2>3. \A i \in 1 .. k : i \in 1 .. k + 1
    OBVIOUS
  <2>4. [i \in 1 .. k |-> s[i]] = [i \in 1 .. k |-> fs[i].lines]
    BY <2>3
  <2>5. [i \in 1 .. k + 1 |-> s[i]] = s /\ s[k + 1] = fs[k + 1].lines /\ k + 1 \in 1 .. k + 1
    OBVIOUS
  <2> HIDE DEF s
  <2>6. /\ FlattenSeq([i \in 1 .. k |-> s[i]]) \in Seq(Nat)
        /\ FlattenSeq([i \in 1 .. k + 1 |-> s[i]]) = FlattenSeq([i \in 1 .. k |-> s[i]]) \o s[k + 1]
    BY <2>2, FlattenStep
  <2> QED
    BY <2>2, <2>4, <2>5, <2>6 DEF AllUpTo, Cat, s
<1>4. \A k \in 0 .. n : AllUpTo(fs, k) = UpTo(Len(AllUpTo(fs, k)))
  <2> DEFINE S == {j \in Nat : j <= n => AllUpTo(fs, n - j) = UpTo(Len(AllUpTo(fs, n - j)))}
  <2>1. 0 \in S
    <3>1. n - 0 = n
      BY <1>1
    <3> QED
      BY <1>2, <3>1
  <2>2. ASSUME NEW j \in Nat, j \in S PROVE j + 1 \in S
    <3> SUFFICES ASSUME j + 1 <= n
                 PROVE  AllUpTo(fs, n - (j + 1)) = UpTo(Len(AllUpTo(fs, n - (j + 1))))
      OBVIOUS
    <3> PICK k : k = n - (j + 1)
      OBVIOUS
    <3>1. k \in Nat /\ k + 1 <= n /\ n - j = k + 1 /\ j <= n
      BY <1>1
    <3>2. AllUpTo(fs, k + 1) = UpTo(Len(AllUpTo(fs, k + 1)))
      BY <2>2, <3>1
    <3>3. /\ AllUpTo(fs, k) \in Seq(Nat) /\ fs[k + 1].lines \in Seq(Nat)
          /\ AllUpTo(fs, k + 1) = Cat(AllUpTo(fs, k), fs[k + 1].lines)
      BY <1>3, <3>1
    <3>4. Len(AllUpTo(fs, k + 1)) \in Nat
      <4>1. Cat(AllUpTo(fs, k), fs[k + 1].lines) \in Seq(Nat)
        BY <3>3, ConcatProperties DEF Cat
      <4> QED
        BY <3>3, <4>1, LenProperties
    <3> QED
      BY <3>2, <3>3, <3>4, UpToPrefix
  <2> HIDE DEF S
  <2>3. Nat \subseteq S
    BY <2>1, <2>2, SetInduction
  <2>4. ASSUME NEW k \in 0 .. n PROVE AllUpTo(fs, k) = UpTo(Len(AllUpTo(fs, k)))
    <3>1. n - k \in Nat /\ n - k <= n /\ n - (n - k) = k
      BY <1>1
    <3> QED
      BY <2>3, <3>1 DEF S
  <2> QED
    BY <2>4
<1>5. \A k \in 0 .. n : DiskOK(fs, k, Len(AllUpTo(fs, k)))
  <2> DEFINE S == {k \in Nat : k <= n => DiskOK(fs, k, Len(AllUpTo(fs, k)))}
  <2>1. 0 \in S
    <3>1. AllUpTo(fs, 0) = <<>> /\ \A x : DiskUpTo(fs, 0, x) = <<>>
      <4>1. [i \in 1 .. 0 |-> fs[i].lines] = <<>> /\ \A x : [i \in 1 .. 0 |-> Through(fs[i], x)] = <<>>
        OBVIOUS
      <4> QED
        BY <4>1, FlattenEmpty DEF AllUpTo, DiskUpTo
    <3>2. Len(<<>>) = 0 /\ <<>> \in Seq(Nat) /\ Range(<<>>) = {} /\ Sorted(<<>>)
      BY DEF Range, Sorted
    <3>3. DiskOK(fs, 0, 0)
      <4>1. 1 .. 0 = {}
        OBVIOUS
      <4>2. \A x : /\ DiskUpTo(fs, 0, x) \in Seq(Nat) /\ Sorted(DiskUpTo(fs, 0, x))
                  /\ Range(DiskUpTo(fs, 0, x)) \subseteq 1 .. 0
        BY <3>1, <3>2
      <4>3. \A x, y : x # y => Range(DiskUpTo(fs, 0, x)) \intersect Range(DiskUpTo(fs, 0, y)) = {}
        BY <3>1, <3>2
      <4> QED
        BY <4>1, <4>2, <4>3 DEF DiskOK
    <3> QED
      BY <3>1, <3>2, <3>3
  <2>2. ASSUME NEW k \in Nat, k \in S PROVE k + 1 \in S
    <3> SUFFICES ASSUME k + 1 <= n PROVE DiskOK(fs, k + 1, Len(AllUpTo(fs, k + 1)))
      OBVIOUS
    <3> PICK a : a = AllUpTo(fs, k)
      OBVIOUS
    <3> PICK ls : ls = fs[k + 1].lines
      OBVIOUS
    <3>1. k <= n /\ k \in 0 .. n /\ k + 1 \in 0 .. n
      BY <1>1
    <3>2. a \in Seq(Nat) /\ ls \in Seq(Nat) /\ AllUpTo(fs, k + 1) = Cat(a, ls)
      BY <1>3
    <3>3. Len(a) \in Nat /\ Len(ls) \in Nat
      BY <3>2, LenProperties
    <3>4. /\ Len(Cat(a, ls)) = Len(a) + Len(ls)
          /\ \A i \in 1 .. Len(a) + Len(ls) :
               Cat(a, ls)[i] = IF i <= Len(a) THEN a[i] ELSE ls[i - Len(a)]
      <4>1. Len(a \o ls) = Len(a) + Len(ls)
        BY <3>2, ConcatProperties
      <4>2. ASSUME NEW i \in 1 .. Len(a) + Len(ls)
            PROVE  (a \o ls)[i] = IF i <= Len(a) THEN a[i] ELSE ls[i - Len(a)]
        BY <3>2, <3>3, ConcatProperties
      <4> QED
        BY <4>1, <4>2 DEF Cat
    <3>5. Cat(a, ls) = UpTo(Len(a) + Len(ls))
      BY <1>4, <3>1, <3>2, <3>4
    <3>6. ASSUME NEW i \in 1 .. Len(ls) PROVE ls[i] = Len(a) + i
      <4>1. Len(a) + i \in 1 .. Len(a) + Len(ls) /\ ~(Len(a) + i <= Len(a)) /\ (Len(a) + i) - Len(a) = i
        BY <3>3
      <4>2. Cat(a, ls)[Len(a) + i] = ls[i]
        BY <3>4, <4>1
      <4>3. UpTo(Len(a) + Len(ls))[Len(a) + i] = Len(a) + i
        BY <4>1 DEF UpTo
      <4> QED
        BY <3>5, <4>2, <4>3
    <3>7. DiskOK(fs, k, Len(a))
      BY <2>2, <3>1
    <3>8. \A i \in 1 .. k + 1 : fs[i].lines \in Seq(Nat)
      BY <1>1
    <3>9. DiskOK(fs, k + 1, Len(a) + Len(ls))
      BY <3>6, <3>7, <3>8, DiskStep
    <3> QED
      BY <3>2, <3>4, <3>9
  <2> HIDE DEF S
  <2>3. Nat \subseteq S
    BY <2>1, <2>2, SetInduction
  <2>4. ASSUME NEW k \in 0 .. n PROVE DiskOK(fs, k, Len(AllUpTo(fs, k)))
    <3>1. k \in Nat /\ k <= n
      BY <1>1
    <3> QED
      BY <2>3, <3>1 DEF S
  <2> QED
    BY <2>4
<1>6. DiskOK(fs, n, Len(LinesOf(log)))
  BY <1>1, <1>2, <1>5
<1> PICK m : m = Len(LinesOf(log))
  OBVIOUS
<1>7. NamesOf(log) = {fs[i].name : i \in 1 .. n}
  BY <1>1 DEF NamesOf
<1>8. \A x : Sorted(FileOnDisk(log, x)) /\ Range(FileOnDisk(log, x)) \subseteq 1 .. m
  BY <1>2, <1>6 DEF DiskOK
<1>9. \A x, y : x # y => Range(FileOnDisk(log, x)) \intersect Range(FileOnDisk(log, y)) = {}
  BY <1>2, <1>6 DEF DiskOK
<1>10. \A l \in 1 .. m : \E x \in NamesOf(log) : l \in Range(FileOnDisk(log, x))
  <2> TAKE l \in 1 .. m
  <2>1. PICK i \in 1 .. n : l \in Range(DiskUpTo(fs, n, fs[i].name))
    BY <1>6 DEF DiskOK
  <2>2. fs[i].name \in NamesOf(log)
    BY <1>7
  <2> QED
    BY <1>2, <2>1, <2>2
<1>11. UNION {Range(FileOnDisk(log, x)) : x \in NamesOf(log)} = 1 .. m
  BY <1>8, <1>10
<1> QED
  BY <1>8, <1>9, <1>11 DEF LogOnDisk

\* It says what the files hold.
LEMMA LogInvOnDisk == BufferInv /\ LogInv => LogOnDisk /\ DayEnds
<1> SUFFICES ASSUME BufferInv, LogInv PROVE LogOnDisk /\ DayEnds
  OBVIOUS
<1>1. LogParts
  BY LogInvParts
<1>2. LinesOf(log) = UpTo(Len(LinesOf(log)))
  <2>1. CASE aborted
    BY <1>1, <2>1 DEF LogParts
  <2>2. CASE ~aborted
    <3>1. done \in 0 .. Len(toWrite) /\ (pc # "write" => done = 0) /\ LogWritten
      BY <1>1, <2>2 DEF LogParts
    <3>2. Len(toWrite) \in Nat
      BY LenProperties DEF BufferInv, Inv, TypeOK
    <3>3. done \in Nat /\ done <= Len(toWrite)
      BY <3>1, <3>2
    <3> QED
      BY <3>1, <3>3, WrittenInOrder DEF BufferInv, LogWritten
  <2> QED
    BY <2>1, <2>2
<1>3. CASE pc = "created"
  <2>1. log = NoLog /\ safe = 0 /\ log.files = <<>>
    BY <1>1, <1>3 DEF LogParts, NoLog
  <2>2. LinesOf(log) = <<>> /\ Len(<<>>) = 0
    BY <2>1, NoLogLines
  <2>3. safe <= Len(LinesOf(log)) /\ log.files \in Seq(FileType)
    BY <2>1, <2>2
  <2>4. LogOnDisk
    BY <1>2, <2>3, FilesFromStreams
  <2> QED
    BY <2>1, <2>4 DEF DayEnds
<1>4. CASE pc # "created"
  <2>1. LogStarted /\ safe \in Nat
    BY <1>1, <1>4 DEF LogParts
  <2>2. LogOK(log)
    BY <2>1 DEF LogStarted
  <2>3. SafeLen(log) \in Nat /\ SafeLen(log) <= Len(LinesOf(log)) /\ LinesOf(log) \in Seq(Nat)
    BY <2>2, LogHas
  <2>4. safe <= Len(LinesOf(log))
    BY <2>1, <2>3, LenProperties DEF LogStarted
  <2>5. LogOnDisk
    BY <1>2, <2>2, <2>4, FilesFromStreams DEF LogOK, LogType
  <2>6. Last(log.files).late < checkEveryN
    <3>1. Last(log.files).late \in Nat
      BY <2>2, LogHas DEF FileType
    <3>2. log.count \in Nat /\ log.count < checkEveryN
      BY <2>2 DEF LogOK, LogType
    <3>3. Last(log.files).late <= log.count
      BY <2>1 DEF LogStarted
    <3> QED
      BY <3>1, <3>2, <3>3, LogFileAssumption
  <2> QED
    BY <2>5, <2>6 DEF DayEnds
<1> QED
  BY <1>3, <1>4

\* The buffers of the composition.
LEMMA BufferInvHolds == LogSpec => []BufferInv
<1>1. LogInit => BufferInv
  BY InitInv, InitLines DEF LogInit, BufferInv
<1>2. BufferInv /\ [LogNext]_logVars => BufferInv'
  BY LogStepOfBuffers, NextInv, NextLines DEF BufferInv
<1> QED
  BY <1>1, <1>2, PTL DEF LogSpec

\* LogFile.cc:34-90, AsyncLogging.cc:116-146, for any sizes, any number of lines and
\* any clock, and any local time: the files on disk have each line once and in order,
\* two streams of the same name or not, and what an ended round has written survives
\* an abort.
THEOREM FilesHoldLines == LogSpec => []LogOnDisk
BY BufferInvHolds, LogInitInv, LogNextInv, LogInvOnDisk, PTL DEF LogSpec

\* LogFile.cc:38-53, for any checkEveryN and any length of a day: no file gets
\* checkEveryN appends after its day, clock set back or not.
THEOREM DaysEnd == LogSpec => []DayEnds
BY BufferInvHolds, LogInitInv, LogNextInv, LogInvOnDisk, PTL DEF LogSpec

\* Lines 30-52, 96-119 of AsyncLogging.cc, with the LogFile in place: no line is lost,
\* doubled or overtaken.
THEOREM LinesInOrderToFile == LogSpec => []NoLineLost
<1>1. BufferInv => NoLineLost
  BY DEF BufferInv, LinesInv
<1> QED
  BY <1>1, BufferInvHolds, PTL
=============================================================================
