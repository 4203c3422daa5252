--------------------------- MODULE FileServerProofs ---------------------------
(***************************************************************************)
(* Proofs about the HTTP server.  First FileServer, for any workers,       *)
(* accounts and files, any bodies of uploads, any Range headers, any width *)
(* of int and any number of requests and restarts; then the connection     *)
(* that the requests come in on (HttpContext, Buffer, HttpConnection), for *)
(* any streams of lines, any cuts of their bytes and any sizes of the      *)
(* buffer.                                                                 *)
(***************************************************************************)
EXTENDS FileServer, HttpConnection, SequenceTheorems, WellFoundedInduction, TLAPS

-----------------------------------------------------------------------------
(***************************************************************************)
(* The accounts.                                                           *)
(***************************************************************************)

\* A step that leaves the accounts alone and takes no worker into or out of its
\* critical section keeps the accounts' invariant.
LEMMA AccountsLeftAlone ==
  ASSUME AccountsInv, UNCHANGED accounts,
         wpc' \in [Workers -> WorkerSteps], DOMAIN job' = Workers,
         \A w \in Workers : wpc'[w] = "insert" <=> wpc[w] = "insert",
         \A w \in Workers : wpc[w] = "insert" => job'[w] = job[w]
  PROVE  AccountsInv'
BY DEF AccountsInv, accounts, Registering, NameAgrees, AdmittedAreRegistered

\* One worker takes such a step.
LEMMA OneLeavesAccountsAlone ==
  ASSUME AccountsInv, UNCHANGED accounts, NEW w \in Workers, NEW s \in WorkerSteps,
         wpc[w] # "insert", s # "insert", wpc' = [wpc EXCEPT ![w] = s],
         DOMAIN job' = Workers, \A v \in Workers \ {w} : job'[v] = job[v]
  PROVE  AccountsInv'
<1>1. wpc' \in [Workers -> WorkerSteps] /\ DOMAIN job' = Workers
  BY DEF AccountsInv
<1>2. \A v \in Workers : wpc'[v] = "insert" <=> wpc[v] = "insert"
  BY DEF AccountsInv
<1>3. \A v \in Workers : wpc[v] = "insert" => job'[v] = job[v]
  BY DEF AccountsInv
<1> QED
  BY <1>1, <1>2, <1>3, AccountsLeftAlone

\* The INSERT under mutex_.
LEMMA RegisterUpdateKeepsAccounts ==
  ASSUME AccountsInv, NEW w \in Workers, NEW n \in Names, NEW p \in Passwords,
         RegisterUpdate(w, n, p)
  PROVE  AccountsInv'
<1> USE NoneAssumption DEF AccountsInv, RegisterUpdate, Begin, Goto
<1>1. \A v \in Workers : wpc[v] # "insert"
  OBVIOUS
<1>2. /\ wpc' \in [Workers -> WorkerSteps] /\ DOMAIN job' = Workers
      /\ \A v \in Workers : wpc'[v] = "insert" <=> v = w
      /\ job'[w].op = "register" /\ job'[w].name = n /\ job'[w].password = p
  BY <1>1 DEF WorkerSteps
<1>3. /\ db' \in [Names -> Passwords \union {None}] /\ refused' \subseteq Names
      /\ refused \subseteq refused' /\ users' = users
      /\ \A m \in Names \ {n} : db'[m] = db[m] /\ (m \in refused' <=> m \in refused)
  OBVIOUS
<1>4. \A m \in Names : NameAgrees(m)
  BY <1>1
<1>5. Registering(w)'
  BY <1>2, <1>3, <1>4 DEF Registering, NameAgrees
<1>6. \A m \in Names :
        (\A v \in Workers : wpc'[v] = "insert" => job'[v].name # m) => NameAgrees(m)'
  BY <1>2, <1>3, <1>4 DEF NameAgrees
<1>7. AdmittedAreRegistered'
  <2>1. \A m \in Names : db[m] = None \/ db'[m] = db[m]
    OBVIOUS
  <2> QED
    BY <1>3, <2>1 DEF AdmittedAreRegistered
<1> QED
  BY <1>1, <1>2, <1>3, <1>5, <1>6, <1>7

\* The insert into the map under mutex_.
LEMMA RegisterInsertKeepsAccounts ==
  ASSUME AccountsInv, NEW w \in Workers, RegisterInsert(w)
  PROVE  AccountsInv'
<1> USE NoneAssumption DEF AccountsInv, RegisterInsert, Goto
<1> DEFINE n == job[w].name
           p == job[w].password
<1>1. mutex = w /\ \A v \in Workers : wpc[v] = "insert" => v = w
  OBVIOUS
<1>2. n \in Names /\ p \in Passwords
  BY DEF Registering
<1>3. /\ users' \in [Names -> Passwords \union {None}]
      /\ users'[n] = (IF users[n] = None THEN p ELSE users[n])
      /\ \A m \in Names \ {n} : users'[m] = users[m]
  BY <1>2 DEF Inserted
<1>4. wpc' \in [Workers -> WorkerSteps] /\ \A v \in Workers : wpc'[v] # "insert"
  BY <1>1 DEF WorkerSteps
<1>5. \A m \in Names : NameAgrees(m)'
  <2>1. \A m \in Names \ {n} : NameAgrees(m)
    BY <1>1
  <2>2. NameAgrees(n)'
    BY <1>2, <1>3 DEF NameAgrees, Registering
  <2> QED
    BY <1>3, <2>1, <2>2 DEF NameAgrees
<1>6. AdmittedAreRegistered'
  BY DEF AdmittedAreRegistered
<1> QED
  BY <1>3, <1>4, <1>5, <1>6

\* A login reads the map at any time, also between INSERT and insert.
LEMMA LoginKeepsAccounts ==
  ASSUME AccountsInv, NEW w \in Workers, NEW n \in Names, NEW p \in Passwords,
         Login(w, n, p)
  PROVE  AccountsInv'
<1> USE NoneAssumption DEF AccountsInv, Login, Begin, Goto
<1>1. /\ wpc' \in [Workers -> WorkerSteps] /\ DOMAIN job' = Workers
      /\ \A v \in Workers : wpc'[v] = "insert" <=> wpc[v] = "insert"
      /\ \A v \in Workers : wpc[v] = "insert" => job'[v] = job[v]
  BY DEF WorkerSteps
<1>2. admitted' \subseteq admitted \union {<<n, p>>}
      /\ (<<n, p>> \in admitted' => <<n, p>> \in admitted \/ users[n] = p)
  BY DEF Matches
<1>3. users[n] = p /\ n \notin refused => db[n] = p
  BY DEF Registering, NameAgrees
<1>4. AdmittedAreRegistered'
  BY <1>2, <1>3 DEF AdmittedAreRegistered
<1>5. \A v \in Workers : wpc'[v] = "insert" => Registering(v)'
  BY <1>1 DEF Registering
<1>6. \A m \in Names :
        (\A v \in Workers : wpc'[v] = "insert" => job'[v].name # m) => NameAgrees(m)'
  BY <1>1 DEF NameAgrees
<1> QED
  BY <1>1, <1>2, <1>4, <1>5, <1>6

\* sql_pool reads the table into the map.
LEMMA RestartKeepsAccounts ==
  ASSUME AccountsInv, Restart
  PROVE  AccountsInv'
BY NoneAssumption
DEF AccountsInv, Restart, NameAgrees, AdmittedAreRegistered, Idle, WorkerSteps

\* No step breaks the accounts' invariant.
LEMMA NextKeepsAccounts == AccountsInv /\ [Next]_vars => AccountsInv'
<1> SUFFICES ASSUME AccountsInv, [Next]_vars PROVE AccountsInv'
  OBVIOUS
<1>1. ASSUME NEW w \in Workers, AccountStep(w) PROVE AccountsInv'
  BY <1>1, RegisterUpdateKeepsAccounts, RegisterInsertKeepsAccounts, LoginKeepsAccounts
  DEF AccountStep
<1>2. ASSUME NEW w \in Workers, FileStep(w) \/ NextRequest(w) PROVE AccountsInv'
  <2>1. UNCHANGED accounts
    BY <1>2 DEF FileStep, NextRequest, GetStat, DownloadStat, UploadFails, Remove,
                UploadOpens, Opens, Sends, UploadWrites
  <2>2. PICK s \in WorkerSteps : s # "insert" /\ wpc[w] # "insert" /\ wpc' = [wpc EXCEPT ![w] = s]
    BY <1>2 DEF FileStep, NextRequest, GetStat, DownloadStat, UploadFails, Remove,
                UploadOpens, Opens, Sends, UploadWrites, Begin, Goto, WorkerSteps
  <2>3. DOMAIN job' = Workers /\ \A v \in Workers \ {w} : job'[v] = job[v]
    BY <1>2 DEF FileStep, NextRequest, GetStat, DownloadStat, UploadFails, Remove,
                UploadOpens, Opens, Sends, UploadWrites, AccountsInv
  <2> QED
    BY <2>1, <2>2, <2>3, OneLeavesAccountsAlone
<1>3. CASE Restart
  BY <1>3, RestartKeepsAccounts
<1>4. CASE UNCHANGED vars
  BY <1>4, AccountsLeftAlone DEF vars, AccountsInv
<1>5. ASSUME NEW w \in Workers, RangeThrows(w) PROVE AccountsInv'
  BY <1>5, AccountsLeftAlone DEF RangeThrows, AccountsInv
<1> QED
  BY <1>1, <1>2, <1>3, <1>4, <1>5 DEF Next

\* The accounts' invariant holds always.
LEMMA AccountsInvariance == Spec => []AccountsInv
<1>1. Init => AccountsInv
  BY NoneAssumption
  DEF Init, Idle, AccountsInv, NameAgrees, AdmittedAreRegistered, WorkerSteps
<1> QED
  BY <1>1, NextKeepsAccounts, PTL DEF Spec

\* FileServer.cc:457-461: whenever mutex_ is free, the map knows every account of
\* the table, with the same password unless an INSERT was refused for a free name.
THEOREM MapAgreesWithTable == Spec => []AccountsAgree
<1>1. AccountsInv => AccountsAgree
  BY NoneAssumption DEF AccountsInv, AccountsAgree, NameAgrees
<1> QED
  BY <1>1, AccountsInvariance, PTL

\* FileServer.cc:518: whoever has been let in is in the table with that password,
\* unless an INSERT had been refused for that name; reading the map without
\* mutex_ admits nobody else.
THEOREM OnlyRegisteredAdmitted == Spec => []AdmittedAreRegistered
<1>1. AccountsInv => AdmittedAreRegistered
  BY DEF AccountsInv
<1> QED
  BY <1>1, AccountsInvariance, PTL

-----------------------------------------------------------------------------
(***************************************************************************)
(* The contents of files.                                                  *)
(***************************************************************************)

\* A set of numbers that is not empty has a least one.
LEMMA LeastExists ==
  ASSUME NEW S \in SUBSET Nat, S # {}
  PROVE  \E x \in S : \A y \in S : x <= y
<1> DEFINE R == OpToRel(<, Nat)
<1>1. IsWellFoundedOn(R, Nat)
  BY NatLessThanWellFounded
<1>2. \A x, y \in Nat : <<y, x>> \in R <=> y < x
  BY DEF OpToRel
<1> HIDE DEF R
<1>3. PICK x \in S : \A y \in S : ~ (<<y, x>> \in R)
  BY <1>1, WFMin
<1>4. ASSUME NEW y \in S PROVE x <= y
  <2>1. x \in Nat /\ y \in Nat /\ ~ (<<y, x>> \in R)
    BY <1>3
  <2>2. ~(y < x)
    BY <1>2, <2>1
  <2> QED
    BY <2>1, <2>2
<1> QED
  BY <1>4

\* FileServer.cc:598-600: the content of an upload is a part of the body before
\* any 17 dashes.
LEMMA ExtractedFacts ==
  ASSUME NEW body \in Seq(Chars)
  PROVE  /\ Extracted(body) \in Seq(Chars)
         /\ \A i \in 1 .. Len(Extracted(body)) : Extracted(body)[i] # Dashes
<1> DEFINE L == Len(body)
           S == {n \in 0 .. L : n < L => body[n + 1] = Dashes}
<1>0. L \in Nat
  OBVIOUS
<1>1. S \in SUBSET Nat /\ S # {}
  <2>1. L \in S
    BY <1>0
  <2> QED
    BY <2>1
<1>2. PICK m \in S : \A y \in S : m <= y
  BY <1>1, LeastExists
<1>3. m \in 0 .. L /\ (m < L => body[m + 1] = Dashes)
  BY <1>2
<1>4. ASSUME NEW i \in 1 .. m PROVE body[i] # Dashes
  <2>1. i - 1 \in 0 .. L /\ ~(m <= i - 1) /\ (i - 1) + 1 = i
    BY <1>0, <1>3
  <2>2. i - 1 \notin S
    BY <1>2, <2>1
  <2> QED
    BY <2>1, <2>2
<1> DEFINE k == FindDashes(body)
<1>5. k \in 0 .. L /\ \A i \in 1 .. k : body[i] # Dashes
  <2>1. \E n \in 0 .. Len(body) : /\ \A i \in 1 .. n : body[i] # Dashes
                                  /\ n < Len(body) => body[n + 1] = Dashes
    BY <1>3, <1>4
  <2> QED
    BY <2>1 DEF FindDashes
<1> HIDE DEF k
<1>6. /\ SubSeq(body, 1, k) \in Seq(Chars) /\ Len(SubSeq(body, 1, k)) = k
      /\ \A i \in 1 .. k : SubSeq(body, 1, k)[i] = body[i]
  BY <1>0, <1>5, SubSeqProperties
<1> QED
  BY <1>5, <1>6 DEF Extracted, k

\* An upload that j is the request of, at the point of writing n bytes.
Writing(j, f, n) ==
  /\ j.file = f /\ f \in Files /\ j.upload \in Nat /\ j.content \in Seq(Chars)
  /\ \A i \in 1 .. Len(j.content) : j.content[i] # Dashes
  /\ n \in 0 .. Len(j.content)

\* A byte of an upload is as it says.
LEMMA ByteFacts ==
  ASSUME NEW j, NEW f, NEW n, Writing(j, f, n), NEW i \in 1 .. n
  PROVE  /\ ByteOf(j, n, i) \in Data
         /\ ByteOf(j, n, i).file = f /\ ByteOf(j, n, i).at = i
         /\ ByteOf(j, n, i).of = n /\ ByteOf(j, n, i).upload = j.upload
         /\ ByteOf(j, n, i).char # Dashes
<1>1. n \in Nat /\ n <= Len(j.content) /\ Len(j.content) \in Nat
  BY DEF Writing
<1>2. i \in 1 .. Len(j.content) /\ i \in Nat
  BY <1>1
<1>3. j.content[i] \in Chars /\ j.content[i] # Dashes
  BY <1>2 DEF Writing
<1> QED
  BY <1>1, <1>2, <1>3 DEF ByteOf, Data, Writing

\* A write of n bytes to the start of a file of layers puts one layer on top.
LEMMA WrittenFacts ==
  ASSUME NEW old \in Seq(Data), NEW f, Layered(old, f), NEW j, NEW n, Writing(j, f, n)
  PROVE  /\ Written(old, j, n) \in Seq(Data)
         /\ Layered(Written(old, j, n), f)
         /\ old = <<>> => Written(old, j, n) = [i \in 1 .. n |-> ByteOf(j, n, i)]
<1> DEFINE L == Len(old)
           m == IF n > L THEN n ELSE L
           new == Written(old, j, n)
<1>1. n \in Nat /\ L \in Nat /\ m \in Nat /\ n <= m /\ L <= m
  BY DEF Writing
<1>2. ASSUME NEW i \in 1 .. m PROVE (IF i <= n THEN ByteOf(j, n, i) ELSE old[i]) \in Data
  <2>1. CASE i <= n
    BY <1>1, <2>1, ByteFacts
  <2>2. CASE ~(i <= n)
    <3>1. i \in 1 .. L
      BY <1>1, <2>2
    <3> QED
      BY <2>2, <3>1
  <2> QED
    BY <2>1, <2>2
<1>3. new \in [1 .. m -> Data]
  BY <1>2 DEF Written
<1>4. new \in Seq(Data) /\ Len(new) = m
  BY <1>1, <1>3, SeqDef
<1>5. \A i \in 1 .. m : new[i] = IF i <= n THEN ByteOf(j, n, i) ELSE old[i]
  BY DEF Written
<1> HIDE DEF m, new
<1>6. ASSUME NEW i \in 1 .. m
      PROVE  /\ new[i].file = f /\ new[i].at = i /\ new[i].char # Dashes
             /\ new[i].of \in i .. m
             /\ \A k \in i .. new[i].of : new[k].upload = new[i].upload
  <2>1. CASE i <= n
    <3>1. new[i] = ByteOf(j, n, i) /\ i \in 1 .. n
      BY <1>1, <1>5, <2>1
    <3>2. ASSUME NEW k \in i .. n PROVE new[k].upload = j.upload
      <4>1. k \in 1 .. n /\ k \in 1 .. m /\ k <= n
        BY <1>1, <3>1
      <4>2. new[k] = ByteOf(j, n, k)
        BY <1>5, <4>1
      <4> QED
        BY <4>1, <4>2, ByteFacts
    <3>3. /\ new[i].file = f /\ new[i].at = i /\ new[i].char # Dashes
          /\ new[i].of = n /\ new[i].upload = j.upload
      BY <3>1, ByteFacts
    <3>4. n \in i .. m
      BY <1>1, <3>1
    <3> QED
      BY <3>2, <3>3, <3>4
  <2>2. CASE ~(i <= n)
    <3>1. new[i] = old[i] /\ i \in 1 .. L /\ L <= m /\ n < i
      <4>1. i \in 1 .. L
        BY <1>1, <2>2 DEF m
      <4> QED
        BY <1>1, <1>5, <2>2, <4>1
    <3>2. /\ old[i].file = f /\ old[i].at = i /\ old[i].char # Dashes
          /\ old[i].of \in i .. L
          /\ \A k \in i .. old[i].of : old[k].upload = old[i].upload
      BY <3>1 DEF Layered
    <3>3. ASSUME NEW k \in i .. old[i].of PROVE new[k] = old[k]
      <4>1. k \in 1 .. m /\ ~(k <= n)
        BY <1>1, <3>1, <3>2
      <4> QED
        BY <1>5, <4>1
    <3>4. old[i].of \in i .. m
      BY <1>1, <3>1, <3>2
    <3> QED
      BY <3>1, <3>2, <3>3, <3>4
  <2> QED
    BY <2>1, <2>2
<1>7. Layered(new, f)
  BY <1>4, <1>6 DEF Layered
<1>8. old = <<>> => new = [i \in 1 .. n |-> ByteOf(j, n, i)]
  <2> SUFFICES ASSUME old = <<>> PROVE new = [i \in 1 .. n |-> ByteOf(j, n, i)]
    OBVIOUS
  <2>1. m = n
    BY <1>1 DEF m
  <2>2. new = [i \in 1 .. m |-> IF i <= n THEN ByteOf(j, n, i) ELSE old[i]]
    BY DEF new, m, Written
  <2>3. \A i \in 1 .. n : i <= n
    BY <1>1
  <2> QED
    BY <2>1, <2>2, <2>3
<1> QED
  BY <1>4, <1>7, <1>8 DEF new

\* What sendfile finds in a file of layers.
LEMMA BytesFacts ==
  ASSUME NEW d \in Seq(Data), NEW f, Layered(d, f),
         NEW part, part.offset \in Int, part.send \in Int
  PROVE  SentFrom(Bytes(d, part), f, part)
<1> DEFINE L == Len(d)
           from == IF part.offset < 0 THEN 0 ELSE part.offset
           to == from + part.send
           top == IF to < L THEN to ELSE L
           sent == SubSeq(d, from + 1, top)
<1>1. L \in Nat /\ from \in Nat /\ to \in Int /\ top \in Int /\ top <= L /\ top <= to
  OBVIOUS
<1>2. CASE from + 1 <= top
  <2>1. /\ Len(sent) = top - from /\ Len(sent) \in Nat
        /\ \A k \in 1 .. top - from : sent[k] = d[from + k]
    <3> HIDE DEF L, from, to, top
    <3>1. from + 1 \in 1 .. L + 1 /\ top \in from .. L
      BY <1>1, <1>2
    <3>2. /\ Len(sent) = (IF from + 1 <= top THEN top - (from + 1) + 1 ELSE 0)
          /\ \A i \in 1 .. top - (from + 1) + 1 : sent[i] = d[from + 1 + i - 1]
      BY <1>1, <3>1, SubSeqProperties DEF L
    <3>3. top - (from + 1) + 1 = top - from /\ top - from \in Nat
      BY <1>1, <1>2
    <3>4. \A i \in 1 .. top - from : from + 1 + i - 1 = from + i
      BY <1>1
    <3> QED
      BY <1>2, <3>2, <3>3, <3>4
  <2>2. top - from <= part.send
    BY <1>1
  <2>3. ASSUME NEW k \in 1 .. top - from PROVE d[from + k].file = f /\ d[from + k].at = k + from
    <3> HIDE DEF L, from, to, top
    <3>1. from + k \in 1 .. L /\ from + k = k + from
      BY <1>1
    <3> QED
      BY <3>1 DEF Layered, L
  <2> HIDE DEF L, to, top, sent
  <2> QED
    <3>1. Bytes(d, part) = sent
      BY DEF Bytes, sent, top, to, L
    <3> QED
      BY <2>1, <2>2, <2>3, <3>1 DEF SentFrom
<1>3. CASE ~(from + 1 <= top)
  <2>1. sent = <<>>
    <3> HIDE DEF L, from, to, top
    <3> QED
      BY <1>1, <1>3
  <2>2. Bytes(d, part) = <<>>
    BY <2>1 DEF Bytes
  <2> QED
    BY <2>2 DEF SentFrom
<1> QED
  BY <1>2, <1>3

\* static_cast<int> gives an int, and gives back what is one.
LEMMA CastFacts ==
  ASSUME NEW n \in Int
  PROVE  /\ IntCast(n) \in Int /\ IntCast(n) <= MaxInt
         /\ n <= MaxInt /\ n >= -(MaxInt + 1) => IntCast(n) = n
<1> PICK m : m = 2 * (MaxInt + 1)
  OBVIOUS
<1> PICK x : x = n + MaxInt + 1
  OBVIOUS
<1> PICK y : y = x % m
  OBVIOUS
<1>1. MaxInt \in Nat /\ m \in Nat /\ m > 0 /\ m = MaxInt + MaxInt + 2 /\ x \in Int
  BY RangesAssumption
<1>2. y \in 0 .. m - 1
  <2>1. \A b \in Nat \ {0} : \A a \in Int : a % b \in 0 .. b - 1
    OBVIOUS
  <2> QED
    BY <1>1, <2>1
<1>3. x \in 0 .. m - 1 => y = x
  <2>1. \A b \in Nat \ {0} : \A a \in 0 .. b - 1 : a % b = a
    OBVIOUS
  <2> QED
    BY <1>1, <2>1
<1>4. IntCast(n) = y - (MaxInt + 1)
  BY DEF IntCast
<1>5. n <= MaxInt /\ n >= -(MaxInt + 1) => x \in 0 .. m - 1
  BY <1>1
<1> QED
  BY <1>1, <1>2, <1>3, <1>4, <1>5

\* What is sent of a file is given by numbers.
LEMMA PartFacts ==
  ASSUME NEW r \in Ranges \union {<<>>}, NEW len \in Int
  PROVE  LET part == Part(r, len) IN
         part.offset \in Int /\ part.count \in Int /\ part.send \in Int
<1>1. CASE r = <<>>
  BY <1>1 DEF Part
<1>2. CASE r # <<>>
  <2>1. r[1] \in Int /\ r[2] \in Int
    BY <1>2, RangesAssumption DEF Bounds, Absent, NoNumber
  <2>2. Part(r, len) = RangeSent(r, len)
    BY <1>2 DEF Part
  <2>3. /\ RangeSent(r, len).offset \in Int /\ RangeSent(r, len).count \in Int
        /\ RangeSent(r, len).send = IntCast(RangeSent(r, len).count)
    BY <2>1 DEF RangeSent
  <2> QED
    BY <2>2, <2>3, CastFacts
<1> QED
  BY <1>1, <1>2

-----------------------------------------------------------------------------
(***************************************************************************)
(* The files.                                                              *)
(***************************************************************************)

\* The inodes, and the names that lead to them.
InodesOK ==
  /\ disk \in Seq(Seq(Data)) /\ home \in Seq(Files) /\ Len(home) = Len(disk)
  /\ dir \in [Files -> 0 .. Len(disk)]
  /\ \A f \in Files : dir[f] # 0 => home[dir[f]] = f
  /\ \A i \in 1 .. Len(disk) : Layered(disk[i], home[i])

\* An inode is of one file, and no two names lead to it.
LEMMA InodeFacts ==
  ASSUME InodesOK
  PROVE  /\ Len(disk) \in Nat /\ Len(home) = Len(disk)
         /\ \A f \in Files : dir[f] \in 0 .. Len(disk)
         /\ \A f \in Files : dir[f] # 0 =>
              dir[f] \in 1 .. Len(disk) /\ home[dir[f]] = f /\ disk[dir[f]] \in Seq(Data)
         /\ \A i \in 1 .. Len(disk) :
              disk[i] \in Seq(Data) /\ home[i] \in Files /\ Layered(disk[i], home[i])
         /\ \A f, g \in Files : dir[f] # 0 /\ dir[f] = dir[g] => f = g
<1> USE DEF InodesOK
<1>1. Len(disk) \in Nat /\ Len(home) = Len(disk) /\ \A f \in Files : dir[f] \in 0 .. Len(disk)
  OBVIOUS
<1>2. \A i \in 1 .. Len(disk) :
        disk[i] \in Seq(Data) /\ home[i] \in Files /\ Layered(disk[i], home[i])
  BY <1>1
<1>3. ASSUME NEW f \in Files, dir[f] # 0
      PROVE  dir[f] \in 1 .. Len(disk) /\ home[dir[f]] = f /\ disk[dir[f]] \in Seq(Data)
  <2>1. dir[f] \in 1 .. Len(disk)
    BY <1>1, <1>3
  <2> QED
    BY <1>2, <1>3, <2>1
<1>4. ASSUME NEW f \in Files, NEW g \in Files, dir[f] # 0, dir[f] = dir[g] PROVE f = g
  BY <1>3, <1>4
<1> QED
  BY <1>1, <1>2, <1>3, <1>4

\* The inodes that there are keep their files.
HomesKept ==
  /\ Len(disk') \in Nat /\ Len(disk') >= Len(disk)
  /\ \A i \in 1 .. Len(disk) : home'[i] = home[i]

\* What a request in progress has found out about its file stays true in a step of
\* somebody else that leaves the file alone, or makes the request unclean.
LEMMA BystanderKeeps ==
  ASSUME FilesInv, NEW w \in Workers, wpc'[w] = wpc[w], job'[w] = job[w],
         clean'[w] => clean[w], HomesKept,
         clean'[w] /\ wpc[w] # "idle" =>
           \A f \in Files : job[w].file = f =>
             dir'[f] = dir[f] /\ (dir[f] # 0 => disk'[dir[f]] = disk[dir[f]])
  PROVE  Uploading(w)' /\ Downloading(w)'
<1> DEFINE j == job[w]
<1>0. Len(disk) \in Nat /\ Len(disk') \in Nat /\ Len(disk) <= Len(disk')
  BY DEF FilesInv, HomesKept
<1>1. Uploading(w)'
  <2> SUFFICES ASSUME wpc[w] = "write" \/ (wpc[w] = "replied" /\ j.op = "upload")
               PROVE  Uploading(w)'
    BY DEF Uploading
  <2>1. /\ j.op = "upload" /\ j.file \in Files /\ j.upload \in Nat
        /\ j.content \in Seq(Chars) /\ \A i \in 1 .. Len(j.content) : j.content[i] # Dashes
        /\ j.inode \in 1 .. Len(disk) /\ home[j.inode] = j.file
    BY DEF Uploading, FilesInv
  <2>2. clean[w] => /\ dir[j.file] = j.inode
                    /\ disk[j.inode] = IF wpc[w] = "write" THEN <<>>
                                       ELSE [i \in 1 .. j.wrote |-> ByteOf(j, j.wrote, i)]
    BY DEF Uploading, FilesInv
  <2>3. j.inode \in 1 .. Len(disk') /\ j.inode # 0 /\ home'[j.inode] = j.file
    BY <1>0, <2>1 DEF HomesKept
  <2>4. clean'[w] => dir'[j.file] = j.inode /\ disk'[j.inode] = disk[j.inode]
    BY <2>1, <2>2, <2>3
  <2> QED
    BY <2>1, <2>2, <2>3, <2>4 DEF Uploading
<1>2. Downloading(w)'
  <2> DEFINE part == Part(j.range, j.len)
  <2> SUFFICES ASSUME wpc[w] \in {"open", "send"} \/ (wpc[w] = "replied" /\ j.op = "get")
               PROVE  Downloading(w)'
    BY DEF Downloading
  <2>1. /\ j.op = "get" /\ j.file \in Files /\ j.range \in Ranges \union {<<>>}
        /\ j.len \in Int /\ (j.range # <<>> => j.len \in Nat)
    BY DEF Downloading, FilesInv
  <2>2. /\ clean[w] /\ dir[j.file] # 0 => j.len = Len(disk[dir[j.file]])
        /\ wpc[w] = "send" => /\ j.inode \in 0 .. Len(disk)
                              /\ j.inode # 0 => home[j.inode] = j.file
                              /\ clean[w] => j.inode = dir[j.file]
        /\ wpc[w] = "replied" => /\ ~Throws(j.range) /\ j.promised = part.count
                                 /\ SentFrom(j.sent, j.file, part)
        /\ wpc[w] = "replied" /\ clean[w] /\ dir[j.file] # 0
             => j.sent = Bytes(disk[dir[j.file]], part)
    BY DEF Downloading, FilesInv
  <2>3. clean'[w] => dir'[j.file] = dir[j.file]
    BY <2>1
  <2>4. clean'[w] /\ dir[j.file] # 0 => disk'[dir[j.file]] = disk[dir[j.file]]
    BY <2>1
  <2>5. wpc[w] = "send" => /\ j.inode \in 0 .. Len(disk')
                           /\ j.inode # 0 => home'[j.inode] = j.file
    <3>1. \A i \in 0 .. Len(disk) : i \in 0 .. Len(disk') /\ (i # 0 => i \in 1 .. Len(disk))
      BY <1>0
    <3> QED
      BY <2>2, <3>1 DEF HomesKept
  <2> HIDE DEF part
  <2> QED
    BY <2>1, <2>2, <2>3, <2>4, <2>5 DEF Downloading, part
<1> QED
  BY <1>1, <1>2

\* All the others are bystanders of a request's step that changes no file.
LEMMA OthersKeep ==
  ASSUME FilesInv, UNCHANGED files, NEW w \in Workers,
         \A v \in Workers \ {w} :
           wpc'[v] = wpc[v] /\ job'[v] = job[v] /\ (clean'[v] => clean[v])
  PROVE  \A v \in Workers \ {w} : Uploading(v)' /\ Downloading(v)'
<1> SUFFICES ASSUME NEW v \in Workers \ {w} PROVE Uploading(v)' /\ Downloading(v)'
  OBVIOUS
<1>1. HomesKept /\ dir' = dir /\ disk' = disk
  BY DEF FilesInv, files, HomesKept
<1> QED
  BY <1>1, BystanderKeeps

\* A step of one worker that changes no file keeps the invariant if it leaves that
\* worker with a true picture of its own file.
LEMMA FilesLeftAlone ==
  ASSUME FilesInv, UNCHANGED files, NEW w \in Workers, ops' \in Nat,
         wpc' \in [Workers -> WorkerSteps], DOMAIN job' = Workers,
         clean' \in [Workers -> BOOLEAN],
         \A v \in Workers \ {w} :
           wpc'[v] = wpc[v] /\ job'[v] = job[v] /\ (clean'[v] => clean[v]),
         Uploading(w)', Downloading(w)'
  PROVE  FilesInv'
<1>1. \A v \in Workers : Uploading(v)' /\ Downloading(v)'
  BY OthersKeep
<1> QED
  BY <1>1 DEF FilesInv, files

\* stat of a GET or a download.
LEMMA StatKeepsFiles ==
  ASSUME FilesInv, NEW w \in Workers, NEW f \in Files,
         (\E r \in Ranges : GetStat(w, f, r)) \/ DownloadStat(w, f)
  PROVE  FilesInv'
<1> USE RangesAssumption
<1>0. dir[f] # 0 => Len(disk[dir[f]]) \in Nat
  <2>1. InodesOK
    BY DEF FilesInv, InodesOK
  <2>2. dir[f] # 0 => disk[dir[f]] \in Seq(Data)
    BY <2>1, InodeFacts
  <2> QED
    BY <2>2
<1>1. PICK r \in Ranges \union {<<>>}, len \in Int :
        /\ job' = [job EXCEPT ![w] = [op |-> "get", file |-> f, range |-> r, len |-> len]]
        /\ r # <<>> => len \in Nat
        /\ dir[f] # 0 => len = Len(disk[dir[f]])
  <2>1. CASE \E r \in Ranges : GetStat(w, f, r)
    <3>1. PICK r \in Ranges : GetStat(w, f, r)
      BY <2>1
    <3> WITNESS r \in Ranges \union {<<>>}
    <3>2. Len(disk[dir[f]]) \in Nat
      BY <1>0, <3>1 DEF GetStat
    <3> WITNESS Len(disk[dir[f]]) \in Int
    <3> QED
      BY <3>1, <3>2 DEF GetStat
  <2>2. CASE DownloadStat(w, f)
    <3>1. PICK len \in IF dir[f] # 0 THEN {Len(disk[dir[f]])} ELSE -1 .. MaxGarbage :
            job' = [job EXCEPT ![w] = [op |-> "get", file |-> f, range |-> <<>>, len |-> len]]
      BY <2>2 DEF DownloadStat
    <3>2. len \in Int /\ (dir[f] # 0 => len = Len(disk[dir[f]]))
      BY <1>0, <3>1
    <3> QED
      BY <3>1, <3>2
  <2> QED
    BY <2>1, <2>2
<1>2. /\ UNCHANGED files /\ ops' = ops + 1
      /\ wpc' = [wpc EXCEPT ![w] = "open"]
      /\ StartsOn(w, f)
  BY DEF GetStat, DownloadStat, Begin, Goto
<1>3. /\ clean' \in [Workers -> BOOLEAN] /\ ops' \in Nat
      /\ \A v \in Workers \ {w} : clean'[v] = clean[v]
  BY <1>2 DEF StartsOn, FilesInv
<1>4. /\ wpc' \in [Workers -> WorkerSteps] /\ DOMAIN job' = Workers /\ wpc'[w] = "open"
      /\ \A v \in Workers \ {w} : wpc'[v] = wpc[v] /\ job'[v] = job[v]
      /\ job'[w] = [op |-> "get", file |-> f, range |-> r, len |-> len]
  BY <1>1, <1>2 DEF FilesInv, WorkerSteps
<1>5. Uploading(w)'
  BY <1>4 DEF Uploading
<1>6. Downloading(w)'
  BY <1>1, <1>2, <1>4 DEF Downloading, files
<1> QED
  BY <1>2, <1>3, <1>4, <1>5, <1>6, FilesLeftAlone

\* A step of a request that has no file open, before it or after it.
LEMMA NoFileKeepsFiles ==
  ASSUME FilesInv, NEW w \in Workers, NEW s \in {"idle", "insert", "replied"},
         UNCHANGED <<files, clean>>, ops' \in Nat, wpc' = [wpc EXCEPT ![w] = s],
         DOMAIN job' = Workers, \A v \in Workers \ {w} : job'[v] = job[v],
         s = "replied" => job'[w].op \notin {"upload", "get"}
  PROVE  FilesInv'
<1>1. /\ wpc' \in [Workers -> WorkerSteps] /\ clean' \in [Workers -> BOOLEAN]
      /\ \A v \in Workers \ {w} : wpc'[v] = wpc[v]
      /\ wpc'[w] = s
  BY DEF FilesInv, WorkerSteps
<1>2. Uploading(w)' /\ Downloading(w)'
  BY <1>1 DEF Uploading, Downloading
<1> QED
  BY <1>1, <1>2, FilesLeftAlone

\* open: the descriptor is of the inode that the name has now.
LEMMA OpensKeepsFiles ==
  ASSUME FilesInv, NEW w \in Workers, Opens(w)
  PROVE  FilesInv'
<1>1. /\ UNCHANGED <<files, clean>> /\ ops' = ops /\ ops' \in Nat
      /\ wpc[w] = "open" /\ wpc' \in [Workers -> WorkerSteps] /\ DOMAIN job' = Workers
      /\ clean' \in [Workers -> BOOLEAN]
      /\ \A v \in Workers \ {w} : wpc'[v] = wpc[v] /\ job'[v] = job[v]
  BY DEF Goto, WorkerSteps, FilesInv, Opens
<1>2. /\ wpc'[w] = "send" /\ job'[w].op = "get" /\ job'[w].file = job[w].file
      /\ job'[w].range = job[w].range /\ job'[w].len = job[w].len
      /\ job'[w].inode = dir[job[w].file]
  BY DEF Goto, FilesInv, Opens
<1>3. Uploading(w)'
  BY <1>2 DEF Uploading
<1>4. Downloading(w)'
  <2>1. UNCHANGED <<dir, disk, home>> /\ clean'[w] = clean[w]
    BY <1>1 DEF files
  <2>2. /\ job[w].op = "get" /\ job[w].file \in Files
        /\ job[w].range \in Ranges \union {<<>>}
        /\ job[w].len \in Int /\ (job[w].range # <<>> => job[w].len \in Nat)
        /\ clean[w] /\ dir[job[w].file] # 0 => job[w].len = Len(disk[dir[job[w].file]])
    BY <1>1 DEF Downloading, FilesInv
  <2>3. /\ dir[job[w].file] \in 0 .. Len(disk)
        /\ dir[job[w].file] # 0 => home[dir[job[w].file]] = job[w].file
    BY <2>2 DEF FilesInv
  <2> QED
    BY <1>2, <2>1, <2>2, <2>3 DEF Downloading
<1> QED
  BY <1>1, <1>3, <1>4, FilesLeftAlone

\* The header and sendfile.
LEMMA SendsKeepsFiles ==
  ASSUME FilesInv, NEW w \in Workers, Sends(w)
  PROVE  FilesInv'
<1> DEFINE j == job[w]
           part == Part(j.range, j.len)
<1>1. /\ UNCHANGED <<files, clean>> /\ ops' = ops /\ ops' \in Nat
      /\ wpc[w] = "send" /\ wpc' \in [Workers -> WorkerSteps] /\ DOMAIN job' = Workers
      /\ clean' \in [Workers -> BOOLEAN]
      /\ \A v \in Workers \ {w} : wpc'[v] = wpc[v] /\ job'[v] = job[v]
  BY DEF Goto, WorkerSteps, FilesInv, Sends
<1>2. /\ wpc'[w] = "replied" /\ job'[w].op = "get" /\ job'[w].file = j.file
      /\ job'[w].range = j.range /\ job'[w].len = j.len
      /\ job'[w].promised = part.count
      /\ job'[w].sent = IF j.inode = 0 THEN <<>> ELSE Bytes(disk[j.inode], part)
      /\ ~Throws(j.range)
  BY DEF Goto, FilesInv, Sends
<1>3. Uploading(w)'
  BY <1>2 DEF Uploading
<1>4. /\ j.op = "get" /\ j.file \in Files
      /\ j.range \in Ranges \union {<<>>}
      /\ j.len \in Int /\ (j.range # <<>> => j.len \in Nat)
      /\ clean[w] /\ dir[j.file] # 0 => j.len = Len(disk[dir[j.file]])
      /\ j.inode \in 0 .. Len(disk) /\ (j.inode # 0 => home[j.inode] = j.file)
      /\ clean[w] => j.inode = dir[j.file]
  BY <1>1 DEF Downloading, FilesInv
<1>5. SentFrom(job'[w].sent, j.file, part)
  <2>1. CASE j.inode = 0
    BY <1>2, <2>1 DEF SentFrom
  <2>2. CASE j.inode # 0
    <3>1. InodesOK
      BY DEF FilesInv, InodesOK
    <3>2. j.inode \in 1 .. Len(disk)
      BY <1>4, <2>2, <3>1, InodeFacts
    <3>3. disk[j.inode] \in Seq(Data) /\ Layered(disk[j.inode], j.file)
      BY <1>4, <2>2, <3>1, <3>2, InodeFacts
    <3>4. part.offset \in Int /\ part.send \in Int
      BY <1>4, PartFacts
    <3> HIDE DEF part
    <3>5. SentFrom(Bytes(disk[j.inode], part), j.file, part)
      BY <3>3, <3>4, BytesFacts
    <3> QED
      BY <1>2, <2>2, <3>5
  <2> QED
    BY <2>1, <2>2
<1>6. UNCHANGED <<dir, disk, home>> /\ clean'[w] = clean[w]
  BY <1>1 DEF files
<1>7. clean[w] /\ dir[j.file] # 0 => job'[w].sent = Bytes(disk[dir[j.file]], part)
  BY <1>2, <1>4
<1>8. Downloading(w)'
  <2> HIDE DEF part
  <2> QED
    BY <1>2, <1>4, <1>5, <1>6, <1>7 DEF Downloading, part
<1> QED
  BY <1>1, <1>3, <1>8, FilesLeftAlone

\* Creating or truncating f: f has an inode of its own, which is empty, and no
\* other file is affected.
LEMMA TruncatedFacts ==
  ASSUME InodesOK, NEW f \in Files, Truncated(f)
  PROVE  /\ InodesOK' /\ HomesKept
         /\ dir'[f] \in 1 .. Len(disk') /\ disk'[dir'[f]] = <<>>
         /\ \A g \in Files \ {f} :
              dir'[g] = dir[g] /\ (dir[g] # 0 => disk'[dir[g]] = disk[dir[g]])
<1> DEFINE n == Len(disk)
<1>0. /\ n \in Nat /\ Len(home) = n /\ disk \in Seq(Seq(Data)) /\ home \in Seq(Files)
      /\ <<>> \in Seq(Data) /\ dir \in [Files -> 0 .. n]
  BY DEF InodesOK
<1>1. /\ \A g \in Files : dir[g] \in 0 .. n
      /\ \A g \in Files : dir[g] # 0 => dir[g] \in 1 .. n /\ home[dir[g]] = g
      /\ \A i \in 1 .. n : Layered(disk[i], home[i])
      /\ \A g, h \in Files : dir[g] # 0 /\ dir[g] = dir[h] => g = h
  BY InodeFacts
<1>2. Layered(<<>>, f)
  BY DEF Layered
<1>3. CASE dir[f] = 0
  <2>1. /\ dir' = [dir EXCEPT ![f] = n + 1]
        /\ disk' = Append(disk, <<>>) /\ home' = Append(home, f)
    BY <1>3 DEF Truncated
  <2>2. /\ disk' \in Seq(Seq(Data)) /\ Len(disk') = n + 1 /\ disk'[n + 1] = <<>>
        /\ \A i \in 1 .. n : disk'[i] = disk[i]
    BY <1>0, <2>1, AppendProperties
  <2>3. /\ home' \in Seq(Files) /\ Len(home') = n + 1 /\ home'[n + 1] = f
        /\ \A i \in 1 .. n : home'[i] = home[i]
    BY <1>0, <2>1, AppendProperties
  <2>4. dir'[f] = n + 1 /\ \A g \in Files \ {f} : dir'[g] = dir[g]
    BY <1>0, <2>1
  <2>5. dir' \in [Files -> 0 .. n + 1]
    BY <1>0, <2>1
  <2> HIDE DEF n
  <2>6. \A g \in Files : dir'[g] # 0 => home'[dir'[g]] = g
    BY <1>1, <2>3, <2>4
  <2>7. \A i \in 1 .. n + 1 : i \in 1 .. n \/ i = n + 1
    BY <1>0
  <2>8. \A i \in 1 .. n + 1 : Layered(disk'[i], home'[i])
    <3>1. Layered(disk'[n + 1], home'[n + 1])
      BY <1>2, <2>2, <2>3
    <3>2. ASSUME NEW i \in 1 .. n PROVE Layered(disk'[i], home'[i])
      <4>1. disk'[i] = disk[i] /\ home'[i] = home[i] /\ Layered(disk[i], home[i])
        BY <1>1, <2>2, <2>3
      <4> QED
        BY <4>1
    <3> QED
      BY <2>7, <3>1, <3>2
  <2>9. InodesOK'
    BY <2>2, <2>3, <2>5, <2>6, <2>8 DEF InodesOK
  <2>10. HomesKept
    BY <1>0, <2>2, <2>3 DEF HomesKept, n
  <2>11. n + 1 \in 1 .. n + 1
    BY <1>0
  <2> QED
    BY <1>1, <2>2, <2>4, <2>9, <2>10, <2>11
<1>4. CASE dir[f] # 0
  <2> DEFINE i == dir[f]
  <2>1. dir' = dir /\ disk' = [disk EXCEPT ![i] = <<>>] /\ home' = home /\ i \in 1 .. n
    BY <1>1, <1>4 DEF Truncated
  <2>2. /\ disk' \in Seq(Seq(Data)) /\ Len(disk') = n /\ disk'[i] = <<>>
        /\ \A k \in 1 .. n : k # i => disk'[k] = disk[k]
    BY <1>0, <2>1, ExceptSeq
  <2>3. home[i] = f
    BY <1>1, <1>4
  <2> HIDE DEF n, i
  <2>4. \A k \in 1 .. n : Layered(disk'[k], home'[k])
    BY <1>1, <1>2, <2>1, <2>2, <2>3
  <2>5. InodesOK'
    BY <1>0, <1>1, <2>1, <2>2, <2>4 DEF InodesOK
  <2>6. HomesKept
    BY <1>0, <2>1, <2>2 DEF HomesKept, n
  <2>7. ASSUME NEW g \in Files \ {f}, dir[g] # 0 PROVE disk'[dir[g]] = disk[dir[g]]
    <3>1. dir[g] \in 1 .. n /\ dir[g] # i
      BY <1>1, <1>4, <2>7 DEF i
    <3> QED
      BY <2>2, <3>1
  <2> QED
    BY <2>1, <2>2, <2>5, <2>6, <2>7 DEF i
<1> QED
  BY <1>3, <1>4

\* Opening the ofstream creates or truncates the file, and makes everyone else
\* who is on it unclean.
LEMMA UploadOpensKeepsFiles ==
  ASSUME FilesInv, NEW w \in Workers, NEW f \in Files, NEW body \in Bodies,
         UploadOpens(w, f, body)
  PROVE  FilesInv'
<1>0. InodesOK
  BY DEF FilesInv, InodesOK
<1>1. /\ InodesOK' /\ HomesKept
      /\ dir'[f] \in 1 .. Len(disk') /\ disk'[dir'[f]] = <<>>
      /\ \A g \in Files \ {f} :
           dir'[g] = dir[g] /\ (dir[g] # 0 => disk'[dir[g]] = disk[dir[g]])
  BY <1>0, TruncatedFacts DEF UploadOpens
<1>2. /\ ops' \in Nat /\ ops + 1 \in Nat /\ wpc' = [wpc EXCEPT ![w] = "write"]
      /\ wpc' \in [Workers -> WorkerSteps] /\ DOMAIN job' = Workers
      /\ \A v \in Workers \ {w} : wpc'[v] = wpc[v] /\ job'[v] = job[v]
  BY DEF FilesInv, Begin, Goto, WorkerSteps, UploadOpens
<1>3. /\ clean' \in [Workers -> BOOLEAN]
      /\ \A v \in Workers \ {w} :
           clean'[v] => clean[v] /\ ~(wpc[v] # "idle" /\ job[v].file = f)
  BY DEF FilesInv, TouchesAtStart, OnFile, UploadOpens
<1>4. \A v \in Workers \ {w} : Uploading(v)' /\ Downloading(v)'
  <2> SUFFICES ASSUME NEW v \in Workers \ {w} PROVE Uploading(v)' /\ Downloading(v)'
    OBVIOUS
  <2>1. clean'[v] /\ wpc[v] # "idle" =>
          \A g \in Files : job[v].file = g =>
            dir'[g] = dir[g] /\ (dir[g] # 0 => disk'[dir[g]] = disk[dir[g]])
    BY <1>1, <1>3
  <2> QED
    BY <1>1, <1>2, <1>3, <2>1, BystanderKeeps
<1>5. /\ wpc'[w] = "write"
      /\ job'[w] = [op |-> "upload", file |-> f, content |-> Extracted(body),
                    upload |-> ops + 1, inode |-> dir'[f]]
  BY DEF FilesInv, Goto, UploadOpens
<1>6. /\ Extracted(body) \in Seq(Chars)
      /\ \A i \in 1 .. Len(Extracted(body)) : Extracted(body)[i] # Dashes
  BY RangesAssumption, ExtractedFacts
<1>7. home'[dir'[f]] = f
  <2>1. dir'[f] # 0
    BY <1>1
  <2> QED
    BY <1>1, <2>1 DEF InodesOK
<1>8. Uploading(w)'
  BY <1>1, <1>2, <1>5, <1>6, <1>7 DEF Uploading
<1>9. Downloading(w)'
  BY <1>5 DEF Downloading
<1> QED
  BY <1>1, <1>2, <1>3, <1>4, <1>8, <1>9 DEF FilesInv, InodesOK

\* write: a layer on the file, and a clean upload finds its file empty.
LEMMA UploadWritesKeepsFiles ==
  ASSUME FilesInv, NEW w \in Workers, UploadWrites(w)
  PROVE  FilesInv'
<1> DEFINE j == job[w]
           i == j.inode
<1>0. InodesOK
  BY DEF FilesInv, InodesOK
<1>1. PICK n \in 0 .. Len(j.content) :
        /\ disk' = [disk EXCEPT ![i] = Written(disk[i], j, n)]
        /\ job' = [job EXCEPT ![w] = [op |-> "upload", file |-> j.file,
                                      content |-> j.content, upload |-> j.upload,
                                      inode |-> i, wrote |-> n]]
  BY DEF UploadWrites
<1>2. /\ wpc[w] = "write" /\ j.op = "upload" /\ j.file \in Files /\ j.upload \in Nat
      /\ j.content \in Seq(Chars) /\ \A k \in 1 .. Len(j.content) : j.content[k] # Dashes
      /\ i \in 1 .. Len(disk) /\ home[i] = j.file
      /\ clean[w] => dir[j.file] = i /\ disk[i] = <<>>
  BY DEF FilesInv, Uploading, UploadWrites
<1>3. /\ disk[i] \in Seq(Data) /\ Layered(disk[i], j.file) /\ Len(disk) \in Nat
      /\ \A g \in Files : dir[g] # 0 => dir[g] \in 1 .. Len(disk) /\ home[dir[g]] = g
      /\ \A k \in 1 .. Len(disk) : Layered(disk[k], home[k])
  BY <1>0, <1>2, InodeFacts
<1> DEFINE new == Written(disk[i], j, n)
<1>4. /\ new \in Seq(Data) /\ Layered(new, j.file)
      /\ disk[i] = <<>> => new = [k \in 1 .. n |-> ByteOf(j, n, k)]
  <2>1. Writing(j, j.file, n)
    BY <1>2 DEF Writing
  <2> QED
    BY <1>3, <2>1, WrittenFacts
<1>5. /\ disk' \in Seq(Seq(Data)) /\ Len(disk') = Len(disk)
      /\ disk'[i] = new /\ \A k \in 1 .. Len(disk) : k # i => disk'[k] = disk[k]
  <2>1. disk \in Seq(Seq(Data))
    BY <1>0 DEF InodesOK
  <2> HIDE DEF i, new
  <2>2. disk' = [disk EXCEPT ![i] = new]
    BY <1>1 DEF i, new
  <2> QED
    BY <1>2, <1>4, <2>1, <2>2, ExceptSeq DEF i
<1>6. /\ dir' = dir /\ home' = home /\ ops' = ops /\ ops' \in Nat
      /\ wpc' \in [Workers -> WorkerSteps] /\ wpc'[w] = "replied"
      /\ DOMAIN job' = Workers
      /\ \A v \in Workers \ {w} : wpc'[v] = wpc[v] /\ job'[v] = job[v]
      /\ job'[w] = [op |-> "upload", file |-> j.file, content |-> j.content,
                    upload |-> j.upload, inode |-> i, wrote |-> n]
  BY <1>1 DEF FilesInv, Goto, WorkerSteps, UploadWrites
<1>7. /\ clean' \in [Workers -> BOOLEAN] /\ clean'[w] = clean[w]
      /\ \A v \in Workers \ {w} :
           clean'[v] => clean[v] /\ ~(wpc[v] # "idle" /\ job[v].file = j.file)
  BY DEF FilesInv, Touches, OnFile, UploadWrites
<1> HIDE DEF i, new
<1>8. InodesOK'
  <2>1. \A k \in 1 .. Len(disk) : Layered(disk'[k], home[k])
    BY <1>2, <1>3, <1>4, <1>5
  <2> QED
    BY <1>0, <1>5, <1>6, <2>1 DEF InodesOK
<1>9. HomesKept
  BY <1>3, <1>5, <1>6 DEF HomesKept
<1>10. \A v \in Workers \ {w} : Uploading(v)' /\ Downloading(v)'
  <2> SUFFICES ASSUME NEW v \in Workers \ {w} PROVE Uploading(v)' /\ Downloading(v)'
    OBVIOUS
  <2>1. ASSUME NEW g \in Files \ {j.file}, dir[g] # 0 PROVE disk'[dir[g]] = disk[dir[g]]
    <3>1. dir[g] \in 1 .. Len(disk) /\ dir[g] # i
      BY <1>2, <1>3, <2>1
    <3> QED
      BY <1>5, <3>1
  <2>2. clean'[v] /\ wpc[v] # "idle" =>
          \A g \in Files : job[v].file = g =>
            dir'[g] = dir[g] /\ (dir[g] # 0 => disk'[dir[g]] = disk[dir[g]])
    BY <1>6, <1>7, <2>1
  <2> QED
    BY <1>6, <1>7, <1>9, <2>2, BystanderKeeps
<1>11. Uploading(w)'
  <2>1. clean'[w] => /\ dir'[j.file] = i
                     /\ disk'[i] = [k \in 1 .. n |-> ByteOf(j, n, k)]
    BY <1>2, <1>4, <1>5, <1>6, <1>7 DEF i
  <2> DEFINE t == job'[w]
  <2>2. /\ t.op = "upload" /\ t.file = j.file /\ t.content = j.content
        /\ t.upload = j.upload /\ t.inode = i /\ t.wrote = n
    BY <1>6
  <2>3. \A k : ByteOf(t, n, k) = ByteOf(j, n, k)
    BY <2>2 DEF ByteOf
  <2> HIDE DEF t, j
  <2>4. i \in 1 .. Len(disk') /\ home'[i] = j.file
    BY <1>2, <1>5, <1>6 DEF i, j
  <2>5. clean'[w] => disk'[i] = [k \in 1 .. n |-> ByteOf(t, n, k)]
    BY <2>1, <2>3
  <2> QED
    BY <1>2, <1>6, <2>1, <2>2, <2>4, <2>5 DEF Uploading, t
<1>12. Downloading(w)'
  BY <1>6 DEF Downloading
<1>13. \A v \in Workers : Uploading(v)' /\ Downloading(v)'
  BY <1>10, <1>11, <1>12
<1> QED
  BY <1>6, <1>7, <1>8, <1>13 DEF FilesInv, InodesOK

\* remove: the name goes, and everyone else who is on the file is unclean; or
\* nothing happens.
LEMMA RemoveKeepsFiles ==
  ASSUME FilesInv, NEW w \in Workers, NEW f \in Files, Remove(w, f)
  PROVE  FilesInv'
<1>0. InodesOK
  BY DEF FilesInv, InodesOK
<1>1. /\ ops' = ops + 1 /\ ops' \in Nat /\ wpc'[w] = "replied" /\ job'[w].op = "delete"
      /\ wpc' \in [Workers -> WorkerSteps] /\ DOMAIN job' = Workers
      /\ \A v \in Workers \ {w} : wpc'[v] = wpc[v] /\ job'[v] = job[v]
      /\ disk' = disk /\ home' = home
  BY DEF FilesInv, Begin, Goto, WorkerSteps, Remove
<1>2. Uploading(w)' /\ Downloading(w)'
  BY <1>1 DEF Uploading, Downloading
<1>3. CASE dir' = [dir EXCEPT ![f] = 0] /\ TouchesAtStart(w, f)
  <2>1. /\ dir' \in [Files -> 0 .. Len(disk)] /\ dir'[f] = 0
        /\ \A g \in Files \ {f} : dir'[g] = dir[g]
    <3>1. Len(disk) \in Nat /\ dir \in [Files -> 0 .. Len(disk)]
      BY <1>0, InodeFacts DEF InodesOK
    <3>2. 0 \in 0 .. Len(disk)
      BY <3>1
    <3> QED
      BY <1>3, <3>1, <3>2
  <2>2. /\ clean' \in [Workers -> BOOLEAN]
        /\ \A v \in Workers \ {w} :
             clean'[v] => clean[v] /\ ~(wpc[v] # "idle" /\ job[v].file = f)
    BY <1>3 DEF FilesInv, TouchesAtStart, OnFile
  <2>3. HomesKept
    BY <1>0, <1>1, InodeFacts DEF HomesKept
  <2>4. \A v \in Workers \ {w} : Uploading(v)' /\ Downloading(v)'
    <3> SUFFICES ASSUME NEW v \in Workers \ {w} PROVE Uploading(v)' /\ Downloading(v)'
      OBVIOUS
    <3>1. clean'[v] /\ wpc[v] # "idle" =>
            \A g \in Files : job[v].file = g =>
              dir'[g] = dir[g] /\ (dir[g] # 0 => disk'[dir[g]] = disk[dir[g]])
      BY <1>1, <2>1, <2>2
    <3> QED
      BY <1>1, <2>2, <2>3, <3>1, BystanderKeeps
  <2>5. InodesOK'
    BY <1>0, <1>1, <2>1 DEF InodesOK
  <2> QED
    BY <1>1, <1>2, <2>2, <2>4, <2>5 DEF FilesInv, InodesOK
<1>4. CASE dir' = dir /\ StartsOn(w, f)
  <2>1. UNCHANGED files
    BY <1>1, <1>4 DEF files
  <2>2. /\ clean' \in [Workers -> BOOLEAN]
        /\ \A v \in Workers \ {w} : clean'[v] = clean[v]
    BY <1>4 DEF FilesInv, StartsOn
  <2> QED
    BY <1>1, <1>2, <2>1, <2>2, FilesLeftAlone
<1> QED
  BY <1>3, <1>4 DEF Remove

\* No step breaks the files' invariant.
LEMMA NextKeepsFiles == AccountsInv /\ FilesInv /\ [Next]_vars => FilesInv'
<1> SUFFICES ASSUME AccountsInv, FilesInv, [Next]_vars PROVE FilesInv'
  OBVIOUS
<1>0. ops \in Nat /\ DOMAIN job = Workers
  BY DEF FilesInv
<1>1. ASSUME NEW w \in Workers, NEW n \in Names, NEW p \in Passwords,
             RegisterUpdate(w, n, p) \/ Login(w, n, p)
      PROVE  FilesInv'
  <2>1. CASE RegisterUpdate(w, n, p)
    <3>1. UNCHANGED files /\ UNCHANGED clean
      BY <2>1 DEF RegisterUpdate
    <3>2. ops' \in Nat
      BY <1>0, <2>1 DEF RegisterUpdate, Begin
    <3>3. /\ wpc' = [wpc EXCEPT ![w] = "insert"] /\ DOMAIN job' = Workers
          /\ \A v \in Workers \ {w} : job'[v] = job[v]
          /\ job'[w].op = "register"
      BY <1>0, <2>1 DEF RegisterUpdate, Goto
    <3> QED
      BY <3>1, <3>2, <3>3, NoFileKeepsFiles
  <2>2. CASE Login(w, n, p)
    <3>1. UNCHANGED files /\ UNCHANGED clean
      BY <2>2 DEF Login
    <3>2. ops' \in Nat
      BY <1>0, <2>2 DEF Login, Begin
    <3>3. /\ wpc' = [wpc EXCEPT ![w] = "replied"] /\ DOMAIN job' = Workers
          /\ \A v \in Workers \ {w} : job'[v] = job[v]
          /\ job'[w].op = "login"
      BY <1>0, <2>2 DEF Login, Goto
    <3> QED
      BY <3>1, <3>2, <3>3, NoFileKeepsFiles
  <2> QED
    BY <1>1, <2>1, <2>2
<1>2. ASSUME NEW w \in Workers, RegisterInsert(w) PROVE FilesInv'
  <2>1. job[w].op = "register"
    BY <1>2 DEF AccountsInv, Registering, RegisterInsert
  <2> QED
    BY <1>0, <1>2, <2>1, NoFileKeepsFiles DEF RegisterInsert, Goto
<1>3. ASSUME NEW w \in Workers, NextRequest(w) PROVE FilesInv'
  <2>1. /\ UNCHANGED <<files, clean>> /\ ops' \in Nat /\ wpc' = [wpc EXCEPT ![w] = "idle"]
        /\ DOMAIN job' = Workers /\ \A v \in Workers \ {w} : job'[v] = job[v]
    BY <1>0, <1>3 DEF NextRequest, Goto
  <2> QED
    BY <2>1, NoFileKeepsFiles
<1>4. ASSUME NEW w \in Workers, NEW f \in Files, UploadFails(w, f) PROVE FilesInv'
  <2>1. UNCHANGED files /\ UNCHANGED clean
    BY <1>4 DEF UploadFails
  <2>2. ops' \in Nat
    <3>1. Begin(w)
      BY <1>4 DEF UploadFails
    <3> QED
      BY <1>0, <3>1 DEF Begin
  <2>3. /\ wpc' = [wpc EXCEPT ![w] = "replied"] /\ DOMAIN job' = Workers
        /\ \A v \in Workers \ {w} : job'[v] = job[v]
        /\ job'[w].op = "upload failed"
    BY <1>0, <1>4 DEF UploadFails, Goto
  <2> QED
    BY <2>1, <2>2, <2>3, NoFileKeepsFiles
<1>5. ASSUME NEW w \in Workers, FileStep(w) PROVE FilesInv'
  <2>1. CASE \E f \in Files, r \in Ranges : GetStat(w, f, r)
    BY <2>1, StatKeepsFiles
  <2>2. CASE \E f \in Files : DownloadStat(w, f) \/ UploadFails(w, f) \/ Remove(w, f)
    BY <1>4, <2>2, StatKeepsFiles, RemoveKeepsFiles
  <2>3. CASE \E f \in Files, body \in Bodies : UploadOpens(w, f, body)
    BY <2>3, UploadOpensKeepsFiles
  <2>4. CASE Opens(w) \/ Sends(w) \/ UploadWrites(w)
    BY <2>4, OpensKeepsFiles, SendsKeepsFiles, UploadWritesKeepsFiles
  <2> QED
    BY <1>5, <2>1, <2>2, <2>3, <2>4 DEF FileStep
<1>6. CASE Restart
  <2>1. \A w \in Workers : wpc'[w] = "idle"
    BY <1>6 DEF Restart
  <2>2. \A w \in Workers : Uploading(w)' /\ Downloading(w)'
    BY <2>1 DEF Uploading, Downloading
  <2>3. /\ UNCHANGED <<dir, disk, home, clean, ops>> /\ DOMAIN job' = Workers
        /\ wpc' \in [Workers -> WorkerSteps]
    BY <1>6 DEF Restart, files, WorkerSteps
  <2> QED
    BY <2>2, <2>3 DEF FilesInv
<1>7. CASE UNCHANGED vars
  BY <1>7 DEF vars, files, FilesInv, Uploading, Downloading
<1>8. ASSUME NEW w \in Workers, RangeThrows(w) PROVE FilesInv'
  BY <1>8 DEF RangeThrows, files, FilesInv, Uploading, Downloading
<1> QED
  BY <1>1, <1>2, <1>3, <1>5, <1>6, <1>7, <1>8 DEF Next, AccountStep

\* The files' invariant holds always.
LEMMA FilesInvariance == Spec => []FilesInv
<1>1. Init => FilesInv
  <2> SUFFICES ASSUME Init PROVE FilesInv
    OBVIOUS
  <2>1. /\ disk \in Seq(Seq(Data)) /\ Len(disk) = 0 /\ ops \in Nat
        /\ home \in Seq(Files) /\ Len(home) = 0
        /\ clean \in [Workers -> BOOLEAN]
    BY DEF Init
  <2>2. dir \in [Files -> 0 .. Len(disk)] /\ \A f \in Files : dir[f] = 0
    BY <2>1 DEF Init
  <2>3. \A w \in Workers : Uploading(w) /\ Downloading(w)
    BY DEF Init, Uploading, Downloading
  <2> QED
    BY <2>1, <2>2, <2>3 DEF Init, FilesInv, WorkerSteps
<1> QED
  BY <1>1, NextKeepsFiles, AccountsInvariance, PTL DEF Spec

\* FileServer.cc:598-632: whatever uploads, failed writes, removals and restarts
\* have overlapped, a file is layers of its own uploads, each covering the start
\* of the one below and nothing else; and an upload that no other request on the
\* file has overlapped leaves exactly what its write took of its content.
THEOREM UploadsStayIntact == Spec => []UploadsIntact
<1>1. ASSUME FilesInv PROVE UploadsIntact
  <2>1. InodesOK
    BY <1>1 DEF FilesInv, InodesOK
  <2>2. \A f \in Files : dir[f] # 0 => Layered(disk[dir[f]], f)
    <3>1. \A f \in Files : dir[f] # 0 => dir[f] \in 1 .. Len(disk) /\ home[dir[f]] = f
      BY <2>1, InodeFacts
    <3>2. \A i \in 1 .. Len(disk) : Layered(disk[i], home[i])
      BY <2>1 DEF InodesOK
    <3> QED
      BY <3>1, <3>2
  <2>3. ASSUME NEW w \in Workers, wpc[w] = "replied", job[w].op = "upload", clean[w]
        PROVE  /\ dir[job[w].file] = job[w].inode
               /\ disk[job[w].inode] =
                    [i \in 1 .. job[w].wrote |-> ByteOf(job[w], job[w].wrote, i)]
    BY <1>1, <2>3 DEF FilesInv, Uploading
  <2> QED
    BY <2>2, <2>3 DEF UploadsIntact
<1> QED
  BY <1>1, FilesInvariance, PTL

\* A header that stoi takes: the bounds it has are ints.
LEMMA BoundsAreInts ==
  ASSUME NEW r \in Ranges, r # <<>>, ~Throws(r)
  PROVE  r[1] \in -1 .. MaxInt /\ r[2] \in -1 .. MaxInt
<1>1. r[1] \in Nat \union {-1, -2} /\ r[2] \in Nat \union {-1, -2}
  BY RangesAssumption DEF Bounds, Absent, NoNumber
<1>2. r[1] # -2 /\ ~(r[1] > MaxInt) /\ r[2] # -2 /\ ~(r[2] > MaxInt)
  BY DEF Throws, NoNumber
<1> QED
  BY <1>1, <1>2, RangesAssumption

\* The arithmetic of the header "bytes=a-b" (-1 for a missing bound) on a file of
\* len bytes: an end behind the file and a suffix longer than it are clipped.
LEMMA HeaderArithmetic ==
  ASSUME NEW M \in Nat, NEW len \in Nat, NEW a \in -1 .. M, NEW b \in -1 .. M,
         NEW beg \in Int, NEW end \in Int, NEW need \in Int, NEW from \in Int,
         NEW first \in Int, NEW last \in Int,
         beg = (IF a # -1 THEN a ELSE IF b # -1 THEN len - b ELSE 0),
         end = (IF a # -1 /\ b # -1 THEN b ELSE IF a = -1 /\ b = -1 THEN 0 ELSE len - 1),
         need = end - beg + 1, from = (IF beg < 0 THEN 0 ELSE beg),
         first = (IF a # -1 THEN a + 1 ELSE IF b # -1 /\ b < len THEN len - b + 1 ELSE 1),
         last = (IF a = -1 \/ b = -1 \/ b >= len THEN len ELSE b + 1)
  PROVE  /\ need >= -(M + 1) /\ from \in Nat /\ first = from + 1
         /\ (a = -1 /\ b > 0 /\ len > 0) \/ (a \in 0 .. len - 1 /\ (b = -1 \/ b >= a))
            => /\ last = IF from + need < len THEN from + need ELSE len
               /\ (IF a = -1 THEN b <= len ELSE b < len) => need = last - first + 1
<1>1. CASE a = -1 /\ b = -1
  BY <1>1
<1>2. CASE a = -1 /\ b # -1
  <2>1. CASE b <= len
    BY <1>2, <2>1
  <2>2. CASE ~(b <= len)
    BY <1>2, <2>2
  <2> QED
    BY <2>1, <2>2
<1>3. CASE a # -1 /\ b = -1
  BY <1>3
<1>4. CASE a # -1 /\ b # -1
  BY <1>4
<1> QED
  BY <1>1, <1>2, <1>3, <1>4

\* The arithmetic of the Range header, in all its forms: where sending begins, how
\* much of what is promised goes through the int, and, for a header that asks for
\* bytes that the file has, where it ends.
LEMMA RangeArithmetic ==
  ASSUME NEW r \in Ranges \union {<<>>}, ~Throws(r), NEW len \in Int,
         r # <<>> => len \in Nat
  PROVE  LET part == Part(r, len)
             from == IF part.offset < 0 THEN 0 ELSE part.offset
             first == FirstAsked(r, len)
             last == LastAsked(r, len)
         IN /\ from \in Nat /\ part.count \in Int /\ part.send \in Int
            /\ first = from + 1 /\ last \in Int
            /\ part.send <= part.count
            /\ /\ len \in Nat /\ Satisfiable(r, len)
               /\ r = <<>> \/ part.count <= MaxInt
               => /\ part.send = part.count
                  /\ last = IF from + part.count < len THEN from + part.count ELSE len
                  /\ Inside(r, len) => part.count = last - first + 1
<1> USE DEF Absent
<1>1. CASE r = <<>>
  BY <1>1 DEF FirstAsked, LastAsked, Part
<1>2. CASE r # <<>>
  <2>0. PICK a, b, M : a = r[1] /\ b = r[2] /\ M = MaxInt
    OBVIOUS
  <2>1. a \in -1 .. M /\ b \in -1 .. M /\ M \in Nat /\ len \in Nat
    BY <1>2, <2>0, BoundsAreInts, RangesAssumption
  <2> DEFINE beg == IF a # -1 THEN a ELSE IF b # -1 THEN len - b ELSE 0
             end == IF a # -1 /\ b # -1 THEN b
                    ELSE IF a = -1 /\ b = -1 THEN 0 ELSE len - 1
             need == end - beg + 1
             from == IF beg < 0 THEN 0 ELSE beg
             first == IF a # -1 THEN a + 1 ELSE IF b # -1 /\ b < len THEN len - b + 1 ELSE 1
             last == IF a = -1 \/ b = -1 \/ b >= len THEN len ELSE b + 1
             sat == (a = -1 /\ b > 0 /\ len > 0) \/ (a \in 0 .. len - 1 /\ (b = -1 \/ b >= a))
             inside == IF a = -1 THEN b <= len ELSE b < len
  <2>2. beg \in Int /\ end \in Int
    BY <2>1
  <2>3. need \in Int /\ from \in Int /\ first \in Int /\ last \in Int
    BY <2>1, <2>2
  <2>4. /\ need >= -(M + 1) /\ from \in Nat /\ first = from + 1
        /\ sat => /\ last = IF from + need < len THEN from + need ELSE len
                  /\ inside => need = last - first + 1
    <3>1. /\ beg = (IF a # -1 THEN a ELSE IF b # -1 THEN len - b ELSE 0)
          /\ end = (IF a # -1 /\ b # -1 THEN b ELSE IF a = -1 /\ b = -1 THEN 0 ELSE len - 1)
          /\ need = end - beg + 1 /\ from = (IF beg < 0 THEN 0 ELSE beg)
          /\ first = (IF a # -1 THEN a + 1
                      ELSE IF b # -1 /\ b < len THEN len - b + 1 ELSE 1)
          /\ last = (IF a = -1 \/ b = -1 \/ b >= len THEN len ELSE b + 1)
      OBVIOUS
    <3> HIDE DEF beg, end, need, from, first, last
    <3> QED
      BY <2>1, <2>2, <2>3, <3>1, HeaderArithmetic
  <2>5. /\ Part(r, len).offset = beg /\ Part(r, len).count = need
        /\ Part(r, len).send = IntCast(need)
    BY <1>2, <2>0 DEF Part, RangeSent
  <2>6. /\ FirstAsked(r, len) = first /\ LastAsked(r, len) = last
        /\ Satisfiable(r, len) <=> sat
        /\ Inside(r, len) <=> inside
    BY <1>2, <2>0 DEF FirstAsked, LastAsked, Satisfiable, Inside
  <2> HIDE DEF beg, end, need, first, last, sat, inside
  <2>7. /\ IntCast(need) \in Int /\ IntCast(need) <= M
        /\ need <= M => IntCast(need) = need
    BY <2>0, <2>3, <2>4, CastFacts
  <2>8. IntCast(need) <= need
    BY <2>1, <2>3, <2>7
  <2>9. r # <<>> /\ M = MaxInt
    BY <1>2, <2>0
  <2> QED
    BY <2>3, <2>4, <2>5, <2>6, <2>7, <2>8, <2>9
<1> QED
  BY <1>1, <1>2

\* FileServer.cc:289-361 and 557-596: whoever changes the file meanwhile, only bytes
\* of that file are sent, from the places that the Range header says and no more
\* than Content-Length; and a file that is there and that nobody touches is sent
\* as a satisfiable header asks, as far as the length fits an int.
THEOREM DownloadsStayIntact == Spec => []DownloadsIntact
<1>1. ASSUME FilesInv PROVE DownloadsIntact
  <2> SUFFICES ASSUME NEW w \in Workers, wpc[w] = "replied", job[w].op = "get"
               PROVE  LET j == job[w]
                          first == FirstAsked(j.range, j.len)
                          last == LastAsked(j.range, j.len)
                      IN /\ \A k \in 1 .. Len(j.sent) :
                              j.sent[k].file = j.file /\ j.sent[k].at = first + k - 1
                         /\ j.sent = <<>> \/ Len(j.sent) <= j.promised
                         /\ /\ clean[w] /\ dir[j.file] # 0 /\ Satisfiable(j.range, j.len)
                            /\ j.range = <<>> \/ j.promised <= MaxInt
                            => /\ j.sent = SubSeq(disk[dir[j.file]], first, last)
                               /\ Inside(j.range, j.len) => j.promised = last - first + 1
    BY DEF DownloadsIntact
  <2> DEFINE j == job[w]
             r == j.range
             len == j.len
             part == Part(r, len)
             from == IF part.offset < 0 THEN 0 ELSE part.offset
             first == FirstAsked(r, len)
             last == LastAsked(r, len)
  <2>1. /\ j.file \in Files /\ r \in Ranges \union {<<>>}
        /\ len \in Int /\ (r # <<>> => len \in Nat)
        /\ clean[w] /\ dir[j.file] # 0 => len = Len(disk[dir[j.file]])
        /\ ~Throws(r) /\ j.promised = part.count /\ SentFrom(j.sent, j.file, part)
        /\ clean[w] /\ dir[j.file] # 0 => j.sent = Bytes(disk[dir[j.file]], part)
    BY <1>1 DEF FilesInv, Downloading
  <2>2. /\ from \in Nat /\ part.count \in Int /\ part.send \in Int
        /\ first = from + 1 /\ last \in Int /\ part.send <= part.count
        /\ /\ len \in Nat /\ Satisfiable(r, len)
           /\ r = <<>> \/ part.count <= MaxInt
           => /\ part.send = part.count
              /\ last = IF from + part.count < len THEN from + part.count ELSE len
              /\ Inside(r, len) => part.count = last - first + 1
    BY <2>1, RangeArithmetic
  <2>3. /\ Len(j.sent) \in Nat
        /\ \A k \in 1 .. Len(j.sent) : j.sent[k].file = j.file /\ j.sent[k].at = k + from
        /\ j.sent = <<>> \/ Len(j.sent) <= part.send
    BY <2>1 DEF SentFrom
  <2> HIDE DEF j, r, len, part, from, first, last
  <2>4. \A k \in 1 .. Len(j.sent) : j.sent[k].file = j.file /\ j.sent[k].at = first + k - 1
    <3>1. \A k \in 1 .. Len(j.sent) : k + from = first + k - 1
      BY <2>2, <2>3
    <3> QED
      BY <2>3, <3>1
  <2>5. j.sent = <<>> \/ Len(j.sent) <= j.promised
    BY <2>1, <2>2, <2>3
  <2>6. ASSUME clean[w], dir[j.file] # 0, Satisfiable(r, len),
               r = <<>> \/ j.promised <= MaxInt
        PROVE  /\ j.sent = SubSeq(disk[dir[j.file]], first, last)
               /\ Inside(r, len) => j.promised = last - first + 1
    <3> DEFINE d == disk[dir[j.file]]
    <3>1. d \in Seq(Data) /\ len = Len(d) /\ len \in Nat /\ j.sent = Bytes(d, part)
      <4>1. InodesOK
        BY <1>1 DEF FilesInv, InodesOK
      <4>2. d \in Seq(Data)
        BY <2>1, <2>6, <4>1, InodeFacts
      <4> QED
        BY <2>1, <2>6, <4>2
    <3> HIDE DEF d
    <3>2. /\ part.send = part.count
          /\ last = IF from + part.send < Len(d) THEN from + part.send ELSE Len(d)
          /\ Inside(r, len) => part.count = last - first + 1
      BY <2>1, <2>2, <2>6, <3>1
    <3>3. Bytes(d, part) = SubSeq(d, first, last)
      BY <2>2, <3>2, Zenon DEF Bytes, from
    <3> QED
      BY <2>1, <3>1, <3>2, <3>3 DEF d
  <2> QED
    BY <2>4, <2>5, <2>6 DEF j, r, len, first, last
<1> QED
  BY <1>1, FilesInvariance, PTL

-----------------------------------------------------------------------------
(***************************************************************************)
(* The streams.                                                            *)
(***************************************************************************)

\* A set of numbers up to n that is not empty has a greatest one.
LEMMA GreatestExists ==
  ASSUME NEW n \in Nat, NEW S \in SUBSET (1 .. n), S # {}
  PROVE  \E x \in S : \A y \in S : y <= x
<1> DEFINE T == {n - x : x \in S}
<1>1. T \in SUBSET Nat /\ T # {}
  <2>1. \A x \in S : n - x \in Nat
    OBVIOUS
  <2>2. PICK x : x \in S
    OBVIOUS
  <2>3. n - x \in T
    BY <2>2
  <2> QED
    BY <2>1, <2>3
<1>2. PICK t \in T : \A y \in T : t <= y
  BY <1>1, LeastExists
<1>3. PICK x \in S : t = n - x
  BY <1>2
<1>4. ASSUME NEW y \in S PROVE y <= x
  <2>1. n - y \in T
    OBVIOUS
  <2>2. n - x <= n - y
    BY <1>2, <1>3, <2>1
  <2>3. x \in Nat /\ y \in Nat
    OBVIOUS
  <2> QED
    BY <2>2, <2>3
<1> QED
  BY <1>4

\* What the assumption says of each token.
LEMMA StreamFacts ==
  ASSUME NEW s \in Streams
  PROVE  /\ Len(s) \in Nat /\ DOMAIN s = 1 .. Len(s)
         /\ \A i \in 1 .. Len(s) :
              /\ s[i].kind = "line" => s[i].method \in Methods /\ s[i].version \in Versions
              /\ s[i].kind = "header" => s[i].field \in Fields
         /\ \A i \in 1 .. Len(s) - 1 : s[i].crlf
<1>1. s \in Seq(Tokens) /\ \A i \in 1 .. Len(s) - 1 : s[i].crlf
  BY StreamsAssumption
<1>2. Len(s) \in Nat /\ DOMAIN s = 1 .. Len(s) /\ \A i \in 1 .. Len(s) : s[i] \in Tokens
  BY <1>1, LenProperties
<1>3. ASSUME NEW t \in Tokens
      PROVE  /\ t.kind = "line" => t.method \in Methods /\ t.version \in Versions
             /\ t.kind = "header" => t.field \in Fields
  BY DEF Tokens
<1> QED
  BY <1>1, <1>2, <1>3

\* What a request has to be depends on the stream alone.
LEMMA StreamOnly ==
  ASSUME UNCHANGED stream
  PROVE  /\ \A v, f, S : LastOf(v, f, S)' <=> LastOf(v, f, S)
         /\ \A k, l : NextAfter(k, l)' <=> NextAfter(k, l)
         /\ \A l, H : Intact(l, H)' <=> Intact(l, H)
<1>1. \A l, e : IsHead(l, e)' <=> IsHead(l, e)
  BY DEF IsHead
<1>2. \A l : HeadEnd(l)' = HeadEnd(l)
  BY DEF HeadEnd, IsHead
<1>3. \A l : HasPart(l)' <=> HasPart(l)
  BY <1>2 DEF HasPart
<1>4. \A v, f, S : LastOf(v, f, S)' <=> LastOf(v, f, S)
  BY DEF LastOf
<1>5. \A k, l : NextAfter(k, l)' <=> NextAfter(k, l)
  BY <1>2, <1>3 DEF NextAfter
<1>6. \A l, H : Intact(l, H)' <=> Intact(l, H)
  BY <1>1, <1>3, <1>4, ZenonT(60) DEF Intact
<1> QED
  BY <1>4, <1>5, <1>6

\* Only one line ends a head.
LEMMA HeadEndIs ==
  ASSUME Len(stream) \in Nat, NEW l \in Nat, NEW e \in l + 1 .. Len(stream), IsHead(l, e)
  PROVE  HeadEnd(l) = e
<1>1. ASSUME NEW d \in l + 1 .. Len(stream), IsHead(l, d) PROVE d = e
  <2>1. ~(d < e)
    <3> SUFFICES ASSUME d < e PROVE FALSE
      OBVIOUS
    <3>1. d \in l + 1 .. e - 1
      OBVIOUS
    <3> QED
      BY <1>1, <3>1 DEF IsHead
  <2>2. ~(e < d)
    <3> SUFFICES ASSUME e < d PROVE FALSE
      OBVIOUS
    <3>1. e \in l + 1 .. d - 1
      OBVIOUS
    <3> QED
      BY <1>1, <3>1 DEF IsHead
  <2> QED
    BY <2>1, <2>2
<1> QED
  BY <1>1 DEF HeadEnd

-----------------------------------------------------------------------------
(***************************************************************************)
(* The parser.                                                             *)
(***************************************************************************)

\* The parser's place, and its types.
HttpTypes ==
  /\ HttpInv /\ stream \in Streams /\ Len(stream) \in Nat /\ DOMAIN stream = 1 .. Len(stream)
  /\ arrived \in Nat /\ read \in Nat /\ arrived <= 2 * Len(stream) /\ read <= Len(stream)

\* It has them.
LEMMA HasTypes == ASSUME HttpInv PROVE HttpTypes
BY StreamFacts DEF HttpInv, HttpTypeOK, HttpTypes

\* The next line has arrived.
LEMMA FindsLine ==
  ASSUME HttpInv, FindsCRLF
  PROVE  read + 1 \in 1 .. Len(stream) /\ 2 * (read + 1) <= arrived
BY HasTypes DEF HttpTypes, FindsCRLF, Arrived

\* Where a request may begin changes with those handled.
LEMMA MayBeginSame ==
  ASSUME UNCHANGED <<stream, handled>>
  PROVE  \A l : MayBegin(l)' <=> MayBegin(l)
BY StreamOnly DEF MayBegin

\* A step that leaves the parser where it is.
LEMMA PlaceKept ==
  ASSUME HttpInv, UNCHANGED <<stream, handled, read, torn, ctx, request>>, pc # "crashed"
  PROVE  RequestSoFar' /\ BeginsBehind'
<1>1. RequestSoFar'
  BY StreamOnly DEF HttpInv, RequestSoFar, HeadedBy
<1>2. BeginsBehind'
  BY StreamOnly, MayBeginSame DEF HttpInv, BeginsBehind
<1> QED
  BY <1>1, <1>2

\* What has been handled and replied is left alone while parsing.
LEMMA HistoryKept ==
  ASSUME HttpInv, UNCHANGED <<stream, conn, replies, handled>>,
         pc # "crashed", pc' # "crashed"
  PROVE  RequestsIntact' /\ RepliedToAll' /\ RepliesFollowRequests'
<1>1. RequestsIntact'
  BY StreamOnly DEF HttpInv, RequestsIntact
<1>2. RepliedToAll'
  BY DEF HttpInv, RepliedToAll
<1>3. RepliesFollowRequests'
  BY DEF HttpInv, RepliesFollowRequests
<1> QED
  BY <1>1, <1>2, <1>3

\* The requests that have been handled have their types.
LEMMA HandledTypes ==
  ASSUME HttpInv
  PROVE  /\ Len(handled) \in Nat /\ DOMAIN handled = 1 .. Len(handled)
         /\ \A i \in DOMAIN handled : handled[i].line \in Nat
<1>1. handled \in Seq(HandledData)
  BY DEF HttpInv, HttpTypeOK
<1>2. \A r \in HandledData : r.line \in Nat
  BY DEF HandledData
<1>3. Len(handled) \in Nat /\ DOMAIN handled = 1 .. Len(handled)
      /\ \A i \in 1 .. Len(handled) : handled[i] \in HandledData
  BY <1>1, LenProperties
<1> QED
  BY <1>2, <1>3

\* More bytes.
LEMMA OnMessageKeeps == ASSUME HttpInv, NEW n \in Nat, OnMessage(n) PROVE HttpInv'
<1>1. /\ pc = "idle" /\ arrived + n <= 2 * Len(stream) /\ arrived' = arrived + n
      /\ ok' = FALSE /\ pc' = "parse"
      /\ UNCHANGED <<stream, read, torn, ctx, request, mString, conn, replies, handled>>
  BY DEF OnMessage
<1>2. HttpTypes
  BY HasTypes
<1>3. HttpTypeOK'
  <2>1. arrived' \in 0 .. 2 * Len(stream)
    BY <1>1, <1>2 DEF HttpTypes
  <2> QED
    BY <1>1, <2>1 DEF HttpInv, HttpTypeOK
<1>4. ReadsArrived'
  BY <1>1, <1>2 DEF HttpInv, HttpTypes, ReadsArrived
<1> QED
  BY <1>1, <1>3, <1>4, PlaceKept, HistoryKept DEF HttpInv

\* No line yet.
LEMMA NeedsMoreKeeps == ASSUME HttpInv, NeedsMore PROVE HttpInv'
<1>1. /\ pc = "parse" /\ pc' = "reply"
      /\ UNCHANGED <<stream, arrived, read, torn, ctx, request, mString, ok, conn, replies, handled>>
  BY DEF NeedsMore
<1>2. HttpTypeOK'
  BY <1>1 DEF HttpInv, HttpTypeOK
<1>3. ReadsArrived'
  BY <1>1 DEF HttpInv, ReadsArrived
<1> QED
  BY <1>1, <1>2, <1>3, PlaceKept, HistoryKept DEF HttpInv

\* The request line, or something else in its place.
LEMMA ParseRequestLineKeeps == ASSUME HttpInv, ParseRequestLine PROVE HttpInv'
<1> PICK i : i = read + 1
  OBVIOUS
<1>1. /\ pc = "parse" /\ ctx = "kExpectRequestLine" /\ FindsCRLF
      /\ UNCHANGED <<stream, arrived, torn, conn, replies, handled>>
  BY DEF ParseRequestLine
<1>2. HttpTypes
  BY HasTypes
<1>3. i \in 1 .. Len(stream) /\ 2 * i <= arrived /\ i \in Nat
  BY <1>1, <1>2, FindsLine DEF HttpTypes
<1>4. CASE IsRequestLine(i)
  <2>1. /\ ~torn /\ stream[i].kind = "line" /\ request' = WithLine(request, i)
        /\ ok' = TRUE /\ read' = i /\ ctx' = "kExpectHeaders" /\ pc' = pc
    BY <1>4 DEF ParseRequestLine, IsRequestLine
  <2>2. stream[i].method \in Methods /\ stream[i].version \in Versions
    BY <1>2, <1>3, <2>1, StreamFacts DEF HttpTypes
  <2>3. request \in RequestData /\ request.headers = NoHeaders
    BY <1>1 DEF HttpInv, HttpTypeOK, RequestSoFar
  <2>4. /\ request' \in RequestData /\ request'.line = i /\ request'.headers = NoHeaders
        /\ request'.method = stream[i].method
    BY <1>3, <2>1, <2>2, <2>3 DEF WithLine, RequestData
  <2>5. HttpTypeOK'
    <3>1. read' \in 0 .. Len(stream)
      BY <1>3, <2>1
    <3> QED
      BY <1>1, <2>1, <2>4, <3>1 DEF HttpInv, HttpTypeOK
  <2>6. ReadsArrived'
    BY <1>1, <1>3, <2>1 DEF ReadsArrived
  <2>7. HeadedBy(read)'
    <3>1. i + 1 .. i = {} /\ i \in 1 .. i
      BY <1>3
    <3>2. \A f \in Fields : LastOf(0, f, {})
      BY DEF LastOf
    <3>3. \A f \in Fields : LastOf(NoHeaders[f], f, i + 1 .. i)'
      BY <1>1, <3>1, <3>2, StreamOnly DEF NoHeaders
    <3> QED
      BY <1>1, <2>1, <2>4, <3>1, <3>3 DEF HeadedBy
  <2>8. RequestSoFar'
    BY <2>1, <2>7 DEF RequestSoFar
  <2>9. MayBegin(i)
    BY <1>1, <2>1 DEF HttpInv, BeginsBehind
  <2>10. BeginsBehind'
    BY <1>1, <2>1, <2>4, <2>9, MayBeginSame DEF BeginsBehind
  <2> QED
    BY <1>1, <2>1, <2>5, <2>6, <2>8, <2>10, HistoryKept DEF HttpInv
<1>5. CASE ~IsRequestLine(i)
  <2>1. ok' = FALSE /\ pc' = "reply" /\ UNCHANGED <<read, ctx, request>>
    BY <1>5 DEF ParseRequestLine
  <2>2. HttpTypeOK'
    BY <1>1, <2>1 DEF HttpInv, HttpTypeOK
  <2>3. ReadsArrived'
    BY <1>1, <2>1 DEF HttpInv, ReadsArrived
  <2> QED
    BY <1>1, <2>1, <2>2, <2>3, PlaceKept, HistoryKept DEF HttpInv
<1> QED
  BY <1>4, <1>5

\* The last line of a field, when there is one more line.
LEMMA LastGrows ==
  ASSUME NEW a \in Nat, NEW i \in Nat, NEW v, NEW f, a < i, LastOf(v, f, a + 1 .. i - 1)
  PROVE  /\ stream[i].field # f => LastOf(v, f, a + 1 .. i)
         /\ stream[i].field = f => LastOf(i, f, a + 1 .. i)
<1>1. \A h \in a + 1 .. i : h = i \/ h \in a + 1 .. i - 1
  OBVIOUS
<1>2. i \in a + 1 .. i /\ \A h \in a + 1 .. i - 1 : h \in a + 1 .. i
  OBVIOUS
<1>3. \A h \in a + 1 .. i : ~(h > i)
  OBVIOUS
<1>4. ASSUME stream[i].field # f PROVE LastOf(v, f, a + 1 .. i)
  BY <1>1, <1>2, <1>4 DEF LastOf
<1>5. ASSUME stream[i].field = f PROVE LastOf(i, f, a + 1 .. i)
  BY <1>2, <1>3, <1>5 DEF LastOf
<1> QED
  BY <1>4, <1>5

\* A header, or the end of them.
LEMMA ParseHeadersKeeps == ASSUME HttpInv, ParseHeaders PROVE HttpInv'
<1> PICK i : i = read + 1
  OBVIOUS
<1> PICK l : l = request.line
  OBVIOUS
<1>1. /\ pc = "parse" /\ ctx = "kExpectHeaders" /\ FindsCRLF /\ read' = i
      /\ UNCHANGED <<stream, arrived, torn, mString, ok, pc, conn, replies, handled>>
  BY DEF ParseHeaders
<1>2. HttpTypes
  BY HasTypes
<1>3. i \in 1 .. Len(stream) /\ 2 * i <= arrived /\ i \in Nat /\ read = i - 1 /\ read \in Nat
  BY <1>1, <1>2, FindsLine DEF HttpTypes
<1>4. /\ l \in 1 .. i - 1 /\ stream[l].kind = "line" /\ request.method = stream[l].method
      /\ \A h \in l + 1 .. i - 1 : stream[h].kind = "header"
      /\ \A f \in Fields : LastOf(request.headers[f], f, l + 1 .. i - 1)
  BY <1>1, <1>3 DEF HttpInv, RequestSoFar, HeadedBy
<1>5. l \in Nat /\ l < i /\ l \in 1 .. i
  BY <1>3, <1>4
<1>6. ReadsArrived'
  <2>1. ~torn
    BY <1>1 DEF HttpInv, ReadsArrived
  <2> QED
    BY <1>1, <1>3, <2>1 DEF ReadsArrived
<1>7. read' \in 0 .. Len(stream)
  BY <1>1, <1>3
<1>8. MayBegin(l)'
  BY <1>1, MayBeginSame DEF HttpInv, BeginsBehind
<1>9. request \in RequestData
  BY DEF HttpInv, HttpTypeOK
<1>10. CASE stream[i].kind = "header"
  <2>1. request' = WithHeader(request, i) /\ ctx' = ctx
    BY <1>10 DEF ParseHeaders
  <2>2. stream[i].field \in Fields
    BY <1>2, <1>3, <1>10, StreamFacts DEF HttpTypes
  <2>3. /\ request' \in RequestData /\ request'.line = l /\ request'.method = request.method
        /\ \A f \in Fields : request'.headers[f] = IF f = stream[i].field THEN i ELSE request.headers[f]
    BY <1>3, <1>9, <2>1, <2>2 DEF WithHeader, RequestData
  <2>4. \A h \in l + 1 .. i : stream[h].kind = "header"
    <3>1. \A h \in l + 1 .. i : h = i \/ h \in l + 1 .. i - 1
      BY <1>3, <1>5
    <3> QED
      BY <1>4, <1>10, <3>1
  <2>5. ASSUME NEW f \in Fields PROVE LastOf(request'.headers[f], f, l + 1 .. i)
    <3>1. LastOf(request.headers[f], f, l + 1 .. i - 1)
      BY <1>4
    <3>2. /\ stream[i].field # f => LastOf(request.headers[f], f, l + 1 .. i)
          /\ stream[i].field = f => LastOf(i, f, l + 1 .. i)
      BY <1>3, <1>5, <3>1, LastGrows
    <3> QED
      BY <2>3, <3>2
  <2>6. HeadedBy(read)'
    BY <1>1, <1>4, <1>5, <2>3, <2>4, <2>5, StreamOnly DEF HeadedBy
  <2>7. RequestSoFar'
    BY <1>1, <2>1, <2>6 DEF RequestSoFar
  <2>8. HttpTypeOK'
    BY <1>1, <1>7, <2>1, <2>3 DEF HttpInv, HttpTypeOK
  <2>9. BeginsBehind'
    BY <1>1, <1>8, <2>1, <2>3 DEF BeginsBehind
  <2> QED
    BY <1>1, <1>6, <2>7, <2>8, <2>9, HistoryKept DEF HttpInv
<1>11. CASE stream[i].kind # "header"
  <2>1. request' = request /\ ctx' = "kExpectBody"
    BY <1>11 DEF ParseHeaders
  <2>2. HeadedBy(read - 1)'
    BY <1>1, <1>4, <2>1, StreamOnly DEF HeadedBy
  <2>3. RequestSoFar'
    BY <1>1, <1>3, <1>11, <2>1, <2>2 DEF RequestSoFar
  <2>4. HttpTypeOK'
    BY <1>1, <1>7, <2>1 DEF HttpInv, HttpTypeOK
  <2>5. BeginsBehind'
    BY <1>1, <1>8, <2>1 DEF BeginsBehind
  <2> QED
    BY <1>1, <1>6, <2>3, <2>4, <2>5, HistoryKept DEF HttpInv
<1> QED
  BY <1>10, <1>11

\* The head that the parser has when it comes to the body.
LEMMA HeadRead ==
  ASSUME HttpInv, ctx = "kExpectBody", NEW l, l = request.line
  PROVE  /\ ~torn /\ l \in 1 .. read - 1 /\ read \in 1 .. Len(stream) /\ l \in DOMAIN stream
         /\ stream[l].kind = "line" /\ request.method = stream[l].method
         /\ read \in l + 1 .. Len(stream) /\ IsHead(l, read) /\ HeadEnd(l) = read
         /\ \A f \in Fields : LastOf(request.headers[f], f, l + 1 .. read - 1)
<1>1. HttpTypes
  BY HasTypes
<1>2. ~torn
  BY DEF HttpInv, ReadsArrived
<1>3. /\ read > 0 /\ l \in 1 .. read - 1 /\ stream[l].kind = "line" /\ request.method = stream[l].method
      /\ stream[read].kind # "header" /\ \A h \in l + 1 .. read - 1 : stream[h].kind = "header"
      /\ \A f \in Fields : LastOf(request.headers[f], f, l + 1 .. read - 1)
  BY DEF HttpInv, RequestSoFar, HeadedBy
<1>4. l \in Nat /\ read \in l + 1 .. Len(stream) /\ read \in 1 .. Len(stream) /\ l \in DOMAIN stream
  BY <1>1, <1>3 DEF HttpTypes
<1>5. IsHead(l, read)
  BY <1>3 DEF IsHead
<1>6. HeadEnd(l) = read
  BY <1>1, <1>4, <1>5, HeadEndIs DEF HttpTypes
<1> QED
  BY <1>2, <1>3, <1>4, <1>5, <1>6

\* The request is complete.
LEMMA GotAllKeeps ==
  ASSUME HttpInv, pc = "parse", ctx = "kExpectBody", GotAll,
         request' \in RequestData, request'.line = request.line,
         Intact(request.line, request'.headers),
         read' \in 0 .. Len(stream), 2 * read' <= arrived, torn' \in BOOLEAN,
         torn' => 2 * read' < arrived, ~torn' => NextAfter(request.line, read' + 1)
  PROVE  HttpInv'
<1>1. /\ ctx' = "kGotAll" /\ pc' = "reply"
      /\ UNCHANGED <<stream, arrived, ok, conn, replies, handled, whole>>
  BY DEF GotAll
<1>2. HttpTypeOK'
  BY <1>1 DEF HttpInv, HttpTypeOK
<1>3. ReadsArrived'
  BY <1>1 DEF ReadsArrived
<1>4. RequestSoFar'
  BY <1>1, StreamOnly DEF RequestSoFar
<1>5. BeginsBehind'
  BY <1>1, StreamOnly, MayBeginSame DEF HttpInv, BeginsBehind
<1> QED
  BY <1>1, <1>2, <1>3, <1>4, <1>5, HistoryKept DEF HttpInv

\* No part.
LEMMA ParseBodyKeeps == ASSUME HttpInv, ParseBody PROVE HttpInv'
<1> PICK l : l = request.line
  OBVIOUS
<1>1. /\ pc = "parse" /\ ctx = "kExpectBody" /\ GotAll
      /\ UNCHANGED <<read, torn, request>>
  BY DEF ParseBody
<1>2. HttpTypes /\ torn \in BOOLEAN /\ request \in RequestData
  BY HasTypes DEF HttpInv, HttpTypeOK
<1>3. /\ ~torn /\ l \in 1 .. read - 1 /\ read \in 1 .. Len(stream) /\ l \in DOMAIN stream
      /\ stream[l].kind = "line" /\ read \in l + 1 .. Len(stream) /\ IsHead(l, read)
      /\ HeadEnd(l) = read
      /\ \A f \in Fields : LastOf(request.headers[f], f, l + 1 .. read - 1)
  BY <1>1, HeadRead
<1>4. /\ (l + 1 .. read - 1) \union (read + 2 .. read) = l + 1 .. read - 1
      /\ read \in read .. Len(stream) /\ ~(read > read)
  BY <1>2, <1>3 DEF HttpTypes
<1>5. Intact(l, request.headers)
  <2>1. \A f \in Fields :
          LastOf(request.headers[f], f, (l + 1 .. read - 1) \union (read + 2 .. read))
    BY <1>3, <1>4
  <2>2. \E p \in read .. Len(stream) :
          /\ p > read => HasPart(l) /\ \A h \in read + 2 .. p : stream[h].kind = "header"
          /\ \A f \in Fields :
               LastOf(request.headers[f], f, (l + 1 .. read - 1) \union (read + 2 .. p))
    BY <1>4, <2>1
  <2> QED
    BY <1>3, <2>2 DEF Intact
<1>6. read' \in 0 .. Len(stream) /\ 2 * read' <= arrived
  BY <1>1, <1>2 DEF HttpTypes, HttpInv, ReadsArrived
<1>7. NextAfter(l, read' + 1)
  BY <1>1, <1>2, <1>3 DEF NextAfter, HttpTypes
<1> QED
  BY <1>1, <1>2, <1>3, <1>5, <1>6, <1>7, GotAllKeeps

\* The lines of the part that are there follow each other.
LEMMA PartIs ==
  ASSUME HttpTypes, AtBoundary
  PROVE  \E p \in read + 1 .. Len(stream) : PartLines = read + 2 .. p
<1> DEFINE S == {i \in read + 2 .. Len(stream) + 1 : i \notin PartLines}
<1>1. Len(stream) \in Nat /\ read \in Nat /\ arrived \in Nat /\ read + 1 <= Len(stream)
      /\ stream \in Streams
  BY DEF HttpTypes, AtBoundary
<1>2. Len(stream) + 1 \notin PartLines
  BY <1>1 DEF PartLines
<1>3. S \in SUBSET Nat /\ S # {}
  BY <1>1, <1>2
<1>4. PICK x \in S : \A y \in S : x <= y
  BY <1>3, LeastExists
<1>5. x \in read + 2 .. Len(stream) + 1 /\ x \notin PartLines
  BY <1>4
<1>6. ASSUME NEW i \in read + 2 .. x - 1 PROVE i \in PartLines
  <2> SUFFICES ASSUME i \notin PartLines PROVE FALSE
    OBVIOUS
  <2>1. i \in read + 2 .. Len(stream) + 1 /\ i < x
    BY <1>1, <1>5
  <2>2. i \in S
    BY <2>1
  <2>3. x <= i
    BY <1>4, <2>2
  <2> QED
    BY <1>1, <1>5, <2>1, <2>3
<1>7. ASSUME NEW i \in PartLines PROVE i \in read + 2 .. x - 1
  <2> SUFFICES ASSUME i \notin read + 2 .. x - 1 PROVE FALSE
    OBVIOUS
  <2>1. /\ i \in read + 2 .. Len(stream) /\ 2 * i <= arrived
        /\ \A j \in read + 2 .. i : stream[j].kind = "header"
    BY DEF PartLines, Arrived
  <2>2. i # x /\ x < i /\ x \in read + 2 .. Len(stream) /\ x \in 1 .. Len(stream) - 1
    BY <1>1, <1>5, <2>1
  <2>3. 2 * x <= arrived /\ \A j \in read + 2 .. x : j \in read + 2 .. i
    BY <1>1, <2>1, <2>2
  <2>4. stream[x].crlf
    BY <1>1, <2>2, StreamFacts
  <2>5. x \in PartLines
    BY <2>1, <2>2, <2>3, <2>4 DEF PartLines, Arrived
  <2> QED
    BY <1>5, <2>5
<1>8. x - 1 \in read + 1 .. Len(stream)
  BY <1>1, <1>5
<1>9. PartLines = read + 2 .. x - 1
  BY <1>6, <1>7, Zenon
<1> QED
  BY <1>8, <1>9

\* The greatest of a set of numbers.
Newest(S) == CHOOSE i \in S : \A j \in S : j <= i

\* The headers of these lines replace those of the request.
LEMMA PartIntact ==
  ASSUME HttpInv, ctx = "kExpectBody", request.method = "POST", AtBoundary,
         request' = WithPart(request)
  PROVE  /\ request' \in RequestData /\ request'.line = request.line
         /\ Intact(request.line, request'.headers) /\ HasPart(request.line)
         /\ HeadEnd(request.line) = read
<1> PICK l : l = request.line
  OBVIOUS
<1>1. HttpTypes /\ request \in RequestData
  BY HasTypes DEF HttpInv, HttpTypeOK
<1>2. /\ ~torn /\ l \in 1 .. read - 1 /\ read \in 1 .. Len(stream) /\ l \in DOMAIN stream
      /\ stream[l].kind = "line" /\ request.method = stream[l].method
      /\ read \in l + 1 .. Len(stream) /\ IsHead(l, read) /\ HeadEnd(l) = read
      /\ \A f \in Fields : LastOf(request.headers[f], f, l + 1 .. read - 1)
  BY HeadRead
<1>3. HasPart(l)
  BY <1>2 DEF HasPart, AtBoundary
<1>4. PICK p \in read + 1 .. Len(stream) : PartLines = read + 2 .. p
  BY <1>1, PartIs
<1>5. Len(stream) \in Nat /\ read \in Nat /\ l \in Nat /\ p \in Nat /\ p <= Len(stream) /\ p > read
      /\ l < read
  BY <1>1, <1>2, <1>4 DEF HttpTypes
<1>6. \A h \in read + 2 .. p : stream[h].kind = "header"
  <2> SUFFICES ASSUME NEW h \in read + 2 .. p PROVE stream[h].kind = "header"
    OBVIOUS
  <2>1. h \in PartLines /\ h \in read + 2 .. h
    BY <1>4, <1>5
  <2> QED
    BY <2>1 DEF PartLines
<1> PICK H : H = request'.headers
  OBVIOUS
<1>7. /\ \A f \in Fields :
           H[f] = IF {i \in PartLines : stream[i].field = f} = {} THEN request.headers[f]
                  ELSE Newest({i \in PartLines : stream[i].field = f})
      /\ DOMAIN H = Fields /\ request' = [request EXCEPT !.headers = H]
      /\ H = [f \in Fields |-> H[f]]
  BY <1>1 DEF WithPart, RequestData, Newest
<1>8. ASSUME NEW f \in Fields
      PROVE  /\ H[f] \in Nat
             /\ LastOf(H[f], f, (l + 1 .. read - 1) \union (read + 2 .. p))
  <2> PICK v : v = request.headers[f]
    OBVIOUS
  <2>0. v \in Nat /\ LastOf(v, f, l + 1 .. read - 1)
    BY <1>1, <1>2 DEF RequestData
  <2> PICK G : G = {i \in read + 2 .. p : stream[i].field = f}
    OBVIOUS
  <2>1. H[f] = IF G = {} THEN v ELSE Newest(G)
    BY <1>4, <1>7
  <2>2. CASE G = {}
    <3>1. H[f] = v /\ \A h \in read + 2 .. p : stream[h].field # f
      BY <2>1, <2>2
    <3> QED
      BY <2>0, <3>1 DEF LastOf
  <2>3. CASE G # {}
    <3>1. G \in SUBSET (1 .. Len(stream))
      BY <1>5
    <3>2. \E i \in G : \A j \in G : j <= i
      BY <1>5, <2>3, <3>1, GreatestExists
    <3>3. H[f] \in G /\ \A j \in G : j <= H[f]
      BY <2>1, <2>3, <3>2 DEF Newest
    <3>4. H[f] \in read + 2 .. p /\ stream[H[f]].field = f /\ H[f] \in Nat
      BY <1>5, <3>3
    <3>5. ASSUME NEW h \in (l + 1 .. read - 1) \union (read + 2 .. p), h > H[f]
          PROVE  stream[h].field # f
      <4>1. h \in read + 2 .. p
        BY <1>5, <3>4, <3>5
      <4> QED
        BY <1>5, <3>3, <3>4, <3>5, <4>1
    <3> QED
      BY <3>4, <3>5 DEF LastOf
  <2> QED
    BY <2>2, <2>3
<1>9. H \in [Fields -> Nat]
  BY <1>7, <1>8
<1>10. request' \in RequestData /\ request'.line = l
  BY <1>1, <1>7, <1>9 DEF RequestData
<1>11. Intact(l, H)
  <2>1. p \in read .. Len(stream)
    BY <1>5
  <2> QED
    BY <1>2, <1>3, <1>6, <1>8, <2>1 DEF Intact
<1> QED
  BY <1>2, <1>3, <1>10, <1>11

\* A part that is there.
LEMMA ParsePartKeeps == ASSUME HttpInv, ParsePart PROVE HttpInv'
<1>1. /\ pc = "parse" /\ ctx = "kExpectBody" /\ request.method = "POST" /\ AtBoundary /\ GotAll
      /\ read' \in PartEnd /\ torn' = torn /\ request' = WithPart(request)
  BY DEF ParsePart
<1>2. HttpTypes /\ ~torn /\ torn \in BOOLEAN
  BY <1>1, HasTypes, HeadRead DEF HttpInv, HttpTypeOK
<1>3. read' \in 0 .. Len(stream) /\ 2 * read' <= arrived /\ read' + 1 > read
  <2>1. read' \in read + 2 .. Len(stream) /\ 2 * read' <= arrived
    BY <1>1 DEF PartEnd, Arrived
  <2>2. read \in Nat /\ Len(stream) \in Nat
    BY <1>2 DEF HttpTypes
  <2>3. ASSUME NEW x \in read + 2 .. Len(stream) PROVE x \in 0 .. Len(stream) /\ x + 1 > read
    BY <2>2
  <2> QED
    BY <2>1, <2>3
<1>4. /\ request' \in RequestData /\ request'.line = request.line
      /\ Intact(request.line, request'.headers) /\ HasPart(request.line)
      /\ HeadEnd(request.line) = read
  BY <1>1, PartIntact
<1>5. NextAfter(request.line, read' + 1)
  BY <1>3, <1>4 DEF NextAfter
<1> QED
  BY <1>1, <1>2, <1>3, <1>4, <1>5, GotAllKeeps

\* A part that is cut short.
LEMMA ParsePartCutKeeps == ASSUME HttpInv, ParsePartCut PROVE HttpInv'
<1>1. /\ pc = "parse" /\ ctx = "kExpectBody" /\ request.method = "POST" /\ AtBoundary /\ GotAll
      /\ read' = arrived \div 2 /\ torn' = (arrived % 2 = 1) /\ request' = WithPart(request)
  BY DEF ParsePartCut
<1>2. arrived \in Nat /\ 2 * read <= arrived /\ arrived <= 2 * Len(stream) /\ Len(stream) \in Nat
      /\ read \in Nat
  BY HasTypes DEF HttpTypes, HttpInv, ReadsArrived
<1>3. /\ arrived \div 2 \in 0 .. Len(stream) /\ 2 * (arrived \div 2) <= arrived
      /\ arrived % 2 = 1 => 2 * (arrived \div 2) < arrived
      /\ (arrived \div 2) + 1 > read
  BY <1>2
<1>4. /\ request' \in RequestData /\ request'.line = request.line
      /\ Intact(request.line, request'.headers) /\ HasPart(request.line)
      /\ HeadEnd(request.line) = read
  BY <1>1, PartIntact
<1>5. NextAfter(request.line, read' + 1)
  BY <1>1, <1>3, <1>4 DEF NextAfter
<1> QED
  BY <1>1, <1>3, <1>4, <1>5, GotAllKeeps

\* What Append does.
LEMMA AppendFacts ==
  ASSUME NEW S, NEW s \in Seq(S), NEW e \in S
  PROVE  /\ Append(s, e) \in Seq(S) /\ Len(s) \in Nat /\ Len(Append(s, e)) = Len(s) + 1
         /\ DOMAIN s = 1 .. Len(s) /\ DOMAIN Append(s, e) = 1 .. Len(s) + 1
         /\ \A i \in 1 .. Len(s) : Append(s, e)[i] = s[i]
         /\ Append(s, e)[Len(s) + 1] = e
BY AppendProperties, LenProperties

\* A complete request is handled: it is intact, and where it should begin.
LEMMA HandledGrows ==
  ASSUME HttpInv, ctx = "kGotAll", pc # "crashed", UNCHANGED <<stream, read, torn>>,
         handled' = Answered(request)
  PROVE  /\ handled' \in Seq(HandledData) /\ RequestsIntact'
         /\ Len(handled') = Len(handled) + 1
         /\ handled'[Len(handled) + 1].line = request.line
         /\ \A i \in 1 .. Len(handled) : handled'[i] = handled[i]
         /\ ~torn' => MayBegin(read + 1)'
<1> PICK r : r = [line |-> request.line, headers |-> request.headers]
  OBVIOUS
<1>1. /\ handled \in Seq(HandledData) /\ r \in HandledData
      /\ r.line = request.line /\ r.headers = request.headers
  BY DEF HttpInv, HttpTypeOK, RequestData, HandledData
<1>2. handled' = Append(handled, r)
  BY DEF Answered
<1>3. /\ handled' \in Seq(HandledData) /\ Len(handled) \in Nat /\ Len(handled') = Len(handled) + 1
      /\ DOMAIN handled = 1 .. Len(handled) /\ DOMAIN handled' = 1 .. Len(handled) + 1
      /\ \A i \in 1 .. Len(handled) : handled'[i] = handled[i]
      /\ handled'[Len(handled) + 1] = r
  BY <1>1, <1>2, AppendFacts
<1>4. Intact(request.line, request.headers) /\ MayBegin(request.line)
  BY DEF HttpInv, RequestSoFar, BeginsBehind
<1>5. handled = <<>> <=> Len(handled) = 0
  BY <1>1, EmptySeq
<1>6. ASSUME ~torn' PROVE MayBegin(read + 1)'
  <2>1. NextAfter(request.line, read + 1)
    BY <1>6 DEF HttpInv, BeginsBehind
  <2>3. handled' # <<>>
    BY <1>3
  <2>4. handled'[Len(handled')].line = request.line
    BY <1>1, <1>3
  <2>5. NextAfter(handled'[Len(handled')].line, read + 1)
    BY <2>1, <2>4
  <2> QED
    BY <2>3, <2>5, StreamOnly DEF MayBegin
<1>7. ASSUME NEW i \in 1 .. Len(handled) + 1
      PROVE  /\ Intact(handled'[i].line, handled'[i].headers)
             /\ IF i = 1 THEN handled'[i].line = 1
                         ELSE NextAfter(handled'[i - 1].line, handled'[i].line)
  <2>1. CASE i \in 1 .. Len(handled)
    <3>1. /\ Intact(handled[i].line, handled[i].headers)
          /\ IF i = 1 THEN handled[i].line = 1 ELSE NextAfter(handled[i - 1].line, handled[i].line)
      BY <1>3, <2>1 DEF HttpInv, RequestsIntact
    <3>2. handled'[i] = handled[i] /\ (i # 1 => handled'[i - 1] = handled[i - 1])
      BY <1>3, <2>1
    <3> QED
      BY <3>1, <3>2
  <2>2. CASE i = Len(handled) + 1
    <3>1. Intact(handled'[i].line, handled'[i].headers)
      BY <1>1, <1>3, <1>4, <2>2
    <3>2. CASE i = 1
      BY <1>1, <1>3, <1>4, <1>5, <2>2, <3>1, <3>2 DEF MayBegin
    <3>3. CASE i # 1
      <4>1. handled # <<>> /\ i - 1 = Len(handled) /\ i - 1 \in 1 .. Len(handled)
        BY <1>3, <1>5, <2>2, <3>3
      <4>2. NextAfter(handled[i - 1].line, request.line)
        BY <1>4, <4>1 DEF MayBegin
      <4> QED
        BY <1>1, <1>3, <2>2, <3>1, <3>3, <4>1, <4>2
    <3> QED
      BY <3>2, <3>3
  <2>3. i \in 1 .. Len(handled) \/ i = Len(handled) + 1
    BY <1>3
  <2> QED
    BY <2>1, <2>2, <2>3
<1>8. RequestsIntact'
  BY <1>3, <1>7, StreamOnly DEF RequestsIntact
<1> QED
  BY <1>1, <1>3, <1>6, <1>8

\* The first part of RepliesFollowRequests, of any two histories.
Follow(sent, got) ==
  \A i \in 1 .. Len(sent) :
    \/ i <= Len(got) /\ sent[i] = got[i].line
    \/ i = Len(sent) /\ sent[i] = BadRequest

\* Each request has its reply, and nothing else was sent.
AllReplied(sent, got) ==
  Len(sent) = Len(got) /\ \A i \in 1 .. Len(sent) : sent[i] = got[i].line

\* A history and one that is longer by request k, or the same.
Longer(got, more) ==
  /\ Len(got) \in Nat /\ Len(more) \in {Len(got), Len(got) + 1}
  /\ \A i \in 1 .. Len(got) : more[i] = got[i]

\* Replies stay good when a request is added.
LEMMA FollowLonger ==
  ASSUME NEW sent \in Seq(Nat), NEW got, NEW more, Longer(got, more), Follow(sent, got)
  PROVE  Follow(sent, more)
<1> SUFFICES ASSUME NEW i \in 1 .. Len(sent)
             PROVE  (i <= Len(more) /\ sent[i] = more[i].line) \/ (i = Len(sent) /\ sent[i] = BadRequest)
  BY DEF Follow
<1>1. (i <= Len(got) /\ sent[i] = got[i].line) \/ (i = Len(sent) /\ sent[i] = BadRequest)
  BY DEF Follow
<1>2. Len(got) \in Nat /\ Len(more) \in {Len(got), Len(got) + 1} /\ \A j \in 1 .. Len(got) : more[j] = got[j]
  BY DEF Longer
<1>3. i \in Nat /\ i >= 1
  OBVIOUS
<1> QED
  BY <1>1, <1>2, <1>3

\* A bad request may be told last.
LEMMA FollowBad ==
  ASSUME NEW sent \in Seq(Nat), NEW got, NEW more, Longer(got, more), AllReplied(sent, got)
  PROVE  Follow(Append(sent, BadRequest), more)
<1>1. /\ Len(sent) \in Nat /\ Len(Append(sent, BadRequest)) = Len(sent) + 1
      /\ \A i \in 1 .. Len(sent) : Append(sent, BadRequest)[i] = sent[i]
      /\ Append(sent, BadRequest)[Len(sent) + 1] = BadRequest
  BY AppendFacts DEF BadRequest
<1>2. Len(got) \in Nat /\ Len(more) \in {Len(got), Len(got) + 1} /\ \A j \in 1 .. Len(got) : more[j] = got[j]
  BY DEF Longer
<1>3. Len(sent) = Len(got) /\ \A i \in 1 .. Len(sent) : sent[i] = got[i].line
  BY DEF AllReplied
<1> SUFFICES ASSUME NEW i \in 1 .. Len(sent) + 1
             PROVE  \/ i <= Len(more) /\ Append(sent, BadRequest)[i] = more[i].line
                    \/ i = Len(sent) + 1 /\ Append(sent, BadRequest)[i] = BadRequest
  BY <1>1 DEF Follow
<1>4. i = Len(sent) + 1 \/ (i \in 1 .. Len(sent) /\ i <= Len(more))
  BY <1>1, <1>2, <1>3
<1> QED
  BY <1>1, <1>2, <1>3, <1>4

\* The reply to the request that was added.
LEMMA FollowReply ==
  ASSUME NEW sent \in Seq(Nat), NEW got, NEW more, Longer(got, more), AllReplied(sent, got),
         NEW k \in Nat, Len(more) = Len(got) + 1, more[Len(got) + 1].line = k
  PROVE  AllReplied(Append(sent, k), more)
<1>1. /\ Len(sent) \in Nat /\ Len(Append(sent, k)) = Len(sent) + 1
      /\ \A i \in 1 .. Len(sent) : Append(sent, k)[i] = sent[i]
      /\ Append(sent, k)[Len(sent) + 1] = k
  BY AppendFacts
<1>2. Len(got) \in Nat /\ \A j \in 1 .. Len(got) : more[j] = got[j]
  BY DEF Longer
<1>3. Len(sent) = Len(got) /\ \A i \in 1 .. Len(sent) : sent[i] = got[i].line
  BY DEF AllReplied
<1> SUFFICES ASSUME NEW i \in 1 .. Len(sent) + 1 PROVE Append(sent, k)[i] = more[i].line
  BY <1>1, <1>3 DEF AllReplied
<1>4. i = Len(sent) + 1 \/ i \in 1 .. Len(sent)
  BY <1>1
<1> QED
  BY <1>1, <1>2, <1>3, <1>4

\* If all are replied to, the replies follow the requests.
LEMMA FollowAll ==
  ASSUME NEW sent \in Seq(Nat), NEW got, AllReplied(sent, got)
  PROVE  Follow(sent, got)
<1>1. Len(sent) \in Nat
  OBVIOUS
<1> QED
  BY <1>1 DEF AllReplied, Follow

\* The invariants about replies, of both histories.
LEMMA RepliesForm ==
  ASSUME HttpTypeOK
  PROVE  /\ RepliedToAll <=> (conn = "kConnected" /\ pc # "crashed" => AllReplied(replies, handled))
         /\ RepliesFollowRequests <=>
              /\ Follow(replies, handled)
              /\ Len(replies) < Len(handled) => conn = "kDisconnecting" \/ pc = "crashed"
<1>1. DOMAIN replies = 1 .. Len(replies)
  BY SMTT(30) DEF HttpTypeOK
<1> QED
  BY <1>1 DEF RepliedToAll, RepliesFollowRequests, AllReplied, Follow

\* The same after a step.
LEMMA RepliesFormNext ==
  ASSUME HttpTypeOK', Follow(replies', handled'),
         conn' = "kConnected" /\ pc' # "crashed" => AllReplied(replies', handled')
  PROVE  RepliedToAll' /\ RepliesFollowRequests'
<1>1. DOMAIN replies' = 1 .. Len(replies') /\ Len(replies') \in Nat
  BY DEF HttpTypeOK
<1>2. conn' \in {"kConnected", "kDisconnecting"}
  BY DEF HttpTypeOK
<1>3. RepliedToAll'
  BY <1>1 DEF RepliedToAll, AllReplied
<1>4. ASSUME Len(replies') < Len(handled') PROVE conn' = "kDisconnecting" \/ pc' = "crashed"
  <2>1. Len(replies') # Len(handled')
    BY <1>1, <1>4
  <2> QED
    BY <1>2, <2>1 DEF AllReplied
<1> QED
  BY <1>1, <1>3, <1>4 DEF RepliesFollowRequests, Follow

\* What send leaves.
LEMMA SendTypes ==
  ASSUME NEW c, NEW sent \in Seq(Nat), NEW k \in Nat
  PROVE  SendIfConnected(c, sent, k) \in Seq(Nat)
BY AppendFacts DEF SendIfConnected

\* What reset leaves.
LEMMA EmptyTypes ==
  /\ EmptyRequest \in RequestData
  /\ EmptyRequest.headers = NoHeaders
BY DEF EmptyRequest, NoHeaders, RequestData

\* The reply to a complete request.
LEMMA ReplyGotAllKeeps == ASSUME HttpInv, Reply, ctx = "kGotAll" PROVE HttpInv'
<1> PICK conn1 : conn1 = IF ok THEN conn ELSE "kDisconnecting"
  OBVIOUS
<1> PICK sent1 : sent1 = IF ok THEN replies ELSE SendIfConnected(conn, replies, BadRequest)
  OBVIOUS
<1>1. /\ pc = "reply" /\ pc' = "idle" /\ handled' = Answered(request)
      /\ replies' = SendIfConnected(conn1, sent1, request.line)
      /\ conn' = (IF Closes(request) THEN "kDisconnecting" ELSE conn1)
      /\ ctx' = "kExpectRequestLine" /\ request' = EmptyRequest
      /\ UNCHANGED <<stream, arrived, read, torn, ok>>
  BY DEF Reply, Reset
<1>2. /\ handled' \in Seq(HandledData) /\ RequestsIntact'
      /\ Len(handled') = Len(handled) + 1
      /\ handled'[Len(handled) + 1].line = request.line
      /\ \A i \in 1 .. Len(handled) : handled'[i] = handled[i]
      /\ ~torn' => MayBegin(read + 1)'
  BY <1>1, HandledGrows
<1>3. Longer(handled, handled')
  BY <1>2, HandledTypes DEF Longer
<1>4. replies \in Seq(Nat) /\ request.line \in Nat /\ BadRequest \in Nat /\ ok \in BOOLEAN
      /\ conn \in {"kConnected", "kDisconnecting"}
  BY DEF HttpInv, HttpTypeOK, BadRequest, RequestData
<1>5. sent1 \in Seq(Nat)
  BY <1>4, SendTypes
<1>6. replies' \in Seq(Nat)
  BY <1>1, <1>4, <1>5, SendTypes
<1>7. conn' \in {"kConnected", "kDisconnecting"} /\ (conn' = "kConnected" => ok /\ conn = "kConnected")
  BY <1>1, <1>4
<1>8. EmptyRequest \in RequestData
      /\ EmptyRequest.headers = NoHeaders
  BY EmptyTypes
<1>9. HttpTypeOK'
  BY <1>1, <1>2, <1>6, <1>7, <1>8 DEF HttpInv, HttpTypeOK
<1>10. ReadsArrived'
  BY <1>1 DEF HttpInv, ReadsArrived
<1>11. RequestSoFar' /\ BeginsBehind'
  BY <1>1, <1>2, <1>8 DEF RequestSoFar, BeginsBehind
<1>12. Follow(replies, handled) /\ (conn = "kConnected" => AllReplied(replies, handled))
  BY <1>1, RepliesForm DEF HttpInv
<1>13. Follow(replies', handled') /\ (conn' = "kConnected" => AllReplied(replies', handled'))
  <2>1. CASE conn = "kConnected" /\ ok
    <3>1. replies' = Append(replies, request.line)
      BY <1>1, <2>1 DEF SendIfConnected
    <3>2. AllReplied(replies', handled')
      BY <1>2, <1>3, <1>4, <1>12, <2>1, <3>1, FollowReply
    <3> QED
      BY <1>6, <3>2, FollowAll
  <2>2. CASE conn = "kConnected" /\ ~ok
    <3>1. replies' = Append(replies, BadRequest)
      BY <1>1, <2>2 DEF SendIfConnected
    <3> QED
      BY <1>3, <1>4, <1>7, <1>12, <2>2, <3>1, FollowBad
  <2>3. CASE conn # "kConnected"
    <3>1. replies' = replies
      BY <1>1, <2>3 DEF SendIfConnected
    <3> QED
      BY <1>3, <1>4, <1>7, <1>12, <2>3, <3>1, FollowLonger
  <2> QED
    BY <1>4, <2>1, <2>2, <2>3
<1>14. RepliedToAll' /\ RepliesFollowRequests'
  BY <1>1, <1>9, <1>13, RepliesFormNext
<1> QED
  BY <1>2, <1>9, <1>10, <1>11, <1>14 DEF HttpInv

\* onMessage returns without a request.
LEMMA ReplyElseKeeps == ASSUME HttpInv, Reply, ctx # "kGotAll" PROVE HttpInv'
<1>1. /\ pc = "reply" /\ pc' = "idle"
      /\ replies' = (IF ok THEN replies ELSE SendIfConnected(conn, replies, BadRequest))
      /\ conn' = (IF ok THEN conn ELSE "kDisconnecting")
      /\ UNCHANGED <<stream, arrived, read, torn, ok, handled, ctx, request, mString>>
  BY DEF Reply
<1>2. Longer(handled, handled)
  BY HandledTypes DEF Longer
<1>3. replies \in Seq(Nat) /\ BadRequest \in Nat /\ ok \in BOOLEAN
      /\ conn \in {"kConnected", "kDisconnecting"}
  BY DEF HttpInv, HttpTypeOK, BadRequest
<1>4. replies' \in Seq(Nat)
  BY <1>1, <1>3, SendTypes
<1>5. HttpTypeOK'
  BY <1>1, <1>3, <1>4 DEF HttpInv, HttpTypeOK
<1>6. ReadsArrived'
  BY <1>1 DEF HttpInv, ReadsArrived
<1>7. RequestSoFar'
  BY <1>1, PlaceKept
<1>8. BeginsBehind'
  BY <1>1, PlaceKept
<1>9. RequestsIntact'
  BY <1>1, StreamOnly DEF HttpInv, RequestsIntact
<1>10. Follow(replies, handled) /\ (conn = "kConnected" => AllReplied(replies, handled))
  BY <1>1, RepliesForm DEF HttpInv
<1>11. Follow(replies', handled') /\ (conn' = "kConnected" => AllReplied(replies', handled'))
  <2>1. CASE ok \/ conn # "kConnected"
    <3>1. replies' = replies /\ handled' = handled /\ (conn' = "kConnected" => conn = "kConnected")
      BY <1>1, <2>1 DEF SendIfConnected
    <3> QED
      BY <1>10, <3>1
  <2>2. CASE conn = "kConnected" /\ ~ok
    <3>1. replies' = Append(replies, BadRequest) /\ handled' = handled /\ conn' # "kConnected"
      BY <1>1, <2>2 DEF SendIfConnected
    <3> QED
      BY <1>2, <1>3, <1>10, <2>2, <3>1, FollowBad
  <2> QED
    BY <2>1, <2>2
<1>12. RepliedToAll' /\ RepliesFollowRequests'
  BY <1>5, <1>11, RepliesFormNext
<1> QED
  BY <1>5, <1>6, <1>7, <1>8, <1>9, <1>12 DEF HttpInv

\* The process ends in onRequest.
LEMMA UploadThrowsKeeps == ASSUME HttpInv, UploadThrows PROVE HttpInv'
<1>1. /\ pc = "reply" /\ ctx = "kGotAll" /\ pc' = "crashed" /\ handled' = Answered(request)
      /\ replies' = (IF ok THEN replies ELSE SendIfConnected(conn, replies, BadRequest))
      /\ conn' = (IF ok THEN conn ELSE "kDisconnecting")
      /\ UNCHANGED <<stream, arrived, read, torn, ctx, request, mString, ok>>
  BY DEF UploadThrows
<1>2. /\ handled' \in Seq(HandledData) /\ RequestsIntact'
      /\ Len(handled') = Len(handled) + 1
      /\ \A i \in 1 .. Len(handled) : handled'[i] = handled[i]
  BY <1>1, HandledGrows
<1>3. Longer(handled, handled')
  BY <1>2, HandledTypes DEF Longer
<1>4. replies \in Seq(Nat) /\ BadRequest \in Nat /\ ok \in BOOLEAN
      /\ conn \in {"kConnected", "kDisconnecting"}
  BY DEF HttpInv, HttpTypeOK, BadRequest
<1>5. replies' \in Seq(Nat)
  BY <1>1, <1>4, SendTypes
<1>6. HttpTypeOK'
  BY <1>1, <1>2, <1>4, <1>5 DEF HttpInv, HttpTypeOK
<1>7. ReadsArrived'
  BY <1>1 DEF HttpInv, ReadsArrived
<1>8. RequestSoFar' /\ BeginsBehind'
  <2>1. RequestSoFar'
    BY <1>1, StreamOnly DEF HttpInv, RequestSoFar
  <2>2. BeginsBehind'
    BY <1>1, StreamOnly DEF HttpInv, BeginsBehind
  <2> QED
    BY <2>1, <2>2
<1>9. Follow(replies, handled) /\ (conn = "kConnected" => AllReplied(replies, handled))
  BY <1>1, RepliesForm DEF HttpInv
<1>10. Follow(replies', handled')
  <2>1. CASE ok \/ conn # "kConnected"
    <3>1. replies' = replies
      BY <1>1, <2>1 DEF SendIfConnected
    <3> QED
      BY <1>3, <1>4, <1>9, <3>1, FollowLonger
  <2>2. CASE conn = "kConnected" /\ ~ok
    <3>1. replies' = Append(replies, BadRequest)
      BY <1>1, <2>2 DEF SendIfConnected
    <3> QED
      BY <1>3, <1>4, <1>9, <2>2, <3>1, FollowBad
  <2> QED
    BY <2>1, <2>2
<1>11. RepliedToAll' /\ RepliesFollowRequests'
  BY <1>1, <1>6, <1>10, RepliesFormNext
<1> QED
  BY <1>2, <1>6, <1>7, <1>8, <1>11 DEF HttpInv

\* Whichever step the handler takes.
LEMMA HandlerKeeps == ASSUME HttpInv, Handler PROVE HttpInv'
BY NeedsMoreKeeps, ParseRequestLineKeeps, ParseHeadersKeeps, ParseBodyKeeps, ParsePartKeeps,
   ParsePartCutKeeps, ReplyGotAllKeeps, ReplyElseKeeps, UploadThrowsKeeps DEF Handler

\* Nothing happens to the parser.
LEMMA HttpStutters == ASSUME HttpInv, UNCHANGED httpVars PROVE HttpInv'
<1>1. HttpTypeOK'
  BY DEF HttpInv, HttpTypeOK, httpVars
<1>2. ReadsArrived'
  BY DEF HttpInv, ReadsArrived, httpVars
<1>3. RequestSoFar'
  BY StreamOnly DEF HttpInv, RequestSoFar, HeadedBy, httpVars
<1>4. BeginsBehind'
  BY StreamOnly, MayBeginSame DEF HttpInv, BeginsBehind, httpVars
<1>5. RequestsIntact'
  BY StreamOnly DEF HttpInv, RequestsIntact, httpVars
<1>6. RepliedToAll'
  BY DEF HttpInv, RepliedToAll, httpVars
<1>7. RepliesFollowRequests'
  BY DEF HttpInv, RepliesFollowRequests, httpVars
<1> QED
  BY <1>1, <1>2, <1>3, <1>4, <1>5, <1>6, <1>7 DEF HttpInv

\* A connection that has just been made.
LEMMA HttpStarts == ASSUME HttpInit PROVE HttpInv
<1>1. Len(stream) \in Nat
  BY StreamFacts DEF HttpInit
<1>2. DOMAIN handled = {} /\ DOMAIN replies = {} /\ Len(handled) = 0 /\ Len(replies) = 0
  BY DEF HttpInit
<1>3. /\ request \in RequestData
      /\ request.headers = NoHeaders
  BY EmptyTypes DEF HttpInit
<1>4. arrived \in 0 .. 2 * Len(stream) /\ read \in 0 .. Len(stream)
  BY <1>1 DEF HttpInit
<1>5. HttpTypeOK
  <2>1. replies \in Seq(Nat) /\ handled \in Seq(HandledData)
    BY DEF HttpInit
  <2> QED
    BY <1>3, <1>4, <2>1 DEF HttpInit, HttpTypeOK
<1>6. ReadsArrived
  BY DEF HttpInit, ReadsArrived
<1>7. RequestSoFar
  BY <1>3 DEF HttpInit, RequestSoFar
<1>8. BeginsBehind
  BY DEF HttpInit, BeginsBehind, MayBegin
<1>9. RequestsIntact /\ RepliedToAll /\ RepliesFollowRequests
  BY <1>2 DEF RequestsIntact, RepliedToAll, RepliesFollowRequests
<1> QED
  BY <1>5, <1>6, <1>7, <1>8, <1>9 DEF HttpInv

-----------------------------------------------------------------------------
(***************************************************************************)
(* The buffer.                                                             *)
(***************************************************************************)

\* The elements behind the first r, up to w.
Slice(s, r, w) == SubSeq(s, r + 1, w)

\* What they are.
IsSlice(p, s, r, w) ==
  p \in Seq(Nat) /\ Len(p) = w - r /\ \A i \in 1 .. w - r : p[i] = s[r + i]

\* SubSeq gives them.
LEMMA SliceFacts ==
  ASSUME NEW s \in Seq(Nat), NEW r \in Nat, NEW w \in Nat, r <= w, w <= Len(s)
  PROVE  IsSlice(Slice(s, r, w), s, r, w)
<1> PICK n \in Nat : n = Len(s)
  OBVIOUS
<1>1. \A i \in r + 1 .. w : s[i] \in Nat
  <2>1. \A i \in r + 1 .. w : i \in 1 .. n
    OBVIOUS
  <2> QED
    BY <2>1
<1>2. /\ SubSeq(s, r + 1, w) \in Seq(Nat)
      /\ Len(SubSeq(s, r + 1, w)) = IF r + 1 <= w THEN w - (r + 1) + 1 ELSE 0
      /\ \A i \in 1 .. w - (r + 1) + 1 : SubSeq(s, r + 1, w)[i] = s[r + 1 + i - 1]
  BY <1>1, SubSeqProperties
<1>3. w - (r + 1) + 1 = w - r /\ (~(r + 1 <= w) => w - r = 0)
  OBVIOUS
<1>4. Len(SubSeq(s, r + 1, w)) = w - r
  BY <1>2, <1>3
<1>5. ASSUME NEW i \in 1 .. w - r PROVE SubSeq(s, r + 1, w)[i] = s[r + i]
  <2>1. i \in 1 .. w - (r + 1) + 1 /\ r + 1 + i - 1 = r + i
    OBVIOUS
  <2> QED
    BY <1>2, <2>1
<1> QED
  BY <1>2, <1>4, <1>5 DEF Slice, IsSlice

\* A function on the first n numbers is a sequence.
LEMMA FunSeq ==
  ASSUME NEW n \in Nat, NEW f \in [1 .. n -> Nat]
  PROVE  f \in Seq(Nat) /\ Len(f) = n
OBVIOUS

\* Two sequences of the same length and elements.
LEMMA SameSeq ==
  ASSUME NEW s \in Seq(Nat), NEW t \in Seq(Nat), NEW n \in Nat, Len(s) = n, Len(t) = n,
         \A i \in 1 .. n : s[i] = t[i]
  PROVE  s = t
BY SeqEqual

\* One sequence behind another.
Cat(s, t) == s \o t

\* What that is.
IsCat(c, s, t) ==
  /\ c \in Seq(Nat) /\ Len(c) = Len(s) + Len(t)
  /\ \A i \in 1 .. Len(s) : c[i] = s[i]
  /\ \A i \in 1 .. Len(t) : c[Len(s) + i] = t[i]

\* It is what \o gives.
LEMMA CatFacts ==
  ASSUME NEW s \in Seq(Nat), NEW t \in Seq(Nat)
  PROVE  IsCat(Cat(s, t), s, t)
<1> PICK m \in Nat : m = Len(s)
  OBVIOUS
<1> PICK n \in Nat : n = Len(t)
  OBVIOUS
<1>2. s \o t \in Seq(Nat) /\ Len(s \o t) = m + n
  OBVIOUS
<1>3. \A i \in 1 .. m + n : (s \o t)[i] = IF i <= m THEN s[i] ELSE t[i - m]
  BY ConcatProperties
<1>4. ASSUME NEW i \in 1 .. m PROVE (s \o t)[i] = s[i]
  <2>1. i \in 1 .. m + n /\ i <= m
    OBVIOUS
  <2> QED
    BY <1>3, <2>1
<1>5. ASSUME NEW i \in 1 .. n PROVE (s \o t)[m + i] = t[i]
  <2>1. m + i \in 1 .. m + n /\ ~(m + i <= m) /\ m + i - m = i
    OBVIOUS
  <2> QED
    BY <1>3, <2>1
<1> QED
  BY <1>2, <1>4, <1>5 DEF Cat, IsCat

\* A vector of n bytes, and two indices in it.
Vector(cells, n, r, w) ==
  /\ cells \in Seq(Nat) /\ n \in Nat /\ n = Len(cells) /\ r \in Nat /\ w \in Nat
  /\ r <= w /\ w <= n

\* The vector with data copied to the cells behind w.
CopiedIn(cells, n, w, data) ==
  [i \in 1 .. n |-> IF i \in w + 1 .. w + Len(data) THEN data[i - w] ELSE cells[i]]

\* The content up to w is then followed by the data.
LEMMA CopyAppends ==
  ASSUME NEW cells, NEW n, NEW r, NEW w, NEW data, Vector(cells, n, r, w),
         data \in Seq(Nat), w + Len(data) <= n
  PROVE  /\ CopiedIn(cells, n, w, data) \in Seq(Nat)
         /\ Len(CopiedIn(cells, n, w, data)) = n
         /\ Slice(CopiedIn(cells, n, w, data), r, w + Len(data)) = Cat(Slice(cells, r, w), data)
<1> PICK d \in Nat : d = Len(data)
  OBVIOUS
<1> cells \in Seq(Nat) /\ n \in Nat /\ n = Len(cells) /\ r \in Nat /\ w \in Nat /\ r <= w /\ w <= n
  BY DEF Vector
<1> PICK new : new = CopiedIn(cells, n, w, data)
  OBVIOUS
<1>1. new = [i \in 1 .. n |-> IF i \in w + 1 .. w + d THEN data[i - w] ELSE cells[i]]
  BY DEF CopiedIn
<1>2. ASSUME NEW i \in 1 .. n PROVE new[i] \in Nat
  <2>1. CASE i \in w + 1 .. w + d
    <3>1. i - w \in 1 .. d
      BY <2>1
    <3>2. data[i - w] \in Nat
      BY <3>1
    <3> QED
      BY <1>1, <2>1, <3>2
  <2>2. CASE ~(i \in w + 1 .. w + d)
    BY <1>1, <2>2
  <2> QED
    BY <2>1, <2>2
<1>3. new \in Seq(Nat) /\ Len(new) = n
  <2>1. new \in [1 .. n -> Nat]
    BY <1>1, <1>2
  <2> QED
    BY <2>1, FunSeq
<1> PICK m : m = w + d
  OBVIOUS
<1>4. m \in Nat /\ r <= m /\ m <= n /\ w <= n /\ w - r \in Nat /\ m - r \in Nat
      /\ m - r = (w - r) + d
  OBVIOUS
<1> PICK p : p = Slice(new, r, m)
  OBVIOUS
<1> PICK q : q = Slice(cells, r, w)
  OBVIOUS
<1> PICK c : c = Cat(q, data)
  OBVIOUS
<1>5. p \in Seq(Nat) /\ Len(p) = m - r /\ \A i \in 1 .. m - r : p[i] = new[r + i]
  <2>1. IsSlice(p, new, r, m)
    BY <1>3, <1>4, SliceFacts
  <2> QED
    BY <2>1 DEF IsSlice
<1>6. q \in Seq(Nat) /\ Len(q) = w - r /\ \A i \in 1 .. w - r : q[i] = cells[r + i]
  <2>1. IsSlice(q, cells, r, w)
    BY <1>4, SliceFacts
  <2> QED
    BY <2>1 DEF IsSlice
<1>7. /\ c \in Seq(Nat) /\ Len(c) = (w - r) + d
      /\ \A i \in 1 .. w - r : c[i] = q[i]
      /\ \A i \in 1 .. d : c[(w - r) + i] = data[i]
  <2>1. IsCat(c, q, data)
    BY <1>6, CatFacts
  <2> QED
    BY <1>6, <2>1 DEF IsCat
<1>8. ASSUME NEW i \in 1 .. m - r PROVE p[i] = c[i]
  <2>1. CASE i <= w - r
    <3>1. i \in 1 .. w - r /\ r + i \in 1 .. n /\ ~(r + i \in w + 1 .. w + d)
      BY <1>4, <2>1
    <3>2. new[r + i] = cells[r + i]
      BY <1>1, <3>1
    <3> QED
      BY <1>5, <1>6, <1>7, <3>1, <3>2
  <2>2. CASE ~(i <= w - r)
    <3> PICK j : j = i - (w - r)
      OBVIOUS
    <3>1. /\ j \in 1 .. d /\ i = (w - r) + j /\ r + i \in 1 .. n
          /\ r + i \in w + 1 .. w + d /\ r + i - w = j
      BY <1>4, <2>2
    <3>2. new[r + i] = data[j]
      BY <1>1, <3>1
    <3> QED
      BY <1>5, <1>7, <3>1, <3>2
  <2> QED
    BY <1>4, <2>1, <2>2
<1>9. p = c
  <2>1. p \in Seq(Nat) /\ c \in Seq(Nat) /\ m - r \in Nat /\ Len(p) = m - r
        /\ Len(c) = m - r
    BY <1>4, <1>5, <1>7
  <2> QED
    BY <1>8, <2>1, SameSeq, ZenonT(60)
<1> QED
  BY <1>3, <1>9

\* Cells added at the end leave the content alone.
LEMMA GrownKeeps ==
  ASSUME NEW cells, NEW n, NEW r, NEW w, Vector(cells, n, r, w), NEW k, k \in Nat
  PROVE  /\ Cat(cells, Blank(k)) \in Seq(Nat) /\ Len(Cat(cells, Blank(k))) = n + k
         /\ Slice(Cat(cells, Blank(k)), r, w) = Slice(cells, r, w)
<1> cells \in Seq(Nat) /\ n \in Nat /\ n = Len(cells) /\ r \in Nat /\ w \in Nat /\ r <= w /\ w <= n
  BY DEF Vector
<1> PICK more : more = Blank(k)
  OBVIOUS
<1>0. more \in Seq(Nat) /\ Len(more) = k
  <2>1. more \in [1 .. k -> Nat]
    BY DEF Blank
  <2> QED
    BY <2>1
<1> PICK new : new = Cat(cells, more)
  OBVIOUS
<1>1. new \in Seq(Nat) /\ Len(new) = n + k /\ \A i \in 1 .. n : new[i] = cells[i]
  <2>1. IsCat(new, cells, more)
    BY <1>0, CatFacts
  <2> QED
    BY <1>0, <2>1 DEF IsCat
<1> PICK p : p = Slice(new, r, w)
  OBVIOUS
<1> PICK q : q = Slice(cells, r, w)
  OBVIOUS
<1>2. n + k \in Nat /\ w <= n + k /\ w - r \in Nat
  OBVIOUS
<1>3. p \in Seq(Nat) /\ Len(p) = w - r /\ \A i \in 1 .. w - r : p[i] = new[r + i]
  <2>1. IsSlice(p, new, r, w)
    BY <1>1, <1>2, SliceFacts
  <2> QED
    BY <2>1 DEF IsSlice
<1>4. q \in Seq(Nat) /\ Len(q) = w - r /\ \A i \in 1 .. w - r : q[i] = cells[r + i]
  <2>1. IsSlice(q, cells, r, w)
    BY SliceFacts
  <2> QED
    BY <2>1 DEF IsSlice
<1>5. ASSUME NEW i \in 1 .. w - r PROVE p[i] = q[i]
  <2>1. r + i \in 1 .. n
    OBVIOUS
  <2> QED
    BY <1>1, <1>3, <1>4, <2>1
<1>6. p = q
  BY <1>2, <1>3, <1>4, <1>5, SameSeq
<1> QED
  BY <1>1, <1>6

\* The vector with the content from r to w copied to the cells behind f.
Fronted(cells, n, f, r, w) ==
  [i \in 1 .. n |-> IF i \in f + 1 .. f + (w - r) THEN cells[i - f + r] ELSE cells[i]]

\* It is the content there.
LEMMA FrontedKeeps ==
  ASSUME NEW cells \in Seq(Nat), NEW n \in Nat, n = Len(cells), NEW r \in Nat, NEW w \in Nat,
         r <= w, w <= n, NEW f \in Nat, f <= r
  PROVE  /\ Fronted(cells, n, f, r, w) \in Seq(Nat) /\ Len(Fronted(cells, n, f, r, w)) = n
         /\ Slice(Fronted(cells, n, f, r, w), f, f + (w - r)) = Slice(cells, r, w)
<1> PICK new : new = Fronted(cells, n, f, r, w)
  OBVIOUS
<1> PICK m : m = f + (w - r)
  OBVIOUS
<1>1. new = [i \in 1 .. n |-> IF i \in f + 1 .. m THEN cells[i - f + r] ELSE cells[i]]
  BY DEF Fronted
<1>2. m \in Nat /\ f <= m /\ m <= n /\ m - f = w - r /\ w - r \in Nat
  OBVIOUS
<1>3. ASSUME NEW i \in 1 .. n PROVE new[i] \in Nat
  <2>1. CASE i \in f + 1 .. m
    <3>1. i - f + r \in 1 .. n
      BY <1>2, <2>1
    <3>2. cells[i - f + r] \in Nat
      BY <3>1
    <3> QED
      BY <1>1, <2>1, <3>2
  <2>2. CASE ~(i \in f + 1 .. m)
    BY <1>1, <2>2
  <2> QED
    BY <2>1, <2>2
<1>4. new \in Seq(Nat) /\ Len(new) = n
  <2>1. new \in [1 .. n -> Nat]
    BY <1>1, <1>3
  <2> QED
    BY <2>1, SMTT(30)
<1> PICK p : p = Slice(new, f, m)
  OBVIOUS
<1> PICK q : q = Slice(cells, r, w)
  OBVIOUS
<1>5. p \in Seq(Nat) /\ Len(p) = w - r /\ \A i \in 1 .. w - r : p[i] = new[f + i]
  <2>1. IsSlice(p, new, f, m)
    BY <1>2, <1>4, SliceFacts
  <2> QED
    BY <1>2, <2>1 DEF IsSlice
<1>6. q \in Seq(Nat) /\ Len(q) = w - r /\ \A i \in 1 .. w - r : q[i] = cells[r + i]
  <2>1. IsSlice(q, cells, r, w)
    BY SliceFacts
  <2> QED
    BY <2>1 DEF IsSlice
<1>7. ASSUME NEW i \in 1 .. w - r PROVE p[i] = q[i]
  <2>1. f + i \in 1 .. n /\ f + i \in f + 1 .. m /\ f + i - f + r = r + i
    BY <1>2
  <2> PICK j : j = f + i
    OBVIOUS
  <2>2. new[j] = cells[j - f + r] /\ j - f + r = r + i
    BY <1>1, <2>1
  <2>3. p[i] = new[j] /\ q[i] = cells[r + i]
    BY <1>5, <1>6
  <2> QED
    BY <2>2, <2>3
<1>8. p = q
  BY <1>2, <1>5, <1>6, <1>7, SameSeq
<1> QED
  BY <1>4, <1>8

\* A vector of bytes with two indices, and what is between them.
Buffers == [cells : Seq(Nat), reader : Nat, writer : Nat]
Holds(b, s) == b \in Buffers /\ BufferOK(b) /\ Content(b) = s

\* The buffer with these fields.
Buf(cells, r, w) == [cells |-> cells, reader |-> r, writer |-> w]

\* What is good of a buffer's fields.
BufFields(cells, n, r, w) ==
  /\ cells \in Seq(Nat) /\ n \in Nat /\ n = Len(cells) /\ r \in Nat /\ w \in Nat
  /\ kCheapPrepend <= r /\ r <= w /\ w <= n

\* A good buffer from its fields.
LEMMA BufHolds ==
  ASSUME NEW cells, NEW n, NEW r, NEW w, BufFields(cells, n, r, w)
  PROVE  /\ Holds(Buf(cells, r, w), Slice(cells, r, w))
         /\ writableBytes(Buf(cells, r, w)) = n - w
<1> PICK b : b = Buf(cells, r, w)
  OBVIOUS
<1>1. b \in Buffers /\ b.cells = cells /\ b.reader = r /\ b.writer = w
  BY DEF Buf, Buffers, BufFields
<1>2. BufferOK(b)
  BY <1>1 DEF BufferOK, BufFields
<1>3. Content(b) = Slice(cells, r, w)
  BY <1>1 DEF Content, Slice
<1>4. writableBytes(b) = n - w
  BY <1>1 DEF writableBytes, BufFields
<1> QED
  BY <1>1, <1>2, <1>3, <1>4 DEF Holds

\* The fields of a good buffer.
LEMMA HoldsBuf ==
  ASSUME NEW b, NEW s, Holds(b, s)
  PROVE  \E cells, n, r, w :
           /\ BufFields(cells, n, r, w) /\ b = Buf(cells, r, w) /\ s = Slice(cells, r, w)
           /\ b.cells = cells /\ b.reader = r /\ b.writer = w
           /\ IsSlice(s, cells, r, w)
           /\ writableBytes(b) = n - w /\ readableBytes(b) = w - r /\ prependableBytes(b) = r
<1> PICK cells : cells = b.cells
  OBVIOUS
<1> PICK n : n = Len(cells)
  OBVIOUS
<1> PICK r : r = b.reader
  OBVIOUS
<1> PICK w : w = b.writer
  OBVIOUS
<1>1. cells \in Seq(Nat) /\ r \in Nat /\ w \in Nat /\ b = Buf(cells, r, w)
  BY DEF Holds, Buffers, Buf
<1>2. n \in Nat
  BY <1>1
<1>3. kCheapPrepend <= r /\ r <= w /\ w <= n
  BY DEF Holds, BufferOK
<1>4. s = Slice(cells, r, w)
  BY DEF Holds, Content, Slice
<1>5. writableBytes(b) = n - w /\ readableBytes(b) = w - r /\ prependableBytes(b) = r
  BY DEF writableBytes, readableBytes, prependableBytes
<1>6. BufFields(cells, n, r, w)
  BY <1>1, <1>2, <1>3 DEF BufFields
<1>7. IsSlice(s, cells, r, w)
  BY <1>1, <1>2, <1>3, <1>4, SliceFacts
<1> QED
  BY <1>1, <1>4, <1>5, <1>6, <1>7

\* Bytes copied behind the content are then the last of it.
LEMMA PutHolds ==
  ASSUME NEW b, NEW s, Holds(b, s), NEW data \in Seq(Nat), Len(data) <= writableBytes(b)
  PROVE  Holds(Put(b, data), Cat(s, data))
<1>1. PICK cells, n, r, w :
        /\ BufFields(cells, n, r, w) /\ b = Buf(cells, r, w) /\ s = Slice(cells, r, w)
        /\ writableBytes(b) = n - w
  BY HoldsBuf
<1>2. /\ cells \in Seq(Nat) /\ n \in Nat /\ n = Len(cells) /\ r \in Nat /\ w \in Nat
      /\ kCheapPrepend <= r /\ r <= w /\ w <= n
  BY <1>1 DEF BufFields
<1>22. Vector(cells, n, r, w)
  BY <1>2 DEF Vector
<1> PICK d \in Nat : d = Len(data)
  OBVIOUS
<1>3. d <= n - w
  BY <1>1
<1>4. w + d <= n /\ w + d \in Nat /\ r <= w + d
  BY <1>2, <1>3
<1> PICK new : new = CopiedIn(cells, n, w, data)
  OBVIOUS
<1>5. new \in Seq(Nat) /\ Len(new) = n /\ Slice(new, r, w + d) = Cat(s, data)
  <2>1. /\ CopiedIn(cells, n, w, data) \in Seq(Nat) /\ Len(CopiedIn(cells, n, w, data)) = n
        /\ Slice(CopiedIn(cells, n, w, data), r, w + Len(data)) = Cat(Slice(cells, r, w), data)
    <3>1. w + Len(data) <= n
      BY <1>4
    <3> QED
      BY <1>22, <3>1, CopyAppends
  <2> QED
    BY <1>1, <2>1
<1>6. Put(b, data) = Buf(new, r, w + d)
  <2>1. DOMAIN cells = 1 .. n
    BY <1>2
  <2>2. b.cells = cells /\ b.reader = r /\ b.writer = w
    BY <1>1 DEF Buf
  <2>3. new = [i \in DOMAIN b.cells |->
                 IF i \in b.writer + 1 .. b.writer + Len(data) THEN data[i - b.writer] ELSE b.cells[i]]
    BY <2>1, <2>2 DEF CopiedIn
  <2>4. Put(b, data) = [b EXCEPT !.cells = new, !.writer = w + d]
    BY <2>2, <2>3 DEF Put
  <2> QED
    BY <1>1, <2>4 DEF Buf
<1>7. BufFields(new, n, r, w + d)
  BY <1>2, <1>4, <1>5 DEF BufFields
<1> QED
  BY <1>5, <1>6, <1>7, BufHolds

\* makeSpace keeps the content and makes the space.
LEMMA MakeSpaceHolds ==
  ASSUME NEW b, NEW s, Holds(b, s), NEW len \in Nat, writableBytes(b) < len
  PROVE  Holds(makeSpace(b, len), s) /\ len <= writableBytes(makeSpace(b, len))
<1>1. PICK cells, n, r, w :
        /\ BufFields(cells, n, r, w) /\ b = Buf(cells, r, w) /\ s = Slice(cells, r, w)
        /\ b.cells = cells /\ b.reader = r /\ b.writer = w
        /\ writableBytes(b) = n - w /\ readableBytes(b) = w - r /\ prependableBytes(b) = r
  BY HoldsBuf
<1>2. /\ cells \in Seq(Nat) /\ n \in Nat /\ n = Len(cells) /\ r \in Nat /\ w \in Nat
      /\ kCheapPrepend <= r /\ r <= w /\ w <= n
  BY <1>1 DEF BufFields
<1>22. Vector(cells, n, r, w)
  BY <1>2 DEF Vector
<1> PICK f : f = kCheapPrepend
  OBVIOUS
<1>3. f \in Nat /\ f <= r /\ n - w < len
  BY <1>1, <1>2, BufferAssumption
<1>4. CASE (n - w) + r < len + f
  <2> PICK k : k = w + len - n
    OBVIOUS
  <2>1. k \in Nat /\ n + k = w + len
    BY <1>2, <1>3
  <2> PICK new : new = Cat(cells, Blank(k))
    OBVIOUS
  <2>2. new \in Seq(Nat) /\ Len(new) = n + k /\ Slice(new, r, w) = s
    <3>1. /\ Cat(cells, Blank(k)) \in Seq(Nat) /\ Len(Cat(cells, Blank(k))) = n + k
          /\ Slice(Cat(cells, Blank(k)), r, w) = Slice(cells, r, w)
      BY <1>22, <2>1, GrownKeeps
    <3> QED
      BY <1>1, <3>1
  <2>3. makeSpace(b, len) = Buf(new, r, w)
    <3>1. makeSpace(b, len) = [b EXCEPT !.cells = cells \o Blank(w + len - Len(cells))]
      BY <1>1, <1>4 DEF makeSpace
    <3>2. makeSpace(b, len) = [b EXCEPT !.cells = new]
      BY <1>2, <3>1 DEF Cat
    <3> QED
      BY <1>1, <3>2 DEF Buf
  <2>4. BufFields(new, n + k, r, w)
    <3>1. n + k \in Nat /\ w <= n + k
      BY <1>2, <2>1
    <3> QED
      BY <1>2, <2>2, <3>1 DEF BufFields
  <2>5. writableBytes(Buf(new, r, w)) = (n + k) - w /\ Holds(Buf(new, r, w), s)
    BY <2>2, <2>4, BufHolds
  <2>6. len <= (n + k) - w
    BY <1>2, <2>1
  <2> QED
    BY <2>3, <2>5, <2>6
<1>5. CASE ~((n - w) + r < len + f)
  <2> PICK new : new = Fronted(cells, n, f, r, w)
    OBVIOUS
  <2> PICK m : m = f + (w - r)
    OBVIOUS
  <2>1. m \in Nat /\ f <= m /\ m <= n /\ len <= n - m
    BY <1>2, <1>3, <1>5, SMTT(30)
  <2>2. new \in Seq(Nat) /\ Len(new) = n /\ Slice(new, f, m) = s
    BY <1>1, <1>2, <1>3, FrontedKeeps
  <2>3. makeSpace(b, len) = Buf(new, f, m)
    <3>1. DOMAIN cells = 1 .. n
      BY <1>2
    <3> QED
      BY <1>1, <1>5, <3>1 DEF makeSpace, Fronted, Buf
  <2>4. BufFields(new, n, f, m)
    BY <1>2, <1>3, <2>1, <2>2 DEF BufFields
  <2>5. writableBytes(Buf(new, f, m)) = n - m /\ Holds(Buf(new, f, m), s)
    BY <2>2, <2>4, BufHolds
  <2> QED
    BY <2>1, <2>3, <2>5
<1> QED
  BY <1>4, <1>5

\* append puts the data behind the content, whatever room there is.
LEMMA AppendHolds ==
  ASSUME NEW b, NEW s, Holds(b, s), NEW data \in Seq(Nat)
  PROVE  Holds(append(b, data), Cat(s, data))
<1> PICK d \in Nat : d = Len(data)
  OBVIOUS
<1> PICK c : c = ensureWritableBytes(b, d)
  OBVIOUS
<1>1. Holds(c, s) /\ d <= writableBytes(c)
  <2>1. CASE writableBytes(b) < d
    <3>1. c = makeSpace(b, d)
      BY <2>1 DEF ensureWritableBytes
    <3> QED
      BY <2>1, <3>1, MakeSpaceHolds
  <2>2. CASE ~(writableBytes(b) < d)
    <3>1. c = b
      BY <2>2 DEF ensureWritableBytes
    <3>2. PICK cells, n, r, w : BufFields(cells, n, r, w) /\ writableBytes(b) = n - w
      BY HoldsBuf
    <3>3. n \in Nat /\ w \in Nat
      BY <3>2 DEF BufFields
    <3> QED
      BY <2>2, <3>1, <3>2, <3>3
  <2> QED
    BY <2>1, <2>2
<1>2. append(b, data) = Put(c, data)
  BY DEF append
<1> QED
  BY <1>1, <1>2, PutHolds

\* x is s and then the first k of t, y is x and then the others, z is s and t.
InParts(m, n, k, s, t, x, y, z) ==
  /\ m \in Nat /\ n \in Nat /\ k \in Nat /\ k <= n
  /\ \A i \in 1 .. m : x[i] = s[i]
  /\ \A i \in 1 .. k : x[m + i] = t[i]
  /\ \A i \in 1 .. m + k : y[i] = x[i]
  /\ \A i \in 1 .. n - k : y[(m + k) + i] = t[k + i]
  /\ \A i \in 1 .. m : z[i] = s[i]
  /\ \A i \in 1 .. n : z[m + i] = t[i]

\* Then y is s and t.
LEMMA PartsJoined ==
  ASSUME NEW m, NEW n, NEW k, NEW s, NEW t, NEW x, NEW y, NEW z,
         InParts(m, n, k, s, t, x, y, z)
  PROVE  \A i \in 1 .. m + n : y[i] = z[i]
<1> SUFFICES ASSUME NEW i \in 1 .. m + n PROVE y[i] = z[i]
  OBVIOUS
<1>0. /\ m \in Nat /\ n \in Nat /\ k \in Nat /\ k <= n
      /\ \A h \in 1 .. m : x[h] = s[h]
      /\ \A h \in 1 .. k : x[m + h] = t[h]
      /\ \A h \in 1 .. m + k : y[h] = x[h]
      /\ \A h \in 1 .. n - k : y[(m + k) + h] = t[k + h]
      /\ \A h \in 1 .. m : z[h] = s[h]
      /\ \A h \in 1 .. n : z[m + h] = t[h]
  BY DEF InParts
<1>1. CASE i <= m
  <2>1. i \in 1 .. m /\ i \in 1 .. m + k
    BY <1>0, <1>1
  <2> QED
    BY <1>0, <2>1
<1>2. CASE m < i /\ i <= m + k
  <2>1. PICK j \in 1 .. k : i = m + j
    <3>1. i - m \in 1 .. k /\ i = m + (i - m)
      BY <1>0, <1>2
    <3> QED
      BY <3>1
  <2>2. j \in 1 .. n /\ i \in 1 .. m + k
    BY <1>0, <1>2
  <2> QED
    BY <1>0, <2>1, <2>2
<1>3. CASE m + k < i
  <2>1. PICK j \in 1 .. n - k : i = (m + k) + j
    <3>1. i - (m + k) \in 1 .. n - k /\ i = (m + k) + (i - (m + k))
      BY <1>0, <1>3
    <3> QED
      BY <3>1
  <2>2. k + j \in 1 .. n /\ i = m + (k + j)
    BY <1>0, <2>1
  <2>3. y[i] = t[k + j]
    BY <1>0, <2>1
  <2>4. z[i] = t[k + j]
    BY <1>0, <2>2
  <2> QED
    BY <1>0, <2>3, <2>4
<1> QED
  BY <1>0, <1>1, <1>2, <1>3

\* A sequence put together again.
LEMMA CatSlices ==
  ASSUME NEW s \in Seq(Nat), NEW t \in Seq(Nat), NEW k \in Nat, k <= Len(t)
  PROVE  Cat(Cat(s, Slice(t, 0, k)), Slice(t, k, Len(t))) = Cat(s, t)
<1>m. PICK m : m = Len(s)
  OBVIOUS
<1>n. PICK n : n = Len(t)
  OBVIOUS
<1>p. PICK p : p = Slice(t, 0, k)
  OBVIOUS
<1>q. PICK q : q = Slice(t, k, n)
  OBVIOUS
<1>x. PICK x : x = Cat(s, p)
  OBVIOUS
<1>y. PICK y : y = Cat(x, q)
  OBVIOUS
<1>z. PICK z : z = Cat(s, t)
  OBVIOUS
<1>0. m \in Nat /\ n \in Nat /\ k <= n
  BY <1>m, <1>n
<1>1. p \in Seq(Nat) /\ Len(p) = k /\ \A i \in 1 .. k : p[i] = t[i]
  <2>1. IsSlice(p, t, 0, k)
    BY <1>p, SliceFacts
  <2>2. k - 0 = k /\ \A i \in 1 .. k : 0 + i = i
    OBVIOUS
  <2> QED
    BY <2>1, <2>2 DEF IsSlice
<1>2. q \in Seq(Nat) /\ Len(q) = n - k /\ \A i \in 1 .. n - k : q[i] = t[k + i]
  <2>1. IsSlice(q, t, k, n)
    BY <1>0, <1>n, <1>q, SliceFacts
  <2> QED
    BY <2>1 DEF IsSlice
<1>3. /\ x \in Seq(Nat) /\ Len(x) = m + k /\ \A i \in 1 .. m : x[i] = s[i]
      /\ \A i \in 1 .. k : x[m + i] = p[i]
  <2>1. IsCat(x, s, p)
    BY <1>1, <1>x, CatFacts
  <2> QED
    BY <1>1, <1>m, <2>1 DEF IsCat
<1>4. /\ y \in Seq(Nat) /\ Len(y) = (m + k) + (n - k) /\ \A i \in 1 .. m + k : y[i] = x[i]
      /\ \A i \in 1 .. n - k : y[(m + k) + i] = q[i]
  <2>1. x \in Seq(Nat) /\ q \in Seq(Nat)
    BY <1>2, <1>3
  <2>2. IsCat(y, x, q)
    BY <1>y, <2>1, CatFacts
  <2>3. Len(x) = m + k /\ Len(q) = n - k
    BY <1>2, <1>3
  <2> QED
    BY <2>2, <2>3 DEF IsCat
<1>5. /\ z \in Seq(Nat) /\ Len(z) = m + n /\ \A i \in 1 .. m : z[i] = s[i]
      /\ \A i \in 1 .. n : z[m + i] = t[i]
  <2>1. IsCat(z, s, t)
    BY <1>z, CatFacts
  <2> QED
    BY <1>m, <1>n, <2>1 DEF IsCat
<1>6. Len(y) = m + n
  BY <1>0, <1>4
<1>7. \A i \in 1 .. m + n : y[i] = z[i]
  <2>1. \A i \in 1 .. k : x[m + i] = t[i]
    BY <1>1, <1>3
  <2>2. \A i \in 1 .. n - k : y[(m + k) + i] = t[k + i]
    BY <1>2, <1>4
  <2>3. \A i \in 1 .. m : x[i] = s[i]
    BY <1>3
  <2>4. \A i \in 1 .. m + k : y[i] = x[i]
    BY <1>4
  <2>5. (\A i \in 1 .. m : z[i] = s[i]) /\ \A i \in 1 .. n : z[m + i] = t[i]
    BY <1>5
  <2> QED
    <3>1. InParts(m, n, k, s, t, x, y, z)
      BY <1>0, <2>1, <2>2, <2>3, <2>4, <2>5 DEF InParts
    <3> QED
      BY <3>1, PartsJoined
<1>8. y = z
  <2>1. y \in Seq(Nat) /\ z \in Seq(Nat) /\ m + n \in Nat /\ Len(z) = m + n
    BY <1>0, <1>4, <1>5
  <2> QED
    BY <1>6, <1>7, <2>1, SameSeq
<1> QED
  BY <1>8, <1>n, <1>p, <1>q, <1>x, <1>y, <1>z

\* readFd puts what was read behind the content, if part of it went to the extra
\* buffer too.
LEMMA ReadFdHolds ==
  ASSUME NEW b, NEW s, Holds(b, s), NEW data \in Seq(Nat)
  PROVE  Holds(readFd(b, data), Cat(s, data))
<1>1. PICK cells, n, r, w :
        /\ BufFields(cells, n, r, w) /\ IsSlice(s, cells, r, w) /\ writableBytes(b) = n - w
  BY HoldsBuf
<1>2. n \in Nat /\ w \in Nat /\ w <= n /\ s \in Seq(Nat)
  BY <1>1 DEF BufFields, IsSlice
<1> PICK d \in Nat : d = Len(data)
  OBVIOUS
<1> PICK k : k = n - w
  OBVIOUS
<1>3. k \in Nat /\ writableBytes(b) = k
  BY <1>1, <1>2
<1>4. CASE d <= k
  <2>1. readFd(b, data) = Put(b, data)
    BY <1>3, <1>4 DEF readFd
  <2> QED
    BY <1>3, <1>4, <2>1, PutHolds
<1>5. CASE ~(d <= k)
  <2> PICK p : p = Slice(data, 0, k)
    OBVIOUS
  <2> PICK q : q = Slice(data, k, d)
    OBVIOUS
  <2>1. k <= d
    BY <1>3, <1>5
  <2>2. IsSlice(p, data, 0, k) /\ IsSlice(q, data, k, d)
    BY <1>3, <2>1, SliceFacts
  <2>3. p \in Seq(Nat) /\ q \in Seq(Nat) /\ Len(p) = k
    <3>1. k - 0 = k
      BY <1>3
    <3> QED
      BY <2>2, <3>1 DEF IsSlice
  <2>4. readFd(b, data) = append(Put(b, p), q)
    <3>1. p = SubSeq(data, 1, k) /\ q = SubSeq(data, k + 1, d)
      BY DEF Slice
    <3> QED
      BY <1>3, <1>5, <3>1 DEF readFd
  <2>5. Holds(Put(b, p), Cat(s, p))
    <3>1. Len(p) <= writableBytes(b)
      BY <1>3, <2>3
    <3> QED
      BY <2>3, <3>1, PutHolds
  <2>6. Holds(append(Put(b, p), q), Cat(Cat(s, p), q))
    BY <2>3, <2>5, AppendHolds
  <2>7. Cat(Cat(s, p), q) = Cat(s, data)
    BY <1>2, <1>3, <2>1, CatSlices
  <2> QED
    BY <2>4, <2>6, <2>7
<1> QED
  BY <1>4, <1>5

\* retrieve takes away the first bytes, or all of them.
LEMMA RetrieveHolds ==
  ASSUME NEW b, NEW s, Holds(b, s), NEW len \in Nat, len <= Len(s)
  PROVE  Holds(retrieve(b, len), Slice(s, len, Len(s)))
<1>1. PICK cells, n, r, w :
        /\ BufFields(cells, n, r, w) /\ b = Buf(cells, r, w)
        /\ b.cells = cells /\ b.reader = r /\ b.writer = w
        /\ IsSlice(s, cells, r, w) /\ readableBytes(b) = w - r
  BY HoldsBuf
<1>2. /\ cells \in Seq(Nat) /\ n \in Nat /\ n = Len(cells) /\ r \in Nat /\ w \in Nat
      /\ kCheapPrepend <= r /\ r <= w /\ w <= n
  BY <1>1 DEF BufFields
<1>3. s \in Seq(Nat) /\ Len(s) = w - r /\ \A i \in 1 .. w - r : s[i] = cells[r + i]
  BY <1>1 DEF IsSlice
<1> PICK m : m = w - r
  OBVIOUS
<1> PICK p : p = Slice(s, len, m)
  OBVIOUS
<1>4. m \in Nat /\ len <= m /\ Len(s) = m
  BY <1>2, <1>3
<1>5. p \in Seq(Nat) /\ Len(p) = m - len /\ \A i \in 1 .. m - len : p[i] = s[len + i]
  <2>1. IsSlice(p, s, len, m)
    BY <1>3, <1>4, SliceFacts
  <2> QED
    BY <2>1 DEF IsSlice
<1>6. kCheapPrepend \in Nat
  BY BufferAssumption
<1>7. CASE len < m
  <2>1. retrieve(b, len) = Buf(cells, r + len, w)
    BY <1>1, <1>7 DEF retrieve, Buf
  <2>2. r + len \in Nat /\ r + len <= w /\ kCheapPrepend <= r + len /\ w - (r + len) = m - len
    BY <1>2, <1>4, <1>6
  <2>3. BufFields(cells, n, r + len, w)
    BY <1>2, <2>2 DEF BufFields
  <2>4. Holds(Buf(cells, r + len, w), Slice(cells, r + len, w))
    BY <2>3, BufHolds
  <2> PICK q : q = Slice(cells, r + len, w)
    OBVIOUS
  <2>5. q \in Seq(Nat) /\ Len(q) = m - len /\ \A i \in 1 .. m - len : q[i] = cells[r + len + i]
    <3>1. IsSlice(q, cells, r + len, w)
      BY <1>2, <2>2, SliceFacts
    <3> QED
      BY <2>2, <3>1 DEF IsSlice
  <2>6. ASSUME NEW i \in 1 .. m - len PROVE q[i] = p[i]
    <3>1. len + i \in 1 .. w - r /\ r + (len + i) = r + len + i
      BY <1>2, <1>4
    <3> QED
      BY <1>3, <1>5, <2>5, <3>1
  <2>7. q = p
    <3>1. m - len \in Nat
      BY <1>4, <1>7
    <3> QED
      BY <1>5, <2>5, <2>6, <3>1, SameSeq
  <2> QED
    BY <1>4, <2>1, <2>4, <2>7
<1>8. CASE ~(len < m)
  <2> PICK f : f = kCheapPrepend
    OBVIOUS
  <2>1. retrieve(b, len) = Buf(cells, f, f)
    BY <1>1, <1>8 DEF retrieve, retrieveAll, Buf
  <2>2. f <= n /\ f \in Nat /\ f - f = 0 /\ m - len = 0
    BY <1>2, <1>4, <1>6, <1>8
  <2>3. BufFields(cells, n, f, f)
    BY <1>2, <2>2 DEF BufFields
  <2>4. Holds(Buf(cells, f, f), Slice(cells, f, f))
    BY <2>3, BufHolds
  <2>5. Slice(cells, f, f) = p
    <3>1. IsSlice(Slice(cells, f, f), cells, f, f)
      BY <1>2, <2>2, SliceFacts
    <3>2. Slice(cells, f, f) \in Seq(Nat) /\ Len(Slice(cells, f, f)) = 0
      BY <2>2, <3>1 DEF IsSlice
    <3>3. Len(p) = 0
      BY <1>5, <2>2
    <3> QED
      BY <1>5, <3>2, <3>3, SameSeq
  <2> QED
    BY <1>4, <2>1, <2>4, <2>5
<1> QED
  BY <1>7, <1>8

\* Buffer.h:64-84, 132-137, 174-194, Buffer.cc:18-62: for every vector whose indices
\* are in order, append and readFd put their bytes behind the content, and retrieve
\* takes the first ones away, whether the vector grows, its content moves or the
\* indices go back; the indices stay in order.
THEOREM BufferOperations ==
  ASSUME NEW b \in Buffers, BufferOK(b), NEW data \in Seq(Nat),
         NEW len \in Nat, len <= readableBytes(b)
  PROVE  /\ BufferOK(append(b, data)) /\ Content(append(b, data)) = Content(b) \o data
         /\ BufferOK(readFd(b, data)) /\ Content(readFd(b, data)) = Content(b) \o data
         /\ BufferOK(retrieve(b, len))
         /\ Content(retrieve(b, len)) = SubSeq(Content(b), len + 1, Len(Content(b)))
<1> PICK s : s = Content(b)
  OBVIOUS
<1>1. Holds(b, s)
  BY DEF Holds
<1>2. Holds(append(b, data), Cat(s, data)) /\ Holds(readFd(b, data), Cat(s, data))
  BY <1>1, AppendHolds, ReadFdHolds
<1>3. len <= Len(s)
  <2>1. PICK cells, n, r, w : IsSlice(s, cells, r, w) /\ readableBytes(b) = w - r
    BY <1>1, HoldsBuf
  <2> QED
    BY <2>1 DEF IsSlice
<1>4. Holds(retrieve(b, len), Slice(s, len, Len(s)))
  BY <1>1, <1>3, RetrieveHolds
<1> QED
  BY <1>2, <1>4 DEF Holds, Cat, Slice

-----------------------------------------------------------------------------
(***************************************************************************)
(* The connection: the parser over its input buffer.                       *)
(***************************************************************************)

\* The half tokens from one place to another.
LEMMA HalfFacts ==
  ASSUME NEW c \in Nat, NEW a \in Nat, c <= a
  PROVE  /\ HalfTokens(c, a) \in Seq(Nat) /\ Len(HalfTokens(c, a)) = a - c
         /\ \A i \in 1 .. a - c : HalfTokens(c, a)[i] = c + i
<1> PICK n : n = a - c
  OBVIOUS
<1> PICK h : h = HalfTokens(c, a)
  OBVIOUS
<1>1. n \in Nat /\ h = [i \in 1 .. n |-> c + i]
  BY DEF HalfTokens
<1>2. h \in [1 .. n -> Nat]
  BY <1>1
<1>3. h \in Seq(Nat) /\ Len(h) = n
  BY <1>1, <1>2, FunSeq
<1> QED
  BY <1>1, <1>3

\* Those that arrive go behind those that are there.
LEMMA HalfCat ==
  ASSUME NEW c \in Nat, NEW a \in Nat, NEW z \in Nat, c <= a, a <= z
  PROVE  Cat(HalfTokens(c, a), HalfTokens(a, z)) = HalfTokens(c, z)
<1> PICK x : x = HalfTokens(c, a)
  OBVIOUS
<1> PICK y : y = HalfTokens(a, z)
  OBVIOUS
<1> PICK h : h = HalfTokens(c, z)
  OBVIOUS
<1> PICK s : s = Cat(x, y)
  OBVIOUS
<1> PICK m : m = a - c
  OBVIOUS
<1> PICK n : n = z - a
  OBVIOUS
<1>0. m \in Nat /\ n \in Nat /\ z - c = m + n /\ c <= z /\ m + n \in Nat /\ c + m = a
  OBVIOUS
<1>1. x \in Seq(Nat) /\ Len(x) = m /\ \A i \in 1 .. m : x[i] = c + i
  BY HalfFacts
<1>2. y \in Seq(Nat) /\ Len(y) = n /\ \A i \in 1 .. n : y[i] = a + i
  BY HalfFacts
<1>3. h \in Seq(Nat) /\ Len(h) = z - c /\ \A i \in 1 .. z - c : h[i] = c + i
  BY <1>0, HalfFacts, ZenonT(60)
<1>4. /\ s \in Seq(Nat) /\ Len(s) = m + n
      /\ \A i \in 1 .. m : s[i] = x[i]
      /\ \A i \in 1 .. n : s[m + i] = y[i]
  <2>1. IsCat(s, x, y)
    BY <1>1, <1>2, CatFacts
  <2> QED
    BY <1>1, <1>2, <2>1 DEF IsCat
<1>5. ASSUME NEW i \in 1 .. m + n PROVE s[i] = h[i]
  <2>1. h[i] = c + i
    BY <1>0, <1>3
  <2>2. CASE i <= m
    <3>1. i \in 1 .. m
      BY <1>0, <2>2
    <3> QED
      BY <1>1, <1>4, <2>1, <3>1
  <2>3. CASE ~(i <= m)
    <3> PICK j : j = i - m
      OBVIOUS
    <3>1. j \in 1 .. n /\ i = m + j /\ a + j = c + i
      BY <1>0, <2>3
    <3>2. s[m + j] = y[j] /\ y[j] = a + j
      BY <1>2, <1>4, <3>1
    <3> QED
      BY <2>1, <3>1, <3>2
  <2> QED
    BY <2>2, <2>3
<1>6. s = h
  <2>1. s \in Seq(Nat) /\ h \in Seq(Nat) /\ m + n \in Nat /\ Len(s) = m + n
        /\ Len(h) = m + n
    BY <1>0, <1>3, <1>4
  <2> QED
    BY <1>5, <2>1, SameSeq, Zenon
<1> QED
  BY <1>6

\* Those that are retrieved were the first.
LEMMA HalfSlice ==
  ASSUME NEW c \in Nat, NEW a \in Nat, NEW k \in Nat, c + k <= a
  PROVE  Slice(HalfTokens(c, a), k, a - c) = HalfTokens(c + k, a)
<1> PICK x : x = HalfTokens(c, a)
  OBVIOUS
<1> PICK h : h = HalfTokens(c + k, a)
  OBVIOUS
<1> PICK m : m = a - c
  OBVIOUS
<1> PICK p : p = Slice(x, k, m)
  OBVIOUS
<1>0. m \in Nat /\ k <= m /\ c <= a /\ c + k \in Nat /\ a - (c + k) = m - k /\ m - k \in Nat
  OBVIOUS
<1>1. x \in Seq(Nat) /\ Len(x) = m /\ \A i \in 1 .. m : x[i] = c + i
  BY <1>0, HalfFacts
<1>2. h \in Seq(Nat) /\ Len(h) = m - k /\ \A i \in 1 .. m - k : h[i] = c + k + i
  <2> PICK e : e = c + k
    OBVIOUS
  <2>1. e \in Nat /\ e <= a /\ a - e = m - k
    BY <1>0
  <2>2. h \in Seq(Nat) /\ Len(h) = a - e /\ \A i \in 1 .. a - e : h[i] = e + i
    BY <2>1, HalfFacts
  <2> QED
    BY <2>1, <2>2
<1>3. p \in Seq(Nat) /\ Len(p) = m - k /\ \A i \in 1 .. m - k : p[i] = x[k + i]
  <2>1. IsSlice(p, x, k, m)
    BY <1>0, <1>1, SliceFacts
  <2> QED
    BY <2>1 DEF IsSlice
<1>4. ASSUME NEW i \in 1 .. m - k PROVE p[i] = h[i]
  <2>1. k + i \in 1 .. m /\ c + (k + i) = c + k + i
    BY <1>0
  <2> QED
    BY <1>1, <1>2, <1>3, <2>1
<1>5. p = h
  BY <1>0, <1>2, <1>3, <1>4, SameSeq, Zenon
<1> QED
  BY <1>5

\* The parser over what is in the buffer.
ConnInv == HttpInv /\ Holds(inputBuffer, HalfTokens(Consumed(read, torn), arrived))

\* What is consumed.
LEMMA ConsumedIs ==
  ASSUME NEW r \in Nat, NEW t \in BOOLEAN, NEW a \in Nat, 2 * r <= a, t => 2 * r < a
  PROVE  /\ Consumed(r, t) \in Nat /\ Consumed(r, t) <= a /\ 2 * r <= Consumed(r, t)
         /\ ~t => Consumed(r, t) = 2 * r
<1>1. CASE t
  BY <1>1 DEF Consumed
<1>2. CASE ~t
  BY <1>2 DEF Consumed
<1> QED
  BY <1>1, <1>2

\* Only what has arrived is consumed.
LEMMA ConsumedArrived ==
  ASSUME HttpInv
  PROVE  /\ arrived \in Nat /\ Consumed(read, torn) \in Nat /\ Consumed(read, torn) <= arrived
         /\ read \in Nat /\ torn \in BOOLEAN /\ (~torn => Consumed(read, torn) = 2 * read)
<1>1. read \in Nat /\ arrived \in Nat /\ torn \in BOOLEAN
  BY HasTypes DEF HttpTypes, HttpInv, HttpTypeOK
<1>2. 2 * read <= arrived /\ (torn => 2 * read < arrived)
  BY DEF HttpInv, ReadsArrived
<1> QED
  BY <1>1, <1>2, ConsumedIs

\* The same after a step.
LEMMA ConsumedArrivedNext ==
  ASSUME HttpInv'
  PROVE  /\ arrived' \in Nat /\ Consumed(read', torn') \in Nat /\ Consumed(read', torn') <= arrived'
         /\ read' \in Nat /\ torn' \in BOOLEAN /\ 2 * read' <= Consumed(read', torn')
<1>0. stream' \in Streams
  BY DEF HttpInv, HttpTypeOK
<1>1. read' \in Nat /\ arrived' \in Nat /\ torn' \in BOOLEAN
  BY <1>0, StreamFacts DEF HttpInv, HttpTypeOK
<1>2. 2 * read' <= arrived' /\ (torn' => 2 * read' < arrived')
  BY DEF HttpInv, ReadsArrived
<1> QED
  BY <1>1, <1>2, ConsumedIs

\* The handler goes forward: and a token whose first half has been thrown away
\* stays where it is.
LEMMA HandlerConsumes ==
  ASSUME HttpInv, Handler
  PROVE  /\ arrived' = arrived /\ Consumed(read, torn) <= Consumed(read', torn')
<1>1. HttpInv' /\ HttpTypes
  BY HandlerKeeps, HasTypes
<1>2. read \in Nat /\ read' \in Nat /\ torn \in BOOLEAN /\ torn' \in BOOLEAN
  BY <1>1, ConsumedArrived, ConsumedArrivedNext
<1>3. ASSUME read' = read, torn' = torn PROVE Consumed(read, torn) <= Consumed(read', torn')
  <2>1. Consumed(read, torn) \in Nat
    BY ConsumedArrived
  <2> QED
    BY <1>3, <2>1
<1>4. ASSUME ~torn, read <= read' PROVE Consumed(read, torn) <= Consumed(read', torn')
  <2>1. Consumed(read, torn) = 2 * read
    BY <1>4, ConsumedArrived
  <2>2. 2 * read' <= Consumed(read', torn') /\ Consumed(read', torn') \in Nat
    BY <1>1, ConsumedArrivedNext
  <2> QED
    BY <1>2, <1>4, <2>1, <2>2
<1>5. CASE NeedsMore
  BY <1>3, <1>5 DEF NeedsMore
<1>6. CASE ParseRequestLine
  <2> PICK i : i = read + 1
    OBVIOUS
  <2>1. arrived' = arrived /\ torn' = torn
    BY <1>6 DEF ParseRequestLine
  <2>2. CASE IsRequestLine(i)
    <3>1. ~torn /\ read' = i
      BY <1>6, <2>2 DEF ParseRequestLine, IsRequestLine
    <3> QED
      BY <1>2, <1>4, <2>1, <3>1
  <2>3. CASE ~IsRequestLine(i)
    <3>1. read' = read
      BY <1>6, <2>3 DEF ParseRequestLine
    <3> QED
      BY <1>3, <2>1, <3>1
  <2> QED
    BY <2>2, <2>3
<1>7. CASE ParseHeaders
  <2>1. arrived' = arrived /\ read' = read + 1 /\ ctx = "kExpectHeaders"
    BY <1>7 DEF ParseHeaders
  <2>2. ~torn
    BY <2>1 DEF HttpInv, ReadsArrived
  <2>3. read <= read'
    BY <1>2, <2>1
  <2> QED
    BY <1>4, <2>1, <2>2, <2>3
<1>8. CASE ParseBody
  BY <1>3, <1>8 DEF ParseBody, GotAll
<1>9. CASE ParsePart
  <2>1. arrived' = arrived /\ ctx = "kExpectBody" /\ read' \in PartEnd
    BY <1>9 DEF ParsePart, GotAll
  <2>2. ~torn /\ read <= read'
    BY <1>1, <2>1, HeadRead DEF HttpTypes, PartEnd
  <2> QED
    BY <1>4, <2>1, <2>2
<1>10. CASE ParsePartCut
  <2>1. arrived' = arrived /\ ctx = "kExpectBody" /\ read' = arrived \div 2
    BY <1>10 DEF ParsePartCut, GotAll
  <2>2. arrived \in Nat /\ 2 * read <= arrived
    BY <1>1 DEF HttpTypes, HttpInv, ReadsArrived
  <2>3. ~torn /\ read <= read'
    BY <1>2, <2>1, <2>2, HeadRead
  <2> QED
    BY <1>4, <2>1, <2>3
<1>11. CASE Reply
  BY <1>3, <1>11 DEF Reply
<1>12. CASE UploadThrows
  BY <1>3, <1>12 DEF UploadThrows
<1> QED
  BY <1>5, <1>6, <1>7, <1>8, <1>9, <1>10, <1>11, <1>12 DEF Handler

\* An empty buffer at the start.
LEMMA ConnStarts == ASSUME ConnInit PROVE ConnInv
<1>1. HttpInv /\ inputBuffer = EmptyBuffer /\ read = 0 /\ torn = FALSE /\ arrived = 0
  BY HttpStarts DEF ConnInit, HttpInit
<1> PICK f : f = kCheapPrepend
  OBVIOUS
<1> PICK n : n = f + kInitialSize
  OBVIOUS
<1>2. f \in Nat /\ n \in Nat /\ f <= n
  BY BufferAssumption
<1> PICK cells : cells = Blank(n)
  OBVIOUS
<1>3. cells \in Seq(Nat) /\ Len(cells) = n
  <2>1. cells \in [1 .. n -> Nat]
    BY DEF Blank
  <2> QED
    BY <1>2, <2>1, FunSeq
<1>4. BufFields(cells, n, f, f)
  BY <1>2, <1>3 DEF BufFields
<1>5. inputBuffer = Buf(cells, f, f)
  BY <1>1 DEF EmptyBuffer, Buf
<1>6. Holds(inputBuffer, Slice(cells, f, f))
  BY <1>4, <1>5, BufHolds
<1>7. Slice(cells, f, f) = HalfTokens(0, 0)
  <2>1. IsSlice(Slice(cells, f, f), cells, f, f)
    BY <1>2, <1>3, SliceFacts
  <2>2. f - f = 0
    BY <1>2
  <2>3. Slice(cells, f, f) \in Seq(Nat) /\ Len(Slice(cells, f, f)) = 0
    BY <2>1, <2>2 DEF IsSlice
  <2>4. HalfTokens(0, 0) \in Seq(Nat) /\ Len(HalfTokens(0, 0)) = 0
    BY HalfFacts
  <2> QED
    BY <2>3, <2>4, SameSeq
<1>8. Consumed(read, torn) = 0
  BY <1>1 DEF Consumed
<1> QED
  BY <1>1, <1>6, <1>7, <1>8 DEF ConnInv

\* More bytes are read into it.
LEMMA HandleReadKeeps == ASSUME ConnInv, NEW n \in Nat, HandleRead(n) PROVE ConnInv'
<1>1. /\ OnMessage(n) /\ read' = read /\ torn' = torn /\ arrived' = arrived + n
      /\ inputBuffer' = readFd(inputBuffer, HalfTokens(arrived, arrived + n))
  BY DEF HandleRead, OnMessage
<1>2. HttpInv'
  BY <1>1, OnMessageKeeps DEF ConnInv
<1> PICK c : c = Consumed(read, torn)
  OBVIOUS
<1> PICK a : a = arrived
  OBVIOUS
<1>3. a \in Nat /\ c \in Nat /\ c <= a /\ a + n \in Nat /\ a <= a + n
  BY ConsumedArrived DEF ConnInv
<1>4. HalfTokens(a, a + n) \in Seq(Nat)
  BY <1>3, HalfFacts
<1>5. Holds(inputBuffer, HalfTokens(c, a))
  BY DEF ConnInv
<1>6. Holds(inputBuffer', Cat(HalfTokens(c, a), HalfTokens(a, a + n)))
  BY <1>1, <1>4, <1>5, ReadFdHolds
<1>7. Holds(inputBuffer', HalfTokens(c, a + n))
  BY <1>3, <1>6, HalfCat
<1>8. Consumed(read', torn') = c /\ arrived' = a + n
  BY <1>1
<1> QED
  BY <1>2, <1>7, <1>8 DEF ConnInv, Consumed, HalfTokens, Holds, BufferOK, Content

\* What the handler has consumed leaves it.
LEMMA HandlerStepKeeps == ASSUME ConnInv, HandlerStep PROVE ConnInv'
<1> PICK c : c = Consumed(read, torn)
  OBVIOUS
<1> PICK d : d = Consumed(read', torn')
  OBVIOUS
<1> PICK a : a = arrived
  OBVIOUS
<1> PICK k : k = d - c
  OBVIOUS
<1>1. Handler /\ inputBuffer' = IF k = 0 THEN inputBuffer ELSE retrieve(inputBuffer, k)
  BY DEF HandlerStep
<1>2. HttpInv' /\ arrived' = a /\ c <= d
  BY <1>1, HandlerKeeps, HandlerConsumes DEF ConnInv
<1>3. a \in Nat /\ c \in Nat /\ d \in Nat /\ d <= a
  BY <1>2, ConsumedArrived, ConsumedArrivedNext DEF ConnInv
<1>4. k \in Nat /\ c + k = d /\ c + k <= a /\ k <= a - c /\ c <= a
  BY <1>2, <1>3
<1>5. Holds(inputBuffer, HalfTokens(c, a))
  BY DEF ConnInv
<1>6. Holds(inputBuffer', HalfTokens(d, a))
  <2>1. CASE k = 0
    <3>1. c = d
      BY <1>3, <1>4, <2>1
    <3> QED
      BY <1>1, <1>5, <2>1, <3>1
  <2>2. CASE k # 0
    <3>1. Len(HalfTokens(c, a)) = a - c
      BY <1>3, <1>4, HalfFacts
    <3>2. Holds(retrieve(inputBuffer, k), Slice(HalfTokens(c, a), k, a - c))
      BY <1>4, <1>5, <3>1, RetrieveHolds
    <3>3. Slice(HalfTokens(c, a), k, a - c) = HalfTokens(d, a)
      BY <1>3, <1>4, HalfSlice
    <3> QED
      BY <1>1, <2>2, <3>2, <3>3
  <2> QED
    BY <2>1, <2>2
<1> QED
  BY <1>2, <1>6 DEF ConnInv, Consumed, HalfTokens, Holds, BufferOK, Content

\* Both hold together throughout.
LEMMA ConnSafe == ConnSpec => []ConnInv
<1>1. ConnInit => ConnInv
  BY ConnStarts
<1>2. ConnInv /\ [ConnNext]_connVars => ConnInv'
  <2> SUFFICES ASSUME ConnInv, [ConnNext]_connVars PROVE ConnInv'
    OBVIOUS
  <2>1. CASE HandlerStep
    BY <2>1, HandlerStepKeeps
  <2>2. CASE \E n \in 1 .. 2 * Len(stream) : HandleRead(n)
    <3>1. PICK n \in 1 .. 2 * Len(stream) : HandleRead(n)
      BY <2>2
    <3>2. n \in Nat
      <4>1. Len(stream) \in Nat
        BY HasTypes DEF ConnInv, HttpTypes
      <4> QED
        BY <4>1
    <3> QED
      BY <3>1, <3>2, HandleReadKeeps
  <2>3. CASE UNCHANGED connVars
    <3>1. UNCHANGED httpVars /\ UNCHANGED inputBuffer
      BY <2>3 DEF connVars
    <3>2. HttpInv'
      BY <3>1, HttpStutters DEF ConnInv
    <3>3. read' = read /\ torn' = torn /\ arrived' = arrived
      BY <3>1 DEF httpVars
    <3> QED
      BY <3>1, <3>2, <3>3 DEF ConnInv, Consumed, HalfTokens, Holds, BufferOK, Content
  <2> QED
    BY <2>1, <2>2, <2>3 DEF ConnNext
<1> QED
  BY <1>1, <1>2, PTL DEF ConnSpec

\* HttpContext.cc:57-160, HttpRequest.h:108-124, FileServer.cc:178-182: for all
\* streams of lines, every way their bytes are cut into reads and all sizes of the
\* buffer, each request that onRequest gets is a request line with exactly the
\* headers that follow it and no other request's; the first is on the first line,
\* and each next one on the line behind the head of the last, or further on if
\* that was an upload.
THEOREM RequestsAreIntact == ConnSpec => []RequestsIntact
<1>1. ConnInv => RequestsIntact
  BY DEF ConnInv, HttpInv
<1> QED
  BY <1>1, ConnSafe, PTL

\* FileServer.cc:173-182, 214-228: the replies answer the requests in order, a
\* refusal is the last, and none is missing while the connection is up.
THEOREM RepliesInOrder == ConnSpec => []RepliesFollowRequests
<1>1. ConnInv => RepliesFollowRequests
  BY DEF ConnInv, HttpInv
<1> QED
  BY <1>1, ConnSafe, PTL

\* Buffer.h:64-84, 132-137, 174-194, Buffer.cc:18-62: for all sizes of the buffer
\* and of the reads, the parser finds in it exactly the bytes that have arrived and
\* are not consumed.
THEOREM BufferIsExact == ConnSpec => []BufferHolds
<1>1. ConnInv => BufferHolds
  BY DEF ConnInv, Holds, BufferHolds
<1> QED
  BY <1>1, ConnSafe, PTL
=============================================================================
