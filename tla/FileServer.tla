----------------------------- MODULE FileServer ------------------------------
(***************************************************************************)
(* FileServer::setResponseBody (src/http/FileServer.cc) as the I/O loops   *)
(* run it side by side: the accounts (the users map and the login table)   *)
(* and the files (stat, open, sendfile, rewrite and remove).               *)
(*                                                                         *)
(* A byte of a file is its character, the file and the upload that it was  *)
(* written for, and its place among the bytes that were written.  The      *)
(* pages without state (welcome, sign up, sign in, listings, 404, favicon) *)
(* only end a request and are left out.                                    *)
(***************************************************************************)
EXTENDS Integers, Sequences

CONSTANTS Workers,    \* I/O loops, each with one request at a time
          Names, Passwords,
          Files,
          Chars,      \* what a file is made of, and Dashes
          Bodies,     \* what parsePart may have left in m_string
          Ranges,     \* Range headers: <<first, last>>, <<>> without a header
          MaxInt,     \* INT_MAX
          MaxGarbage, \* bound on the length in a stat buffer that was not filled
          MaxOps,     \* bound on the requests that are served
          MaxRestarts \* bound on the restarts of the process

None == "none"
Dashes == "-----------------"   \* the 17 of them that end the content

\* A bound of a range that is empty, and one that stoi finds no number in.
Absent == -1
NoNumber == -2
Bounds == Nat \union {Absent, NoNumber}

\* None is no password and no worker, and a bound of a range is a position.
ASSUME NoneAssumption == None \notin Passwords /\ None \notin Workers
ASSUME RangesAssumption ==
  /\ MaxInt \in Nat /\ MaxGarbage \in Nat
  /\ Bodies \subseteq Seq(Chars)
  /\ Ranges \subseteq {<<>>} \union (Bounds \X Bounds)

VARIABLES
  up,        \* the process is running
  db,        \* the login table: db[n] is n's password or None
  users,     \* users
  mutex,     \* the worker that holds mutex_, or None
  refused,   \* history: names whose INSERT failed although they were free
  admitted,  \* history: the <<name, password>> of successful logins
  dir,       \* dir[f]: the inode of f, 0 if there is no such file
  disk,      \* disk[i]: the contents of inode i
  home,      \* history: home[i], the file that inode i was made for
  wpc,       \* wpc[w]: where the worker is in its request
  job,       \* job[w]: the request and its local variables
  clean,     \* history: clean[w], no one else has touched w's file meanwhile
  ops, restarts

accounts == <<db, users, mutex, refused, admitted>>
files == <<dir, disk, home>>
vars == <<up, accounts, files, wpc, job, clean, ops, restarts>>

Idle == [op |-> "none", file |-> None]

Init ==
  /\ up = TRUE
  /\ db = [n \in Names |-> None] /\ users = db
  /\ mutex = None /\ refused = {} /\ admitted = {}
  /\ dir = [f \in Files |-> 0] /\ disk = <<>> /\ home = <<>>
  /\ wpc = [w \in Workers |-> "idle"] /\ job = [w \in Workers |-> Idle]
  /\ clean = [w \in Workers |-> TRUE]
  /\ ops = 0 /\ restarts = 0

Begin(w) ==
  /\ wpc[w] = "idle" /\ ops < MaxOps
  /\ ops' = ops + 1
  /\ UNCHANGED restarts

Goto(w, step) == wpc' = [wpc EXCEPT ![w] = step]

-----------------------------------------------------------------------------
(***************************************************************************)
(* Registration ("3"): INSERT and the map, under mutex_.  The INSERT fails *)
(* for a name that is taken, or because the database is not available.     *)
(***************************************************************************)
RegisterUpdate(w, n, p) ==
  /\ Begin(w) /\ mutex = None
  /\ mutex' = w
  /\ \/ /\ db[n] = None /\ db' = [db EXCEPT ![n] = p] /\ UNCHANGED refused
     \/ /\ db[n] # None /\ UNCHANGED <<db, refused>>
     \/ /\ db[n] = None /\ refused' = refused \union {n} /\ UNCHANGED db
  /\ job' = [job EXCEPT ![w] = [op |-> "register", file |-> None,
                                name |-> n, password |-> p]]
  /\ Goto(w, "insert")
  /\ UNCHANGED <<users, admitted, files, clean>>

\* Mutant: users[name] = password.
InsertedOverwrites(n, p) == [users EXCEPT ![n] = p]

\* std::map::insert keeps the password of a name that is there already; the
\* result of the INSERT is not looked at.
Inserted(n, p) == [users EXCEPT ![n] = IF @ = None THEN p ELSE @]

RegisterInsert(w) ==
  /\ wpc[w] = "insert"
  /\ users' = Inserted(job[w].name, job[w].password)
  /\ mutex' = None
  /\ Goto(w, "replied")
  /\ UNCHANGED <<db, refused, admitted, files, job, clean, ops, restarts>>

\* Mutant: any password will do.
MatchesName(n, p) == users[n] # None

Matches(n, p) == users[n] = p

\* Login ("2"): the map is read without mutex_.  While an insert is going on
\* in another thread the search may also miss the name.
Login(w, n, p) ==
  /\ Begin(w)
  /\ \/ admitted' = IF Matches(n, p) THEN admitted \union {<<n, p>>} ELSE admitted
     \/ /\ \E v \in Workers \ {w} : wpc[v] = "insert"
        /\ UNCHANGED admitted
  /\ job' = [job EXCEPT ![w] = [op |-> "login", file |-> None]]
  /\ Goto(w, "replied")
  /\ UNCHANGED <<db, users, mutex, refused, files, clean>>

-----------------------------------------------------------------------------
(***************************************************************************)
(* The files.  A request on f that starts while someone rewrites f, or     *)
(* during which someone else changes f, is no longer clean.                *)
(***************************************************************************)
OnFile(w, f) == wpc[w] # "idle" /\ job[w].file = f

StartsOn(w, f) ==
  clean' = [clean EXCEPT ![w] =
              ~ \E v \in Workers \ {w} : OnFile(v, f) /\ wpc[v] = "write"]

Touches(w, f) ==
  clean' = [v \in Workers |-> clean[v] /\ (v = w \/ ~OnFile(v, f))]

TouchesAtStart(w, f) ==
  clean' = [v \in Workers |->
              IF v = w THEN ~ \E u \in Workers \ {w} : OnFile(u, f) /\ wpc[u] = "write"
                       ELSE clean[v] /\ ~OnFile(v, f)]

(***************************************************************************)
(* What is sent of a file of len bytes: the offset of lseek, the length in *)
(* the header, and the length that sendfile gets, which goes through an    *)
(* int if there is a Range header.                                         *)
(***************************************************************************)
\* stoi throws.
Throws(r) == r # <<>> /\ \E i \in 1 .. 2 : r[i] = NoNumber \/ r[i] > MaxInt

\* static_cast<int>
IntCast(n) == ((n + MaxInt + 1) % (2 * (MaxInt + 1))) - (MaxInt + 1)

\* Mutant: the last byte is not counted.
RangeSentShort(r, len) ==
  LET beg == IF r[1] # Absent THEN r[1]
             ELSE IF r[2] # Absent THEN len - r[2] ELSE 0
      end == IF r[1] # Absent /\ r[2] # Absent THEN r[2]
             ELSE IF r[1] = Absent /\ r[2] = Absent THEN 0 ELSE len - 1
  IN [offset |-> beg, count |-> end - beg, send |-> IntCast(end - beg)]

RangeSent(r, len) ==
  LET beg == IF r[1] # Absent THEN r[1]
             ELSE IF r[2] # Absent THEN len - r[2] ELSE 0
      end == IF r[1] # Absent /\ r[2] # Absent THEN r[2]
             ELSE IF r[1] = Absent /\ r[2] = Absent THEN 0 ELSE len - 1
      need == end - beg + 1
  IN [offset |-> beg, count |-> need, send |-> IntCast(need)]

Part(r, len) ==
  IF r = <<>> THEN [offset |-> 0, count |-> len, send |-> len] ELSE RangeSent(r, len)

\* The reference, by the meaning of a Range header: the positions, counted from
\* 1, that a header asks for of a file of len bytes.  An end behind the file and
\* a suffix longer than the file are clipped.
FirstAsked(r, len) ==
  IF r = <<>> THEN 1
  ELSE IF r[1] # Absent THEN r[1] + 1
  ELSE IF r[2] # Absent /\ r[2] < len THEN len - r[2] + 1 ELSE 1

LastAsked(r, len) ==
  IF r = <<>> \/ r[1] = Absent \/ r[2] = Absent \/ r[2] >= len THEN len ELSE r[2] + 1

Satisfiable(r, len) ==
  \/ r = <<>>
  \/ r[1] = Absent /\ r[2] > 0 /\ len > 0
  \/ r[1] \in 0 .. (len - 1) /\ (r[2] = Absent \/ r[2] >= r[1])

\* The header asks for no more than there is.
Inside(r, len) ==
  r # <<>> => IF r[1] = Absent THEN r[2] <= len ELSE r[2] < len

\* GET of a regular file: stat, then open, then the header and sendfile.
GetStat(w, f, r) ==
  /\ Begin(w) /\ dir[f] # 0
  /\ job' = [job EXCEPT ![w] = [op |-> "get", file |-> f, range |-> r,
                                len |-> Len(disk[dir[f]])]]
  /\ StartsOn(w, f)
  /\ Goto(w, "open")
  /\ UNCHANGED <<accounts, files>>

\* "download": no test of stat's result, and no ranges.  If stat failed, the
\* length is whatever the variable held, as little as a negative number.
DownloadStat(w, f) ==
  /\ Begin(w)
  /\ \E len \in IF dir[f] # 0 THEN {Len(disk[dir[f]])} ELSE -1 .. MaxGarbage :
       job' = [job EXCEPT ![w] = [op |-> "get", file |-> f, range |-> <<>>,
                                  len |-> len]]
  /\ StartsOn(w, f)
  /\ Goto(w, "open")
  /\ UNCHANGED <<accounts, files>>

Opens(w) ==
  /\ wpc[w] = "open"
  /\ job' = [job EXCEPT ![w] = [op |-> "get", file |-> @.file, range |-> @.range,
                                len |-> @.len, inode |-> dir[@.file]]]
  /\ Goto(w, "send")
  /\ UNCHANGED <<accounts, files, clean, ops, restarts>>

\* The bytes that sendfile finds in d, into a socket that takes them all (a short
\* sendfile is in TcpConnection).  lseek to before the file leaves the descriptor
\* at its start; a negative length is an error, and nothing is sent.
Bytes(d, part) ==
  LET from == IF part.offset < 0 THEN 0 ELSE part.offset
      to == from + part.send
  IN SubSeq(d, from + 1, IF to < Len(d) THEN to ELSE Len(d))

Sends(w) ==
  LET part == Part(job[w].range, job[w].len) IN
  /\ wpc[w] = "send" /\ ~Throws(job[w].range)
  /\ job' = [job EXCEPT ![w] = [op |-> "get", file |-> @.file, range |-> @.range,
                                len |-> @.len, promised |-> part.count,
                                sent |-> IF @.inode = 0 THEN <<>>
                                         ELSE Bytes(disk[@.inode], part)]]
  /\ Goto(w, "replied")
  /\ UNCHANGED <<accounts, files, clean, ops, restarts>>

\* Nothing catches what stoi throws: the process ends, with every loop in it.
RangeThrows(w) ==
  /\ wpc[w] = "send" /\ Throws(job[w].range)
  /\ up' = FALSE
  /\ UNCHANGED <<accounts, files, wpc, job, clean, ops, restarts>>

-----------------------------------------------------------------------------
(***************************************************************************)
(* Upload ("u"): opening an ofstream creates or truncates, then one write. *)
(* Remove ("de").  The page says "success" whatever happened.              *)
(***************************************************************************)
\* The content is what comes before 17 dashes, the CRLF before a delimiter
\* included; the whole body if there are none, as find then returns npos.
FindDashes(body) ==
  CHOOSE n \in 0 .. Len(body) :
    /\ \A i \in 1 .. n : body[i] # Dashes
    /\ n < Len(body) => body[n + 1] = Dashes

Extracted(body) == SubSeq(body, 1, FindDashes(body))

Truncated(f) ==
  IF dir[f] = 0
    THEN /\ dir' = [dir EXCEPT ![f] = Len(disk) + 1]
         /\ disk' = Append(disk, <<>>) /\ home' = Append(home, f)
    ELSE dir' = dir /\ disk' = [disk EXCEPT ![dir[f]] = <<>>] /\ home' = home

UploadOpens(w, f, body) ==
  /\ Begin(w)
  /\ Truncated(f)
  /\ job' = [job EXCEPT ![w] = [op |-> "upload", file |-> f,
                                content |-> Extracted(body),
                                upload |-> ops + 1, inode |-> dir'[f]]]
  /\ TouchesAtStart(w, f)
  /\ Goto(w, "write")
  /\ UNCHANGED accounts

\* Byte number i of the n that upload j writes.
ByteOf(j, n, i) ==
  [char |-> j.content[i], file |-> j.file, upload |-> j.upload, at |-> i, of |-> n]

\* Mutant: the ofstream appends.
WrittenAtEnd(old, j, n) == old \o [i \in 1 .. n |-> ByteOf(j, n, i)]

\* The bytes go to the start of the file; what lies behind them stays.
Written(old, j, n) ==
  [i \in 1 .. (IF n > Len(old) THEN n ELSE Len(old)) |->
     IF i <= n THEN ByteOf(j, n, i) ELSE old[i]]

\* A write that fails, for want of room say, may have written a part.
UploadWrites(w) ==
  LET j == job[w] IN
  /\ wpc[w] = "write"
  /\ \E n \in 0 .. Len(j.content) :
       /\ disk' = [disk EXCEPT ![j.inode] = Written(@, j, n)]
       /\ job' = [job EXCEPT ![w] = [op |-> "upload", file |-> j.file,
                                     content |-> j.content, upload |-> j.upload,
                                     inode |-> j.inode, wrote |-> n]]
  /\ Touches(w, j.file)
  /\ Goto(w, "replied")
  /\ UNCHANGED <<accounts, dir, home, ops, restarts>>

\* The ofstream does not open (a directory that is missing, no descriptors).
UploadFails(w, f) ==
  /\ Begin(w)
  /\ job' = [job EXCEPT ![w] = [op |-> "upload failed", file |-> f]]
  /\ Goto(w, "replied")
  /\ UNCHANGED <<accounts, files, clean>>

\* remove() fails if there is no such file, or for want of permission.
Remove(w, f) ==
  /\ Begin(w)
  /\ \/ dir[f] # 0 /\ dir' = [dir EXCEPT ![f] = 0] /\ TouchesAtStart(w, f)
     \/ dir' = dir /\ StartsOn(w, f)
  /\ job' = [job EXCEPT ![w] = [op |-> "delete", file |-> f]]
  /\ Goto(w, "replied")
  /\ UNCHANGED <<accounts, disk, home>>

\* The reply is on its way and the loop turns to its next request.
NextRequest(w) ==
  /\ wpc[w] = "replied"
  /\ Goto(w, "idle")
  /\ job' = [job EXCEPT ![w] = Idle]
  /\ UNCHANGED <<accounts, files, clean, ops, restarts>>

\* The process stops anywhere and starts again: sql_pool reads the table.
Restart ==
  /\ restarts < MaxRestarts
  /\ restarts' = restarts + 1
  /\ up' = TRUE
  /\ users' = db /\ mutex' = None
  /\ wpc' = [w \in Workers |-> "idle"] /\ job' = [w \in Workers |-> Idle]
  /\ UNCHANGED <<db, refused, admitted, files, clean, ops>>

AccountStep(w) ==
  \/ \E n \in Names, p \in Passwords : RegisterUpdate(w, n, p) \/ Login(w, n, p)
  \/ RegisterInsert(w)

FileStep(w) ==
  \/ \E f \in Files, r \in Ranges : GetStat(w, f, r)
  \/ \E f \in Files : DownloadStat(w, f) \/ UploadFails(w, f) \/ Remove(w, f)
  \/ \E f \in Files, body \in Bodies : UploadOpens(w, f, body)
  \/ Opens(w) \/ Sends(w) \/ UploadWrites(w)

Next ==
  \/ /\ up
     /\ \E w \in Workers : AccountStep(w) \/ FileStep(w) \/ NextRequest(w)
     /\ UNCHANGED up
  \/ up /\ \E w \in Workers : RangeThrows(w)
  \/ Restart

Spec == Init /\ [][Next]_vars

-----------------------------------------------------------------------------
(***************************************************************************)
(* Properties.                                                             *)
(***************************************************************************)

\* FileServer.cc:457-461: whenever mutex_ is free, the map knows every account
\* of the table, and with the same password unless an INSERT has been refused
\* for a name that was free.
AccountsAgree ==
  mutex = None =>
    \A n \in Names : /\ db[n] # None => users[n] # None
                     /\ n \notin refused => users[n] = db[n]

\* FileServer.cc:518: who has been let in is in the table with that password,
\* also after a restart, unless an INSERT had been refused for that name.
AdmittedAreRegistered ==
  \A a \in admitted : a[1] \in refused \/ db[a[1]] = a[2]

\* A file is made of what uploads of it wrote, each at the place it has in its
\* upload and with all that the upload wrote behind it: a later upload may cover
\* the beginning of an earlier one and nothing else.
Layered(d, f) ==
  \A i \in 1 .. Len(d) :
    /\ d[i].file = f /\ d[i].at = i /\ d[i].char # Dashes
    /\ d[i].of \in i .. Len(d)
    /\ \A k \in i .. d[i].of : d[k].upload = d[i].upload

\* FileServer.cc:598-632: whatever uploads, failed writes, removals and restarts
\* have overlapped, a file is never interleaved, shifted or mixed with another
\* one's bytes; and an upload that no other request on the file has overlapped
\* leaves exactly what its write took of the content before the 17 dashes.
UploadsIntact ==
  /\ \A f \in Files : dir[f] # 0 => Layered(disk[dir[f]], f)
  /\ \A w \in Workers :
       LET j == job[w] IN
       wpc[w] = "replied" /\ j.op = "upload" /\ clean[w]
         => /\ dir[j.file] = j.inode
            /\ disk[j.inode] = [i \in 1 .. j.wrote |-> ByteOf(j, j.wrote, i)]

\* FileServer.cc:289-361 and 557-596: whoever changes the file meanwhile, the
\* bytes sent are of the file asked for and stand where the Range header says,
\* and there are no more of them than Content-Length.  If the file is there and
\* nobody touches it, and the length fits an int where there is a Range header,
\* a satisfiable header gets exactly what it asks for, with the right
\* Content-Length if that lies inside the file.
DownloadsIntact ==
  \A w \in Workers :
    LET j == job[w]
        first == FirstAsked(j.range, j.len)
        last == LastAsked(j.range, j.len)
    IN wpc[w] = "replied" /\ j.op = "get" =>
       /\ \A k \in 1 .. Len(j.sent) :
            j.sent[k].file = j.file /\ j.sent[k].at = first + k - 1
       /\ j.sent = <<>> \/ Len(j.sent) <= j.promised
       /\ /\ clean[w] /\ dir[j.file] # 0 /\ Satisfiable(j.range, j.len)
          /\ j.range = <<>> \/ j.promised <= MaxInt
          => /\ j.sent = SubSeq(disk[dir[j.file]], first, last)
             /\ Inside(j.range, j.len) => j.promised = last - first + 1

-----------------------------------------------------------------------------
(***************************************************************************)
(* The inductive invariants of FileServerProofs.                           *)
(***************************************************************************)
WorkerSteps == {"idle", "insert", "open", "send", "write", "replied"}

NameAgrees(n) ==
  /\ db[n] # None => users[n] # None
  /\ n \notin refused => users[n] = db[n]

\* Between the INSERT and the map's insert: the map has the table's password, or
\* nothing yet and the password is the one about to be inserted.
Registering(w) ==
  LET n == job[w].name
      p == job[w].password IN
  /\ job[w].op = "register" /\ n \in Names /\ p \in Passwords
  /\ n \notin refused => /\ db[n] # None
                         /\ users[n] = db[n] \/ (users[n] = None /\ db[n] = p)

AccountsInv ==
  /\ db \in [Names -> Passwords \union {None}] /\ users \in [Names -> Passwords \union {None}]
  /\ mutex \in Workers \union {None}
  /\ refused \subseteq Names /\ admitted \subseteq Names \X Passwords
  /\ wpc \in [Workers -> WorkerSteps] /\ DOMAIN job = Workers
  /\ \A w \in Workers : wpc[w] = "insert" <=> mutex = w
  /\ \A w \in Workers : wpc[w] = "insert" => Registering(w)
  /\ \A n \in Names :
       (\A w \in Workers : wpc[w] = "insert" => job[w].name # n) => NameAgrees(n)
  /\ AdmittedAreRegistered

Data == [char : Chars, file : Files, upload : Nat, at : Nat, of : Nat]

\* A request that rewrites a file has an inode of that file, and finds or leaves
\* in it what it should as long as nobody else touches the file.
Uploading(w) ==
  LET j == job[w] IN
  wpc[w] = "write" \/ (wpc[w] = "replied" /\ j.op = "upload") =>
    /\ j.op = "upload" /\ j.file \in Files /\ j.upload \in Nat
    /\ j.content \in Seq(Chars) /\ \A i \in 1 .. Len(j.content) : j.content[i] # Dashes
    /\ j.inode \in 1 .. Len(disk) /\ home[j.inode] = j.file
    /\ clean[w] => /\ dir[j.file] = j.inode
                   /\ disk[j.inode] = IF wpc[w] = "write" THEN <<>>
                                      ELSE [i \in 1 .. j.wrote |-> ByteOf(j, j.wrote, i)]

\* What has been sent of a file: bytes of that file behind the offset.
SentFrom(sent, f, part) ==
  /\ Len(sent) \in Nat
  /\ \A k \in 1 .. Len(sent) :
       /\ sent[k].file = f
       /\ sent[k].at = k + (IF part.offset < 0 THEN 0 ELSE part.offset)
  /\ sent = <<>> \/ Len(sent) <= part.send

\* A request that reads a file has an inode of that file, and knows its length
\* and has the inode it has now, as long as nobody else touches the file.
Downloading(w) ==
  LET j == job[w]
      part == Part(j.range, j.len) IN
  wpc[w] \in {"open", "send"} \/ (wpc[w] = "replied" /\ j.op = "get") =>
    /\ j.op = "get" /\ j.file \in Files /\ j.range \in Ranges \union {<<>>}
    /\ j.len \in Int /\ (j.range # <<>> => j.len \in Nat)
    /\ clean[w] /\ dir[j.file] # 0 => j.len = Len(disk[dir[j.file]])
    /\ wpc[w] = "send" => /\ j.inode \in 0 .. Len(disk)
                          /\ j.inode # 0 => home[j.inode] = j.file
                          /\ clean[w] => j.inode = dir[j.file]
    /\ wpc[w] = "replied" => /\ ~Throws(j.range) /\ j.promised = part.count
                             /\ SentFrom(j.sent, j.file, part)
    /\ wpc[w] = "replied" /\ clean[w] /\ dir[j.file] # 0
         => j.sent = Bytes(disk[dir[j.file]], part)

\* An inode keeps the file it was made for.
FilesInv ==
  /\ ops \in Nat
  /\ disk \in Seq(Seq(Data)) /\ home \in Seq(Files) /\ Len(home) = Len(disk)
  /\ dir \in [Files -> 0 .. Len(disk)]
  /\ \A f \in Files : dir[f] # 0 => home[dir[f]] = f
  /\ \A i \in 1 .. Len(disk) : Layered(disk[i], home[i])
  /\ clean \in [Workers -> BOOLEAN]
  /\ wpc \in [Workers -> WorkerSteps] /\ DOMAIN job = Workers
  /\ \A w \in Workers : Uploading(w) /\ Downloading(w)
=============================================================================
