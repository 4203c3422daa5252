---------------------------- MODULE LoggingToFile ----------------------------
(***************************************************************************)
(* AsyncLogging and the LogFile that its back end writes to: one append    *)
(* for each buffer, which may roll the file, and a flush at the end of     *)
(* each round.  The wall clock moves on, or is set back, at any time, and  *)
(* the process may abort at any time, as it does after a LOG_FATAL         *)
(* (src/logger/Logging.cc), whose g_flush flushes stdout only.             *)
(***************************************************************************)
EXTENDS AsyncLogging, LogFile

CONSTANT MaxTime    \* bound: the wall clock

VARIABLES
  now,      \* time(NULL)
  log,      \* the LogFile of threadFunc
  done,     \* the buffers of buffersToWrite that have been appended
  safe,     \* history: lines written by the rounds that have ended
  aborted   \* the process has ended; files then holds what is on disk

logVars == <<vars, now, log, done, safe, aborted>>

NoLog == [count |-> 0, startOfPeriod |-> 0, lastRoll |-> 0, lastFlush |-> 0,
          files |-> <<>>]

LogInit ==
  /\ Init
  /\ now = 1 /\ log = NoLog /\ done = 0 /\ safe = 0 /\ aborted = FALSE

LogStart ==
  /\ ~aborted /\ Start
  /\ log' = NewLogFile(now)
  /\ UNCHANGED <<now, done, safe, aborted>>

FrontEnd ==
  /\ ~aborted /\ (AppendLine \/ Stop)
  /\ UNCHANGED <<now, log, done, safe, aborted>>

\* One turn of the loop at line 116.
WriteBuffer ==
  /\ ~aborted /\ pc = "write" /\ done < Len(toWrite)
  /\ log' = appendInLock(log, Live(toWrite[done + 1]), Cap, now)
  /\ done' = done + 1
  /\ UNCHANGED <<vars, now, safe, aborted>>

EndWrite ==
  /\ ~aborted /\ done = Len(toWrite) /\ BackendWrite
  /\ done' = 0
  /\ UNCHANGED <<now, log, safe, aborted>>

EndRound ==
  /\ ~aborted /\ BackendRefill
  /\ log' = flush(log) /\ safe' = Len(file)
  /\ UNCHANGED <<now, done, aborted>>

\* The loop's test, the wait and the swap; on the way out the file is flushed
\* and closed.
RoundBegins ==
  /\ ~aborted /\ (BackendTest \/ BackendWait \/ BackendSwap)
  /\ log' = IF pc' = "done" THEN flush(log) ELSE log
  /\ UNCHANGED <<now, done, safe, aborted>>

LogBackend == WriteBuffer \/ EndWrite \/ EndRound \/ RoundBegins

ClockMoves ==
  /\ ~aborted
  /\ now' \in {now + 1, now - 1} \intersect (1 .. MaxTime)
  /\ UNCHANGED <<vars, log, done, safe, aborted>>

\* What the stream had not flushed is on disk up to some line.
Abort ==
  /\ ~aborted /\ aborted' = TRUE
  /\ IF log.files = <<>> THEN UNCHANGED log
       ELSE \E n \in Last(log.files).safe .. Len(Last(log.files).lines) :
              log' = [log EXCEPT !.files[Len(log.files)].lines = SubSeq(@, 1, n)]
  /\ UNCHANGED <<vars, now, done, safe>>

LogNext == LogStart \/ FrontEnd \/ LogBackend \/ ClockMoves \/ Abort

LogSpec == LogInit /\ [][LogNext]_logVars

\* The back-end thread runs, its wait ends after 3 seconds at the latest, and
\* fwrite gets its bytes out in the end.
LogFairSpec == LogSpec /\ WF_logVars(LogBackend)

-----------------------------------------------------------------------------
(***************************************************************************)
(* Properties.                                                             *)
(***************************************************************************)
UpTo(n) == [i \in 1 .. n |-> i]

NamesOf(log1) == {log1.files[i].name : i \in DOMAIN log1.files}
Sorted(ls) == \A i, j \in 1 .. Len(ls) : i < j => ls[i] < ls[j]

\* LogFile.cc:34-111, FileUtil.cc:5, AsyncLogging.cc:116-146: however the clock and
\* the local time go, and although two streams may have the same name, every file
\* on disk has its lines in the order of append; together the files have each line
\* up to some line once; and an abort, whenever it comes, costs no line of a round
\* that has ended.
LogOnDisk ==
  LET n == Len(LinesOf(log))
      Lines(x) == Range(FileOnDisk(log, x))
  IN
  /\ safe <= n
  /\ \A x \in NamesOf(log) : Sorted(FileOnDisk(log, x))
  /\ UNION {Lines(x) : x \in NamesOf(log)} = 1 .. n
  /\ \A x, y \in NamesOf(log) : x # y => Lines(x) \intersect Lines(y) = {}

\* LogFile.cc:38-53: a file gets less than checkEveryN appends after its day has
\* ended.  A roll in between does not put the check off, although count_ counts
\* only the appends that do not roll for size.
DayEnds == log.files # <<>> => Last(log.files).late < checkEveryN

\* What makes the two inductive.  The last file is the one that lastRoll_ and
\* startOfPeriod_ are about, and count_ is at least its late appends; what the
\* rounds that have ended wrote is in older files or flushed; and the log is the
\* file of AsyncLogging with the part of buffersToWrite that has been appended.
FileType == [name : {LocalTime(t) : t \in Nat}, written : Nat,
             lines : Seq(Nat), safe : Nat, late : Nat]
LogType == [count : Nat, startOfPeriod : Nat, lastRoll : Nat, lastFlush : Nat,
            files : Seq(FileType)]

FilesOK(fs) == Last(fs).safe <= Len(Last(fs).lines)

LogOK(l) ==
  /\ l \in LogType /\ l.files # <<>> /\ FilesOK(l.files)
  /\ l.startOfPeriod = PeriodOf(l.lastRoll)
  /\ l.count < checkEveryN

OldLines(fs) == FlattenSeq([i \in 1 .. Len(fs) - 1 |-> fs[i].lines])
SafeLen(l) == Len(OldLines(l.files)) + Last(l.files).safe

LogInv ==
  /\ now \in Nat \ {0} /\ safe \in Nat
  /\ done \in 0 .. Len(toWrite) /\ (pc # "write" => done = 0)
  /\ IF pc = "created"
       THEN log = NoLog /\ safe = 0 /\ file = <<>>
       ELSE LogOK(log) /\ Last(log.files).late <= log.count /\ safe <= SafeLen(log)
  /\ IF aborted
       THEN LinesOf(log) = UpTo(Len(LinesOf(log)))
       ELSE LinesOf(log) = file \o LiveLines(SubSeq(toWrite, 1, done))

\* AsyncLogging.cc:76-148: a line appended before stop() is flushed to a file in
\* the end, unless the process aborts or stop() ends the back end.
LinesOnDisk ==
  \A i \in 1 .. MaxLines :
    (running /\ lines >= i) ~>
      (Len(SafeLinesOf(log)) >= i \/ pc = "done" \/ aborted)
=============================================================================
