------------------------------- MODULE LogFile -------------------------------
(***************************************************************************)
(* The log file (src/logger/LogFile.cc) and the stdio stream under it      *)
(* (FileUtil.cc), as operators on a LogFile.  Its one caller is the back   *)
(* end of AsyncLogging, so append is never called by two threads.          *)
(*                                                                         *)
(* files are the streams (FileUtil) in the order they were opened, the     *)
(* last one being file_.  A stream is opened for appending, under the      *)
(* local time of the second: a name may come again, and then the file of   *)
(* that name is continued.  The first safe of the lines written through a  *)
(* stream have been flushed; the stream may still hold the others.         *)
(* writtenBytes_ is in cells, the size of a line, and counts as far as     *)
(* rollSize_ + 1, because a file that is not rolled grows without end.     *)
(* late is history: the latest appends to the stream, without a break,     *)
(* that came after the day it was opened on.                               *)
(***************************************************************************)
EXTENDS Integers, Sequences, SequencesExt

CONSTANTS rollSize,          \* rollSize_, in cells
          flushInterval,     \* flushInterval_
          checkEveryN,       \* checkEveryN_
          kRollPerSeconds,   \* kRollPerSeconds_
          LocalTime(_)       \* localtime_r and strftime: what a second is
                             \* called in the local time zone

ASSUME LogFileAssumption ==
  /\ rollSize \in Nat /\ flushInterval \in Nat
  /\ checkEveryN \in Nat \ {0} /\ kRollPerSeconds \in Nat \ {0}

PeriodOf(t) == (t \div kRollPerSeconds) * kRollPerSeconds

getLogFileName(t) == LocalTime(t)

NewFile(t) == [name |-> getLogFileName(t),
               written |-> 0, lines |-> <<>>, safe |-> 0, late |-> 0]

\* fflush, or the fclose of a file that is replaced.
Flushed(f) == [f EXCEPT !.safe = Len(f.lines)]

flush(log) == [log EXCEPT !.files[Len(log.files)] = Flushed(@)]

\* Mutant: the file is opened with "w".
RollTruncates(log, now) ==
  LET old(g) == IF g.name = getLogFileName(now) THEN [g EXCEPT !.lines = <<>>] ELSE g IN
  IF now > log.lastRoll
    THEN [log EXCEPT !.lastRoll = now, !.lastFlush = now,
                     !.startOfPeriod = PeriodOf(now),
                     !.files = Append([i \in DOMAIN @ |-> Flushed(old(@[i]))], NewFile(now))]
    ELSE log

rollFile(log, now) ==
  IF now > log.lastRoll
    THEN [log EXCEPT !.lastRoll = now, !.lastFlush = now,
                     !.startOfPeriod = PeriodOf(now),
                     !.files = Append([i \in DOMAIN @ |-> Flushed(@[i])], NewFile(now))]
    ELSE log

\* The constructor.
NewLogFile(now) ==
  rollFile([count |-> 0, startOfPeriod |-> 0, lastRoll |-> 0, lastFlush |-> 0,
            files |-> <<>>], now)

\* The fwrite of n cells that hold the lines ls.
FileWrite(f, ls, n, isLate) ==
  [f EXCEPT !.written = Min({@ + n, rollSize + 1}), !.lines = @ \o ls,
            !.late = IF isLate THEN @ + 1 ELSE 0]

\* FileUtil::append, to the last fwrite of its loop.
FileAppend(log, ls, n, now) ==
  [log EXCEPT !.files[Len(log.files)] =
     FileWrite(@, ls, n, PeriodOf(now) > log.startOfPeriod)]

\* Mutant: the flush is considered first.
CheckFlushFirst(log, now) ==
  IF now - log.lastFlush > flushInterval
    THEN flush([log EXCEPT !.count = 0, !.lastFlush = now])
  ELSE IF PeriodOf(now) # log.startOfPeriod
    THEN rollFile([log EXCEPT !.count = 0], now)
    ELSE [log EXCEPT !.count = 0]

\* The check that is due every checkEveryN calls.
Check(log, now) ==
  IF PeriodOf(now) # log.startOfPeriod
    THEN rollFile([log EXCEPT !.count = 0], now)
  ELSE IF now - log.lastFlush > flushInterval
    THEN flush([log EXCEPT !.count = 0, !.lastFlush = now])
    ELSE [log EXCEPT !.count = 0]

appendInLock(log, ls, n, now) ==
  LET log1 == FileAppend(log, ls, n, now) IN
  IF Last(log1.files).written > rollSize THEN rollFile(log1, now)
  ELSE IF log1.count + 1 >= checkEveryN THEN Check(log1, now)
  ELSE [log1 EXCEPT !.count = @ + 1]

\* The lines of all streams, in the order they were opened.
LinesOf(log) == FlattenSeq([i \in DOMAIN log.files |-> log.files[i].lines])
SafeLinesOf(log) ==
  FlattenSeq([i \in DOMAIN log.files |->
                SubSeq(log.files[i].lines, 1, log.files[i].safe)])

\* The file of name x: fopen's "a" adds each stream of that name to its end.
Through(f, x) == IF f.name = x THEN f.lines ELSE <<>>
FileOnDisk(log, x) == FlattenSeq([i \in DOMAIN log.files |-> Through(log.files[i], x)])
=============================================================================
