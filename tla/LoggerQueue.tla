---------------------------- MODULE LoggerQueue ----------------------------
(***************************************************************************)
(* The logger (logger.cpp): Log puts a message into a queue, a thread       *)
(* writes it to the file of the hour, and close stops that thread and waits *)
(* for it.  One critical section of the queue's mutex is one step; the      *)
(* clock may move between any two steps.                                    *)
(*                                                                          *)
(* The clock counts hours; it is not set back.  A file is named after an    *)
(* hour and lies in the directory of a day, which the code reads from the   *)
(* clock separately.  The wait of the thread ends after 500 ms at the       *)
(* latest, so that a thread that finds nothing to do just looks again.      *)
(***************************************************************************)
EXTENDS Naturals, Sequences, FiniteSets

CONSTANTS
  LogMsg,         \* the messages
  NoFile,         \* no file is open
  HoursPerDay,
  MaxClock,       \* bound: the last hour
  MaxOpenFails    \* bound: how often a file cannot be opened

ASSUME LoggerAssumption ==
  /\ NoFile \notin [day : Nat, name : Nat]
  /\ HoursPerDay \in Nat \ {0}
  /\ MaxClock \in Nat
  /\ MaxOpenFails \in Nat

VARIABLES
  queue,      \* g_msgQueue
  stop,       \* g_stopBackground
  writer,     \* the thread: where it is, its message, when it took it
  rotated,    \* currentDate and currentHour
  file,       \* logFile: the directory's day and the hour in its name
  closer,     \* close: "open", "joining" or "closed"
  clock,      \* hours since the program started
  accepted,   \* every message Log was called with
  lines,      \* what was written, in order: to the console, and to file
  owed,       \* how many messages had been accepted when close was called
  failed      \* the hours in which a file could not be opened

logVars == <<queue, stop, writer, rotated, file, closer, clock, accepted,
             lines, owed, failed>>
logGhosts == <<owed, failed>>

Day(time) == time \div HoursPerDay
Hour(time) == time % HoursPerDay
FileOf(dayTime, nameTime) == [day |-> Day(dayTime), name |-> nameTime]
Stamp(time) == [date |-> Day(time), hour |-> Hour(time)]

\* The constructor opens the file of the hour and starts the thread.
LogInit ==
  /\ queue = << >>
  /\ stop = FALSE
  /\ writer = [pc |-> "look", msg |-> << >>, taken |-> 0, dir |-> 0]
  /\ rotated = Stamp(0)
  /\ file = FileOf(0, 0)
  /\ closer = "open"
  /\ clock = 0
  /\ accepted = << >>
  /\ lines = << >>
  /\ owed = 0
  /\ failed = {}

ClockTicks ==
  /\ clock < MaxClock
  /\ clock' = clock + 1
  /\ UNCHANGED <<queue, stop, writer, rotated, file, closer, accepted, lines,
                 logGhosts>>

\* Log, from any thread.
Log(m) ==
  /\ queue' = Append(queue, m)
  /\ accepted' = Append(accepted, m)
  /\ UNCHANGED <<stop, writer, rotated, file, closer, clock, lines, logGhosts>>
-----------------------------------------------------------------------------
(* The thread.                                                             *)

\* The next message is taken; the mutex is released while it is written.
WriterPop ==
  /\ writer.pc = "look"
  /\ queue # << >>
  /\ writer' = [writer EXCEPT !.pc = "rotate", !.msg = <<Head(queue)>>,
                              !.taken = clock]
  /\ queue' = Tail(queue)
  /\ UNCHANGED <<stop, rotated, file, closer, clock, accepted, lines, logGhosts>>

\* Faulty variant: the day is not compared.
RotationDueByHour(last, now) == now.hour # last.hour

\* Is it another day, or another hour of the same day?
RotationDue(last, now) == now.date # last.date \/ now.hour # last.hour

\* rotateLogFileIfNeeded: what is remembered changes before the new file is
\* open, ...
Rotate ==
  /\ writer.pc = "rotate"
  /\ \/ /\ RotationDue(rotated, Stamp(clock))
        /\ rotated' = Stamp(clock)
        /\ file' = NoFile
        /\ writer' = [writer EXCEPT !.pc = "open", !.dir = clock]
     \/ /\ ~RotationDue(rotated, Stamp(clock))
        /\ writer' = [writer EXCEPT !.pc = "write"]
        /\ UNCHANGED <<rotated, file>>
  /\ UNCHANGED <<queue, stop, closer, clock, accepted, lines, logGhosts>>

\* ... whose name comes from another look at the clock.  If it cannot be
\* opened, nobody tries again before the next change of the hour.
Open ==
  /\ writer.pc = "open"
  /\ \/ /\ file' = FileOf(writer.dir, clock)
        /\ UNCHANGED failed
     \/ /\ Cardinality(failed) < MaxOpenFails
        /\ failed' = failed \cup {clock}
        /\ UNCHANGED file
  /\ writer' = [writer EXCEPT !.pc = "write", !.dir = 0]
  /\ UNCHANGED <<queue, stop, rotated, closer, clock, accepted, lines, owed>>

LineFor(w, openFile, now) ==
  [msg |-> w.msg[1], taken |-> w.taken, file |-> openFile, time |-> now]

\* The line gets the time of a third look at the clock.
WriteLine ==
  /\ writer.pc = "write"
  /\ lines' = Append(lines, LineFor(writer, file, clock))
  /\ writer' = [writer EXCEPT !.pc = "look", !.msg = << >>, !.taken = 0]
  /\ UNCHANGED <<queue, stop, rotated, file, closer, clock, accepted, logGhosts>>

\* Faulty variant: the thread ends as soon as it is told to.
MayEndAtOnce == stop

\* The test at the end of the loop, under the mutex.
MayEnd == stop /\ queue = << >>

WriterEnds ==
  /\ writer.pc = "look"
  /\ MayEnd
  /\ writer' = [writer EXCEPT !.pc = "done"]
  /\ UNCHANGED <<queue, stop, rotated, file, closer, clock, accepted, lines,
                 logGhosts>>
-----------------------------------------------------------------------------
(* close.                                                                  *)

\* Faulty variant: stop is forgotten, and the thread not told to end.
CloseStopsNothing ==
  /\ closer = "open"
  /\ closer' = "joining"
  /\ owed' = Len(accepted)
  /\ UNCHANGED <<queue, stop, writer, rotated, file, clock, accepted, lines,
                 failed>>

CloseStops ==
  /\ closer = "open"
  /\ stop' = TRUE
  /\ closer' = "joining"
  /\ owed' = Len(accepted)
  /\ UNCHANGED <<queue, writer, rotated, file, clock, accepted, lines, failed>>

\* The join returns, and the file is closed.
CloseJoins ==
  /\ closer = "joining"
  /\ writer.pc = "done"
  /\ file' = NoFile
  /\ closer' = "closed"
  /\ UNCHANGED <<queue, stop, writer, rotated, clock, accepted, lines, logGhosts>>
-----------------------------------------------------------------------------
Writer == WriterPop \/ Rotate \/ Open \/ WriteLine \/ WriterEnds

LogNext ==
  \/ ClockTicks
  \/ \E m \in LogMsg : Log(m)
  \/ Writer
  \/ CloseStops \/ CloseJoins

LogSpec == LogInit /\ [][LogNext]_logVars
-----------------------------------------------------------------------------
(* Properties.                                                             *)

File == [day : 0 .. MaxClock, name : 0 .. MaxClock] \cup {NoFile}

LogTypeOK ==
  /\ queue \in Seq(LogMsg)
  /\ stop \in BOOLEAN
  /\ writer \in [pc : {"look", "rotate", "open", "write", "done"},
                 msg : Seq(LogMsg), taken : 0 .. MaxClock, dir : 0 .. MaxClock]
  /\ Len(writer.msg) = IF writer.pc \in {"rotate", "open", "write"} THEN 1 ELSE 0
  /\ rotated \in [date : 0 .. MaxClock, hour : 0 .. HoursPerDay - 1]
  /\ file \in File
  /\ closer \in {"open", "joining", "closed"}
  /\ clock \in 0 .. MaxClock
  /\ accepted \in Seq(LogMsg)
  /\ lines \in Seq([msg : LogMsg, taken : 0 .. MaxClock, file : File,
                    time : 0 .. MaxClock])
  /\ owed \in 0 .. Len(accepted)
  /\ failed \subseteq 0 .. MaxClock

\* A line is in the file of an hour between the moment its message left the
\* queue and the time in the line, in the directory of a day between them,
\* although the three come from three looks at the clock.  Only when no file
\* could be opened in such an hour is it in no file: a failure costs the lines
\* of one hour and no more.
LineInItsHour ==
  \A i \in DOMAIN lines :
    LET line == lines[i]
    IN  \/ /\ line.file # NoFile
           /\ line.file.name \in line.taken .. line.time
           /\ line.file.day \in Day(line.taken) .. Day(line.file.name)
        \/ /\ line.file = NoFile
           /\ \E h \in failed : h \in line.taken .. line.time

Book == INSTANCE LogBook WITH
          written <- [i \in DOMAIN lines |-> lines[i].msg],
          closed  <- (closer = "closed")

\* Whatever is logged when, the lines come out once and in order, close returns
\* only when all it owes is written, and what is logged is written unless the
\* logger is closed first.
ImplementsLogBook == Book!FairSpec
=============================================================================
