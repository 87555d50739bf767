------------------------- MODULE TaskServicesProofs -------------------------
(***************************************************************************)
(* Proofs about the pool of connections, for any number of connections and  *)
(* of tasks, about the logger, for any messages, any clock and any number   *)
(* of files that cannot be opened, and about the two between the tasks: the *)
(* tasks use the pool and the logger only as these are specified, so that   *)
(* what is proved of them holds there.                                      *)
(***************************************************************************)
EXTENDS TaskServices, FiniteSetTheorems, SequenceTheorems, TLAPS

(* The pool of connections (SqlPool).                                      *)

\* A task that has been notified is not asleep, and neither has a connection.
Awake ==
  /\ waiting \cap woken = {}
  /\ \A t \in waiting \cup woken : conn[t] = NoConn

PoolInv == PoolTypeOK /\ ConnectionHasOneUser /\ Awake /\ NoLostWakeup

\* init puts every connection into the queue once.
LEMMA AllConnections ==
  SetToSeq(Conn) \in Seq(Conn) /\ IsInjective(SetToSeq(Conn))
<1> DEFINE n == Cardinality(Conn)
<1>1. n \in Nat /\ ExistsBijection(1 .. n, Conn)
  BY PoolAssumption, FS_CardinalityType
<1>2. \E f \in [1 .. n -> Conn] : IsInjective(f)
  BY <1>1 DEF ExistsBijection, Bijection, Injection
<1>3. SetToSeq(Conn) \in [1 .. n -> Conn] /\ IsInjective(SetToSeq(Conn))
  BY <1>2 DEF SetToSeq
<1> QED BY <1>1, <1>3, IsASeq

\* The pool that init leaves behind: every connection is free.
LEMMA PoolInitInv == PoolInit => PoolInv
<1> SUFFICES ASSUME PoolInit PROVE PoolInv
  OBVIOUS
<1>1. PoolTypeOK
  BY AllConnections DEF PoolInit, PoolTypeOK
<1>2. ConnectionHasOneUser
  BY AllConnections, PoolAssumption, ElementOfSeq DEF PoolInit, ConnectionHasOneUser
<1> QED BY <1>1, <1>2 DEF PoolInv, PoolInit, Awake, NoLostWakeup

\* How many tasks are on their way.
LEMMA WokenCount ==
  ASSUME PoolTypeOK, NEW t
  PROVE  /\ Cardinality(woken) \in Nat
         /\ Cardinality(woken \cup {t}) =
              IF t \in woken THEN Cardinality(woken) ELSE Cardinality(woken) + 1
         /\ Cardinality(woken \ {t}) =
              IF t \in woken THEN Cardinality(woken) - 1 ELSE Cardinality(woken)
<1>1. IsFiniteSet(woken)
  BY PoolAssumption, FS_Subset DEF PoolTypeOK
<1> QED BY <1>1, FS_CardinalityType, FS_AddElement, FS_RemoveElement

\* Taking the first connection.
LEMMA TakeKeeps ==
  ASSUME PoolTypeOK, ConnectionHasOneUser, NEW t \in PoolTask, conn[t] = NoConn,
         Take(t)
  PROVE  /\ connections' \in Seq(Conn)
         /\ conn' \in [PoolTask -> Conn \cup {NoConn}]
         /\ Len(connections) \in Nat
         /\ Len(connections') = Len(connections) - 1
         /\ ConnectionHasOneUser'
<1> DEFINE c == Head(connections)
<1>1. /\ connections' \in Seq(Conn) /\ c \in Conn /\ c = connections[1]
      /\ Len(connections) \in Nat /\ Len(connections) > 0
      /\ Len(connections') = Len(connections) - 1
      /\ DOMAIN connections = 1 .. Len(connections)
      /\ DOMAIN connections' = 1 .. Len(connections')
      /\ \A i \in DOMAIN connections' : connections'[i] = connections[i + 1]
  BY HeadTailProperties, LenProperties DEF PoolTypeOK, Take
<1>2. conn' = [conn EXCEPT ![t] = c] /\ conn' \in [PoolTask -> Conn \cup {NoConn}]
  BY <1>1 DEF PoolTypeOK, Take
<1>3. \A i, j \in DOMAIN connections' : connections'[i] = connections'[j] => i = j
  BY <1>1 DEF ConnectionHasOneUser, IsInjective
<1>4. \A i \in DOMAIN connections' : connections'[i] # c
  BY <1>1 DEF ConnectionHasOneUser, IsInjective
<1>5. \A s \in PoolTask : conn[s] # c
  BY <1>1 DEF ConnectionHasOneUser
<1>6. \A s \in PoolTask : conn'[s] = IF s = t THEN c ELSE conn[s]
  BY <1>2 DEF PoolTypeOK
<1>7. \A s, r \in PoolTask : conn'[s] = conn'[r] /\ conn'[s] # NoConn => s = r
  BY <1>5, <1>6 DEF ConnectionHasOneUser
<1>8. \A s \in PoolTask, i \in DOMAIN connections' : connections'[i] # conn'[s]
  <2> SUFFICES ASSUME NEW s \in PoolTask, NEW i \in DOMAIN connections'
               PROVE  connections'[i] # conn'[s]
    OBVIOUS
  <2>1. connections'[i] = connections[i + 1] /\ i + 1 \in DOMAIN connections
    BY <1>1
  <2> QED BY <1>4, <1>6, <2>1 DEF ConnectionHasOneUser
<1>9. ConnectionHasOneUser'
  BY <1>3, <1>7, <1>8 DEF ConnectionHasOneUser, IsInjective
<1> QED BY <1>1, <1>2, <1>9

\* Giving a connection back.
LEMMA GiveBackKeeps ==
  ASSUME PoolTypeOK, ConnectionHasOneUser, NEW t \in PoolTask, conn[t] # NoConn,
         connections' = Append(connections, conn[t]),
         conn' = [conn EXCEPT ![t] = NoConn]
  PROVE  /\ connections' \in Seq(Conn)
         /\ conn' \in [PoolTask -> Conn \cup {NoConn}]
         /\ Len(connections) \in Nat
         /\ Len(connections') = Len(connections) + 1
         /\ ConnectionHasOneUser'
<1> DEFINE n == Len(connections)
<1>1. conn[t] \in Conn
  BY DEF PoolTypeOK
<1>2. /\ connections' \in Seq(Conn) /\ n \in Nat /\ Len(connections') = n + 1
      /\ DOMAIN connections = 1 .. n /\ DOMAIN connections' = 1 .. n + 1
      /\ \A i \in 1 .. n : connections'[i] = connections[i]
      /\ connections'[n + 1] = conn[t]
  BY <1>1, AppendProperties, LenProperties DEF PoolTypeOK
<1>3. /\ conn' \in [PoolTask -> Conn \cup {NoConn}]
      /\ \A s \in PoolTask : conn'[s] = IF s = t THEN NoConn ELSE conn[s]
  BY DEF PoolTypeOK
<1>4. \A i \in 1 .. n : connections'[i] # conn[t]
  BY <1>2 DEF ConnectionHasOneUser
<1>5. \A i, j \in DOMAIN connections' : connections'[i] = connections'[j] => i = j
  <2> SUFFICES ASSUME NEW i \in 1 .. n + 1, NEW j \in 1 .. n + 1,
                      connections'[i] = connections'[j]
               PROVE  i = j
    BY <1>2
  <2>1. CASE i \in 1 .. n /\ j \in 1 .. n
    BY <1>2, <2>1 DEF ConnectionHasOneUser, IsInjective
  <2>2. CASE i = n + 1 \/ j = n + 1
    BY <1>2, <1>4, <2>2
  <2> QED BY <1>2, <2>1, <2>2
<1>6. \A s, r \in PoolTask : conn'[s] = conn'[r] /\ conn'[s] # NoConn => s = r
  BY <1>3 DEF ConnectionHasOneUser
<1>7. \A s \in PoolTask, i \in DOMAIN connections' : connections'[i] # conn'[s]
  <2> SUFFICES ASSUME NEW s \in PoolTask, NEW i \in 1 .. n + 1
               PROVE  connections'[i] # conn'[s]
    BY <1>2
  <2>1. connections'[i] \in Conn /\ connections'[i] # NoConn
    BY <1>2, ElementOfSeq, PoolAssumption
  <2>2. CASE i \in 1 .. n
    BY <1>2, <1>3, <2>1, <2>2 DEF ConnectionHasOneUser
  <2>3. CASE i = n + 1
    BY <1>2, <1>3, <2>1, <2>3 DEF ConnectionHasOneUser
  <2> QED BY <1>2, <2>2, <2>3
<1>8. ConnectionHasOneUser'
  BY <1>5, <1>6, <1>7 DEF ConnectionHasOneUser, IsInjective
<1> QED BY <1>2, <1>3, <1>8

\* acquire takes a connection or waits beside none.
LEMMA AcquireKeeps ==
  ASSUME PoolInv, NEW t \in PoolTask, Acquire(t)
  PROVE  PoolInv'
<1> USE DEF PoolInv
<1>1. UNCHANGED <<woken, initialized>> /\ Cardinality(woken) \in Nat
  BY WokenCount DEF Acquire
<1>2. CASE Take(t) /\ UNCHANGED waiting
  <2>1. ConnectionHasOneUser' /\ Len(connections') <= Len(connections)
        /\ PoolTypeOK'
    BY <1>1, <1>2, TakeKeeps DEF Acquire, PoolTypeOK
  <2>2. NoLostWakeup'
    BY <1>1, <1>2, TakeKeeps DEF Acquire, NoLostWakeup
  <2>3. Awake'
    BY <1>1, <1>2 DEF Acquire, Outside, Take, Awake, PoolTypeOK
  <2> QED BY <2>1, <2>2, <2>3
<1>3. CASE /\ connections = << >>
           /\ waiting' = waiting \cup {t}
           /\ UNCHANGED <<connections, conn>>
  <2>1. PoolTypeOK' /\ Awake'
    BY <1>1, <1>3 DEF Acquire, Outside, PoolTypeOK, Awake
  <2>2. ConnectionHasOneUser'
    BY <1>3 DEF ConnectionHasOneUser
  <2>3. NoLostWakeup'
    BY <1>1, <1>3, EmptySeq DEF NoLostWakeup
  <2> QED BY <2>1, <2>2, <2>3
<1> QED BY <1>2, <1>3 DEF Acquire

\* A notified task takes a connection, or waits again beside none.
LEMMA WakeKeeps ==
  ASSUME PoolInv, NEW t \in PoolTask, Wake(t)
  PROVE  PoolInv'
<1> USE DEF PoolInv
<1>1. /\ t \in woken /\ woken' = woken \ {t} /\ UNCHANGED initialized
      /\ Cardinality(woken) \in Nat
      /\ Cardinality(woken') = Cardinality(woken) - 1
      /\ conn[t] = NoConn
  BY WokenCount DEF Wake, Awake
<1>2. Cardinality(woken') \in Nat
  <2>1. IsFiniteSet(woken')
    BY <1>1, PoolAssumption, FS_Subset DEF PoolTypeOK
  <2> QED BY <2>1, FS_CardinalityType
<1>3. CASE Take(t) /\ UNCHANGED waiting
  <2>1. PoolTypeOK' /\ ConnectionHasOneUser'
    BY <1>1, <1>3, TakeKeeps DEF PoolTypeOK
  <2>2. NoLostWakeup'
    BY <1>1, <1>3, TakeKeeps DEF NoLostWakeup
  <2>3. Awake'
    BY <1>1, <1>3 DEF Take, Awake, PoolTypeOK
  <2> QED BY <2>1, <2>2, <2>3
<1>4. CASE /\ connections = << >>
           /\ waiting' = waiting \cup {t}
           /\ UNCHANGED <<connections, conn>>
  <2>1. PoolTypeOK' /\ Awake'
    BY <1>1, <1>4 DEF PoolTypeOK, Awake
  <2>2. ConnectionHasOneUser'
    BY <1>4 DEF ConnectionHasOneUser
  <2>3. NoLostWakeup'
    BY <1>2, <1>4, EmptySeq DEF NoLostWakeup
  <2> QED BY <2>1, <2>2, <2>3
<1> QED BY <1>3, <1>4 DEF Wake

\* One more notified task for one sleeping task less.
LEMMA NotifyCounts ==
  ASSUME PoolTypeOK, Awake, NEW w \in waiting, Notify(w)
  PROVE  /\ waiting' \subseteq PoolTask /\ woken' \subseteq PoolTask
         /\ waiting' \cup woken' = waiting \cup woken
         /\ waiting' \cap woken' = {}
         /\ Cardinality(woken) \in Nat
         /\ Cardinality(woken') = Cardinality(woken) + 1
<1>1. w \notin woken /\ w \in PoolTask
  BY DEF Awake, PoolTypeOK
<1> QED BY <1>1, WokenCount DEF Notify, Awake, PoolTypeOK

\* A wakeup for no reason only adds to those on their way.
LEMMA SpuriousKeeps ==
  ASSUME PoolInv, NEW t \in PoolTask, WakeSpuriously(t)
  PROVE  PoolInv'
<1> USE DEF PoolInv
<1>1. /\ t \in waiting /\ Notify(t) /\ UNCHANGED <<connections, conn, initialized>>
  BY DEF WakeSpuriously
<1>2. PoolTypeOK' /\ Awake'
  BY <1>1, NotifyCounts DEF PoolTypeOK, Awake
<1>3. ConnectionHasOneUser'
  BY <1>1 DEF ConnectionHasOneUser
<1>4. Len(connections) \in Nat /\ UNCHANGED connections
  BY <1>1, LenProperties DEF PoolTypeOK
<1>5. /\ Cardinality(woken) \in Nat
      /\ Cardinality(woken') = Cardinality(woken) + 1
  BY <1>1, NotifyCounts
<1>6. NoLostWakeup'
  BY <1>1, <1>4, <1>5 DEF NoLostWakeup
<1> QED BY <1>2, <1>3, <1>6

\* A connection that comes back is announced to one task that waits.
LEMMA ReleaseKeeps ==
  ASSUME PoolInv, NEW t \in PoolTask, Release(t)
  PROVE  PoolInv'
<1> USE DEF PoolInv
<1>1. /\ connections' \in Seq(Conn) /\ conn' \in [PoolTask -> Conn \cup {NoConn}]
      /\ Len(connections) \in Nat /\ Len(connections') = Len(connections) + 1
      /\ ConnectionHasOneUser' /\ UNCHANGED initialized
      /\ \A s \in waiting \cup woken : conn'[s] = NoConn
  BY GiveBackKeeps DEF Release, Awake, PoolTypeOK
<1>2. ASSUME NEW w \in waiting, Notify(w)
      PROVE  PoolInv'
  <2>1. /\ waiting' \subseteq PoolTask /\ woken' \subseteq PoolTask
        /\ waiting' \cup woken' = waiting \cup woken
        /\ waiting' \cap woken' = {}
        /\ Cardinality(woken) \in Nat
        /\ Cardinality(woken') = Cardinality(woken) + 1
    BY <1>2, NotifyCounts
  <2>2. NoLostWakeup'
    BY <1>1, <1>2, <2>1 DEF NoLostWakeup
  <2>3. PoolTypeOK' /\ Awake'
    BY <1>1, <2>1 DEF PoolTypeOK, Awake
  <2> QED BY <1>1, <2>2, <2>3
<1>3. CASE waiting = {} /\ UNCHANGED <<waiting, woken>>
  BY <1>1, <1>3 DEF PoolTypeOK, Awake, NoLostWakeup
<1> QED BY <1>2, <1>3 DEF Release, NotifyOne

\* Without free connections there is nothing to wake up for.
LEMMA ShutdownKeeps ==
  ASSUME PoolInv, Shutdown
  PROVE  PoolInv'
<1> USE DEF PoolInv, Shutdown
<1>1. PoolTypeOK' /\ Awake'
  <2>1. connections' \in Seq(Conn) /\ initialized' \in BOOLEAN
    BY EmptySeq
  <2> QED BY <2>1 DEF PoolTypeOK, Awake
<1>2. ConnectionHasOneUser'
  BY EmptySeq DEF ConnectionHasOneUser, IsInjective
<1>3. Cardinality(woken) \in Nat
  BY WokenCount
<1>4. NoLostWakeup'
  BY <1>3 DEF NoLostWakeup
<1> QED BY <1>1, <1>2, <1>4

\* Every step keeps the invariant.
LEMMA PoolStep == PoolInv /\ [PoolNext]_poolVars => PoolInv'
<1> SUFFICES ASSUME PoolInv, [PoolNext]_poolVars PROVE PoolInv'
  OBVIOUS
<1>1. ASSUME NEW t \in PoolTask,
             Acquire(t) \/ WakeSpuriously(t) \/ Wake(t) \/ Release(t)
      PROVE  PoolInv'
  BY <1>1, AcquireKeeps, SpuriousKeeps, WakeKeeps, ReleaseKeeps
<1>2. CASE Shutdown
  BY <1>2, ShutdownKeeps
<1>3. CASE UNCHANGED poolVars
  BY <1>3 DEF poolVars, PoolInv, PoolTypeOK, ConnectionHasOneUser, Awake, NoLostWakeup
<1> QED BY <1>1, <1>2, <1>3 DEF PoolNext

\* The inductive invariant: the types, the single user of a connection, who is
\* asleep or on the way, and that no wakeup is lost.
THEOREM PoolInvariant == PoolSpec => []PoolInv
<1>1. PoolInit => PoolInv
  BY PoolInitInv
<1>2. PoolInv /\ [PoolNext]_poolVars => PoolInv'
  BY PoolStep
<1> QED BY <1>1, <1>2, PTL DEF PoolSpec

\* The pool (acquire, release and shutdown of SqlConnectionPool) gives each
\* connection to one task at a time.
THEOREM PoolOneUser == PoolSpec => []ConnectionHasOneUser
<1>1. PoolInv => ConnectionHasOneUser
  BY DEF PoolInv
<1> QED BY <1>1, PoolInvariant, PTL

\* notify_one in release is enough: no task sleeps beside a free connection
\* that nobody is on the way to.
THEOREM PoolWakes == PoolSpec => []NoLostWakeup
<1>1. PoolInv => NoLostWakeup
  BY DEF PoolInv
<1> QED BY <1>1, PoolInvariant, PTL
-----------------------------------------------------------------------------
(* The logger (LoggerQueue).                                               *)

\* Days and hours of the clock.
LEMMA DayBound ==
  ASSUME NEW t \in Nat
  PROVE  Day(t) \in 0 .. t /\ Hour(t) \in 0 .. HoursPerDay - 1
BY LoggerAssumption, Z3 DEF Day, Hour

\* Days follow each other as the hours do.
LEMMA DayMonotonic ==
  ASSUME NEW a \in Nat, NEW b \in Nat, a <= b
  PROVE  Day(a) <= Day(b)
BY LoggerAssumption, Z3 DEF Day

\* The day and the hour determine the time.
LEMMA StampTime ==
  ASSUME NEW a \in Nat, NEW b \in Nat, Stamp(a) = Stamp(b)
  PROVE  a = b
<1>1. Day(a) = Day(b) /\ Hour(a) = Hour(b)
  BY DEF Stamp
<1>2. a = HoursPerDay * Day(a) + Hour(a)
  BY LoggerAssumption, Z3 DEF Day, Hour
<1>3. b = HoursPerDay * Day(b) + Hour(b)
  BY LoggerAssumption, Z3 DEF Day, Hour
<1> QED BY <1>1, <1>2, <1>3

\* Whether the rotation is due is whether the time has changed.
LEMMA RotationDueTime ==
  ASSUME NEW a \in Nat, NEW b \in Nat
  PROVE  RotationDue(Stamp(a), Stamp(b)) <=> a # b
<1>1. RotationDue(Stamp(a), Stamp(b)) <=> Stamp(a) # Stamp(b)
  BY DEF RotationDue, Stamp
<1> QED BY <1>1, StampTime
-----------------------------------------------------------------------------
(* The types.                                                              *)

\* What is remembered of a time has its type.
LEMMA StampType ==
  ASSUME NEW t \in 0 .. MaxClock
  PROVE  Stamp(t) \in [date : 0 .. MaxClock, hour : 0 .. HoursPerDay - 1]
<1>1. Day(t) \in 0 .. MaxClock /\ Hour(t) \in 0 .. HoursPerDay - 1
  BY DayBound, LoggerAssumption
<1> QED BY <1>1 DEF Stamp

\* A file that is named is a file.
LEMMA FileType ==
  ASSUME NEW a \in 0 .. MaxClock, NEW b \in 0 .. MaxClock
  PROVE  FileOf(a, b) \in File /\ FileOf(a, b) # NoFile
<1>1. Day(a) \in 0 .. MaxClock
  BY DayBound, LoggerAssumption
<1> QED BY <1>1, LoggerAssumption DEF FileOf, File

Line == [msg : LogMsg, taken : 0 .. MaxClock, file : File, time : 0 .. MaxClock]

WriterState ==
  [pc : {"look", "rotate", "open", "write", "done"}, msg : Seq(LogMsg),
   taken : 0 .. MaxClock, dir : 0 .. MaxClock]

\* The constructor leaves everything with its type.
LEMMA LogInitType == LogInit => LogTypeOK
<1> SUFFICES ASSUME LogInit PROVE LogTypeOK
  OBVIOUS
<1>1. 0 \in 0 .. MaxClock
  BY LoggerAssumption
<1>2. rotated \in [date : 0 .. MaxClock, hour : 0 .. HoursPerDay - 1] /\ file \in File
  BY <1>1, StampType, FileType DEF LogInit
<1>3. << >> \in Seq(LogMsg) /\ << >> \in Seq(Line) /\ Len(<< >>) = 0
  OBVIOUS
<1>4. writer \in WriterState /\ Len(writer.msg) = 0 /\ writer.pc = "look"
  BY <1>1, <1>3 DEF LogInit, WriterState
<1>5. owed \in 0 .. Len(accepted)
  BY <1>3 DEF LogInit
<1>6. /\ queue \in Seq(LogMsg) /\ accepted \in Seq(LogMsg) /\ lines \in Seq(Line)
      /\ stop \in BOOLEAN /\ closer = "open" /\ clock \in 0 .. MaxClock
      /\ failed = {}
  BY <1>1, <1>3 DEF LogInit
<1> QED BY <1>2, <1>4, <1>5, <1>6 DEF LogTypeOK, WriterState, Line

\* Every step keeps the types.
LEMMA LogStepType == LogTypeOK /\ [LogNext]_logVars => LogTypeOK'
<1> SUFFICES ASSUME LogTypeOK, [LogNext]_logVars PROVE LogTypeOK'
  OBVIOUS
<1> USE LoggerAssumption DEF LogTypeOK, logGhosts
<1>1. CASE ClockTicks
  BY <1>1 DEF ClockTicks
<1>2. ASSUME NEW m \in LogMsg, Log(m)
      PROVE  LogTypeOK'
  <2>1. queue' \in Seq(LogMsg) /\ accepted' \in Seq(LogMsg)
        /\ Len(accepted') = Len(accepted) + 1
    BY <1>2, AppendProperties DEF Log
  <2>2. owed' \in 0 .. Len(accepted')
    BY <1>2, <2>1, LenProperties DEF Log
  <2> QED BY <1>2, <2>1, <2>2 DEF Log
<1>3. CASE WriterPop
  <2>1. queue' \in Seq(LogMsg) /\ <<Head(queue)>> \in Seq(LogMsg)
    BY <1>3, HeadTailProperties DEF WriterPop
  <2>2. Len(<<Head(queue)>>) = 1
    OBVIOUS
  <2> QED BY <1>3, <2>1, <2>2 DEF WriterPop
<1>4. CASE Rotate
  <2>1. rotated' \in [date : 0 .. MaxClock, hour : 0 .. HoursPerDay - 1]
        /\ file' \in File
    BY <1>4, StampType DEF Rotate, File
  <2>2. writer' \in WriterState /\ Len(writer'.msg) = 1
        /\ writer'.pc \in {"open", "write"}
    BY <1>4 DEF Rotate, WriterState
  <2>3. UNCHANGED <<queue, stop, closer, clock, accepted, lines, owed, failed>>
    BY <1>4 DEF Rotate
  <2>4. Len(writer'.msg) =
          IF writer'.pc \in {"rotate", "open", "write"} THEN 1 ELSE 0
    BY <2>2
  <2>5. owed' \in 0 .. Len(accepted')
    BY <2>3
  <2>6. lines' \in Seq(Line)
    BY <2>3 DEF Line
  <2> QED BY <2>1, <2>2, <2>3, <2>4, <2>5, <2>6 DEF WriterState, Line
<1>5. CASE Open
  <2>1. file' \in File /\ failed' \subseteq 0 .. MaxClock
    BY <1>5, FileType DEF Open
  <2>2. writer' \in WriterState /\ writer'.msg = writer.msg /\ writer'.pc = "write"
    <3>1. 0 \in 0 .. MaxClock
      OBVIOUS
    <3> QED BY <1>5, <3>1 DEF Open, WriterState
  <2>3. UNCHANGED <<queue, stop, rotated, closer, clock, accepted, lines, owed>>
        /\ writer.pc = "open"
    BY <1>5 DEF Open
  <2> QED BY <2>1, <2>2, <2>3 DEF WriterState
<1>6. CASE WriteLine
  <2>1. LineFor(writer, file, clock) \in Line
    <3>1. writer.msg[1] \in LogMsg
      BY <1>6, ElementOfSeq DEF WriteLine
    <3> QED BY <3>1 DEF LineFor, Line
  <2>2. lines' \in Seq(Line)
    BY <1>6, <2>1, AppendProperties DEF WriteLine, Line
  <2>3. writer'.msg = << >> /\ writer'.pc = "look" /\ writer' \in WriterState
    <3>1. << >> \in Seq(LogMsg) /\ 0 \in 0 .. MaxClock
      OBVIOUS
    <3> QED BY <1>6, <3>1 DEF WriteLine, WriterState
  <2>4. Len(writer'.msg) = 0
    BY <2>3
  <2> QED BY <1>6, <2>2, <2>3, <2>4 DEF WriteLine, Line, WriterState
<1>7. CASE WriterEnds
  BY <1>7 DEF WriterEnds
<1>8. CASE CloseStops
  BY <1>8, LenProperties DEF CloseStops
<1>9. CASE CloseJoins
  BY <1>9 DEF CloseJoins, File
<1>10. CASE UNCHANGED logVars
  BY <1>10 DEF logVars
<1> QED BY <1>1, <1>2, <1>3, <1>4, <1>5, <1>6, <1>7, <1>8, <1>9, <1>10
        DEF LogNext, Writer
-----------------------------------------------------------------------------
(* The order of the messages, and the close.                               *)

\* What was accepted is what is written, then the message in hand, then the
\* queue.
Order ==
  /\ Len(accepted) = Len(lines) + Len(writer.msg) + Len(queue)
  /\ \A i \in 1 .. Len(lines) : accepted[i] = lines[i].msg
  /\ \A i \in 1 .. Len(writer.msg) : accepted[Len(lines) + i] = writer.msg[i]
  /\ \A i \in 1 .. Len(queue) :
       accepted[Len(lines) + Len(writer.msg) + i] = queue[i]

\* The thread is over only when it was told to end and what is owed is written.
Closing ==
  /\ stop <=> closer # "open"
  /\ closer = "closed" => writer.pc = "done"
  /\ writer.pc = "done" => stop /\ owed <= Len(lines)

\* Sequences have lengths; the writer has at most one message.
LEMMA LengthsType ==
  ASSUME LogTypeOK
  PROVE  /\ Len(accepted) \in Nat /\ Len(lines) \in Nat /\ Len(queue) \in Nat
         /\ Len(writer.msg) \in 0 .. 1
  BY LenProperties DEF LogTypeOK

\* At first nothing is accepted, owed or written.
LEMMA OrderInit == LogInit => Order /\ Closing
BY DEF LogInit, Order, Closing

\* Every step keeps the order of the messages from Log to the line.
LEMMA OrderStep == LogTypeOK /\ Order /\ [LogNext]_logVars => Order'
<1> SUFFICES ASSUME LogTypeOK, Order, [LogNext]_logVars PROVE Order'
  OBVIOUS
<1> DEFINE a == Len(accepted)  l == Len(lines)  w == Len(writer.msg)
           q == Len(queue)
<1>0. a \in Nat /\ l \in Nat /\ w \in 0 .. 1 /\ q \in Nat
      /\ (writer.pc \in {"rotate", "open", "write"} => w = 1)
      /\ (writer.pc \notin {"rotate", "open", "write"} => w = 0)
      /\ a = l + w + q
  BY LengthsType DEF LogTypeOK, Order
<1>9. a \in Int /\ l \in Int /\ w \in Int /\ q \in Int /\ a = l + w + q
  BY <1>0
<1>1. ASSUME NEW m \in LogMsg, Log(m)
      PROVE  Order'
  <2>1. /\ Len(queue') = q + 1 /\ Len(accepted') = a + 1
        /\ queue'[q + 1] = m /\ accepted'[a + 1] = m
        /\ \A i \in 1 .. q : queue'[i] = queue[i]
        /\ \A i \in 1 .. a : accepted'[i] = accepted[i]
    BY <1>1, AppendProperties DEF Log, LogTypeOK
  <2>2. UNCHANGED <<writer, lines>>
    BY <1>1 DEF Log
  <2>3. \A i \in 1 .. Len(lines') : accepted'[i] = lines'[i].msg
    BY <1>0, <2>1, <2>2 DEF Order
  <2>4. \A i \in 1 .. Len(writer'.msg) : accepted'[Len(lines') + i] = writer'.msg[i]
    BY <1>0, <2>1, <2>2 DEF Order
  <2>5. ASSUME NEW i \in 1 .. q + 1
        PROVE  accepted'[l + w + i] = queue'[i]
    <3>1. CASE i \in 1 .. q
      <4>1. accepted[l + w + i] = queue[i] /\ l + w + i \in 1 .. a
        BY <1>0, <3>1 DEF Order
      <4> QED BY <2>1, <3>1, <4>1
    <3>2. CASE i = q + 1
      <4> HIDE DEF a, l, w, q
      <4>1. l + w + i = a + 1
        BY <1>9, <3>2
      <4> QED BY <2>1, <3>2, <4>1 DEF a, l, w, q
    <3> QED BY <1>0, <3>1, <3>2
  <2>6. Len(lines') = l /\ Len(writer'.msg) = w
    BY <2>2
  <2>7. Len(accepted') = l + w + (q + 1)
    <3>1. Len(accepted') = a + 1
      BY <2>1
    <3> HIDE DEF a, l, w, q
    <3> QED BY <1>9, <3>1
  <2> HIDE DEF a, l, w, q
  <2> QED BY <2>1, <2>3, <2>4, <2>5, <2>6, <2>7 DEF Order
<1>2. CASE WriterPop
  <2>1. /\ Len(queue') = q - 1 /\ q > 0
        /\ \A i \in 1 .. q - 1 : queue'[i] = queue[i + 1]
        /\ writer'.msg = <<queue[1]>>
    BY <1>2, HeadTailProperties DEF WriterPop, LogTypeOK
  <2>2. UNCHANGED <<accepted, lines>> /\ w = 0
    BY <1>0, <1>2 DEF WriterPop
  <2>3. Len(writer'.msg) = 1 /\ writer'.msg[1] = queue[1]
    BY <2>1
  <2>4. \A i \in 1 .. Len(writer'.msg) : accepted'[Len(lines') + i] = writer'.msg[i]
    BY <1>0, <2>1, <2>2, <2>3 DEF Order
  <2>5. ASSUME NEW i \in 1 .. q - 1
        PROVE  accepted'[l + 1 + i] = queue'[i]
    <3>1. i + 1 \in 1 .. q
      BY <1>0, <2>1
    <3>2. accepted[l + w + (i + 1)] = queue[i + 1]
      BY <3>1 DEF Order
    <3>3. l + w + (i + 1) = l + 1 + i
      BY <1>0, <2>2
    <3> QED BY <2>1, <2>2, <3>2, <3>3
  <2>6. Len(lines') = l /\ Len(accepted') = l + 1 + (q - 1)
    BY <1>9, <2>2
  <2>7. \A i \in 1 .. Len(lines') : accepted'[i] = lines'[i].msg
    BY <2>2 DEF Order
  <2> HIDE DEF a, l, w, q
  <2> QED BY <2>1, <2>3, <2>4, <2>5, <2>6, <2>7 DEF Order
<1>3. CASE WriteLine
  <2>1. /\ Len(lines') = l + 1
        /\ \A i \in 1 .. l : lines'[i] = lines[i]
        /\ lines'[l + 1].msg = writer.msg[1]
    <3>1. LineFor(writer, file, clock) \in Line
      BY <1>3, ElementOfSeq DEF WriteLine, LogTypeOK, LineFor, Line
    <3> QED BY <1>3, <3>1, AppendProperties DEF WriteLine, LogTypeOK, Line, LineFor
  <2>2. UNCHANGED <<accepted, queue>> /\ w = 1 /\ writer'.msg = << >>
    BY <1>0, <1>3 DEF WriteLine, LogTypeOK
  <2>3. Len(writer'.msg) = 0
    BY <2>2
  <2>4. ASSUME NEW i \in 1 .. l + 1
        PROVE  accepted'[i] = lines'[i].msg
    BY <1>0, <2>1, <2>2 DEF Order
  <2>5. \A i \in 1 .. q : accepted'[l + 1 + 0 + i] = queue'[i]
    BY <1>0, <2>2 DEF Order
  <2> QED BY <1>0, <2>1, <2>2, <2>3, <2>4, <2>5 DEF Order
<1>4. CASE UNCHANGED <<queue, writer.msg, accepted, lines>>
  BY <1>4 DEF Order
<1>5. ClockTicks \/ Rotate \/ Open \/ WriterEnds \/ CloseStops \/ CloseJoins
      \/ UNCHANGED logVars
      => UNCHANGED <<queue, writer.msg, accepted, lines>>
  BY DEF ClockTicks, Rotate, Open, WriterEnds, CloseStops, CloseJoins, logVars,
         LogTypeOK
<1> QED BY <1>1, <1>2, <1>3, <1>4, <1>5 DEF LogNext, Writer

\* Every step keeps what close may count on.
LEMMA ClosingStep ==
  LogTypeOK /\ Order /\ Closing /\ [LogNext]_logVars => Closing'
<1> SUFFICES ASSUME LogTypeOK, Order, Closing, [LogNext]_logVars PROVE Closing'
  OBVIOUS
<1> USE LogTypeOK DEF LogTypeOK, Closing, logGhosts
<1>1. CASE ClockTicks \/ (\E m \in LogMsg : Log(m)) \/ UNCHANGED logVars
  BY <1>1 DEF ClockTicks, Log, logVars
<1>2. CASE WriterPop \/ Rotate \/ Open
  <2>1. UNCHANGED <<stop, closer>> /\ writer.pc # "done" /\ writer'.pc # "done"
    BY <1>2 DEF WriterPop, Rotate, Open
  <2> QED BY <2>1
<1>3. CASE WriteLine
  <2>1. writer'.pc = "look" /\ writer.pc = "write"
        /\ UNCHANGED <<stop, closer>>
    BY <1>3 DEF WriteLine
  <2> QED BY <2>1
<1>4. CASE WriterEnds
  <2>1. Len(writer.msg) = 0 /\ Len(queue) = 0
    BY <1>4 DEF WriterEnds, MayEnd
  <2>2. owed <= Len(lines)
    BY <2>1, LengthsType DEF Order
  <2> QED BY <1>4, <2>2 DEF WriterEnds, MayEnd
<1>5. CASE CloseStops
  BY <1>5 DEF CloseStops
<1>6. CASE CloseJoins
  BY <1>6 DEF CloseJoins
<1> QED BY <1>1, <1>2, <1>3, <1>4, <1>5, <1>6 DEF LogNext, Writer
-----------------------------------------------------------------------------
(* The files.                                                              *)

\* The open file belongs to a moment since the rotation of time r, or none
\* could be opened since; what is written was taken before.
GoodFile(r) ==
  \/ /\ file # NoFile
     /\ file.name \in r .. clock
     /\ file.day \in Day(r) .. Day(file.name)
  \/ /\ file = NoFile
     /\ \E h \in failed : h \in r .. clock

RotatedAt(r) ==
  /\ rotated = Stamp(r)
  /\ writer.taken <= clock
  /\ writer.pc \in {"open", "write"} => writer.taken <= r
  /\ writer.pc = "open" => file = NoFile /\ writer.dir = r
  /\ writer.pc # "open" /\ closer # "closed" => GoodFile(r)

Hours == \E r \in 0 .. clock : RotatedAt(r)

\* The times that are kept are numbers.
LEMMA ClockType ==
  ASSUME LogTypeOK
  PROVE  /\ clock \in Nat /\ writer.taken \in Nat /\ writer.dir \in Nat
         /\ \A h \in failed : h \in Nat
         /\ file # NoFile => file.name \in Nat /\ file.day \in Nat
BY LoggerAssumption DEF LogTypeOK, File

\* At first the file is that of the first hour.
LEMMA HoursInit == LogInit => Hours
<1> SUFFICES ASSUME LogInit PROVE Hours
  OBVIOUS
<1>1. Day(0) = 0 /\ FileOf(0, 0) # NoFile
  BY DayBound, FileType, LoggerAssumption
<1>2. RotatedAt(0)
  BY <1>1 DEF LogInit, RotatedAt, GoodFile, FileOf
<1> QED BY <1>2 DEF Hours, LogInit

\* Every step keeps the relation of the file to the hours.
LEMMA HoursStep ==
  LogTypeOK /\ Closing /\ Hours /\ [LogNext]_logVars => Hours'
<1> SUFFICES ASSUME LogTypeOK, Closing, Hours, [LogNext]_logVars PROVE Hours'
  OBVIOUS
<1> USE DEF logGhosts
<1>1. PICK r \in 0 .. clock : RotatedAt(r)
  BY DEF Hours
<1>2. /\ r \in Nat /\ clock \in Nat /\ writer.taken \in Nat
      /\ \A h \in failed : h \in Nat
      /\ file # NoFile => file.name \in Nat /\ file.day \in Nat
  BY ClockType
<1>14. writer \in WriterState
  BY DEF LogTypeOK, WriterState
<1>3. CASE ClockTicks
  <2>1. clock' = clock + 1 /\ UNCHANGED <<writer, rotated, file, closer, failed>>
    BY <1>3 DEF ClockTicks
  <2>2. GoodFile(r) => GoodFile(r)'
    BY <1>2, <2>1 DEF GoodFile
  <2>3. RotatedAt(r)'
    BY <1>1, <1>2, <2>1, <2>2 DEF RotatedAt
  <2> QED BY <1>2, <2>1, <2>3 DEF Hours
<1>4. ASSUME NEW m \in LogMsg, Log(m)
      PROVE  Hours'
  BY <1>1, <1>4 DEF Log, Hours, RotatedAt, GoodFile
<1>5. CASE WriterPop
  <2>1. /\ writer'.pc = "rotate" /\ writer'.taken = clock /\ writer.pc = "look"
        /\ UNCHANGED <<rotated, file, closer, clock, failed>>
    BY <1>5, <1>14 DEF WriterPop, WriterState
  <2>2. RotatedAt(r)'
    BY <1>1, <1>2, <2>1 DEF RotatedAt, GoodFile
  <2> QED BY <2>1, <2>2 DEF Hours
<1>6. CASE Rotate /\ RotationDue(rotated, Stamp(clock))
  <2>1. /\ writer'.pc = "open" /\ writer'.taken = writer.taken
        /\ writer'.dir = clock /\ rotated' = Stamp(clock) /\ file' = NoFile
        /\ UNCHANGED <<closer, clock, failed>>
    BY <1>6, <1>14 DEF Rotate, WriterState
  <2>2. RotatedAt(clock)'
    BY <1>1, <2>1 DEF RotatedAt
  <2> QED BY <1>2, <2>1, <2>2 DEF Hours
<1>7. CASE Rotate /\ ~RotationDue(rotated, Stamp(clock))
  <2>1. r = clock
    BY <1>1, <1>2, <1>7, RotationDueTime DEF RotatedAt
  <2>2. /\ writer'.pc = "write" /\ writer'.taken = writer.taken
        /\ writer.pc = "rotate"
        /\ UNCHANGED <<rotated, file, closer, clock, failed>>
    BY <1>7, <1>14 DEF Rotate, WriterState
  <2>3. RotatedAt(r)'
    BY <1>1, <1>2, <2>1, <2>2 DEF RotatedAt, GoodFile
  <2> QED BY <2>2, <2>3 DEF Hours
<1>8. CASE Open
  <2>1. /\ writer.pc = "open" /\ writer'.pc = "write"
        /\ writer'.taken = writer.taken
        /\ UNCHANGED <<rotated, closer, clock>>
    BY <1>8, <1>14 DEF Open, WriterState
  <2>2. GoodFile(r)'
    <3>1. CASE file' = FileOf(writer.dir, clock)
      <4>1. file' # NoFile
        BY <3>1, FileType DEF LogTypeOK
      <4>2. file'.name = clock /\ file'.day = Day(r)
        BY <1>1, <2>1, <3>1 DEF RotatedAt, FileOf
      <4>3. Day(r) <= Day(clock) /\ Day(r) \in Nat /\ Day(clock) \in Nat
        BY <1>2, DayMonotonic, DayBound
      <4> QED BY <1>2, <2>1, <4>1, <4>2, <4>3 DEF GoodFile
    <3>2. CASE failed' = failed \cup {clock} /\ UNCHANGED file
      <4>1. file' = NoFile /\ clock \in failed' /\ clock \in r .. clock
        BY <1>1, <1>2, <2>1, <3>2 DEF RotatedAt
      <4> QED BY <2>1, <4>1 DEF GoodFile
    <3> QED BY <1>8, <3>1, <3>2 DEF Open
  <2>3. RotatedAt(r)'
    BY <1>1, <2>1, <2>2 DEF RotatedAt
  <2> QED BY <2>1, <2>3 DEF Hours
<1>9. CASE WriteLine
  <2>1. /\ writer.pc = "write" /\ writer'.pc = "look" /\ writer'.taken = 0
        /\ UNCHANGED <<rotated, file, closer, clock, failed>>
    BY <1>9, <1>14 DEF WriteLine, WriterState
  <2>2. RotatedAt(r)'
    BY <1>1, <1>2, <2>1 DEF RotatedAt, GoodFile
  <2> QED BY <2>1, <2>2 DEF Hours
<1>10. CASE WriterEnds
  <2>1. /\ writer.pc = "look" /\ writer'.pc = "done"
        /\ writer'.taken = writer.taken
        /\ UNCHANGED <<rotated, file, closer, clock, failed>>
    BY <1>10, <1>14 DEF WriterEnds, WriterState
  <2>2. RotatedAt(r)'
    BY <1>1, <2>1 DEF RotatedAt, GoodFile
  <2> QED BY <2>1, <2>2 DEF Hours
<1>11. CASE CloseStops
  <2>1. /\ closer = "open" /\ closer' = "joining"
        /\ UNCHANGED <<writer, rotated, file, clock, failed>>
    BY <1>11 DEF CloseStops
  <2>2. RotatedAt(r)'
    BY <1>1, <2>1 DEF RotatedAt, GoodFile
  <2> QED BY <2>1, <2>2 DEF Hours
<1>12. CASE CloseJoins
  <2>1. /\ closer' = "closed" /\ writer.pc = "done"
        /\ UNCHANGED <<writer, rotated, clock>>
    BY <1>12 DEF CloseJoins
  <2>2. RotatedAt(r)'
    BY <1>1, <2>1 DEF RotatedAt
  <2> QED BY <2>1, <2>2 DEF Hours
<1>13. CASE UNCHANGED logVars
  BY <1>1, <1>13 DEF logVars, Hours, RotatedAt, GoodFile
<1> QED BY <1>3, <1>4, <1>5, <1>6, <1>7, <1>8, <1>9, <1>10, <1>11, <1>12, <1>13
        DEF LogNext, Writer

\* The line being written is in its hour.
LEMMA NewLine ==
  ASSUME LogTypeOK, Closing, Hours, WriteLine
  PROVE  LET new == LineFor(writer, file, clock)
         IN  \/ /\ new.file # NoFile
                /\ new.file.name \in new.taken .. new.time
                /\ new.file.day \in Day(new.taken) .. Day(new.file.name)
             \/ /\ new.file = NoFile
                /\ \E h \in failed : h \in new.taken .. new.time
<1> DEFINE new == LineFor(writer, file, clock)
<1>1. PICK r \in 0 .. clock : RotatedAt(r)
  BY DEF Hours
<1>2. /\ r \in Nat /\ clock \in Nat /\ writer.taken \in Nat
      /\ \A h \in failed : h \in Nat
      /\ file # NoFile => file.name \in Nat /\ file.day \in Nat
  BY ClockType
<1>3. writer.taken <= r /\ GoodFile(r)
  BY <1>1 DEF WriteLine, RotatedAt, Closing
<1>4. new.taken = writer.taken /\ new.file = file /\ new.time = clock
  BY DEF LineFor
<1>5. Day(writer.taken) <= Day(r) /\ Day(r) \in Nat /\ Day(writer.taken) \in Nat
  BY <1>2, <1>3, DayMonotonic, DayBound
<1>6. CASE file # NoFile
  <2>1. /\ file.name \in r .. clock /\ file.day \in Day(r) .. Day(file.name)
        /\ Day(file.name) \in Nat
    BY <1>2, <1>3, <1>6, DayBound DEF GoodFile
  <2>2. /\ file.name \in writer.taken .. clock
        /\ file.day \in Day(writer.taken) .. Day(file.name)
    BY <1>2, <1>3, <1>5, <1>6, <2>1
  <2> HIDE DEF new
  <2> QED BY <1>4, <1>6, <2>2 DEF new
<1>7. CASE file = NoFile
  <2>1. PICK h \in failed : h \in r .. clock
    BY <1>3, <1>7 DEF GoodFile
  <2>2. h \in writer.taken .. clock
    BY <1>2, <1>3, <2>1
  <2> HIDE DEF new
  <2> QED BY <1>4, <1>7, <2>2 DEF new
<1> QED BY <1>6, <1>7

\* Every step keeps the lines in the files of their hours.
LEMMA LineStep ==
  LogTypeOK /\ Closing /\ Hours /\ LineInItsHour /\ [LogNext]_logVars
    => LineInItsHour'
<1> SUFFICES ASSUME LogTypeOK, Closing, Hours, LineInItsHour, [LogNext]_logVars
             PROVE  LineInItsHour'
  OBVIOUS
<1>1. CASE WriteLine
  <2> DEFINE new == LineFor(writer, file, clock)
  <2>1. /\ lines \in Seq(Line) /\ new \in Line /\ lines' = Append(lines, new)
        /\ UNCHANGED failed
    BY <1>1, ElementOfSeq DEF WriteLine, LogTypeOK, LineFor, Line, logGhosts
  <2> HIDE DEF new
  <2>2. /\ Len(lines) \in Nat /\ DOMAIN lines = 1 .. Len(lines)
        /\ DOMAIN lines' = 1 .. Len(lines) + 1
        /\ \A i \in 1 .. Len(lines) : lines'[i] = lines[i]
        /\ lines'[Len(lines) + 1] = new
    BY <2>1, AppendProperties, LenProperties
  <2> SUFFICES ASSUME NEW i \in 1 .. Len(lines) + 1
               PROVE  \/ /\ lines'[i].file # NoFile
                         /\ lines'[i].file.name \in lines'[i].taken .. lines'[i].time
                         /\ lines'[i].file.day \in
                              Day(lines'[i].taken) .. Day(lines'[i].file.name)
                      \/ /\ lines'[i].file = NoFile
                         /\ \E h \in failed' : h \in lines'[i].taken .. lines'[i].time
    BY <2>2 DEF LineInItsHour
  <2>3. CASE i \in 1 .. Len(lines)
    BY <2>1, <2>2, <2>3 DEF LineInItsHour
  <2>4. CASE i = Len(lines) + 1
    BY <1>1, <2>1, <2>2, <2>4, NewLine DEF new
  <2> QED BY <2>2, <2>3, <2>4
<1>2. CASE UNCHANGED lines /\ failed \subseteq failed'
  BY <1>2 DEF LineInItsHour
<1>3. ClockTicks \/ (\E m \in LogMsg : Log(m)) \/ WriterPop \/ Rotate \/ Open
      \/ WriterEnds \/ CloseStops \/ CloseJoins \/ UNCHANGED logVars
      => UNCHANGED lines /\ failed \subseteq failed'
  BY DEF ClockTicks, Log, WriterPop, Rotate, Open, WriterEnds, CloseStops,
         CloseJoins, logVars, logGhosts
<1> QED BY <1>1, <1>2, <1>3 DEF LogNext, Writer
-----------------------------------------------------------------------------
(* The theorems.                                                           *)

LogInv == LogTypeOK /\ Order /\ Closing /\ Hours /\ LineInItsHour

\* The inductive invariant of the logger.
THEOREM LogInvariant == LogSpec => []LogInv
<1>1. LogInit => LogInv
  <2>1. LogInit => LineInItsHour
    BY DEF LogInit, LineInItsHour
  <2> QED BY <2>1, LogInitType, OrderInit, HoursInit DEF LogInv
<1>2. LogInv /\ [LogNext]_logVars => LogInv'
  BY LogStepType, OrderStep, ClosingStep, HoursStep, LineStep DEF LogInv
<1> QED BY <1>1, <1>2, PTL DEF LogSpec

\* Through rotations, failed opens and a clock that moves between two looks at
\* it, a line of the logger is in the file of its hour (logger.cpp, the thread).
THEOREM LogLineInItsHour == LogSpec => []LineInItsHour
<1>1. LogInv => LineInItsHour
  BY DEF LogInv
<1> QED BY <1>1, LogInvariant, PTL

\* Each step of the logger is a step of the book or none.
LEMMA StepRefines == LogInv /\ LogInv' /\ [LogNext]_logVars => [Book!Next]_(Book!vars)
<1> SUFFICES ASSUME LogInv, LogInv', [LogNext]_logVars
             PROVE  [Book!Next]_(Book!vars)
  OBVIOUS
<1> DEFINE written == [i \in DOMAIN lines |-> lines[i].msg]
           isClosed == closer = "closed"
<1>1. LogTypeOK /\ Order /\ Closing /\ lines \in Seq(Line)
  BY DEF LogInv, LogTypeOK, Line
<1>2. /\ Len(lines) \in Nat /\ DOMAIN lines = 1 .. Len(lines)
      /\ Len(accepted) \in Nat /\ Len(queue) \in Nat
      /\ Len(writer.msg) \in 0 .. 1
  BY <1>1, LengthsType, LenProperties
<1>3. /\ written \in Seq(LogMsg) /\ Len(written) = Len(lines)
      /\ \A i \in 1 .. Len(lines) : written[i] = lines[i].msg
  <2>1. \A i \in 1 .. Len(lines) : lines[i].msg \in LogMsg
    <3>1. \A i \in 1 .. Len(lines) : lines[i] \in Line
      BY <1>1, ElementOfSeq
    <3> QED BY <3>1 DEF Line
  <2> QED BY <1>2, <2>1, IsASeq, LenProperties
<1>4. ASSUME NEW m \in LogMsg, Log(m)
      PROVE  Book!Accept(m)
  BY <1>4 DEF Log, Book!Accept, logGhosts
<1>5. CASE WriteLine
  <2> DEFINE new == LineFor(writer, file, clock)
             m == accepted[Len(lines) + 1]
  <2>1. /\ new \in Line /\ new.msg = writer.msg[1] /\ Len(writer.msg) = 1
        /\ writer.pc = "write"
    BY <1>1, <1>5, ElementOfSeq DEF WriteLine, LogTypeOK, LineFor, Line
  <2>2. new.msg = m /\ Len(lines) < Len(accepted)
    BY <1>1, <1>2, <2>1 DEF Order
  <2>3. lines' = Append(lines, new)
    BY <1>5 DEF WriteLine
  <2> HIDE DEF new
  <2>4. /\ DOMAIN lines' = 1 .. Len(lines) + 1
        /\ \A i \in 1 .. Len(lines) : lines'[i] = lines[i]
        /\ lines'[Len(lines) + 1] = new
    BY <1>1, <1>2, <2>1, <2>3, AppendProperties, LenProperties
  <2>5. written' = Append(written, m)
    <3>1. m \in LogMsg
      BY <2>1, <2>2 DEF Line
    <3>2. written' = [i \in 1 .. Len(lines) + 1 |-> lines'[i].msg]
      BY <2>4
    <3>3. Append(written, m) = [i \in 1 .. Len(lines) + 1 |->
                                  IF i = Len(lines) + 1 THEN m ELSE written[i]]
      BY <1>2, <1>3, <3>1, AppendProperties
    <3>4. \A i \in 1 .. Len(lines) + 1 :
            lines'[i].msg = IF i = Len(lines) + 1 THEN m ELSE written[i]
      BY <1>2, <1>3, <2>2, <2>4
    <3> HIDE DEF written, m
    <3> QED BY <3>2, <3>3, <3>4
  <2>6. closer # "closed"
    BY <1>1, <2>1 DEF Closing
  <2>7. UNCHANGED <<accepted, owed, closer>>
    BY <1>5 DEF WriteLine, logGhosts
  <2>8. Book!Write
    BY <1>3, <2>2, <2>5, <2>6, <2>7 DEF Book!Write
  <2> QED BY <2>8 DEF Book!Next
<1>6. CASE CloseStops
  <2>1. closer = "open" /\ closer' = "joining" /\ owed' = Len(accepted)
        /\ UNCHANGED <<accepted, lines>>
    BY <1>6 DEF CloseStops
  <2>2. Book!RequestClose
    BY <2>1 DEF Book!RequestClose
  <2> QED BY <2>2 DEF Book!Next
<1>7. CASE CloseJoins
  <2>1. /\ closer = "joining" /\ closer' = "closed" /\ writer.pc = "done"
        /\ UNCHANGED <<accepted, lines, owed>>
    BY <1>7 DEF CloseJoins, logGhosts
  <2>2. owed <= Len(written)
    BY <1>1, <1>3, <2>1 DEF Closing
  <2>3. owed \in Nat
    BY <1>1, <1>2 DEF LogTypeOK
  <2>4. Book!Close
    BY <1>2, <1>3, <2>1, <2>2, <2>3 DEF Book!Close
  <2> QED BY <2>4 DEF Book!Next
<1>8. CASE UNCHANGED <<accepted, lines, owed, closer>>
  BY <1>8 DEF Book!vars
<1>9. ClockTicks \/ WriterPop \/ Rotate \/ Open \/ WriterEnds \/ UNCHANGED logVars
      => UNCHANGED <<accepted, lines, owed, closer>>
  BY DEF ClockTicks, WriterPop, Rotate, Open, WriterEnds, logVars, logGhosts
<1> QED BY <1>4, <1>5, <1>6, <1>7, <1>8, <1>9 DEF LogNext, Writer, Book!Next

\* The logger implements the book: the lines come out once and in order, and
\* close returns only when all it owes is written.
THEOREM LoggerImplementsBook == LogSpec => Book!Spec
<1>1. LogInit => Book!Init
  <2>1. LogInit => [i \in DOMAIN lines |-> lines[i].msg] = << >>
    BY DEF LogInit
  <2> QED BY <2>1 DEF LogInit, Book!Init
<1>2. LogInv /\ LogInv' /\ [LogNext]_logVars => [Book!Next]_(Book!vars)
  BY StepRefines
<1> QED BY <1>1, <1>2, LogInvariant, PTL DEF LogSpec, Book!Spec
-----------------------------------------------------------------------------
(* Both between the tasks and the end of the program.                      *)

\* Every step of the program is a step of the pool or leaves it alone.
LEMMA StepIsPool == [Next]_vars => [PoolNext]_poolVars
<1> SUFFICES ASSUME [Next]_vars PROVE [PoolNext]_poolVars
  OBVIOUS
<1>1. ASSUME NEW t \in PoolTask, Submit(t) \/ TaskStep(t) \/ WakesSpuriously(t)
      PROVE  [PoolNext]_poolVars
  BY <1>1 DEF Submit, TaskStep, AcquireConnection, LogStatement, Query,
              ReleaseConnection, WakesSpuriously, PoolNext
<1>2. CleanUp \/ MainStep \/ WriterStep \/ UNCHANGED vars
      \/ (ClockTicks /\ UNCHANGED <<poolVars, task, main>>)
      => [PoolNext]_poolVars
  BY DEF CleanUp, MainStep, CloseLogger, ShutdownPool, ExecEnds, Exit, WriterStep,
         PoolNext, vars
<1> QED BY <1>1, <1>2 DEF Next

\* Every step of the program is a step of the logger or leaves it alone.
LEMMA StepIsLog == [Next]_vars => [LogNext]_logVars
<1> SUFFICES ASSUME [Next]_vars PROVE [LogNext]_logVars
  OBVIOUS
<1>1. ASSUME NEW t \in PoolTask, Submit(t) \/ TaskStep(t) \/ WakesSpuriously(t)
      PROVE  [LogNext]_logVars
  BY <1>1 DEF Submit, TaskStep, AcquireConnection, LogStatement, Query,
              ReleaseConnection, WakesSpuriously, LogNext
<1>2. CleanUp \/ MainStep \/ WriterStep \/ UNCHANGED vars
      \/ (ClockTicks /\ UNCHANGED <<poolVars, task, main>>)
      => [LogNext]_logVars
  BY DEF CleanUp, MainStep, CloseLogger, ShutdownPool, ExecEnds, Exit, WriterStep,
         LogNext, vars
<1> QED BY <1>1, <1>2 DEF Next

\* The tasks and the end of the program use the pool as SqlPool allows.
THEOREM TasksUsePool == Spec => PoolSpec
<1>1. Init => PoolInit
  BY DEF Init
<1> QED BY <1>1, StepIsPool, PTL DEF Spec, PoolSpec

\* They use the logger as LoggerQueue allows.
THEOREM TasksUseLog == Spec => LogSpec
<1>1. Init => LogInit
  BY DEF Init
<1> QED BY <1>1, StepIsLog, PTL DEF Spec, LogSpec

\* Between the tasks of the program, a connection has one user at a time, ...
THEOREM TasksOneUser == Spec => []ConnectionHasOneUser
BY TasksUsePool, PoolOneUser, PTL

\* ... no wakeup of a waiting task is lost, ...
THEOREM TasksWake == Spec => []NoLostWakeup
BY TasksUsePool, PoolWakes, PTL

\* ... every line is in the file of its hour, ...
THEOREM TasksLineInItsHour == Spec => []LineInItsHour
BY TasksUseLog, LogLineInItsHour, PTL

\* ... and the lines are those of the book.
THEOREM TasksImplementBook == Spec => Book!Spec
BY TasksUseLog, LoggerImplementsBook, PTL

\* The state of a task and of the main thread.
TaskTypes ==
  /\ task \in [PoolTask -> {"idle", "submitted", "logged", "done"}]
  /\ main \in {"running", "closing", "exec", "waiting", "exited"}

\* Every step keeps the states of the tasks and of the main thread.
LEMMA TaskTypesStep == TaskTypes /\ [Next]_vars => TaskTypes'
<1> SUFFICES ASSUME TaskTypes, [Next]_vars PROVE TaskTypes'
  OBVIOUS
<1> USE DEF TaskTypes
<1>1. ASSUME NEW t \in PoolTask, Submit(t) \/ TaskStep(t) \/ WakesSpuriously(t)
      PROVE  TaskTypes'
  BY <1>1 DEF Submit, TaskStep, AcquireConnection, LogStatement, Query,
              ReleaseConnection, WakesSpuriously, GotoTask
<1>2. CleanUp \/ MainStep \/ WriterStep \/ UNCHANGED vars
      \/ (ClockTicks /\ UNCHANGED <<poolVars, task, main>>)
      => TaskTypes'
  BY DEF CleanUp, MainStep, CloseLogger, ShutdownPool, ExecEnds, Exit, WriterStep,
         vars
<1> QED BY <1>1, <1>2 DEF Next

\* The types of the tasks, the pool and the logger.
THEOREM TasksTypeCorrect == Spec => []TypeOK
<1>1. Init => TaskTypes
  BY DEF Init, TaskTypes
<1>2. TaskTypes /\ [Next]_vars => TaskTypes'
  BY TaskTypesStep
<1>3. PoolInv /\ LogInv /\ TaskTypes => TypeOK
  BY DEF PoolInv, LogInv, TaskTypes, TypeOK
<1> QED BY <1>1, <1>2, <1>3, TasksUsePool, TasksUseLog, PoolInvariant, LogInvariant,
        PTL DEF Spec
=============================================================================
