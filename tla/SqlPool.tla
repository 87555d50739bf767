------------------------------ MODULE SqlPool ------------------------------
(***************************************************************************)
(* The pool of database connections (sqlconnectionpool.cpp).  A task takes *)
(* a connection, or waits on the condition variable until one is given     *)
(* back; a guard gives it back at the end of its block.  A thread that is   *)
(* notified has to take the mutex again, and another task may be faster.    *)
(* Every operation runs under the pool's mutex and is one step.             *)
(***************************************************************************)
EXTENDS Naturals, Sequences, FiniteSets, SequencesExt

CONSTANTS
  Conn,       \* the connections init makes, 30 in main.cpp
  PoolTask,   \* the threads that use the pool
  NoConn      \* the task has no connection

ASSUME PoolAssumption ==
  /\ IsFiniteSet(Conn)
  /\ IsFiniteSet(PoolTask)
  /\ NoConn \notin Conn

VARIABLES
  connections,  \* the free connections, in the order they are taken
  conn,         \* per task, the connection its guard holds
  waiting,      \* the tasks asleep on the condition variable
  woken,        \* those notified that have not looked at the queue yet
  initialized

poolVars == <<connections, conn, waiting, woken, initialized>>

\* After main's init: every connection is free.
PoolInit ==
  /\ connections = SetToSeq(Conn)
  /\ conn = [t \in PoolTask |-> NoConn]
  /\ waiting = {}
  /\ woken = {}
  /\ initialized = TRUE

\* The task is in none of the pool's functions.
Outside(t) == t \notin waiting \cup woken

Take(t) ==
  /\ connections # << >>
  /\ conn' = [conn EXCEPT ![t] = Head(connections)]
  /\ connections' = Tail(connections)

\* acquire, up to the connection or to the first wait.
Acquire(t) ==
  /\ conn[t] = NoConn
  /\ Outside(t)
  /\ \/ Take(t) /\ UNCHANGED waiting
     \/ /\ connections = << >>
        /\ waiting' = waiting \cup {t}
        /\ UNCHANGED <<connections, conn>>
  /\ UNCHANGED <<woken, initialized>>

\* A notified task has the mutex again: it takes a connection, or waits again
\* because another was faster.
Wake(t) ==
  /\ t \in woken
  /\ woken' = woken \ {t}
  /\ \/ Take(t) /\ UNCHANGED waiting
     \/ /\ connections = << >>
        /\ waiting' = waiting \cup {t}
        /\ UNCHANGED <<connections, conn>>
  /\ UNCHANGED initialized

Notify(w) ==
  /\ waiting' = waiting \ {w}
  /\ woken' = woken \cup {w}

\* A condition variable may also wake a task for no reason.
WakeSpuriously(t) ==
  /\ t \in waiting
  /\ Notify(t)
  /\ UNCHANGED <<connections, conn, initialized>>

\* Faulty variant: nobody is told that a connection has come back.
NotifyNobody == UNCHANGED <<waiting, woken>>

\* notify_one: any of the sleeping tasks, if there is one.
NotifyOne ==
  \/ \E w \in waiting : Notify(w)
  \/ waiting = {} /\ UNCHANGED <<waiting, woken>>

\* Faulty variant: the guard has been copied, and both copies give it back.
ReleaseByCopy(t) ==
  /\ conn[t] # NoConn
  /\ connections' = connections \o <<conn[t], conn[t]>>
  /\ conn' = [conn EXCEPT ![t] = NoConn]
  /\ NotifyOne
  /\ UNCHANGED initialized

\* The guard ends: release.
Release(t) ==
  /\ conn[t] # NoConn
  /\ connections' = Append(connections, conn[t])
  /\ conn' = [conn EXCEPT ![t] = NoConn]
  /\ NotifyOne
  /\ UNCHANGED initialized

\* shutdown: the free connections are closed; nobody is notified.
Shutdown ==
  /\ connections' = << >>
  /\ initialized' = FALSE
  /\ UNCHANGED <<conn, waiting, woken>>

PoolNext ==
  \/ \E t \in PoolTask : Acquire(t) \/ WakeSpuriously(t) \/ Wake(t) \/ Release(t)
  \/ Shutdown

PoolSpec == PoolInit /\ [][PoolNext]_poolVars
-----------------------------------------------------------------------------
(* Properties.                                                             *)

PoolTypeOK ==
  /\ connections \in Seq(Conn)
  /\ conn \in [PoolTask -> Conn \cup {NoConn}]
  /\ waiting \subseteq PoolTask
  /\ woken \subseteq PoolTask
  /\ initialized \in BOOLEAN

\* A connection is used by one task at a time, is not free while it is used,
\* and is free only once: the driver's connections are not made for two users.
ConnectionHasOneUser ==
  /\ IsInjective(connections)
  /\ \A s, t \in PoolTask : conn[s] = conn[t] /\ conn[s] # NoConn => s = t
  /\ \A t \in PoolTask, i \in DOMAIN connections : connections[i] # conn[t]

\* No wakeup is lost: tasks sleep beside free connections only while at least
\* as many notified tasks are on their way to them.
NoLostWakeup ==
  waiting # {} => Len(connections) <= Cardinality(woken)
=============================================================================
