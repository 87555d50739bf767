---------------------------- MODULE TaskServices ----------------------------
(***************************************************************************)
(* The tasks of the thread pool between the two services they share, the    *)
(* connections of SqlPool and the LoggerQueue, and the end of the program:  *)
(* closeEvent (loopline_houjie.h) cleans up, closes the logger, shuts the   *)
(* pool of connections down, and after the event loop QApplication waits    *)
(* for the tasks.                                                          *)
(*                                                                          *)
(* Handlers of JTRequest use the database too, on the main thread itself,    *)
(* which takes up no event and does not close while one of them waits.       *)
(***************************************************************************)
EXTENDS SqlPool, LoggerQueue

CONSTANT Handler   \* those tasks that are handlers on the main thread

ASSUME TaskServicesAssumption ==
  /\ LogMsg \subseteq PoolTask   \* those that write
  /\ Handler \subseteq PoolTask

VARIABLES
  task,   \* per task: not started, submitted, its statement logged, or over
  main    \* the main thread

vars == <<poolVars, logVars, task, main>>

Init ==
  /\ PoolInit
  /\ LogInit
  /\ task = [t \in PoolTask |-> "idle"]
  /\ main = "running"

GotoTask(t, from, to) == task[t] = from /\ task' = [task EXCEPT ![t] = to]
-----------------------------------------------------------------------------
(* A task.                                                                 *)

\* The main thread is in a handler.
Handling == \E t \in Handler : task[t] \in {"submitted", "logged"}

\* QtConcurrent::run, by a worker until the clean-up, or for a reply of the service
\* as long as the event loop runs; or the loop calls a handler.
Submit(t) ==
  /\ \/ main = "running" /\ t \notin Handler
     \/ main \in {"running", "exec"} /\ ~Handling
  /\ GotoTask(t, "idle", "submitted")
  /\ UNCHANGED <<poolVars, logVars, main>>

AcquireConnection(t) ==
  /\ task[t] = "submitted"
  /\ Acquire(t) \/ Wake(t)
  /\ UNCHANGED <<logVars, task, main>>

WakesSpuriously(t) == WakeSpuriously(t) /\ UNCHANGED <<logVars, task, main>>

\* insertRow and updateRow log their statement while the task holds the
\* connection, ...
LogStatement(t) ==
  /\ t \in LogMsg
  /\ conn[t] # NoConn
  /\ GotoTask(t, "submitted", "logged")
  /\ Log(t)
  /\ UNCHANGED <<poolVars, main>>

\* ... queries do not.
Query(t) ==
  /\ t \notin LogMsg
  /\ conn[t] # NoConn
  /\ GotoTask(t, "submitted", "logged")
  /\ UNCHANGED <<poolVars, logVars, main>>

ReleaseConnection(t) ==
  /\ GotoTask(t, "logged", "done")
  /\ Release(t)
  /\ UNCHANGED <<logVars, main>>
-----------------------------------------------------------------------------
(* The main thread.                                                        *)

\* dataProCleanUp: the workers have ended.
CleanUp ==
  /\ main = "running"
  /\ ~Handling
  /\ main' = "closing"
  /\ UNCHANGED <<poolVars, logVars, task>>

CloseLogger ==
  /\ main = "closing"
  /\ CloseStops \/ CloseJoins
  /\ UNCHANGED <<poolVars, task, main>>

ShutdownPool ==
  /\ main = "closing"
  /\ closer = "closed"
  /\ Shutdown
  /\ main' = "exec"
  /\ UNCHANGED <<logVars, task>>

\* The last window is closed: the event loop ends, ...
ExecEnds ==
  /\ main = "exec"
  /\ ~Handling
  /\ main' = "waiting"
  /\ UNCHANGED <<poolVars, logVars, task>>

\* ... and the application object waits for the tasks before the program exits.
Exit ==
  /\ main = "waiting"
  /\ \A t \in PoolTask : task[t] \in {"idle", "done"}
  /\ main' = "exited"
  /\ UNCHANGED <<poolVars, logVars, task>>
-----------------------------------------------------------------------------
TaskStep(t) ==
  \/ AcquireConnection(t)
  \/ LogStatement(t) \/ Query(t)
  \/ ReleaseConnection(t)

MainStep == CloseLogger \/ ShutdownPool \/ ExecEnds \/ Exit

WriterStep == Writer /\ UNCHANGED <<poolVars, task, main>>

Next ==
  \/ \E t \in PoolTask : Submit(t) \/ TaskStep(t) \/ WakesSpuriously(t)
  \/ CleanUp \/ MainStep
  \/ WriterStep
  \/ ClockTicks /\ UNCHANGED <<poolVars, task, main>>

Spec == Init /\ [][Next]_vars

\* The threads run.
FairSpec ==
  /\ Spec
  /\ \A t \in PoolTask : WF_vars(TaskStep(t))
  /\ WF_vars(MainStep)
  /\ WF_vars(WriterStep)
-----------------------------------------------------------------------------
(* Properties.                                                             *)

TypeOK ==
  /\ PoolTypeOK
  /\ LogTypeOK
  /\ task \in [PoolTask -> {"idle", "submitted", "logged", "done"}]
  /\ main \in {"running", "closing", "exec", "waiting", "exited"}

\* The pool has been emptied under tasks that still want a connection, and none
\* will ever come back.
Stranded ==
  /\ ~initialized
  /\ connections = << >>
  /\ \A t \in PoolTask : conn[t] = NoConn
  /\ \E t \in PoolTask : task[t] = "submitted"

\* Until the pool is shut down, a task that wants a connection gets one and
\* ends, however the connections wander.
TaskEnds ==
  \A t \in PoolTask :
    (task[t] = "submitted") ~> (task[t] = "done" \/ ~initialized)

\* Closing the window ends the program, unless it leaves tasks without a
\* connection: those it waits for, for ever, or is in itself, in a handler.
ClosingEnds == (main = "closing") ~> (main = "exited" \/ Stranded)
=============================================================================
