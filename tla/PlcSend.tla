------------------------------ MODULE PlcSend ------------------------------
(***************************************************************************)
(* One outgoing port of the PLC in dataprocess.cpp: the tasks that send a  *)
(* message (sendSupplyDataToPLC; the second half of sendSlotToPLC is the   *)
(* same code on the slot port), the queue of messages that found the port  *)
(* busy, the port's mutex, its SocketClient, and the thread that looks     *)
(* after the connection (plcSupplyTcpConnect).                             *)
(*                                                                         *)
(* The queue is read and extended without the mutex.  One operation of the *)
(* queue is indivisible here; the code does not ensure it.  Unlocking a    *)
(* mutex that another thread holds frees it (what the operating system's   *)
(* lock under std::shared_mutex does); stolen remembers that it happened.  *)
(***************************************************************************)
EXTENDS Naturals, Sequences, FiniteSets, SequencesExt

CONSTANTS
  Msg,        \* the messages, each sent by a task of its own
  BatchMax    \* the 5 of takeMsgFromPLCSupplyQueue(5)

ASSUME PlcSendAssumption == BatchMax \in Nat \ {0}

VARIABLES
  queue,      \* m_sendPLCSupplyDataQueue
  locked,     \* m_plcSupplyMutex
  link,       \* the socket: "up", "broken" (not noticed yet) or "down"
  task,       \* per message, its task: pc, the count _n, what it has taken
  connector,  \* tcpConnect on the main thread, then the check thread
  sent,       \* what went out, in order
  lost,       \* what was handed to a socket that is not up
  stolen,     \* the mutex was unlocked by a thread that did not hold it
  garbled,    \* front or pop_front was called on an empty queue
  ahead       \* per message, what was stored when its task looked at the queue

vars == <<queue, locked, link, task, connector, sent, lost, stolen, garbled,
          ahead>>
wire == <<link, sent, lost>>
ghosts == <<stolen, garbled>>

Init ==
  /\ queue = << >>
  /\ locked = FALSE
  /\ link = "down"
  /\ task = [m \in Msg |-> [pc |-> "idle", n |-> 0, taken |-> << >>]]
  /\ connector = "off"
  /\ sent = << >>
  /\ lost = {}
  /\ stolen = FALSE
  /\ garbled = FALSE
  /\ ahead = [m \in Msg |-> {}]

Goto(m, pc) == task' = [task EXCEPT ![m].pc = pc]
-----------------------------------------------------------------------------
(* SocketClient.                                                           *)

\* sendData: the result is ignored by every caller.  A broken connection takes
\* the message, or fails and is noticed; either way the message is lost.
SendData(batch) ==
  IF link = "up"
  THEN /\ sent' = sent \o batch
       /\ UNCHANGED <<lost, link>>
  ELSE /\ lost' = lost \cup ToSet(batch)
       /\ link' \in {link, "down"}
       /\ UNCHANGED sent

\* connectStatus: connected, and a heartbeat can be sent, which a broken
\* connection may take too.
ConnectStatus == link # "down"

\* The PLC, or the network, goes away.
LinkBreaks ==
  /\ link = "up"
  /\ link' = "broken"
  /\ UNCHANGED <<queue, locked, task, connector, sent, lost, ghosts, ahead>>
-----------------------------------------------------------------------------
(* A task that sends a message.                                            *)

\* Is the queue empty?
LookAtQueue(m) ==
  /\ task[m].pc = "idle"
  /\ ahead' = [ahead EXCEPT ![m] = ToSet(queue)]
  /\ Goto(m, IF queue = << >> THEN "direct" ELSE "behind")
  /\ UNCHANGED <<queue, locked, wire, connector, ghosts>>

\* Faulty variant: the mutex is not tried.
FreeAlways == TRUE

\* try_lock
Free == ~locked

\* It was empty: send at once, or store the message for the next send.
TryDirect(m) ==
  /\ task[m].pc = "direct"
  /\ \/ /\ Free
        /\ locked' = TRUE
        /\ Goto(m, "sendOwn")
        /\ UNCHANGED queue
     \/ /\ ~Free
        /\ queue' = Append(queue, m)
        /\ Goto(m, "done")
        /\ UNCHANGED locked
  /\ UNCHANGED <<wire, connector, ghosts, ahead>>

SendOwn(m) ==
  /\ task[m].pc = "sendOwn"
  /\ SendData(<<m>>)
  /\ Goto(m, "unlock")
  /\ UNCHANGED <<queue, locked, connector, ghosts, ahead>>

\* It was not empty: the message goes behind the others, ...
StoreBehind(m) ==
  /\ task[m].pc = "behind"
  /\ queue' = Append(queue, m)
  /\ Goto(m, "try")
  /\ UNCHANGED <<locked, wire, connector, ghosts, ahead>>

\* Faulty variant: only its own message is taken.
TryBehindOwn(m) ==
  /\ task[m].pc = "try"
  /\ \/ /\ Free
        /\ locked' = TRUE
        /\ queue' = SelectSeq(queue, LAMBDA x : x # m)
        /\ Goto(m, "sendOwn")
     \/ /\ ~Free
        /\ Goto(m, "done")
        /\ UNCHANGED <<queue, locked>>
  /\ UNCHANGED <<wire, connector, ghosts, ahead>>

\* ... and the first of them are sent, if the port is free.
TryBehind(m) ==
  /\ task[m].pc = "try"
  /\ \/ /\ Free
        /\ locked' = TRUE
        /\ Goto(m, "size")
     \/ /\ ~Free
        /\ Goto(m, "done")
        /\ UNCHANGED locked
  /\ UNCHANGED <<queue, wire, connector, ghosts, ahead>>

BatchSize(length) == IF length < BatchMax THEN length ELSE BatchMax

\* takeMsgFromPLCSupplyQueue: the count is fixed first, ...
TakeSize(m) ==
  /\ task[m].pc = "size"
  /\ task' = [task EXCEPT ![m].n = BatchSize(Len(queue)), ![m].pc = "take"]
  /\ UNCHANGED <<queue, locked, wire, connector, ghosts, ahead>>

\* ... then one message after the other.
TakeOne(m) ==
  /\ task[m].pc = "take"
  /\ Len(task[m].taken) < task[m].n
  /\ IF queue = << >>
     THEN /\ garbled' = TRUE
          /\ task' = [task EXCEPT ![m].n = Len(task[m].taken)]
          /\ UNCHANGED queue
     ELSE /\ task' = [task EXCEPT ![m].taken = Append(@, Head(queue))]
          /\ queue' = Tail(queue)
          /\ UNCHANGED garbled
  /\ UNCHANGED <<locked, wire, connector, stolen, ahead>>

\* Faulty variant: a batch handed to a broken socket, part of which may have
\* gone out, is stored again as well.
SendBatchAgain(m) ==
  /\ task[m].pc = "take"
  /\ Len(task[m].taken) = task[m].n
  /\ SendData(task[m].taken)
  /\ queue' = IF link = "up" THEN queue ELSE queue \o task[m].taken
  /\ task' = [task EXCEPT ![m].taken = << >>, ![m].n = 0, ![m].pc = "unlock"]
  /\ UNCHANGED <<locked, connector, ghosts, ahead>>

SendBatch(m) ==
  /\ task[m].pc = "take"
  /\ Len(task[m].taken) = task[m].n
  /\ SendData(task[m].taken)
  /\ task' = [task EXCEPT ![m].taken = << >>, ![m].n = 0, ![m].pc = "unlock"]
  /\ UNCHANGED <<queue, locked, connector, ghosts, ahead>>

Unlock(m) ==
  /\ task[m].pc = "unlock"
  /\ locked' = FALSE
  /\ Goto(m, "done")
  /\ UNCHANGED <<queue, wire, connector, ghosts, ahead>>
-----------------------------------------------------------------------------
(* The connection.                                                         *)

\* tcpConnect, the run button.
TcpConnect ==
  /\ connector = "off"
  /\ connector' = "try"
  /\ UNCHANGED <<queue, locked, wire, task, ghosts, ahead>>

\* plcSupplyTcpConnect: without the mutex nothing is checked.
ConnTryLock ==
  /\ connector = "try"
  /\ IF locked
     THEN connector' = "unlock" /\ UNCHANGED locked
     ELSE connector' = "check" /\ locked' = TRUE
  /\ UNCHANGED <<queue, wire, task, ghosts, ahead>>

\* With it, a connection that is not up is made anew (the check thread closes
\* the old socket first), which succeeds or not; the mutex is released next.
ConnCheck ==
  /\ connector = "check"
  /\ \/ ConnectStatus /\ UNCHANGED link
     \/ link # "up" /\ link' \in {"up", "down"}
  /\ connector' = "unlockHeld"
  /\ UNCHANGED <<queue, locked, task, sent, lost, ghosts, ahead>>

\* The unlock at the end is reached with the mutex and without it.
ConnUnlock ==
  /\ connector \in {"unlock", "unlockHeld"}
  /\ locked' = FALSE
  /\ stolen' = (stolen \/ (connector = "unlock" /\ locked))
  /\ connector' = "sleep"
  /\ UNCHANGED <<queue, wire, task, garbled, ahead>>

\* checkTcpConn: the check thread starts, and comes round again.
ConnAgain ==
  /\ connector = "sleep"
  /\ connector' = "try"
  /\ UNCHANGED <<queue, locked, wire, task, ghosts, ahead>>

\* The stop button: the check thread ends between two rounds, then the socket
\* is closed, without the mutex.
TcpDisconnect ==
  /\ connector = "sleep"
  /\ connector' = "off"
  /\ link' = "down"
  /\ UNCHANGED <<queue, locked, task, sent, lost, ghosts, ahead>>
-----------------------------------------------------------------------------
TaskStep(m) ==
  \/ TryDirect(m) \/ SendOwn(m)
  \/ StoreBehind(m) \/ TryBehind(m) \/ TakeSize(m) \/ TakeOne(m) \/ SendBatch(m)
  \/ Unlock(m)

ConnStep == ConnTryLock \/ ConnCheck \/ ConnUnlock \/ ConnAgain

Next ==
  \/ \E m \in Msg : LookAtQueue(m) \/ TaskStep(m)
  \/ LinkBreaks
  \/ TcpConnect \/ ConnStep \/ TcpDisconnect

Spec == Init /\ [][Next]_vars
-----------------------------------------------------------------------------
(* Properties.                                                             *)

Pc == {"idle", "direct", "sendOwn", "behind", "try", "size", "take", "unlock",
       "done"}

TypeOK ==
  /\ queue \in Seq(Msg)
  /\ locked \in BOOLEAN
  /\ link \in {"up", "broken", "down"}
  /\ task \in [Msg -> [pc : Pc, n : 0 .. BatchMax, taken : Seq(Msg)]]
  /\ connector \in {"off", "try", "check", "unlock", "unlockHeld", "sleep"}
  /\ sent \in Seq(Msg)
  /\ lost \subseteq Msg
  /\ stolen \in BOOLEAN /\ garbled \in BOOLEAN
  /\ ahead \in [Msg -> SUBSET Msg]

HoldsPort(m) == task[m].pc \in {"sendOwn", "size", "take", "unlock"}
ConnHoldsPort == connector \in {"check", "unlockHeld"}

\* As long as the connector has not unlocked a mutex it did not hold, one thread
\* at a time uses the socket or takes from the queue.
PortIsExclusive ==
  ~stolen =>
    /\ \A m1, m2 \in Msg : HoldsPort(m1) /\ HoldsPort(m2) => m1 = m2
    /\ \A m \in Msg : HoldsPort(m) => ~ConnHoldsPort

\* The inductive invariant behind it: whoever uses the port holds the mutex.
PortIsLocked ==
  ~stolen => /\ \A m \in Msg : HoldsPort(m) => locked
             /\ ConnHoldsPort => locked

PortInv == TypeOK /\ PortIsLocked /\ PortIsExclusive

\* Before, during and after its task a message is in one place, and the takers
\* never read beyond the queue: whoever sends it, it goes out at most once, and
\* only a socket that is down loses it.
Places(m) ==
  {<<"queue", i>> : i \in {k \in DOMAIN queue : queue[k] = m}} \cup
  {<<"taken", t>> : t \in {k \in Msg : m \in ToSet(task[k].taken)}} \cup
  {<<"sent", i>> : i \in {k \in DOMAIN sent : sent[k] = m}} \cup
  {<<"lost", 1>> : k \in {m} \cap lost} \cup
  {<<"own", 1>> : k \in {m} \cap
     {x \in Msg : task[x].pc \in {"idle", "direct", "sendOwn", "behind"}}}

MessageInOnePlace ==
  ~stolen => ~garbled /\ \A m \in Msg : Cardinality(Places(m)) = 1

\* A message stored before another's task looked at the queue is not overtaken
\* by it.
StoredGoesFirst ==
  ~stolen =>
    \A i, j \in DOMAIN sent : sent[j] \in ahead[sent[i]] => j < i
(* What the proofs of MessageInOnePlace and StoredGoesFirst carry from     *)
(* state to state.                                                         *)

Queued(m) == m \in ToSet(queue)
Taken(m)  == \E t \in Msg : m \in ToSet(task[t].taken)
Sent(m)   == m \in ToSet(sent)
Lost(m)   == m \in lost
Own(m)    == task[m].pc \in {"idle", "direct", "sendOwn", "behind"}

InOneOf(m) ==
  \/ Queued(m) /\ ~Taken(m) /\ ~Sent(m) /\ ~Lost(m) /\ ~Own(m)
  \/ ~Queued(m) /\ Taken(m) /\ ~Sent(m) /\ ~Lost(m) /\ ~Own(m)
  \/ ~Queued(m) /\ ~Taken(m) /\ Sent(m) /\ ~Lost(m) /\ ~Own(m)
  \/ ~Queued(m) /\ ~Taken(m) /\ ~Sent(m) /\ Lost(m) /\ ~Own(m)
  \/ ~Queued(m) /\ ~Taken(m) /\ ~Sent(m) /\ ~Lost(m) /\ Own(m)

\* A message is in one place, and only once in it; a task has taken messages
\* only while it takes them, and the queue still holds as many as it will take.
PlaceInv ==
  ~stolen =>
    /\ ~garbled
    /\ IsInjective(queue) /\ IsInjective(sent)
    /\ \A t \in Msg :
         /\ IsInjective(task[t].taken)
         /\ task[t].pc # "take" => task[t].taken = << >>
         /\ task[t].pc = "take" =>
              /\ Len(task[t].taken) <= task[t].n
              /\ task[t].n <= Len(task[t].taken) + Len(queue)
    /\ \A m \in Msg : InOneOf(m)

Before(seq, y, x) == \A i, j \in DOMAIN seq : seq[j] = y /\ seq[i] = x => j < i

\* y, stored before the task of x looked, stays in front of x: in the queue, in
\* what a task has taken, and on the wire.
InFront(y, x) ==
  /\ ~Own(y)
  /\ task[x].pc \notin {"idle", "direct", "sendOwn"}
  /\ Before(queue, y, x)
  /\ Before(sent, y, x)
  /\ \A t \in Msg : Before(task[t].taken, y, x)
  /\ Taken(x) => ~Queued(y)
  /\ Sent(x) => ~Queued(y) /\ ~Taken(y)

OrderInv == ~stolen => \A x \in Msg : \A y \in ahead[x] : InFront(y, x)
=============================================================================
