--------------------------- MODULE PlcSendProofs ---------------------------
(***************************************************************************)
(* An outgoing port of the PLC, for any set of messages and any size of a  *)
(* batch, until the connector unlocks the mutex of another thread: one     *)
(* thread at a time uses the port, every message is in one place, and what *)
(* was stored first goes out first.                                        *)
(***************************************************************************)
EXTENDS PlcSend, FiniteSetTheorems, SequenceTheorems, TLAPS

\* The limited size of a batch is one.
LEMMA BatchSizeType ==
  ASSUME NEW l \in Nat
  PROVE  BatchSize(l) \in 0 .. BatchMax
BY PlcSendAssumption DEF BatchSize

\* SendData leaves the wire well typed.
LEMMA SendDataType ==
  ASSUME TypeOK, NEW batch \in Seq(Msg), SendData(batch)
  PROVE  /\ link' \in {"up", "broken", "down"}
         /\ sent' \in Seq(Msg)
         /\ lost' \subseteq Msg
<1>1. ToSet(batch) \subseteq Msg
  BY DEF ToSet
<1>2. CASE link = "up"
  <2>1. sent \o batch \in Seq(Msg)
    BY DEF TypeOK
  <2> QED BY <1>2, <2>1 DEF TypeOK, SendData
<1>3. CASE link # "up"
  <2>1. lost' \subseteq Msg /\ sent' = sent
    BY <1>1, <1>3 DEF TypeOK, SendData
  <2> QED BY <1>3, <2>1 DEF TypeOK, SendData
<1> QED BY <1>2, <1>3

\* At the start the port is free.
LEMMA InitPortInv == Init => PortInv
<1> SUFFICES ASSUME Init PROVE PortInv
  OBVIOUS
<1>1. task \in [Msg -> [pc : Pc, n : 0 .. BatchMax, taken : Seq(Msg)]]
  BY PlcSendAssumption DEF Init, Pc
<1>2. ahead \in [Msg -> SUBSET Msg] /\ << >> \in Seq(Msg)
  BY DEF Init
<1>3. TypeOK
  <2> HIDE DEF Pc
  <2> QED BY <1>1, <1>2 DEF Init, TypeOK
<1> QED
  BY <1>3 DEF Init, PortInv, PortIsLocked, PortIsExclusive, HoldsPort, ConnHoldsPort

\* A task goes to a place that it has.
LEMMA GotoType ==
  ASSUME TypeOK, NEW m \in Msg, NEW pc \in Pc, Goto(m, pc)
  PROVE  task' \in [Msg -> [pc : Pc, n : 0 .. BatchMax, taken : Seq(Msg)]]
BY DEF TypeOK, Goto

\* So does one that changes what it has taken or will take.
LEMMA RecordType ==
  ASSUME TypeOK, NEW m \in Msg, NEW r,
         r \in [pc : Pc, n : 0 .. BatchMax, taken : Seq(Msg)],
         task' = [task EXCEPT ![m] = r]
  PROVE  task' \in [Msg -> [pc : Pc, n : 0 .. BatchMax, taken : Seq(Msg)]]
<1> DEFINE R == [pc : Pc, n : 0 .. BatchMax, taken : Seq(Msg)]
<1>1. task \in [Msg -> R] /\ r \in R
  BY DEF TypeOK
<1> HIDE DEF R
<1>2. task' \in [Msg -> R]
  BY <1>1
<1> QED BY <1>2 DEF R

\* A step of a task keeps every variable in its type.
LEMMA TaskType ==
  ASSUME TypeOK, NEW m \in Msg, LookAtQueue(m) \/ TaskStep(m)
  PROVE  TypeOK'
<1> USE DEF Pc, wire, ghosts
<1>1. CASE LookAtQueue(m)
  <2>1. ToSet(queue) \subseteq Msg
    BY DEF TypeOK, ToSet
  <2>2. task' \in [Msg -> [pc : Pc, n : 0 .. BatchMax, taken : Seq(Msg)]]
    <3>1. Goto(m, "direct") \/ Goto(m, "behind")
      BY <1>1 DEF LookAtQueue
    <3> QED BY <3>1, GotoType
  <2>3. ahead' \in [Msg -> SUBSET Msg]
    BY <1>1, <2>1 DEF LookAtQueue, TypeOK
  <2> QED BY <1>1, <2>2, <2>3 DEF LookAtQueue, TypeOK
<1>2. CASE TryDirect(m)
  <2>1. task' \in [Msg -> [pc : Pc, n : 0 .. BatchMax, taken : Seq(Msg)]]
    <3>1. Goto(m, "sendOwn") \/ Goto(m, "done")
      BY <1>2 DEF TryDirect
    <3> QED BY <3>1, GotoType
  <2>2. Append(queue, m) \in Seq(Msg)
    BY DEF TypeOK
  <2>3. queue' \in Seq(Msg) /\ locked' \in BOOLEAN
    BY <1>2, <2>2 DEF TryDirect, TypeOK
  <2> QED BY <1>2, <2>1, <2>3 DEF TryDirect, TypeOK
<1>3. CASE SendOwn(m)
  <2>1. <<m>> \in Seq(Msg)
    OBVIOUS
  <2>2. /\ link' \in {"up", "broken", "down"}
        /\ sent' \in Seq(Msg)
        /\ lost' \subseteq Msg
    BY <1>3, <2>1, SendDataType DEF SendOwn
  <2>3. task' \in [Msg -> [pc : Pc, n : 0 .. BatchMax, taken : Seq(Msg)]]
    <3>1. Goto(m, "unlock")
      BY <1>3 DEF SendOwn
    <3> QED BY <3>1, GotoType
  <2> QED BY <1>3, <2>2, <2>3 DEF SendOwn, TypeOK
<1>4. CASE StoreBehind(m)
  <2>1. task' \in [Msg -> [pc : Pc, n : 0 .. BatchMax, taken : Seq(Msg)]]
    <3>1. Goto(m, "try")
      BY <1>4 DEF StoreBehind
    <3> QED BY <3>1, GotoType
  <2>2. queue' \in Seq(Msg)
    BY <1>4 DEF StoreBehind, TypeOK
  <2> QED BY <1>4, <2>1, <2>2 DEF StoreBehind, TypeOK
<1>5. CASE TryBehind(m)
  <2>1. Goto(m, "size") \/ Goto(m, "done")
    BY <1>5 DEF TryBehind
  <2>2. task' \in [Msg -> [pc : Pc, n : 0 .. BatchMax, taken : Seq(Msg)]]
    BY <2>1, GotoType
  <2> HIDE DEF Pc
  <2> QED BY <1>5, <2>2 DEF TryBehind, TypeOK
<1>6. CASE TakeSize(m)
  <2>1. BatchSize(Len(queue)) \in 0 .. BatchMax
    BY BatchSizeType DEF TypeOK
  <2> DEFINE r == [task[m] EXCEPT !.n = BatchSize(Len(queue)), !.pc = "take"]
  <2>2. task[m] \in [pc : Pc, n : 0 .. BatchMax, taken : Seq(Msg)]
    BY DEF TypeOK
  <2>3. r \in [pc : Pc, n : 0 .. BatchMax, taken : Seq(Msg)]
    BY <2>1, <2>2
  <2>4. task' = [task EXCEPT ![m] = r]
    BY <1>6 DEF TakeSize
  <2> HIDE DEF r, Pc
  <2>5. task' \in [Msg -> [pc : Pc, n : 0 .. BatchMax, taken : Seq(Msg)]]
    BY <2>3, <2>4, RecordType
  <2> QED BY <1>6, <2>5 DEF TakeSize, TypeOK
<1>7. CASE TakeOne(m)
  <2>1. task[m] \in [pc : Pc, n : 0 .. BatchMax, taken : Seq(Msg)]
    BY DEF TypeOK
  <2>2. CASE queue = << >>
    <3>1. Len(task[m].taken) \in 0 .. BatchMax
      BY <1>7, <2>1, PlcSendAssumption DEF TakeOne
    <3> DEFINE r == [task[m] EXCEPT !.n = Len(task[m].taken)]
    <3>2. r \in [pc : Pc, n : 0 .. BatchMax, taken : Seq(Msg)]
      <4> HIDE DEF Pc
      <4> QED BY <2>1, <3>1
    <3>3. task' = [task EXCEPT ![m] = r]
      BY <1>7, <2>2 DEF TakeOne
    <3> HIDE DEF r, Pc
    <3>4. task' \in [Msg -> [pc : Pc, n : 0 .. BatchMax, taken : Seq(Msg)]]
      BY <3>2, <3>3, RecordType
    <3> QED BY <1>7, <2>2, <3>4 DEF TakeOne, TypeOK
  <2>3. CASE queue # << >>
    <3>1. Head(queue) \in Msg /\ Tail(queue) \in Seq(Msg)
      BY <2>3 DEF TypeOK
    <3>2. Append(task[m].taken, Head(queue)) \in Seq(Msg)
      BY <2>1, <3>1
    <3>3. task' = [task EXCEPT ![m] = [task[m] EXCEPT
                     !.taken = Append(task[m].taken, Head(queue))]]
      BY <1>7, <2>3 DEF TakeOne
    <3> DEFINE moved == [task[m] EXCEPT !.taken = Append(task[m].taken, Head(queue))]
    <3>4. moved \in [pc : Pc, n : 0 .. BatchMax, taken : Seq(Msg)]
      <4> HIDE DEF Pc
      <4> QED BY <2>1, <3>2
    <3> HIDE DEF moved, Pc
    <3>5. task' \in [Msg -> [pc : Pc, n : 0 .. BatchMax, taken : Seq(Msg)]]
      BY <3>3, <3>4, RecordType DEF moved
    <3> QED BY <1>7, <2>3, <3>1, <3>5 DEF TakeOne, TypeOK
  <2> QED BY <2>2, <2>3
<1>8. CASE SendBatch(m)
  <2>1. task[m].taken \in Seq(Msg)
    BY DEF TypeOK
  <2>2. /\ link' \in {"up", "broken", "down"}
        /\ sent' \in Seq(Msg)
        /\ lost' \subseteq Msg
    BY <1>8, <2>1, SendDataType DEF SendBatch
  <2>3. task' \in [Msg -> [pc : Pc, n : 0 .. BatchMax, taken : Seq(Msg)]]
    <3>1. << >> \in Seq(Msg) /\ 0 \in 0 .. BatchMax /\ "unlock" \in Pc
      BY PlcSendAssumption
    <3> DEFINE r == [task[m] EXCEPT !.taken = << >>, !.n = 0, !.pc = "unlock"]
    <3> HIDE DEF Pc
    <3>2. task[m] \in [pc : Pc, n : 0 .. BatchMax, taken : Seq(Msg)]
      BY DEF TypeOK
    <3>3. r \in [pc : Pc, n : 0 .. BatchMax, taken : Seq(Msg)]
      BY <3>1, <3>2
    <3>4. task' = [task EXCEPT ![m] = r]
      BY <1>8 DEF SendBatch
    <3> HIDE DEF r
    <3> QED BY <3>3, <3>4, RecordType
  <2> QED BY <1>8, <2>2, <2>3 DEF SendBatch, TypeOK
<1>9. CASE Unlock(m)
  <2>1. task' \in [Msg -> [pc : Pc, n : 0 .. BatchMax, taken : Seq(Msg)]]
    BY <1>9, GotoType DEF Unlock
  <2> HIDE DEF Pc
  <2> QED BY <1>9, <2>1 DEF Unlock, TypeOK
<1> QED
  BY <1>1, <1>2, <1>3, <1>4, <1>5, <1>6, <1>7, <1>8, <1>9 DEF TaskStep

\* A step of the link or of the connector keeps every variable in its type.
LEMMA ConnType ==
  ASSUME TypeOK, LinkBreaks \/ TcpConnect \/ ConnStep \/ TcpDisconnect
  PROVE  TypeOK'
BY DEF TypeOK, LinkBreaks, TcpConnect, ConnStep, ConnTryLock, ConnCheck,
       ConnUnlock, ConnAgain, TcpDisconnect, wire, ghosts

\* A step of a task keeps the port with one user.  A task that enters finds the
\* mutex free, so that nobody is in; one that unlocks was the only user.
LEMMA TaskExclusive ==
  ASSUME PortInv, NEW m \in Msg, LookAtQueue(m) \/ TaskStep(m)
  PROVE  PortIsLocked' /\ PortIsExclusive'
<1> USE DEF PortInv, HoldsPort, ConnHoldsPort, PortIsLocked, PortIsExclusive
<1>1. /\ task \in [Msg -> [pc : Pc, n : 0 .. BatchMax, taken : Seq(Msg)]]
      /\ \A k \in Msg \ {m} : task'[k].pc = task[k].pc
      /\ UNCHANGED <<connector, stolen>>
  BY DEF TypeOK, LookAtQueue, TaskStep, TryDirect, SendOwn, StoreBehind, TryBehind,
         TakeSize, TakeOne, SendBatch, Unlock, Goto, ghosts
<1>2. CASE TryDirect(m) \/ TryBehind(m)
  <2>1. \/ ~HoldsPort(m)' /\ locked' = locked
        \/ ~locked /\ locked'
    BY <1>1, <1>2 DEF TryDirect, TryBehind, Free, Goto
  <2> QED BY <1>1, <2>1
<1>3. CASE Unlock(m)
  <2>1. HoldsPort(m) /\ ~HoldsPort(m)'
    BY <1>1, <1>3 DEF Unlock, Goto
  <2> QED BY <1>1, <2>1
<1>4. CASE LookAtQueue(m) \/ StoreBehind(m)
  <2>1. ~HoldsPort(m)' /\ locked' = locked
    BY <1>1, <1>4 DEF LookAtQueue, StoreBehind, Goto
  <2> QED BY <1>1, <2>1
<1>5. CASE SendOwn(m) \/ TakeSize(m) \/ TakeOne(m) \/ SendBatch(m)
  <2>1. HoldsPort(m) /\ locked' = locked
    BY <1>1, <1>5 DEF SendOwn, TakeSize, TakeOne, SendBatch
  <2> QED BY <1>1, <2>1
<1> QED
  BY <1>2, <1>3, <1>4, <1>5 DEF TaskStep

\* A step of the link or of the connector keeps the port with one user, unless
\* the mutex of a task is unlocked, which stolen remembers.
LEMMA ConnExclusive ==
  ASSUME PortInv, LinkBreaks \/ TcpConnect \/ ConnStep \/ TcpDisconnect
  PROVE  PortIsLocked' /\ PortIsExclusive'
<1> USE DEF PortInv, HoldsPort, ConnHoldsPort, PortIsLocked, PortIsExclusive
<1>1. task' = task
  BY DEF LinkBreaks, TcpConnect, ConnStep, ConnTryLock, ConnCheck, ConnUnlock,
         ConnAgain, TcpDisconnect
<1>2. CASE LinkBreaks \/ TcpConnect \/ ConnAgain \/ TcpDisconnect
  BY <1>1, <1>2 DEF LinkBreaks, TcpConnect, ConnAgain, TcpDisconnect, ghosts
<1>3. CASE ConnTryLock
  BY <1>1, <1>3 DEF ConnTryLock, ghosts
<1>4. CASE ConnCheck
  BY <1>1, <1>4 DEF ConnCheck, ghosts
<1>5. CASE ConnUnlock
  BY <1>1, <1>5 DEF ConnUnlock
<1> QED
  BY <1>2, <1>3, <1>4, <1>5 DEF ConnStep

\* Every step keeps the inductive invariant.
LEMMA NextPortInv == PortInv /\ [Next]_vars => PortInv'
<1> SUFFICES ASSUME PortInv, [Next]_vars PROVE PortInv'
  OBVIOUS
<1>1. ASSUME NEW m \in Msg, LookAtQueue(m) \/ TaskStep(m) PROVE PortInv'
  BY <1>1, TaskType, TaskExclusive DEF PortInv
<1>2. CASE LinkBreaks \/ TcpConnect \/ ConnStep \/ TcpDisconnect
  BY <1>2, ConnType, ConnExclusive DEF PortInv
<1>3. CASE UNCHANGED vars
  BY <1>3 DEF vars, PortInv, TypeOK, PortIsLocked, PortIsExclusive, HoldsPort,
              ConnHoldsPort
<1> QED
  BY <1>1, <1>2, <1>3 DEF Next

\* The inductive invariant of the port holds in every reachable state.
THEOREM PortInvariant == Spec => []PortInv
<1> QED BY InitPortInv, NextPortInv, PTL DEF Spec

\* Every variable of the port has its type.
THEOREM TypeCorrect == Spec => []TypeOK
<1>1. PortInv => TypeOK
  BY DEF PortInv
<1> QED BY <1>1, PortInvariant, PTL

\* As long as the connector has not unlocked a mutex that a task held, one
\* thread at a time uses the socket or takes from the queue.
THEOREM PortHasOneUser == Spec => []PortIsExclusive
<1>1. PortInv => PortIsExclusive
  BY DEF PortInv
<1> QED BY <1>1, PortInvariant, PTL
-----------------------------------------------------------------------------
(* Sequences without repeats.                                              *)

\* Appending a new element adds it to the set and repeats none.
LEMMA AppendSet ==
  ASSUME NEW S, NEW q \in Seq(S), NEW e \in S
  PROVE  /\ ToSet(Append(q, e)) = ToSet(q) \cup {e}
         /\ IsInjective(q) /\ e \notin ToSet(q) => IsInjective(Append(q, e))
<1>1. /\ Len(q) \in Nat /\ DOMAIN q = 1 .. Len(q)
      /\ DOMAIN Append(q, e) = 1 .. Len(q) + 1
      /\ \A i \in 1 .. Len(q) : Append(q, e)[i] = q[i]
      /\ Append(q, e)[Len(q) + 1] = e
  OBVIOUS
<1>2. \A i \in 1 .. Len(q) + 1 : i \in 1 .. Len(q) \/ i = Len(q) + 1
  BY <1>1, SMT
<1>3. 1 .. Len(q) \subseteq 1 .. Len(q) + 1 /\ Len(q) + 1 \in 1 .. Len(q) + 1
  BY <1>1, SMT
<1>4. ToSet(Append(q, e)) = ToSet(q) \cup {e}
  BY <1>1, <1>2, <1>3, Zenon DEF ToSet
<1>5. ASSUME IsInjective(q), e \notin ToSet(q)
      PROVE  IsInjective(Append(q, e))
  BY <1>1, <1>2, <1>5, Zenon DEF ToSet, IsInjective
<1> QED BY <1>4, <1>5

\* Two sequences one after the other.
LEMMA ConcatSet ==
  ASSUME NEW S, NEW q \in Seq(S), NEW t \in Seq(S)
  PROVE  /\ ToSet(q \o t) = ToSet(q) \cup ToSet(t)
         /\ IsInjective(q) /\ IsInjective(t) /\ ToSet(q) \cap ToSet(t) = {}
              => IsInjective(q \o t)
<1>1. /\ Len(q) \in Nat /\ DOMAIN q = 1 .. Len(q)
      /\ Len(t) \in Nat /\ DOMAIN t = 1 .. Len(t)
      /\ DOMAIN (q \o t) = 1 .. Len(q) + Len(t)
      /\ \A i \in 1 .. Len(q) : (q \o t)[i] = q[i]
      /\ \A i \in 1 .. Len(q) + Len(t) :
           i > Len(q) => (q \o t)[i] = t[i - Len(q)]
  OBVIOUS
<1>2. \A i \in 1 .. Len(q) + Len(t) :
        \/ i \in 1 .. Len(q) /\ (q \o t)[i] = q[i]
        \/ i - Len(q) \in 1 .. Len(t) /\ (q \o t)[i] = t[i - Len(q)]
  BY <1>1, SMT
<1>3. \A i \in 1 .. Len(q) : i \in 1 .. Len(q) + Len(t)
  BY <1>1, SMT
<1>4. \A i \in 1 .. Len(t) : /\ i + Len(q) \in 1 .. Len(q) + Len(t)
                             /\ (q \o t)[i + Len(q)] = t[i]
  BY <1>1, SMT
<1>5. ToSet(q \o t) = ToSet(q) \cup ToSet(t)
  <2>1. ToSet(q \o t) \subseteq ToSet(q) \cup ToSet(t)
    BY <1>1, <1>2, Zenon DEF ToSet
  <2>2. ToSet(q) \subseteq ToSet(q \o t)
    BY <1>1, <1>3, Zenon DEF ToSet
  <2>3. ToSet(t) \subseteq ToSet(q \o t)
    <3> SUFFICES ASSUME NEW i \in 1 .. Len(t)
                 PROVE  t[i] \in ToSet(q \o t)
      BY <1>1, Zenon DEF ToSet
    <3> QED BY <1>1, <1>4, Zenon DEF ToSet
  <2> QED BY <2>1, <2>2, <2>3
<1>6. ASSUME IsInjective(q), IsInjective(t), ToSet(q) \cap ToSet(t) = {}
      PROVE  IsInjective(q \o t)
  <2> SUFFICES ASSUME NEW i \in 1 .. Len(q) + Len(t),
                      NEW j \in 1 .. Len(q) + Len(t),
                      (q \o t)[i] = (q \o t)[j]
               PROVE  i = j
    BY <1>1, Zenon DEF IsInjective
  <2>1. \A a \in 1 .. Len(q), b \in 1 .. Len(t) : q[a] # t[b]
    BY <1>1, <1>6, Zenon DEF ToSet
  <2>2. CASE i \in 1 .. Len(q) /\ j \in 1 .. Len(q)
    BY <1>1, <1>6, <2>2, Zenon DEF IsInjective
  <2>3. CASE i - Len(q) \in 1 .. Len(t) /\ j - Len(q) \in 1 .. Len(t)
    <3>1. t[i - Len(q)] = t[j - Len(q)]
      BY <1>1, <2>3, SMT
    <3>2. i - Len(q) = j - Len(q)
      BY <1>1, <1>6, <2>3, <3>1 DEF IsInjective
    <3> QED BY <1>1, <3>2, SMT
  <2> QED BY <1>2, <2>1, <2>2, <2>3, Zenon
<1> QED BY <1>5, <1>6
\* Taking the head off a sequence without repeats.
LEMMA TailSet ==
  ASSUME NEW S, NEW q \in Seq(S), q # << >>, IsInjective(q)
  PROVE  /\ Tail(q) \in Seq(S) /\ Head(q) \in S /\ Len(Tail(q)) = Len(q) - 1
         /\ IsInjective(Tail(q))
         /\ ToSet(Tail(q)) = ToSet(q) \ {Head(q)}
         /\ Head(q) \in ToSet(q)
<1>1. /\ Len(q) \in Nat /\ Len(q) # 0 /\ DOMAIN q = 1 .. Len(q)
      /\ Tail(q) \in Seq(S) /\ Head(q) \in S /\ Len(Tail(q)) = Len(q) - 1
      /\ Head(q) = q[1]
      /\ \A i \in 1 .. Len(q) - 1 : Tail(q)[i] = q[i + 1]
  <2>1. Len(q) \in Nat /\ Len(q) # 0 /\ DOMAIN q = 1 .. Len(q)
    BY EmptySeq, LenProperties
  <2>2. /\ Tail(q) \in Seq(S) /\ Head(q) \in S /\ Len(Tail(q)) = Len(q) - 1
        /\ \A i \in 1 .. Len(Tail(q)) : Tail(q)[i] = q[i + 1]
    BY HeadTailProperties
  <2>3. Head(q) = q[1]
    OBVIOUS
  <2> QED BY <2>1, <2>2, <2>3
<1>2. DOMAIN Tail(q) = 1 .. Len(q) - 1
  BY <1>1, LenProperties
<1>3. \A i \in 1 .. Len(q) - 1 : i + 1 \in 1 .. Len(q) /\ i + 1 # 1
  BY <1>1, SMT
<1>4. \A i \in 1 .. Len(q) : i = 1 \/ (i - 1 \in 1 .. Len(q) - 1 /\ Tail(q)[i - 1] = q[i])
  BY <1>1, SMT
<1>5. 1 \in 1 .. Len(q)
  BY <1>1, SMT
<1>6. IsInjective(Tail(q))
  <2> SUFFICES ASSUME NEW i \in 1 .. Len(q) - 1, NEW j \in 1 .. Len(q) - 1,
                      Tail(q)[i] = Tail(q)[j]
               PROVE  i = j
    BY <1>2, Zenon DEF IsInjective
  <2>1. q[i + 1] = q[j + 1]
    BY <1>1
  <2>2. i + 1 = j + 1
    BY <1>1, <1>3, <2>1, Zenon DEF IsInjective
  <2> QED BY <1>1, <2>2, SMT
<1>7. ToSet(Tail(q)) \subseteq ToSet(q)
  BY <1>1, <1>2, <1>3, Zenon DEF ToSet
<1>8. q[1] \notin ToSet(Tail(q))
  <2> SUFFICES ASSUME NEW i \in 1 .. Len(q) - 1, Tail(q)[i] = q[1]
               PROVE  FALSE
    BY <1>2, Zenon DEF ToSet
  <2>1. q[i + 1] = q[1]
    BY <1>1
  <2>2. i + 1 = 1
    BY <1>1, <1>3, <1>5, <2>1, Zenon DEF IsInjective
  <2> QED BY <1>3, <2>2
<1>9. ToSet(q) \subseteq ToSet(Tail(q)) \cup {q[1]}
  <2> SUFFICES ASSUME NEW i \in 1 .. Len(q)
               PROVE  q[i] \in ToSet(Tail(q)) \cup {q[1]}
    BY <1>1, Zenon DEF ToSet
  <2>1. CASE i = 1
    BY <2>1
  <2>2. CASE i - 1 \in 1 .. Len(q) - 1 /\ Tail(q)[i - 1] = q[i]
    BY <1>2, <2>2, Zenon DEF ToSet
  <2> QED BY <1>4, <2>1, <2>2
<1>10. q[1] \in ToSet(q)
  BY <1>1, <1>5, Zenon DEF ToSet
<1>11. ToSet(Tail(q)) = ToSet(q) \ {q[1]}
  BY <1>7, <1>8, <1>9, Zenon
<1> QED BY <1>1, <1>6, <1>10, <1>11
-----------------------------------------------------------------------------
(* Every message in one place.                                             *)

Tasks == [Msg -> [pc : Pc, n : 0 .. BatchMax, taken : Seq(Msg)]]

\* PlaceInv, while no mutex has been stolen.
PlacesKept ==
  /\ ~garbled
  /\ IsInjective(queue) /\ IsInjective(sent)
  /\ \A t \in Msg :
       /\ IsInjective(task[t].taken)
       /\ task[t].pc # "take" => task[t].taken = << >>
       /\ task[t].pc = "take" =>
            /\ Len(task[t].taken) <= task[t].n
            /\ task[t].n <= Len(task[t].taken) + Len(queue)
  /\ \A m \in Msg : InOneOf(m)

\* The invariant says this up to the first unlock of another's mutex.
LEMMA PlacesKeptIs == PlaceInv <=> (~stolen => PlacesKept)
BY Zenon DEF PlaceInv, PlacesKept

\* What a step does to the field pc of one task and to the others.
LEMMA GotoFrame ==
  ASSUME TypeOK, NEW t \in Msg, NEW pc, Goto(t, pc)
  PROVE  /\ task'[t].pc = pc
         /\ \A u \in Msg : u # t => task'[u] = task[u]
         /\ \A u \in Msg : task'[u].taken = task[u].taken /\ task'[u].n = task[u].n
         /\ \A m \in Msg : Taken(m)' <=> Taken(m)
<1>1. task \in Tasks
  BY DEF TypeOK, Tasks
<1>2. task'[t] = [task[t] EXCEPT !.pc = pc] /\ \A u \in Msg : u # t => task'[u] = task[u]
  BY <1>1 DEF Goto, Tasks
<1>3. task[t] \in [pc : Pc, n : 0 .. BatchMax, taken : Seq(Msg)]
  BY <1>1 DEF Tasks
<1>4. task'[t].pc = pc /\ task'[t].taken = task[t].taken /\ task'[t].n = task[t].n
  BY <1>2, <1>3
<1>5. \A u \in Msg : task'[u].taken = task[u].taken /\ task'[u].n = task[u].n
  BY <1>2, <1>4
<1>6. \A m \in Msg : Taken(m)' <=> Taken(m)
  BY <1>5, Zenon DEF Taken
<1> QED BY <1>2, <1>4, <1>5, <1>6

\* A task that only goes on, without taking or giving anything.
LEMMA GoOnPlace ==
  ASSUME TypeOK, PlacesKept, NEW t \in Msg, NEW pc, Goto(t, pc),
         task[t].pc # "take", pc # "take",
         Own(t) <=> pc \in {"idle", "direct", "sendOwn", "behind"},
         UNCHANGED <<queue, sent, lost, garbled>>
  PROVE  PlacesKept'
<1>1. /\ task'[t].pc = pc
      /\ \A u \in Msg : u # t => task'[u] = task[u]
      /\ \A u \in Msg : task'[u].taken = task[u].taken /\ task'[u].n = task[u].n
      /\ \A m \in Msg : Taken(m)' <=> Taken(m)
  BY GotoFrame
<1>2. \A m \in Msg : Own(m)' <=> Own(m)
  BY <1>1, Zenon DEF Own
<1>3. \A m \in Msg : /\ Queued(m)' <=> Queued(m)
                     /\ Sent(m)' <=> Sent(m)
                     /\ Lost(m)' <=> Lost(m)
  BY DEF Queued, Sent, Lost
<1>4. \A m \in Msg : InOneOf(m)'
  BY <1>1, <1>2, <1>3, Zenon DEF InOneOf, PlacesKept
<1>5. ASSUME NEW u \in Msg
      PROVE  /\ IsInjective(task'[u].taken)
             /\ task'[u].pc # "take" => task'[u].taken = << >>
             /\ task'[u].pc = "take" =>
                  /\ Len(task'[u].taken) <= task'[u].n
                  /\ task'[u].n <= Len(task'[u].taken) + Len(queue')
  <2>1. CASE u = t
    BY <1>1, <2>1 DEF PlacesKept
  <2>2. CASE u # t
    BY <1>1, <2>2 DEF PlacesKept
  <2> QED BY <2>1, <2>2
<1> QED BY <1>4, <1>5, Zenon DEF PlacesKept

\* A bound grows with one of its parts.
LEMMA OneMore ==
  ASSUME NEW a \in Nat, NEW b \in Nat, NEW c \in Nat, a <= b + c
  PROVE  a <= b + (c + 1)
OBVIOUS

\* A task that stores its own message at the end of the queue.
LEMMA StorePlace ==
  ASSUME TypeOK, PlacesKept, NEW t \in Msg, NEW pc, Goto(t, pc),
         Own(t), pc \in {"try", "done"}, queue' = Append(queue, t),
         UNCHANGED <<sent, lost, garbled>>
  PROVE  PlacesKept'
<1>1. /\ task'[t].pc = pc
      /\ \A u \in Msg : u # t => task'[u] = task[u]
      /\ \A u \in Msg : task'[u].taken = task[u].taken /\ task'[u].n = task[u].n
      /\ \A m \in Msg : Taken(m)' <=> Taken(m)
  BY GotoFrame
<1>2. /\ ~Own(t)' /\ \A m \in Msg : m # t => (Own(m)' <=> Own(m))
  BY <1>1 DEF Own
<1>3. t \notin ToSet(queue) /\ InOneOf(t)
  BY Zenon DEF PlacesKept, InOneOf, Queued
<1>4. /\ ToSet(queue') = ToSet(queue) \cup {t} /\ IsInjective(queue')
      /\ Len(queue') = Len(queue) + 1 /\ Len(queue) \in Nat
  <2>1. queue \in Seq(Msg) /\ IsInjective(queue)
    BY DEF TypeOK, PlacesKept
  <2> QED BY <1>3, <2>1, AppendSet
<1>5. \A m \in Msg : /\ Queued(m)' <=> Queued(m) \/ m = t
                     /\ Sent(m)' <=> Sent(m)
                     /\ Lost(m)' <=> Lost(m)
  BY <1>4 DEF Queued, Sent, Lost
<1>6. \A m \in Msg : InOneOf(m)'
  BY <1>1, <1>2, <1>5, Zenon DEF InOneOf, PlacesKept
<1>7. ASSUME NEW u \in Msg
      PROVE  /\ IsInjective(task'[u].taken)
             /\ task'[u].pc # "take" => task'[u].taken = << >>
             /\ task'[u].pc = "take" =>
                  /\ Len(task'[u].taken) <= task'[u].n
                  /\ task'[u].n <= Len(task'[u].taken) + Len(queue')
  <2>1. CASE u = t
    <3>1. task[t].pc # "take" /\ task'[t].pc # "take"
      BY <1>1 DEF Own
    <3> QED BY <1>1, <2>1, <3>1 DEF PlacesKept
  <2>2. CASE u # t
    <3>1. task'[u] = task[u]
      BY <1>1, <2>2
    <3>2. task[u].n \in Nat /\ Len(task[u].taken) \in Nat
      BY PlcSendAssumption DEF TypeOK
    <3>3. task[u].n <= Len(task[u].taken) + Len(queue)
            => task[u].n <= Len(task[u].taken) + (Len(queue) + 1)
      BY <1>4, <3>2, OneMore
    <3> QED BY <1>4, <3>1, <3>3 DEF PlacesKept
  <2> QED BY <2>1, <2>2
<1> QED BY <1>4, <1>6, <1>7, Zenon DEF PlacesKept
\* What a message handed to the socket becomes.
LEMMA SendDataPlaces ==
  ASSUME TypeOK, IsInjective(sent), NEW batch \in Seq(Msg), IsInjective(batch),
         ToSet(batch) \cap ToSet(sent) = {}, SendData(batch)
  PROVE  /\ IsInjective(sent')
         /\ \/ ToSet(sent') = ToSet(sent) \cup ToSet(batch) /\ lost' = lost
            \/ sent' = sent /\ lost' = lost \cup ToSet(batch)
<1>1. CASE link = "up"
  <2>1. sent \in Seq(Msg) /\ sent' = sent \o batch /\ lost' = lost
    BY <1>1 DEF TypeOK, SendData
  <2>2. ToSet(sent) \cap ToSet(batch) = {}
    OBVIOUS
  <2> QED BY <2>1, <2>2, ConcatSet
<1>2. CASE link # "up"
  BY <1>2 DEF SendData
<1> QED BY <1>1, <1>2

\* A message that goes out by itself leaves its task.
LEMMA SendOwnPlace ==
  ASSUME TypeOK, PlacesKept, NEW t \in Msg, SendOwn(t)
  PROVE  PlacesKept'
<1>1. /\ task[t].pc = "sendOwn" /\ SendData(<<t>>) /\ Goto(t, "unlock")
      /\ UNCHANGED <<queue, garbled>>
  BY DEF SendOwn, ghosts
<1>2. /\ task'[t].pc = "unlock"
      /\ \A u \in Msg : u # t => task'[u] = task[u]
      /\ \A u \in Msg : task'[u].taken = task[u].taken /\ task'[u].n = task[u].n
      /\ \A m \in Msg : Taken(m)' <=> Taken(m)
  BY <1>1, GotoFrame
<1>3. /\ Own(t) /\ ~Own(t)' /\ \A m \in Msg : m # t => (Own(m)' <=> Own(m))
  BY <1>1, <1>2 DEF Own
<1>4. t \notin ToSet(sent)
  BY <1>3, Zenon DEF PlacesKept, InOneOf, Sent
<1>5. /\ <<t>> \in Seq(Msg) /\ ToSet(<<t>>) = {t} /\ IsInjective(<<t>>)
  BY DEF ToSet, IsInjective
<1>6. /\ IsInjective(sent')
      /\ \/ ToSet(sent') = ToSet(sent) \cup {t} /\ lost' = lost
         \/ sent' = sent /\ lost' = lost \cup {t}
  <2>1. ToSet(<<t>>) \cap ToSet(sent) = {} /\ IsInjective(sent)
    BY <1>4, <1>5 DEF PlacesKept
  <2>2. /\ IsInjective(sent')
        /\ \/ ToSet(sent') = ToSet(sent) \cup ToSet(<<t>>) /\ lost' = lost
           \/ sent' = sent /\ lost' = lost \cup ToSet(<<t>>)
    BY <1>1, <1>5, <2>1, SendDataPlaces
  <2> QED BY <1>5, <2>2
<1>7. \A m \in Msg : Queued(m)' <=> Queued(m)
  BY <1>1 DEF Queued
<1>8. \A m \in Msg : InOneOf(m)'
  <2>1. CASE ToSet(sent') = ToSet(sent) \cup {t} /\ lost' = lost
    <3>1. \A m \in Msg : (Sent(m)' <=> Sent(m) \/ m = t) /\ (Lost(m)' <=> Lost(m))
      BY <2>1, Zenon DEF Sent, Lost
    <3> QED BY <1>2, <1>3, <1>7, <3>1, Zenon DEF InOneOf, PlacesKept
  <2>2. CASE sent' = sent /\ lost' = lost \cup {t}
    <3>1. \A m \in Msg : (Sent(m)' <=> Sent(m)) /\ (Lost(m)' <=> Lost(m) \/ m = t)
      BY <2>2, Zenon DEF Sent, Lost
    <3> QED BY <1>2, <1>3, <1>7, <3>1, Zenon DEF InOneOf, PlacesKept
  <2> QED BY <1>6, <2>1, <2>2
<1>9. ASSUME NEW u \in Msg
      PROVE  /\ IsInjective(task'[u].taken)
             /\ task'[u].pc # "take" => task'[u].taken = << >>
             /\ task'[u].pc = "take" =>
                  /\ Len(task'[u].taken) <= task'[u].n
                  /\ task'[u].n <= Len(task'[u].taken) + Len(queue')
  <2>1. CASE u = t
    BY <1>1, <1>2, <2>1 DEF PlacesKept
  <2>2. CASE u # t
    BY <1>1, <1>2, <2>2 DEF PlacesKept
  <2> QED BY <2>1, <2>2
<1> QED BY <1>1, <1>6, <1>8, <1>9, Zenon DEF PlacesKept

\* The size of the queue is taken, and no message moves.
LEMMA TakeSizePlace ==
  ASSUME TypeOK, PlacesKept, NEW t \in Msg, TakeSize(t)
  PROVE  PlacesKept'
<1>1. /\ task[t].pc = "size" /\ UNCHANGED <<queue, sent, lost, garbled>>
      /\ task' = [task EXCEPT ![t].n = BatchSize(Len(queue)), ![t].pc = "take"]
  BY DEF TakeSize, wire, ghosts
<1>2. task \in Tasks /\ queue \in Seq(Msg) /\ Len(queue) \in Nat
  BY DEF TypeOK, Tasks
<1>3. /\ task'[t].pc = "take" /\ task'[t].n = BatchSize(Len(queue))
      /\ task'[t].taken = task[t].taken
      /\ \A u \in Msg : u # t => task'[u] = task[u]
  BY <1>1, <1>2 DEF Tasks
<1>4. /\ \A u \in Msg : task'[u].taken = task[u].taken
      /\ \A m \in Msg : Own(m)' <=> Own(m)
  BY <1>1, <1>3 DEF Own
<1>5. \A m \in Msg : /\ Queued(m)' <=> Queued(m)
                     /\ Sent(m)' <=> Sent(m)
                     /\ Lost(m)' <=> Lost(m)
                     /\ Taken(m)' <=> Taken(m)
  BY <1>1, <1>4, Zenon DEF Queued, Sent, Lost, Taken
<1>6. \A m \in Msg : InOneOf(m)'
  BY <1>4, <1>5, Zenon DEF InOneOf, PlacesKept
<1>7. ASSUME NEW u \in Msg
      PROVE  /\ IsInjective(task'[u].taken)
             /\ task'[u].pc # "take" => task'[u].taken = << >>
             /\ task'[u].pc = "take" =>
                  /\ Len(task'[u].taken) <= task'[u].n
                  /\ task'[u].n <= Len(task'[u].taken) + Len(queue')
  <2>1. CASE u = t
    <3>1. task[t].taken = << >> /\ IsInjective(task[t].taken)
      BY <1>1 DEF PlacesKept
    <3>2. Len(task'[t].taken) = 0
      BY <1>3, <3>1
    <3>3. 0 <= BatchSize(Len(queue)) /\ BatchSize(Len(queue)) <= 0 + Len(queue)
      BY <1>2, PlcSendAssumption DEF BatchSize
    <3> QED BY <1>1, <1>3, <2>1, <3>1, <3>2, <3>3
  <2>2. CASE u # t
    BY <1>1, <1>3, <2>2 DEF PlacesKept
  <2> QED BY <2>1, <2>2
<1> QED BY <1>1, <1>6, <1>7, Zenon DEF PlacesKept
\* The one user of the port.
OneUser == \A m1, m2 \in Msg : HoldsPort(m1) /\ HoldsPort(m2) => m1 = m2

\* What the task that takes one message moves.
LEMMA TakeOneMoves ==
  ASSUME TypeOK, PlacesKept, NEW t \in Msg, TakeOne(t)
  PROVE  /\ task[t].pc = "take" /\ queue # << >>
         /\ queue' = Tail(queue) /\ garbled' = garbled
         /\ UNCHANGED <<sent, lost, link>>
         /\ task'[t].pc = "take" /\ task'[t].n = task[t].n
         /\ task'[t].taken = Append(task[t].taken, Head(queue))
         /\ \A u \in Msg : u # t => task'[u] = task[u]
<1>1. /\ task[t].pc = "take" /\ Len(task[t].taken) < task[t].n
      /\ UNCHANGED <<sent, lost, link>>
  BY DEF TakeOne, wire
<1>2. /\ task \in Tasks /\ queue \in Seq(Msg)
      /\ Len(task[t].taken) \in Nat /\ task[t].n \in Nat
  BY DEF TypeOK, Tasks
<1>3. queue # << >>
  <2>1. task[t].n <= Len(task[t].taken) + Len(queue)
    BY <1>1 DEF PlacesKept
  <2> SUFFICES ASSUME queue = << >> PROVE FALSE
    OBVIOUS
  <2>2. Len(queue) = 0
    OBVIOUS
  <2> QED BY <1>1, <1>2, <2>1, <2>2
<1>4. /\ task' = [task EXCEPT ![t].taken = Append(@, Head(queue))]
      /\ queue' = Tail(queue) /\ garbled' = garbled
  BY <1>3 DEF TakeOne
<1>5. /\ task'[t].pc = task[t].pc /\ task'[t].n = task[t].n
      /\ task'[t].taken = Append(task[t].taken, Head(queue))
      /\ \A u \in Msg : u # t => task'[u] = task[u]
  BY <1>2, <1>4 DEF Tasks
<1> QED BY <1>1, <1>3, <1>4, <1>5

\* A stored message goes from the queue into the batch.
LEMMA TakeOnePlace ==
  ASSUME TypeOK, PlacesKept, OneUser, NEW t \in Msg, TakeOne(t)
  PROVE  PlacesKept'
<1> DEFINE h == Head(queue)
<1>1. /\ task[t].pc = "take" /\ queue # << >>
      /\ queue' = Tail(queue) /\ garbled' = garbled
      /\ UNCHANGED <<sent, lost, link>>
      /\ task'[t].pc = "take" /\ task'[t].n = task[t].n
      /\ task'[t].taken = Append(task[t].taken, h)
      /\ \A u \in Msg : u # t => task'[u] = task[u]
  BY TakeOneMoves
<1>2. /\ queue \in Seq(Msg) /\ task[t].taken \in Seq(Msg)
      /\ IsInjective(queue) /\ IsInjective(task[t].taken)
      /\ Len(task[t].taken) \in Nat /\ task[t].n \in Nat /\ Len(queue) \in Nat
  BY DEF TypeOK, PlacesKept
<1>3. /\ h \in Msg /\ Len(queue') = Len(queue) - 1 /\ IsInjective(queue')
      /\ ToSet(queue') = ToSet(queue) \ {h} /\ h \in ToSet(queue)
  BY <1>1, <1>2, TailSet
<1> HIDE DEF h
<1>4. Queued(h) /\ ~Taken(h)
  BY <1>3, Zenon DEF Queued, PlacesKept, InOneOf
<1>5. h \notin ToSet(task[t].taken)
  BY <1>4 DEF Taken
<1>6. /\ ToSet(task'[t].taken) = ToSet(task[t].taken) \cup {h}
      /\ IsInjective(task'[t].taken)
      /\ Len(task'[t].taken) = Len(task[t].taken) + 1
  BY <1>1, <1>2, <1>3, <1>5, AppendSet
<1>7. \A m \in Msg : /\ Queued(m)' <=> Queued(m) /\ m # h
                     /\ Sent(m)' <=> Sent(m)
                     /\ Lost(m)' <=> Lost(m)
                     /\ Own(m)' <=> Own(m)
  BY <1>1, <1>3 DEF Queued, Sent, Lost, Own
<1>8. \A m \in Msg : Taken(m)' <=> Taken(m) \/ m = h
  <2> SUFFICES ASSUME NEW m \in Msg PROVE Taken(m)' <=> Taken(m) \/ m = h
    OBVIOUS
  <2>1. Taken(m)' => Taken(m) \/ m = h
    BY <1>1, <1>6, Zenon DEF Taken
  <2>2. m = h => Taken(m)'
    BY <1>6, Zenon DEF Taken
  <2>3. Taken(m) => Taken(m)'
    BY <1>1, <1>6, Zenon DEF Taken
  <2> QED BY <2>1, <2>2, <2>3
<1>9. \A m \in Msg : InOneOf(m)'
  <2> SUFFICES ASSUME NEW m \in Msg PROVE InOneOf(m)'
    OBVIOUS
  <2>1. InOneOf(m)
    BY DEF PlacesKept
  <2>2. CASE m = h
    BY <1>4, <1>7, <1>8, <2>1, <2>2, Zenon DEF InOneOf
  <2>3. CASE m # h
    BY <1>7, <1>8, <2>1, <2>3, Zenon DEF InOneOf
  <2> QED BY <2>2, <2>3
<1>10. ASSUME NEW u \in Msg
      PROVE  /\ IsInjective(task'[u].taken)
             /\ task'[u].pc # "take" => task'[u].taken = << >>
             /\ task'[u].pc = "take" =>
                  /\ Len(task'[u].taken) <= task'[u].n
                  /\ task'[u].n <= Len(task'[u].taken) + Len(queue')
  <2>1. CASE u = t
    <3> DEFINE k == Len(task[t].taken)
               q == Len(queue)
               n == task[t].n
    <3>1. k < n /\ n <= k + q /\ k \in Nat /\ q \in Nat /\ n \in Nat
      BY <1>1, <1>2 DEF PlacesKept, TakeOne
    <3>2. Len(task'[t].taken) = k + 1 /\ Len(queue') = q - 1 /\ task'[t].n = n
      BY <1>1, <1>3, <1>6
    <3> HIDE DEF k, q, n
    <3>3. k + 1 <= n /\ n <= (k + 1) + (q - 1)
      BY <3>1, SMT
    <3> QED BY <1>1, <1>6, <2>1, <3>2, <3>3
  <2>2. CASE u # t
    <3>1. task[u].pc # "take" /\ task'[u] = task[u]
      BY <1>1, <2>2 DEF OneUser, HoldsPort
    <3> QED BY <3>1 DEF PlacesKept
  <2> QED BY <2>1, <2>2
<1> QED BY <1>1, <1>3, <1>7, <1>9, <1>10, Zenon DEF PlacesKept

\* What the task that sends a batch moves.
LEMMA SendBatchMoves ==
  ASSUME TypeOK, PlacesKept, OneUser, NEW t \in Msg, SendBatch(t)
  PROVE  /\ task[t].pc = "take" /\ UNCHANGED <<queue, garbled>>
         /\ SendData(task[t].taken)
         /\ task[t].taken \in Seq(Msg) /\ IsInjective(task[t].taken)
         /\ task'[t].pc = "unlock" /\ task'[t].taken = << >>
         /\ \A u \in Msg : u # t => /\ task'[u] = task[u] /\ task[u].pc # "take"
                                    /\ task[u].taken = << >>
         /\ \A m \in Msg : Taken(m) <=> m \in ToSet(task[t].taken)
         /\ \A m \in Msg : ~Taken(m)'
<1>1. /\ task[t].pc = "take" /\ UNCHANGED <<queue, garbled>>
      /\ SendData(task[t].taken)
      /\ task' = [task EXCEPT ![t].taken = << >>, ![t].n = 0, ![t].pc = "unlock"]
  BY DEF SendBatch, ghosts
<1>2. task \in Tasks /\ task[t].taken \in Seq(Msg) /\ IsInjective(task[t].taken)
  BY DEF TypeOK, Tasks, PlacesKept
<1>3. /\ task'[t].pc = "unlock" /\ task'[t].taken = << >>
      /\ \A u \in Msg : u # t => task'[u] = task[u]
  BY <1>1, <1>2 DEF Tasks
<1>4. \A u \in Msg : u # t => task[u].pc # "take" /\ task[u].taken = << >>
  BY <1>1 DEF OneUser, HoldsPort, PlacesKept
<1>5. ToSet(<< >>) = {}
  BY DEF ToSet
<1>6. \A m \in Msg : Taken(m) <=> m \in ToSet(task[t].taken)
  BY <1>4, <1>5 DEF Taken
<1>7. \A u \in Msg : task'[u].taken = << >>
  BY <1>3, <1>4
<1>8. \A m \in Msg : ~Taken(m)'
  BY <1>5, <1>7 DEF Taken
<1> QED BY <1>1, <1>2, <1>3, <1>4, <1>6, <1>8

\* The batch goes out, or is lost with the link.
LEMMA SendBatchPlace ==
  ASSUME TypeOK, PlacesKept, OneUser, NEW t \in Msg, SendBatch(t)
  PROVE  PlacesKept'
<1> DEFINE batch == task[t].taken
<1>1. /\ task[t].pc = "take" /\ UNCHANGED <<queue, garbled>> /\ SendData(batch)
      /\ batch \in Seq(Msg) /\ IsInjective(batch)
      /\ task'[t].pc = "unlock" /\ task'[t].taken = << >>
      /\ \A u \in Msg : u # t => /\ task'[u] = task[u] /\ task[u].pc # "take"
                                 /\ task[u].taken = << >>
      /\ \A m \in Msg : Taken(m) <=> m \in ToSet(batch)
      /\ \A m \in Msg : ~Taken(m)'
  BY SendBatchMoves
<1> HIDE DEF batch
<1>2. ToSet(batch) \cap ToSet(sent) = {}
  <2>1. ToSet(batch) \subseteq Msg
    BY <1>1 DEF ToSet
  <2>2. \A m \in Msg : Taken(m) => ~Sent(m)
    BY Zenon DEF PlacesKept, InOneOf
  <2> QED BY <1>1, <2>1, <2>2 DEF Sent
<1>3. /\ IsInjective(sent')
      /\ \/ ToSet(sent') = ToSet(sent) \cup ToSet(batch) /\ lost' = lost
         \/ sent' = sent /\ lost' = lost \cup ToSet(batch)
  <2>1. IsInjective(sent)
    BY DEF PlacesKept
  <2> QED BY <1>1, <1>2, <2>1, SendDataPlaces
<1>4. \A m \in Msg : (Queued(m)' <=> Queued(m)) /\ (Own(m)' <=> Own(m))
  <2>1. ~Own(t) /\ ~Own(t)' /\ \A m \in Msg : m # t => (Own(m)' <=> Own(m))
    BY <1>1 DEF Own
  <2> QED BY <1>1, <2>1 DEF Queued
<1>5. \A m \in Msg : InOneOf(m)'
  <2>1. CASE ToSet(sent') = ToSet(sent) \cup ToSet(batch) /\ lost' = lost
    <3>1. \A m \in Msg : (Sent(m)' <=> Sent(m) \/ Taken(m)) /\ (Lost(m)' <=> Lost(m))
      BY <1>1, <2>1, Zenon DEF Sent, Lost
    <3> QED BY <1>1, <1>4, <3>1, Zenon DEF InOneOf, PlacesKept
  <2>2. CASE sent' = sent /\ lost' = lost \cup ToSet(batch)
    <3>1. \A m \in Msg : (Sent(m)' <=> Sent(m)) /\ (Lost(m)' <=> Lost(m) \/ Taken(m))
      BY <1>1, <2>2, Zenon DEF Sent, Lost
    <3> QED BY <1>1, <1>4, <3>1, Zenon DEF InOneOf, PlacesKept
  <2> QED BY <1>3, <2>1, <2>2
<1>6. ASSUME NEW u \in Msg
      PROVE  /\ IsInjective(task'[u].taken)
             /\ task'[u].pc # "take" => task'[u].taken = << >>
             /\ task'[u].pc = "take" =>
                  /\ Len(task'[u].taken) <= task'[u].n
                  /\ task'[u].n <= Len(task'[u].taken) + Len(queue')
  <2>1. CASE u = t
    <3>1. IsInjective(<< >>)
      BY DEF IsInjective
    <3> QED BY <1>1, <2>1, <3>1
  <2>2. CASE u # t
    BY <1>1, <2>2 DEF PlacesKept
  <2> QED BY <2>1, <2>2
<1> QED BY <1>1, <1>3, <1>5, <1>6, Zenon DEF PlacesKept
\* A step of the link or of the connector moves no message.
LEMMA ConnPlace ==
  ASSUME PlacesKept, LinkBreaks \/ TcpConnect \/ ConnStep \/ TcpDisconnect
  PROVE  PlacesKept'
<1>1. UNCHANGED <<queue, task, sent, lost, garbled>>
  BY DEF LinkBreaks, TcpConnect, ConnStep, ConnTryLock, ConnCheck, ConnUnlock,
         ConnAgain, TcpDisconnect, wire, ghosts
<1> QED
  BY <1>1, Zenon DEF PlacesKept, InOneOf, Queued, Taken, Sent, Lost, Own

\* A step of a task keeps every message in one place.
LEMMA TaskPlace ==
  ASSUME TypeOK, PlacesKept, OneUser, NEW t \in Msg, LookAtQueue(t) \/ TaskStep(t)
  PROVE  PlacesKept'
<1>1. CASE LookAtQueue(t) \/ TryBehind(t) \/ Unlock(t)
  <2>1. /\ UNCHANGED <<queue, sent, lost, garbled>>
        /\ task[t].pc # "take"
        /\ \E pc : /\ pc # "take" /\ Goto(t, pc)
                   /\ Own(t) <=> pc \in {"idle", "direct", "sendOwn", "behind"}
    BY <1>1 DEF LookAtQueue, TryBehind, Unlock, Own, wire, ghosts
  <2> QED BY <2>1, GoOnPlace
<1>2. CASE TryDirect(t)
  <2>1. /\ task[t].pc = "direct" /\ Own(t) /\ UNCHANGED <<sent, lost, garbled>>
    BY <1>2 DEF TryDirect, Own, wire, ghosts
  <2>2. CASE Goto(t, "sendOwn") /\ queue' = queue
    BY <2>1, <2>2, GoOnPlace
  <2>3. CASE Goto(t, "done") /\ queue' = Append(queue, t)
    BY <2>1, <2>3, StorePlace
  <2> QED BY <1>2, <2>2, <2>3 DEF TryDirect
<1>3. CASE StoreBehind(t)
  <2>1. /\ Own(t) /\ UNCHANGED <<sent, lost, garbled>> /\ Goto(t, "try")
        /\ queue' = Append(queue, t)
    BY <1>3 DEF StoreBehind, Own, wire, ghosts
  <2> QED BY <2>1, StorePlace
<1>4. CASE SendOwn(t)
  BY <1>4, SendOwnPlace
<1>5. CASE TakeSize(t)
  BY <1>5, TakeSizePlace
<1>6. CASE TakeOne(t)
  BY <1>6, TakeOnePlace
<1>7. CASE SendBatch(t)
  BY <1>7, SendBatchPlace
<1> QED BY <1>1, <1>2, <1>3, <1>4, <1>5, <1>6, <1>7 DEF TaskStep

\* At first no message is anywhere.
LEMMA InitPlaces == Init => PlacesKept
<1> SUFFICES ASSUME Init PROVE PlacesKept
  OBVIOUS
<1>1. /\ ToSet(<< >>) = {} /\ IsInjective(<< >>)
  BY DEF ToSet, IsInjective
<1>2. /\ queue = << >> /\ sent = << >> /\ lost = {} /\ garbled = FALSE
      /\ \A u \in Msg : task[u].pc = "idle" /\ task[u].taken = << >>
  BY DEF Init
<1>3. \A m \in Msg : ~Queued(m) /\ ~Taken(m) /\ ~Sent(m) /\ ~Lost(m) /\ Own(m)
  BY <1>1, <1>2 DEF Queued, Taken, Sent, Lost, Own
<1> QED BY <1>1, <1>2, <1>3 DEF PlacesKept, InOneOf

\* A mutex once stolen is remembered.
LEMMA StolenStays == TypeOK /\ [Next]_vars /\ stolen => stolen'
<1> USE DEF ghosts
<1>1. ASSUME NEW m \in Msg, LookAtQueue(m) \/ TaskStep(m) PROVE stolen' = stolen
  BY <1>1 DEF LookAtQueue, TaskStep, TryDirect, SendOwn, StoreBehind, TryBehind,
              TakeSize, TakeOne, SendBatch, Unlock
<1>2. CASE LinkBreaks \/ TcpConnect \/ ConnStep \/ TcpDisconnect
  BY <1>2 DEF LinkBreaks, TcpConnect, ConnStep, ConnTryLock, ConnCheck, ConnUnlock,
              ConnAgain, TcpDisconnect
<1>3. CASE UNCHANGED vars
  BY <1>3 DEF vars
<1> QED BY <1>1, <1>2, <1>3 DEF Next

\* Each message is in one place and only once in it, and a task finds in the
\* queue all it counted.
THEOREM PlaceInvariant == Spec => []PlaceInv
<1>1. Init => PlaceInv
  BY InitPlaces, PlacesKeptIs
<1>2. PortInv /\ PlaceInv /\ [Next]_vars => PlaceInv'
  <2> SUFFICES ASSUME PortInv, PlaceInv, [Next]_vars, ~stolen' PROVE PlacesKept'
    BY Zenon DEF PlaceInv, PlacesKept
  <2>1. ~stolen /\ TypeOK /\ OneUser
    BY StolenStays DEF PortInv, PortIsExclusive, OneUser
  <2>2. PlacesKept
    BY <2>1, PlacesKeptIs
  <2>3. ASSUME NEW m \in Msg, LookAtQueue(m) \/ TaskStep(m) PROVE PlacesKept'
    BY <2>1, <2>2, <2>3, TaskPlace
  <2>4. CASE LinkBreaks \/ TcpConnect \/ ConnStep \/ TcpDisconnect
    BY <2>2, <2>4, ConnPlace
  <2>5. CASE UNCHANGED vars
    BY <2>2, <2>5, Zenon DEF vars, PlacesKept, InOneOf, Queued, Taken, Sent, Lost, Own
  <2> QED BY <2>3, <2>4, <2>5 DEF Next
<1> QED BY <1>1, <1>2, PortInvariant, PTL DEF Spec

\* The positions of an element of a sequence without repeats.
LEMMA OnePosition ==
  ASSUME NEW S, NEW q \in Seq(S), IsInjective(q), NEW e
  PROVE  /\ e \in ToSet(q) => \E i : {k \in DOMAIN q : q[k] = e} = {i}
         /\ e \notin ToSet(q) => {k \in DOMAIN q : q[k] = e} = {}
<1>1. ASSUME e \in ToSet(q)
      PROVE  \E i : {k \in DOMAIN q : q[k] = e} = {i}
  <2>1. PICK i \in DOMAIN q : q[i] = e
    BY <1>1 DEF ToSet
  <2>2. \A k \in DOMAIN q : q[k] = e => k = i
    BY <2>1 DEF IsInjective
  <2>3. {k \in DOMAIN q : q[k] = e} = {i}
    BY <2>1, <2>2
  <2> QED BY <2>3
<1>2. ASSUME e \notin ToSet(q)
      PROVE  {k \in DOMAIN q : q[k] = e} = {}
  BY <1>2 DEF ToSet
<1> QED BY <1>1, <1>2

\* As long as no mutex was stolen, a message is in one place before, during and
\* after its task, and no taker reads beyond the queue.
THEOREM EachMessageInOnePlace == Spec => []MessageInOnePlace
<1>1. PortInv /\ PlaceInv => MessageInOnePlace
  <2> SUFFICES ASSUME PortInv, PlaceInv, ~stolen
               PROVE  ~garbled /\ \A m \in Msg : Cardinality(Places(m)) = 1
    BY DEF MessageInOnePlace
  <2>1. PlacesKept /\ TypeOK /\ OneUser
    BY PlacesKeptIs DEF PortInv, PortIsExclusive, OneUser
  <2> SUFFICES ASSUME NEW m \in Msg PROVE Cardinality(Places(m)) = 1
    BY <2>1 DEF PlacesKept
  <2>2. /\ queue \in Seq(Msg) /\ sent \in Seq(Msg)
        /\ IsInjective(queue) /\ IsInjective(sent) /\ InOneOf(m)
    BY <2>1 DEF TypeOK, PlacesKept
  <2> DEFINE Q == {k \in DOMAIN queue : queue[k] = m}
             S == {k \in DOMAIN sent : sent[k] = m}
             T == {k \in Msg : m \in ToSet(task[k].taken)}
             L == {m} \cap lost
             O == {m} \cap {x \in Msg : task[x].pc \in
                                {"idle", "direct", "sendOwn", "behind"}}
  <2>3. /\ Queued(m) => \E i : Q = {i}
        /\ ~Queued(m) => Q = {}
    BY <2>2, OnePosition DEF Queued
  <2>4. /\ Sent(m) => \E i : S = {i}
        /\ ~Sent(m) => S = {}
    BY <2>2, OnePosition DEF Sent
  <2>5. /\ Lost(m) => L = {m}
        /\ ~Lost(m) => L = {}
    BY DEF Lost
  <2>6. /\ Own(m) => O = {m}
        /\ ~Own(m) => O = {}
    BY DEF Own
  <2>7. /\ Taken(m) => \E i : T = {i}
        /\ ~Taken(m) => T = {}
    <3>1. ASSUME Taken(m) PROVE \E i : T = {i}
      <4>1. PICK t \in Msg : m \in ToSet(task[t].taken)
        BY <3>1 DEF Taken
      <4>2. \A k \in Msg : m \in ToSet(task[k].taken) => task[k].pc = "take"
        <5>1. ToSet(<< >>) = {}
          BY DEF ToSet
        <5> QED BY <2>1, <5>1 DEF PlacesKept
      <4>3. \A k \in Msg : m \in ToSet(task[k].taken) => k = t
        BY <2>1, <4>1, <4>2 DEF OneUser, HoldsPort
      <4>4. T = {t}
        BY <4>1, <4>3
      <4> QED BY <4>4
    <3>2. ASSUME ~Taken(m) PROVE T = {}
      BY <3>2 DEF Taken
    <3> QED BY <3>1, <3>2
  <2>8. Places(m) = {<<"queue", i>> : i \in Q} \cup {<<"taken", t>> : t \in T}
                      \cup {<<"sent", i>> : i \in S} \cup {<<"lost", 1>> : k \in L}
                      \cup {<<"own", 1>> : k \in O}
    BY DEF Places
  <2> HIDE DEF Q, S, T, L, O
  <2>9. \E x : Places(m) = {x}
    <3>1. CASE Queued(m) /\ ~Taken(m) /\ ~Sent(m) /\ ~Lost(m) /\ ~Own(m)
      <4>1. PICK i : Q = {i}
        BY <2>3, <3>1
      <4>2. Places(m) = {<<"queue", i>>}
        BY <2>4, <2>5, <2>6, <2>7, <2>8, <3>1, <4>1
      <4> QED BY <4>2
    <3>2. CASE ~Queued(m) /\ Taken(m) /\ ~Sent(m) /\ ~Lost(m) /\ ~Own(m)
      <4>1. PICK i : T = {i}
        BY <2>7, <3>2
      <4>2. Places(m) = {<<"taken", i>>}
        BY <2>3, <2>4, <2>5, <2>6, <2>8, <3>2, <4>1
      <4> QED BY <4>2
    <3>3. CASE ~Queued(m) /\ ~Taken(m) /\ Sent(m) /\ ~Lost(m) /\ ~Own(m)
      <4>1. PICK i : S = {i}
        BY <2>4, <3>3
      <4>2. Places(m) = {<<"sent", i>>}
        BY <2>3, <2>5, <2>6, <2>7, <2>8, <3>3, <4>1
      <4> QED BY <4>2
    <3>4. CASE ~Queued(m) /\ ~Taken(m) /\ ~Sent(m) /\ Lost(m) /\ ~Own(m)
      <4>1. Places(m) = {<<"lost", 1>>}
        BY <2>3, <2>4, <2>5, <2>6, <2>7, <2>8, <3>4
      <4> QED BY <4>1
    <3>5. CASE ~Queued(m) /\ ~Taken(m) /\ ~Sent(m) /\ ~Lost(m) /\ Own(m)
      <4>1. Places(m) = {<<"own", 1>>}
        BY <2>3, <2>4, <2>5, <2>6, <2>7, <2>8, <3>5
      <4> QED BY <4>1
    <3> QED BY <2>2, <3>1, <3>2, <3>3, <3>4, <3>5 DEF InOneOf
  <2> QED BY <2>9, FS_Singleton
<1> QED BY <1>1, PortInvariant, PlaceInvariant, PTL
-----------------------------------------------------------------------------
(* What was stored first goes first.                                       *)

\* An element appended to a sequence is behind all that is there.
LEMMA BeforeAppend ==
  ASSUME NEW S, NEW q \in Seq(S), NEW e \in S, NEW y, NEW x, Before(q, y, x),
         e = y => x \notin ToSet(q) /\ x # e
  PROVE  Before(Append(q, e), y, x)
<1>1. /\ Len(q) \in Nat /\ DOMAIN q = 1 .. Len(q)
      /\ DOMAIN Append(q, e) = 1 .. Len(q) + 1
      /\ \A i \in 1 .. Len(q) : Append(q, e)[i] = q[i]
      /\ Append(q, e)[Len(q) + 1] = e
  OBVIOUS
<1>2. \A i \in 1 .. Len(q) + 1 : i \in 1 .. Len(q) \/ i = Len(q) + 1
  BY <1>1, SMT
<1> SUFFICES ASSUME NEW i \in 1 .. Len(q) + 1, NEW j \in 1 .. Len(q) + 1,
                    Append(q, e)[j] = y, Append(q, e)[i] = x
             PROVE  j < i
  BY <1>1, Zenon DEF Before
<1>3. CASE j = Len(q) + 1
  <2>1. e = y /\ x \notin ToSet(q) /\ x # e
    BY <1>1, <1>3
  <2>2. i \in 1 .. Len(q) => x \in ToSet(q)
    BY <1>1, Zenon DEF ToSet
  <2>3. i = Len(q) + 1 => x = e
    BY <1>1
  <2> QED BY <1>2, <2>1, <2>2, <2>3
<1>4. CASE j \in 1 .. Len(q) /\ i \in 1 .. Len(q)
  <2>1. q[j] = y /\ q[i] = x
    BY <1>1, <1>4
  <2> QED BY <1>1, <1>4, <2>1, Zenon DEF Before
<1>5. CASE j \in 1 .. Len(q) /\ i = Len(q) + 1
  BY <1>1, <1>5, SMT
<1> QED BY <1>2, <1>3, <1>4, <1>5

\* Taking the head away changes no order, and nothing is before the head.
LEMMA BeforeTail ==
  ASSUME NEW S, NEW q \in Seq(S), q # << >>, NEW y, NEW x, Before(q, y, x)
  PROVE  /\ Before(Tail(q), y, x)
         /\ x = Head(q) => y \notin ToSet(q)
<1>1. /\ Len(q) \in Nat /\ Len(q) # 0 /\ DOMAIN q = 1 .. Len(q)
      /\ Tail(q) \in Seq(S) /\ Len(Tail(q)) = Len(q) - 1
      /\ \A i \in 1 .. Len(q) - 1 : Tail(q)[i] = q[i + 1]
  <2>1. Len(q) \in Nat /\ Len(q) # 0 /\ DOMAIN q = 1 .. Len(q)
    BY EmptySeq, LenProperties
  <2>2. /\ Tail(q) \in Seq(S) /\ Len(Tail(q)) = Len(q) - 1
        /\ \A i \in 1 .. Len(Tail(q)) : Tail(q)[i] = q[i + 1]
    BY HeadTailProperties
  <2> QED BY <2>1, <2>2
<1>2. DOMAIN Tail(q) = 1 .. Len(q) - 1 /\ Head(q) = q[1]
  BY <1>1, LenProperties
<1>3. 1 \in 1 .. Len(q)
  BY <1>1, SMT
<1>4. Before(Tail(q), y, x)
  <2> SUFFICES ASSUME NEW i \in 1 .. Len(q) - 1, NEW j \in 1 .. Len(q) - 1,
                      Tail(q)[j] = y, Tail(q)[i] = x
               PROVE  j < i
    BY <1>2, Zenon DEF Before
  <2>1. /\ q[j + 1] = y /\ q[i + 1] = x
        /\ i + 1 \in 1 .. Len(q) /\ j + 1 \in 1 .. Len(q)
    BY <1>1
  <2>2. j + 1 < i + 1
    BY <1>1, <2>1, Zenon DEF Before
  <2> QED BY <1>1, <2>2, SMT
<1>5. ASSUME x = Head(q) PROVE y \notin ToSet(q)
  <2> SUFFICES ASSUME NEW j \in 1 .. Len(q), q[j] = y PROVE FALSE
    BY <1>1, Zenon DEF ToSet
  <2>1. j < 1
    BY <1>1, <1>2, <1>3, <1>5, Zenon DEF Before
  <2> QED BY <1>1, <2>1, SMT
<1> QED BY <1>4, <1>5

\* One sequence after another, when y is not in the second behind an x in the
\* first.
LEMMA BeforeConcat ==
  ASSUME NEW S, NEW q \in Seq(S), NEW t \in Seq(S), NEW y, NEW x,
         Before(q, y, x), Before(t, y, x), x \in ToSet(q) => y \notin ToSet(t)
  PROVE  Before(q \o t, y, x)
<1>1. /\ Len(q) \in Nat /\ DOMAIN q = 1 .. Len(q)
      /\ Len(t) \in Nat /\ DOMAIN t = 1 .. Len(t)
      /\ DOMAIN (q \o t) = 1 .. Len(q) + Len(t)
      /\ \A i \in 1 .. Len(q) : (q \o t)[i] = q[i]
      /\ \A i \in 1 .. Len(q) + Len(t) :
           i > Len(q) => (q \o t)[i] = t[i - Len(q)]
  OBVIOUS
<1>2. \A i \in 1 .. Len(q) + Len(t) :
        \/ i \in 1 .. Len(q) /\ (q \o t)[i] = q[i]
        \/ i - Len(q) \in 1 .. Len(t) /\ (q \o t)[i] = t[i - Len(q)]
  BY <1>1, SMT
<1> SUFFICES ASSUME NEW i \in 1 .. Len(q) + Len(t), NEW j \in 1 .. Len(q) + Len(t),
                    (q \o t)[j] = y, (q \o t)[i] = x
             PROVE  j < i
  BY <1>1, Zenon DEF Before
<1>3. CASE i \in 1 .. Len(q) /\ j \in 1 .. Len(q)
  <2>1. q[j] = y /\ q[i] = x
    BY <1>1, <1>3
  <2> QED BY <1>1, <1>3, <2>1, Zenon DEF Before
<1>4. CASE /\ i - Len(q) \in 1 .. Len(t) /\ (q \o t)[i] = t[i - Len(q)]
           /\ j - Len(q) \in 1 .. Len(t) /\ (q \o t)[j] = t[j - Len(q)]
  <2>1. j - Len(q) < i - Len(q)
    BY <1>1, <1>4, Zenon DEF Before
  <2> QED BY <1>1, <2>1, SMT
<1>5. CASE /\ i \in 1 .. Len(q)
           /\ j - Len(q) \in 1 .. Len(t) /\ (q \o t)[j] = t[j - Len(q)]
  <2>1. q[i] = x /\ t[j - Len(q)] = y
    BY <1>1, <1>5
  <2>2. x \in ToSet(q) /\ y \in ToSet(t)
    BY <1>1, <1>5, <2>1, Zenon DEF ToSet
  <2> QED BY <2>2
<1>6. CASE j \in 1 .. Len(q) /\ i - Len(q) \in 1 .. Len(t)
  BY <1>1, <1>6, SMT
<1> QED BY <1>2, <1>3, <1>4, <1>5, <1>6
OrderKept == \A x \in Msg : \A y \in ahead[x] : InFront(y, x)

\* A pair stays in order when a task goes on and moves nothing.
LEMMA GoOnFront ==
  ASSUME TypeOK, NEW x \in Msg, NEW y \in Msg, InFront(y, x),
         NEW t \in Msg, NEW pc, Goto(t, pc),
         Own(t) <=> pc \in {"idle", "direct", "sendOwn", "behind"},
         x = t => pc \notin {"idle", "direct", "sendOwn"},
         UNCHANGED <<queue, sent>>
  PROVE  InFront(y, x)'
<1>1. /\ task'[t].pc = pc
      /\ \A u \in Msg : u # t => task'[u] = task[u]
      /\ \A u \in Msg : task'[u].taken = task[u].taken
      /\ \A m \in Msg : Taken(m)' <=> Taken(m)
  BY GotoFrame
<1>2. \A m \in Msg : Own(m)' <=> Own(m)
  BY <1>1, Zenon DEF Own
<1>3. task'[x].pc \notin {"idle", "direct", "sendOwn"}
  BY <1>1 DEF InFront
<1>4. \A m \in Msg : (Queued(m)' <=> Queued(m)) /\ (Sent(m)' <=> Sent(m))
  BY DEF Queued, Sent
<1>5. \A u \in Msg : Before(task'[u].taken, y, x)
  BY <1>1 DEF InFront
<1>6. Before(queue', y, x) /\ Before(sent', y, x)
  BY DEF InFront
<1> QED BY <1>1, <1>2, <1>3, <1>4, <1>5, <1>6, Zenon DEF InFront

\* A task that looks at the queue finds in it what is in front of its message.
LEMMA LookAtQueueOrder ==
  ASSUME TypeOK, PlacesKept, OrderKept, NEW t \in Msg, LookAtQueue(t)
  PROVE  OrderKept'
<1> DEFINE pc == IF queue = << >> THEN "direct" ELSE "behind"
<1>1. /\ task[t].pc = "idle" /\ Goto(t, pc) /\ Own(t)
      /\ ahead' = [ahead EXCEPT ![t] = ToSet(queue)]
      /\ UNCHANGED <<queue, sent>>
  BY DEF LookAtQueue, Own, wire
<1>2. /\ ahead \in [Msg -> SUBSET Msg] /\ ToSet(queue) \subseteq Msg
  BY DEF TypeOK, ToSet
<1>3. Own(t) <=> pc \in {"idle", "direct", "sendOwn", "behind"}
  BY <1>1
<1> SUFFICES ASSUME NEW x \in Msg, NEW y \in ahead'[x] PROVE InFront(y, x)'
  BY DEF OrderKept
<1>4. CASE x # t
  <2>1. y \in ahead[x] /\ y \in Msg /\ InFront(y, x)
    BY <1>1, <1>2, <1>4 DEF OrderKept
  <2> HIDE DEF pc
  <2> QED BY <1>1, <1>3, <1>4, <2>1, GoOnFront
<1>5. CASE x = t
  <2>1. y \in ToSet(queue) /\ y \in Msg /\ Queued(y)
    BY <1>1, <1>2, <1>5 DEF Queued
  <2>2. ~Own(y) /\ ~Queued(t) /\ ~Taken(t) /\ ~Sent(t)
    BY <1>1, <2>1, Zenon DEF PlacesKept, InOneOf
  <2>3. pc = "behind"
    <3>1. ToSet(<< >>) = {}
      BY DEF ToSet
    <3> QED BY <2>1, <3>1
  <2> HIDE DEF pc
  <2>4. /\ task'[t].pc = pc
        /\ \A u \in Msg : u # t => task'[u] = task[u]
        /\ \A u \in Msg : task'[u].taken = task[u].taken
        /\ \A m \in Msg : Taken(m)' <=> Taken(m)
    BY <1>1, GotoFrame
  <2>5. ~Own(y)' /\ ~Queued(t)' /\ ~Taken(t)' /\ ~Sent(t)'
    <3>1. y # t
      BY <1>1, <2>2
    <3> QED BY <1>1, <2>1, <2>2, <2>4, <3>1 DEF Own, Queued, Sent
  <2>6. Before(queue', y, t) /\ Before(sent', y, t)
    BY <2>5 DEF Before, Queued, Sent, ToSet
  <2>7. \A u \in Msg : Before(task'[u].taken, y, t)
    BY <2>5 DEF Before, Taken, ToSet
  <2>8. InFront(y, t)'
    BY <2>3, <2>4, <2>5, <2>6, <2>7 DEF InFront
  <2> QED BY <1>5, <2>8
<1> QED BY <1>4, <1>5

\* A task that goes on, to a place that a message with others in front may have.
LEMMA GoOnOrder ==
  ASSUME TypeOK, OrderKept, NEW t \in Msg, NEW pc, Goto(t, pc),
         Own(t) <=> pc \in {"idle", "direct", "sendOwn", "behind"},
         pc \in {"idle", "direct", "sendOwn"} =>
           task[t].pc \in {"idle", "direct", "sendOwn"},
         UNCHANGED <<queue, sent, ahead>>
  PROVE  OrderKept'
<1> SUFFICES ASSUME NEW x \in Msg, NEW y \in ahead[x] PROVE InFront(y, x)'
  BY DEF OrderKept
<1>1. y \in Msg /\ InFront(y, x)
  BY DEF OrderKept, TypeOK
<1>2. x = t => pc \notin {"idle", "direct", "sendOwn"}
  BY <1>1 DEF InFront
<1> QED BY <1>1, <1>2, GoOnFront

\* A message that is stored goes behind those in front of it, and is in front
\* of none.
LEMMA StoreOrder ==
  ASSUME TypeOK, OrderKept, NEW t \in Msg, NEW pc, Goto(t, pc),
         Own(t), pc \in {"try", "done"}, queue' = Append(queue, t),
         UNCHANGED <<sent, ahead>>
  PROVE  OrderKept'
<1> SUFFICES ASSUME NEW x \in Msg, NEW y \in ahead[x] PROVE InFront(y, x)'
  BY DEF OrderKept
<1>1. y \in Msg /\ InFront(y, x) /\ y # t /\ queue \in Seq(Msg)
  BY DEF OrderKept, TypeOK, InFront
<1>2. /\ task'[t].pc = pc
      /\ \A u \in Msg : u # t => task'[u] = task[u]
      /\ \A u \in Msg : task'[u].taken = task[u].taken
      /\ \A m \in Msg : Taken(m)' <=> Taken(m)
  BY GotoFrame
<1>3. ~Own(y)' /\ task'[x].pc \notin {"idle", "direct", "sendOwn"}
  BY <1>1, <1>2 DEF Own, InFront
<1>4. Before(queue', y, x)
  <2>1. Before(queue, y, x)
    BY <1>1 DEF InFront
  <2> QED BY <1>1, <2>1, BeforeAppend
<1>5. Queued(y)' <=> Queued(y)
  <2>1. ToSet(queue') = ToSet(queue) \cup {t}
    BY <1>1, AppendSet
  <2> QED BY <1>1, <2>1 DEF Queued
<1>6. Sent(x)' <=> Sent(x)
  BY DEF Sent
<1>7. /\ Before(sent', y, x)
      /\ \A u \in Msg : Before(task'[u].taken, y, x)
  BY <1>1, <1>2 DEF InFront
<1> QED BY <1>1, <1>2, <1>3, <1>4, <1>5, <1>6, <1>7, Zenon DEF InFront

\* Only a message with none in front is sent at once.
LEMMA SendOwnOrder ==
  ASSUME TypeOK, OrderKept, NEW t \in Msg, SendOwn(t)
  PROVE  OrderKept'
<1>1. /\ task[t].pc = "sendOwn" /\ SendData(<<t>>) /\ Goto(t, "unlock")
      /\ UNCHANGED <<queue, ahead>>
  BY DEF SendOwn
<1> SUFFICES ASSUME NEW x \in Msg, NEW y \in ahead[x] PROVE InFront(y, x)'
  BY <1>1 DEF OrderKept
<1>2. y \in Msg /\ InFront(y, x) /\ y # t /\ x # t /\ sent \in Seq(Msg)
  BY <1>1 DEF OrderKept, TypeOK, InFront, Own
<1>3. /\ \A u \in Msg : u # t => task'[u] = task[u]
      /\ \A u \in Msg : task'[u].taken = task[u].taken
      /\ \A m \in Msg : Taken(m)' <=> Taken(m)
  BY <1>1, GotoFrame
<1>4. ~Own(y)' /\ task'[x].pc \notin {"idle", "direct", "sendOwn"}
  BY <1>2, <1>3 DEF Own, InFront
<1>5. <<t>> \in Seq(Msg) /\ ToSet(<<t>>) = {t}
  BY DEF ToSet
<1>6. Before(sent', y, x) /\ (Sent(x)' <=> Sent(x))
  <2>1. CASE link = "up"
    <3>1. sent' = sent \o <<t>>
      BY <1>1, <2>1 DEF SendData
    <3>2. Before(<<t>>, y, x) /\ y \notin ToSet(<<t>>)
      BY <1>2, <1>5 DEF Before, ToSet
    <3>3. Before(sent, y, x)
      BY <1>2 DEF InFront
    <3>4. Before(sent \o <<t>>, y, x)
      BY <1>2, <1>5, <3>2, <3>3, BeforeConcat
    <3>5. ToSet(sent \o <<t>>) = ToSet(sent) \cup {t}
      <4> DEFINE own == <<t>>
      <4>1. own \in Seq(Msg) /\ ToSet(own) = {t}
        BY <1>5
      <4> HIDE DEF own
      <4>2. ToSet(sent \o own) = ToSet(sent) \cup ToSet(own)
        BY <1>2, <4>1, ConcatSet
      <4> QED BY <4>1, <4>2 DEF own
    <3> QED BY <1>2, <3>1, <3>4, <3>5 DEF Sent
  <2>2. CASE link # "up"
    <3>1. sent' = sent
      BY <1>1, <2>2 DEF SendData
    <3> QED BY <1>2, <3>1 DEF Sent, InFront
  <2> QED BY <2>1, <2>2
<1>7. Queued(y)' <=> Queued(y)
  BY <1>1 DEF Queued
<1>8. Before(queue', y, x) /\ \A u \in Msg : Before(task'[u].taken, y, x)
  BY <1>1, <1>2, <1>3 DEF InFront
<1> QED BY <1>2, <1>3, <1>4, <1>6, <1>7, <1>8, Zenon DEF InFront

\* The size of the queue is taken, and no order changes.
LEMMA TakeSizeOrder ==
  ASSUME TypeOK, OrderKept, NEW t \in Msg, TakeSize(t)
  PROVE  OrderKept'
<1>1. /\ task[t].pc = "size" /\ UNCHANGED <<queue, sent, ahead>>
      /\ task' = [task EXCEPT ![t].n = BatchSize(Len(queue)), ![t].pc = "take"]
  BY DEF TakeSize, wire
<1>2. task \in Tasks
  BY DEF TypeOK, Tasks
<1>3. /\ task'[t].pc = "take" /\ task'[t].taken = task[t].taken
      /\ \A u \in Msg : u # t => task'[u] = task[u]
  BY <1>1, <1>2 DEF Tasks
<1>4. \A u \in Msg : task'[u].taken = task[u].taken
  BY <1>3
<1>5. \A m \in Msg : (Own(m)' <=> Own(m)) /\ (Taken(m)' <=> Taken(m))
  BY <1>1, <1>3, <1>4 DEF Own, Taken
<1>6. \A m \in Msg : (Queued(m)' <=> Queued(m)) /\ (Sent(m)' <=> Sent(m))
  BY <1>1 DEF Queued, Sent
<1> SUFFICES ASSUME NEW x \in Msg, NEW y \in ahead[x] PROVE InFront(y, x)'
  BY <1>1 DEF OrderKept
<1>7. y \in Msg /\ InFront(y, x)
  BY DEF OrderKept, TypeOK
<1>8. task'[x].pc \notin {"idle", "direct", "sendOwn"}
  BY <1>3, <1>7 DEF InFront
<1>9. /\ Before(queue', y, x) /\ Before(sent', y, x)
      /\ \A u \in Msg : Before(task'[u].taken, y, x)
  BY <1>1, <1>4, <1>7 DEF InFront
<1> QED BY <1>5, <1>6, <1>7, <1>8, <1>9, Zenon DEF InFront

\* The head of the queue goes behind what is taken, and nothing in front of it
\* is still in the queue.
LEMMA TakeOneOrder ==
  ASSUME TypeOK, PlacesKept, OrderKept, NEW t \in Msg, TakeOne(t)
  PROVE  OrderKept'
<1> DEFINE h == Head(queue)
<1>1. /\ task[t].pc = "take" /\ queue # << >>
      /\ queue' = Tail(queue) /\ sent' = sent
      /\ task'[t].pc = "take"
      /\ task'[t].taken = Append(task[t].taken, h)
      /\ \A u \in Msg : u # t => task'[u] = task[u]
  BY TakeOneMoves
<1>2. /\ queue \in Seq(Msg) /\ task[t].taken \in Seq(Msg) /\ IsInjective(queue)
      /\ ahead' = ahead
  BY DEF TypeOK, PlacesKept, TakeOne
<1>3. /\ h \in Msg /\ ToSet(queue') = ToSet(queue) \ {h} /\ h \in ToSet(queue)
  BY <1>1, <1>2, TailSet
<1> SUFFICES ASSUME NEW x \in Msg, NEW y \in ahead[x] PROVE InFront(y, x)'
  BY <1>2 DEF OrderKept
<1>4. /\ y \in Msg /\ InFront(y, x)
  BY DEF OrderKept, TypeOK
<1>5. Before(queue', y, x) /\ (x = h => ~Queued(y))
  <2>1. Before(queue, y, x)
    BY <1>4 DEF InFront
  <2> QED BY <1>1, <1>2, <2>1, BeforeTail DEF Queued
<1> HIDE DEF h
<1>6. h = y => x # h /\ ~Taken(x) /\ ~Sent(x)
  <2>1. Queued(h)
    BY <1>3 DEF Queued
  <2> QED BY <1>4, <1>5, <2>1 DEF InFront
<1>7. Before(task'[t].taken, y, x)
  <2>1. Before(task[t].taken, y, x)
    BY <1>4 DEF InFront
  <2>2. h = y => x \notin ToSet(task[t].taken) /\ x # h
    BY <1>6 DEF Taken
  <2> QED BY <1>1, <1>2, <1>3, <2>1, <2>2, BeforeAppend
<1>8. \A u \in Msg : Before(task'[u].taken, y, x)
  BY <1>1, <1>4, <1>7 DEF InFront
<1>9. ToSet(task'[t].taken) = ToSet(task[t].taken) \cup {h}
  BY <1>1, <1>2, <1>3, AppendSet
<1>10. \A m \in Msg : Taken(m)' => Taken(m) \/ m = h
  BY <1>1, <1>9, Zenon DEF Taken
<1>11. Queued(y)' => Queued(y)
  BY <1>3 DEF Queued
<1>12. Taken(x)' => ~Queued(y)'
  BY <1>4, <1>5, <1>10, <1>11 DEF InFront
<1>13. Sent(x)' => ~Queued(y)' /\ ~Taken(y)'
  <2>1. Sent(x)' <=> Sent(x)
    BY <1>1 DEF Sent
  <2> QED BY <1>4, <1>6, <1>10, <1>11, <2>1 DEF InFront
<1>14. ~Own(y)' /\ task'[x].pc \notin {"idle", "direct", "sendOwn"}
  BY <1>1, <1>4 DEF InFront, Own
<1>15. Before(sent', y, x)
  BY <1>1, <1>4 DEF InFront
<1> QED BY <1>5, <1>8, <1>12, <1>13, <1>14, <1>15, Zenon DEF InFront

\* A batch goes out in its order, behind all that went out before.
LEMMA SendBatchOrder ==
  ASSUME TypeOK, PlacesKept, OneUser, OrderKept, NEW t \in Msg, SendBatch(t)
  PROVE  OrderKept'
<1> DEFINE batch == task[t].taken
<1>1. /\ task[t].pc = "take" /\ UNCHANGED <<queue, garbled>> /\ SendData(batch)
      /\ batch \in Seq(Msg) /\ IsInjective(batch)
      /\ task'[t].pc = "unlock" /\ task'[t].taken = << >>
      /\ \A u \in Msg : u # t => /\ task'[u] = task[u] /\ task[u].pc # "take"
                                 /\ task[u].taken = << >>
      /\ \A m \in Msg : Taken(m) <=> m \in ToSet(batch)
      /\ \A m \in Msg : ~Taken(m)'
  BY SendBatchMoves
<1>2. ahead' = ahead /\ sent \in Seq(Msg)
  BY DEF SendBatch, TypeOK
<1> SUFFICES ASSUME NEW x \in Msg, NEW y \in ahead[x] PROVE InFront(y, x)'
  BY <1>2 DEF OrderKept
<1>3. /\ y \in Msg /\ InFront(y, x)
  BY DEF OrderKept, TypeOK
<1>4. Before(batch, y, x) /\ Before(sent, y, x)
  BY <1>3 DEF InFront
<1> HIDE DEF batch
<1>5. Before(sent', y, x) /\ (Sent(x)' => Sent(x) \/ Taken(x))
  <2>1. CASE link = "up"
    <3>1. sent' = sent \o batch
      BY <1>1, <2>1 DEF SendData
    <3>2. x \in ToSet(sent) => y \notin ToSet(batch)
      BY <1>1, <1>3 DEF InFront, Sent
    <3>3. Before(sent \o batch, y, x)
      BY <1>1, <1>2, <1>4, <3>2, BeforeConcat
    <3>4. ToSet(sent \o batch) = ToSet(sent) \cup ToSet(batch)
      BY <1>1, <1>2, ConcatSet
    <3> QED BY <1>1, <3>1, <3>3, <3>4 DEF Sent
  <2>2. CASE link # "up"
    <3>1. sent' = sent
      BY <1>1, <2>2 DEF SendData
    <3> QED BY <1>4, <3>1 DEF Sent
  <2> QED BY <2>1, <2>2
<1>6. Queued(y)' <=> Queued(y)
  BY <1>1 DEF Queued
<1>7. Sent(x)' => ~Queued(y)' /\ ~Taken(y)'
  BY <1>1, <1>3, <1>5, <1>6 DEF InFront
<1>8. ~Own(y)' /\ task'[x].pc \notin {"idle", "direct", "sendOwn"}
  BY <1>1, <1>3 DEF InFront, Own
<1>9. \A u \in Msg : Before(task'[u].taken, y, x)
  <2>1. \A u \in Msg : task'[u].taken = << >>
    BY <1>1
  <2>2. Before(<< >>, y, x)
    BY DEF Before
  <2> QED BY <2>1, <2>2
<1>10. Before(queue', y, x)
  BY <1>1, <1>3 DEF InFront
<1> QED BY <1>1, <1>5, <1>7, <1>8, <1>9, <1>10, Zenon DEF InFront

\* The order depends on the queue, the tasks and the wire alone.
LEMMA NothingMoved ==
  ASSUME OrderKept, UNCHANGED <<queue, task, sent, ahead>>
  PROVE  OrderKept'
<1> SUFFICES ASSUME NEW x \in Msg, NEW y \in ahead[x] PROVE InFront(y, x)'
  BY DEF OrderKept
<1>1. InFront(y, x)
  BY DEF OrderKept
<1>2. /\ Own(y)' <=> Own(y)
      /\ Queued(y)' <=> Queued(y)
      /\ Sent(x)' <=> Sent(x)
      /\ Taken(x)' <=> Taken(x)
      /\ Taken(y)' <=> Taken(y)
  BY DEF Own, Queued, Sent, Taken
<1> QED BY <1>1, <1>2 DEF InFront

\* A step of the link or of the connector moves no message.
LEMMA ConnOrder ==
  ASSUME OrderKept, LinkBreaks \/ TcpConnect \/ ConnStep \/ TcpDisconnect
  PROVE  OrderKept'
<1>1. UNCHANGED <<queue, task, sent, ahead>>
  BY DEF LinkBreaks, TcpConnect, ConnStep, ConnTryLock, ConnCheck, ConnUnlock,
         ConnAgain, TcpDisconnect, wire
<1> QED BY <1>1, NothingMoved

\* A step of a task keeps the order.
LEMMA TaskOrder ==
  ASSUME TypeOK, PlacesKept, OneUser, OrderKept, NEW t \in Msg,
         LookAtQueue(t) \/ TaskStep(t)
  PROVE  OrderKept'
<1>1. CASE LookAtQueue(t)
  BY <1>1, LookAtQueueOrder
<1>2. CASE TryBehind(t) \/ Unlock(t)
  <2>1. /\ UNCHANGED <<queue, sent, ahead>> /\ ~Own(t)
        /\ \E pc \in {"size", "done"} : Goto(t, pc)
    BY <1>2 DEF TryBehind, Unlock, Own, wire
  <2> QED BY <2>1, GoOnOrder
<1>3. CASE TryDirect(t)
  <2>1. /\ task[t].pc = "direct" /\ Own(t) /\ UNCHANGED <<sent, ahead>>
    BY <1>3 DEF TryDirect, Own, wire
  <2>2. CASE Goto(t, "sendOwn") /\ queue' = queue
    BY <2>1, <2>2, GoOnOrder
  <2>3. CASE Goto(t, "done") /\ queue' = Append(queue, t)
    BY <2>1, <2>3, StoreOrder
  <2> QED BY <1>3, <2>2, <2>3 DEF TryDirect
<1>4. CASE StoreBehind(t)
  <2>1. /\ Own(t) /\ UNCHANGED <<sent, ahead>> /\ Goto(t, "try")
        /\ queue' = Append(queue, t)
    BY <1>4 DEF StoreBehind, Own, wire
  <2> QED BY <2>1, StoreOrder
<1>5. CASE SendOwn(t)
  BY <1>5, SendOwnOrder
<1>6. CASE TakeSize(t)
  BY <1>6, TakeSizeOrder
<1>7. CASE TakeOne(t)
  BY <1>7, TakeOneOrder
<1>8. CASE SendBatch(t)
  BY <1>8, SendBatchOrder
<1> QED BY <1>1, <1>2, <1>3, <1>4, <1>5, <1>6, <1>7, <1>8 DEF TaskStep

\* What was stored when a task looked at the queue stays in front of its
\* message, wherever the two are.
THEOREM OrderInvariant == Spec => []OrderInv
<1>1. Init => OrderInv
  BY DEF Init, OrderInv
<1>2. PortInv /\ PlaceInv /\ OrderInv /\ [Next]_vars => OrderInv'
  <2> SUFFICES ASSUME PortInv, PlaceInv, OrderInv, [Next]_vars, ~stolen'
               PROVE  OrderKept'
    BY Zenon DEF OrderInv, OrderKept
  <2>1. ~stolen /\ TypeOK /\ OneUser
    BY StolenStays DEF PortInv, PortIsExclusive, OneUser
  <2>2. PlacesKept /\ OrderKept
    BY <2>1, PlacesKeptIs, Zenon DEF OrderInv, OrderKept
  <2>3. ASSUME NEW m \in Msg, LookAtQueue(m) \/ TaskStep(m) PROVE OrderKept'
    BY <2>1, <2>2, <2>3, TaskOrder
  <2>4. CASE LinkBreaks \/ TcpConnect \/ ConnStep \/ TcpDisconnect
    BY <2>2, <2>4, ConnOrder
  <2>5. CASE UNCHANGED vars
    BY <2>2, <2>5, NothingMoved DEF vars
  <2> QED BY <2>3, <2>4, <2>5 DEF Next
<1> QED BY <1>1, <1>2, PortInvariant, PlaceInvariant, PTL DEF Spec

\* As long as no mutex was stolen, a message goes out behind those that were
\* stored when its task looked at the queue.
THEOREM StoredBeforeLater == Spec => []StoredGoesFirst
<1>1. PortInv /\ OrderInv => StoredGoesFirst
  <2> SUFFICES ASSUME PortInv, OrderInv, ~stolen,
                      NEW i \in DOMAIN sent, NEW j \in DOMAIN sent,
                      sent[j] \in ahead[sent[i]]
               PROVE  j < i
    BY DEF StoredGoesFirst
  <2>1. sent[i] \in Msg
    BY DEF PortInv, TypeOK
  <2>2. Before(sent, sent[j], sent[i])
    BY <2>1, Zenon DEF OrderInv, InFront
  <2> QED BY <2>2, Zenon DEF Before
<1> QED BY <1>1, PortInvariant, OrderInvariant, PTL
=============================================================================
