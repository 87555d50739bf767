---------------------------- MODULE IntakeProofs ----------------------------
(***************************************************************************)
(* What feeds the rings: a receiving port of the PLC and the UDP receiver   *)
(* keep their promises by themselves, and so under the main thread, which   *)
(* uses them only as they are specified.                                    *)
(***************************************************************************)
EXTENDS Intake, SequenceTheorems, FiniteSetTheorems, TLAPS

(* The UDP receiver.                                                       *)

\* At the start nothing has arrived.
LEMMA UdpInitInv == UdpInit => UdpInv
<1> SUFFICES ASSUME UdpInit PROVE UdpInv
  OBVIOUS
<1>1. UdpTypeOK
  <2>1. 0 \in 0 .. MaxDatagrams
    BY UdpAssumption
  <2> QED BY <2>1 DEF UdpInit, UdpTypeOK
<1>2. UdpCounted
  BY DEF UdpInit, UdpCounted
<1>3. UdpStopping
  BY DEF UdpInit, UdpStopping
<1> QED BY <1>1, <1>2, <1>3 DEF UdpInv

\* Every step of the receiver keeps its invariant.
LEMMA UdpNextInv == UdpInv /\ [UdpNext]_udpVars => UdpInv'
<1> SUFFICES ASSUME UdpInv, [UdpNext]_udpVars PROVE UdpInv'
  OBVIOUS
<1> USE UdpAssumption DEF UdpInv, UdpTypeOK, UdpCounted, UdpStopping
<1>1. CASE UdpStart
  BY <1>1 DEF UdpStart
<1>2. CASE DatagramArrives
  BY <1>2 DEF DatagramArrives
<1>3. CASE UdpWait
  BY <1>3 DEF UdpWait
<1>4. CASE UdpRecvFrom
  BY <1>4 DEF UdpRecvFrom
<1>5. CASE UdpCallback
  BY <1>5 DEF UdpCallback
<1>6. CASE UdpStops
  BY <1>6 DEF UdpStops
<1>7. CASE UdpCloseSocket
  <2>1. UdpTypeOK'
    <3>1. 0 \in 0 .. MaxDatagrams
      OBVIOUS
    <3> QED BY <1>7, <3>1 DEF UdpCloseSocket
  <2>2. UdpCounted'
    BY <1>7 DEF UdpCloseSocket
  <2>3. UdpStopping'
    BY <1>7 DEF UdpCloseSocket
  <2> HIDE DEF UdpInv, UdpTypeOK, UdpCounted, UdpStopping
  <2> QED BY <2>1, <2>2, <2>3 DEF UdpInv
<1>8. CASE UdpJoin
  <2>1. UdpTypeOK'
    BY <1>8 DEF UdpJoin
  <2>2. UdpCounted'
    BY <1>8 DEF UdpJoin
  <2>3. UdpStopping'
    BY <1>8 DEF UdpJoin
  <2> HIDE DEF UdpInv, UdpTypeOK, UdpCounted, UdpStopping
  <2> QED BY <2>1, <2>2, <2>3 DEF UdpInv
<1>9. CASE UNCHANGED udpVars
  BY <1>9 DEF udpVars
<1> QED
  BY <1>1, <1>2, <1>3, <1>4, <1>5, <1>6, <1>7, <1>8, <1>9 DEF UdpNext, UdpLoop

\* The thread of a stopped receiver is over, and calls nothing.
LEMMA UdpStoppedIsQuiet ==
  UdpInv /\ [UdpNext]_udpVars => [udpStop = "stopped" => UNCHANGED delivered]_udpVars
BY DEF UdpInv, UdpStopping, UdpNext, UdpStart, DatagramArrives, UdpLoop, UdpWait,
       UdpRecvFrom, UdpCallback, UdpStops, UdpCloseSocket, UdpJoin, udpVars

\* The inductive invariant of the UDP receiver holds in every reachable state.
THEOREM UdpInvariant == UdpSpec => []UdpInv
<1> QED BY UdpInitInv, UdpNextInv, PTL DEF UdpSpec

\* Once stop has returned the callback is not called any more.
THEOREM UdpQuietAfterStop == UdpSpec => NoCallbackAfterStop
<1> QED BY UdpInvariant, UdpStoppedIsQuiet, PTL DEF UdpSpec, NoCallbackAfterStop
-----------------------------------------------------------------------------
(* The receiving port: types.                                              *)

\* At the start there is no connection and no receiver.
LEMMA PlcInitInv == PlcInit => PlcInv
<1> SUFFICES ASSUME PlcInit PROVE PlcInv
  OBVIOUS
<1>1. Over \in Thread
  BY PlcReceiveAssumption DEF Over, Thread
<1>2. PlcTypeOK
  <2>1. receiver \in [Receiver -> Thread]
    BY <1>1 DEF PlcInit
  <2>2. inbox \in [Handle -> Seq(1 .. MaxMessages)] /\ pushed \in Seq(1 .. MaxMessages)
    BY DEF PlcInit
  <2>3. 0 \in 0 .. MaxMessages /\ 0 \in 0 .. MaxBreaks
    BY PlcReceiveAssumption
  <2> HIDE DEF Thread
  <2> QED BY <2>1, <2>2, <2>3 DEF PlcInit, PlcTypeOK
<1>3. NotConnected /\ OnlyLink
  BY DEF PlcInit, NotConnected, OnlyLink
<1>4. OneReceiver
  BY DEF PlcInit, OneReceiver, Alive, Over
<1>5. InOrder
  BY DEF PlcInit, InOrder, At, Over
<1> QED BY <1>2, <1>3, <1>4, <1>5 DEF PlcInv, InHand, PlcInit, At, Over

\* What waits at a handle is a sequence of messages.
LEMMA HeadAndTail ==
  ASSUME PlcTypeOK, NEW h \in Handle, inbox[h] # << >>
  PROVE  /\ Head(inbox[h]) \in 1 .. MaxMessages
         /\ Head(inbox[h]) = inbox[h][1]
         /\ Tail(inbox[h]) \in Seq(1 .. MaxMessages)
         /\ Len(inbox[h]) \in Nat \ {0}
         /\ Len(Tail(inbox[h])) = Len(inbox[h]) - 1
         /\ \A i \in 1 .. Len(Tail(inbox[h])) : Tail(inbox[h])[i] = inbox[h][i + 1]
<1> DEFINE s == inbox[h]
<1>1. s \in Seq(1 .. MaxMessages) /\ s # << >>
  BY DEF PlcTypeOK
<1> HIDE DEF s
<1>2. /\ Head(s) \in 1 .. MaxMessages
      /\ Tail(s) \in Seq(1 .. MaxMessages)
      /\ Len(Tail(s)) = Len(s) - 1
  BY <1>1, HeadTailProperties
<1>4. Len(s) \in Nat \ {0}
  BY <1>1, EmptySeq, LenProperties
<1>5. Head(s) = s[1]
  BY <1>1
<1>3. \A i \in 1 .. Len(Tail(s)) : Tail(s)[i] = s[i + 1]
  BY <1>1, HeadTailProperties
<1> QED BY <1>2, <1>3, <1>4, <1>5 DEF s

\* A receiver goes to a place that it has.
LEMMA GotoThread ==
  ASSUME PlcTypeOK, NEW r \in Receiver,
         NEW pc \in {"test", "recv", "push", "ended"}, Goto(r, pc) \/ Ends(r)
  PROVE  receiver' \in [Receiver -> Thread]
<1>1. receiver[r] \in Thread /\ Over \in Thread
  BY PlcReceiveAssumption DEF PlcTypeOK, Over, Thread
<1>2. [receiver[r] EXCEPT !.pc = pc] \in Thread
  BY <1>1 DEF Thread
<1> QED BY <1>1, <1>2 DEF Goto, Ends, PlcTypeOK

\* A step of a receiver keeps every variable in its type.
LEMMA ReceiverType ==
  ASSUME PlcInv, NEW r \in Receiver, ReceiverStep(r)
  PROVE  PlcTypeOK'
<1> USE DEF PlcInv, client, network, check
<1>1. receiver[r] \in Thread /\ Over \in Thread
  BY PlcReceiveAssumption DEF PlcTypeOK, Over, Thread
<1>2. CASE TestReceiving(r)
  <2>1. receiver' \in [Receiver -> Thread]
    BY <1>2, GotoThread DEF TestReceiving
  <2> QED BY <1>2, <2>1 DEF TestReceiving, PlcTypeOK
<1>3. CASE Recv(r)
  <2>1. r \in Alive
    BY <1>3 DEF Recv, At, Alive
  <2> DEFINE h == receiver[r].sock
  <2>2. h \in Handle /\ inbox[h] # << >>
    BY <1>3, <2>1 DEF Recv, OneReceiver
  <2>3. Head(inbox[h]) \in 1 .. MaxMessages /\ Tail(inbox[h]) \in Seq(1 .. MaxMessages)
    BY <2>2, HeadAndTail
  <2>4. /\ receiver' = [receiver EXCEPT ![r].pc = "push", ![r].data = Head(inbox[h])]
        /\ inbox' = [inbox EXCEPT ![h] = Tail(inbox[h])]
        /\ UNCHANGED <<client, link, produced, breaks, pushed, check, overrun>>
    BY <1>3 DEF Recv
  <2> HIDE DEF h
  <2>5. receiver' \in [Receiver -> Thread]
    <3>1. Head(inbox[h]) \in 0 .. MaxMessages
      BY <2>3, PlcReceiveAssumption
    <3>2. [receiver[r] EXCEPT !.pc = "push", !.data = Head(inbox[h])] \in Thread
      BY <1>1, <3>1 DEF Thread
    <3> QED BY <2>4, <3>2 DEF PlcTypeOK
  <2>6. inbox' \in [Handle -> Seq(1 .. MaxMessages)]
    BY <2>3, <2>4 DEF PlcTypeOK
  <2> QED BY <2>4, <2>5, <2>6 DEF PlcTypeOK
<1>4. CASE RecvEnd(r)
  <2>1. receiver' \in [Receiver -> Thread]
    BY <1>4, GotoThread DEF RecvEnd
  <2> QED BY <1>4, <2>1 DEF RecvEnd, PlcTypeOK
<1>5. CASE RecvError(r)
  <2>1. receiver' \in [Receiver -> Thread]
    BY <1>5, GotoThread DEF RecvError
  <2> QED BY <1>5, <2>1 DEF RecvError, PlcTypeOK
<1>6. CASE Push(r)
  <2>1. receiver' \in [Receiver -> Thread]
    <3>1. 0 \in 0 .. MaxMessages
      BY PlcReceiveAssumption
    <3>2. [receiver[r] EXCEPT !.pc = "test", !.data = 0] \in Thread
      BY <1>1, <3>1 DEF Thread
    <3> QED BY <1>6, <3>2 DEF Push, PlcTypeOK
  <2>2. receiver[r].data \in 1 .. MaxMessages
    BY <1>1, <1>6 DEF Push, InHand, Thread
  <2>3. pushed' \in Seq(1 .. MaxMessages)
    BY <1>6, <2>2 DEF Push, PlcTypeOK
  <2> QED BY <1>6, <2>1, <2>3 DEF Push, PlcTypeOK
<1>7. CASE MarkEnded(r)
  <2>1. receiver' \in [Receiver -> Thread]
    BY <1>7, GotoThread DEF MarkEnded
  <2> QED BY <1>7, <2>1 DEF MarkEnded, PlcTypeOK
<1> QED
  BY <1>2, <1>3, <1>4, <1>5, <1>6, <1>7 DEF ReceiverStep

\* A step of the PLC, the network or Winsock keeps every variable in its type.
LEMMA NetworkType ==
  ASSUME PlcTypeOK,
         \/ \E h \in Handle : PlcSends(h) \/ LinkBreaks(h)
         \/ SocketsFail
  PROVE  PlcTypeOK'
<1> USE DEF client, network, check
<1>1. ASSUME NEW h \in Handle, PlcSends(h) PROVE PlcTypeOK'
  <2>1. produced' \in 1 .. MaxMessages
    BY <1>1, PlcReceiveAssumption DEF PlcSends, PlcTypeOK
  <2>2. Append(inbox[h], produced') \in Seq(1 .. MaxMessages)
    BY <2>1 DEF PlcTypeOK
  <2>3. inbox' \in [Handle -> Seq(1 .. MaxMessages)]
    BY <1>1, <2>2 DEF PlcSends, PlcTypeOK
  <2>4. produced' \in 0 .. MaxMessages
    BY <2>1
  <2> QED BY <1>1, <2>3, <2>4 DEF PlcSends, PlcTypeOK
<1>2. ASSUME NEW h \in Handle, LinkBreaks(h) PROVE PlcTypeOK'
  <2>1. link' \in [Handle -> {"closed", "open", "fin", "reset"}]
    BY <1>2 DEF LinkBreaks, PlcTypeOK
  <2>2. << >> \in Seq(1 .. MaxMessages)
    OBVIOUS
  <2>3. inbox' \in [Handle -> Seq(1 .. MaxMessages)]
    BY <1>2, <2>2 DEF LinkBreaks, PlcTypeOK
  <2>4. breaks' \in 0 .. MaxBreaks
    BY <1>2, PlcReceiveAssumption DEF LinkBreaks, PlcTypeOK
  <2> QED BY <1>2, <2>1, <2>3, <2>4 DEF LinkBreaks, PlcTypeOK
<1>3. CASE SocketsFail
  <2>1. << >> \in Seq(1 .. MaxMessages)
    OBVIOUS
  <2>2. /\ link' \in [Handle -> {"closed", "open", "fin", "reset"}]
        /\ inbox' \in [Handle -> Seq(1 .. MaxMessages)]
    BY <1>3, <2>1 DEF SocketsFail, PlcTypeOK
  <2> QED BY <1>3, <2>2 DEF SocketsFail, PlcTypeOK
<1> QED BY <1>1, <1>2, <1>3

\* While a thread is over, one such is taken for the new receiver.
LEMMA NewReceiverIsOver ==
  ASSUME PlcTypeOK, Alive # Receiver
  PROVE  NewReceiver \in Receiver /\ NewReceiver \notin Alive
BY DEF NewReceiver, Alive, At

\* A step of the buttons or of the check thread keeps every variable in its type.
LEMMA CheckType ==
  ASSUME PlcTypeOK, TcpConnect \/ CheckStep \/ StopTcpCheckThread
  PROVE  PlcTypeOK'
<1> USE DEF client, network, check
<1>1. CASE TcpConnect \/ StopTcpCheckThread \/ ConnectFails \/ CheckAgain \/ TcpDisconnect
  BY <1>1 DEF TcpConnect, StopTcpCheckThread, ConnectFails, CheckAgain, TcpDisconnect,
              PlcTypeOK
<1>2. CASE Heartbeat
  BY <1>2 DEF Heartbeat, AfterFailedHeartbeat, PlcTypeOK
<1>3. CASE CloseSocket
  <2>1. << >> \in Seq(1 .. MaxMessages)
    OBVIOUS
  <2>2. /\ link' \in [Handle -> {"closed", "open", "fin", "reset"}]
        /\ inbox' \in [Handle -> Seq(1 .. MaxMessages)]
        /\ mSock' \in Handle \cup {NoSock}
    BY <1>3, <2>1 DEF CloseSocket, PlcTypeOK
  <2> QED BY <1>3, <2>2 DEF CloseSocket, PlcTypeOK
<1>4. CASE StopReceiveData
  BY <1>4 DEF StopReceiveData, PlcTypeOK
<1>5. CASE ConnectTo
  <2>1. PICK h \in Handle :
          /\ link' = [link EXCEPT ![h] = "open"]
          /\ mSock' = h
          /\ receiver' = [receiver EXCEPT ![NewReceiver] =
                            [pc |-> "test", sock |-> h, data |-> 0]]
    BY <1>5 DEF ConnectTo
  <2>2. 0 \in 0 .. MaxMessages
    BY PlcReceiveAssumption
  <2>3. [pc |-> "test", sock |-> h, data |-> 0] \in Thread
    BY <2>2 DEF Thread
  <2>4. receiver' \in [Receiver -> Thread]
    BY <2>1, <2>3 DEF PlcTypeOK
  <2>5. link' \in [Handle -> {"closed", "open", "fin", "reset"}]
    BY <2>1 DEF PlcTypeOK
  <2>6. overrun' \in BOOLEAN
    BY <1>5 DEF ConnectTo, PlcTypeOK
  <2> QED BY <1>5, <2>1, <2>4, <2>5, <2>6 DEF ConnectTo, PlcTypeOK
<1> QED
  BY <1>1, <1>2, <1>3, <1>4, <1>5 DEF CheckStep
-----------------------------------------------------------------------------
(* The receiving port: connections and receivers.                          *)

\* Every step keeps a closed handle empty, and the flag clear without a
\* connection.
LEMMA LinksKept ==
  ASSUME PlcInv, PlcNext
  PROVE  NotConnected' /\ OnlyLink'
<1> USE DEF PlcInv, NotConnected, OnlyLink, client, network, check
<1>1. ASSUME NEW h \in Handle, PlcSends(h) \/ LinkBreaks(h)
      PROVE  NotConnected' /\ OnlyLink'
  BY <1>1 DEF PlcSends, LinkBreaks, PlcTypeOK
<1>2. ASSUME NEW r \in Receiver, ReceiverStep(r)
      PROVE  NotConnected' /\ OnlyLink'
  <2>1. CASE Recv(r)
    <3> DEFINE h == receiver[r].sock
    <3>1. h \in Handle
      BY <2>1 DEF Recv, OneReceiver, Alive, At
    <3>2. link[h] # "closed"
      BY <2>1, <3>1 DEF Recv
    <3> QED BY <2>1, <3>1, <3>2 DEF Recv, PlcTypeOK
  <2>2. CASE ~Recv(r)
    BY <1>2, <2>2 DEF ReceiverStep, TestReceiving, RecvEnd, RecvError, Push, MarkEnded
  <2> QED BY <2>1, <2>2
<1>3. CASE SocketsFail
  BY <1>3 DEF SocketsFail
<1>4. CASE TcpConnect \/ StopTcpCheckThread \/ ConnectFails \/ CheckAgain \/ TcpDisconnect
  BY <1>4 DEF TcpConnect, StopTcpCheckThread, ConnectFails, CheckAgain, TcpDisconnect
<1>5. CASE Heartbeat
  BY <1>5 DEF Heartbeat, AfterFailedHeartbeat
<1>6. CASE CloseSocket
  BY <1>6, PlcReceiveAssumption DEF CloseSocket, PlcTypeOK
<1>7. CASE StopReceiveData
  BY <1>7 DEF StopReceiveData
<1>8. CASE ConnectTo
  BY <1>8, PlcReceiveAssumption DEF ConnectTo, PlcTypeOK
<1> QED
  BY <1>1, <1>2, <1>3, <1>4, <1>5, <1>6, <1>7, <1>8 DEF PlcNext, CheckStep

\* While no receiver has outlived its connection unnoticed, one at most is
\* there, it serves the present connection, and it has seen an end only if there
\* is one.
LEMMA OneReceiverKept ==
  ASSUME PlcInv, PlcNext
  PROVE  OneReceiver'
<1> USE DEF PlcInv, OneReceiver, Alive, client, network, check
<1>1. ASSUME NEW h \in Handle, PlcSends(h) \/ LinkBreaks(h)
      PROVE  OneReceiver'
  BY <1>1, PlcReceiveAssumption DEF PlcSends, LinkBreaks, PlcTypeOK, At
<1>2. ASSUME NEW r \in Receiver, ReceiverStep(r)
      PROVE  OneReceiver'
  <2>1. /\ UNCHANGED <<mSock, link, overrun>>
        /\ receiver \in [Receiver -> Thread]
        /\ \A s \in Receiver \ {r} : receiver'[s] = receiver[s]
        /\ receiver[r].pc # "over"
        /\ r \in Alive' => receiver'[r].sock = receiver[r].sock
    BY <1>2 DEF ReceiverStep, TestReceiving, Recv, RecvEnd, RecvError, Push, MarkEnded,
                Goto, Ends, Over, At, PlcTypeOK, Thread
  <2>2. At(r, "ended")' => link[receiver[r].sock] = "fin"
    BY <1>2, <2>1 DEF ReceiverStep, TestReceiving, Recv, RecvEnd, RecvError, Push,
                      MarkEnded, Goto, Ends, Over, At, Thread
  <2> QED BY <2>1, <2>2 DEF At
<1>3. CASE SocketsFail
  BY <1>3, PlcReceiveAssumption DEF SocketsFail, PlcTypeOK, At
<1>4. CASE TcpConnect \/ StopTcpCheckThread \/ ConnectFails \/ CheckAgain \/ TcpDisconnect
  BY <1>4 DEF TcpConnect, StopTcpCheckThread, ConnectFails, CheckAgain, TcpDisconnect, At
<1>5. CASE Heartbeat \/ StopReceiveData
  BY <1>5 DEF Heartbeat, StopReceiveData, At
<1>6. CASE CloseSocket
  BY <1>6 DEF CloseSocket, At
<1>7. CASE ConnectTo
  <2>1. PICK h \in Handle :
          /\ mSock' = h
          /\ receiver' = [receiver EXCEPT ![NewReceiver] =
                            [pc |-> "test", sock |-> h, data |-> 0]]
    BY <1>7 DEF ConnectTo
  <2>2. NewReceiver \in Receiver
    BY <1>7, NewReceiverIsOver DEF ConnectTo
  <2>3. ~overrun' => ~overrun /\ Alive = {}
    BY <1>7 DEF ConnectTo, NotConnected
  <2>4. receiver \in [Receiver -> Thread]
    BY DEF PlcTypeOK
  <2> HIDE DEF NewReceiver
  <2> QED BY <2>1, <2>2, <2>3, <2>4 DEF At
<1> QED
  BY <1>1, <1>2, <1>3, <1>4, <1>5, <1>6, <1>7 DEF PlcNext, CheckStep

\* A receiver pushes only what it has received.
LEMMA InHandKept ==
  ASSUME PlcInv, PlcNext
  PROVE  InHand'
<1> USE DEF PlcInv, InHand, At
<1>1. receiver \in [Receiver -> Thread]
  BY DEF PlcTypeOK
<1>2. ASSUME NEW r \in Receiver, ReceiverStep(r) PROVE InHand'
  <2>1. CASE Recv(r)
    <3> DEFINE h == receiver[r].sock
    <3>1. h \in Handle /\ inbox[h] # << >>
      BY <2>1 DEF Recv, OneReceiver, Alive
    <3>2. Head(inbox[h]) \in 1 .. MaxMessages
      BY <3>1, HeadAndTail
    <3>3. receiver' = [receiver EXCEPT ![r].pc = "push", ![r].data = Head(inbox[h])]
      BY <2>1 DEF Recv
    <3> HIDE DEF h
    <3> QED BY <1>1, <3>2, <3>3 DEF Thread
  <2>2. CASE ~Recv(r)
    BY <1>1, <1>2, <2>2 DEF ReceiverStep, TestReceiving, RecvEnd, RecvError, Push, MarkEnded,
                        Goto, Ends, Over, Thread
  <2> QED BY <2>1, <2>2
<1>3. CASE ConnectTo
  <2>1. NewReceiver \in Receiver
    BY <1>3, NewReceiverIsOver DEF ConnectTo
  <2> HIDE DEF NewReceiver
  <2> QED BY <1>1, <1>3, <2>1 DEF ConnectTo
<1>4. UNCHANGED receiver => InHand'
  OBVIOUS
<1> QED
  BY <1>2, <1>3, <1>4 DEF PlcNext, PlcSends, LinkBreaks, SocketsFail, TcpConnect,
     CheckStep, Heartbeat, CloseSocket, StopReceiveData, ConnectFails, CheckAgain,
     StopTcpCheckThread, TcpDisconnect
-----------------------------------------------------------------------------
(* The receiving port: the order of what is pushed.                        *)

\* The numbers of messages are numbers.
LEMMA MessagesAreNumbers ==
  ASSUME PlcTypeOK
  PROVE  /\ produced \in Nat
         /\ DOMAIN pushed = 1 .. Len(pushed) /\ Len(pushed) \in Nat
         /\ \A i \in DOMAIN pushed : pushed[i] \in Nat
         /\ \A r \in Receiver : receiver[r].data \in Nat
         /\ \A h \in Handle : /\ Len(inbox[h]) \in Nat
                              /\ DOMAIN inbox[h] = 1 .. Len(inbox[h])
                              /\ \A i \in DOMAIN inbox[h] : inbox[h][i] \in Nat
<1> USE PlcReceiveAssumption DEF PlcTypeOK
<1>1. /\ DOMAIN pushed = 1 .. Len(pushed) /\ Len(pushed) \in Nat
      /\ \A i \in DOMAIN pushed : pushed[i] \in 1 .. MaxMessages
  BY LenProperties, ElementOfSeq
<1>2. ASSUME NEW h \in Handle
      PROVE  /\ Len(inbox[h]) \in Nat
             /\ DOMAIN inbox[h] = 1 .. Len(inbox[h])
             /\ \A i \in DOMAIN inbox[h] : inbox[h][i] \in 1 .. MaxMessages
  <2>1. inbox[h] \in Seq(1 .. MaxMessages)
    OBVIOUS
  <2> QED BY <2>1, LenProperties, ElementOfSeq
<1>3. \A r \in Receiver : receiver[r].data \in Nat
  BY DEF Thread
<1> QED BY <1>1, <1>2, <1>3

\* A step that pushes nothing, takes nothing in hand and adds nothing to what
\* has arrived keeps the order.
LEMMA InOrderFrame ==
  ASSUME InOrder, ~overrun' => ~overrun, UNCHANGED <<pushed, produced>>,
         \A h \in Handle : inbox'[h] \in {inbox[h], << >>},
         \A r \in Receiver : At(r, "push")' => receiver'[r] = receiver[r]
  PROVE  InOrder'
<1>1. \A r \in Receiver : At(r, "push")' => At(r, "push")
  BY DEF At
<1>2. \A h \in Handle : \A i \in DOMAIN inbox'[h] : inbox'[h] = inbox[h]
  OBVIOUS
<1> QED BY <1>1, <1>2 DEF InOrder

\* What the PLC sends is newer than all before it.
LEMMA PlcSendsInOrder ==
  ASSUME PlcInv, NEW h \in Handle, PlcSends(h)
  PROVE  InOrder'
<1> SUFFICES ASSUME ~overrun PROVE InOrder'
  BY DEF PlcSends, InOrder
<1>1. /\ produced' = produced + 1
      /\ inbox' = [inbox EXCEPT ![h] = Append(inbox[h], produced + 1)]
      /\ UNCHANGED <<receiver, pushed, overrun>>
  BY DEF PlcSends
<1>2. /\ inbox \in [Handle -> Seq(1 .. MaxMessages)]
      /\ PlcTypeOK /\ InOrder
  BY DEF PlcInv, PlcTypeOK
<1>3. ASSUME NEW k \in Handle, NEW i \in DOMAIN inbox'[k]
      PROVE  /\ i \in Nat
             /\ \/ i \in DOMAIN inbox[k] /\ inbox'[k][i] = inbox[k][i]
                \/ /\ inbox'[k][i] = produced + 1
                   /\ \A j \in DOMAIN inbox'[k] : j <= i
  <2>1. CASE k = h
    <3>1. inbox'[k] = Append(inbox[k], produced + 1) /\ inbox[k] \in Seq(1 .. MaxMessages)
      BY <1>1, <1>2, <2>1
    <3>2. /\ Len(inbox[k]) \in Nat
          /\ DOMAIN inbox'[k] = 1 .. Len(inbox[k]) + 1
          /\ DOMAIN inbox[k] = 1 .. Len(inbox[k])
      BY <3>1, LenProperties
    <3>3. inbox'[k][i] = IF i = Len(inbox[k]) + 1 THEN produced + 1 ELSE inbox[k][i]
      BY <3>1, <3>2
    <3> QED BY <3>2, <3>3
  <2>2. CASE k # h
    BY <1>1, <1>2, <2>2, MessagesAreNumbers
  <2> QED BY <2>1, <2>2
<1>4. /\ \A i, j \in DOMAIN pushed : i < j => pushed[i] < pushed[j]
      /\ \A i \in DOMAIN pushed : pushed[i] <= produced'
      /\ \A r \in Receiver : At(r, "push") =>
           /\ receiver[r].data <= produced'
           /\ \A i \in DOMAIN pushed : pushed[i] < receiver[r].data
  BY <1>1, <1>2, MessagesAreNumbers DEF InOrder
<1>5. ASSUME NEW k \in Handle, NEW i \in DOMAIN inbox'[k]
      PROVE  /\ inbox'[k][i] <= produced'
             /\ \A j \in DOMAIN pushed : pushed[j] < inbox'[k][i]
             /\ \A r \in Receiver : At(r, "push") => receiver[r].data < inbox'[k][i]
  BY <1>1, <1>2, <1>3, MessagesAreNumbers DEF InOrder
<1>6. ASSUME NEW k \in Handle, NEW i \in DOMAIN inbox'[k], NEW j \in DOMAIN inbox'[k], i < j
      PROVE  inbox'[k][i] < inbox'[k][j]
  <2>1. i \in DOMAIN inbox[k] /\ inbox'[k][i] = inbox[k][i]
    <3>1. ~(j <= i)
      <4>1. i \in Nat /\ j \in Nat
        BY <1>3
      <4> QED BY <1>6, <4>1
    <3> QED BY <1>3, <3>1
  <2>2. (inbox'[k][j] = inbox[k][j] /\ j \in DOMAIN inbox[k]) \/ inbox'[k][j] = produced + 1
    BY <1>3
  <2> QED BY <1>2, <1>6, <2>1, <2>2, MessagesAreNumbers DEF InOrder
<1> QED
  BY <1>1, <1>4, <1>5, <1>6 DEF InOrder, At

\* recv takes the oldest of what has arrived; nothing is in hand, and nothing
\* waits at another handle.
LEMMA RecvInOrder ==
  ASSUME PlcInv, NEW r \in Receiver, Recv(r)
  PROVE  InOrder'
<1> SUFFICES ASSUME ~overrun PROVE InOrder'
  BY DEF Recv, InOrder
<1> DEFINE h == receiver[r].sock
<1>1. /\ h \in Handle
      /\ inbox[h] # << >>
      /\ At(r, "recv")
      /\ receiver' = [receiver EXCEPT ![r].pc = "push", ![r].data = Head(inbox[h])]
      /\ inbox' = [inbox EXCEPT ![h] = Tail(inbox[h])]
      /\ UNCHANGED <<link, produced, pushed, overrun>>
  BY DEF Recv, PlcInv, OneReceiver, Alive, At
<1> HIDE DEF h
<1>2. PlcTypeOK /\ InOrder
  BY DEF PlcInv
<1>3. \A k \in Handle \ {h} : inbox[k] = << >>
  BY <1>1 DEF PlcInv, OnlyLink
<1>4. /\ receiver'[r].data = inbox[h][1]
      /\ 1 \in DOMAIN inbox[h]
      /\ \A s \in Receiver : At(s, "push")' => s = r
  <2>1. receiver \in [Receiver -> Thread]
    BY <1>2 DEF PlcTypeOK
  <2>2. Head(inbox[h]) = inbox[h][1] /\ 1 \in DOMAIN inbox[h]
    BY <1>1, <1>2, HeadAndTail, MessagesAreNumbers
  <2>3. \A s \in Receiver \ {r} : s \notin Alive
    BY <1>1 DEF PlcInv, OneReceiver, Alive, At
  <2>4. \A s \in Receiver \ {r} : ~At(s, "push")'
    BY <1>1, <2>1, <2>3 DEF At, Alive
  <2>5. receiver'[r].data = Head(inbox[h])
    BY <1>1, <2>1 DEF Thread
  <2> QED BY <2>2, <2>4, <2>5
<1>5. ASSUME NEW k \in Handle, NEW i \in DOMAIN inbox'[k]
      PROVE  /\ k = h
             /\ i + 1 \in DOMAIN inbox[h]
             /\ inbox'[k][i] = inbox[h][i + 1]
             /\ i \in Nat /\ i >= 1
  <2>1. k = h
    BY <1>1, <1>2, <1>3 DEF PlcTypeOK
  <2>2. inbox'[k] = Tail(inbox[h])
    BY <1>1, <1>2, <2>1 DEF PlcTypeOK
  <2>3. DOMAIN Tail(inbox[h]) = 1 .. Len(Tail(inbox[h]))
    BY <1>1, <1>2, HeadAndTail, LenProperties
  <2>4. i \in 1 .. Len(inbox[h]) - 1 /\ Len(inbox[h]) \in Nat
    BY <1>1, <1>2, <2>1, <2>2, <2>3, HeadAndTail
  <2>5. i + 1 \in DOMAIN inbox[h]
    BY <1>1, <1>2, <2>4, MessagesAreNumbers
  <2>6. inbox'[k][i] = inbox[h][i + 1]
    BY <1>1, <1>2, <2>2, <2>4, HeadAndTail
  <2> QED BY <2>1, <2>4, <2>5, <2>6
<1>6. /\ receiver'[r].data <= produced
      /\ \A i \in DOMAIN pushed : pushed[i] < receiver'[r].data
  BY <1>1, <1>2, <1>4 DEF InOrder
<1>7. ASSUME NEW k \in Handle, NEW i \in DOMAIN inbox'[k]
      PROVE  /\ inbox'[k][i] <= produced
             /\ \A j \in DOMAIN inbox'[k] : i < j => inbox'[k][i] < inbox'[k][j]
             /\ \A j \in DOMAIN pushed : pushed[j] < inbox'[k][i]
             /\ receiver'[r].data < inbox'[k][i]
  <2>1. /\ k = h
        /\ i + 1 \in DOMAIN inbox[h]
        /\ inbox'[k][i] = inbox[h][i + 1]
        /\ i \in Nat /\ i >= 1
    BY <1>5
  <2>2. ASSUME NEW j \in DOMAIN inbox'[k], i < j
        PROVE  inbox'[k][i] < inbox'[k][j]
    <3>1. j + 1 \in DOMAIN inbox[h] /\ inbox'[k][j] = inbox[h][j + 1] /\ j \in Nat
      BY <1>5
    <3> QED BY <1>1, <1>2, <2>1, <2>2, <3>1 DEF InOrder
  <2>3. receiver'[r].data < inbox'[k][i]
    <3>1. 1 < i + 1
      BY <2>1
    <3> QED BY <1>1, <1>2, <1>4, <2>1, <3>1 DEF InOrder
  <2> QED BY <1>1, <1>2, <2>1, <2>2, <2>3 DEF InOrder
<1> QED
  BY <1>1, <1>2, <1>4, <1>6, <1>7 DEF InOrder

\* What is pushed is newer than all that was pushed.
LEMMA PushInOrder ==
  ASSUME PlcInv, NEW r \in Receiver, Push(r)
  PROVE  InOrder'
<1> SUFFICES ASSUME ~overrun PROVE InOrder'
  BY DEF Push, InOrder, check
<1> DEFINE d == receiver[r].data
<1>1. /\ At(r, "push")
      /\ pushed' = Append(pushed, d)
      /\ receiver' = [receiver EXCEPT ![r].pc = "test", ![r].data = 0]
      /\ UNCHANGED <<inbox, produced, overrun>>
  BY DEF Push, network
<1>2. PlcTypeOK /\ InOrder
  BY DEF PlcInv
<1> HIDE DEF d
<1>3. \A s \in Receiver : ~At(s, "push")'
  <2>1. receiver \in [Receiver -> Thread]
    BY <1>2 DEF PlcTypeOK
  <2>2. \A s \in Receiver \ {r} : s \notin Alive
    BY <1>1 DEF PlcInv, OneReceiver, Alive, At
  <2> QED BY <1>1, <2>1, <2>2 DEF At, Alive, Thread
<1>4. ASSUME NEW i \in DOMAIN pushed'
      PROVE  \/ i \in DOMAIN pushed /\ pushed'[i] = pushed[i]
             \/ pushed'[i] = d /\ \A j \in DOMAIN pushed' : j <= i
  <2>1. pushed \in Seq(1 .. MaxMessages)
    BY <1>2 DEF PlcTypeOK
  <2>2. /\ Len(pushed) \in Nat
        /\ DOMAIN pushed' = 1 .. Len(pushed) + 1
        /\ DOMAIN pushed = 1 .. Len(pushed)
    BY <1>1, <2>1, LenProperties
  <2>3. pushed'[i] = IF i = Len(pushed) + 1 THEN d ELSE pushed[i]
    BY <1>1, <2>1, <2>2
  <2> QED BY <2>2, <2>3
<1>5. /\ d <= produced
      /\ \A i \in DOMAIN pushed : pushed[i] < d
      /\ \A h \in Handle : \A i \in DOMAIN inbox[h] : d < inbox[h][i]
  BY <1>1, <1>2 DEF InOrder, d
<1>6. ASSUME NEW i \in DOMAIN pushed'
      PROVE  /\ pushed'[i] <= produced
             /\ \A h \in Handle : \A j \in DOMAIN inbox[h] : pushed'[i] < inbox[h][j]
  BY <1>2, <1>4, <1>5 DEF InOrder
<1>7. ASSUME NEW i \in DOMAIN pushed', NEW j \in DOMAIN pushed', i < j
      PROVE  pushed'[i] < pushed'[j]
  <2>1. ~(j <= i)
    <3>1. DOMAIN pushed' = 1 .. Len(pushed) + 1 /\ Len(pushed) \in Nat
      BY <1>1, <1>2, LenProperties DEF PlcTypeOK
    <3> QED BY <1>7, <3>1
  <2>2. i \in DOMAIN pushed /\ pushed'[i] = pushed[i]
    BY <1>4, <2>1
  <2> QED BY <1>2, <1>4, <1>5, <1>7, <2>2 DEF InOrder
<1> QED
  BY <1>1, <1>2, <1>3, <1>6, <1>7 DEF InOrder

\* Every step keeps the order.
LEMMA InOrderKept ==
  ASSUME PlcInv, PlcNext
  PROVE  InOrder'
<1>1. InOrder /\ receiver \in [Receiver -> Thread] /\ inbox \in [Handle -> Seq(1 .. MaxMessages)]
  BY DEF PlcInv, PlcTypeOK
<1> USE DEF client, network, check
<1>2. ASSUME NEW h \in Handle, LinkBreaks(h) PROVE InOrder'
  BY <1>1, <1>2, InOrderFrame DEF LinkBreaks
<1>3. ASSUME NEW r \in Receiver,
             TestReceiving(r) \/ RecvEnd(r) \/ RecvError(r) \/ MarkEnded(r)
      PROVE  InOrder'
  <2>1. \A s \in Receiver : At(s, "push")' => receiver'[s] = receiver[s]
    BY <1>1, <1>3 DEF TestReceiving, RecvEnd, RecvError, MarkEnded, Goto, Ends, Over, At,
                      Thread
  <2>2. UNCHANGED <<pushed, produced, inbox, overrun>>
    BY <1>3 DEF TestReceiving, RecvEnd, RecvError, MarkEnded
  <2> QED BY <1>1, <2>1, <2>2, InOrderFrame
<1>4. CASE SocketsFail \/ CloseSocket
  BY <1>1, <1>4, InOrderFrame DEF SocketsFail, CloseSocket
<1>5. CASE TcpConnect \/ StopTcpCheckThread \/ ConnectFails \/ CheckAgain
           \/ TcpDisconnect \/ Heartbeat \/ StopReceiveData
  BY <1>1, <1>5, InOrderFrame DEF TcpConnect, StopTcpCheckThread, ConnectFails, CheckAgain,
     TcpDisconnect, Heartbeat, StopReceiveData
<1>6. CASE ConnectTo
  <2>1. NewReceiver \in Receiver
    BY <1>6, NewReceiverIsOver DEF ConnectTo, PlcInv
  <2>2. \A s \in Receiver : At(s, "push")' => receiver'[s] = receiver[s]
    <3> HIDE DEF NewReceiver
    <3> QED BY <1>1, <1>6, <2>1 DEF ConnectTo, At
  <2>3. UNCHANGED <<pushed, produced, inbox>> /\ (~overrun' => ~overrun)
    BY <1>6 DEF ConnectTo
  <2> QED BY <1>1, <2>2, <2>3, InOrderFrame
<1> QED
  BY <1>2, <1>3, <1>4, <1>5, <1>6, PlcSendsInOrder, RecvInOrder, PushInOrder
  DEF PlcNext, ReceiverStep, CheckStep
-----------------------------------------------------------------------------
(* The receiving port: the theorems.                                       *)

\* Every step keeps the inductive invariant.
LEMMA PlcNextInv == PlcInv /\ [PlcNext]_plcVars => PlcInv'
<1> SUFFICES ASSUME PlcInv, [PlcNext]_plcVars PROVE PlcInv'
  OBVIOUS
<1>1. CASE PlcNext
  <2>1. PlcTypeOK'
    BY <1>1, ReceiverType, NetworkType, CheckType DEF PlcNext, PlcInv
  <2> QED
    BY <1>1, <2>1, LinksKept, OneReceiverKept, InHandKept, InOrderKept DEF PlcInv
<1>2. CASE UNCHANGED plcVars
  BY <1>2 DEF plcVars, client, network, PlcInv, PlcTypeOK, NotConnected, OnlyLink,
              OneReceiver, Alive, InHand, InOrder, At
<1> QED BY <1>1, <1>2

\* One receiver at most, and an ordered ring, are what OneProducer says.
LEMMA PlcInvOneProducer == PlcInv => OneProducer
<1> SUFFICES ASSUME PlcInv, ~overrun
             PROVE  /\ Cardinality(Alive) <= 1
                    /\ \A i, j \in DOMAIN pushed : i < j => pushed[i] < pushed[j]
  BY DEF OneProducer
<1>1. CASE Alive = {}
  BY <1>1, FS_EmptySet DEF PlcInv, InOrder
<1>2. CASE Alive # {}
  <2>1. PICK r \in Alive : Alive = {r}
    BY <1>2 DEF PlcInv, OneReceiver
  <2>2. Cardinality(Alive) = 1
    BY <2>1, FS_Singleton
  <2> QED BY <2>2 DEF PlcInv, InOrder
<1> QED BY <1>1, <1>2

\* The inductive invariant of a receiving port holds in every reachable state.
THEOREM PlcInvariant == PlcSpec => []PlcInv
<1> QED BY PlcInitInv, PlcNextInv, PTL DEF PlcSpec

\* The ring has one producer at a time, and gets the messages in order.
THEOREM PlcOneProducer == PlcSpec => []OneProducer
<1> QED BY PlcInvariant, PlcInvOneProducer, PTL
-----------------------------------------------------------------------------
(* Under the main thread.                                                  *)

\* Every step of the program is a step of the port or leaves it alone.
LEMMA StepIsPlc == [Next]_vars => [PlcNext]_plcVars
BY DEF Next, vars, Environment, ReceiverRuns, CheckRuns, UdpRuns,
       Construct, ConstructWithoutPort, ConstructWithoutSocket, Run, Stop, CleanUp,
       MainCloses, StopUdp, Cleanup, WsaCleanup, StopPda, StopPlc, CleanedUp, PlcNext

\* Every step of the program is a step of the UDP receiver or leaves it alone.
LEMMA StepIsUdp == [Next]_vars => [UdpNext]_udpVars
BY DEF Next, vars, Environment, ReceiverRuns, CheckRuns, UdpRuns,
       Construct, ConstructWithoutPort, ConstructWithoutSocket, Run, Stop, CleanUp,
       MainCloses, StopUdp, Cleanup, WsaCleanup, StopPda, StopPlc, CleanedUp, UdpNext

\* The program uses the port as PlcReceive allows, ...
THEOREM IntakeUsesPlc == Spec => PlcSpec
<1>1. Init => PlcInit
  BY DEF Init
<1> QED BY <1>1, StepIsPlc, PTL DEF Spec, PlcSpec

\* ... and the UDP receiver as UdpReceiver allows.
THEOREM IntakeUsesUdp == Spec => UdpSpec
<1>1. Init => UdpInit
  BY DEF Init
<1> QED BY <1>1, StepIsUdp, PTL DEF Spec, UdpSpec

\* Whatever buttons are pressed and whenever the window is closed, the ring of
\* the port has one producer at a time and gets the messages in order, ...
THEOREM IntakeOneProducer == Spec => []OneProducer
BY IntakeUsesPlc, PlcOneProducer, PTL

\* ... and nothing is called back behind the end of the UDP receiver.
THEOREM IntakeQuietAfterStop == Spec => NoCallbackAfterStop
BY IntakeUsesUdp, UdpQuietAfterStop, PTL

\* Every variable of the composed system has its type.
THEOREM TypeCorrect == Spec => []TypeOK
<1> DEFINE MainType == /\ main \in {"starting", "running", "udp", "pda", "plc",
                                    "closed", "hung"}
                       /\ winsock \in BOOLEAN
                       /\ scanner \in BOOLEAN
                       /\ runs \in 0 .. MaxRuns
<1>1. Init => MainType
  <2>1. 0 \in 0 .. MaxRuns
    BY IntakeAssumption
  <2> QED BY <2>1 DEF Init
<1>2. MainType /\ [Next]_vars => MainType'
  <2> SUFFICES ASSUME MainType, [Next]_vars PROVE MainType'
    OBVIOUS
  <2>1. CASE Run
    BY <2>1, IntakeAssumption DEF Run
  <2>2. CASE Construct \/ ConstructWithoutPort \/ ConstructWithoutSocket \/ Stop \/ CleanUp
    BY <2>2 DEF Construct, ConstructWithoutPort, ConstructWithoutSocket, WsaCleanup, Stop,
                CleanUp
  <2>3. CASE MainCloses
    BY <2>3 DEF MainCloses, StopUdp, Cleanup, WsaCleanup, StopPda, StopPlc, CleanedUp
  <2>4. CASE Environment \/ CheckRuns \/ UdpRuns
    BY <2>4 DEF Environment, CheckRuns, UdpRuns
  <2>5. CASE (\E r \in Receiver : ReceiverRuns(r)) \/ UNCHANGED vars
    BY <2>5 DEF ReceiverRuns, vars
  <2> QED BY <2>1, <2>2, <2>3, <2>4, <2>5 DEF Next
<1>3. PlcInv /\ UdpInv /\ MainType => TypeOK
  BY DEF PlcInv, UdpInv, TypeOK
<1> QED
  BY <1>1, <1>2, <1>3, IntakeUsesPlc, IntakeUsesUdp, PlcInvariant, UdpInvariant, PTL DEF Spec
=============================================================================
