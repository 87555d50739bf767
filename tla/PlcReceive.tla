----------------------------- MODULE PlcReceive -----------------------------
(***************************************************************************)
(* A receiving port of the PLC (the unload port; the port of the slot       *)
(* status runs the same code): SocketClient with its receiver thread        *)
(* (tcpsocketclient.cpp), and plcRecvUnloadTcpConnect, called by the run    *)
(* button and then by the check thread (dataprocess.cpp).                   *)
(*                                                                          *)
(* disconnect does not wait for the receiver, which is detached: it clears  *)
(* receiving, and the receiver ends when it next tests it.  connectTo sets  *)
(* the flag again.  overrun remembers that it did so while a receiver had   *)
(* not yet ended; the code counts on the 200 ms before it.  A handle that   *)
(* was closed may be given out again for the next connection.               *)
(***************************************************************************)
EXTENDS Naturals, Sequences, FiniteSets

CONSTANTS
  Handle,       \* socket handles
  NoSock,       \* INVALID_SOCKET
  Receiver,     \* receiver threads, used again once they have ended
  MaxMessages,  \* bound: what the PLC sends
  MaxBreaks     \* bound: how often a connection ends or fails

ASSUME PlcReceiveAssumption ==
  /\ NoSock \notin Handle
  /\ MaxMessages \in Nat
  /\ MaxBreaks \in Nat

VARIABLES
  mSock, socketConnection, receiving,
  link,       \* per handle: "closed", "open", "fin" (the PLC has ended it) or
              \* "reset" (it fails)
  inbox,      \* per handle, what has arrived and was not received
  receiver,   \* per thread: where it is, its handle, what it has received
  pushed,     \* what was pushed into the ring, in order
  checker,    \* tcpConnect, then the check thread, then tcpDisconnect
  tcpChecking,
  produced,   \* how many messages the PLC has sent
  breaks,
  overrun     \* ghost, see above

client == <<mSock, socketConnection, receiving>>
network == <<link, inbox, produced, breaks>>
plcVars == <<client, network, receiver, pushed, checker, tcpChecking,
             overrun>>
check == <<checker, tcpChecking>>

Over == [pc |-> "over", sock |-> NoSock, data |-> 0]

PlcInit ==
  /\ mSock = NoSock
  /\ socketConnection = FALSE
  /\ receiving = FALSE
  /\ link = [h \in Handle |-> "closed"]
  /\ inbox = [h \in Handle |-> << >>]
  /\ receiver = [r \in Receiver |-> Over]
  /\ pushed = << >>
  /\ checker = "off"
  /\ tcpChecking = FALSE
  /\ produced = 0
  /\ breaks = 0
  /\ overrun = FALSE

LinkIs(states) == mSock # NoSock /\ link[mSock] \in states

Alive == {r \in Receiver : receiver[r].pc # "over"}
-----------------------------------------------------------------------------
(* The PLC and the network.                                                *)

PlcSends(h) ==
  /\ link[h] = "open"
  /\ produced < MaxMessages
  /\ produced' = produced + 1
  /\ inbox' = [inbox EXCEPT ![h] = Append(@, produced')]
  /\ UNCHANGED <<client, link, breaks, receiver, pushed, check, overrun>>

LinkBreaks(h) ==
  /\ link[h] = "open"
  /\ breaks < MaxBreaks
  /\ breaks' = breaks + 1
  /\ \/ link' = [link EXCEPT ![h] = "fin"] /\ UNCHANGED inbox
     \/ /\ link' = [link EXCEPT ![h] = "reset"]
        /\ inbox' = [inbox EXCEPT ![h] = << >>]
  /\ UNCHANGED <<client, produced, receiver, pushed, check, overrun>>

\* Winsock is gone: every socket fails.
SocketsFail ==
  /\ link' = [h \in Handle |-> IF link[h] = "closed" THEN "closed" ELSE "reset"]
  /\ inbox' = [h \in Handle |-> << >>]
  /\ UNCHANGED <<client, produced, breaks, receiver, pushed, check, overrun>>
-----------------------------------------------------------------------------
(* receiveData.                                                            *)

At(r, pc) == receiver[r].pc = pc
Goto(r, pc) == receiver' = [receiver EXCEPT ![r].pc = pc]
Ends(r) == receiver' = [receiver EXCEPT ![r] = Over]

\* while (receiving)
TestReceiving(r) ==
  /\ At(r, "test")
  /\ \/ receiving /\ Goto(r, "recv")
     \/ ~receiving /\ Ends(r)
  /\ UNCHANGED <<client, network, pushed, check, overrun>>

\* recv returns data, ...
Recv(r) ==
  LET h == receiver[r].sock
  IN  /\ At(r, "recv")
      /\ inbox[h] # << >>
      /\ receiver' = [receiver EXCEPT ![r].pc = "push", ![r].data = Head(inbox[h])]
      /\ inbox' = [inbox EXCEPT ![h] = Tail(@)]
      /\ UNCHANGED <<client, link, produced, breaks, pushed, check, overrun>>

\* ... the end of the connection, ...
RecvEnd(r) ==
  LET h == receiver[r].sock
  IN  /\ At(r, "recv")
      /\ inbox[h] = << >>
      /\ link[h] = "fin"
      /\ Goto(r, "ended")
      /\ UNCHANGED <<client, network, pushed, check, overrun>>

\* ... or an error, which is not looked at.
RecvError(r) ==
  /\ At(r, "recv")
  /\ link[receiver[r].sock] \in {"reset", "closed"}
  /\ Goto(r, "test")
  /\ UNCHANGED <<client, network, pushed, check, overrun>>

\* The callback, try_push.
Push(r) ==
  /\ At(r, "push")
  /\ pushed' = Append(pushed, receiver[r].data)
  /\ receiver' = [receiver EXCEPT ![r].pc = "test", ![r].data = 0]
  /\ UNCHANGED <<client, network, check, overrun>>

MarkEnded(r) ==
  /\ At(r, "ended")
  /\ socketConnection' = FALSE
  /\ Ends(r)
  /\ UNCHANGED <<mSock, receiving, network, pushed, check, overrun>>

ReceiverStep(r) ==
  \/ TestReceiving(r)
  \/ Recv(r) \/ RecvEnd(r) \/ RecvError(r)
  \/ Push(r) \/ MarkEnded(r)
-----------------------------------------------------------------------------
(* Connecting.                                                             *)

\* The run button: connect, without a disconnect before it.
TcpConnect ==
  /\ checker = "off"
  /\ checker' = "first"
  /\ tcpChecking' = TRUE
  /\ UNCHANGED <<client, network, receiver, pushed, overrun>>

\* The check thread disconnects first, the run button does not.
AfterFailedHeartbeat ==
  IF checker = "first" THEN "firstConnect" ELSE "close"

\* Faulty variant: no heartbeat is sent, the flag alone is asked.
HeartbeatOfFlagOnly ==
  /\ checker \in {"first", "check"}
  /\ checker' = IF socketConnection THEN "rest" ELSE AfterFailedHeartbeat
  /\ UNCHANGED <<client, network, receiver, pushed, tcpChecking, overrun>>

\* connectStatus: connected, and a heartbeat can be sent.  To an ended
\* connection it can, at first.
Heartbeat ==
  /\ checker \in {"first", "check"}
  /\ \/ /\ socketConnection
        /\ link[mSock] \in {"open", "fin"}
        /\ checker' = "rest"
        /\ UNCHANGED socketConnection
     \/ /\ socketConnection
        /\ link[mSock] \in {"fin", "reset"}
        /\ socketConnection' = FALSE   \* sendData fails
        /\ checker' = AfterFailedHeartbeat
     \/ /\ ~socketConnection
        /\ checker' = AfterFailedHeartbeat
        /\ UNCHANGED socketConnection
  /\ UNCHANGED <<mSock, receiving, network, receiver, pushed, tcpChecking,
                 overrun>>

\* disconnect, by the check thread or by tcpDisconnect: the socket is closed,
\* and then the flags are cleared.
CloseSocket ==
  /\ checker \in {"close", "stopClose"}
  /\ \/ /\ mSock # NoSock
        /\ link' = [link EXCEPT ![mSock] = "closed"]
        /\ inbox' = [inbox EXCEPT ![mSock] = << >>]
        /\ mSock' = NoSock
     \/ mSock = NoSock /\ UNCHANGED <<link, inbox, mSock>>
  /\ checker' = IF checker = "close" THEN "flags" ELSE "stopFlags"
  /\ UNCHANGED <<socketConnection, receiving, produced, breaks, receiver, pushed,
                 tcpChecking, overrun>>

\* Faulty variant: receiving stays set.
StopReceiveDataKeepsOn ==
  /\ checker \in {"flags", "stopFlags"}
  /\ socketConnection' = FALSE
  /\ checker' = IF checker = "flags" THEN "connect" ELSE "off"
  /\ UNCHANGED <<mSock, receiving, network, receiver, pushed, tcpChecking,
                 overrun>>

\* stopReceiveData; the thread is detached, so that there is nothing to join.
StopReceiveData ==
  /\ checker \in {"flags", "stopFlags"}
  /\ socketConnection' = FALSE
  /\ receiving' = FALSE
  /\ checker' = IF checker = "flags" THEN "connect" ELSE "off"
  /\ UNCHANGED <<mSock, network, receiver, pushed, tcpChecking, overrun>>

\* Any thread that has ended stands for the new one.
NewReceiver == CHOOSE r \in Receiver : At(r, "over")

\* connectTo, 200 ms after a disconnect: a handle, the flags, a receiver; or no
\* connection.  A receiver that still runs although it was told to end takes
\* the flag as meant for it.
ConnectTo ==
  /\ checker \in {"connect", "firstConnect"}
  /\ Alive # Receiver
  /\ \E h \in Handle :
       /\ link[h] = "closed"
       /\ link' = [link EXCEPT ![h] = "open"]
       /\ mSock' = h
       /\ receiver' = [receiver EXCEPT ![NewReceiver] =
                         [pc |-> "test", sock |-> h, data |-> 0]]
  /\ socketConnection' = TRUE
  /\ receiving' = TRUE
  /\ overrun' = (overrun \/ (~receiving /\ Alive # {}))
  /\ checker' = "rest"
  /\ UNCHANGED <<inbox, produced, breaks, pushed, tcpChecking>>

ConnectFails ==
  /\ checker \in {"connect", "firstConnect"}
  /\ checker' = "rest"
  /\ UNCHANGED <<client, network, receiver, pushed, tcpChecking, overrun>>

\* The check thread looks again, every five seconds.
CheckAgain ==
  /\ checker = "rest"
  /\ tcpChecking
  /\ checker' = "check"
  /\ UNCHANGED <<client, network, receiver, pushed, tcpChecking, overrun>>

\* The stop button, or the end of the program: the check thread is told to end,
\* ...
StopTcpCheckThread ==
  /\ tcpChecking
  /\ checker \notin {"first", "firstConnect"}
  /\ tcpChecking' = FALSE
  /\ UNCHANGED <<client, network, receiver, pushed, checker, overrun>>

\* ... joined, and the socket is closed.
TcpDisconnect ==
  /\ checker = "rest"
  /\ ~tcpChecking
  /\ checker' = "stopClose"
  /\ UNCHANGED <<client, network, receiver, pushed, tcpChecking, overrun>>

CheckStep ==
  \/ Heartbeat \/ CloseSocket \/ StopReceiveData \/ ConnectTo \/ ConnectFails
  \/ CheckAgain \/ TcpDisconnect
-----------------------------------------------------------------------------
PlcNext ==
  \/ \E h \in Handle : PlcSends(h) \/ LinkBreaks(h)
  \/ \E r \in Receiver : ReceiverStep(r)
  \/ TcpConnect \/ CheckStep \/ StopTcpCheckThread
  \/ SocketsFail

PlcSpec == PlcInit /\ [][PlcNext]_plcVars
-----------------------------------------------------------------------------
(* Properties.                                                             *)

Thread == [pc : {"over", "test", "recv", "push", "ended"},
           sock : Handle \cup {NoSock}, data : 0 .. MaxMessages]

PlcTypeOK ==
  /\ mSock \in Handle \cup {NoSock}
  /\ socketConnection \in BOOLEAN
  /\ receiving \in BOOLEAN
  /\ link \in [Handle -> {"closed", "open", "fin", "reset"}]
  /\ inbox \in [Handle -> Seq(1 .. MaxMessages)]
  /\ receiver \in [Receiver -> Thread]
  /\ pushed \in Seq(1 .. MaxMessages)
  /\ checker \in {"off", "first", "check", "close", "flags", "connect",
                  "firstConnect", "rest", "stopClose", "stopFlags"}
  /\ tcpChecking \in BOOLEAN
  /\ produced \in 0 .. MaxMessages
  /\ breaks \in 0 .. MaxBreaks
  /\ overrun \in BOOLEAN

\* Through breaks, reconnects and handles that are given out again, the ring
\* has one producer at a time, and what it gets is in the order the PLC sent it,
\* as long as every receiver that was told to end has done so before the next
\* connection.  The 200 ms before a reconnection do not promise that, and before
\* the first connection of a run there is no such wait.
OneProducer ==
  ~overrun =>
    /\ Cardinality(Alive) <= 1
    /\ \A i, j \in DOMAIN pushed : i < j => pushed[i] < pushed[j]

\* The inductive invariant behind it.  Between a disconnect and
\* the next connection there is no handle, and the flag that keeps a receiver
\* going is clear.
NotConnected ==
  /\ checker \in {"off", "first", "firstConnect", "connect"} => ~receiving
  /\ checker \in {"off", "first", "firstConnect", "connect", "flags", "stopFlags"}
       => mSock = NoSock

OnlyLink ==
  \A h \in Handle : /\ link[h] # "closed" => h = mSock
                    /\ link[h] = "closed" => inbox[h] = << >>

\* A receiver that has seen an end has seen that of the present connection.
OneReceiver ==
  /\ \A r \in Alive : receiver[r].sock \in Handle
  /\ ~overrun =>
       /\ \A r, s \in Alive : r = s
       /\ \A r \in Alive : mSock # NoSock =>
            receiver[r].sock = mSock /\ (At(r, "ended") => link[mSock] # "open")

\* What was pushed comes before what is in hand, that before what has arrived.
InOrder ==
  ~overrun =>
    /\ \A i, j \in DOMAIN pushed : i < j => pushed[i] < pushed[j]
    /\ \A i \in DOMAIN pushed : pushed[i] <= produced
    /\ \A r \in Receiver : At(r, "push") =>
         /\ receiver[r].data <= produced
         /\ \A i \in DOMAIN pushed : pushed[i] < receiver[r].data
    /\ \A h \in Handle : \A i \in DOMAIN inbox[h] :
         /\ inbox[h][i] <= produced
         /\ \A j \in DOMAIN inbox[h] : i < j => inbox[h][i] < inbox[h][j]
         /\ \A j \in DOMAIN pushed : pushed[j] < inbox[h][i]
         /\ \A r \in Receiver : At(r, "push") => receiver[r].data < inbox[h][i]

InHand == \A r \in Receiver : At(r, "push") => receiver[r].data # 0

PlcInv ==
  PlcTypeOK /\ NotConnected /\ OnlyLink /\ OneReceiver /\ InHand /\ InOrder
=============================================================================
