------------------------------- MODULE Intake -------------------------------
(***************************************************************************)
(* What feeds the rings, under the main thread: the UDP receiver of the     *)
(* supply stations, a receiving port of the PLC, the run and the stop       *)
(* button, and dataProCleanUp, which ends both when the window is closed.   *)
(* UdpReceiver::stop also calls WSACleanup.  Winsock counts its users: when   *)
(* no other part of the program (Qt, the MySQL library) holds it, every       *)
(* socket fails.                                                            *)
(***************************************************************************)
EXTENDS PlcReceive, UdpReceiver

CONSTANT MaxRuns   \* bound: how often the run button is pressed

ASSUME IntakeAssumption == MaxRuns \in Nat

VARIABLES
  main,      \* "starting", then "running" until the window is closed, "udp", "pda",
             \* "plc" (the steps of dataProCleanUp) and "closed", or "hung"
  winsock,   \* Winsock is there
  scanner,   \* a hand scanner was connected to the server of PdaServer when the
             \* window was closed: behind that the event loop hears of none
  runs

vars == <<plcVars, udpVars, main, winsock, scanner, runs>>

Init ==
  /\ PlcInit
  /\ UdpInit
  /\ main = "starting"
  /\ winsock = TRUE
  /\ scanner = FALSE
  /\ runs = 0

\* WSACleanup: the other users of Winsock may keep it.
WsaCleanup ==
  \/ winsock' = FALSE /\ SocketsFail
  \/ UNCHANGED <<winsock, plcVars>>

\* The constructor of DataProcess starts the UDP receiver, ...
Construct ==
  /\ main = "starting"
  /\ main' = "running"
  /\ UdpStart
  /\ UNCHANGED <<plcVars, winsock, scanner, runs>>

\* ... which may get no port, ...
ConstructWithoutPort ==
  /\ main = "starting"
  /\ main' = "running"
  /\ UNCHANGED <<plcVars, udpVars, winsock, scanner, runs>>

\* ... or no socket, and then gives up Winsock.
ConstructWithoutSocket ==
  /\ main = "starting"
  /\ main' = "running"
  /\ WsaCleanup
  /\ UNCHANGED <<udpVars, scanner, runs>>

\* The run button, dataProInit.
Run ==
  /\ main = "running"
  /\ runs < MaxRuns
  /\ runs' = runs + 1
  /\ TcpConnect
  /\ UNCHANGED <<udpVars, main, winsock, scanner>>

\* The stop button.
Stop ==
  /\ main = "running"
  /\ StopTcpCheckThread
  /\ UNCHANGED <<udpVars, main, winsock, scanner, runs>>

\* The window is closed, with a scanner connected or not.
CleanUp ==
  /\ main = "running"
  /\ checker \notin {"first", "firstConnect"}
  /\ main' = "udp"
  /\ scanner' \in BOOLEAN
  /\ UNCHANGED <<plcVars, udpVars, winsock, runs>>

\* UdpReceiver::stop up to the join.
StopUdp ==
  /\ main = "udp"
  /\ UdpStops \/ UdpCloseSocket \/ UdpJoin
  /\ UNCHANGED <<plcVars, main, winsock, scanner, runs>>

\* Winsock is given up, if stop had a thread to end.
Cleanup ==
  /\ main = "udp"
  /\ udpStop = "stopped"
  /\ main' = "pda"
  /\ IF udpThread = "over" THEN WsaCleanup ELSE UNCHANGED <<winsock, plcVars>>
  /\ UNCHANGED <<udpVars, scanner, runs>>

\* QtTcpServer::stop disconnects a scanner, and waits for the mutex it holds: see
\* StopEnds in PdaServer.  Without one it returns.
StopPda ==
  /\ main = "pda"
  /\ main' = IF scanner THEN "hung" ELSE "plc"
  /\ UNCHANGED <<plcVars, udpVars, winsock, scanner, runs>>

\* tcpDisconnect: the check thread is ended, if it runs.
StopPlc ==
  /\ main = "plc"
  /\ StopTcpCheckThread
  /\ UNCHANGED <<udpVars, main, winsock, scanner, runs>>

CleanedUp ==
  /\ main = "plc"
  /\ checker = "off"
  /\ main' = "closed"
  /\ UNCHANGED <<plcVars, udpVars, winsock, scanner, runs>>
-----------------------------------------------------------------------------
Environment ==
  /\ \/ (\E h \in Handle : PlcSends(h) \/ LinkBreaks(h)) /\ UNCHANGED udpVars
     \/ DatagramArrives /\ UNCHANGED plcVars
  /\ UNCHANGED <<main, winsock, scanner, runs>>

ReceiverRuns(r) == ReceiverStep(r) /\ UNCHANGED <<udpVars, main, winsock, scanner, runs>>

\* Without Winsock there is no new socket.
CheckRuns ==
  /\ CheckStep
  /\ checker \in {"connect", "firstConnect"} /\ link' # link => winsock
  /\ UNCHANGED <<udpVars, main, winsock, scanner, runs>>

UdpRuns == UdpLoop /\ UNCHANGED <<plcVars, main, winsock, scanner, runs>>

MainCloses == StopUdp \/ Cleanup \/ StopPda \/ StopPlc \/ CleanedUp

Next ==
  \/ Environment
  \/ \E r \in Receiver : ReceiverRuns(r)
  \/ CheckRuns
  \/ UdpRuns
  \/ Construct \/ ConstructWithoutPort \/ ConstructWithoutSocket
  \/ Run \/ Stop \/ CleanUp
  \/ MainCloses

Spec == Init /\ [][Next]_vars

\* The threads run, and the PLC accepts connections: not every attempt fails.
FairSpec ==
  /\ Spec
  /\ \A r \in Receiver : WF_vars(ReceiverRuns(r))
  /\ WF_vars(CheckRuns)
  /\ SF_vars(CheckRuns /\ ConnectTo)
  /\ WF_vars(UdpRuns)
  /\ WF_vars(MainCloses)
-----------------------------------------------------------------------------
(* Properties.                                                             *)

TypeOK ==
  /\ PlcTypeOK
  /\ UdpTypeOK
  /\ main \in {"starting", "running", "udp", "pda", "plc", "closed", "hung"}
  /\ winsock \in BOOLEAN
  /\ scanner \in BOOLEAN
  /\ runs \in 0 .. MaxRuns

\* The connection is there, and the program takes it for one.
Good == socketConnection /\ LinkIs({"open"})

\* While the check thread runs, a connection that has ended or failed, or that was
\* never made, is made again, whichever thread notices; so is one that is good but
\* has lost its flag to a receiver of an earlier connection, which saw the end of
\* that one late.
LinkComesBack == tcpChecking /\ ~Good ~> Good \/ ~tcpChecking \/ ~winsock

\* Closing the window ends the UDP thread, the check thread and every receiver
\* of the PLC, also a detached one that nobody waits for, whatever they are
\* doing; WSACleanup in the middle of it stops nothing that is still waited for.
\* That is without a hand scanner: with one connected the main thread hangs before
\* it comes to the check thread, and nobody ends the receivers.
CleanUpEnds ==
  main = "udp" /\ ~scanner ~> main = "closed" /\ checker = "off" /\ Alive = {}
=============================================================================
