---------------------------- MODULE UdpReceiver ----------------------------
(***************************************************************************)
(* The UDP receiver (udpreceiver.h): start opens a socket and a thread that *)
(* waits in select, receives a datagram and calls the callback; stop clears *)
(* running_, closes the socket under the thread, and waits for it.  The     *)
(* thread reads sock_ each time, so that it may find it gone between two    *)
(* calls.  Its waiting ends after 500 ms, with nothing.                     *)
(***************************************************************************)
EXTENDS Naturals

CONSTANT MaxDatagrams   \* bound: what is sent to the port

ASSUME UdpAssumption == MaxDatagrams \in Nat

VARIABLES
  running,    \* running_
  udpSock,    \* sock_ is a socket
  udpThread,  \* runLoop
  udpStop,    \* stop
  arrived,    \* datagrams that wait at the socket
  datagrams,  \* datagrams sent so far
  delivered   \* calls of the callback

udpVars == <<running, udpSock, udpThread, udpStop, arrived, datagrams, delivered>>

UdpInit ==
  /\ running = FALSE
  /\ udpSock = FALSE
  /\ udpThread = "none"
  /\ udpStop = "no"
  /\ arrived = 0
  /\ datagrams = 0
  /\ delivered = 0

\* start: a socket, the port, and the thread.
UdpStart ==
  /\ udpStop = "no"
  /\ ~running
  /\ running' = TRUE
  /\ udpSock' = TRUE
  /\ udpThread' = "wait"
  /\ UNCHANGED <<udpStop, arrived, datagrams, delivered>>

DatagramArrives ==
  /\ udpSock
  /\ datagrams < MaxDatagrams
  /\ datagrams' = datagrams + 1
  /\ arrived' = arrived + 1
  /\ UNCHANGED <<running, udpSock, udpThread, udpStop, delivered>>
-----------------------------------------------------------------------------
(* runLoop.                                                                *)

\* The test of running_ and the select after it: a datagram is there, or (when
\* the time is up, or the socket gone) the test comes again.
UdpWait ==
  /\ udpThread = "wait"
  /\ \/ running /\ udpSock /\ arrived > 0 /\ udpThread' = "recvfrom"
     \/ ~running /\ udpThread' = "over"
  /\ UNCHANGED <<running, udpSock, udpStop, arrived, datagrams, delivered>>

UdpRecvFrom ==
  /\ udpThread = "recvfrom"
  /\ \/ /\ udpSock
        /\ arrived' = arrived - 1
        /\ udpThread' = "call"
     \/ /\ ~udpSock
        /\ udpThread' = "wait"
        /\ UNCHANGED arrived
  /\ UNCHANGED <<running, udpSock, udpStop, datagrams, delivered>>

UdpCallback ==
  /\ udpThread = "call"
  /\ delivered' = delivered + 1
  /\ udpThread' = "wait"
  /\ UNCHANGED <<running, udpSock, udpStop, arrived, datagrams>>
-----------------------------------------------------------------------------
(* stop.                                                                   *)

\* Faulty variant: running_ is not cleared.
UdpStopsLeavesRunning ==
  /\ udpStop = "no"
  /\ udpStop' = IF running THEN "close" ELSE "stopped"
  /\ UNCHANGED <<running, udpSock, udpThread, arrived, datagrams, delivered>>

\* A receiver that does not run is stopped already.
UdpStops ==
  /\ udpStop = "no"
  /\ udpStop' = IF running THEN "close" ELSE "stopped"
  /\ running' = FALSE
  /\ UNCHANGED <<udpSock, udpThread, arrived, datagrams, delivered>>

UdpCloseSocket ==
  /\ udpStop = "close"
  /\ udpSock' = FALSE
  /\ arrived' = 0
  /\ udpStop' = "join"
  /\ UNCHANGED <<running, udpThread, datagrams, delivered>>

\* Faulty variant: the thread is left to itself.
UdpJoinDetaches ==
  /\ udpStop = "join"
  /\ udpStop' = "stopped"
  /\ UNCHANGED <<running, udpSock, udpThread, arrived, datagrams, delivered>>

UdpJoin ==
  /\ udpStop = "join"
  /\ udpThread = "over"
  /\ udpStop' = "stopped"
  /\ UNCHANGED <<running, udpSock, udpThread, arrived, datagrams, delivered>>

UdpLoop == UdpWait \/ UdpRecvFrom \/ UdpCallback

UdpNext ==
  \/ UdpStart \/ DatagramArrives
  \/ UdpLoop
  \/ UdpStops \/ UdpCloseSocket \/ UdpJoin

UdpSpec == UdpInit /\ [][UdpNext]_udpVars
-----------------------------------------------------------------------------
(* Properties.                                                             *)

UdpTypeOK ==
  /\ running \in BOOLEAN
  /\ udpSock \in BOOLEAN
  /\ udpThread \in {"none", "wait", "recvfrom", "call", "over"}
  /\ udpStop \in {"no", "close", "join", "stopped"}
  /\ arrived \in 0 .. MaxDatagrams
  /\ datagrams \in 0 .. MaxDatagrams
  /\ delivered \in 0 .. MaxDatagrams

\* The inductive invariant: every datagram is counted once, a thread behind its
\* select finds one or no socket, and stop returns behind the end of the thread.
UdpCounted ==
  /\ arrived + delivered + (IF udpThread = "call" THEN 1 ELSE 0) <= datagrams
  /\ udpThread = "recvfrom" /\ udpSock => arrived > 0

UdpStopping ==
  /\ running => udpStop = "no"
  /\ udpStop = "no" /\ ~running => udpThread = "none"
  /\ udpStop = "stopped" => udpThread \in {"none", "over"}

UdpInv == UdpTypeOK /\ UdpCounted /\ UdpStopping

\* Once stop has returned the callback is not called any more, and so no thread
\* pushes into the ring of an object that is being taken apart.
NoCallbackAfterStop == [][udpStop = "stopped" => UNCHANGED delivered]_udpVars
=============================================================================
