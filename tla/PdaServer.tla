----------------------------- MODULE PdaServer -----------------------------
(***************************************************************************)
(* The server of the hand-held scanners (qttcpserver.cpp).  Everything runs *)
(* in the event loop of the main thread, a handler at a time; m_mutex, which *)
(* is not recursive, is held by the handlers only inside a step, and by stop *)
(* while it takes the connections down.  A scanner sends bytes, which arrive *)
(* in pieces; a message ends with ETX or LF, and STX may begin it.           *)
(*                                                                          *)
(* Scanners are numbered in the order in which they connect.  The object of  *)
(* a socket is deleted with its connection, and its address used again for   *)
(* the next: the handlers know a client by that address.                     *)
(***************************************************************************)
EXTENDS Naturals, FiniteSets, SequencesExt

CONSTANTS
  Byte,       \* bytes that scanners send
  Socket,     \* addresses of socket objects
  MaxClients, \* bound: scanners that connect
  MaxBytes    \* bound: what they send, together

ASSUME PdaAssumption ==
  /\ Byte \subseteq {"x", "STX", "ETX", "LF", "CR"}
  /\ MaxClients \in Nat
  /\ MaxBytes \in Nat

VARIABLES
  m_clients,       \* id -> [socket, buffer]
  m_nextClientId,
  listening,
  pending,         \* connections that wait to be accepted
  socketOf,        \* per connection, its socket object, or {}
  peer,            \* per connection: "none", "open", "closed" or "reset"
  unread,          \* per connection, the bytes the server has not read
  said,            \* per connection, what the scanner means: the messages it has
                   \* completed, and what it has begun
  sent,            \* bytes sent so far, by all
  messageReceived, \* per id, the signals emitted (queued for DataProcess)
  main             \* the main thread: "start", "loop", "stop", "stopped", or
                   \* "blocked" in a slot that stop has called

scanner == <<peer, unread, said, sent>>
server == <<m_clients, m_nextClientId, messageReceived>>
vars == <<server, listening, pending, socketOf, scanner, main>>

Client == 1 .. MaxClients
Terminator == {"ETX", "LF"}

Init ==
  /\ m_clients = << >>
  /\ m_nextClientId = 1
  /\ listening = FALSE
  /\ pending = << >>
  /\ socketOf = [k \in Client |-> {}]
  /\ peer = [k \in Client |-> "none"]
  /\ unread = [k \in Client |-> << >>]
  /\ said = [k \in Client |-> [messages |-> << >>, begun |-> << >>]]
  /\ sent = 0
  /\ messageReceived = [k \in Client |-> << >>]
  /\ main = "start"

\* start; the port may be taken.
Start ==
  /\ main = "start"
  /\ listening' \in BOOLEAN
  /\ main' = "loop"
  /\ UNCHANGED <<server, pending, socketOf, scanner>>
-----------------------------------------------------------------------------
(* Messages.                                                               *)

WithoutStx(s) == IF s # << >> /\ Head(s) = "STX" THEN Tail(s) ELSE s
WithoutCr(s) == IF s # << >> /\ Last(s) = "CR" THEN Front(s) ELSE s

\* QString::trimmed.
Trimmed(s) ==
  LET kept == {i \in DOMAIN s : s[i] # "CR"}
  IN  IF kept = {} THEN << >>
      ELSE SubSeq(s, Min(kept), Max(kept))

Payload[frame \in Seq(Byte)] == Trimmed(WithoutCr(WithoutStx(frame)))
-----------------------------------------------------------------------------
(* Scanners and the network.                                               *)

Connects(k) ==
  /\ listening   \* and so before stop
  /\ peer[k] = "none"
  /\ \A j \in 1 .. k - 1 : peer[j] # "none"
  /\ peer' = [peer EXCEPT ![k] = "open"]
  /\ pending' = Append(pending, k)
  /\ UNCHANGED <<server, listening, socketOf, unread, said, sent, main>>

\* What a scanner does once stop was called is not looked at: nobody reads it.
Scanning(k) == main = "loop" /\ peer[k] = "open"

\* One byte more, and what it means to the scanner.
Saying(m, b) ==
  IF b \notin Terminator THEN [m EXCEPT !.begun = Append(@, b)]
  ELSE [messages |-> IF Payload[m.begun] = << >> THEN m.messages
                     ELSE Append(m.messages, Payload[m.begun]),
        begun |-> << >>]

Sends(k) ==
  /\ Scanning(k)
  /\ sent < MaxBytes
  /\ sent' = sent + 1
  /\ \E b \in Byte :
       /\ unread' = [unread EXCEPT ![k] = Append(@, b)]
       /\ said' = [said EXCEPT ![k] = Saying(@, b)]
  /\ UNCHANGED <<server, listening, pending, socketOf, peer, main>>

Closes(k) ==
  /\ Scanning(k)
  /\ peer' = [peer EXCEPT ![k] = "closed"]
  /\ UNCHANGED <<server, listening, pending, socketOf, unread, said, sent, main>>

\* What was not read is lost.
Resets(k) ==
  /\ Scanning(k)
  /\ peer' = [peer EXCEPT ![k] = "reset"]
  /\ unread' = [unread EXCEPT ![k] = << >>]
  /\ UNCHANGED <<server, listening, pending, socketOf, said, sent, main>>
-----------------------------------------------------------------------------
(* Buffers.                                                                *)

\* Faulty variant: one message at a time.
DrainOne(buf) ==
  LET ends == {i \in DOMAIN buf : buf[i] \in Terminator}
  IN  IF ends = {} THEN [lines |-> << >>, buffer |-> buf]
      ELSE [lines |-> SelectSeq(<<Payload[SubSeq(buf, 1, Min(ends) - 1)]>>,
                                LAMBDA s : s # << >>),
            buffer |-> SubSeq(buf, Min(ends) + 1, Len(buf))]

\* Faulty variant: the last terminator is not removed with its line.
DrainLeavesTerminator(buf) ==
  LET ends == {i \in DOMAIN buf : buf[i] \in Terminator}
  IN  IF ends = {} THEN [lines |-> << >>, buffer |-> buf]
      ELSE [lines |-> DrainOne(buf).lines, buffer |-> SubSeq(buf, Max(ends), Len(buf))]

\* Where the terminators are, and the last one before place i, or 0.
Ends(buf) == {i \in DOMAIN buf : buf[i] \in Terminator}
Before(ends, i) == Max({0} \cup {e \in ends : e < i})

\* The line that ends at place i.
Line(buf, i) == Payload[SubSeq(buf, Before(Ends(buf), i) + 1, i - 1)]

\* The places of a set in their order.
Rank(places, i) == Cardinality({e \in places : e <= i})
InOrder(places) ==
  [n \in 1 .. Cardinality(places) |-> CHOOSE i \in places : Rank(places, i) = n]

\* The loop over the terminators in the buffer: a line for each that has
\* anything before it, and what follows the last.
Telling(buf) == {i \in Ends(buf) : Line(buf, i) # << >>}
Drain(buf) ==
  [lines |-> [n \in 1 .. Cardinality(Telling(buf)) |-> Line(buf, InOrder(Telling(buf))[n])],
   buffer |-> SubSeq(buf, Before(Ends(buf), Len(buf) + 1) + 1, Len(buf))]
-----------------------------------------------------------------------------
(* The slots.                                                              *)

\* The client found by the socket of connection k: of several with its address,
\* the first in the order of the ids.
Matching(k) == {i \in DOMAIN m_clients : socketOf[k] = {m_clients[i].socket}}
Found(k) == {i \in Matching(k) : \A j \in Matching(k) : i <= j}

FreeAddress == Socket \ UNION {socketOf[k] : k \in Client}

\* The ids that those who wait will get.
NextIds == m_nextClientId .. m_nextClientId + Len(pending) - 1

\* Every pending connection becomes a client; its socket object gets any free
\* address.
OnNewConnection ==
  /\ main = "loop"
  /\ pending # << >>
  /\ \E address \in Injection(DOMAIN pending, FreeAddress) :
       /\ socketOf' = [k \in Client |->
                         socketOf[k] \cup {address[j] : j \in {i \in DOMAIN pending : pending[i] = k}}]
       /\ m_clients' = [id \in DOMAIN m_clients \cup NextIds |->
            IF id \in NextIds
            THEN [socket |-> address[id - m_nextClientId + 1], buffer |-> << >>]
            ELSE m_clients[id]]
  /\ m_nextClientId' = m_nextClientId + Len(pending)
  /\ pending' = << >>
  /\ UNCHANGED <<listening, scanner, messageReceived, main>>

OnSocketReadyRead(k) ==
  /\ main = "loop"
  /\ unread[k] # << >>
  /\ \E id \in Found(k) :
       \E buf \in {m_clients[id].buffer \o unread[k]} : \E drained \in {Drain(buf)} :
         /\ m_clients' = [m_clients EXCEPT ![id].buffer = drained.buffer]
         /\ messageReceived' = [messageReceived EXCEPT ![id] = @ \o drained.lines]
  /\ unread' = [unread EXCEPT ![k] = << >>]
  /\ UNCHANGED <<m_nextClientId, listening, pending, socketOf, peer, said, sent, main>>

\* Faulty variant: the entry of the client stays.
OnSocketDisconnectedKeeps(k) ==
  /\ main = "loop"
  /\ peer[k] \in {"closed", "reset"}
  /\ unread[k] = << >>
  /\ socketOf[k] # {}
  /\ socketOf' = [socketOf EXCEPT ![k] = {}]
  /\ UNCHANGED <<server, listening, pending, scanner, main>>

\* All that had arrived has been read (Qt emits readyRead before it emits
\* disconnected).
OnSocketDisconnected(k) ==
  /\ main = "loop"
  /\ peer[k] \in {"closed", "reset"}
  /\ unread[k] = << >>
  /\ socketOf[k] # {}
  /\ m_clients' = Restrict(m_clients, DOMAIN m_clients \ Found(k))
  /\ socketOf' = [socketOf EXCEPT ![k] = {}]
  /\ UNCHANGED <<m_nextClientId, messageReceived, listening, pending, scanner, main>>
-----------------------------------------------------------------------------
(* stop, called when the window is closed.                                 *)

\* The port is closed, and m_mutex taken.
Stop ==
  /\ main = "loop"
  /\ listening' = FALSE
  /\ pending' = << >>
  /\ main' = "stop"
  /\ UNCHANGED <<server, socketOf, scanner>>

\* disconnectFromHost emits disconnected before it returns, and the slot waits
\* for the mutex that stop holds.
StopDisconnects ==
  /\ main = "stop"
  /\ DOMAIN m_clients # {}
  /\ main' = "blocked"
  /\ UNCHANGED <<server, listening, pending, socketOf, scanner>>

StopReturns ==
  /\ main = "stop"
  /\ DOMAIN m_clients = {}
  /\ main' = "stopped"
  /\ UNCHANGED <<server, listening, pending, socketOf, scanner>>
-----------------------------------------------------------------------------
Slots ==
  \/ OnNewConnection
  \/ \E k \in Client : OnSocketReadyRead(k) \/ OnSocketDisconnected(k)

Stopping == StopDisconnects \/ StopReturns

Next ==
  \/ Start
  \/ \E k \in Client :
       Connects(k) \/ Sends(k) \/ Closes(k) \/ Resets(k)
  \/ Slots
  \/ Stop \/ Stopping

Spec == Init /\ [][Next]_vars

\* The main thread runs.  Which event the loop takes first is left open: there
\* are finitely many.
FairSpec == Spec /\ WF_vars(Slots) /\ WF_vars(Stopping)
-----------------------------------------------------------------------------
(* Properties.                                                             *)

TypeOK ==
  /\ DOMAIN m_clients \subseteq Client
  /\ \A i \in DOMAIN m_clients :
       /\ m_clients[i].socket \in Socket
       /\ m_clients[i].buffer \in Seq(Byte \ Terminator)
  /\ m_nextClientId \in 1 .. MaxClients + 1
  /\ listening \in BOOLEAN
  /\ pending \in Seq(Client)
  /\ \A k \in Client :
       /\ socketOf[k] \subseteq Socket
       /\ Cardinality(socketOf[k]) <= 1
       /\ peer[k] \in {"none", "open", "closed", "reset"}
       /\ unread[k] \in Seq(Byte)
       /\ said[k].messages \in Seq(Seq(Byte))
       /\ said[k].begun \in Seq(Byte)
  /\ messageReceived \in [Client -> Seq(Seq(Byte \ Terminator) \ {<< >>})]
  /\ sent \in 0 .. MaxBytes
  /\ main \in {"start", "loop", "stop", "stopped", "blocked"}

\* However the bytes were cut into pieces, and whoever had the address of the
\* socket before, the messages emitted under an id are those that the scanner
\* of that number sent, in order; when all it sent has been read, they are all
\* of them, and the buffer holds what it has begun.
MessagesOfScanner ==
  \A k \in Client :
    /\ IsPrefix(messageReceived[k], said[k].messages)
    /\ unread[k] = << >> /\ peer[k] # "reset" =>
         /\ messageReceived[k] = said[k].messages
         /\ k \in DOMAIN m_clients => m_clients[k].buffer = said[k].begun

\* Every complete message of a scanner is emitted, also when the scanner hangs
\* up behind it, and needs no later message to push it out.
MessageArrives ==
  \A k \in Client :
    messageReceived[k] # said[k].messages ~>
      \/ messageReceived[k] = said[k].messages
      \/ peer[k] = "reset" \/ main # "loop"

\* stop stops the server and disconnects all clients (qttcpserver.h:29).
StopEnds == (main = "stop") ~> (main = "stopped" /\ DOMAIN m_clients = {})
-----------------------------------------------------------------------------
(* The inductive invariants behind TypeOK and MessagesOfScanner.            *)

Plain == Byte \ Terminator
Message == Seq(Plain) \ {<< >>}
ClientEntry == [socket : Socket, buffer : Seq(Plain)]
Saids == [messages : Seq(Message), begun : Seq(Plain)]
Peer == {"none", "open", "closed", "reset"}
MainPc == {"start", "loop", "stop", "stopped", "blocked"}

\* The types, with no terminator in a buffer or in what a scanner has begun.
Typed ==
  /\ DOMAIN m_clients \subseteq Client
  /\ m_clients \in [DOMAIN m_clients -> ClientEntry]
  /\ m_nextClientId \in 1 .. MaxClients + 1
  /\ listening \in BOOLEAN
  /\ pending \in Seq(Client)
  /\ socketOf \in [Client -> SUBSET Socket]
  /\ peer \in [Client -> Peer]
  /\ unread \in [Client -> Seq(Byte)]
  /\ said \in [Client -> Saids]
  /\ messageReceived \in [Client -> Seq(Message)]
  /\ sent \in 0 .. MaxBytes
  /\ main \in MainPc

\* Until stop, the ids are given in the order in which scanners connect: those that
\* wait are the next ones.
InTurn ==
  main \in {"start", "loop"} =>
    /\ \A j \in DOMAIN pending : pending[j] = m_nextClientId + j - 1
    /\ \A k \in Client : peer[k] # "none" <=> k < m_nextClientId + Len(pending)

\* A client has the address of the socket of its connection, and no other
\* connection has it.
Addressed ==
  \A k \in Client :
    /\ k \in DOMAIN m_clients <=> socketOf[k] # {}
    /\ k \in DOMAIN m_clients =>
         k < m_nextClientId /\ socketOf[k] = {m_clients[k].socket}
    /\ \A l \in Client : k # l => socketOf[k] \cap socketOf[l] = {}

\* What has arrived of a scanner and is not yet part of a message.
Arrived(k) ==
  (IF k \in DOMAIN m_clients THEN m_clients[k].buffer ELSE << >>) \o unread[k]

\* What the server would make of it is what the scanner means by it; what a
\* scanner that hung up had begun is gone with its entry.
UnderstoodOf(k) ==
  /\ peer[k] = "reset" =>
       unread[k] = << >> /\ IsPrefix(messageReceived[k], said[k].messages)
  /\ peer[k] # "reset" =>
       said[k].messages = messageReceived[k] \o Drain(Arrived(k)).lines
  /\ \/ peer[k] \in {"none", "open"}
     \/ peer[k] = "closed" /\ (k \in DOMAIN m_clients \/ m_nextClientId <= k)
     => said[k].begun = Drain(Arrived(k)).buffer

Understood == \A k \in Client : UnderstoodOf(k)

PdaInv == Typed /\ InTurn /\ Addressed /\ Understood
=============================================================================
