---------------------------- MODULE BoundedFifo ----------------------------
(***************************************************************************)
(* What a receive ring of the sorting line promises to the two threads     *)
(* that share it: a FIFO queue of at most Cap messages, from the thread    *)
(* that receives them to the worker that handles them.                     *)
(*                                                                         *)
(* The producer pays for a push with a credit.  Credits are refreshed only *)
(* when a message is offered, from what the consumer has given back, and   *)
(* a refresh need not see all of it; a message is dropped, and counted,    *)
(* only when no credit is left.  The consumer takes a batch off the front  *)
(* and handles it message by message.                                      *)
(***************************************************************************)
EXTENDS Naturals, Sequences

CONSTANTS
  Item,      \* the messages
  NoItem,    \* the producer is not pushing
  Cap,       \* the number of slots
  Batch      \* the most messages one pop takes

VARIABLES
  q,         \* accepted and not yet popped, oldest first
  batch,     \* popped and not yet handled, oldest first
  offered,   \* the message being pushed, or NoItem
  credit,    \* the pushes the producer knows there is room for
  drops      \* the messages refused so far

fifoVars == <<q, batch, offered, credit, drops>>

Init ==
  /\ q = << >>
  /\ batch = << >>
  /\ offered = NoItem
  /\ credit = Cap
  /\ drops = 0

\* A message arrives; the producer may learn of room given back.
Offer ==
  /\ offered = NoItem
  /\ offered' \in Item
  /\ credit' \in credit .. (Cap - Len(q))
  /\ UNCHANGED <<q, batch, drops>>

Accept ==
  /\ offered # NoItem
  /\ credit > 0
  /\ q' = Append(q, offered)
  /\ offered' = NoItem
  /\ credit' = credit - 1
  /\ UNCHANGED <<batch, drops>>

Reject ==
  /\ offered # NoItem
  /\ credit = 0
  /\ offered' = NoItem
  /\ drops' = drops + 1
  /\ UNCHANGED <<q, batch, credit>>

\* The worker takes n messages off the front, once the last batch is handled.
Pop ==
  /\ batch = << >>
  /\ \E n \in 1 .. Len(q) :
       /\ n <= Batch
       /\ batch' = SubSeq(q, 1, n)
       /\ q' = SubSeq(q, n + 1, Len(q))
  /\ UNCHANGED <<offered, credit, drops>>

Handle ==
  /\ batch # << >>
  /\ batch' = Tail(batch)
  /\ UNCHANGED <<q, offered, credit, drops>>

Next == Offer \/ Accept \/ Reject \/ Pop \/ Handle

Spec == Init /\ [][Next]_fifoVars
=============================================================================
