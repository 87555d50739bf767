------------------------------ MODULE SpscRing ------------------------------
(***************************************************************************)
(* The lock-free ring of spsc_ring.h between a receiving thread (the UDP   *)
(* callback or the raw-data callback of a PLC client, the only caller of   *)
(* try_push) and a worker thread of DataProcess (the only caller of        *)
(* pop_bulk), with the worker's loop, start and stop.                      *)
(*                                                                         *)
(* head and tail are unsigned counters of CounterMod values (2^64 in the   *)
(* code); a position names slot Slot(position).  A thread reads its own    *)
(* counter exactly, but an acquire load of the other thread's counter      *)
(* returns any value the counter has had since the last one this thread    *)
(* saw: seenHead and seenTail are those last values.  Copying a message    *)
(* into a slot is not atomic: while it is in progress the slot is Torn.    *)
(***************************************************************************)
EXTENDS Naturals, Sequences

CONSTANTS
  Item,         \* the messages
  NoItem,       \* try_push is not running
  Torn,         \* a slot that is being written, or was never written
  Cap,          \* slots: nextPow2(max(2, capacity)), as the constructor rounds it
  CounterMod,   \* the number of values of a counter: 2^64 in the code
  Batch,        \* BATCH in the worker loops
  MaxDrops      \* bound: no message arrives after this many drops

ASSUME RingAssumption ==
  /\ NoItem \notin Item
  /\ Torn \notin Item
  /\ Cap \in Nat \ {0}
  /\ CounterMod \in Nat
  /\ Cap < CounterMod
  /\ CounterMod % Cap = 0
  /\ Batch \in Nat \ {0}
  /\ MaxDrops \in Nat

VARIABLES
  buffer, head, tail,           \* the ring
  pushPc, pushItem, seenHead,   \* the producer inside try_push
  popPc, popHead, out, toPop, seenTail,  \* the worker inside pop_bulk
  batch,                        \* the worker's batch not handled yet
  running,                      \* supplyWorkerRunning and its like
  drops                         \* supplyRingDrops and its like

ring == <<buffer, head, tail>>
producer == <<pushPc, pushItem, seenHead, drops>>
consumer == <<popPc, popHead, out, toPop, seenTail, batch>>
vars == <<buffer, head, tail, pushPc, pushItem, seenHead,
          popPc, popHead, out, toPop, seenTail, batch, running, drops>>

Counter == 0 .. (CounterMod - 1)

-----------------------------------------------------------------------------
(* Unsigned arithmetic on counters.                                        *)

\* c + n, for n <= CounterMod
Plus(c, n) == IF c + n < CounterMod THEN c + n ELSE (c + n) - CounterMod

\* c - d
Minus(c, d) == IF d <= c THEN c - d ELSE (c + CounterMod) - d

\* position & mask
Slot(position) == position % Cap

\* try_push refuses: the producer knows of no free slot.
RingFull(t, h) == Minus(t, h) >= Cap

\* Faulty variant: only whole batches are popped.
BatchOfFullOnly(avail) == IF avail < Batch THEN 0 ELSE Batch

\* to_pop: min(avail, max_items)
BatchOf(avail) == IF avail < Batch THEN avail ELSE Batch
-----------------------------------------------------------------------------
Init ==
  /\ buffer = [s \in 0 .. (Cap - 1) |-> Torn]
  /\ head = 0
  /\ tail = 0
  /\ pushPc = "idle"
  /\ pushItem = NoItem
  /\ seenHead = 0
  /\ popPc = "off"
  /\ popHead = 0
  /\ out = << >>
  /\ toPop = 0
  /\ seenTail = 0
  /\ batch = << >>
  /\ running = FALSE
  /\ drops = 0

(* The producer: try_push and the callback that counts its refusals.       *)

\* A message arrives: load the own tail, and head with acquire.
TryPushLoad(item) ==
  /\ pushPc = "idle"
  /\ drops < MaxDrops
  /\ pushItem' = item
  /\ \E k \in 0 .. Minus(head, seenHead) : seenHead' = Plus(seenHead, k)
  /\ pushPc' = "loaded"
  /\ UNCHANGED <<ring, consumer, running, drops>>

\* The ring is full: try_push returns false and the callback counts a drop.
TryPushFull ==
  /\ pushPc = "loaded"
  /\ RingFull(tail, seenHead)
  /\ drops' = drops + 1
  /\ pushItem' = NoItem
  /\ pushPc' = "idle"
  /\ UNCHANGED <<ring, seenHead, consumer, running>>

\* Copying the message into its slot begins ...
TryPushBeginWrite ==
  /\ pushPc = "loaded"
  /\ ~RingFull(tail, seenHead)
  /\ buffer' = [buffer EXCEPT ![Slot(tail)] = Torn]
  /\ pushPc' = "writing"
  /\ UNCHANGED <<head, tail, pushItem, seenHead, consumer, running, drops>>

\* ... and ends.
TryPushEndWrite ==
  /\ pushPc = "writing"
  /\ buffer' = [buffer EXCEPT ![Slot(tail)] = pushItem]
  /\ pushPc' = "written"
  /\ UNCHANGED <<head, tail, pushItem, seenHead, consumer, running, drops>>

\* Publish the slot: tail is stored with release.
TryPushStore ==
  /\ pushPc = "written"
  /\ tail' = Plus(tail, 1)
  /\ pushItem' = NoItem
  /\ pushPc' = "idle"
  /\ UNCHANGED <<buffer, head, seenHead, consumer, running, drops>>

(* The worker: its loop, pop_bulk, and the handling of a batch.            *)

StartWorker ==
  /\ popPc = "off"
  /\ running' = TRUE
  /\ popPc' = "loop"
  /\ UNCHANGED <<ring, producer, popHead, out, toPop, seenTail, batch>>

\* The stop flag; the join that follows it ends when WorkerExit is taken.
StopWorker ==
  /\ running
  /\ running' = FALSE
  /\ UNCHANGED <<ring, producer, consumer>>

WorkerExit ==
  /\ popPc = "loop"
  /\ ~running
  /\ popPc' = "off"
  /\ UNCHANGED <<ring, producer, popHead, out, toPop, seenTail, batch, running>>

\* Faulty variant: the slots are given back before they are copied.
PopBulkLoadGivesBack(k) ==
  /\ popPc = "loop"
  /\ running
  /\ seenTail' = Plus(seenTail, k)
  /\ popHead' = head
  /\ toPop' = BatchOf(Minus(seenTail', head))
  /\ head' = Plus(head, toPop')
  /\ out' = << >>
  /\ popPc' = IF toPop' = 0 THEN "loop" ELSE "copy"
  /\ UNCHANGED <<buffer, tail, producer, batch, running>>

\* Load the own head, and tail with acquire.  The loop tested the flag just
\* before; with nothing available it sleeps and comes back to the test.
PopBulkLoad(k) ==
  /\ popPc = "loop"
  /\ running
  /\ seenTail' = Plus(seenTail, k)
  /\ popHead' = head
  /\ toPop' = BatchOf(Minus(seenTail', head))
  /\ out' = << >>
  /\ popPc' = IF toPop' = 0 THEN "loop" ELSE "copy"
  /\ UNCHANGED <<ring, producer, batch, running>>

PopBulkCopy ==
  /\ popPc = "copy"
  /\ Len(out) < toPop
  /\ out' = Append(out, buffer[Slot(Plus(popHead, Len(out)))])
  /\ UNCHANGED <<ring, producer, popPc, popHead, toPop, seenTail, batch, running>>

\* Faulty variant: every pop gives back one slot, whatever it took.
PopBulkStoreOne ==
  /\ popPc = "copy"
  /\ Len(out) = toPop
  /\ head' = Plus(popHead, 1)
  /\ batch' = out
  /\ out' = << >>
  /\ toPop' = 0
  /\ popPc' = "handle"
  /\ UNCHANGED <<buffer, tail, producer, popHead, seenTail, running>>

\* Give the slots back: head is stored with release.
PopBulkStore ==
  /\ popPc = "copy"
  /\ Len(out) = toPop
  /\ head' = Plus(popHead, toPop)
  /\ batch' = out
  /\ out' = << >>
  /\ toPop' = 0
  /\ popPc' = "handle"
  /\ UNCHANGED <<buffer, tail, producer, popHead, seenTail, running>>

\* Faulty variant: the worker waits for the flag between two messages.
HandleNextWhileRunning ==
  /\ popPc = "handle"
  /\ batch' = IF running THEN Tail(batch) ELSE batch
  /\ popPc' = IF batch' = << >> THEN "loop" ELSE "handle"
  /\ UNCHANGED <<ring, producer, popHead, out, toPop, seenTail, running>>

\* The worker hands the next message of the batch to its handler.
HandleNext ==
  /\ popPc = "handle"
  /\ batch' = Tail(batch)
  /\ popPc' = IF batch' = << >> THEN "loop" ELSE "handle"
  /\ UNCHANGED <<ring, producer, popHead, out, toPop, seenTail, running>>
-----------------------------------------------------------------------------
PopLoadAny == \E k \in 0 .. Minus(tail, seenTail) : PopBulkLoad(k)
PopLoadLatest == PopBulkLoad(Minus(tail, seenTail))

ProducerStep ==
  \/ TryPushFull
  \/ TryPushBeginWrite
  \/ TryPushEndWrite
  \/ TryPushStore

WorkerStep ==
  \/ WorkerExit
  \/ PopBulkCopy
  \/ PopBulkStore
  \/ HandleNext

Next ==
  \/ \E item \in Item : TryPushLoad(item)
  \/ ProducerStep
  \/ StartWorker
  \/ StopWorker
  \/ PopLoadAny
  \/ WorkerStep

Spec == Init /\ [][Next]_vars

\* Both threads are scheduled, and a store becomes visible in finite time:
\* the loads do not return a stale tail for ever.
Fairness ==
  /\ WF_vars(ProducerStep)
  /\ WF_vars(WorkerStep)
  /\ WF_vars(PopLoadLatest)

FairSpec == Spec /\ Fairness
-----------------------------------------------------------------------------
(* Properties.                                                             *)

\* The slots between head and tail, oldest first.
Content == [i \in 1 .. Minus(tail, head) |-> buffer[Slot(Plus(head, i - 1))]]

TypeOK ==
  /\ buffer \in [0 .. (Cap - 1) -> Item \cup {Torn}]
  /\ head \in Counter
  /\ tail \in Counter
  /\ pushPc \in {"idle", "loaded", "writing", "written"}
  /\ pushItem \in Item \cup {NoItem}
  /\ (pushPc = "idle") <=> (pushItem = NoItem)
  /\ seenHead \in Counter
  /\ popPc \in {"off", "loop", "copy", "handle"}
  /\ popHead \in Counter
  /\ out \in Seq(Item \cup {Torn})
  /\ toPop \in 0 .. Batch
  /\ seenTail \in Counter
  /\ batch \in Seq(Item \cup {Torn})
  /\ running \in BOOLEAN
  /\ drops \in 0 .. MaxDrops

\* The counters never lap each other, across their wrap-around too: what a
\* thread last saw of the other's counter lies behind it, and the producer
\* never runs more than Cap ahead of the head it saw.
CountersOrdered ==
  /\ Minus(head, seenHead) + Minus(tail, head) <= Cap
  /\ Minus(seenTail, head) <= Minus(tail, head)

\* A slot is never written while the worker copies the batch it is in, wherever
\* the worker is in its copy, nor before the producer has acquired the store
\* with which the worker gave the slot back after an earlier one.
NoSlotRace ==
  pushPc = "writing" =>
    /\ popPc = "copy" =>
         \A i \in 0 .. (toPop - 1) : Slot(Plus(popHead, i)) # Slot(tail)
    /\ \A i \in 0 .. (Minus(head, seenHead) - 1) :
         Slot(Plus(seenHead, i)) # Slot(tail)

\* Every message the worker gets is whole: a copy in progress, a slot never
\* written and a slot overwritten under the reader are never delivered.
NothingTorn ==
  /\ \A i \in 1 .. Len(Content) : Content[i] # Torn
  /\ \A i \in 1 .. Len(out) : out[i] # Torn
  /\ \A i \in 1 .. Len(batch) : batch[i] # Torn

\* The inductive invariant behind them.  A push in progress has a
\* free slot in hand; the slots from head to tail hold messages; what the
\* worker has copied is the front of the ring, and the ring still holds it.
PushHasRoom ==
  pushPc \in {"writing", "written"} =>
    Minus(head, seenHead) + Minus(tail, head) < Cap

PushWritten == pushPc = "written" => buffer[Slot(tail)] = pushItem

RingHoldsItems ==
  \A i \in 0 .. (CounterMod - 1) :
    i < Minus(tail, head) => buffer[Slot(Plus(head, i))] \in Item

CopyIsFront ==
  /\ popPc = "copy" =>
       /\ popHead = head
       /\ toPop > 0
       /\ Len(out) <= toPop
       /\ toPop <= Minus(seenTail, head)
       /\ \A i \in 1 .. Len(out) : out[i] = buffer[Slot(Plus(head, i - 1))]
  /\ popPc # "copy" => out = << >>

BatchIsItems ==
  /\ batch \in Seq(Item)
  /\ (popPc = "handle") <=> (batch # << >>)

DropsBounded == pushPc # "idle" => drops < MaxDrops

RingInv ==
  /\ TypeOK
  /\ CountersOrdered
  /\ PushHasRoom
  /\ PushWritten
  /\ RingHoldsItems
  /\ CopyIsFront
  /\ BatchIsItems
  /\ DropsBounded

\* The ring, its worker and the drop counter are a bounded FIFO: no message
\* is lost, doubled or reordered, also across a stop and a start of the
\* worker, and one is dropped only when the producer knows of no free slot.
Fifo ==
  INSTANCE BoundedFifo WITH
    q <- Content, offered <- pushItem, credit <- Cap - Minus(tail, seenHead)

ImplementsFifo == Fifo!Spec

\* While the worker is left running, the oldest message in the ring is
\* eventually popped, and every popped one handled.
OldestIsPopped ==
  \A h \in Counter :
    (head = h /\ tail # h) ~> (head # h \/ ~running)

BatchIsHandled == (batch # << >>) ~> (batch = << >>)
=============================================================================
