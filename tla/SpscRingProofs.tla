--------------------------- MODULE SpscRingProofs ---------------------------
(***************************************************************************)
(* Proofs about SpscRing, for every capacity, counter width and batch      *)
(* size: its inductive invariant, the safety invariants that follow, and   *)
(* that the ring implements the bounded FIFO.                              *)
(***************************************************************************)
EXTENDS SpscRing, Integers, SequenceTheorems, TLAPS

-----------------------------------------------------------------------------
(* Unsigned arithmetic.                                                    *)

\* A sum of a counter and at most one turn is a counter.
LEMMA PlusType ==
  ASSUME NEW c \in Counter, NEW n \in 0 .. CounterMod
  PROVE  Plus(c, n) \in Counter
BY RingAssumption, SMT DEF Plus, Counter

\* A difference of counters is a counter.
LEMMA MinusType ==
  ASSUME NEW c \in Counter, NEW d \in Counter
  PROVE  Minus(c, d) \in Counter
BY RingAssumption, SMT DEF Minus, Counter

\* Minus undoes Plus.
LEMMA MinusOfPlus ==
  ASSUME NEW c \in Counter, NEW n \in Counter
  PROVE  Minus(Plus(c, n), c) = n
BY RingAssumption, SMT DEF Plus, Minus, Counter

\* Plus undoes Minus.
LEMMA PlusOfMinus ==
  ASSUME NEW c \in Counter, NEW d \in Counter
  PROVE  Plus(d, Minus(c, d)) = c
BY RingAssumption, SMT DEF Plus, Minus, Counter

\* Distances shrink when the counter behind moves up ...
LEMMA MinusAdvanceBehind ==
  ASSUME NEW c \in Counter, NEW d \in Counter, NEW n \in 0 .. Minus(c, d)
  PROVE  Minus(c, Plus(d, n)) = Minus(c, d) - n
BY RingAssumption, SMT DEF Plus, Minus, Counter

\* ... and grow when the one ahead does.
LEMMA MinusAdvanceAhead ==
  ASSUME NEW c \in Counter, NEW d \in Counter, NEW n \in Nat,
         Minus(c, d) + n < CounterMod
  PROVE  Minus(Plus(c, n), d) = Minus(c, d) + n
BY RingAssumption, SMT DEF Plus, Minus, Counter

\* Distances add up along the counters.
LEMMA MinusChain ==
  ASSUME NEW a \in Counter, NEW b \in Counter, NEW c \in Counter,
         Minus(a, b) + Minus(b, c) < CounterMod
  PROVE  Minus(a, c) = Minus(a, b) + Minus(b, c)
BY RingAssumption, SMT DEF Minus, Counter

\* Two moves in a row are one.
LEMMA PlusPlus ==
  ASSUME NEW c \in Counter, NEW m \in Nat, NEW n \in Nat, m + n < CounterMod
  PROVE  Plus(Plus(c, m), n) = Plus(c, m + n)
BY RingAssumption, SMT DEF Plus, Counter

\* A positive multiple of c is at least c.
LEMMA PositiveMultiple ==
  ASSUME NEW c \in Nat \ {0}, NEW j \in Int, j * c > 0
  PROVE  j * c >= c
<1>1. CASE j <= 0
  <2>1. j * c <= 0
    BY <1>1, SMT
  <2> QED BY <2>1, SMT
<1>2. CASE j >= 1
  BY <1>2, SMT
<1> QED BY <1>1, <1>2, SMT

\* Division with remainder.
LEMMA DivMod ==
  ASSUME NEW a \in Nat, NEW c \in Nat \ {0}
  PROVE  /\ a % c \in 0 .. (c - 1)
         /\ \E q \in Nat : a = q * c + (a % c)
<1>1. a % c \in 0 .. (c - 1)
  OBVIOUS
<1>2. a \div c \in Nat /\ a = (a \div c) * c + (a % c)
  OBVIOUS
<1> QED BY <1>1, <1>2

\* A position has a slot.
LEMMA SlotType ==
  ASSUME NEW c \in Counter
  PROVE  Slot(c) \in 0 .. (Cap - 1)
BY RingAssumption, DivMod DEF Slot, Counter

\* Two positions less than Cap apart have different slots, also across the
\* wrap-around: this is where CounterMod % Cap = 0 is needed.
LEMMA SlotsDiffer ==
  ASSUME NEW x \in Counter, NEW y \in Counter,
         Minus(y, x) > 0, Minus(y, x) < Cap
  PROVE  Slot(x) # Slot(y)
<1> SUFFICES ASSUME x % Cap = y % Cap PROVE FALSE
  BY DEF Slot
<1>1. /\ Cap \in Nat \ {0}
      /\ x \in Nat /\ y \in Nat /\ CounterMod \in Nat
  BY RingAssumption DEF Counter
<1>2. PICK qx \in Nat : x = qx * Cap + (x % Cap)
  BY <1>1, DivMod
<1>3. PICK qy \in Nat : y = qy * Cap + (y % Cap)
  BY <1>1, DivMod
<1>4. PICK k \in Nat : CounterMod = k * Cap + (CounterMod % Cap)
  BY <1>1, DivMod
<1>5. x % Cap \in Nat
  BY <1>1, DivMod
<1>6. CounterMod = k * Cap
  BY <1>4, <1>1, RingAssumption, SMT
<1>7. y - x = (qy - qx) * Cap
  BY <1>1, <1>2, <1>3, <1>5, SMT
<1>8. (y + CounterMod) - x = ((qy - qx) + k) * Cap
  BY <1>7, <1>6, <1>1, SMT
<1>9. CASE x <= y
  <2>1. Minus(y, x) = (qy - qx) * Cap
    BY <1>9, <1>7 DEF Minus
  <2>2. qy - qx \in Int
    OBVIOUS
  <2>3. (qy - qx) * Cap >= Cap
    BY <2>1, <2>2, <1>1, PositiveMultiple
  <2> QED BY <2>1, <2>3, <1>1, SMT
<1>10. CASE ~(x <= y)
  <2>1. Minus(y, x) = ((qy - qx) + k) * Cap
    BY <1>10, <1>8 DEF Minus
  <2>2. (qy - qx) + k \in Int
    OBVIOUS
  <2>3. ((qy - qx) + k) * Cap >= Cap
    BY <2>1, <2>2, <1>1, PositiveMultiple
  <2> QED BY <2>1, <2>3, <1>1, SMT
<1> QED BY <1>9, <1>10

\* Different distances from the same counter, less than Cap, name different
\* slots.
LEMMA OffsetsDiffer ==
  ASSUME NEW c \in Counter, NEW i \in Nat, NEW j \in Nat,
         i < j, j < Cap
  PROVE  Slot(Plus(c, i)) # Slot(Plus(c, j))
<1>1. i \in 0 .. CounterMod /\ j \in 0 .. CounterMod /\ j \in Counter
  BY RingAssumption, SMT DEF Counter
<1>2. Plus(c, i) \in Counter /\ Plus(c, j) \in Counter
  BY <1>1, PlusType
<1>3. Minus(Plus(c, j), Plus(c, i)) = j - i
  BY RingAssumption, SMT DEF Plus, Minus, Counter
<1> QED BY <1>2, <1>3, SlotsDiffer, RingAssumption, SMT
-----------------------------------------------------------------------------
(* The inductive invariant.                                                *)

\* While a push has room, the slot of tail is not one of the ring's.
LEMMA TailSlotIsFree ==
  ASSUME RingInv, Minus(tail, head) < Cap
  PROVE  \A i \in Counter : i < Minus(tail, head) =>
           Slot(Plus(head, i)) # Slot(tail)
<1>1. head \in Counter /\ tail \in Counter
  BY DEF RingInv, TypeOK
<1>2. Minus(tail, head) \in Nat /\ tail = Plus(head, Minus(tail, head))
  BY <1>1, MinusType, PlusOfMinus DEF Counter
<1> SUFFICES ASSUME NEW i \in Counter, i < Minus(tail, head)
             PROVE  Slot(Plus(head, i)) # Slot(Plus(head, Minus(tail, head)))
  BY <1>2
<1>3. i \in Nat
  BY DEF Counter
<1> QED BY <1>1, <1>2, <1>3, OffsetsDiffer

\* The distance try_push computes is the sum of the two the invariant bounds.
LEMMA ProducerDistance ==
  ASSUME RingInv
  PROVE  /\ Minus(tail, seenHead) = Minus(head, seenHead) + Minus(tail, head)
         /\ Minus(head, seenHead) \in Nat
         /\ Minus(tail, head) \in Nat
<1>1. head \in Counter /\ tail \in Counter /\ seenHead \in Counter
  BY DEF RingInv, TypeOK
<1>2. Minus(head, seenHead) \in Counter /\ Minus(tail, head) \in Counter
  BY <1>1, MinusType
<1>3. Minus(tail, head) + Minus(head, seenHead) < CounterMod
  BY <1>2, RingAssumption, SMT DEF RingInv, CountersOrdered, Counter
<1>4. Minus(tail, seenHead) = Minus(tail, head) + Minus(head, seenHead)
  BY <1>1, <1>3, MinusChain
<1> QED BY <1>2, <1>4, SMT DEF Counter

\* Init establishes the invariant.
LEMMA InitRingInv == Init => RingInv
<1> SUFFICES ASSUME Init PROVE RingInv
  OBVIOUS
<1>1. 0 \in Counter /\ Minus(0, 0) = 0
  BY RingAssumption, SMT DEF Counter, Minus
<1>2. TypeOK
  BY <1>1, RingAssumption DEF Init, TypeOK
<1>3. CountersOrdered
  BY <1>1, RingAssumption, SMT DEF Init, CountersOrdered
<1>4. RingHoldsItems
  BY <1>1, RingAssumption, SMT DEF Init, RingHoldsItems
<1>5. BatchIsItems
  BY DEF Init, BatchIsItems
<1>6. PushHasRoom /\ PushWritten /\ CopyIsFront /\ DropsBounded
  BY DEF Init, PushHasRoom, PushWritten, CopyIsFront, DropsBounded
<1> QED BY <1>2, <1>3, <1>4, <1>5, <1>6 DEF RingInv

\* A message arrives: only what the producer saw of head changes, and it
\* moves closer to head.
LEMMA TryPushLoadInv ==
  ASSUME RingInv, NEW item \in Item, TryPushLoad(item)
  PROVE  RingInv'
<1> USE DEF RingInv, TryPushLoad, ring, consumer
<1>1. /\ head \in Counter /\ seenHead \in Counter /\ tail \in Counter
      /\ Minus(head, seenHead) \in Counter /\ Minus(tail, head) \in Counter
  BY MinusType DEF TypeOK
<1>2. PICK k \in 0 .. Minus(head, seenHead) : seenHead' = Plus(seenHead, k)
  OBVIOUS
<1>3. k \in Nat /\ k \in 0 .. CounterMod
  BY <1>1, <1>2, RingAssumption, SMT DEF Counter
<1>4. Minus(head, seenHead') = Minus(head, seenHead) - k
  BY <1>1, <1>2, MinusAdvanceBehind
<1>5. TypeOK'
  BY <1>1, <1>2, <1>3, PlusType, RingAssumption DEF TypeOK
<1>6. CountersOrdered'
  <2>1. Minus(head, seenHead') + Minus(tail, head) <= Cap
    BY <1>1, <1>3, <1>4, RingAssumption, SMT DEF CountersOrdered, Counter
  <2> QED BY <2>1 DEF CountersOrdered
<1>7. RingHoldsItems' /\ CopyIsFront' /\ BatchIsItems'
  BY DEF RingHoldsItems, CopyIsFront, BatchIsItems
<1>8. PushHasRoom' /\ PushWritten' /\ DropsBounded'
  BY DEF PushHasRoom, PushWritten, DropsBounded
<1> QED BY <1>5, <1>6, <1>7, <1>8

\* A refused push changes no slot and no counter.
LEMMA TryPushFullInv ==
  ASSUME RingInv, TryPushFull
  PROVE  RingInv'
<1> USE DEF RingInv, TryPushFull, ring, consumer
<1>1. TypeOK'
  BY RingAssumption, SMT DEF TypeOK, DropsBounded
<1>2. CountersOrdered' /\ RingHoldsItems' /\ CopyIsFront' /\ BatchIsItems'
  BY DEF CountersOrdered, RingHoldsItems, CopyIsFront, BatchIsItems
<1>3. PushHasRoom' /\ PushWritten' /\ DropsBounded'
  BY DEF PushHasRoom, PushWritten, DropsBounded
<1> QED BY <1>1, <1>2, <1>3

\* Writing to the slot of tail, whatever the value, disturbs neither the
\* ring's slots nor what the worker is copying.
LEMMA WriteKeepsRing ==
  ASSUME RingInv, Minus(tail, head) < Cap,
         NEW v, buffer' = [buffer EXCEPT ![Slot(tail)] = v],
         UNCHANGED <<head, tail>>
  PROVE  \A i \in Counter : i < Minus(tail, head) =>
           buffer'[Slot(Plus(head, i))] = buffer[Slot(Plus(head, i))]
<1> SUFFICES ASSUME NEW i \in Counter, i < Minus(tail, head)
             PROVE  buffer'[Slot(Plus(head, i))] = buffer[Slot(Plus(head, i))]
  OBVIOUS
<1>1. Slot(Plus(head, i)) # Slot(tail)
  BY TailSlotIsFree
<1>2. head \in Counter /\ i \in 0 .. CounterMod
  BY RingAssumption, SMT DEF RingInv, TypeOK, Counter
<1>3. Slot(Plus(head, i)) \in 0 .. (Cap - 1)
  BY <1>2, PlusType, SlotType
<1> QED BY <1>1, <1>3 DEF RingInv, TypeOK

\* What the worker is copying lies inside the ring.
LEMMA CopyInsideRing ==
  ASSUME RingInv, popPc = "copy", NEW i \in 1 .. toPop
  PROVE  /\ i - 1 \in Counter
         /\ i - 1 < Minus(tail, head)
         /\ i - 1 \in 0 .. CounterMod
<1>1. head \in Counter /\ tail \in Counter /\ seenTail \in Counter
  BY DEF RingInv, TypeOK
<1>2. Minus(seenTail, head) \in Counter /\ Minus(tail, head) \in Counter
  BY <1>1, MinusType
<1>3. toPop \in Nat
  BY RingAssumption DEF RingInv, TypeOK
<1> QED BY <1>2, <1>3, RingAssumption, SMT
        DEF RingInv, CountersOrdered, CopyIsFront, Counter

\* The two halves of copying a message into its slot.
LEMMA TryPushWriteInv ==
  ASSUME RingInv, TryPushBeginWrite \/ TryPushEndWrite
  PROVE  RingInv'
<1> USE DEF RingInv, TryPushBeginWrite, TryPushEndWrite, consumer
<1>1. Minus(tail, head) < Cap /\ Minus(head, seenHead) + Minus(tail, head) < Cap
  <2>1. /\ Minus(tail, seenHead) = Minus(head, seenHead) + Minus(tail, head)
        /\ Minus(head, seenHead) \in Nat /\ Minus(tail, head) \in Nat
    BY ProducerDistance
  <2> QED BY <2>1, RingAssumption, SMT DEF RingFull, PushHasRoom
<1>2. PICK v \in Item \cup {Torn} : buffer' = [buffer EXCEPT ![Slot(tail)] = v]
  BY DEF TypeOK
<1>3. UNCHANGED <<head, tail>>
  OBVIOUS
<1>4. \A i \in Counter : i < Minus(tail, head) =>
        buffer'[Slot(Plus(head, i))] = buffer[Slot(Plus(head, i))]
  BY <1>1, <1>2, <1>3, WriteKeepsRing
<1>5. TypeOK'
  <2>1. buffer' \in [0 .. (Cap - 1) -> Item \cup {Torn}]
    BY <1>2 DEF TypeOK
  <2> QED BY <2>1 DEF TypeOK
<1>6. RingHoldsItems'
  BY <1>3, <1>4 DEF RingHoldsItems, Counter
<1>7. CopyIsFront'
  <2>1. ASSUME popPc = "copy", NEW i \in 1 .. Len(out)
        PROVE  out[i] = buffer'[Slot(Plus(head, i - 1))]
    <3>1. Len(out) \in Nat /\ toPop \in Nat /\ Len(out) <= toPop
      BY <2>1, RingAssumption DEF TypeOK, CopyIsFront
    <3>2. i \in 1 .. toPop
      BY <3>1, SMT
    <3>3. i - 1 \in Counter /\ i - 1 < Minus(tail, head)
      BY <2>1, <3>2, CopyInsideRing
    <3> QED BY <2>1, <3>3, <1>4 DEF CopyIsFront
  <2> QED BY <2>1 DEF CopyIsFront
<1>8. PushWritten'
  <2>1. Slot(tail) \in 0 .. (Cap - 1)
    BY SlotType DEF TypeOK
  <2> QED BY <2>1 DEF PushWritten, TypeOK
<1>9. CountersOrdered' /\ BatchIsItems'
  BY DEF CountersOrdered, BatchIsItems
<1>10. PushHasRoom'
  BY <1>1 DEF PushHasRoom
<1>11. DropsBounded'
  BY DEF DropsBounded
<1> QED BY <1>5, <1>6, <1>7, <1>8, <1>9, <1>10, <1>11
\* Publishing the slot lengthens the ring by the message in it.
LEMMA TryPushStoreInv ==
  ASSUME RingInv, TryPushStore
  PROVE  RingInv'
<1> USE DEF RingInv, TryPushStore, consumer
<1>1. /\ head \in Counter /\ seenHead \in Counter /\ tail \in Counter
      /\ seenTail \in Counter
      /\ Minus(head, seenHead) \in Counter /\ Minus(tail, head) \in Counter
  BY MinusType DEF TypeOK
<1>2. Minus(head, seenHead) + Minus(tail, head) < Cap
  BY DEF PushHasRoom
<1>3. tail' \in Counter /\ Minus(tail', head) = Minus(tail, head) + 1
  <2>1. 1 \in 0 .. CounterMod
    BY RingAssumption, SMT
  <2>2. Minus(tail, head) + 1 < CounterMod
    BY <1>1, <1>2, RingAssumption, SMT DEF Counter
  <2> QED BY <1>1, <2>1, <2>2, PlusType, MinusAdvanceAhead
<1>4. TypeOK'
  BY <1>3 DEF TypeOK
<1>5. CountersOrdered'
  <2>1. Minus(seenTail, head) \in Counter
    BY <1>1, MinusType
  <2>2. Minus(head, seenHead) + Minus(tail', head) <= Cap
    BY <1>1, <1>2, <1>3, RingAssumption, SMT DEF Counter
  <2>3. Minus(seenTail, head) <= Minus(tail, head)
    BY DEF CountersOrdered
  <2>4. Minus(seenTail, head) <= Minus(tail', head)
    BY <1>1, <1>3, <2>1, <2>3, RingAssumption, SMT DEF Counter
  <2> QED BY <2>2, <2>4 DEF CountersOrdered
<1>6. RingHoldsItems'
  <2>1. SUFFICES ASSUME NEW i \in Counter, i < Minus(tail', head)
                 PROVE  buffer[Slot(Plus(head, i))] \in Item
    BY DEF RingHoldsItems, Counter
  <2>2. CASE i < Minus(tail, head)
    BY <2>2 DEF RingHoldsItems, Counter
  <2>3. CASE i = Minus(tail, head)
    <3>1. Plus(head, i) = tail
      BY <2>3, <1>1, PlusOfMinus
    <3>2. pushItem \in Item
      BY DEF TypeOK
    <3> QED BY <3>1, <3>2 DEF PushWritten
  <2> QED BY <2>1, <2>2, <2>3, <1>1, <1>3, SMT DEF Counter
<1>7. CopyIsFront' /\ BatchIsItems'
  BY DEF CopyIsFront, BatchIsItems
<1>8. PushHasRoom' /\ PushWritten' /\ DropsBounded'
  BY DEF PushHasRoom, PushWritten, DropsBounded
<1> QED BY <1>4, <1>5, <1>6, <1>7, <1>8

\* Starting, stopping and leaving the loop touch no message.
LEMMA WorkerControlInv ==
  ASSUME RingInv, StartWorker \/ StopWorker \/ WorkerExit
  PROVE  RingInv'
<1> USE DEF RingInv, StartWorker, StopWorker, WorkerExit, ring, producer, consumer
<1>1. TypeOK'
  BY DEF TypeOK
<1>2. CountersOrdered' /\ PushHasRoom' /\ PushWritten' /\ RingHoldsItems'
  BY DEF CountersOrdered, PushHasRoom, PushWritten, RingHoldsItems
<1>3. CopyIsFront' /\ BatchIsItems' /\ DropsBounded'
  BY DEF CopyIsFront, BatchIsItems, DropsBounded
<1> QED BY <1>1, <1>2, <1>3

\* What a pop will take is no more than what the worker saw.
LEMMA PopBulkLoadInv ==
  ASSUME RingInv, PopLoadAny
  PROVE  RingInv'
<1> USE DEF RingInv, PopBulkLoad, ring, producer
<1>1. PICK k \in 0 .. Minus(tail, seenTail) : PopBulkLoad(k)
  BY DEF PopLoadAny
<1>2. /\ head \in Counter /\ tail \in Counter /\ seenTail \in Counter
      /\ Minus(tail, head) \in Counter /\ Minus(tail, seenTail) \in Counter
      /\ Minus(seenTail, head) \in Counter
  BY MinusType DEF TypeOK
<1>3. k \in Nat /\ k \in 0 .. CounterMod
  BY <1>2, RingAssumption, SMT DEF Counter
<1>4. seenTail' \in Counter
  BY <1>1, <1>2, <1>3, PlusType
<1>5. /\ Minus(seenTail', head) \in Nat
      /\ Minus(seenTail', head) <= Minus(tail, head)
  <2>1. Minus(seenTail, head) <= Minus(tail, head)
    BY DEF CountersOrdered
  <2>2. seenTail' = Plus(seenTail, k)
    BY <1>1
  <2> QED BY <1>2, <1>3, <2>1, <2>2, RingAssumption, SMT
          DEF Counter, Minus, Plus
<1>6. toPop' \in 0 .. Batch /\ toPop' <= Minus(seenTail', head)
  BY <1>1, <1>5, RingAssumption, SMT DEF BatchOf
<1>7. TypeOK'
  BY <1>1, <1>4, <1>6 DEF TypeOK
<1>8. CountersOrdered'
  BY <1>1, <1>5 DEF CountersOrdered
<1>9. CopyIsFront'
  <2>1. popPc' = "copy" => toPop' > 0
    BY <1>1, <1>6, RingAssumption, SMT
  <2>2. out' = << >> /\ Len(out') = 0
    BY <1>1
  <2>3. popPc' = "copy" => Len(out') <= toPop'
    BY <2>1, <2>2, <1>6, RingAssumption, SMT
  <2>4. head' = head /\ popHead' = head'
    BY <1>1
  <2>5. \A i \in 1 .. Len(out') : out'[i] = buffer'[Slot(Plus(head', i - 1))]
    BY <2>2
  <2> QED BY <2>1, <2>2, <2>3, <2>4, <2>5, <1>6 DEF CopyIsFront
<1>10. PushHasRoom' /\ PushWritten' /\ RingHoldsItems' /\ DropsBounded'
  BY <1>1 DEF PushHasRoom, PushWritten, RingHoldsItems, DropsBounded
<1>11. BatchIsItems'
  BY <1>1 DEF BatchIsItems
<1> QED BY <1>7, <1>8, <1>9, <1>10, <1>11

\* The next message copied is the next one of the ring.
LEMMA PopBulkCopyInv ==
  ASSUME RingInv, PopBulkCopy
  PROVE  RingInv'
<1> USE DEF RingInv, PopBulkCopy, ring, producer
<1>0. popHead = head
  BY DEF CopyIsFront
<1> DEFINE m == buffer[Slot(Plus(head, Len(out)))]
<1>1. toPop \in Nat /\ Len(out) \in Nat /\ head \in Counter
  BY RingAssumption DEF TypeOK
<1>2. Len(out) + 1 \in 1 .. toPop
  BY <1>1, SMT
<1>3. /\ Len(out) \in Counter /\ Len(out) < Minus(tail, head)
  <2>1. (Len(out) + 1) - 1 = Len(out)
    BY <1>1
  <2> QED BY <1>2, <2>1, CopyInsideRing
<1>4. m \in Item
  BY <1>3 DEF RingHoldsItems, Counter
<1>5. out' = Append(out, m) /\ out' \in Seq(Item \cup {Torn})
  BY <1>0, <1>4 DEF TypeOK
<1>6. Len(out') = Len(out) + 1
  BY <1>5 DEF TypeOK
<1>7. TypeOK'
  BY <1>5 DEF TypeOK
<1>8. CopyIsFront'
  <2>1. Len(out') <= toPop
    BY <1>1, <1>6, SMT
  <2>2. ASSUME NEW i \in 1 .. Len(out')
        PROVE  out'[i] = buffer[Slot(Plus(head, i - 1))]
    <3>1. CASE i = Len(out) + 1
      BY <3>1, <1>1, <1>5, <1>6 DEF TypeOK
    <3>2. CASE i \in 1 .. Len(out)
      BY <3>2, <1>5 DEF TypeOK, CopyIsFront
    <3> QED BY <3>1, <3>2, <1>1, <1>6, SMT
  <2> QED BY <2>1, <2>2 DEF CopyIsFront
<1>9. CountersOrdered' /\ PushHasRoom' /\ PushWritten' /\ RingHoldsItems'
  BY DEF CountersOrdered, PushHasRoom, PushWritten, RingHoldsItems
<1>10. BatchIsItems' /\ DropsBounded'
  BY DEF BatchIsItems, DropsBounded
<1> QED BY <1>7, <1>8, <1>9, <1>10
\* Giving slots back shortens the ring from the front.
LEMMA PopBulkStoreInv ==
  ASSUME RingInv, PopBulkStore
  PROVE  RingInv'
<1> USE DEF RingInv, PopBulkStore, producer
<1>1. /\ head \in Counter /\ seenHead \in Counter /\ tail \in Counter
      /\ seenTail \in Counter
  BY DEF TypeOK
<1>0. head' = Plus(head, toPop)
  BY DEF CopyIsFront
<1>2. /\ Minus(head, seenHead) \in Counter /\ Minus(tail, head) \in Counter
      /\ Minus(seenTail, head) \in Counter
  BY <1>1, MinusType
<1>3. /\ toPop \in Nat /\ toPop > 0
      /\ toPop <= Minus(seenTail, head) /\ toPop <= Minus(tail, head)
  BY <1>2, RingAssumption, SMT DEF TypeOK, CopyIsFront, CountersOrdered, Counter
<1>4. toPop \in 0 .. CounterMod
  BY <1>2, <1>3, RingAssumption, SMT DEF Counter
<1>5. head' \in Counter
  BY <1>0, <1>1, <1>4, PlusType
<1>6. Minus(tail, head') = Minus(tail, head) - toPop
  BY <1>0, <1>1, <1>2, <1>3, MinusAdvanceBehind DEF Counter
<1>7. Minus(seenTail, head') = Minus(seenTail, head) - toPop
  BY <1>0, <1>1, <1>2, <1>3, MinusAdvanceBehind DEF Counter
<1>8. Minus(head', seenHead) = Minus(head, seenHead) + toPop
  <2>1. Minus(head, seenHead) + toPop < CounterMod
    BY <1>2, <1>3, RingAssumption, SMT DEF CountersOrdered, Counter
  <2> QED BY <1>0, <1>1, <1>3, <2>1, MinusAdvanceAhead
<1>9. out \in Seq(Item)
  <2>1. ASSUME NEW i \in 1 .. Len(out) PROVE out[i] \in Item
    <3>1. i \in 1 .. toPop
      OBVIOUS
    <3>2. /\ i - 1 \in Counter /\ i - 1 < Minus(tail, head)
      BY <3>1, CopyInsideRing
    <3> QED BY <3>2 DEF CopyIsFront, RingHoldsItems, Counter
  <2>2. out \in Seq(Item \cup {Torn})
    BY DEF TypeOK
  <2> QED BY <2>1, <2>2, ElementOfSeq, IsASeq, LenProperties
<1>10. TypeOK'
  BY <1>5, RingAssumption DEF TypeOK
<1>11. CountersOrdered'
  <2>1. Minus(head', seenHead) + Minus(tail, head') <= Cap
    BY <1>2, <1>3, <1>6, <1>8, RingAssumption, SMT DEF CountersOrdered, Counter
  <2>2. Minus(seenTail, head') <= Minus(tail, head')
    BY <1>2, <1>3, <1>6, <1>7, SMT DEF CountersOrdered, Counter
  <2> QED BY <2>1, <2>2 DEF CountersOrdered
<1>12. PushHasRoom'
  <2>1. Minus(head', seenHead) + Minus(tail, head')
          = Minus(head, seenHead) + Minus(tail, head)
    BY <1>2, <1>3, <1>6, <1>8, RingAssumption, SMT DEF Counter
  <2> QED BY <2>1 DEF PushHasRoom
<1>13. RingHoldsItems'
  <2> SUFFICES ASSUME NEW i \in Counter, i < Minus(tail, head')
               PROVE  buffer[Slot(Plus(head', i))] \in Item
    BY DEF RingHoldsItems, Counter
  <2>1. /\ toPop + i \in Counter /\ toPop + i < Minus(tail, head)
        /\ toPop + i < CounterMod /\ i \in Nat
    BY <1>2, <1>3, <1>6, RingAssumption, SMT DEF Counter
  <2>2. Plus(head', i) = Plus(head, toPop + i)
    BY <1>0, <1>1, <1>3, <2>1, PlusPlus
  <2> QED BY <2>1, <2>2 DEF RingHoldsItems, Counter
<1>14. CopyIsFront'
  BY DEF CopyIsFront
<1>15. BatchIsItems'
  <2>1. out # << >>
    BY <1>3
  <2> QED BY <1>9, <2>1 DEF BatchIsItems
<1>16. PushWritten' /\ DropsBounded'
  BY DEF PushWritten, DropsBounded
<1> QED BY <1>10, <1>11, <1>12, <1>13, <1>14, <1>15, <1>16

\* Handling a message shortens the batch.
LEMMA HandleNextInv ==
  ASSUME RingInv, HandleNext
  PROVE  RingInv'
<1> USE DEF RingInv, HandleNext, ring, producer
<1>1. batch \in Seq(Item) /\ batch # << >>
  BY DEF BatchIsItems
<1>2. batch' \in Seq(Item)
  BY <1>1
<1>3. batch' \in Seq(Item \cup {Torn})
  BY <1>2
<1>4. TypeOK'
  BY <1>3 DEF TypeOK
<1>5. BatchIsItems'
  BY <1>2 DEF BatchIsItems
<1>6. CountersOrdered' /\ PushHasRoom' /\ PushWritten' /\ RingHoldsItems'
  BY DEF CountersOrdered, PushHasRoom, PushWritten, RingHoldsItems
<1>7. CopyIsFront' /\ DropsBounded'
  BY DEF CopyIsFront, DropsBounded
<1> QED BY <1>4, <1>5, <1>6, <1>7

\* The invariant holds in every reachable state.
THEOREM RingInvariant == Spec => []RingInv
<1>1. Init => RingInv
  BY InitRingInv
<1>2. RingInv /\ [Next]_vars => RingInv'
  <2> SUFFICES ASSUME RingInv, [Next]_vars PROVE RingInv'
    OBVIOUS
  <2>1. ASSUME NEW item \in Item, TryPushLoad(item) PROVE RingInv'
    BY <2>1, TryPushLoadInv
  <2>2. CASE ProducerStep
    BY <2>2, TryPushFullInv, TryPushWriteInv, TryPushStoreInv DEF ProducerStep
  <2>3. CASE StartWorker \/ StopWorker \/ WorkerExit
    BY <2>3, WorkerControlInv
  <2>4. CASE PopLoadAny
    BY <2>4, PopBulkLoadInv
  <2>5. CASE WorkerStep
    BY <2>5, WorkerControlInv, PopBulkCopyInv, PopBulkStoreInv, HandleNextInv
       DEF WorkerStep
  <2>6. CASE UNCHANGED vars
    BY <2>6 DEF vars, RingInv, TypeOK, CountersOrdered, PushHasRoom,
                PushWritten, RingHoldsItems, CopyIsFront, BatchIsItems,
                DropsBounded
  <2> QED BY <2>1, <2>2, <2>3, <2>4, <2>5, <2>6 DEF Next
<1> QED BY <1>1, <1>2, PTL DEF Spec

\* Every variable keeps its type.
THEOREM TypeCorrect == Spec => []TypeOK
<1>1. RingInv => TypeOK
  BY DEF RingInv
<1> QED BY <1>1, RingInvariant, PTL

\* The counters never lap each other, whatever their width.
THEOREM CountersNeverLap == Spec => []CountersOrdered
<1>1. RingInv => CountersOrdered
  BY DEF RingInv
<1> QED BY <1>1, RingInvariant, PTL

\* The producer writes no slot that the worker is copying, or has copied and
\* given back without the producer having seen it.
THEOREM SlotsNeverRace == Spec => []NoSlotRace
<1>1. RingInv => NoSlotRace
  <2> SUFFICES ASSUME RingInv, pushPc = "writing" PROVE NoSlotRace
    BY DEF NoSlotRace
  <2>1. /\ head \in Counter /\ seenHead \in Counter /\ tail \in Counter
        /\ Minus(tail, seenHead) = Minus(head, seenHead) + Minus(tail, head)
        /\ Minus(head, seenHead) \in Nat /\ Minus(tail, head) \in Nat
    BY ProducerDistance DEF RingInv, TypeOK
  <2>2. Minus(tail, seenHead) < Cap /\ Minus(tail, head) < Cap
    BY <2>1, RingAssumption, SMT DEF RingInv, PushHasRoom
  <2>3. ASSUME popPc = "copy", NEW i \in 0 .. (toPop - 1)
        PROVE  Slot(Plus(popHead, i)) # Slot(tail)
    <3>1. toPop \in Nat /\ popHead = head
      BY <2>3, RingAssumption DEF RingInv, TypeOK, CopyIsFront
    <3>2. i + 1 \in 1 .. toPop /\ (i + 1) - 1 = i
      BY <3>1, SMT
    <3>3. i \in Counter /\ i < Minus(tail, head)
      BY <2>3, <3>2, CopyInsideRing
    <3> QED BY <2>2, <3>1, <3>3, TailSlotIsFree
  <2>4. ASSUME NEW i \in 0 .. (Minus(head, seenHead) - 1)
        PROVE  Slot(Plus(seenHead, i)) # Slot(tail)
    <3>1. i \in Nat /\ i < Minus(tail, seenHead) /\ Minus(tail, seenHead) \in Nat
      BY <2>1, SMT
    <3>2. Plus(seenHead, Minus(tail, seenHead)) = tail
      BY <2>1, PlusOfMinus
    <3> QED BY <2>1, <2>2, <3>1, <3>2, OffsetsDiffer
  <2> QED BY <2>3, <2>4 DEF NoSlotRace
<1> QED BY <1>1, RingInvariant, PTL

\* The worker never gets a message that is not whole.
THEOREM NeverTorn == Spec => []NothingTorn
<1>1. RingInv => NothingTorn
  <2> SUFFICES ASSUME RingInv PROVE NothingTorn
    OBVIOUS
  <2>1. Torn \notin Item
    BY RingAssumption
  <2>2. head \in Counter /\ tail \in Counter
    BY DEF RingInv, TypeOK
  <2>3. Minus(tail, head) \in Counter
    BY <2>2, MinusType
  <2>4. /\ Len(Content) = Minus(tail, head)
        /\ \A i \in 1 .. Len(Content) : Content[i] # Torn
    <3>1. Len(Content) = Minus(tail, head)
      BY <2>3 DEF Content, Counter
    <3>2. ASSUME NEW i \in 1 .. Minus(tail, head) PROVE Content[i] # Torn
      <4>1. i - 1 \in Counter /\ i - 1 < Minus(tail, head)
        BY <2>3, RingAssumption, SMT DEF Counter
      <4> QED BY <4>1, <2>1 DEF Content, RingInv, RingHoldsItems, Counter
    <3> QED BY <3>1, <3>2
  <2>5. ASSUME NEW i \in 1 .. Len(out) PROVE out[i] # Torn
    <3>1. CASE popPc = "copy"
      <4>1. i \in 1 .. toPop
        BY <3>1, RingAssumption, SMT DEF RingInv, TypeOK, CopyIsFront
      <4>2. i - 1 \in Counter /\ i - 1 < Minus(tail, head)
        BY <3>1, <4>1, CopyInsideRing
      <4> QED BY <3>1, <4>2, <2>1
              DEF RingInv, CopyIsFront, RingHoldsItems, Counter
    <3>2. CASE popPc # "copy"
      BY <3>2 DEF RingInv, CopyIsFront
    <3> QED BY <3>1, <3>2
  <2>6. \A i \in 1 .. Len(batch) : batch[i] # Torn
    BY <2>1 DEF RingInv, BatchIsItems
  <2> QED BY <2>4, <2>5, <2>6 DEF NothingTorn
<1> QED BY <1>1, RingInvariant, PTL
-----------------------------------------------------------------------------
(* The ring implements the bounded FIFO.                                   *)

\* Content is the sequence of the messages between head and tail.
ContentIsRing ==
  /\ Content \in Seq(Item)
  /\ Len(Content) = Minus(tail, head)
  /\ \A i \in 1 .. Len(Content) :
       Content[i] = buffer[Slot(Plus(head, i - 1))]

\* The messages between head and tail, as a sequence ...
LEMMA ContentType ==
  ASSUME RingInv
  PROVE  ContentIsRing
<1>1. Minus(tail, head) \in Counter
  BY MinusType DEF RingInv, TypeOK
<1>2. ASSUME NEW i \in 1 .. Minus(tail, head)
      PROVE  buffer[Slot(Plus(head, i - 1))] \in Item
  <2>1. i - 1 \in Counter /\ i - 1 < Minus(tail, head)
    BY <1>1, RingAssumption, SMT DEF Counter
  <2> QED BY <2>1 DEF RingInv, RingHoldsItems, Counter
<1>3. Minus(tail, head) \in Nat
  BY <1>1 DEF Counter
<1>4. Content \in Seq(Item)
  BY <1>2, <1>3, IsASeq DEF Content
<1> QED BY <1>3, <1>4 DEF Content, ContentIsRing

\* ... and the same after a step.
LEMMA ContentTypeNext == RingInv' => ContentIsRing'
<1>1. RingInv => ContentIsRing
  BY ContentType
<1> QED BY <1>1, PTL

\* A step that keeps the counters and the slots of the ring keeps Content.
LEMMA ContentKept ==
  ASSUME RingInv, RingInv', UNCHANGED <<head, tail>>,
         \A i \in Counter : i < Minus(tail, head) =>
           buffer'[Slot(Plus(head, i))] = buffer[Slot(Plus(head, i))]
  PROVE  Content' = Content
<1>1. /\ Content \in Seq(Item) /\ Content' \in Seq(Item)
      /\ Len(Content) = Minus(tail, head)
      /\ Len(Content') = Minus(tail, head)
  BY ContentType, ContentTypeNext DEF ContentIsRing
<1>2. Minus(tail, head) \in Counter
  BY MinusType DEF RingInv, TypeOK
<1>3. ASSUME NEW i \in 1 .. Len(Content) PROVE Content'[i] = Content[i]
  <2>1. i - 1 \in Counter /\ i - 1 < Minus(tail, head)
    BY <1>1, <1>2, RingAssumption, SMT DEF Counter
  <2>2. Content[i] = buffer[Slot(Plus(head, i - 1))]
    BY ContentType, ContentTypeNext DEF ContentIsRing
  <2>3. Content'[i] = buffer'[Slot(Plus(head, i - 1))]
    BY <1>1, ContentType, ContentTypeNext DEF ContentIsRing
  <2> QED BY <2>1, <2>2, <2>3
<1> QED BY <1>1, <1>3, SeqEqual

\* Publishing the slot of tail appends its message.
LEMMA StoreAppends ==
  ASSUME RingInv, RingInv', TryPushStore
  PROVE  Content' = Append(Content, pushItem)
<1>1. /\ Content \in Seq(Item) /\ Len(Content) = Minus(tail, head)
      /\ Content' \in Seq(Item) /\ Len(Content') = Minus(tail', head')
  BY ContentType, ContentTypeNext DEF ContentIsRing
<1>2. /\ head \in Counter /\ tail \in Counter /\ head' = head
      /\ buffer' = buffer /\ tail' = Plus(tail, 1)
      /\ pushItem \in Item /\ Minus(tail, head) \in Counter
  BY MinusType DEF RingInv, TypeOK, TryPushStore
<1>3. Minus(tail', head') = Minus(tail, head) + 1
  <2>1. Minus(head, seenHead) \in Counter
    BY <1>2, MinusType DEF RingInv, TypeOK
  <2>2. Minus(tail, head) + 1 < CounterMod
    BY <1>2, <2>1, RingAssumption, SMT
       DEF RingInv, PushHasRoom, TryPushStore, Counter
  <2> QED BY <1>2, <2>2, MinusAdvanceAhead
<1>4. /\ Append(Content, pushItem) \in Seq(Item)
      /\ Len(Append(Content, pushItem)) = Minus(tail, head) + 1
  BY <1>1, <1>2
<1>5. ASSUME NEW i \in 1 .. Len(Content')
      PROVE  Content'[i] = Append(Content, pushItem)[i]
  <2>1. Content'[i] = buffer[Slot(Plus(head, i - 1))]
    <3>1. Content'[i] = buffer'[Slot(Plus(head', i - 1))]
      BY ContentType, ContentTypeNext DEF ContentIsRing
    <3> QED BY <3>1, <1>2
  <2>2. CASE i \in 1 .. Len(Content)
    BY <2>1, <2>2, <1>1, ContentType, ContentTypeNext DEF ContentIsRing
  <2>3. CASE i = Len(Content) + 1
    <3>1. Plus(head, i - 1) = tail
      <4>1. i - 1 = Minus(tail, head)
        BY <2>3, <1>1, <1>2, SMT DEF Counter
      <4> QED BY <4>1, <1>2, PlusOfMinus
    <3>2. buffer[Slot(tail)] = pushItem
      BY DEF RingInv, PushWritten, TryPushStore
    <3>3. Append(Content, pushItem)[i] = pushItem
      BY <2>3, <1>1
    <3> QED BY <2>1, <3>1, <3>2, <3>3
  <2> QED BY <2>2, <2>3, <1>1, <1>3, <1>2, SMT DEF Counter
<1> QED BY <1>1, <1>3, <1>4, <1>5, SeqEqual

\* A pop takes its batch off the front.
LEMMA PopTakesFront ==
  ASSUME RingInv, RingInv', PopBulkStore
  PROVE  /\ toPop \in 1 .. Len(Content) /\ toPop <= Batch
         /\ out = SubSeq(Content, 1, toPop)
         /\ Content' = SubSeq(Content, toPop + 1, Len(Content))
<1>1. /\ Content \in Seq(Item) /\ Len(Content) = Minus(tail, head)
      /\ Content' \in Seq(Item) /\ Len(Content') = Minus(tail', head')
  BY ContentType, ContentTypeNext DEF ContentIsRing
<1>2. /\ head \in Counter /\ tail \in Counter /\ seenTail \in Counter
      /\ head' = Plus(head, toPop) /\ tail' = tail /\ buffer' = buffer
      /\ out \in Seq(Item \cup {Torn}) /\ Len(out) = toPop
  BY DEF RingInv, TypeOK, CopyIsFront, PopBulkStore
<1>3. Minus(tail, head) \in Counter /\ Minus(seenTail, head) \in Counter
  BY <1>2, MinusType
<1>4. /\ toPop \in Nat /\ toPop > 0 /\ toPop <= Batch
      /\ toPop <= Minus(tail, head)
  BY <1>3, RingAssumption, SMT
     DEF RingInv, TypeOK, CopyIsFront, CountersOrdered, Counter, PopBulkStore
<1>5. Minus(tail', head') = Minus(tail, head) - toPop
  BY <1>2, <1>3, <1>4, MinusAdvanceBehind DEF Counter
<1>6. toPop \in 1 .. Len(Content)
  BY <1>1, <1>3, <1>4, SMT DEF Counter
<1>7. out = SubSeq(Content, 1, toPop)
  <2>1. /\ SubSeq(Content, 1, toPop) \in Seq(Item)
        /\ Len(SubSeq(Content, 1, toPop)) = toPop
        /\ \A i \in 1 .. toPop : SubSeq(Content, 1, toPop)[i] = Content[i]
    BY <1>1, <1>4, <1>6, SMT
  <2>2. SubSeq(Content, 1, toPop) \in Seq(Item \cup {Torn})
    BY <1>1, <1>4, <1>6, SMT
  <2>3. ASSUME NEW i \in 1 .. Len(out)
        PROVE  out[i] = SubSeq(Content, 1, toPop)[i]
    <3>1. out[i] = buffer[Slot(Plus(head, i - 1))]
      BY DEF RingInv, CopyIsFront, PopBulkStore
    <3>2. i \in 1 .. Len(Content) /\ i \in 1 .. toPop
      BY <1>2, <1>4, <1>6, SMT
    <3> QED BY <3>1, <3>2, <2>1, ContentType, ContentTypeNext DEF ContentIsRing
  <2> QED BY <1>2, <2>1, <2>2, <2>3, SeqEqual
<1>8. Content' = SubSeq(Content, toPop + 1, Len(Content))
  <2> DEFINE rest == SubSeq(Content, toPop + 1, Len(Content))
  <2>1. /\ rest \in Seq(Item)
        /\ Len(rest) = Len(Content) - toPop
        /\ \A i \in 1 .. Len(rest) : rest[i] = Content[toPop + i]
    BY <1>1, <1>4, <1>6, SMT
  <2>2. Len(Content') = Len(rest)
    BY <1>1, <1>5, <2>1
  <2>3. ASSUME NEW i \in 1 .. Len(Content') PROVE Content'[i] = rest[i]
    <3>1. Content'[i] = buffer[Slot(Plus(Plus(head, toPop), i - 1))]
      <4>1. Content'[i] = buffer'[Slot(Plus(head', i - 1))]
        BY ContentType, ContentTypeNext DEF ContentIsRing
      <4> QED BY <4>1, <1>2
    <3>2. /\ toPop + i \in 1 .. Len(Content) /\ i \in 1 .. Len(rest)
          /\ i - 1 \in Nat /\ toPop + (i - 1) < CounterMod
          /\ toPop + (i - 1) = (toPop + i) - 1
      BY <1>1, <1>3, <1>4, <1>6, <2>1, <2>2, RingAssumption, SMT DEF Counter
    <3>3. Plus(Plus(head, toPop), i - 1) = Plus(head, (toPop + i) - 1)
      BY <1>2, <1>4, <3>2, PlusPlus
    <3>4. Content[toPop + i] = buffer[Slot(Plus(head, (toPop + i) - 1))]
      BY <3>2, ContentType, ContentTypeNext DEF ContentIsRing
    <3> QED BY <3>1, <3>2, <3>3, <3>4, <2>1
  <2> QED BY <1>1, <2>1, <2>2, <2>3, SeqEqual
<1> QED BY <1>4, <1>6, <1>7, <1>8

\* Every step of the ring is a step of the bounded FIFO or leaves it alone.
LEMMA StepRefines ==
  ASSUME RingInv, RingInv', [Next]_vars
  PROVE  [Fifo!Next]_(Fifo!fifoVars)
<1> DEFINE Kept == UNCHANGED <<buffer, head, tail>>
           Stutter == UNCHANGED Fifo!fifoVars
<1>1. Kept => Content' = Content
  BY DEF Content
<1>2. ASSUME NEW item \in Item, TryPushLoad(item) PROVE Fifo!Offer
  <2> USE DEF TryPushLoad, ring, consumer
  <2>1. PICK k \in 0 .. Minus(head, seenHead) : seenHead' = Plus(seenHead, k)
    BY <1>2
  <2>2. /\ seenHead \in Counter /\ head \in Counter /\ tail \in Counter
        /\ seenHead' \in Counter
    BY DEF RingInv, TypeOK
  <2>3. Minus(head, seenHead) \in Counter /\ Minus(tail, head) \in Counter
    BY <2>2, MinusType
  <2>4. Minus(tail, seenHead) = Minus(head, seenHead) + Minus(tail, head)
    BY ProducerDistance
  <2>5. k \in 0 .. Minus(tail, seenHead) /\ k \in Nat
    BY <2>1, <2>3, <2>4, SMT DEF Counter
  <2>6. Minus(tail, seenHead') = Minus(tail, seenHead) - k
    BY <2>1, <2>2, <2>5, MinusAdvanceBehind
  <2>7. Len(Content) = Minus(tail, head)
    BY ContentType, ContentTypeNext DEF ContentIsRing
  <2>8. Cap - Minus(tail, seenHead')
          \in (Cap - Minus(tail, seenHead)) .. (Cap - Len(Content))
    BY <2>1, <2>3, <2>4, <2>5, <2>6, <2>7, RingAssumption, SMT DEF Counter
  <2>9. tail' = tail /\ Content' = Content
    BY <1>1, <1>2
  <2>10. pushItem = NoItem /\ pushItem' = item
    BY <1>2 DEF RingInv, TypeOK
  <2> QED BY <1>2, <2>8, <2>9, <2>10 DEF Fifo!Offer
<1>3. ASSUME TryPushFull PROVE Fifo!Reject
  <2> USE DEF TryPushFull, ring, consumer
  <2>1. Cap - Minus(tail, seenHead) = 0
    <3>1. Minus(tail, seenHead) <= Cap
      BY ProducerDistance DEF RingInv, CountersOrdered
    <3>2. Minus(tail, seenHead) >= Cap
      BY <1>3 DEF RingFull
    <3>3. Minus(tail, seenHead) \in Nat
      BY ProducerDistance, SMT
    <3> QED BY <3>1, <3>2, <3>3, RingAssumption, SMT
  <2>2. pushItem # NoItem
    BY <1>3 DEF RingInv, TypeOK
  <2> QED BY <1>1, <1>3, <2>1, <2>2 DEF Fifo!Reject
<1>4. ASSUME TryPushBeginWrite \/ TryPushEndWrite PROVE Stutter
  <2> USE DEF TryPushBeginWrite, TryPushEndWrite, consumer
  <2>1. Minus(tail, head) < Cap
    <3>1. /\ Minus(tail, seenHead) = Minus(head, seenHead) + Minus(tail, head)
          /\ Minus(head, seenHead) \in Nat /\ Minus(tail, head) \in Nat
      BY ProducerDistance
    <3> QED BY <1>4, <3>1, RingAssumption, SMT
            DEF RingFull, RingInv, PushHasRoom
  <2>2. PICK v : buffer' = [buffer EXCEPT ![Slot(tail)] = v]
    BY <1>4
  <2>3. UNCHANGED <<head, tail>>
    BY <1>4
  <2>4. Content' = Content
    BY <2>1, <2>2, <2>3, WriteKeepsRing, ContentKept
  <2> QED BY <1>4, <2>4 DEF Fifo!fifoVars
<1>5. ASSUME TryPushStore PROVE Fifo!Accept
  <2> USE DEF TryPushStore, consumer
  <2>1. Content' = Append(Content, pushItem)
    BY <1>5, StoreAppends
  <2>2. pushItem # NoItem
    BY <1>5 DEF RingInv, TypeOK
  <2>3. /\ Minus(tail, seenHead) < Cap /\ Minus(tail, seenHead) \in Nat
    BY <1>5, ProducerDistance, SMT DEF RingInv, PushHasRoom
  <2>4. Minus(tail', seenHead') = Minus(tail, seenHead) + 1
    <3>1. tail \in Counter /\ seenHead \in Counter
      BY DEF RingInv, TypeOK
    <3>2. Minus(tail, seenHead) + 1 < CounterMod
      BY <2>3, RingAssumption, SMT
    <3> QED BY <1>5, <3>1, <3>2, MinusAdvanceAhead
  <2>5. /\ Cap - Minus(tail, seenHead) > 0
        /\ Cap - Minus(tail', seenHead') = (Cap - Minus(tail, seenHead)) - 1
    BY <2>3, <2>4, RingAssumption, SMT
  <2> QED BY <1>5, <2>1, <2>2, <2>5 DEF Fifo!Accept
<1>6. ASSUME StartWorker \/ StopWorker \/ WorkerExit PROVE Stutter
  BY <1>1, <1>6 DEF StartWorker, StopWorker, WorkerExit, ring, producer,
                    consumer, Fifo!fifoVars
<1>7. ASSUME PopLoadAny PROVE Stutter
  BY <1>1, <1>7 DEF PopLoadAny, PopBulkLoad, ring, producer, Fifo!fifoVars
<1>8. ASSUME PopBulkCopy PROVE Stutter
  BY <1>1, <1>8 DEF PopBulkCopy, ring, producer, Fifo!fifoVars
<1>9. ASSUME PopBulkStore PROVE Fifo!Pop
  <2>1. /\ toPop \in 1 .. Len(Content) /\ toPop <= Batch
        /\ out = SubSeq(Content, 1, toPop)
        /\ Content' = SubSeq(Content, toPop + 1, Len(Content))
    BY <1>9, PopTakesFront
  <2>2. batch = << >>
    BY <1>9 DEF PopBulkStore, RingInv, BatchIsItems
  <2> QED BY <1>9, <2>1, <2>2 DEF PopBulkStore, producer, Fifo!Pop
<1>10. ASSUME HandleNext PROVE Fifo!Handle
  <2>1. batch # << >>
    BY <1>10 DEF HandleNext, RingInv, BatchIsItems
  <2> QED BY <1>1, <1>10, <2>1 DEF HandleNext, ring, producer, Fifo!Handle
<1>11. ASSUME UNCHANGED vars PROVE Stutter
  BY <1>1, <1>11 DEF vars, Fifo!fifoVars
<1> QED BY <1>2, <1>3, <1>4, <1>5, <1>6, <1>7, <1>8, <1>9, <1>10, <1>11
        DEF Next, ProducerStep, WorkerStep, Fifo!Next

\* The initial ring is the empty FIFO.
LEMMA InitRefines == Init => Fifo!Init
<1> SUFFICES ASSUME Init PROVE Fifo!Init
  OBVIOUS
<1>1. Minus(tail, head) = 0 /\ Minus(tail, seenHead) = 0
  BY RingAssumption, SMT DEF Init, Minus
<1>2. Content = << >>
  <2>1. RingInv
    BY InitRingInv
  <2>2. Content \in Seq(Item) /\ Len(Content) = 0
    BY <2>1, <1>1, ContentType, ContentTypeNext DEF ContentIsRing
  <2> QED BY <2>2, EmptySeq
<1>3. Cap - Minus(tail, seenHead) = Cap
  BY <1>1, RingAssumption, SMT
<1> QED BY <1>2, <1>3 DEF Init, Fifo!Init

\* The ring of spsc_ring.h between its two threads loses, doubles and
\* reorders nothing, and refuses a message only for want of a credit.
THEOREM RingImplementsFifo == Spec => ImplementsFifo
<1>1. Init => Fifo!Init
  BY InitRefines
<1>2. RingInv /\ RingInv' /\ [Next]_vars => [Fifo!Next]_(Fifo!fifoVars)
  BY StepRefines
<1> QED BY <1>1, <1>2, RingInvariant, PTL DEF Spec, ImplementsFifo, Fifo!Spec
=============================================================================
