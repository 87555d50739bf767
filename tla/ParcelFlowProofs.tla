-------------------------- MODULE ParcelFlowProofs --------------------------
(***************************************************************************)
(* Proofs about ParcelFlow, for any barcodes, stations, numbers, slots and  *)
(* answers of the service, and any number of scans, unload frames and       *)
(* changes of the mode, in every plant of Plants.                           *)
(***************************************************************************)
EXTENDS ParcelFlow, FiniteSetTheorems, SequenceTheorems, TLAPS

Thread == Scans \cup {Main}

\* The main thread is none of the tasks of the scans.
LEMMA MainIsNoScan ==
  /\ Main \notin Scans
  /\ \A i \in Scans : i # 0 /\ i \in 0 .. MaxScans
BY ParcelAssumption DEF Scans, Main

(* What the actions do to the tasks.                                       *)

\* Thread j goes to pc; the others stay as they are.
JobStep(j, pc) ==
  /\ job' \in [Thread -> Job]
  /\ \A k \in Thread \ {j} : job'[k] = job[k]
  /\ job'[j].pc = pc

\* It keeps its parcel, and its slot.
KeepsParcel(j) == job'[j].code = job[j].code /\ job'[j].number = job[j].number
KeepsSlot(j) == KeepsParcel(j) /\ job'[j].slot = job[j].slot

\* A step of the program counter alone.
LEMMA PcEffect ==
  ASSUME Typed, NEW j \in Thread, NEW pc \in JobPc, job' = [job EXCEPT ![j].pc = pc]
  PROVE  JobStep(j, pc) /\ KeepsSlot(j)
<1>1. job \in [Thread -> Job]
  BY DEF Typed, Thread
<1> QED BY <1>1 DEF JobStep, KeepsSlot, KeepsParcel, Job

\* The places a thread can be in.
LEMMA Places ==
  /\ {"supply", "query", "write", "mode1", "mode2", "erase"} \subseteq JobPc
  /\ Sending \subseteq JobPc
  /\ {"idle", "done", "skipped"} \subseteq JobPc
  /\ Working = {"supply", "query", "write", "mode1", "mode2", "erase"} \cup Sending
  /\ Sending = {"sendFound", "queryId", "queryOrder"}
BY DEF JobPc, Working, Sending

\* A scan: a task that is idle gets a code and a number.
ScanJob(i, c, m) ==
  /\ JobStep(i, "supply")
  /\ job'[i].code = c /\ job'[i].number = m /\ job'[i].slot = -1

\* The main thread gives a number and starts a job for the scan.
LEMMA ScanEffect ==
  ASSUME Typed, TypeOK, NEW i \in Scans, NEW c \in Code, NEW s \in Supply,
         Scan(i, c, s)
  PROVE  LET o == UpdateSupplyOrder(order[s])
             m == SupplyNumber(s, o)
         IN  /\ o \in 1 .. MaxOrder
             /\ m \in Number
             /\ ScanJob(i, c, m)
<1> DEFINE o == UpdateSupplyOrder(order[s])
           m == SupplyNumber(s, o)
<1>1. order[s] \in 0 .. MaxOrder
  BY DEF TypeOK
<1>2. o \in 1 .. MaxOrder
  BY <1>1, ParcelAssumption DEF UpdateSupplyOrder
<1>3. m \in Number
  BY <1>2 DEF SupplyNumber, Number
<1>4. job' = [job EXCEPT ![i] = [IdleJob EXCEPT !.pc = "supply", !.code = c,
                                               !.number = m]]
  BY DEF Scan
<1> HIDE DEF m, o
<1>5. job \in [Thread -> Job] /\ i \in Thread
  BY DEF Typed, Thread
<1> DEFINE r == [IdleJob EXCEPT !.pc = "supply", !.code = c, !.number = m]
<1>6. r \in Job /\ r.pc = "supply" /\ r.code = c /\ r.number = m /\ r.slot = -1
  <2>1. IdleJob \in [pc : JobPc, code : {NoCode}, number : {NoNumber},
                    found : {FALSE}, slot : {-1}, station : {-1}]
    BY Places DEF IdleJob
  <2>2. "supply" \in JobPc /\ -1 \in Int
    BY Places
  <2> QED BY <1>3, <2>1, <2>2 DEF Job
<1>7. job' = [job EXCEPT ![i] = r]
  BY <1>4
<1> HIDE DEF r
<1>8. ScanJob(i, c, m)
  BY <1>5, <1>6, <1>7 DEF ScanJob, JobStep
<1> QED BY <1>2, <1>3, <1>8 DEF o, m

\* The announcement goes out, or is lost with the link, or is kept for later: those
\* before it stay announcements, and where the port does not fail none is kept.
Announces(i) ==
  /\ plc' \in [supplied : SUBSET Scans, stored : Seq(Scans), lost : SUBSET Scans,
               slots : SUBSET SlotMessage]
  /\ plc'.slots = plc.slots
  /\ Announcements \subseteq Announcements' /\ i \in Announcements'
  /\ ~plant.portFails /\ plc.stored = << >> /\ plc.lost = {}
       => plc'.stored = << >> /\ plc'.lost = {}

\* A queue is cut into what is taken and what is left.
LEMMA CutInTwo ==
  ASSUME NEW S, NEW w \in Seq(S), NEW n \in 0 .. Len(w)
  PROVE  LET b == SubSeq(w, 1, n)
             r == SubSeq(w, n + 1, Len(w))
         IN  /\ b \in Seq(S) /\ r \in Seq(S)
             /\ Len(b) = n /\ Len(r) = Len(w) - n
             /\ ToSet(w) \subseteq ToSet(b) \cup ToSet(r)
             /\ ToSet(b) \subseteq S
<1> DEFINE b == SubSeq(w, 1, n)
           r == SubSeq(w, n + 1, Len(w))
           l == Len(w)
<1>1. l \in Nat /\ DOMAIN w = 1 .. l /\ \A k \in 1 .. l : w[k] \in S
  BY LenProperties, ElementOfSeq
<1>2. b = [k \in 1 .. n |-> w[k]] /\ r = [k \in 1 .. (l - n) |-> w[k + n]]
  BY <1>1
<1>3. n \in Nat /\ l - n \in Nat /\ \A k \in 1 .. (l - n) : k + n \in 1 .. l
  BY <1>1
<1>4. b \in Seq(S) /\ Len(b) = n /\ DOMAIN b = 1 .. n
  BY <1>1, <1>2, <1>3
<1>5. r \in Seq(S) /\ Len(r) = l - n /\ DOMAIN r = 1 .. (l - n)
  <2>1. \A q \in Nat : \A s : s = [k \in 1 .. q |-> w[k + n]]
          /\ (\A k \in 1 .. q : w[k + n] \in S)
          => s \in Seq(S) /\ Len(s) = q /\ DOMAIN s = 1 .. q
    OBVIOUS
  <2>2. \A k \in 1 .. (l - n) : w[k + n] \in S
    BY <1>1, <1>3
  <2> QED BY <1>2, <1>3, <2>1, <2>2
<1> HIDE DEF b, r
<1>6. ASSUME NEW k \in 1 .. l PROVE w[k] \in ToSet(b) \cup ToSet(r)
  <2>1. CASE k <= n
    <3>1. k \in 1 .. n
      BY <1>1, <2>1
    <3>2. b[k] = w[k]
      BY <1>2, <3>1
    <3> QED BY <1>4, <3>1, <3>2 DEF ToSet
  <2>2. CASE k > n
    <3>1. k - n \in 1 .. (l - n) /\ (k - n) + n = k
      BY <1>1, <1>3, <2>2
    <3>2. r[k - n] = w[k]
      BY <1>2, <3>1
    <3> QED BY <1>5, <3>1, <3>2 DEF ToSet
  <2> QED BY <1>1, <2>1, <2>2
<1>7. ToSet(w) \subseteq ToSet(b) \cup ToSet(r)
  BY <1>1, <1>6 DEF ToSet
<1>8. ToSet(b) \subseteq S
  BY <1>1, <1>2, <1>3, <1>4 DEF ToSet
<1> QED BY <1>4, <1>5, <1>7, <1>8 DEF b, r

\* sendSupplyDataToPLC loses nothing but with the link.
LEMMA SupplyEffect ==
  ASSUME Typed, NEW i \in Scans, TaskSupply(i)
  PROVE  Announces(i)
<1> DEFINE w == Append(plc.stored, i)
           n == IF Len(w) < BatchMax THEN Len(w) ELSE BatchMax
           b == SubSeq(w, 1, n)
           r == SubSeq(w, n + 1, Len(w))
<1>1. plc \in [supplied : SUBSET Scans, stored : Seq(Scans), lost : SUBSET Scans,
               slots : SUBSET SlotMessage]
  BY DEF Typed
<1>2. /\ w \in Seq(Scans) /\ Len(w) = Len(plc.stored) + 1 /\ Len(plc.stored) \in Nat
      /\ \A k \in 1 .. Len(plc.stored) : w[k] = plc.stored[k]
      /\ w[Len(plc.stored) + 1] = i
  BY <1>1, AppendProperties, LenProperties
<1>3. n \in 0 .. Len(w) /\ (plc.stored = << >> => n = Len(w))
  <2>1. BatchMax \in Nat /\ BatchMax > 0
    BY ParcelAssumption
  <2>2. plc.stored = << >> => Len(plc.stored) = 0
    OBVIOUS
  <2> HIDE DEF w
  <2> QED BY <1>2, <2>1, <2>2
<1>4. plc.stored = << >> \/ Len(plc.stored) > 0
  BY <1>1, <1>2, EmptySeq
<1>5. ToSet(plc.stored) \cup {i} \subseteq ToSet(w)
  <2>1. DOMAIN plc.stored = 1 .. Len(plc.stored) /\ DOMAIN w = 1 .. (Len(plc.stored) + 1)
    BY <1>1, <1>2, LenProperties
  <2> HIDE DEF w
  <2> QED BY <1>2, <2>1 DEF ToSet
<1>6. Len(b) = n /\ Batch(i) = b /\ Rest(i) = r
  <2>1. Len(b) = n
    BY <1>2, <1>3, CutInTwo
  <2>2. Batch(i) = b
    BY DEF Batch
  <2> QED BY <1>2, <2>1, <2>2 DEF Rest
<1>7. /\ b \in Seq(Scans) /\ r \in Seq(Scans) /\ Len(r) = Len(w) - n
      /\ ToSet(w) \subseteq ToSet(b) \cup ToSet(r)
      /\ ToSet(b) \subseteq Scans
  <2> HIDE DEF w, n
  <2> QED BY <1>2, <1>3, CutInTwo
<1>8. plc.stored = << >> => r = << >>
  <2> HIDE DEF w, n, r, b
  <2>1. plc.stored = << >> => Len(r) = 0
    BY <1>2, <1>3, <1>7
  <2> QED BY <1>7, <2>1, EmptySeq
<1>9. ToSet(w) \subseteq Scans
  BY <1>2, LenProperties, ElementOfSeq DEF ToSet
<1> HIDE DEF w, n, b, r
<1>10. CASE plc' = [plc EXCEPT !.supplied = @ \cup ToSet(Batch(i)), !.stored = Rest(i)]
  <2>1. /\ plc'.supplied = plc.supplied \cup ToSet(b) /\ plc'.stored = r
        /\ plc'.lost = plc.lost /\ plc'.slots = plc.slots
    BY <1>1, <1>6, <1>10
  <2>2. plc' \in [supplied : SUBSET Scans, stored : Seq(Scans), lost : SUBSET Scans,
                 slots : SUBSET SlotMessage]
    BY <1>1, <1>6, <1>7, <1>10
  <2> QED BY <1>5, <1>7, <1>8, <2>1, <2>2 DEF Announces, Announcements
<1>11. CASE /\ plant.portFails
            /\ plc' = [plc EXCEPT !.lost = @ \cup ToSet(Batch(i)), !.stored = Rest(i)]
  <2>1. /\ plc'.lost = plc.lost \cup ToSet(b) /\ plc'.stored = r
        /\ plc'.supplied = plc.supplied /\ plc'.slots = plc.slots
    BY <1>1, <1>6, <1>11
  <2>2. plc' \in [supplied : SUBSET Scans, stored : Seq(Scans), lost : SUBSET Scans,
                 slots : SUBSET SlotMessage]
    BY <1>1, <1>6, <1>7, <1>11
  <2> QED BY <1>5, <1>7, <1>11, <2>1, <2>2 DEF Announces, Announcements
<1>12. CASE plant.portFails /\ plc' = [plc EXCEPT !.stored = Append(@, i)]
  <2>1. plc' = [plc EXCEPT !.stored = w]
    BY <1>12 DEF w
  <2>2. /\ plc'.stored = w /\ plc'.lost = plc.lost
        /\ plc'.supplied = plc.supplied /\ plc'.slots = plc.slots
    BY <1>1, <2>1
  <2>3. plc' \in [supplied : SUBSET Scans, stored : Seq(Scans), lost : SUBSET Scans,
                 slots : SUBSET SlotMessage]
    BY <1>1, <1>2, <2>1
  <2> QED BY <1>5, <1>12, <2>2, <2>3 DEF Announces, Announcements
<1> QED BY <1>10, <1>11, <1>12 DEF TaskSupply

\* The query of the row: its slot, or nothing.
RowRead(i) ==
  LET c == job[i].code IN
  /\ JobStep(i, "write") /\ KeepsParcel(i)
  /\ \/ job'[i].found /\ db[c] # NoRow /\ job'[i].slot = db[c].slot
     \/ /\ ~job'[i].found /\ job'[i].slot = -1
        /\ db[c] = NoRow \/ plant.dbFails

\* A task finds the row of its code, finds none, or the query fails.
LEMMA QueryRowEffect ==
  ASSUME Typed, NEW i \in Scans, QueryRow(i)
  PROVE  RowRead(i)
<1> DEFINE c == job[i].code
<1>1. job \in [Thread -> Job] /\ i \in Thread
  BY DEF Typed, Thread
<1>2. c \in Code
  BY DEF QueryRow, Typed, Started
<1>3. PICK check \in QueryString(c, "slot") :
        job' = [job EXCEPT ![i].pc = "write", ![i].found = check # << >>,
                           ![i].slot = OrMinus1(check)]
  BY DEF QueryRow
<1>4. \/ check = << >> /\ (db[c] = NoRow \/ plant.dbFails)
      \/ check = <<db[c].slot>> /\ db[c] # NoRow
  BY <1>3 DEF QueryString
<1>5. db[c] # NoRow => db[c].slot \in Int
  BY <1>2 DEF Typed, Row
<1> DEFINE v == OrMinus1(check)
           b == (check # << >>)
<1>6. \/ b = FALSE /\ v = -1 /\ (db[c] = NoRow \/ plant.dbFails)
      \/ b = TRUE /\ v = db[c].slot /\ db[c] # NoRow
  <2>1. CASE check = << >>
    BY <1>4, <2>1 DEF OrMinus1
  <2>2. CASE check # << >>
    BY <1>4, <2>2 DEF OrMinus1
  <2> QED BY <2>1, <2>2
<1>7. v \in Int /\ b \in BOOLEAN
  BY <1>5, <1>6
<1>8. job' = [job EXCEPT ![i].pc = "write", ![i].found = b, ![i].slot = v]
  BY <1>3
<1> HIDE DEF v, b
<1>9. JobStep(i, "write") /\ KeepsParcel(i)
      /\ job'[i].found = b /\ job'[i].slot = v
  <2> DEFINE r == [job[i] EXCEPT !.pc = "write", !.found = b, !.slot = v]
  <2>1. r \in Job /\ r.pc = "write" /\ r.found = b /\ r.slot = v
        /\ r.code = job[i].code /\ r.number = job[i].number
    BY <1>1, <1>7, Places DEF Job
  <2>2. job' = [job EXCEPT ![i] = r]
    BY <1>8
  <2> HIDE DEF r, c
  <2> QED BY <1>1, <2>1, <2>2 DEF JobStep, KeepsParcel
<1> QED BY <1>6, <1>9 DEF RowRead

\* The row is written with the slot that was read, or left as it is.
RowWritten(i) ==
  LET c == job[i].code
      row == RowOf(job[i])
  IN  /\ JobStep(i, "mode1") /\ KeepsSlot(i)
      /\ db' \in [Code -> Row \cup {NoRow}]
      /\ \A d \in Code \ {c} : db'[d] = db[d]
      /\ row \in Row /\ row.slot = job[i].slot
      /\ \/ UNCHANGED db
         \/ db'[c] = row
      /\ ~plant.dbFails /\ job[i].found = (db[c] # NoRow) => db'[c] = row

\* A task inserts or updates the row, or the statement fails.
LEMMA WriteRowEffect ==
  ASSUME Typed, NEW i \in Scans, WriteRow(i)
  PROVE  RowWritten(i)
<1> DEFINE c == job[i].code
           row == RowOf(job[i])
<1>1. JobStep(i, "mode1") /\ KeepsSlot(i)
  BY PcEffect, Places DEF WriteRow, Thread
<1>2. c \in Code /\ job[i].number \in Number /\ job[i].slot \in Int
  BY DEF WriteRow, Typed, Started, Job
<1>3. row \in Row /\ row.slot = job[i].slot
  BY <1>2 DEF RowOf, Row, Number
<1>4. db \in [Code -> Row \cup {NoRow}]
  BY DEF Typed
<1>5. db' \in IF job[i].found THEN UpdateRow(c, row) ELSE InsertRow(c, row)
  BY DEF WriteRow
<1>6. UNCHANGED db \/ db' = [db EXCEPT ![c] = row]
  BY <1>5 DEF UpdateRow, InsertRow, OrUnchanged
<1>7. ~plant.dbFails /\ job[i].found = (db[c] # NoRow) => db' = [db EXCEPT ![c] = row]
  BY <1>5 DEF UpdateRow, InsertRow, OrUnchanged
<1> HIDE DEF row
<1>8. /\ db' \in [Code -> Row \cup {NoRow}]
      /\ \A d \in Code \ {c} : db'[d] = db[d]
      /\ UNCHANGED db \/ db'[c] = row
  BY <1>2, <1>3, <1>4, <1>6
<1>9. ~plant.dbFails /\ job[i].found = (db[c] # NoRow) => db'[c] = row
  BY <1>2, <1>4, <1>7
<1> QED BY <1>1, <1>3, <1>8, <1>9 DEF RowWritten, row

\* A slot is known to thread j, for the code in its hands.
Sends(j, c, slot) ==
  /\ \/ codeToMsg[c] = NoNumber /\ JobStep(j, "queryId")
     \/ codeToMsg[c] # NoNumber /\ JobStep(j, "sendFound")
  /\ job'[j].code = c
  /\ job'[j].slot = slot
  /\ slot \in Int
  /\ codeToSlot' \in [Code -> Int \cup {NoSlot}]
  /\ codeToSlot'[c] = slot
  /\ \A d \in Code \ {c} : codeToSlot'[d] = codeToSlot[d]

\* A thread that has a slot leaves the map with it and goes on to send it.
LEMMA StartSendEffect ==
  ASSUME Typed, TypeOK, NEW j \in Thread, NEW r \in Job, r.code \in Code,
         StartSend(j, r)
  PROVE  Sends(j, r.code, r.slot) /\ job'[j].number = r.number
<1> DEFINE pc == IF codeToMsg[r.code] = NoNumber THEN "queryId" ELSE "sendFound"
           q == [r EXCEPT !.pc = pc]
<1>1. job \in [Thread -> Job]
  BY DEF Typed, Thread
<1>2. pc \in JobPc
  BY Places
<1>3. job' = [job EXCEPT ![j] = q]
  BY DEF StartSend
<1>4. \/ codeToMsg[r.code] = NoNumber /\ pc = "queryId"
      \/ codeToMsg[r.code] # NoNumber /\ pc = "sendFound"
  OBVIOUS
<1> HIDE DEF pc
<1>5. q \in Job /\ q.pc = pc /\ q.code = r.code /\ q.slot = r.slot
      /\ q.number = r.number
  BY <1>2 DEF Job
<1> HIDE DEF q
<1>6. JobStep(j, pc) /\ job'[j] = q
  BY <1>1, <1>3, <1>5 DEF JobStep
<1>7. r.slot \in Int
  BY DEF Job
<1>8. codeToSlot \in [Code -> Int \cup {NoSlot}]
  BY DEF TypeOK
<1>9. codeToSlot' = [codeToSlot EXCEPT ![r.code] = r.slot]
  BY DEF StartSend
<1>10. /\ codeToSlot' \in [Code -> Int \cup {NoSlot}]
       /\ codeToSlot'[r.code] = r.slot
       /\ \A d \in Code \ {r.code} : codeToSlot'[d] = codeToSlot[d]
  BY <1>7, <1>8, <1>9
<1> QED BY <1>4, <1>5, <1>6, <1>7, <1>10 DEF Sends

\* requestAndSendToPLC asks for a slot, or sends the one it has.
Asks(i) ==
  LET c == job[i].code IN
  /\ JobStep(i, "done") /\ KeepsSlot(i)
  /\ asked' = [asked EXCEPT ![c] = @ + 1]
  /\ UNCHANGED codeToSlot

SendsOwn(i) ==
  /\ Sends(i, job[i].code, job[i].slot) /\ KeepsSlot(i)
  /\ UNCHANGED asked

\* A task asks for a slot, or sends the one the map has.
LEMMA AskOrSendEffect ==
  ASSUME Typed, TypeOK, NEW i \in Scans, Started(i), AskOrSend(i)
  PROVE  Asks(i) \/ SendsOwn(i)
<1>1. i \in Thread /\ job[i] \in Job /\ job[i].code \in Code
  BY DEF Typed, Thread
<1>2. CASE /\ asked' = [asked EXCEPT ![job[i].code] = @ + 1]
           /\ job' = [job EXCEPT ![i].pc = "done"]
           /\ UNCHANGED codeToSlot
  BY <1>1, <1>2, PcEffect, Places DEF Asks
<1>3. CASE StartSend(i, job[i]) /\ UNCHANGED asked
  <2>1. Sends(i, job[i].code, job[i].slot) /\ job'[i].number = job[i].number
    BY <1>1, <1>3, StartSendEffect
  <2> QED BY <1>3, <2>1 DEF SendsOwn, Sends, KeepsSlot, KeepsParcel
<1> QED BY <1>2, <1>3 DEF AskOrSend

\* The answer of the service: the main thread has a code and a slot.
Answered(c) ==
  /\ job[Main].pc = "idle"
  /\ asked[c] > 0
  /\ asked' = [asked EXCEPT ![c] = @ - 1]
  /\ \E slot \in Int : Sends(Main, c, slot)

\* Every slot that the tables give is a number.
LEMMA SlotOfType == \A a : SlotOf(a) \in Int
<1>1. \A name : SlotOr0(ArrivalSlot, name) \in Int /\ SlotOr0(DepartureSlot, name) \in Int
  BY ParcelAssumption DEF SlotOr0
<1> QED BY <1>1, ParcelAssumption DEF SlotOf

\* An answer settles one request of its code.
LEMMA TerminalCodeEffect ==
  ASSUME Typed, TypeOK, NEW c \in Code, TerminalCodeRecv(c)
  PROVE  Answered(c)
<1>1. PICK slot \in {SlotOf(a) : a \in Answer} :
        StartSend(Main, [IdleJob EXCEPT !.code = c, !.slot = slot])
  BY DEF TerminalCodeRecv
<1>2. slot \in Int
  BY SlotOfType
<1> DEFINE r == [IdleJob EXCEPT !.code = c, !.slot = slot]
<1>3. r \in Job /\ r.code = c /\ r.slot = slot
  <2>1. IdleJob \in [pc : JobPc, code : {NoCode}, number : {NoNumber},
                    found : {FALSE}, slot : {-1}, station : {-1}]
    BY Places DEF IdleJob
  <2>2. -1 \in Int
    OBVIOUS
  <2> QED BY <1>2, <2>1, <2>2 DEF Job
<1>4. StartSend(Main, r)
  BY <1>1
<1> HIDE DEF r
<1>5. Sends(Main, c, slot)
  BY <1>3, <1>4, StartSendEffect DEF Thread
<1> QED BY <1>2, <1>5 DEF Answered, TerminalCodeRecv
\* A slot is handed over: the message joins those the PLC got.
PlcType == [supplied : SUBSET Scans, stored : Seq(Scans), lost : SUBSET Scans,
            slots : SUBSET SlotMessage]

Message(j, number) ==
  [number |-> number, slot |-> job[j].slot, code |-> job[j].code,
   byRow |-> job[j].pc = "queryOrder",
   scan |-> IF number \in Number THEN carrier[number] ELSE 0]

Handed(j, number) ==
  /\ plc' \in PlcType
  /\ plc'.supplied = plc.supplied /\ plc'.stored = plc.stored /\ plc'.lost = plc.lost
  /\ plc'.slots = plc.slots \cup {Message(j, number)}

\* What goes to the PLC is a slot message.
LEMMA MessageType ==
  ASSUME Typed, TypeOK, NEW j \in Thread, job[j].code \in Code,
         NEW number \in Number \cup {Garbage} \cup (Int \X Int)
  PROVE  Message(j, number) \in SlotMessage
<1>1. job[j].slot \in Int
  BY DEF Typed, Thread, Job
<1> DEFINE b == (job[j].pc = "queryOrder")
           n == IF number \in Number THEN carrier[number] ELSE 0
<1>2. b \in BOOLEAN
  OBVIOUS
<1>3. 0 \in 0 .. MaxScans
  BY ParcelAssumption
<1>4. n \in 0 .. MaxScans
  BY <1>3 DEF TypeOK
<1>5. Message(j, number) = [number |-> number, slot |-> job[j].slot,
                            code |-> job[j].code, byRow |-> b, scan |-> n]
  BY DEF Message
<1> HIDE DEF b, n
<1> QED BY <1>1, <1>2, <1>4, <1>5 DEF SlotMessage

\* A thread that hands its slot over has sent that message.
LEMMA HandSlotEffect ==
  ASSUME Typed, TypeOK, NEW j \in Thread, job[j].code \in Code,
         NEW number \in Number \cup {Garbage} \cup (Int \X Int),
         HandSlot(j, number)
  PROVE  Handed(j, number)
<1>1. Message(j, number) \in SlotMessage
  BY MessageType
<1>2. plc' = [plc EXCEPT !.slots = @ \cup {Message(j, number)}]
  BY DEF HandSlot, Message
<1>3. plc \in PlcType
  BY DEF Typed, PlcType
<1> DEFINE more == plc.slots \cup {Message(j, number)}
<1>4. more \in SUBSET SlotMessage
  BY <1>1, <1>3 DEF PlcType
<1>5. plc' = [plc EXCEPT !.slots = more]
  BY <1>2
<1> HIDE DEF more
<1>6. /\ plc' \in PlcType
      /\ plc'.supplied = plc.supplied /\ plc'.stored = plc.stored
      /\ plc'.lost = plc.lost /\ plc'.slots = more
  BY <1>3, <1>4, <1>5 DEF PlcType
<1> QED BY <1>6 DEF Handed, more

\* The task is over, or the main thread leaves the row to a task.
Finished(j) ==
  IF j = Main
  THEN /\ JobStep(Main, "idle")
       /\ slotWrites' = [slotWrites EXCEPT ![job[j].code] = Append(@, job[j].slot)]
  ELSE /\ JobStep(j, "done") /\ KeepsSlot(j)
       /\ UNCHANGED slotWrites

\* Finish ends the work of a thread.
LEMMA FinishEffect ==
  ASSUME Typed, NEW j \in Thread, Finish(j)
  PROVE  Finished(j)
<1>1. CASE j = Main
  <2>1. job' = [job EXCEPT ![Main] = IdleJob]
        /\ slotWrites' = [slotWrites EXCEPT ![job[j].code] = Append(@, job[j].slot)]
    BY <1>1 DEF Finish
  <2>2. IdleJob \in Job /\ IdleJob.pc = "idle"
    BY Places DEF IdleJob, Job
  <2>3. JobStep(Main, "idle")
    BY <2>1, <2>2, <1>1 DEF JobStep, Typed, Thread
  <2> QED BY <1>1, <2>1, <2>3 DEF Finished
<1>2. CASE j # Main
  <2>1. job' = [job EXCEPT ![j].pc = "done"] /\ UNCHANGED slotWrites
    BY <1>2 DEF Finish
  <2>2. JobStep(j, "done") /\ KeepsSlot(j)
    BY <2>1, PcEffect, Places
  <2> QED BY <1>2, <2>1, <2>2 DEF Finished
<1> QED BY <1>1, <1>2

\* What is read through the reference into the map.
FoundNumber(j) == IF j \in gone THEN Garbage ELSE codeToMsg[job[j].code]

\* A thread that sends has a code.
LEMMA SenderHasCode ==
  ASSUME Typed, NEW j \in Thread, job[j].pc \in Working
  PROVE  job[j].code \in Code
BY Places DEF Typed, Thread, Started

\* With a number in the map the message names that number.
LEMMA SendFoundEffect ==
  ASSUME Typed, TypeOK, MapOfCarrier, NEW j \in Thread, SendFound(j)
  PROVE  /\ Handed(j, FoundNumber(j))
         /\ JobStep(j, "erase") /\ KeepsSlot(j)
<1>1. job[j].pc = "sendFound" /\ job[j].code \in Code
  BY SenderHasCode, Places DEF SendFound
<1>2. j \in DOMAIN job
  BY DEF Typed, Thread
<1>3. FoundNumber(j) \in Number \cup {Garbage}
  BY <1>1, <1>2 DEF TypeOK, FoundNumber, MapOfCarrier
<1>4. HandSlot(j, FoundNumber(j))
  BY DEF SendFound, FoundNumber
<1>5. JobStep(j, "erase") /\ KeepsSlot(j)
  BY PcEffect, Places DEF SendFound
<1> QED BY <1>1, <1>3, <1>4, <1>5, HandSlotEffect

\* The station was read.
LEMMA QueryStationEffect ==
  ASSUME Typed, TypeOK, NEW j \in Thread, QueryStation(j)
  PROVE  JobStep(j, "queryOrder") /\ KeepsSlot(j)
<1>1. job \in [Thread -> Job] /\ job[j].code \in Code
  BY SenderHasCode, Places DEF Typed, Thread, QueryStation
<1>2. PICK id \in QueryString(job[j].code, "supply") :
        job' = [job EXCEPT ![j].pc = "queryOrder", ![j].station = OrMinus1(id)]
  BY DEF QueryStation
<1>3. id = << >> \/ (id = <<db[job[j].code].supply>> /\ db[job[j].code] # NoRow)
  BY <1>2 DEF QueryString
<1>4. db[job[j].code] # NoRow => db[job[j].code].supply \in Int
  <2>1. db[job[j].code] # NoRow => db[job[j].code].supply \in Supply
    BY <1>1 DEF Typed, Row
  <2>2. Supply \subseteq Int
    BY ParcelAssumption
  <2> QED BY <2>1, <2>2
<1> DEFINE v == OrMinus1(id)
<1>5. v \in Int
  BY <1>3, <1>4 DEF OrMinus1
<1>6. job' = [job EXCEPT ![j].pc = "queryOrder", ![j].station = v]
  BY <1>2
<1> HIDE DEF v
<1> QED BY <1>1, <1>5, <1>6, Places DEF JobStep, KeepsSlot, KeepsParcel, Job

\* The order was read, and the slot was sent under both.
LEMMA QueryOrderEffect ==
  ASSUME Typed, TypeOK, NEW j \in Thread, QueryOrder(j)
  PROVE  Finished(j) /\ \E number : Handed(j, number)
<1>1. job \in [Thread -> Job] /\ job[j].code \in Code
  BY SenderHasCode, Places DEF Typed, Thread, QueryOrder
<1>2. PICK o \in QueryString(job[j].code, "order") :
        HandSlot(j, <<job[j].station, OrMinus1(o)>>)
  BY DEF QueryOrder
<1>3. o = << >> \/ (o = <<db[job[j].code].order>> /\ db[job[j].code] # NoRow)
  BY <1>2 DEF QueryString
<1>4. db[job[j].code] # NoRow => db[job[j].code].order \in Int
  BY <1>1, ParcelAssumption DEF Typed, Row
<1>5. OrMinus1(o) \in Int
  BY <1>3, <1>4 DEF OrMinus1
<1>6. job[j].station \in Int
  BY <1>1 DEF Job
<1>7. <<job[j].station, OrMinus1(o)>> \in Int \X Int
  BY <1>5, <1>6
<1>8. \E number : Handed(j, number)
  BY <1>1, <1>2, <1>7, HandSlotEffect
<1> QED BY <1>8, FinishEffect DEF QueryOrder

\* A task writes one of the slots left for a row.
SlotWritten(c, k) ==
  LET slot == slotWrites[c][k]
      rest == RemoveAt(slotWrites[c], k)
  IN  /\ slot \in Int
      /\ rest \in Seq(Int)
      /\ Len(rest) = Len(slotWrites[c]) - 1
      /\ \A l \in DOMAIN rest : \E n \in DOMAIN slotWrites[c] : rest[l] = slotWrites[c][n]
      /\ slotWrites' = [slotWrites EXCEPT ![c] = rest]
      /\ db' \in [Code -> Row \cup {NoRow}]
      /\ \A d \in Code \ {c} : db'[d] = db[d]
      /\ db[c] = NoRow => db'[c] = NoRow
      /\ \/ UNCHANGED db
         \/ db[c] # NoRow /\ db'[c] # NoRow /\ db'[c].slot = slot
      /\ ~plant.dbFails /\ db[c] # NoRow => db'[c] # NoRow /\ db'[c].slot = slot

\* A sequence without one of its elements.
LEMMA RemoveAtSeq ==
  ASSUME NEW S, NEW s \in Seq(S), NEW k \in DOMAIN s
  PROVE  /\ RemoveAt(s, k) \in Seq(S)
         /\ Len(RemoveAt(s, k)) = Len(s) - 1
         /\ \A l \in DOMAIN RemoveAt(s, k) : \E n \in DOMAIN s : RemoveAt(s, k)[l] = s[n]
<1> DEFINE n == Len(s)
           a == SubSeq(s, 1, k - 1)
           b == SubSeq(s, k + 1, n)
<1>1. n \in Nat /\ k \in 1 .. n /\ DOMAIN s = 1 .. n
  BY LenProperties
<1>2. \A i \in 1 .. n : s[i] \in S
  BY <1>1, ElementOfSeq
<1>3. a = [i \in 1 .. (k - 1) |-> s[i]]
  BY <1>1
<1>4. b = [i \in 1 .. (n - k) |-> s[i + k]]
  BY <1>1
<1>5. a \in Seq(S) /\ Len(a) = k - 1
  BY <1>1, <1>2, <1>3
<1>6. b \in Seq(S) /\ Len(b) = n - k
  BY <1>1, <1>2, <1>4
<1>7. RemoveAt(s, k) = a \o b
  BY DEF RemoveAt
<1> HIDE DEF a, b
<1>8. a \o b \in Seq(S) /\ Len(a \o b) = n - 1
  <2>1. a \o b \in Seq(S) /\ Len(a \o b) = Len(a) + Len(b)
    BY <1>5, <1>6, ConcatProperties
  <2> QED BY <1>1, <1>5, <1>6, <2>1
<1>9. ASSUME NEW l \in DOMAIN (a \o b) PROVE \E i \in DOMAIN s : (a \o b)[l] = s[i]
  <2>1. l \in 1 .. (n - 1)
    BY <1>8, <1>9, LenProperties
  <2>2. (a \o b)[l] = IF l <= Len(a) THEN a[l] ELSE b[l - Len(a)]
    BY <1>5, <1>6, <1>8, <1>9, <2>1, ConcatProperties
  <2>3. CASE l <= k - 1
    BY <1>1, <1>3, <1>5, <2>1, <2>2, <2>3
  <2>4. CASE l > k - 1
    <3>1. l - (k - 1) \in 1 .. (n - k) /\ l + 1 \in 1 .. n
      BY <1>1, <2>1, <2>4
    <3>2. b[l - (k - 1)] = s[l + 1]
      BY <1>1, <1>4, <2>1, <3>1
    <3> QED BY <1>1, <1>5, <2>1, <2>2, <2>4, <3>1, <3>2
  <2> QED BY <1>1, <2>1, <2>3, <2>4
<1> QED BY <1>7, <1>8, <1>9

\* A slot goes into the row, or the statement fails.
LEMMA WriteSlotEffect ==
  ASSUME Typed, NEW c \in Code, NEW k, WriteSlot(c, k)
  PROVE  SlotWritten(c, k)
<1> DEFINE slot == slotWrites[c][k]
           rest == RemoveAt(slotWrites[c], k)
<1>1. slotWrites[c] \in Seq(Int) /\ k \in DOMAIN slotWrites[c]
  BY DEF Typed, WriteSlot
<1>2. slot \in Int
  BY <1>1, LenProperties, ElementOfSeq
<1>3. /\ rest \in Seq(Int) /\ Len(rest) = Len(slotWrites[c]) - 1
      /\ \A l \in DOMAIN rest : \E n \in DOMAIN slotWrites[c] : rest[l] = slotWrites[c][n]
  BY <1>1, RemoveAtSeq
<1>4. slotWrites' = [slotWrites EXCEPT ![c] = rest] /\ db' \in UpdateValue(c, slot)
  BY DEF WriteSlot
<1>5. db \in [Code -> Row \cup {NoRow}]
  BY DEF Typed
<1> HIDE DEF slot
<1>6. \/ UNCHANGED db
      \/ db[c] # NoRow /\ db' = [db EXCEPT ![c].slot = slot]
  BY <1>4 DEF UpdateValue, OrUnchanged
<1>7. ~plant.dbFails /\ db[c] # NoRow => db' = [db EXCEPT ![c].slot = slot]
  BY <1>4 DEF UpdateValue, OrUnchanged
<1>8. db[c] # NoRow => [db[c] EXCEPT !.slot = slot] \in Row
                       /\ [db[c] EXCEPT !.slot = slot].slot = slot
  BY <1>2, <1>5 DEF Row
<1> DEFINE r == [db[c] EXCEPT !.slot = slot]
<1>9. r \in Row => r # NoRow
  BY NoneAssumption
<1>10. db' = [db EXCEPT ![c].slot = slot] => db' = [db EXCEPT ![c] = r]
  OBVIOUS
<1> HIDE DEF r
<1>11. db' = [db EXCEPT ![c].slot = slot] /\ db[c] # NoRow =>
         /\ db' \in [Code -> Row \cup {NoRow}]
         /\ \A d \in Code \ {c} : db'[d] = db[d]
         /\ db'[c] # NoRow /\ db'[c].slot = slot
  BY <1>5, <1>8, <1>9, <1>10 DEF r
<1> HIDE DEF rest
<1> QED BY <1>2, <1>3, <1>4, <1>5, <1>6, <1>7, <1>11 DEF SlotWritten, rest, slot
-----------------------------------------------------------------------------
(* What the actions do to the frames.                                      *)

\* The task of frame f goes to pc; the others stay as they are.
FrameStep(f, pc) ==
  /\ frame' \in [Frames -> Frame]
  /\ \A g \in Frames \ {f} : frame'[g] = frame[g]
  /\ frame'[f].pc = pc

SameParcel(f) == frame'[f].left = frame[f].left /\ frame'[f].scan = frame[f].scan
SameSlot(f) == SameParcel(f) /\ frame'[f].slot = frame[f].slot

\* The places of an unload frame.
LEMMA FramePlaces ==
  /\ Referring = {"slot", "slotErase", "slotDb", "mode1", "mode2", "small", "forget"}
  /\ FramePc = {"idle", "next", "refer", "slot", "slotErase", "slotDb", "mode1", "mode2",
                "small", "forget"}
BY DEF Referring, FramePc

\* A frame is put in the place of another.
LEMMA FramePut ==
  ASSUME Typed, NEW f \in Frames, NEW r \in Frame, frame' = [frame EXCEPT ![f] = r]
  PROVE  FrameStep(f, r.pc) /\ frame'[f] = r
BY DEF Typed, FrameStep

\* Its segments are a sequence, which has a first one if it is not empty.
LEMMA LeftIsSeq ==
  ASSUME Typed, NEW f \in Frames
  PROVE  /\ frame[f].left \in Seq(Number \cup {Garbage})
         /\ Len(frame[f].left) \in Nat
         /\ Busy(f) => /\ Segment(f) \in Number \cup {Garbage}
                       /\ Tail(frame[f].left) \in Seq(Number \cup {Garbage})
                       /\ Len(Tail(frame[f].left)) = Len(frame[f].left) - 1
                       /\ Len(Tail(frame[f].left)) < Len(frame[f].left)
<1>1. frame[f].left \in Seq(Number \cup {Garbage})
  BY DEF Typed, Frame
<1> DEFINE s == frame[f].left
<1> HIDE DEF s
<1>2. s \in Seq(Number \cup {Garbage}) => Len(s) \in Nat
  BY LenProperties
<1>3. s \in Seq(Number \cup {Garbage}) /\ s # << >> =>
        /\ Head(s) \in Number \cup {Garbage}
        /\ Tail(s) \in Seq(Number \cup {Garbage}) /\ Len(Tail(s)) = Len(s) - 1
  BY HeadTailProperties
<1>4. s \in Seq(Number \cup {Garbage}) /\ s # << >> => Len(s) - 1 < Len(s)
  BY <1>2
<1> QED BY <1>1, <1>2, <1>3, <1>4 DEF s, Busy, Segment

\* A frame arrives, and meets those that are at work.
ArriveStep(f) ==
  /\ frame[f].pc = "idle" /\ FrameStep(f, "next")
  /\ met' = met \cup {<<g, f>> : g \in {h \in Frames : Busy(h)}}
  /\ UNCHANGED <<msgToCode, codeToSlot, torn, reports>>

\* An unload frame comes from the PLC.
LEMMA UnloadFrameIsStep ==
  ASSUME Typed, NEW f \in Frames, UnloadFrame(f)
  PROVE  ArriveStep(f)
<1>1. PICK m \in Told :
        \E left \in {<<m>>, <<Garbage, m>>} \cup {<<n, m>> : n \in Told} :
          frame' = [frame EXCEPT ![f] = [IdleFrame EXCEPT !.pc = "next", !.left = left]]
  BY DEF UnloadFrame
<1>2. PICK left \in {<<m>>, <<Garbage, m>>} \cup {<<n, m>> : n \in Told} :
          frame' = [frame EXCEPT ![f] = [IdleFrame EXCEPT !.pc = "next", !.left = left]]
  BY <1>1
<1>3. Told \subseteq Number
  BY DEF Told
<1>4. left \in Seq(Number \cup {Garbage})
  <2>1. CASE left = <<m>>
    BY <1>3, <2>1
  <2>2. CASE left = <<Garbage, m>>
    BY <1>3, <2>2
  <2>3. ASSUME NEW n \in Told, left = <<n, m>>
        PROVE  left \in Seq(Number \cup {Garbage})
    BY <1>3, <2>3
  <2> QED BY <1>2, <2>1, <2>2, <2>3
<1> DEFINE r == [IdleFrame EXCEPT !.pc = "next", !.left = left]
<1>5. r \in Frame /\ r.pc = "next"
  <2>1. "next" \in FramePc /\ "idle" \in FramePc /\ -1 \in Int /\ 0 \in 0 .. MaxScans
    BY FramePlaces, ParcelAssumption
  <2>2. IdleFrame \in Frame
    BY <2>1, EmptySeq DEF IdleFrame, Frame
  <2> QED BY <1>4, <2>1, <2>2 DEF Frame
<1>6. frame' = [frame EXCEPT ![f] = r]
  BY <1>2
<1> HIDE DEF r
<1>7. FrameStep(f, "next")
  BY <1>5, <1>6, FramePut
<1> QED BY <1>7 DEF ArriveStep, UnloadFrame, mapVars

\* The task ends, drops its segment, or finds its number.
FindStep(f) ==
  /\ frame[f].pc = "next" /\ Busy(f)
  /\ \/ FrameStep(f, "next") /\ frame'[f].left = << >>
     \/ FrameStep(f, "next") /\ frame'[f].left = Tail(frame[f].left)
     \/ /\ FrameStep(f, "refer") /\ SameParcel(f)
        /\ Segment(f) \in Number /\ msgToCode[Segment(f)] # NoCode
  /\ UNCHANGED <<msgToCode, codeToSlot, torn, met, reports>>

\* The task looks for the number of its next segment.
LEMMA UnloadFindIsStep ==
  ASSUME Typed, NEW f \in Frames, UnloadFind(f)
  PROVE  FindStep(f)
<1> DEFINE r == frame[f]
           m == Segment(f)
<1>1. frame \in [Frames -> Frame] /\ r \in Frame
  BY DEF Typed
<1>2. r.pc = "next" /\ Busy(f) /\ UNCHANGED <<msgToCode, codeToSlot, torn, met, reports>>
  BY DEF UnloadFind, mapVars
<1>3. /\ m \in Number \cup {Garbage} /\ Tail(r.left) \in Seq(Number \cup {Garbage})
      /\ << >> \in Seq(Number \cup {Garbage}) /\ "refer" \in FramePc
  BY <1>2, LeftIsSeq, EmptySeq, FramePlaces
<1> DEFINE none == << >>
           tail == Tail(r.left)
<1>4. CASE m = Garbage
  <2>1. frame' = [frame EXCEPT ![f] = [r EXCEPT !.left = none]]
    BY <1>4 DEF UnloadFind
  <2> HIDE DEF r, m
  <2>2. [r EXCEPT !.left = none] \in Frame /\ [r EXCEPT !.left = none].pc = "next"
        /\ [r EXCEPT !.left = none].left = none
    BY <1>1, <1>2, <1>3 DEF Frame
  <2>3. FrameStep(f, "next") /\ frame'[f].left = none
    BY <2>1, <2>2, FramePut
  <2> QED BY <1>2, <2>3 DEF FindStep, r
<1>5. CASE m # Garbage /\ msgToCode[m] = NoCode
  <2>1. frame' = [frame EXCEPT ![f] = [r EXCEPT !.left = tail]]
    BY <1>5 DEF UnloadFind
  <2>2. tail \in Seq(Number \cup {Garbage})
    BY <1>3
  <2> HIDE DEF r, m, tail
  <2>3. [r EXCEPT !.left = tail] \in Frame /\ [r EXCEPT !.left = tail].pc = "next"
        /\ [r EXCEPT !.left = tail].left = tail
    BY <1>1, <1>2, <2>2 DEF Frame
  <2>4. FrameStep(f, "next") /\ frame'[f].left = tail
    BY <2>1, <2>3, FramePut
  <2> QED BY <1>2, <2>4 DEF FindStep, r, tail
<1>6. CASE m # Garbage /\ msgToCode[m] # NoCode
  <2>1. frame' = [frame EXCEPT ![f] = [r EXCEPT !.pc = "refer"]]
    BY <1>6 DEF UnloadFind
  <2>2. m \in Number
    BY <1>3, <1>6
  <2> HIDE DEF r
  <2>3. [r EXCEPT !.pc = "refer"] \in Frame /\ [r EXCEPT !.pc = "refer"].pc = "refer"
        /\ [r EXCEPT !.pc = "refer"].left = r.left
        /\ [r EXCEPT !.pc = "refer"].scan = r.scan
    BY <1>1, <1>3 DEF Frame
  <2>4. FrameStep(f, "refer") /\ frame'[f].left = r.left /\ frame'[f].scan = r.scan
    BY <2>1, <2>3, FramePut
  <2> QED BY <1>2, <1>6, <2>2, <2>4 DEF FindStep, SameParcel, r
<1> QED BY <1>4, <1>5, <1>6

\* The task takes its reference, which may make an empty entry.
ReferStep(f) ==
  LET m == Segment(f) IN
  /\ frame[f].pc = "refer" /\ FrameStep(f, "slot")
  /\ frame'[f].left = frame[f].left /\ frame'[f].scan = carrier[m]
  /\ msgToCode' = [msgToCode EXCEPT ![m] = IF @ = NoCode THEN Empty ELSE @]
  /\ UNCHANGED <<codeToSlot, torn, met, reports>>

\* It takes a reference to the code of the number.
LEMMA UnloadReferIsStep ==
  ASSUME Typed, TypeOK, Referred, NEW f \in Frames, UnloadRefer(f)
  PROVE  ReferStep(f)
<1> DEFINE m == Segment(f)
           s == carrier[m]
           r == [frame[f] EXCEPT !.pc = "slot", !.scan = s]
<1>1. frame \in [Frames -> Frame] /\ frame[f].pc = "refer"
  BY DEF Typed, UnloadRefer
<1>2. s \in 0 .. MaxScans
  BY <1>1 DEF Referred, TypeOK
<1>3. frame' = [frame EXCEPT ![f].pc = "slot", ![f].scan = s]
  BY DEF UnloadRefer
<1> HIDE DEF s
<1>4. frame' = [frame EXCEPT ![f] = r]
  BY <1>3
<1>5. r \in Frame /\ r.pc = "slot" /\ r.left = frame[f].left /\ r.scan = s
  BY <1>1, <1>2, FramePlaces DEF Frame
<1> HIDE DEF r
<1>6. FrameStep(f, "slot") /\ frame'[f].left = frame[f].left /\ frame'[f].scan = s
  BY <1>4, <1>5, FramePut
<1> QED BY <1>1, <1>6 DEF ReferStep, UnloadRefer, s

\* The task finds a slot in the map, or not.
LookStep(f) ==
  LET c == CodeOf(f) IN
  /\ frame[f].pc = "slot" /\ SameParcel(f)
  /\ \/ FrameStep(f, "slotDb")
     \/ /\ FrameStep(f, "slotErase")
        /\ c \in Code /\ codeToSlot[c] # NoSlot /\ frame'[f].slot = codeToSlot[c]
  /\ UNCHANGED <<msgToCode, codeToSlot, torn, met, reports>>

\* It looks for the slot of the code it refers to.
LEMMA UnloadSlotIsStep ==
  ASSUME Typed, TypeOK, NEW f \in Frames, UnloadSlot(f)
  PROVE  LookStep(f)
<1> DEFINE c == CodeOf(f)
           known == c \in Code /\ codeToSlot[c] # NoSlot
           pc == IF known THEN "slotErase" ELSE "slotDb"
           v == IF known THEN codeToSlot[c] ELSE -1
           r == [frame[f] EXCEPT !.pc = pc, !.slot = v]
<1>1. frame \in [Frames -> Frame] /\ frame[f].pc = "slot"
  BY DEF Typed, UnloadSlot
<1>2. pc \in FramePc /\ v \in Int
  <2>1. codeToSlot \in [Code -> Int \cup {NoSlot}]
    BY DEF TypeOK
  <2> HIDE DEF c
  <2> QED BY <2>1, FramePlaces
<1>3. \/ known /\ pc = "slotErase" /\ v = codeToSlot[c]
      \/ pc = "slotDb"
  BY Zenon
<1>4. frame' = [frame EXCEPT ![f].pc = pc, ![f].slot = v]
  BY DEF UnloadSlot
<1>5. UNCHANGED <<msgToCode, codeToSlot, torn, met, reports>>
  BY DEF UnloadSlot, mapVars
<1> HIDE DEF pc, v
<1>6. frame' = [frame EXCEPT ![f] = r]
  BY <1>4
<1>7. r \in Frame /\ r.pc = pc /\ r.left = frame[f].left /\ r.scan = frame[f].scan
      /\ r.slot = v
  BY <1>1, <1>2 DEF Frame
<1> HIDE DEF r
<1>8. FrameStep(f, pc) /\ SameParcel(f) /\ frame'[f].slot = v
  BY <1>6, <1>7, FramePut DEF SameParcel
<1> QED BY <1>1, <1>3, <1>5, <1>8 DEF LookStep

\* The task takes what is in the map.
TakeStep(f) ==
  /\ frame[f].pc = "slotErase" /\ FrameStep(f, "mode1") /\ SameSlot(f)
  /\ codeToSlot' \in [Code -> Int \cup {NoSlot}]
  /\ \A c \in Code : codeToSlot'[c] = codeToSlot[c] \/ codeToSlot'[c] = NoSlot
  /\ UNCHANGED <<msgToCode, torn, met, reports>>

\* A step of the program counter of a frame alone.
LEMMA FramePcEffect ==
  ASSUME Typed, NEW f \in Frames, NEW pc \in FramePc, frame' = [frame EXCEPT ![f].pc = pc]
  PROVE  FrameStep(f, pc) /\ SameSlot(f)
<1> DEFINE r == [frame[f] EXCEPT !.pc = pc]
<1>1. r \in Frame /\ r.pc = pc /\ r.left = frame[f].left /\ r.scan = frame[f].scan
      /\ r.slot = frame[f].slot
  BY DEF Typed, Frame
<1>2. frame' = [frame EXCEPT ![f] = r]
  OBVIOUS
<1> HIDE DEF r
<1> QED BY <1>1, <1>2, FramePut DEF SameSlot, SameParcel

\* It takes the slot of its code out of the map.
LEMMA UnloadSlotEraseIsStep ==
  ASSUME Typed, TypeOK, NEW f \in Frames, UnloadSlotErase(f)
  PROVE  TakeStep(f)
<1>1. FrameStep(f, "mode1") /\ SameSlot(f)
  BY FramePcEffect, FramePlaces DEF UnloadSlotErase
<1>2. codeToSlot' = [c \in Code |-> IF c = CodeOf(f) THEN NoSlot ELSE codeToSlot[c]]
  BY DEF UnloadSlotErase
<1>3. codeToSlot \in [Code -> Int \cup {NoSlot}]
  BY DEF TypeOK
<1>4. /\ codeToSlot' \in [Code -> Int \cup {NoSlot}]
      /\ \A c \in Code : codeToSlot'[c] = codeToSlot[c] \/ codeToSlot'[c] = NoSlot
  BY <1>2, <1>3
<1> QED BY <1>1, <1>4 DEF UnloadSlotErase, TakeStep

\* The task has the slot of the row, or none.
RowSlotStep(f) ==
  LET c == CodeOf(f) IN
  /\ frame[f].pc = "slotDb" /\ FrameStep(f, "mode1") /\ SameParcel(f)
  /\ \/ frame'[f].slot = -1
     \/ c \in Code /\ db[c] # NoRow /\ frame'[f].slot = db[c].slot
  /\ UNCHANGED <<msgToCode, codeToSlot, torn, met, reports>>

\* It asks for the slot of the row.
LEMMA UnloadSlotDbIsStep ==
  ASSUME Typed, NEW f \in Frames, UnloadSlotDb(f)
  PROVE  RowSlotStep(f)
<1> DEFINE c == CodeOf(f)
<1>1. PICK slot \in SlotColumn(c) :
        frame' = [frame EXCEPT ![f].pc = "mode1", ![f].slot = OrMinus1(slot)]
  BY DEF UnloadSlotDb
<1>2. slot = << >> \/ (c \in Code /\ slot = <<db[c].slot>> /\ db[c] # NoRow)
  BY <1>1 DEF SlotColumn, QueryString
<1>3. c \in Code /\ db[c] # NoRow => db[c].slot \in Int
  BY DEF Typed, Row
<1> DEFINE v == OrMinus1(slot)
           r == [frame[f] EXCEPT !.pc = "mode1", !.slot = v]
<1> HIDE DEF c
<1>4. v = -1 \/ (c \in Code /\ v = db[c].slot /\ db[c] # NoRow)
  BY <1>2 DEF OrMinus1
<1>5. v \in Int
  BY <1>3, <1>4
<1>6. frame' = [frame EXCEPT ![f].pc = "mode1", ![f].slot = v]
  BY <1>1
<1> HIDE DEF v
<1>7. frame' = [frame EXCEPT ![f] = r]
  BY <1>6
<1>8. r \in Frame /\ r.pc = "mode1" /\ r.left = frame[f].left /\ r.scan = frame[f].scan
      /\ r.slot = v
  BY <1>5, FramePlaces DEF Typed, Frame
<1> HIDE DEF r
<1>9. FrameStep(f, "mode1") /\ SameParcel(f) /\ frame'[f].slot = v
  BY <1>7, <1>8, FramePut DEF SameParcel
<1> QED BY <1>4, <1>9 DEF RowSlotStep, UnloadSlotDb, mapVars, c

\* The task makes a call, or finds that it need not.
Call(f, kind, package) ==
  [kind |-> kind, by |-> <<f, Len(frame[f].left)>>, number |-> Segment(f),
   found |-> frame[f].scan,
   scan |-> IF f \in torn THEN frame[f].scan ELSE carrier[Segment(f)],
   code |-> CodeOf(f), slot |-> frame[f].slot, package |-> package]

PassOn(f) ==
  /\ \/ frame[f].pc = "mode1" /\ FrameStep(f, "mode2")
     \/ frame[f].pc = "mode1" /\ FrameStep(f, "small")
     \/ frame[f].pc = "mode2" /\ FrameStep(f, "small")
  /\ SameSlot(f)
  /\ UNCHANGED <<msgToCode, codeToSlot, torn, met, reports>>

CallStep(f) ==
  /\ SameSlot(f)
  /\ \E kind, package :
       /\ \/ frame[f].pc = "mode1" /\ FrameStep(f, "small") /\ kind = "outbound"
          \/ frame[f].pc = "mode2" /\ FrameStep(f, "small") /\ kind = "build"
          \/ frame[f].pc = "small" /\ FrameStep(f, "forget") /\ kind = "small"
       /\ reports' = reports \cup {Call(f, kind, package)}
  /\ UNCHANGED <<msgToCode, codeToSlot, torn, met>>

\* It reports the parcel by the call of its mode, and by requestSmallData.
LEMMA UnloadCallIsStep ==
  ASSUME Typed, NEW f \in Frames, UnloadArrival(f) \/ UnloadDeparture(f) \/ UnloadSmall(f)
  PROVE  PassOn(f) \/ CallStep(f)
<1>1. UNCHANGED <<msgToCode, codeToSlot, torn, met>>
  BY DEF UnloadArrival, UnloadDeparture, UnloadSmall, mapVars
<1>2. \A kind, package : Post(f, kind, package) => reports' = reports \cup {Call(f, kind, package)}
  BY DEF Post, Call
<1>3. CASE UnloadArrival(f)
  <2>1. CASE mode = 1
    <3>1. frame[f].pc = "mode1" /\ frame' = [frame EXCEPT ![f].pc = "small"]
      BY <1>3, <2>1 DEF UnloadArrival
    <3>2. FrameStep(f, "small") /\ SameSlot(f)
      BY <3>1, FramePcEffect, FramePlaces
    <3>3. UNCHANGED reports \/ Post(f, "outbound", << >>)
      BY <1>3 DEF UnloadArrival
    <3> QED BY <1>1, <1>2, <3>1, <3>2, <3>3 DEF PassOn, CallStep
  <2>2. CASE mode # 1
    <3>1. /\ frame[f].pc = "mode1" /\ frame' = [frame EXCEPT ![f].pc = "mode2"]
          /\ UNCHANGED reports
      BY <1>3, <2>2 DEF UnloadArrival
    <3>2. FrameStep(f, "mode2") /\ SameSlot(f)
      BY <3>1, FramePcEffect, FramePlaces
    <3> QED BY <1>1, <3>1, <3>2 DEF PassOn
  <2> QED BY <2>1, <2>2
<1>4. CASE UnloadDeparture(f)
  <2>1. frame[f].pc = "mode2" /\ FrameStep(f, "small") /\ SameSlot(f)
    BY <1>4, FramePcEffect, FramePlaces DEF UnloadDeparture
  <2>2. UNCHANGED reports \/ Post(f, "build", <<slotToPackage[frame[f].slot]>>)
    BY <1>4 DEF UnloadDeparture
  <2> QED BY <1>1, <1>2, <2>1, <2>2 DEF PassOn, CallStep
<1>5. CASE UnloadSmall(f)
  <2>1. frame[f].pc = "small" /\ FrameStep(f, "forget") /\ SameSlot(f)
    BY <1>5, FramePcEffect, FramePlaces DEF UnloadSmall
  <2>2. Post(f, "small", << >>)
    BY <1>5 DEF UnloadSmall
  <2> QED BY <1>1, <1>2, <2>1, <2>2 DEF CallStep
<1> QED BY <1>3, <1>4, <1>5

\* The number is forgotten; other tasks with a reference to it hold nothing.
ForgetStep(f) ==
  LET m == Segment(f) IN
  /\ frame[f].pc = "forget" /\ FrameStep(f, "next")
  /\ frame'[f].left = Tail(frame[f].left)
  /\ msgToCode' = [msgToCode EXCEPT ![m] = NoCode]
  /\ torn' = (torn \cup {g \in Frames : frame[g].pc \in Referring /\ Segment(g) = m}) \ {f}
  /\ UNCHANGED <<codeToSlot, met, reports>>

\* The segment is done with.
LEMMA UnloadForgetIsStep ==
  ASSUME Typed, Referred, NEW f \in Frames, UnloadForget(f)
  PROVE  ForgetStep(f)
<1> DEFINE t == Tail(frame[f].left)
           r == [frame[f] EXCEPT !.pc = "next", !.left = t, !.scan = 0, !.slot = -1]
<1>1. frame \in [Frames -> Frame] /\ frame[f].pc = "forget"
  BY DEF Typed, UnloadForget
<1>2. t \in Seq(Number \cup {Garbage})
  BY <1>1, LeftIsSeq, FramePlaces DEF Referred
<1>3. frame' = [frame EXCEPT ![f].pc = "next", ![f].left = t, ![f].scan = 0, ![f].slot = -1]
  BY DEF UnloadForget
<1>4. 0 \in 0 .. MaxScans /\ -1 \in Int
  BY ParcelAssumption
<1> HIDE DEF t
<1>5. frame' = [frame EXCEPT ![f] = r]
  BY <1>3
<1>6. r \in Frame /\ r.pc = "next" /\ r.left = t
  BY <1>1, <1>2, <1>4, FramePlaces DEF Frame
<1> HIDE DEF r
<1>7. FrameStep(f, "next") /\ frame'[f].left = t
  BY <1>5, <1>6, FramePut
<1> QED BY <1>1, <1>7 DEF ForgetStep, UnloadForget, Forget, t
-----------------------------------------------------------------------------
(* Every step is one of these.                                             *)

\* No task of an unload frame is at work in it.
FramesKept == UNCHANGED <<frame, torn, met, reports>>

\* The operator and the hand scanners.
OperatorStep ==
  /\ UNCHANGED <<plant, order, mapVars, db, job, carrier, asked, sendVars, plc>>
  /\ FramesKept

\* A scan of c on task i is given the number m, of a parcel that has moved off.
ScanStep(i, c, m) ==
  /\ running /\ job[i].pc = "idle" /\ m \in Number
  /\ plant.overlap \/ ~InWork(c)
  /\ carrier[m] # 0 => ~InWork(job[carrier[m]].code)
  /\ ScanJob(i, c, m)
  /\ order' \in [Supply -> 0 .. MaxOrder]
  /\ msgToCode' = [msgToCode EXCEPT ![m] = c]
  /\ codeToMsg' = [codeToMsg EXCEPT ![c] = m]
  /\ carrier' = [carrier EXCEPT ![m] = i]
  /\ UNCHANGED <<plant, codeToSlot, db, asked, sendVars, plc>>
  /\ FramesKept

SupplyStep(i) ==
  /\ job[i].pc = "supply" /\ JobStep(i, "query") /\ KeepsSlot(i)
  /\ Announces(i)
  /\ UNCHANGED <<plant, order, mapVars, db, carrier, asked, sendVars>>
  /\ FramesKept

QueryStep(i) ==
  /\ job[i].pc = "query" /\ RowRead(i)
  /\ UNCHANGED <<plant, order, mapVars, db, carrier, asked, sendVars, plc>>
  /\ FramesKept

WriteStep(i) ==
  /\ job[i].pc = "write" /\ RowWritten(i)
  /\ UNCHANGED <<plant, order, mapVars, carrier, asked, sendVars, plc>>
  /\ FramesKept

\* A test of the mode that fails.
PassStep(i) ==
  /\ \/ job[i].pc = "mode1" /\ JobStep(i, "mode2") /\ mode # 1
     \/ job[i].pc = "mode2" /\ JobStep(i, "skipped") /\ mode # 2
  /\ KeepsSlot(i)
  /\ UNCHANGED <<plant, order, mapVars, db, carrier, asked, sendVars, plc>>
  /\ FramesKept

\* One that does not: the slot is asked for, or known.
AskStep(i) ==
  /\ job[i].pc \in {"mode1", "mode2"} /\ Asks(i)
  /\ UNCHANGED <<plant, order, mapVars, db, carrier, sendVars, plc>>
  /\ FramesKept

KnownStep(i) ==
  /\ job[i].pc \in {"mode1", "mode2"} /\ SendsOwn(i)
  /\ UNCHANGED <<plant, order, msgToCode, codeToMsg, db, carrier, sendVars, plc>>
  /\ FramesKept

AnswerStep(c) ==
  /\ Answered(c)
  /\ UNCHANGED <<plant, order, msgToCode, codeToMsg, db, carrier, sendVars, plc>>
  /\ FramesKept

\* A request ends without an answer.
EndStep(c) ==
  /\ asked[c] > 0 /\ asked' = [asked EXCEPT ![c] = @ - 1]
  /\ UNCHANGED <<plant, order, mapVars, db, job, carrier, sendVars, plc>>
  /\ FramesKept

StationStep(j) ==
  /\ job[j].pc = "queryId" /\ JobStep(j, "queryOrder") /\ KeepsSlot(j)
  /\ UNCHANGED <<plant, order, mapVars, db, carrier, asked, sendVars, plc>>
  /\ FramesKept

\* A slot is sent, under the number in the map or under the one in the row.
SendMapStep(j) ==
  /\ job[j].pc = "sendFound" /\ job[j].code \in Code
  /\ Handed(j, FoundNumber(j)) /\ JobStep(j, "erase") /\ KeepsSlot(j)
  /\ gone' = gone \ {j}
  /\ UNCHANGED <<plant, order, mapVars, db, carrier, asked, slotWrites>>
  /\ FramesKept

SendRowStep(j) ==
  /\ job[j].pc = "queryOrder" /\ job[j].code \in Code
  /\ Finished(j) /\ \E number : Handed(j, number)
  /\ UNCHANGED <<plant, order, mapVars, db, carrier, asked, gone>>
  /\ FramesKept

\* The number that was sent is erased, or the one that took its place.
EraseStep(j) ==
  LET c == job[j].code IN
  /\ job[j].pc = "erase" /\ c \in Code /\ Finished(j)
  /\ codeToMsg' = [codeToMsg EXCEPT ![c] = NoNumber]
  /\ gone' = gone \cup {k \in Thread : job[k].pc = "sendFound" /\ job[k].code = c}
  /\ UNCHANGED <<plant, order, msgToCode, codeToSlot, db, carrier, asked, plc>>
  /\ FramesKept

RecordStep(c, k) ==
  /\ k \in DOMAIN slotWrites[c] /\ SlotWritten(c, k)
  /\ UNCHANGED <<plant, order, mapVars, job, carrier, asked, gone, plc>>
  /\ FramesKept

\* What no unload frame touches.
ParcelsKept ==
  /\ UNCHANGED <<plant, order, codeToMsg, db, job, carrier, asked, sendVars, plc>>
  /\ codeToSlot' \in [Code -> Int \cup {NoSlot}]
  /\ \A c \in Code : codeToSlot'[c] = codeToSlot[c] \/ codeToSlot'[c] = NoSlot

\* The tasks of the scans and the main thread, the writes, and the frames.
JobSteps ==
  \/ \E i \in Scans : \E c \in Code, m \in Number : ScanStep(i, c, m)
  \/ \E i \in Scans : \/ SupplyStep(i) \/ QueryStep(i) \/ WriteStep(i)
                      \/ PassStep(i) \/ AskStep(i) \/ KnownStep(i)
  \/ \E c \in Code : AnswerStep(c)
  \/ \E j \in Thread : StationStep(j) \/ SendMapStep(j) \/ SendRowStep(j) \/ EraseStep(j)

FrameMove(f) ==
  \/ ArriveStep(f) \/ FindStep(f) \/ ReferStep(f) \/ LookStep(f) \/ TakeStep(f)
  \/ RowSlotStep(f) \/ PassOn(f) \/ CallStep(f) \/ ForgetStep(f)

FrameSteps == ParcelsKept /\ \E f \in Frames : FrameMove(f)

\* A scan is a step of its kind.
LEMMA ScanIsStep ==
  ASSUME Typed, TypeOK, NEW i \in Scans, NEW c \in Code, NEW s \in Supply,
         Scan(i, c, s)
  PROVE  \E m \in Number : ScanStep(i, c, m)
<1> DEFINE o == UpdateSupplyOrder(order[s])
           m == SupplyNumber(s, o)
<1>1. o \in 1 .. MaxOrder /\ m \in Number /\ ScanJob(i, c, m)
  BY ScanEffect
<1>2. m = <<s, IF order[s] = MaxOrder THEN 1 ELSE order[s] + 1>>
  BY DEF SupplyNumber, UpdateSupplyOrder
<1>3. carrier[m] # 0 => ~InWork(job[carrier[m]].code)
  BY <1>2 DEF Scan, NumberIsFree
<1>4. order' = [order EXCEPT ![s] = o]
  BY DEF Scan
<1>5. /\ msgToCode' = [msgToCode EXCEPT ![m] = c]
      /\ codeToMsg' = [codeToMsg EXCEPT ![c] = m]
      /\ carrier' = [carrier EXCEPT ![m] = i]
  BY DEF Scan
<1>6. /\ running /\ job[i].pc = "idle" /\ (plant.overlap \/ ~InWork(c))
      /\ UNCHANGED <<plant, codeToSlot, db, asked, sendVars, plc>> /\ FramesKept
  BY DEF Scan, askVars, unloadVars, FramesKept
<1>7. order \in [Supply -> 0 .. MaxOrder]
  BY DEF TypeOK
<1> HIDE DEF m, o
<1>8. o \in 0 .. MaxOrder
  BY <1>1, ParcelAssumption
<1>9. order' \in [Supply -> 0 .. MaxOrder]
  BY <1>4, <1>7, <1>8
<1>10. ScanStep(i, c, m)
  BY <1>1, <1>3, <1>5, <1>6, <1>9 DEF ScanStep
<1> QED BY <1>1, <1>10

\* A step of a task is one of six kinds.
LEMMA TaskIsStep ==
  ASSUME Typed, TypeOK, NEW i \in Scans, TaskStep(i)
  PROVE  \/ SupplyStep(i) \/ QueryStep(i) \/ WriteStep(i)
         \/ PassStep(i) \/ AskStep(i) \/ KnownStep(i)
<1>1. i \in Thread
  BY DEF Thread
<1> USE DEF lineVars, mapVars, askVars, sendVars, unloadVars, FramesKept
<1>2. CASE TaskSupply(i)
  <2>1. JobStep(i, "query") /\ KeepsSlot(i)
    BY <1>1, <1>2, PcEffect, Places DEF TaskSupply
  <2>2. Announces(i)
    BY <1>2, SupplyEffect
  <2> QED BY <1>2, <2>1, <2>2 DEF TaskSupply, SupplyStep
<1>3. CASE QueryRow(i)
  <2>1. RowRead(i)
    BY <1>3, QueryRowEffect
  <2> QED BY <1>3, <2>1 DEF QueryRow, QueryStep
<1>4. CASE WriteRow(i)
  <2>1. RowWritten(i)
    BY <1>4, WriteRowEffect
  <2> QED BY <1>4, <2>1 DEF WriteRow, WriteStep
<1>5. CASE TestArrival(i)
  <2>1. Started(i)
    BY <1>5 DEF TestArrival, Started
  <2>2. CASE AskOrSend(i)
    <3>1. Asks(i) \/ SendsOwn(i)
      BY <2>1, <2>2, AskOrSendEffect
    <3> QED BY <1>5, <3>1 DEF TestArrival, AskStep, KnownStep, Asks, SendsOwn
  <2>3. CASE /\ mode # 1 /\ job' = [job EXCEPT ![i].pc = "mode2"]
             /\ UNCHANGED <<asked, codeToSlot>>
    <3>1. JobStep(i, "mode2") /\ KeepsSlot(i)
      BY <1>1, <2>3, PcEffect, Places
    <3> QED BY <1>5, <2>3, <3>1 DEF TestArrival, PassStep
  <2> QED BY <1>5, <2>2, <2>3 DEF TestArrival
<1>6. CASE TestDeparture(i)
  <2>1. Started(i)
    BY <1>6 DEF TestDeparture, Started
  <2>2. CASE AskOrSend(i)
    <3>1. Asks(i) \/ SendsOwn(i)
      BY <2>1, <2>2, AskOrSendEffect
    <3> QED BY <1>6, <3>1 DEF TestDeparture, AskStep, KnownStep, Asks, SendsOwn
  <2>3. CASE /\ mode # 2 /\ job' = [job EXCEPT ![i].pc = "skipped"]
             /\ UNCHANGED <<asked, codeToSlot>>
    <3>1. JobStep(i, "skipped") /\ KeepsSlot(i)
      BY <1>1, <2>3, PcEffect, Places
    <3> QED BY <1>6, <2>3, <3>1 DEF TestDeparture, PassStep
  <2> QED BY <1>6, <2>2, <2>3 DEF TestDeparture
<1> QED BY <1>2, <1>3, <1>4, <1>5, <1>6 DEF TaskStep

\* A step of a thread that sends a slot is one of four kinds.
LEMMA SendIsStep ==
  ASSUME Typed, TypeOK, MapOfCarrier, NEW j \in Thread, SendStep(j)
  PROVE  StationStep(j) \/ SendMapStep(j) \/ SendRowStep(j) \/ EraseStep(j)
<1>1. job[j].code \in Code
  BY SenderHasCode, Places DEF SendStep, SendFound, EraseNumber, QueryStation, QueryOrder
<1> USE DEF lineVars, mapVars, askVars, sendVars, unloadVars, FramesKept
<1>2. CASE SendFound(j)
  <2>1. Handed(j, FoundNumber(j)) /\ JobStep(j, "erase") /\ KeepsSlot(j)
    BY <1>2, SendFoundEffect
  <2> QED BY <1>1, <1>2, <2>1 DEF SendFound, SendMapStep
<1>3. CASE QueryStation(j)
  <2>1. JobStep(j, "queryOrder") /\ KeepsSlot(j)
    BY <1>3, QueryStationEffect
  <2> QED BY <1>3, <2>1 DEF QueryStation, StationStep
<1>4. CASE QueryOrder(j)
  <2>1. Finished(j) /\ \E number : Handed(j, number)
    BY <1>4, QueryOrderEffect
  <2> QED BY <1>1, <1>4, <2>1 DEF QueryOrder, SendRowStep
<1>5. CASE EraseNumber(j)
  <2>1. Finished(j)
    BY <1>5, FinishEffect DEF EraseNumber
  <2>2. DOMAIN job = Thread
    BY DEF Typed, Thread
  <2> QED BY <1>1, <1>5, <2>1, <2>2 DEF EraseNumber, EraseStep
<1> QED BY <1>2, <1>3, <1>4, <1>5 DEF SendStep

\* A step of an unload frame is one of nine kinds.
LEMMA UnloadIsStep ==
  ASSUME Typed, TypeOK, Referred, NEW f \in Frames, UnloadFrame(f) \/ UnloadStep(f)
  PROVE  ParcelsKept /\ FrameMove(f)
<1>1. codeToSlot \in [Code -> Int \cup {NoSlot}]
  BY DEF TypeOK
<1>2. CASE UnloadSlotErase(f)
  <2>1. TakeStep(f)
    BY <1>2, UnloadSlotEraseIsStep
  <2>2. UNCHANGED <<plant, order, codeToMsg, db, job, carrier, asked, sendVars, plc>>
    BY <1>2 DEF UnloadSlotErase, lineVars, askVars
  <2> QED BY <2>1, <2>2 DEF ParcelsKept, TakeStep, FrameMove
<1>3. CASE ~UnloadSlotErase(f)
  <2>1. UNCHANGED <<plant, order, codeToMsg, codeToSlot, db, job, carrier, asked,
                    sendVars, plc>>
    BY <1>3 DEF UnloadStep, UnloadFrame, UnloadFind, UnloadRefer, UnloadSlot,
                UnloadSlotDb, UnloadArrival, UnloadDeparture, UnloadSmall, UnloadForget,
                lineVars, mapVars, askVars
  <2>2. ParcelsKept
    BY <1>1, <2>1 DEF ParcelsKept
  <2>3. FrameMove(f)
    BY <1>3, UnloadFrameIsStep, UnloadFindIsStep, UnloadReferIsStep, UnloadSlotIsStep,
       UnloadSlotDbIsStep, UnloadCallIsStep, UnloadForgetIsStep
       DEF UnloadStep, FrameMove
  <2> QED BY <2>2, <2>3
<1> QED BY <1>2, <1>3

\* Every step of the parcel flow is one of these.
LEMMA EveryStep ==
  ASSUME Typed, TypeOK, Referred, MapOfCarrier, Next
  PROVE  \/ OperatorStep
         \/ JobSteps
         \/ \E c \in Code : EndStep(c)
         \/ \E c \in Code : \E k : RecordStep(c, k)
         \/ FrameSteps
<1> USE DEF lineVars, mapVars, askVars, sendVars, unloadVars, FramesKept
<1>1. ASSUME NEW m \in {1, 2}, SetOperateType(m)
      PROVE  OperatorStep
  BY <1>1 DEF SetOperateType, OperatorStep
<1>2. CASE Run \/ Stop
  BY <1>2 DEF Run, Stop, OperatorStep
<1>3. ASSUME NEW s \in PdaSlots, NEW p \in Package, PdaScan(s, p)
      PROVE  OperatorStep
  BY <1>3 DEF PdaScan, OperatorStep
<1>4. ASSUME NEW i \in Scans, NEW c \in Code, NEW s \in Supply, Scan(i, c, s)
      PROVE  JobSteps
  BY <1>4, ScanIsStep DEF JobSteps
<1>5. ASSUME NEW i \in Scans, TaskStep(i)
      PROVE  JobSteps
  BY <1>5, TaskIsStep DEF JobSteps
<1>6. ASSUME NEW c \in Code, TerminalCodeRecv(c)
      PROVE  JobSteps
  <2>1. Answered(c)
    BY <1>6, TerminalCodeEffect
  <2>2. AnswerStep(c)
    BY <1>6, <2>1 DEF TerminalCodeRecv, AnswerStep
  <2> QED BY <2>2 DEF JobSteps
<1>7. ASSUME NEW j \in Thread, SendStep(j)
      PROVE  JobSteps
  BY <1>7, SendIsStep DEF JobSteps
<1>8. ASSUME NEW c \in Code, NEW k, WriteSlot(c, k)
      PROVE  RecordStep(c, k)
  <2>1. SlotWritten(c, k)
    BY <1>8, WriteSlotEffect
  <2> QED BY <1>8, <2>1 DEF WriteSlot, RecordStep
<1>9. ASSUME NEW f \in Frames, UnloadFrame(f) \/ UnloadStep(f)
      PROVE  FrameSteps
  BY <1>9, UnloadIsStep DEF FrameSteps
<1>10. ASSUME NEW c \in Code, RequestEnds(c)
       PROVE  EndStep(c)
  BY <1>10 DEF RequestEnds, EndStep
<1> QED BY <1>1, <1>2, <1>3, <1>4, <1>5, <1>6, <1>7, <1>8, <1>9, <1>10
        DEF Next, LineNext, Thread
-----------------------------------------------------------------------------
(* Types.                                                                  *)

\* The tasks of the unload frames go on in steps of their own, and no step changes
\* the plant.
LEMMA FramesApart ==
  ASSUME Typed, TypeOK, Referred, MapOfCarrier, Next
  PROVE  plant' = plant /\ (FrameSteps \/ FramesKept)
BY EveryStep DEF OperatorStep, JobSteps, RecordStep, EndStep, FrameSteps, ScanStep,
   SupplyStep, QueryStep, WriteStep, PassStep, AskStep, KnownStep, AnswerStep,
   StationStep, SendMapStep, SendRowStep, EraseStep, ParcelsKept

\* A thread moves: a task that has started keeps its parcel and is not idle again,
\* and one that is over does not move.
Move(j, pc) ==
  /\ JobStep(j, pc)
  /\ job[j].pc \notin {"done", "skipped"}
  /\ j \in Scans => /\ pc # "idle"
                    /\ job'[j].code \in Code /\ job'[j].number \in Number
                    /\ Started(j) => KeepsParcel(j)
  /\ j = Main => /\ pc \in Sending \cup {"idle", "erase"}
                 /\ pc # "idle" => job'[j].code \in Code

\* A task at work that keeps its parcel.
LEMMA MoveOfTask ==
  ASSUME Typed, NEW i \in Scans, NEW pc, Started(i), pc # "idle",
         job[i].pc \notin {"done", "skipped"}, JobStep(i, pc), KeepsParcel(i)
  PROVE  Move(i, pc)
BY MainIsNoScan DEF Typed, Move, KeepsParcel

\* A thread that has sent, and is done with it.
LEMMA MoveOfSender ==
  ASSUME Typed, NEW j \in Thread, job[j].pc \in Sending \cup {"erase"}, Finished(j)
  PROVE  \E pc \in JobPc : Move(j, pc)
<1>1. CASE j = Main
  <2>1. JobStep(Main, "idle") /\ job[Main].pc \notin {"done", "skipped"}
    BY <1>1, Places DEF Finished
  <2> QED BY <1>1, <2>1, MainIsNoScan, Places DEF Move
<1>2. CASE j # Main
  <2>1. JobStep(j, "done") /\ KeepsParcel(j)
    BY <1>2 DEF Finished, KeepsSlot
  <2>2. j \in Scans /\ Started(j) /\ job[j].pc \notin {"done", "skipped"}
    BY <1>2, Places DEF Thread, Started
  <2>3. Move(j, "done")
    BY <2>1, <2>2, MoveOfTask
  <2> QED BY <2>3, Places
<1> QED BY <1>1, <1>2

\* A thread that starts to send.
LEMMA MoveToSend ==
  ASSUME NEW j \in Thread, NEW c, NEW slot, Sends(j, c, slot)
  PROVE  \E pc \in Sending : JobStep(j, pc)
BY Places DEF Sends

\* A thread that goes on sending.
LEMMA MoveOn ==
  ASSUME Typed, NEW j \in Thread, NEW pc \in Sending \cup {"erase"},
         job[j].pc \in Sending, JobStep(j, pc), KeepsSlot(j)
  PROVE  Move(j, pc)
<1>1. KeepsParcel(j) /\ Started(j) /\ job[j].pc \notin {"done", "skipped"}
      /\ job[j].code \in Code /\ pc # "idle"
  BY SenderHasCode, Places DEF KeepsSlot, Started
<1> QED BY <1>1, MoveOfTask, MainIsNoScan, Places DEF Thread, Move, KeepsParcel

\* A step of a job moves that job alone.
LEMMA JobMoves ==
  ASSUME Typed, TypeOK, JobSteps
  PROVE  \E j \in Thread, pc \in JobPc : Move(j, pc)
<1>1. ASSUME NEW i \in Scans, NEW c \in Code, NEW m \in Number, ScanStep(i, c, m)
      PROVE  \E j \in Thread, pc \in JobPc : Move(j, pc)
  <2>1. Move(i, "supply")
    BY <1>1, MainIsNoScan DEF ScanStep, ScanJob, Move, Started
  <2> QED BY <2>1, Places DEF Thread
<1>2. ASSUME NEW i \in Scans,
             \/ SupplyStep(i) \/ QueryStep(i) \/ WriteStep(i) \/ PassStep(i)
             \/ AskStep(i) \/ KnownStep(i)
      PROVE  \E j \in Thread, pc \in JobPc : Move(j, pc)
  <2>1. Started(i) /\ job[i].pc \notin {"done", "skipped"} /\ i \in Thread
    BY <1>2 DEF Started, Thread, SupplyStep, QueryStep, WriteStep, PassStep, AskStep,
                KnownStep
  <2>2. KeepsParcel(i)
    BY <1>2 DEF SupplyStep, QueryStep, WriteStep, PassStep, AskStep, KnownStep,
                KeepsSlot, RowRead, RowWritten, Asks, SendsOwn
  <2>3. \E pc \in JobPc \ {"idle"} : JobStep(i, pc)
    <3>1. CASE SupplyStep(i) \/ QueryStep(i) \/ WriteStep(i) \/ PassStep(i) \/ AskStep(i)
      BY <3>1, Places DEF SupplyStep, QueryStep, WriteStep, PassStep, AskStep,
                          RowRead, RowWritten, Asks
    <3>2. CASE KnownStep(i)
      BY <2>1, <3>2, MoveToSend, Places DEF KnownStep, SendsOwn
    <3> QED BY <1>2, <3>1, <3>2
  <2> QED BY <2>1, <2>2, <2>3, MoveOfTask
<1>3. ASSUME NEW c \in Code, AnswerStep(c)
      PROVE  \E j \in Thread, pc \in JobPc : Move(j, pc)
  <2>1. PICK slot \in Int : Sends(Main, c, slot)
    BY <1>3 DEF AnswerStep, Answered
  <2>2. PICK pc \in Sending : JobStep(Main, pc)
    BY <2>1, MoveToSend DEF Thread
  <2>3. Move(Main, pc)
    BY <1>3, <2>1, <2>2, MainIsNoScan DEF Move, AnswerStep, Answered, Sends
  <2> QED BY <2>2, <2>3, Places DEF Thread
<1>4. ASSUME NEW j \in Thread, StationStep(j) \/ SendMapStep(j)
      PROVE  \E k \in Thread, pc \in JobPc : Move(k, pc)
  BY <1>4, MoveOn, Places DEF StationStep, SendMapStep
<1>5. ASSUME NEW j \in Thread, SendRowStep(j) \/ EraseStep(j)
      PROVE  \E k \in Thread, pc \in JobPc : Move(k, pc)
  BY <1>5, MoveOfSender, Places DEF SendRowStep, EraseStep
<1> QED BY <1>1, <1>2, <1>3, <1>4, <1>5 DEF JobSteps

\* In any step a thread moves, or none does.
LEMMA NextMoves ==
  ASSUME Typed, TypeOK, Referred, MapOfCarrier, Next
  PROVE  UNCHANGED job \/ \E j \in Thread, pc \in JobPc : Move(j, pc)
<1>1. CASE \/ OperatorStep \/ FrameSteps
           \/ \E c \in Code : EndStep(c) \/ \E k : RecordStep(c, k)
  BY <1>1 DEF OperatorStep, RecordStep, EndStep, FrameSteps, ParcelsKept
<1>2. CASE JobSteps
  BY <1>2, JobMoves
<1> QED BY <1>1, <1>2, EveryStep

\* A task that has started keeps its parcel for good.
LEMMA StartedStays ==
  ASSUME Typed, TypeOK, Referred, MapOfCarrier, Next, NEW i \in Scans, Started(i)
  PROVE  Started(i)' /\ KeepsParcel(i)
<1>1. CASE UNCHANGED job
  BY <1>1 DEF Started, KeepsParcel
<1>2. ASSUME NEW j \in Thread, NEW pc \in JobPc, Move(j, pc)
      PROVE  Started(i)' /\ KeepsParcel(i)
  BY <1>2 DEF Move, JobStep, Started, KeepsParcel, Thread
<1> QED BY <1>1, <1>2, NextMoves

\* Jobs keep their types; one that has started has a code.
LEMMA JobTyped ==
  ASSUME Typed, TypeOK, Referred, MapOfCarrier, Next
  PROVE  /\ job' \in [Thread -> Job]
         /\ \A i \in Scans : Started(i)' => job'[i].code \in Code
                                            /\ job'[i].number \in Number
         /\ job'[Main].pc \in Sending \cup {"idle", "erase"}
         /\ Started(Main)' => job'[Main].code \in Code
<1>1. CASE UNCHANGED job
  BY <1>1 DEF Typed, Thread, Started
<1>2. ASSUME NEW j \in Thread, NEW pc \in JobPc, Move(j, pc)
      PROVE  /\ job' \in [Thread -> Job]
             /\ \A i \in Scans : Started(i)' => job'[i].code \in Code
                                                /\ job'[i].number \in Number
             /\ job'[Main].pc \in Sending \cup {"idle", "erase"}
             /\ Started(Main)' => job'[Main].code \in Code
  <2>1. job' \in [Thread -> Job]
    BY <1>2 DEF Move, JobStep
  <2>2. ASSUME NEW i \in Scans, Started(i)'
        PROVE  job'[i].code \in Code /\ job'[i].number \in Number
    BY <1>2, <2>2 DEF Move, JobStep, Typed, Started, Thread
  <2>3. /\ job'[Main].pc \in Sending \cup {"idle", "erase"}
        /\ Started(Main)' => job'[Main].code \in Code
    BY <1>2 DEF Move, JobStep, Typed, Started, Thread
  <2> QED BY <2>1, <2>2, <2>3
<1> QED BY <1>1, <1>2, NextMoves

\* The tasks that are over stay so; they are finitely many.
LEMMA DoneGrows ==
  ASSUME Typed, TypeOK, Referred, MapOfCarrier, Next
  PROVE  /\ Done \subseteq Done' /\ IsFiniteSet(Done')
         /\ Cardinality(Done) \in Nat /\ Cardinality(Done') \in Nat
         /\ Cardinality(Done) <= Cardinality(Done')
         /\ Cardinality(Done') <= MaxScans
<1>1. Done \subseteq Done'
  <2>1. CASE UNCHANGED job
    BY <2>1 DEF Done
  <2>2. ASSUME NEW j \in Thread, NEW pc \in JobPc, Move(j, pc)
        PROVE  Done \subseteq Done'
    BY <2>2 DEF Move, JobStep, Done, Thread
  <2> QED BY <2>1, <2>2, NextMoves
<1>2. IsFiniteSet(Scans) /\ Cardinality(Scans) = MaxScans
  BY FS_Interval, ParcelAssumption DEF Scans
<1>3. Done' \subseteq Scans
  BY DEF Done
<1>4. IsFiniteSet(Done') /\ Cardinality(Done') <= MaxScans
  BY <1>2, <1>3, FS_Subset
<1>5. IsFiniteSet(Done) /\ Cardinality(Done) <= Cardinality(Done')
  BY <1>1, <1>4, FS_Subset
<1> QED BY <1>1, <1>4, <1>5, FS_CardinalityType

\* Requests only come from tasks that are over with them.
AskedFew == \A c \in Code : asked[c] <= Cardinality(Done)

\* Every step keeps the requests to those of tasks that are over with theirs.
LEMMA AskedTyped ==
  ASSUME Typed, TypeOK, Referred, MapOfCarrier, Next
  PROVE  asked' \in [Code -> 0 .. MaxScans] /\ AskedFew'
<1> DEFINE n == Cardinality(Done)
           n1 == Cardinality(Done')
<1>1. /\ asked \in [Code -> 0 .. MaxScans]
      /\ \A c \in Code : asked[c] <= n
  BY DEF TypeOK, Typed
<1>2. n \in Nat /\ n1 \in Nat /\ n <= n1 /\ n1 <= MaxScans /\ MaxScans \in Nat
  BY DoneGrows, ParcelAssumption
<1>3. CASE UNCHANGED asked
  BY <1>1, <1>2, <1>3 DEF AskedFew
<1>4. ASSUME NEW c \in Code, AnswerStep(c) \/ EndStep(c)
      PROVE  asked' \in [Code -> 0 .. MaxScans] /\ AskedFew'
  <2>1. asked[c] > 0 /\ asked' = [asked EXCEPT ![c] = @ - 1]
    BY <1>4 DEF AnswerStep, EndStep, Answered
  <2> HIDE DEF n, n1
  <2>2. asked' \in [Code -> 0 .. MaxScans]
    BY <1>1, <1>2, <2>1
  <2>3. \A d \in Code : asked'[d] <= n1
    BY <1>1, <1>2, <2>1
  <2> QED BY <2>2, <2>3 DEF AskedFew, n1
<1>5. ASSUME NEW i \in Scans, AskStep(i)
      PROVE  asked' \in [Code -> 0 .. MaxScans] /\ AskedFew'
  <2> DEFINE c == job[i].code
  <2>1. c \in Code /\ asked' = [asked EXCEPT ![c] = @ + 1]
    BY <1>5 DEF AskStep, Asks, Typed, Started
  <2>2. i \notin Done /\ i \in Done' /\ Done \subseteq Done'
    BY <1>5, DoneGrows DEF AskStep, Asks, JobStep, Done
  <2>3. n < n1
    <3>1. IsFiniteSet(Done') /\ Done \subseteq Done' /\ Done # Done'
      BY <2>2, DoneGrows
    <3>2. Cardinality(Done) = Cardinality(Done') => Done = Done'
      BY <3>1, FS_Subset
    <3> QED BY <1>2, <3>1, <3>2
  <2> HIDE DEF n, n1, c
  <2>4. asked' \in [Code -> 0 .. MaxScans]
    <3>1. asked[c] \in 0 .. MaxScans /\ asked[c] <= n
      BY <1>1, <2>1
    <3>2. asked[c] + 1 \in 0 .. MaxScans
      BY <1>2, <2>3, <3>1
    <3> QED BY <1>1, <2>1, <3>2
  <2>5. \A d \in Code : asked'[d] <= n1
    BY <1>1, <1>2, <2>1, <2>3
  <2> QED BY <2>4, <2>5 DEF AskedFew, n1
<1>6. \/ UNCHANGED asked
      \/ \E c \in Code : AnswerStep(c) \/ EndStep(c)
      \/ \E i \in Scans : AskStep(i)
  BY EveryStep DEF OperatorStep, JobSteps, RecordStep, FrameSteps, ScanStep, SupplyStep,
     QueryStep, WriteStep, PassStep, KnownStep, SendsOwn, StationStep, SendMapStep,
     SendRowStep, EraseStep, ParcelsKept
<1> QED BY <1>3, <1>4, <1>5, <1>6

\* The frames.
LEMMA FrameTyped ==
  ASSUME Typed, TypeOK, Referred, MapOfCarrier, Next
  PROVE  /\ frame' \in [Frames -> Frame]
         /\ torn' \subseteq Frames
<1>1. CASE FramesKept
  BY <1>1 DEF FramesKept, Typed, TypeOK
<1>2. CASE FrameSteps
  BY <1>2 DEF FrameSteps, FrameMove, ArriveStep, FindStep, ReferStep, LookStep, TakeStep,
     RowSlotStep, PassOn, CallStep, ForgetStep, FrameStep, TypeOK
<1> QED BY <1>1, <1>2, FramesApart

\* The maps, the rows, and what the PLC has been told.
LEMMA MapsTyped ==
  ASSUME Typed, TypeOK, Referred, MapOfCarrier, Next
  PROVE  /\ msgToCode' \in [Number -> Code \cup {NoCode, Empty}]
         /\ codeToMsg' \in [Code -> Number \cup {NoNumber}]
         /\ codeToSlot' \in [Code -> Int \cup {NoSlot}]
         /\ carrier' \in [Number -> 0 .. MaxScans]
         /\ db' \in [Code -> Row \cup {NoRow}]
         /\ slotWrites' \in [Code -> Seq(Int)]
         /\ gone' \subseteq Thread
         /\ plc' \in PlcType
<1> DEFINE Maps ==
             /\ msgToCode \in [Number -> Code \cup {NoCode, Empty}]
             /\ codeToMsg \in [Code -> Number \cup {NoNumber}]
             /\ codeToSlot \in [Code -> Int \cup {NoSlot}]
             /\ carrier \in [Number -> 0 .. MaxScans]
             /\ db \in [Code -> Row \cup {NoRow}]
             /\ slotWrites \in [Code -> Seq(Int)]
             /\ gone \subseteq Thread
             /\ plc \in PlcType
<1>1. Maps
  BY DEF Typed, TypeOK, PlcType, Thread
<1>2. ASSUME OperatorStep \/ \E c \in Code : EndStep(c)
      PROVE  Maps'
  BY <1>1, <1>2 DEF OperatorStep, EndStep, mapVars, sendVars
<1>3. ASSUME NEW i \in Scans, NEW c \in Code, NEW m \in Number, ScanStep(i, c, m)
      PROVE  Maps'
  <2>1. /\ msgToCode' = [msgToCode EXCEPT ![m] = c]
        /\ codeToMsg' = [codeToMsg EXCEPT ![c] = m]
        /\ carrier' = [carrier EXCEPT ![m] = i]
        /\ UNCHANGED <<codeToSlot, db, slotWrites, gone, plc>>
    BY <1>3 DEF ScanStep, sendVars
  <2>2. i \in 0 .. MaxScans
    BY MainIsNoScan
  <2>4. msgToCode' \in [Number -> Code \cup {NoCode, Empty}]
        /\ codeToMsg' \in [Code -> Number \cup {NoNumber}]
        /\ carrier' \in [Number -> 0 .. MaxScans]
    BY <1>1, <2>1, <2>2
  <2> QED BY <1>1, <2>1, <2>4
<1>4. ASSUME NEW i \in Scans, SupplyStep(i)
      PROVE  Maps'
  BY <1>1, <1>4 DEF SupplyStep, Announces, PlcType, mapVars, sendVars
<1>5. ASSUME NEW i \in Scans, QueryStep(i) \/ WriteStep(i) \/ PassStep(i) \/ AskStep(i)
      PROVE  Maps'
  BY <1>1, <1>5 DEF QueryStep, WriteStep, PassStep, AskStep, RowWritten, Asks, mapVars,
                    sendVars
<1>6. ASSUME NEW i \in Scans, KnownStep(i)
      PROVE  Maps'
  BY <1>1, <1>6 DEF KnownStep, SendsOwn, Sends, sendVars
<1>7. ASSUME NEW c \in Code, AnswerStep(c)
      PROVE  Maps'
  BY <1>1, <1>7 DEF AnswerStep, Answered, Sends, sendVars
<1>8. ASSUME NEW j \in Thread, StationStep(j)
      PROVE  Maps'
  BY <1>1, <1>8 DEF StationStep, mapVars, sendVars
<1>9. ASSUME NEW j \in Thread, SendMapStep(j)
      PROVE  Maps'
  BY <1>1, <1>9 DEF SendMapStep, Handed, mapVars
<1>10. ASSUME NEW j \in Thread, Finished(j), job[j].code \in Code
       PROVE  slotWrites' \in [Code -> Seq(Int)]
  <2>1. job[j].slot \in Int
    BY DEF Typed, Thread, Job
  <2> DEFINE longer == Append(slotWrites[job[j].code], job[j].slot)
  <2>2. longer \in Seq(Int)
    BY <1>1, <1>10, <2>1, AppendProperties
  <2>3. \/ UNCHANGED slotWrites
        \/ slotWrites' = [slotWrites EXCEPT ![job[j].code] = longer]
    BY <1>10 DEF Finished
  <2> HIDE DEF longer
  <2> QED BY <1>1, <1>10, <2>2, <2>3
<1>11. ASSUME NEW j \in Thread, SendRowStep(j)
       PROVE  Maps'
  BY <1>1, <1>10, <1>11 DEF SendRowStep, Handed, mapVars
<1>12. ASSUME NEW j \in Thread, EraseStep(j)
       PROVE  Maps'
  <2>1. codeToMsg' \in [Code -> Number \cup {NoNumber}]
    BY <1>1, <1>12 DEF EraseStep
  <2>2. gone' \subseteq Thread
    BY <1>1, <1>12 DEF EraseStep
  <2> QED BY <1>1, <1>10, <1>12, <2>1, <2>2 DEF EraseStep
<1>13. ASSUME NEW c \in Code, NEW k, RecordStep(c, k)
       PROVE  Maps'
  BY <1>1, <1>13 DEF RecordStep, SlotWritten, mapVars
<1>14. ASSUME FrameSteps
       PROVE  Maps'
  <2>1. \A m : [msgToCode EXCEPT ![m] = NoCode] \in [Number -> Code \cup {NoCode, Empty}]
    BY <1>1
  <2>2. \A m : [msgToCode EXCEPT ![m] = IF @ = NoCode THEN Empty ELSE @]
                 \in [Number -> Code \cup {NoCode, Empty}]
    BY <1>1
  <2>3. msgToCode' \in [Number -> Code \cup {NoCode, Empty}]
    BY <1>1, <1>14, <2>1, <2>2 DEF FrameSteps, FrameMove, ArriveStep, FindStep, ReferStep,
       LookStep, TakeStep, RowSlotStep, PassOn, CallStep, ForgetStep
  <2> QED BY <1>1, <1>14, <2>3 DEF FrameSteps, ParcelsKept, sendVars
<1> HIDE DEF Maps
<1>15. JobSteps => Maps'
  BY <1>3, <1>4, <1>5, <1>6, <1>7, <1>8, <1>9, <1>11, <1>12 DEF JobSteps
<1>16. Maps'
  BY <1>2, <1>13, <1>14, <1>15, EveryStep
<1> QED BY <1>16 DEF Maps

\* The numbers of a station stay below their bound.
LEMMA OrderTyped ==
  ASSUME Typed, TypeOK, Referred, MapOfCarrier, Next
  PROVE  order' \in [Supply -> 0 .. MaxOrder]
<1>1. UNCHANGED order \/ \E i \in Scans : \E c \in Code, m \in Number : ScanStep(i, c, m)
  BY EveryStep DEF OperatorStep, JobSteps, RecordStep, EndStep, FrameSteps, SupplyStep,
     QueryStep, WriteStep, PassStep, AskStep, KnownStep, AnswerStep, StationStep,
     SendMapStep, SendRowStep, EraseStep, ParcelsKept
<1> QED BY <1>1 DEF TypeOK, ScanStep

\* The mode, the run button and the packages change by themselves.
LEMMA PanelStep ==
  ASSUME Next
  PROVE  \/ UNCHANGED <<running, mode, switches, slotToPackage>>
         \/ Run \/ Stop
         \/ \E m \in {1, 2} : SetOperateType(m)
         \/ \E s \in PdaSlots, p \in Package : PdaScan(s, p)
<1> DEFINE Panel == UNCHANGED <<running, mode, switches, slotToPackage>>
<1>5. ASSUME NEW i \in Scans, NEW c \in Code, NEW s \in Supply, Scan(i, c, s)
      PROVE  Panel
  BY <1>5 DEF Scan
<1>6. ASSUME NEW i \in Scans, TaskStep(i)
      PROVE  Panel
  BY <1>6 DEF TaskStep, TaskSupply, QueryRow, WriteRow, TestArrival, TestDeparture,
              lineVars
<1>7. ASSUME NEW c \in Code, TerminalCodeRecv(c) \/ RequestEnds(c)
      PROVE  Panel
  BY <1>7 DEF TerminalCodeRecv, RequestEnds, lineVars
<1>8. ASSUME NEW j \in Thread, SendStep(j)
      PROVE  Panel
  BY <1>8 DEF SendStep, SendFound, EraseNumber, QueryStation, QueryOrder, lineVars
<1>9. ASSUME NEW c \in Code, NEW k, WriteSlot(c, k)
      PROVE  Panel
  BY <1>9 DEF WriteSlot, lineVars
<1>10. ASSUME NEW f \in Frames, UnloadFrame(f) \/ UnloadStep(f)
       PROVE  Panel
  BY <1>10 DEF UnloadFrame, UnloadStep, UnloadFind, UnloadRefer, UnloadSlot,
               UnloadSlotErase, UnloadSlotDb, UnloadArrival, UnloadDeparture, UnloadSmall,
               UnloadForget, lineVars
<1> QED BY <1>5, <1>6, <1>7, <1>8, <1>9, <1>10 DEF Next, LineNext, Thread

\* The operator's variables and the packages.
LEMMA PanelTyped ==
  ASSUME Typed, TypeOK, Next
  PROVE  /\ running' \in BOOLEAN
         /\ mode' \in 0 .. 2
         /\ switches' \in 0 .. MaxSwitches
         /\ PackageSlots \subseteq DOMAIN slotToPackage'
<1>1. ASSUME NEW m \in {1, 2}, SetOperateType(m)
      PROVE  /\ UNCHANGED <<running, slotToPackage>>
             /\ mode' \in 0 .. 2 /\ switches' \in 0 .. MaxSwitches
  <2>1. plant.switches \in 0 .. MaxSwitches
    BY DEF Typed, Plant
  <2>2. switches \in 0 .. MaxSwitches /\ MaxSwitches \in Nat
    BY ParcelAssumption DEF TypeOK
  <2>3. UNCHANGED <<running, slotToPackage>> /\ mode' = m
        /\ switches < plant.switches /\ switches' = switches + 1
    BY <1>1 DEF SetOperateType
  <2> QED BY <2>1, <2>2, <2>3
<1>2. CASE Run \/ Stop
  BY <1>2 DEF Run, Stop, TypeOK
<1>3. ASSUME NEW s \in PdaSlots, NEW p \in Package, PdaScan(s, p)
      PROVE  /\ UNCHANGED <<running, mode, switches>>
             /\ PackageSlots \subseteq DOMAIN slotToPackage'
  BY <1>3 DEF PdaScan, lineVars, TypeOK
<1>4. CASE UNCHANGED <<running, mode, switches, slotToPackage>>
  BY <1>4 DEF TypeOK
<1>13. ASSUME NEW m \in {1, 2}, SetOperateType(m)
       PROVE  /\ running' \in BOOLEAN
              /\ PackageSlots \subseteq DOMAIN slotToPackage'
  BY <1>13 DEF SetOperateType, TypeOK
<1>14. ASSUME NEW s \in PdaSlots, NEW p \in Package, PdaScan(s, p)
       PROVE  /\ running' \in BOOLEAN
              /\ mode' \in 0 .. 2
              /\ switches' \in 0 .. MaxSwitches
  BY <1>14 DEF PdaScan, lineVars, TypeOK
<1> QED BY <1>1, <1>2, <1>3, <1>4, <1>13, <1>14, PanelStep

\* An answer that does not come is for a code of the plant.
LEMMA RefusedTyped ==
  ASSUME TypeOK, Next
  PROVE  refused' \subseteq Code
<1>1. UNCHANGED refused \/ \E c \in Code : RequestEnds(c)
  BY DEF Next, LineNext, SetOperateType, Run, Stop, Scan, TaskStep, TaskSupply, QueryRow,
     WriteRow, TestArrival, TestDeparture, TerminalCodeRecv, SendStep, SendFound,
     EraseNumber, QueryStation, QueryOrder, WriteSlot, PdaScan, UnloadFrame, UnloadStep,
     UnloadFind, UnloadRefer, UnloadSlot, UnloadSlotErase, UnloadSlotDb, UnloadArrival,
     UnloadDeparture, UnloadSmall, UnloadForget, askVars
<1> QED BY <1>1 DEF RequestEnds, TypeOK

\* Every step keeps the types.
LEMMA TypesStay ==
  ASSUME Typed, TypeOK, Referred, MapOfCarrier, Next
  PROVE  Typed' /\ TypeOK'
<1>1. plant' \in Plant
  BY FramesApart DEF Typed
<1>2. /\ \A i \in Scans : Started(i)' => job'[i].code \in Code
                                         /\ job'[i].number \in Number
      /\ Started(Main)' => job'[Main].code \in Code
      /\ job'[Main].pc \in Sending \cup {"idle", "erase"}
  BY JobTyped
<1>3. job' \in [Scans \cup {Main} -> Job]
  BY JobTyped DEF Thread
<1>4. frame' \in [Frames -> Frame] /\ torn' \subseteq Frames
  BY FrameTyped
<1>5. /\ db' \in [Code -> Row \cup {NoRow}]
      /\ slotWrites' \in [Code -> Seq(Int)]
      /\ plc' \in PlcType
      /\ gone' \subseteq Scans \cup {Main}
  BY MapsTyped DEF Thread
<1>6. AskedFew' /\ asked' \in [Code -> 0 .. MaxScans]
  BY AskedTyped
<1>7. Typed'
  BY <1>1, <1>2, <1>3, <1>4, <1>5, <1>6 DEF Typed, AskedFew, PlcType
<1>8. \A j \in DOMAIN job' : job'[j].pc \in JobPc
  BY <1>3 DEF Job
<1>9. plc'.stored \in Seq(Scans)
  BY <1>5 DEF PlcType
<1>10. /\ msgToCode' \in [Number -> Code \cup {NoCode, Empty}]
       /\ codeToMsg' \in [Code -> Number \cup {NoNumber}]
       /\ codeToSlot' \in [Code -> Int \cup {NoSlot}]
       /\ carrier' \in [Number -> 0 .. MaxScans]
  BY MapsTyped
<1>11. \A c \in Code : db'[c] = NoRow \/ db'[c] \in Row
  BY <1>5
<1>12. \A c \in Code : slotWrites'[c] \in Seq(Int)
  BY <1>5
<1>13. TypeOK'
  BY <1>4, <1>5, <1>6, <1>8, <1>9, <1>10, <1>11, <1>12, OrderTyped, PanelTyped, RefusedTyped
     DEF TypeOK, JobPc
<1> QED BY <1>7, <1>13
-----------------------------------------------------------------------------
(* The numbers on the line.                                                *)

\* A number changes hands only by a scan.
LEMMA CarrierStays ==
  ASSUME Typed, TypeOK, Referred, MapOfCarrier, Next
  PROVE  \/ UNCHANGED carrier
         \/ \E i \in Scans : \E c \in Code, m \in Number : ScanStep(i, c, m)
BY EveryStep DEF OperatorStep, JobSteps, RecordStep, EndStep, FrameSteps, SupplyStep,
   QueryStep, WriteStep, PassStep, AskStep, KnownStep, AnswerStep, StationStep,
   SendMapStep, SendRowStep, EraseStep, ParcelsKept

\* The map of the numbers changes by a scan, a reference, or when a number is forgotten.
LEMMA NumbersChange ==
  ASSUME Typed, TypeOK, Referred, MapOfCarrier, Next
  PROVE  \/ UNCHANGED msgToCode
         \/ \E i \in Scans : \E c \in Code, m \in Number : ScanStep(i, c, m)
         \/ \E f \in Frames : ReferStep(f) \/ ForgetStep(f)
BY EveryStep DEF OperatorStep, JobSteps, RecordStep, EndStep, FrameSteps, FrameMove,
   SupplyStep, QueryStep, WriteStep, PassStep, AskStep, KnownStep, AnswerStep, StationStep,
   SendMapStep, SendRowStep, EraseStep, ArriveStep, FindStep, LookStep, TakeStep,
   RowSlotStep, PassOn, CallStep, mapVars

\* A reference makes the entry if it is not there, and keeps it if it is.
LEMMA EntryMade ==
  ASSUME Typed, TypeOK, Referred, NEW f \in Frames, ReferStep(f)
  PROVE  /\ Segment(f) \in Number /\ msgToCode'[Segment(f)] # NoCode
         /\ \A m \in Number :
              /\ msgToCode[m] # NoCode => msgToCode'[m] = msgToCode[m]
              /\ msgToCode'[m] # NoCode => m = Segment(f) \/ msgToCode[m] # NoCode
              /\ msgToCode'[m] \in Code => msgToCode'[m] = msgToCode[m]
<1> DEFINE n == Segment(f)
<1>1. n \in Number
  BY FramePlaces DEF ReferStep, Referred
<1>2. msgToCode \in [Number -> Code \cup {NoCode, Empty}]
  BY DEF TypeOK
<1>3. msgToCode' = [msgToCode EXCEPT ![n] = IF @ = NoCode THEN Empty ELSE @]
  BY DEF ReferStep
<1> HIDE DEF n
<1>4. /\ \A m \in Number \ {n} : msgToCode'[m] = msgToCode[m]
      /\ msgToCode[n] = NoCode => msgToCode'[n] = Empty
      /\ msgToCode[n] # NoCode => msgToCode'[n] = msgToCode[n]
  BY <1>1, <1>2, <1>3
<1>5. Empty # NoCode /\ Empty \notin Code
  BY NoneAssumption
<1> QED BY <1>1, <1>4, <1>5 DEF n

\* The entry of a number that is forgotten is gone, and no other.
LEMMA EntryErased ==
  ASSUME Typed, TypeOK, Referred, NEW f \in Frames, ForgetStep(f)
  PROVE  /\ Segment(f) \in Number /\ msgToCode'[Segment(f)] = NoCode
         /\ \A m \in Number :
              /\ m # Segment(f) => msgToCode'[m] = msgToCode[m]
              /\ msgToCode'[m] # NoCode => m = Segment(f) \/ msgToCode[m] # NoCode
              /\ msgToCode'[m] \in Code => msgToCode'[m] = msgToCode[m]
<1> DEFINE n == Segment(f)
<1>1. n \in Number
  BY FramePlaces DEF ForgetStep, Referred
<1>2. msgToCode \in [Number -> Code \cup {NoCode, Empty}]
  BY DEF TypeOK
<1>3. msgToCode' = [msgToCode EXCEPT ![n] = NoCode]
  BY DEF ForgetStep
<1> HIDE DEF n
<1>4. /\ \A m \in Number \ {n} : msgToCode'[m] = msgToCode[m]
      /\ msgToCode'[n] = NoCode
  BY <1>1, <1>2, <1>3
<1>5. NoCode \notin Code
  BY NoneAssumption
<1> QED BY <1>1, <1>4, <1>5 DEF n

\* Without a scan no number gets another code, or an entry that nothing carries.
LEMMA CodesStay ==
  ASSUME Typed, TypeOK, Referred, MapOfCarrier, Next,
         ~\E i \in Scans : \E c \in Code, m \in Number : ScanStep(i, c, m)
  PROVE  \A m \in Number : /\ msgToCode'[m] \in Code => msgToCode'[m] = msgToCode[m]
                           /\ msgToCode'[m] # NoCode => msgToCode[m] # NoCode
                                                        \/ carrier[m] # 0
<1>1. CASE UNCHANGED msgToCode
  BY <1>1
<1>2. ASSUME NEW f \in Frames, ReferStep(f) \/ ForgetStep(f)
      PROVE  \A m \in Number : /\ msgToCode'[m] \in Code => msgToCode'[m] = msgToCode[m]
                               /\ msgToCode'[m] # NoCode => msgToCode[m] # NoCode
                                                            \/ carrier[m] # 0
  <2>1. Segment(f) \in Number /\ carrier[Segment(f)] # 0
    BY <1>2, FramePlaces DEF ReferStep, ForgetStep, Referred
  <2>2. \A m \in Number :
          /\ msgToCode'[m] # NoCode => m = Segment(f) \/ msgToCode[m] # NoCode
          /\ msgToCode'[m] \in Code => msgToCode'[m] = msgToCode[m]
    BY <1>2, EntryMade, EntryErased
  <2> QED BY <2>1, <2>2
<1> QED BY <1>1, <1>2, NumbersChange

\* A task starts only by a scan.
LEMMA OnlyScansStart ==
  ASSUME Typed, TypeOK, Referred, MapOfCarrier, Next
  PROVE  \/ \A i \in Scans : Started(i)' => Started(i)
         \/ \E i \in Scans : \E c \in Code, m \in Number : ScanStep(i, c, m)
<1>1. CASE UNCHANGED job
  BY <1>1 DEF Started
<1>2. ASSUME NEW i \in Scans,
             \/ SupplyStep(i) \/ QueryStep(i) \/ WriteStep(i)
             \/ PassStep(i) \/ AskStep(i) \/ KnownStep(i)
      PROVE  \A k \in Scans : Started(k)' => Started(k)
  <2>1. Started(i) /\ \E pc : JobStep(i, pc)
    BY <1>2 DEF Started, SupplyStep, QueryStep, WriteStep, PassStep, AskStep,
       KnownStep, RowRead, RowWritten, Asks, SendsOwn, Sends
  <2> QED BY <2>1 DEF JobStep, Started, Thread
<1>3. ASSUME NEW c \in Code, AnswerStep(c)
      PROVE  \A k \in Scans : Started(k)' => Started(k)
  <2>1. \E pc : JobStep(Main, pc)
    BY <1>3 DEF AnswerStep, Answered, Sends
  <2> QED BY <2>1, MainIsNoScan DEF JobStep, Started, Thread
<1>4. ASSUME NEW j \in Thread,
             StationStep(j) \/ SendMapStep(j) \/ SendRowStep(j) \/ EraseStep(j)
      PROVE  \A k \in Scans : Started(k)' => Started(k)
  <2>1. Started(j) /\ \E pc : JobStep(j, pc)
    BY <1>4 DEF Started, StationStep, SendMapStep, SendRowStep, EraseStep, Finished
  <2> QED BY <2>1 DEF JobStep, Started, Thread
<1>5. UNCHANGED job \/ JobSteps
  BY EveryStep DEF OperatorStep, RecordStep, EndStep, FrameSteps, ParcelsKept
<1> QED BY <1>1, <1>2, <1>3, <1>4, <1>5 DEF JobSteps

\* A task comes to work only by a scan.
LEMMA OnlyScansWork ==
  ASSUME Typed, TypeOK, Referred, MapOfCarrier, Next,
         ~\E i \in Scans : \E c \in Code, m \in Number : ScanStep(i, c, m)
  PROVE  \A i \in Scans : job'[i].pc \in Working => job[i].pc \in Working /\ KeepsParcel(i)
<1>1. \A i \in Scans : Started(i)' => Started(i)
  BY OnlyScansStart
<1> SUFFICES ASSUME NEW i \in Scans, job'[i].pc \in Working
             PROVE  job[i].pc \in Working /\ KeepsParcel(i)
  OBVIOUS
<1>2. Started(i) /\ job[i] \in Job
  BY <1>1, Places DEF Started, Typed
<1>3. job[i].pc \notin {"done", "skipped"}
  <2>1. CASE UNCHANGED job
    BY <2>1, Places
  <2>2. ASSUME NEW j \in Thread, NEW pc \in JobPc, Move(j, pc)
        PROVE  job[i].pc \notin {"done", "skipped"}
    BY <2>2, Places DEF Move, JobStep, Thread
  <2> QED BY <2>1, <2>2, NextMoves
<1>4. job[i].pc \in Working
  BY <1>2, <1>3 DEF Job, JobPc, Started
<1> QED BY <1>2, <1>4, StartedStays

\* Every step keeps what is known of the carriers of numbers.
LEMMA CarriedStays ==
  ASSUME Typed, TypeOK, Referred, MapOfCarrier, Carried, Next
  PROVE  Carried'
<1>0. /\ carrier \in [Number -> 0 .. MaxScans]
      /\ \A n \in Number : carrier[n] # 0 => carrier[n] \in Scans
  BY ParcelAssumption DEF TypeOK, Scans
<1>1. ASSUME NEW i \in Scans, NEW c \in Code, NEW m \in Number, ScanStep(i, c, m)
      PROVE  Carried'
  <2>1. /\ carrier' = [carrier EXCEPT ![m] = i]
        /\ msgToCode' = [msgToCode EXCEPT ![m] = c]
        /\ i # 0 /\ job[i].pc = "idle"
        /\ carrier[m] # 0 => ~InWork(job[carrier[m]].code)
    BY <1>1, MainIsNoScan DEF ScanStep
  <2>2. /\ job'[i].pc = "supply" /\ job'[i].number = m /\ job'[i].code = c
        /\ \A j \in Scans \ {i} : job'[j] = job[j]
    BY <1>1 DEF ScanStep, ScanJob, JobStep, Thread
  <2>3. \A n \in Number : carrier[n] # i
    BY <2>1 DEF Carried, Started
  <2>4. \A n \in Number : carrier'[n] # 0 =>
          job'[carrier'[n]].pc # "idle" /\ job'[carrier'[n]].number = n
    BY <1>0, <2>1, <2>2, <2>3 DEF Carried, Started
  <2>5. ASSUME NEW k \in Scans, job'[k].pc \in Working
        PROVE  carrier'[job'[k].number] = k
    <3>1. CASE k = i
      BY <1>0, <2>1, <2>2, <3>1
    <3>2. CASE k # i
      <4>1. job[k] = job'[k] /\ carrier[job[k].number] = k /\ job[k].number \in Number
        BY <2>2, <2>5, <3>2, Places DEF Carried, Typed, Started
      <4>2. k \in DOMAIN job /\ k # 0
        BY MainIsNoScan DEF Typed
      <4>3. InWork(job[k].code)
        BY <2>5, <4>1, <4>2 DEF InWork
      <4>4. job[k].number # m
        BY <2>1, <4>1, <4>2, <4>3
      <4> QED BY <1>0, <2>1, <4>1, <4>4
    <3> QED BY <3>1, <3>2
  <2>6. DOMAIN msgToCode = Number
    BY DEF TypeOK
  <2>7. \A n \in Number : msgToCode'[n] # NoCode => carrier'[n] # 0
    BY <1>0, <2>1, <2>6 DEF Carried
  <2>8. \A n \in Number : msgToCode'[n] \in Code => job'[carrier'[n]].code = msgToCode'[n]
    <3>1. ASSUME NEW n \in Number \ {m}, msgToCode[n] \in Code
          PROVE  carrier[n] \in Scans \ {i} /\ job[carrier[n]].code = msgToCode[n]
      BY <1>0, <2>3, <3>1, NoneAssumption DEF Carried
    <3> QED BY <1>0, <2>1, <2>2, <2>6, <3>1
  <2> QED BY <2>4, <2>5, <2>7, <2>8 DEF Carried, Started
<1>2. CASE ~\E i \in Scans : \E c \in Code, m \in Number : ScanStep(i, c, m)
  <2>1. UNCHANGED carrier
    BY <1>2, CarrierStays
  <2>2. \A n \in Number : carrier[n] # 0 =>
          job'[carrier[n]].pc # "idle" /\ KeepsParcel(carrier[n])
    <3>1. \A k \in Scans : Started(k) => job'[k].pc # "idle" /\ KeepsParcel(k)
      BY StartedStays DEF Started
    <3> QED BY <1>0, <3>1 DEF Carried
  <2>3. \A n \in Number : carrier'[n] # 0 =>
          job'[carrier'[n]].pc # "idle" /\ job'[carrier'[n]].number = n
    BY <2>1, <2>2 DEF Carried, KeepsParcel
  <2>4. \A i \in Scans : job'[i].pc \in Working => carrier'[job'[i].number] = i
    BY <1>2, <2>1, OnlyScansWork DEF Carried, KeepsParcel
  <2>5. \A n \in Number : msgToCode'[n] # NoCode => carrier'[n] # 0
    BY <1>2, <2>1, CodesStay DEF Carried
  <2>6. \A n \in Number : msgToCode'[n] \in Code => job'[carrier'[n]].code = msgToCode'[n]
    <3>1. ASSUME NEW n \in Number, msgToCode'[n] \in Code
          PROVE  job'[carrier'[n]].code = msgToCode'[n]
      <4>1. msgToCode'[n] = msgToCode[n] /\ carrier[n] # 0
        BY <1>2, <3>1, CodesStay, NoneAssumption DEF Carried
      <4> QED BY <2>1, <2>2, <3>1, <4>1 DEF Carried, KeepsParcel
    <3> QED BY <3>1
  <2> QED BY <2>1, <2>3, <2>4, <2>5, <2>6 DEF Carried, Started
<1> QED BY <1>1, <1>2

\* A number that is carried stays carried.
LEMMA StaysCarried ==
  ASSUME Typed, TypeOK, Referred, MapOfCarrier, Next, NEW m \in Number, carrier[m] # 0
  PROVE  carrier'[m] # 0
<1>1. CASE UNCHANGED carrier
  BY <1>1
<1>2. ASSUME NEW i \in Scans, NEW c \in Code, NEW n \in Number, ScanStep(i, c, n)
      PROVE  carrier'[m] # 0
  BY <1>2, MainIsNoScan DEF ScanStep, TypeOK
<1> QED BY <1>1, <1>2, CarrierStays

\* A carrier is a scan that has started.
LEMMA CarrierStarted ==
  ASSUME TypeOK, Carried, NEW m \in Number, carrier[m] # 0
  PROVE  carrier[m] \in Scans /\ Started(carrier[m]) /\ job[carrier[m]].number = m
BY ParcelAssumption DEF TypeOK, Scans, Carried

-----------------------------------------------------------------------------
(* The tasks of the unload frames.                                         *)

\* What a step of frame f does to the others: nothing, but that an entry they refer to
\* may be erased, and then their reference dangles.
LEMMA OtherFrames ==
  ASSUME Typed, TypeOK, Referred, NEW f \in Frames, FrameMove(f),
         NEW g \in Frames \ {f}
  PROVE  /\ frame'[g] = frame[g]
         /\ g \in torn => g \in torn'
         /\ g \in torn' => frame[g].pc \in Referring
         /\ frame[g].pc \in Referring /\ g \notin torn' =>
              msgToCode'[Segment(g)] # NoCode
<1>1. frame'[g] = frame[g]
  BY DEF FrameMove, ArriveStep, FindStep, ReferStep, LookStep, TakeStep, RowSlotStep,
     PassOn, CallStep, ForgetStep, FrameStep
<1>2. CASE ForgetStep(f)
  <2>1. /\ torn' = (torn \cup {h \in Frames : frame[h].pc \in Referring
                                              /\ Segment(h) = Segment(f)}) \ {f}
        /\ msgToCode' = [msgToCode EXCEPT ![Segment(f)] = NoCode]
    BY <1>2 DEF ForgetStep
  <2>2. frame[g].pc \in Referring /\ g \notin torn' =>
          g \notin torn /\ Segment(g) # Segment(f)
    BY <2>1
  <2> QED BY <1>1, <2>1, <2>2 DEF Referred
<1>3. CASE ~ForgetStep(f)
  <2>1. torn' = torn
    BY <1>3 DEF FrameMove, ArriveStep, FindStep, ReferStep, LookStep, TakeStep,
       RowSlotStep, PassOn, CallStep
  <2>2. msgToCode' = msgToCode \/ ReferStep(f)
    BY <1>3 DEF FrameMove, ArriveStep, FindStep, LookStep, TakeStep, RowSlotStep, PassOn,
       CallStep
  <2>3. \A m \in Number : msgToCode[m] # NoCode => msgToCode'[m] # NoCode
    BY <2>2, EntryMade
  <2> QED BY <1>1, <2>1, <2>3 DEF Referred
<1> QED BY <1>2, <1>3

\* Every step keeps the numbers in hand, and the references.
LEMMA ReferredStays ==
  ASSUME Typed, TypeOK, Referred, MapOfCarrier, Carried, Next
  PROVE  Referred'
<1>1. CASE FramesKept
  <2>1. ASSUME NEW f \in Frames, frame[f].pc \in {"refer"} \cup Referring
        PROVE  carrier'[Segment(f)] # 0
    <3>1. Segment(f) \in Number /\ carrier[Segment(f)] # 0
      BY <2>1 DEF Referred
    <3> QED BY <3>1, StaysCarried
  <2>2. ASSUME NEW f \in Frames, frame[f].pc \in Referring
        PROVE  job'[frame[f].scan].pc # "idle"
    <3>1. frame[f].scan \in Scans /\ Started(frame[f].scan)
      BY <2>2 DEF Referred
    <3> QED BY <3>1, StartedStays DEF Started
  <2>3. \A m \in Number : msgToCode[m] # NoCode => msgToCode'[m] # NoCode
    <3>1. ASSUME NEW i \in Scans, NEW c \in Code, NEW n \in Number, ScanStep(i, c, n)
          PROVE  \A m \in Number : msgToCode[m] # NoCode => msgToCode'[m] # NoCode
      BY <3>1, NoneAssumption DEF ScanStep, TypeOK
    <3>2. ASSUME NEW f \in Frames, ReferStep(f) \/ ForgetStep(f)
          PROVE  FALSE
      BY <1>1, <3>2 DEF FramesKept, ReferStep, ForgetStep, FrameStep
    <3> QED BY <3>1, <3>2, NumbersChange
  <2> QED BY <1>1, <2>1, <2>2, <2>3 DEF FramesKept, Referred, Busy, Segment, Started
<1>2. CASE FrameSteps
  <2>1. PICK f \in Frames : FrameMove(f)
    BY <1>2 DEF FrameSteps
  <2>2. UNCHANGED <<carrier, job>>
    BY <1>2 DEF FrameSteps, ParcelsKept
  <2>3. torn' \subseteq Frames
    BY FrameTyped
  <2> DEFINE Good(g) ==
        /\ frame'[g].pc \in {"refer"} \cup Referring =>
             /\ frame'[g].left # << >> /\ Head(frame'[g].left) \in Number
             /\ carrier[Head(frame'[g].left)] # 0
        /\ frame'[g].pc \in Referring =>
             /\ frame'[g].scan \in Scans /\ Started(frame'[g].scan)
             /\ g \notin torn' => msgToCode'[Head(frame'[g].left)] # NoCode
        /\ g \in torn' => frame'[g].pc \in Referring
        /\ frame'[g].pc = "idle" => frame'[g].left = << >>
  <2>4. ASSUME NEW g \in Frames \ {f}
        PROVE  Good(g)
    <3>1. /\ frame'[g] = frame[g]
          /\ g \in torn => g \in torn'
          /\ g \in torn' => frame[g].pc \in Referring
          /\ frame[g].pc \in Referring /\ g \notin torn' =>
               msgToCode'[Segment(g)] # NoCode
      BY <2>1, OtherFrames
    <3> QED BY <3>1 DEF Referred, Busy, Segment
  <2>5. Good(f)
    <3>1. CASE ArriveStep(f)
      BY <3>1, FramePlaces DEF ArriveStep, FrameStep, Referred
    <3>2. CASE FindStep(f)
      <4>1. CASE FrameStep(f, "next")
        BY <3>2, <4>1, FramePlaces DEF FindStep, FrameStep, Referred
      <4>2. CASE /\ FrameStep(f, "refer") /\ SameParcel(f)
                 /\ Segment(f) \in Number /\ msgToCode[Segment(f)] # NoCode
        BY <3>2, <4>2, FramePlaces DEF FindStep, FrameStep, Referred, SameParcel, Busy,
           Segment, Carried
      <4> QED BY <3>2, <4>1, <4>2 DEF FindStep
    <3>3. CASE ReferStep(f)
      <4>1. /\ Busy(f) /\ Segment(f) \in Number /\ carrier[Segment(f)] # 0
            /\ frame[f].pc = "refer" /\ frame'[f].pc = "slot"
            /\ frame'[f].left = frame[f].left /\ frame'[f].scan = carrier[Segment(f)]
            /\ f \notin torn /\ torn' = torn
        BY <3>3, FramePlaces DEF ReferStep, FrameStep, Referred
      <4>2. msgToCode'[Segment(f)] # NoCode
        BY <3>3, EntryMade
      <4>3. carrier[Segment(f)] \in Scans /\ Started(carrier[Segment(f)])
        BY <4>1, CarrierStarted
      <4> QED BY <4>1, <4>2, <4>3, FramePlaces DEF Busy, Segment
    <3>4. CASE LookStep(f) \/ TakeStep(f) \/ RowSlotStep(f) \/ PassOn(f) \/ CallStep(f)
      <4>1. /\ frame[f].pc \in Referring /\ frame'[f].pc \in Referring
            /\ SameParcel(f) /\ UNCHANGED <<torn, msgToCode>>
        BY <3>4, FramePlaces DEF LookStep, TakeStep, RowSlotStep, PassOn, CallStep,
           FrameStep, SameSlot
      <4> QED BY <4>1, FramePlaces DEF SameParcel, Referred, Busy, Segment
    <3>5. CASE ForgetStep(f)
      BY <3>5, FramePlaces DEF ForgetStep, FrameStep
    <3> QED BY <2>1, <3>1, <3>2, <3>3, <3>4, <3>5 DEF FrameMove
  <2>6. \A g \in Frames : Good(g)
    BY <2>4, <2>5
  <2> HIDE DEF Good
  <2>7. \A g \in torn' : g \in Frames /\ Good(g)
    BY <2>3, <2>6
  <2> QED BY <2>2, <2>3, <2>6, <2>7 DEF Good, Referred, Busy, Segment, Started
<1> QED BY <1>1, <1>2, FramesApart

\* What is left of a frame only gets shorter, but for one that arrives.
LEMMA LeftShrinks ==
  ASSUME Typed, TypeOK, Referred, NEW f \in Frames, FrameMove(f)
  PROVE  /\ frame'[f].pc # "idle"
         /\ \/ ArriveStep(f)
            \/ /\ frame'[f].left # << >> => Busy(f)
               /\ Len(frame'[f].left) \in Nat
               /\ Len(frame'[f].left) <= Len(frame[f].left)
<1> DEFINE old == Len(frame[f].left)
<1>1. /\ old \in Nat /\ 0 <= old
      /\ Busy(f) => Len(Tail(frame[f].left)) < old /\ Len(Tail(frame[f].left)) <= old
                    /\ Len(Tail(frame[f].left)) \in Nat
      /\ Len(<< >>) = 0
  <2>1. /\ old \in Nat
        /\ Busy(f) => Len(Tail(frame[f].left)) = old - 1 /\ Len(Tail(frame[f].left)) < old
    BY LeftIsSeq
  <2>2. Busy(f) => Len(Tail(frame[f].left)) \in Nat
    BY LeftIsSeq, LenProperties
  <2>3. Len(<< >>) = 0
    OBVIOUS
  <2> HIDE DEF old
  <2> QED BY <2>1, <2>2, <2>3
<1>0. frame[f].pc # "idle" \/ ArriveStep(f)
  BY DEF FrameMove, FindStep, ReferStep, LookStep, TakeStep, RowSlotStep, PassOn, CallStep,
     ForgetStep
<1>2. CASE ArriveStep(f)
  BY <1>2 DEF ArriveStep, FrameStep
<1>3. CASE FindStep(f)
  <2>1. Busy(f) /\ frame'[f].pc # "idle"
    BY <1>3 DEF FindStep, FrameStep
  <2>2. \/ frame'[f].left = << >> \/ frame'[f].left = Tail(frame[f].left)
        \/ frame'[f].left = frame[f].left
    BY <1>3 DEF FindStep, SameParcel
  <2>3. Len(frame'[f].left) \in Nat /\ Len(frame'[f].left) <= old
    <3>1. CASE frame'[f].left = << >>
      BY <1>1, <3>1
    <3>2. CASE frame'[f].left = Tail(frame[f].left)
      BY <1>1, <2>1, <3>2
    <3>3. CASE frame'[f].left = frame[f].left
      BY <1>1, <3>3
    <3> QED BY <2>2, <3>1, <3>2, <3>3
  <2> QED BY <2>1, <2>3
<1>4. CASE \/ ReferStep(f) \/ LookStep(f) \/ TakeStep(f) \/ RowSlotStep(f) \/ PassOn(f)
           \/ CallStep(f)
  <2>1. frame'[f].left = frame[f].left /\ frame'[f].pc # "idle"
    BY <1>4 DEF ReferStep, LookStep, TakeStep, RowSlotStep, PassOn, CallStep, SameSlot,
       SameParcel, FrameStep
  <2> QED BY <1>1, <2>1 DEF Busy
<1>5. CASE ForgetStep(f)
  <2>1. Busy(f) /\ frame'[f].pc # "idle" /\ frame'[f].left = Tail(frame[f].left)
    BY <1>5, FramePlaces DEF ForgetStep, FrameStep, Referred
  <2> QED BY <1>1, <2>1
<1> QED BY <1>2, <1>3, <1>4, <1>5 DEF FrameMove

\* Every step keeps the meetings of the tasks at work.
LEMMA MeetingStays ==
  ASSUME Typed, TypeOK, Referred, MapOfCarrier, Meeting, Next
  PROVE  Meeting' /\ met \subseteq met'
<1>1. CASE FramesKept
  BY <1>1 DEF FramesKept, Meeting, Busy
<1>2. CASE FrameSteps
  <2>1. PICK f \in Frames : FrameMove(f)
    BY <1>2 DEF FrameSteps
  <2>2. \A g \in Frames \ {f} : frame'[g] = frame[g]
    BY <2>1, OtherFrames
  <2>3. CASE ArriveStep(f)
    BY <2>2, <2>3 DEF ArriveStep, Meeting, Busy
  <2>4. CASE ~ArriveStep(f)
    <3>1. met' = met
      BY <2>1, <2>4 DEF FrameMove, FindStep, ReferStep, LookStep, TakeStep, RowSlotStep,
         PassOn, CallStep, ForgetStep
    <3>2. frame'[f].left # << >> => Busy(f)
      BY <2>1, <2>4, LeftShrinks
    <3> QED BY <2>2, <3>1, <3>2 DEF Meeting, Busy
  <2> QED BY <2>3, <2>4
<1> QED BY <1>1, <1>2, FramesApart
-----------------------------------------------------------------------------
(* A parcel is reported once.                                              *)

\* A report is made by a call of a task.
LEMMA OnlyCallsReport ==
  ASSUME Typed, TypeOK, Referred, MapOfCarrier, Next
  PROVE  UNCHANGED reports \/ \E f \in Frames : CallStep(f) /\ ParcelsKept
<1>1. CASE FramesKept
  BY <1>1 DEF FramesKept
<1>2. CASE FrameSteps
  BY <1>2 DEF FrameSteps, FrameMove, ArriveStep, FindStep, ReferStep, LookStep, TakeStep,
     RowSlotStep, PassOn, ForgetStep
<1> QED BY <1>1, <1>2, FramesApart

\* A report stays of a scan that has started, and of its code.
LEMMA ReportsKeep ==
  ASSUME Typed, TypeOK, Referred, MapOfCarrier, ReportsPlaced, Next,
         NEW r \in reports
  PROVE  /\ Started(r.scan)'
         /\ r.code \in Code => job'[r.scan].number = r.number /\ job'[r.scan].code = r.code
BY StartedStays DEF ReportsPlaced, KeepsParcel

\* Every step leaves a report with the task that made it, or its number forgotten.
LEMMA PlaceStays ==
  ASSUME Typed, TypeOK, Referred, MapOfCarrier, Carried, ReportsPlaced, Next,
         NEW r \in reports
  PROVE  StillInHand(r)' \/ Forgotten(r)'
<1> DEFINE f == r.by[1]
<1>1. /\ f \in Frames /\ r.by[2] \in Nat /\ r.number \in Number
      /\ r.scan \in Scans /\ Started(r.scan)
      /\ StillInHand(r) \/ Forgotten(r)
  BY DEF ReportsPlaced
<1>2. carrier'[r.number] = r.scan /\ msgToCode'[r.number] \in Code =>
        carrier[r.number] = r.scan /\ msgToCode[r.number] \in Code
  <2>1. ASSUME NEW i \in Scans, NEW c \in Code, NEW m \in Number, ScanStep(i, c, m)
        PROVE  carrier'[r.number] = r.scan /\ msgToCode'[r.number] \in Code =>
                 carrier[r.number] = r.scan /\ msgToCode[r.number] \in Code
    <3>1. ~Started(i)
      BY <2>1 DEF ScanStep, Started
    <3> QED BY <1>1, <2>1, <3>1 DEF ScanStep, TypeOK
  <2>2. CASE ~\E i \in Scans : \E c \in Code, m \in Number : ScanStep(i, c, m)
    BY <1>1, <2>2, CarrierStays, CodesStay
  <2> QED BY <2>1, <2>2
<1>3. CASE FramesKept
  <2>1. StillInHand(r) => StillInHand(r)'
    BY <1>3 DEF FramesKept, StillInHand, Segment
  <2>2. Forgotten(r) => Forgotten(r)'
    BY <1>2, <1>3 DEF FramesKept, Forgotten
  <2> QED BY <1>1, <2>1, <2>2
<1>4. CASE FrameSteps
  <2>1. PICK g \in Frames : FrameMove(g)
    BY <1>4 DEF FrameSteps
  <2>2. CASE g # f
    <3>1. frame'[f] = frame[f]
      BY <1>1, <2>1, <2>2, OtherFrames
    <3>2. StillInHand(r) => StillInHand(r)'
      BY <3>1 DEF StillInHand, Segment
    <3>3. Forgotten(r) => Forgotten(r)'
      BY <1>2, <3>1 DEF Forgotten
    <3> QED BY <1>1, <3>2, <3>3
  <2>3. CASE g = f /\ Forgotten(r)
    <3>1. frame[f].pc # "idle" /\ Len(frame[f].left) < r.by[2]
      BY <2>3 DEF Forgotten
    <3>2. /\ frame'[f].pc # "idle" /\ Len(frame'[f].left) \in Nat
          /\ Len(frame'[f].left) <= Len(frame[f].left)
      BY <2>1, <2>3, <3>1, LeftShrinks DEF ArriveStep
    <3>3. Len(frame[f].left) \in Nat
      BY <1>1, LeftIsSeq
    <3>4. Len(frame'[f].left) < r.by[2]
      <4>1. \A a, b, c \in Nat : a <= b /\ b < c => a < c
        OBVIOUS
      <4> QED BY <1>1, <3>1, <3>2, <3>3, <4>1
    <3> QED BY <1>2, <2>3, <3>2, <3>4 DEF Forgotten
  <2>4. CASE g = f /\ StillInHand(r)
    <3>1. /\ frame[f].pc \in {"small", "forget"} /\ Len(frame[f].left) = r.by[2]
          /\ Segment(f) = r.number
          /\ r.kind = "small" => frame[f].pc = "forget"
      BY <2>4 DEF StillInHand
    <3>2. CASE CallStep(f)
      <4>1. frame[f].pc = "small" /\ frame'[f].pc = "forget" /\ frame'[f].left = frame[f].left
        BY <3>1, <3>2 DEF CallStep, FrameStep, SameSlot, SameParcel
      <4> QED BY <3>1, <4>1, FramePlaces DEF StillInHand, Segment
    <3>3. CASE ForgetStep(f)
      <4>1. /\ frame'[f].pc = "next" /\ frame'[f].left = Tail(frame[f].left)
            /\ msgToCode' = [msgToCode EXCEPT ![r.number] = NoCode]
        BY <3>1, <3>3 DEF ForgetStep, FrameStep
      <4>2. Busy(f)
        BY <1>1, <3>1, FramePlaces DEF Referred
      <4>3. Len(Tail(frame[f].left)) < Len(frame[f].left)
        BY <1>1, <4>2, LeftIsSeq
      <4>4. msgToCode'[r.number] \notin Code
        BY <1>1, <4>1, NoneAssumption DEF TypeOK
      <4> QED BY <3>1, <4>1, <4>3, <4>4 DEF Forgotten
    <3>4. CallStep(f) \/ ForgetStep(f)
      BY <2>1, <2>4, <3>1 DEF FrameMove, ArriveStep, FindStep, ReferStep, LookStep,
         TakeStep, RowSlotStep, PassOn
    <3> QED BY <3>2, <3>3, <3>4
  <2> QED BY <1>1, <2>2, <2>3, <2>4
<1> QED BY <1>3, <1>4, FramesApart

\* What a call says of the parcel it reports.
LEMMA CallPlaced ==
  ASSUME Typed, TypeOK, Referred, Carried, NEW f \in Frames,
         frame[f].pc \in Referring, NEW kind, NEW package
  PROVE  LET r == Call(f, kind, package) IN
         /\ r.by = <<f, Len(frame[f].left)>> /\ r.by \in Frames \X Nat
         /\ r.number = Segment(f) /\ r.number \in Number
         /\ r.kind = kind /\ r.code = CodeOf(f) /\ r.slot = frame[f].slot
         /\ r.found = frame[f].scan
         /\ r.scan \in Scans /\ Started(r.scan)
         /\ r.code \in Code =>
              /\ f \notin torn /\ r.scan = carrier[r.number]
              /\ msgToCode[r.number] = r.code
              /\ job[r.scan].number = r.number /\ job[r.scan].code = r.code
<1> DEFINE m == Segment(f)
<1>1. m \in Number /\ carrier[m] # 0 /\ frame[f].scan \in Scans /\ Started(frame[f].scan)
  BY DEF Referred
<1>2. carrier[m] \in Scans /\ Started(carrier[m]) /\ job[carrier[m]].number = m
  BY <1>1, CarrierStarted
<1>3. Len(frame[f].left) \in Nat
  BY LeftIsSeq
<1>4. CodeOf(f) \in Code => f \notin torn /\ CodeOf(f) = msgToCode[m]
  BY NoneAssumption DEF CodeOf
<1>5. CodeOf(f) \in Code => job[carrier[m]].code = CodeOf(f)
  BY <1>1, <1>4 DEF Carried
<1> QED BY <1>1, <1>2, <1>3, <1>4, <1>5 DEF Call

\* Every step keeps the reports in their places.
LEMMA ReportsPlacedStays ==
  ASSUME Typed, TypeOK, Referred, MapOfCarrier, Carried, ReportsPlaced, Next
  PROVE  ReportsPlaced'
<1> DEFINE Placed(r) ==
      /\ r.by \in Frames \X Nat
      /\ r.number \in Number
      /\ r.scan \in Scans /\ Started(r.scan)'
      /\ r.code \in Code => job'[r.scan].number = r.number /\ job'[r.scan].code = r.code
      /\ StillInHand(r)' \/ Forgotten(r)'
<1>1. \A r \in reports : Placed(r)
  BY ReportsKeep, PlaceStays DEF ReportsPlaced
<1>2. ASSUME NEW f \in Frames, CallStep(f), ParcelsKept, NEW r \in reports' \ reports
      PROVE  Placed(r)
  <2>1. PICK kind, package :
          /\ \/ frame[f].pc = "mode1" /\ FrameStep(f, "small") /\ kind = "outbound"
             \/ frame[f].pc = "mode2" /\ FrameStep(f, "small") /\ kind = "build"
             \/ frame[f].pc = "small" /\ FrameStep(f, "forget") /\ kind = "small"
          /\ r = Call(f, kind, package)
    BY <1>2 DEF CallStep
  <2>2. frame[f].pc \in Referring /\ job' = job /\ frame'[f].left = frame[f].left
    BY <1>2, <2>1, FramePlaces DEF ParcelsKept, CallStep, SameSlot, SameParcel
  <2>3. /\ r.by = <<f, Len(frame[f].left)>> /\ r.by \in Frames \X Nat
        /\ r.number = Segment(f) /\ r.number \in Number /\ r.kind = kind
        /\ r.scan \in Scans /\ Started(r.scan)
        /\ r.code \in Code => job[r.scan].number = r.number /\ job[r.scan].code = r.code
    BY <2>1, <2>2, CallPlaced
  <2>4. StillInHand(r)'
    <3>1. \/ frame'[f].pc = "small" /\ kind # "small"
          \/ frame'[f].pc = "forget" /\ kind = "small"
      BY <2>1 DEF FrameStep
    <3> QED BY <2>2, <2>3, <3>1, FramePlaces DEF StillInHand, Segment
  <2> QED BY <2>2, <2>3, <2>4 DEF Started
<1> HIDE DEF Placed
<1>3. \A r \in reports' : Placed(r)
  BY <1>1, <1>2, OnlyCallsReport
<1> QED BY <1>3 DEF ReportsPlaced, Placed

\* No step reports a parcel that was reported, but the task of a message that came while
\* the first was at work.
LEMMA OnceStays ==
  ASSUME Typed, TypeOK, Referred, MapOfCarrier, Carried, Meeting, ReportsPlaced,
         ReportedOnce, Next
  PROVE  ReportedOnce'
<1> DEFINE Once(r1, r2) ==
      /\ r1.code \in Code /\ r2.code \in Code
      /\ r1.scan = r2.scan /\ r1.kind = r2.kind
      => \/ r1 = r2
         \/ <<r1.by[1], r2.by[1]>> \in met' \/ <<r2.by[1], r1.by[1]>> \in met'
<1>1. \A r1, r2 \in reports : Once(r1, r2)
  BY MeetingStays DEF ReportedOnce
<1>2. ASSUME NEW f \in Frames, CallStep(f), NEW r1 \in reports, NEW r2 \in reports' \ reports
      PROVE  Once(r1, r2)
  <2> SUFFICES ASSUME r1.code \in Code, r2.code \in Code,
                      r1.scan = r2.scan, r1.kind = r2.kind
               PROVE  <<r1.by[1], r2.by[1]>> \in met' \/ <<r2.by[1], r1.by[1]>> \in met'
    OBVIOUS
  <2>1. PICK kind, package :
          /\ \/ frame[f].pc = "mode1" /\ kind = "outbound"
             \/ frame[f].pc = "mode2" /\ kind = "build"
             \/ frame[f].pc = "small" /\ kind = "small"
          /\ r2 = Call(f, kind, package)
    BY <1>2 DEF CallStep
  <2>2. frame[f].pc \in Referring
    BY <2>1, FramePlaces
  <2>3. /\ r2.by = <<f, Len(frame[f].left)>> /\ r2.kind = kind
        /\ r2.scan = carrier[r2.number] /\ msgToCode[r2.number] = r2.code
        /\ job[r2.scan].number = r2.number
    BY <2>1, <2>2, CallPlaced
  <2>4. /\ r1.number = r2.number /\ r1.by[1] \in Frames
        /\ StillInHand(r1) \/ Forgotten(r1)
    BY <2>3 DEF ReportsPlaced
  <2>5. ~Forgotten(r1)
    BY <2>3, <2>4 DEF Forgotten
  <2>6. r1.by[1] # f
    BY <2>1, <2>3, <2>4, <2>5 DEF StillInHand
  <2>7. Busy(r1.by[1]) /\ Busy(f)
    BY <2>2, <2>4, <2>5 DEF StillInHand, Referred
  <2>8. <<r1.by[1], f>> \in met \/ <<f, r1.by[1]>> \in met
    BY <2>4, <2>6, <2>7 DEF Meeting
  <2>9. r2.by[1] = f
    BY <2>3
  <2> QED BY <2>8, <2>9, MeetingStays
<1>3. ASSUME NEW f \in Frames, CallStep(f), NEW r1 \in reports' \ reports,
             NEW r2 \in reports' \ reports
      PROVE  Once(r1, r2)
  <2>1. PICK r : reports' = reports \cup {r}
    BY <1>3 DEF CallStep
  <2> QED BY <2>1
<1>4. \A r1, r2 : Once(r1, r2) => Once(r2, r1)
  OBVIOUS
<1> HIDE DEF Once
<1>5. \A r1, r2 \in reports' : Once(r1, r2)
  <2>1. CASE UNCHANGED reports
    BY <1>1, <2>1
  <2>2. ASSUME NEW f \in Frames, CallStep(f)
        PROVE  \A r1, r2 \in reports' : Once(r1, r2)
    BY <1>1, <1>2, <1>3, <1>4, <2>2
  <2> QED BY <2>1, <2>2, OnlyCallsReport
<1> QED BY <1>5 DEF ReportedOnce, Once
-----------------------------------------------------------------------------
(* A task skips both branches only after a change of the mode.             *)

\* Only a failed test leads between the tests, or past them.
LEMMA OnlyTestsPass ==
  ASSUME Typed, TypeOK, Referred, MapOfCarrier, Next, NEW i \in Scans,
         job'[i].pc \in {"mode2", "skipped"}
  PROVE  job'[i].pc = job[i].pc \/ PassStep(i)
<1>1. CASE UNCHANGED job
  BY <1>1
<1>2. ASSUME NEW j \in Thread, NEW pc, JobStep(j, pc), pc \notin {"mode2", "skipped"}
      PROVE  job'[i].pc = job[i].pc
  BY <1>2 DEF JobStep, Thread
<1>3. ASSUME NEW j \in Scans,
             (\E c \in Code, m \in Number : ScanStep(j, c, m))
             \/ SupplyStep(j) \/ QueryStep(j) \/ WriteStep(j) \/ AskStep(j)
      PROVE  job'[i].pc = job[i].pc
  <2>1. JobStep(j, "supply") \/ JobStep(j, "query") \/ JobStep(j, "write")
        \/ JobStep(j, "mode1") \/ JobStep(j, "done")
    BY <1>3 DEF ScanStep, ScanJob, SupplyStep, QueryStep, WriteStep, AskStep,
       RowRead, RowWritten, Asks
  <2> QED BY <1>2, <2>1 DEF Thread
<1>4. ASSUME NEW j \in Thread,
             (j \in Scans /\ KnownStep(j)) \/ (j = Main /\ \E c \in Code : AnswerStep(c))
             \/ StationStep(j) \/ SendMapStep(j) \/ SendRowStep(j) \/ EraseStep(j)
      PROVE  job'[i].pc = job[i].pc
  <2>1. \/ JobStep(j, "queryId") \/ JobStep(j, "sendFound") \/ JobStep(j, "queryOrder")
        \/ JobStep(j, "idle") \/ JobStep(j, "done") \/ JobStep(j, "erase")
    BY <1>4 DEF KnownStep, SendsOwn, Sends, AnswerStep, Answered, StationStep,
       SendMapStep, SendRowStep, EraseStep, Finished
  <2> QED BY <1>2, <2>1
<1>5. ASSUME NEW j \in Scans, PassStep(j)
      PROVE  job'[i].pc = job[i].pc \/ PassStep(i)
  BY <1>5 DEF PassStep, JobStep, Thread
<1>6. UNCHANGED job \/ JobSteps
  BY EveryStep DEF OperatorStep, RecordStep, EndStep, FrameSteps, ParcelsKept
<1> QED BY <1>1, <1>3, <1>4, <1>5, <1>6 DEF JobSteps, Thread

\* Every step keeps the modes of a task among those chosen.
LEMMA ModeStays ==
  ASSUME Typed, TypeOK, Referred, MapOfCarrier, ModeChosen, Next
  PROVE  ModeChosen'
<1>1. mode \in 0 .. 2 /\ switches \in 0 .. MaxSwitches /\ MaxSwitches \in Nat
  BY ParcelAssumption DEF TypeOK
<1>2. ASSUME NEW m \in {1, 2}, SetOperateType(m)
      PROVE  ModeChosen'
  <2>1. m # mode /\ mode' = m /\ switches' = switches + 1 /\ UNCHANGED <<running, job>>
    BY <1>2 DEF SetOperateType
  <2>2. \A i \in Scans : job[i].pc \in {"mode2", "skipped"} => switches > 0
    BY DEF ModeChosen, Started
  <2>3. \A i \in Scans : Started(i)' <=> Started(i)
    BY <2>1 DEF Started
  <2> QED BY <1>1, <2>1, <2>2, <2>3 DEF ModeChosen
<1>3. CASE Run \/ Stop
  BY <1>3 DEF Run, Stop, ModeChosen, Started
<1>4. CASE UNCHANGED <<running, mode, switches>>
  <2>1. \A i \in Scans : Started(i)' => mode # 0
    BY OnlyScansStart DEF ModeChosen, ScanStep
  <2>2. ASSUME NEW i \in Scans, job'[i].pc = "mode2", mode # 2
        PROVE  switches > 1
    <3>1. job[i].pc = "mode2" \/ (job[i].pc = "mode1" /\ mode # 1)
      BY <2>2, OnlyTestsPass DEF PassStep, JobStep
    <3>2. mode # 0
      BY <3>1 DEF ModeChosen, Started
    <3> QED BY <1>1, <2>2, <3>1, <3>2 DEF ModeChosen
  <2>3. ASSUME NEW i \in Scans, job'[i].pc = "skipped"
        PROVE  switches > 1
    BY <2>3, OnlyTestsPass DEF PassStep, JobStep, ModeChosen
  <2>4. running => mode # 0
    BY DEF ModeChosen
  <2> QED BY <1>4, <2>1, <2>2, <2>3, <2>4 DEF ModeChosen
<1>5. ASSUME NEW s \in PdaSlots, NEW p \in Package, PdaScan(s, p)
      PROVE  UNCHANGED <<running, mode, switches>>
  BY <1>5 DEF PdaScan, lineVars
<1> QED BY <1>2, <1>3, <1>4, <1>5, PanelStep
-----------------------------------------------------------------------------
(* Every slot that is kept for a code was sent for it, or is being sent.    *)

\* A message that is sent stays sent.
LEMMA SlotsGrow ==
  ASSUME Typed, TypeOK, Referred, MapOfCarrier, Next
  PROVE  plc.slots \subseteq plc'.slots
<1>1. \/ UNCHANGED plc
      \/ \E i \in Scans : SupplyStep(i)
      \/ \E j \in Thread : SendMapStep(j) \/ SendRowStep(j)
  BY EveryStep DEF OperatorStep, JobSteps, RecordStep, EndStep, FrameSteps, ScanStep,
     QueryStep, WriteStep, PassStep, AskStep, KnownStep, AnswerStep, StationStep, EraseStep,
     ParcelsKept
<1> QED BY <1>1 DEF SupplyStep, Announces, SendMapStep, SendRowStep, Handed

\* What a thread sends is sent, and known from then on.
LEMMA SentIsKnown ==
  ASSUME NEW j \in Thread, SendMapStep(j) \/ SendRowStep(j)
  PROVE  \E p \in plc'.slots : p.code = job[j].code /\ p.slot = job[j].slot
<1>1. PICK number : Handed(j, number)
  BY DEF SendMapStep, SendRowStep
<1>2. Message(j, number) \in plc'.slots
  BY <1>1 DEF Handed
<1> QED BY <1>2 DEF Message

\* A thread that is sending goes on with the same slot until it is sent.
LEMMA SendingGoesOn ==
  ASSUME Typed, TypeOK, Referred, MapOfCarrier, Next, NEW j \in Thread, job[j].pc \in Sending
  PROVE  \/ job'[j].pc \in Sending /\ job'[j].code = job[j].code
              /\ job'[j].slot = job[j].slot
         \/ \E p \in plc'.slots : p.code = job[j].code /\ p.slot = job[j].slot
<1>1. CASE UNCHANGED job
  BY <1>1
<1>2. ASSUME NEW i \in Thread, NEW pc, JobStep(i, pc), job[i].pc \notin Sending
      PROVE  job'[j] = job[j]
  BY <1>2 DEF JobStep
<1>3. ASSUME NEW i \in Scans,
             (\E c \in Code, m \in Number : ScanStep(i, c, m))
             \/ SupplyStep(i) \/ QueryStep(i) \/ WriteStep(i) \/ PassStep(i)
             \/ AskStep(i) \/ KnownStep(i)
      PROVE  job'[j] = job[j]
  <2>1. job[i].pc \notin Sending /\ \E pc : JobStep(i, pc)
    BY <1>3 DEF ScanStep, ScanJob, SupplyStep, QueryStep, WriteStep, PassStep, AskStep,
       KnownStep, RowRead, RowWritten, Asks, SendsOwn, Sends, Sending
  <2> QED BY <1>2, <2>1 DEF Thread
<1>4. ASSUME NEW c \in Code, AnswerStep(c)
      PROVE  job'[j] = job[j]
  <2>1. job[Main].pc \notin Sending /\ \E pc : JobStep(Main, pc)
    BY <1>4 DEF AnswerStep, Answered, Sends, Sending
  <2> QED BY <1>2, <2>1 DEF Thread
<1>5. ASSUME NEW i \in Thread, StationStep(i)
      PROVE  job'[j].pc \in Sending /\ job'[j].code = job[j].code
             /\ job'[j].slot = job[j].slot
  BY <1>5 DEF StationStep, KeepsSlot, KeepsParcel, JobStep, Sending
<1>6. ASSUME NEW i \in Thread, SendMapStep(i) \/ SendRowStep(i)
      PROVE  \/ job'[j] = job[j]
             \/ \E p \in plc'.slots : p.code = job[j].code /\ p.slot = job[j].slot
  <2>1. CASE i = j
    BY <1>6, <2>1, SentIsKnown
  <2>2. CASE i # j
    <3>1. \E pc : JobStep(i, pc)
      BY <1>6 DEF SendMapStep, SendRowStep, Finished
    <3> QED BY <2>2, <3>1 DEF JobStep
  <2> QED BY <2>1, <2>2
<1>8. ASSUME NEW i \in Thread, EraseStep(i)
      PROVE  job'[j] = job[j]
  <2>1. job[i].pc \notin Sending /\ \E pc : JobStep(i, pc)
    BY <1>8 DEF EraseStep, Finished, Sending
  <2> QED BY <1>2, <2>1
<1>7. UNCHANGED job \/ JobSteps
  BY EveryStep DEF OperatorStep, RecordStep, EndStep, FrameSteps, ParcelsKept
<1> QED BY <1>1, <1>3, <1>4, <1>5, <1>6, <1>7, <1>8 DEF JobSteps

\* A slot that is known stays known.
LEMMA KnownStays ==
  ASSUME Typed, TypeOK, Referred, MapOfCarrier, Next, NEW c, NEW slot, Known(c, slot)
  PROVE  Known(c, slot)'
<1>1. DOMAIN job = Thread /\ DOMAIN job' = Thread
  BY JobTyped DEF Typed, Thread
<1>2. CASE \E p \in plc.slots : p.code = c /\ p.slot = slot
  BY <1>2, SlotsGrow DEF Known
<1>3. ASSUME NEW j \in DOMAIN job, job[j].pc \in Sending, job[j].code = c,
             job[j].slot = slot
      PROVE  Known(c, slot)'
  BY <1>1, <1>3, SendingGoesOn DEF Known
<1> QED BY <1>2, <1>3 DEF Known
\* Known after the step.
KnownNext(c, slot) ==
  \/ slot = -1
  \/ \E p \in plc'.slots : p.code = c /\ p.slot = slot
  \/ \E j \in DOMAIN job' :
       job'[j].pc \in Sending /\ job'[j].code = c /\ job'[j].slot = slot

\* And this for every slot.
LEMMA KnownGoesOn ==
  ASSUME Typed, TypeOK, Referred, MapOfCarrier, Next
  PROVE  \A c, slot : Known(c, slot) => KnownNext(c, slot)
BY KnownStays DEF Known, KnownNext

\* What a thread starts to send is known.
LEMMA SendsIsKnown ==
  ASSUME NEW j \in Thread, NEW c, NEW slot, Sends(j, c, slot)
  PROVE  KnownNext(c, slot)
BY Places DEF Sends, JobStep, KnownNext

\* The slots of the map are known after a step, ...
LEMMA MapSlotsKnown ==
  ASSUME Typed, TypeOK, Referred, MapOfCarrier, SlotsKnown, Next
  PROVE  \A c \in Code : codeToSlot'[c] # NoSlot => KnownNext(c, codeToSlot'[c])
<1>1. \A c \in Code : codeToSlot[c] # NoSlot => KnownNext(c, codeToSlot[c])
  BY KnownGoesOn DEF SlotsKnown
<1>2. CASE UNCHANGED codeToSlot
  BY <1>1, <1>2
<1>3. ASSUME NEW j \in Thread, NEW c \in Code, NEW slot, Sends(j, c, slot)
      PROVE  \A d \in Code : codeToSlot'[d] # NoSlot => KnownNext(d, codeToSlot'[d])
  <2>1. KnownNext(c, slot)
    BY <1>3, SendsIsKnown
  <2> QED BY <1>1, <1>3, <2>1 DEF Sends
<1>4. CASE FrameSteps
  BY <1>1, <1>4 DEF FrameSteps, ParcelsKept
<1>5. ASSUME NEW i \in Scans, KnownStep(i)
      PROVE  \E j \in Thread, c \in Code : \E slot : Sends(j, c, slot)
  BY <1>5 DEF KnownStep, SendsOwn, Typed, Started, Thread
<1>6. ASSUME NEW c \in Code, AnswerStep(c)
      PROVE  \E j \in Thread, d \in Code : \E slot : Sends(j, d, slot)
  BY <1>6 DEF AnswerStep, Answered, Thread
<1>7. \/ UNCHANGED codeToSlot \/ (\E i \in Scans : KnownStep(i))
      \/ (\E c \in Code : AnswerStep(c)) \/ FrameSteps
  BY EveryStep DEF OperatorStep, JobSteps, RecordStep, EndStep, ScanStep, SupplyStep,
     QueryStep, WriteStep, PassStep, AskStep, Asks, StationStep, SendMapStep,
     SendRowStep, EraseStep, mapVars
<1> QED BY <1>2, <1>3, <1>4, <1>5, <1>6, <1>7

\* ... those of the rows, ...
LEMMA RowSlotsKnown ==
  ASSUME Typed, TypeOK, Referred, MapOfCarrier, SlotsKnown, Next
  PROVE  \A c \in Code : db'[c] # NoRow => KnownNext(c, db'[c].slot)
<1>1. \A c \in Code : db[c] # NoRow => KnownNext(c, db[c].slot)
  BY KnownGoesOn DEF SlotsKnown
<1>2. CASE UNCHANGED db
  BY <1>1, <1>2
<1>3. ASSUME NEW i \in Scans, WriteStep(i)
      PROVE  \A c \in Code : db'[c] # NoRow => KnownNext(c, db'[c].slot)
  <2> DEFINE row == RowOf(job[i])
             d == job[i].code
  <2>1. /\ \A c \in Code \ {d} : db'[c] = db[c]
        /\ UNCHANGED db \/ db'[d] = row
        /\ row.slot = job[i].slot
    BY <1>3 DEF WriteStep, RowWritten
  <2>2. KnownNext(d, job[i].slot)
    <3>1. Known(d, job[i].slot)
      BY <1>3 DEF WriteStep, SlotsKnown, Typed, Thread
    <3> QED BY <3>1, KnownGoesOn
  <2> HIDE DEF row, d
  <2> QED BY <1>1, <2>1, <2>2
<1>4. ASSUME NEW d \in Code, NEW k, RecordStep(d, k)
      PROVE  \A c \in Code : db'[c] # NoRow => KnownNext(c, db'[c].slot)
  <2> DEFINE slot == slotWrites[d][k]
  <2>1. /\ \A c \in Code \ {d} : db'[c] = db[c]
        /\ UNCHANGED db \/ (db'[d] # NoRow /\ db'[d].slot = slot)
    BY <1>4 DEF RecordStep, SlotWritten
  <2>2. KnownNext(d, slot)
    BY <1>4, KnownGoesOn DEF RecordStep, SlotsKnown
  <2> HIDE DEF slot
  <2> QED BY <1>1, <2>1, <2>2
<1>5. \/ UNCHANGED db \/ (\E i \in Scans : WriteStep(i))
      \/ \E c \in Code : \E k : RecordStep(c, k)
  BY EveryStep DEF OperatorStep, JobSteps, EndStep, FrameSteps, ScanStep, SupplyStep,
     QueryStep, PassStep, AskStep, KnownStep, AnswerStep, StationStep, SendMapStep,
     SendRowStep, EraseStep, ParcelsKept
<1> QED BY <1>2, <1>3, <1>4, <1>5

\* ... and those that wait to be written.
LEMMA LeftSlotsKnown ==
  ASSUME Typed, TypeOK, Referred, MapOfCarrier, SlotsKnown, Next
  PROVE  \A c \in Code : \A k \in DOMAIN slotWrites'[c] : KnownNext(c, slotWrites'[c][k])
<1>1. \A c \in Code : \A k \in DOMAIN slotWrites[c] : KnownNext(c, slotWrites[c][k])
  BY KnownGoesOn DEF SlotsKnown
<1>2. CASE UNCHANGED slotWrites
  BY <1>1, <1>2
<1>3. ASSUME NEW j \in Thread, EraseStep(j) \/ SendRowStep(j)
      PROVE  \A c \in Code : \A k \in DOMAIN slotWrites'[c] :
               KnownNext(c, slotWrites'[c][k])
  <2> DEFINE d == job[j].code
             more == Append(slotWrites[d], job[j].slot)
  <2>1. KnownNext(d, job[j].slot)
    <3>1. Known(d, job[j].slot)
      BY <1>3 DEF EraseStep, SendRowStep, SlotsKnown, Typed, Thread
    <3> QED BY <3>1, KnownGoesOn
  <2>2. d \in Code /\ slotWrites \in [Code -> Seq(Int)] /\ job[j].slot \in Int
    BY <1>3 DEF EraseStep, SendRowStep, Typed, Thread, Job
  <2>3. UNCHANGED slotWrites \/ slotWrites' = [slotWrites EXCEPT ![d] = more]
    BY <1>3 DEF EraseStep, SendRowStep, Finished
  <2>4. \A k \in DOMAIN more : \/ k \in DOMAIN slotWrites[d] /\ more[k] = slotWrites[d][k]
                               \/ more[k] = job[j].slot
    <3> DEFINE s == slotWrites[d]
               n == Len(s)
    <3>1. s \in Seq(Int)
      BY <2>2
    <3>2. DOMAIN s = 1 .. n /\ n \in Nat
      BY <3>1, LenProperties
    <3> HIDE DEF s, d
    <3>3. /\ DOMAIN more = 1 .. (n + 1)
          /\ \A k \in 1 .. n : more[k] = s[k]
          /\ more[n + 1] = job[j].slot
      BY <2>2, <3>1, AppendProperties DEF s
    <3> HIDE DEF more, n
    <3>4. \A k \in 1 .. (n + 1) : k \in 1 .. n \/ k = n + 1
      BY <3>2
    <3> QED BY <3>2, <3>3, <3>4 DEF s
  <2> HIDE DEF more
  <2>5. CASE slotWrites' = [slotWrites EXCEPT ![d] = more]
    <3>1. slotWrites'[d] = more /\ \A c \in Code \ {d} : slotWrites'[c] = slotWrites[c]
      BY <2>2, <2>5
    <3>2. \A k \in DOMAIN more : KnownNext(d, more[k])
      BY <1>1, <2>1, <2>2, <2>4
    <3> HIDE DEF d
    <3> QED BY <1>1, <3>1, <3>2
  <2> QED BY <1>2, <2>3, <2>5
<1>4. ASSUME NEW d \in Code, NEW n, RecordStep(d, n)
      PROVE  \A c \in Code : \A k \in DOMAIN slotWrites'[c] :
               KnownNext(c, slotWrites'[c][k])
  <2> DEFINE rest == RemoveAt(slotWrites[d], n)
  <2>1. /\ slotWrites' = [slotWrites EXCEPT ![d] = rest]
        /\ \A l \in DOMAIN rest : \E k \in DOMAIN slotWrites[d] :
             rest[l] = slotWrites[d][k]
    BY <1>4 DEF RecordStep, SlotWritten
  <2>2. slotWrites \in [Code -> Seq(Int)]
    BY DEF Typed
  <2> HIDE DEF rest
  <2>3. slotWrites'[d] = rest /\ \A c \in Code \ {d} : slotWrites'[c] = slotWrites[c]
    BY <2>1, <2>2
  <2>4. \A l \in DOMAIN rest : KnownNext(d, rest[l])
    BY <1>1, <2>1
  <2> QED BY <1>1, <2>3, <2>4
<1>5. \/ UNCHANGED slotWrites
      \/ (\E j \in Thread : EraseStep(j) \/ SendRowStep(j))
      \/ \E c \in Code : \E k : RecordStep(c, k)
  BY EveryStep DEF OperatorStep, JobSteps, EndStep, FrameSteps, ScanStep, SupplyStep,
     QueryStep, WriteStep, PassStep, AskStep, KnownStep, AnswerStep, StationStep,
     SendMapStep, ParcelsKept, sendVars
<1> QED BY <1>2, <1>3, <1>4, <1>5

\* A thread at work has a slot that is known.
LEMMA TaskSlotsKnown ==
  ASSUME Typed, TypeOK, Referred, MapOfCarrier, SlotsKnown, Next, NEW i \in Thread,
         job'[i].pc \notin {"idle", "done", "skipped"}
  PROVE  KnownNext(job'[i].code, job'[i].slot)
<1>0. DOMAIN job = Thread
  BY DEF Typed, Thread
<1>1. job[i].pc \notin {"idle", "done", "skipped"} => KnownNext(job[i].code, job[i].slot)
  BY <1>0, KnownGoesOn DEF SlotsKnown
<1>2. CASE job'[i] = job[i]
  BY <1>1, <1>2
<1>3. CASE job[i].pc \notin {"idle", "done", "skipped"} /\ KeepsSlot(i)
  BY <1>1, <1>3 DEF KeepsSlot, KeepsParcel
<1>4. CASE job'[i].slot = -1
  BY <1>4 DEF KnownNext
<1>5. ASSUME NEW j \in Thread, j # i, NEW pc, JobStep(j, pc)
      PROVE  job'[i] = job[i]
  BY <1>5 DEF JobStep
<1>6. ASSUME NEW j \in Scans, NEW c \in Code, NEW m \in Number, ScanStep(j, c, m)
      PROVE  job'[i] = job[i] \/ job'[i].slot = -1
  BY <1>5, <1>6 DEF ScanStep, ScanJob, Thread
<1>7. ASSUME NEW j \in Scans, QueryStep(j)
      PROVE  KnownNext(job'[i].code, job'[i].slot)
  <2>1. CASE j # i
    BY <1>2, <1>5, <1>7, <2>1 DEF QueryStep, RowRead, Thread
  <2>2. CASE j = i /\ job'[i].slot # -1
    <3> DEFINE c == job[i].code
    <3>1. db[c] # NoRow /\ job'[i].slot = db[c].slot /\ job'[i].code = c
      BY <1>7, <2>2 DEF QueryStep, RowRead, KeepsParcel
    <3>2. c \in Code
      BY <1>7, <2>2 DEF QueryStep, Typed, Started
    <3>3. KnownNext(c, db[c].slot)
      BY <3>1, <3>2, KnownGoesOn DEF SlotsKnown
    <3> QED BY <3>1, <3>3
  <2> QED BY <1>4, <2>1, <2>2
<1>8. ASSUME NEW j \in Thread,
             \/ /\ j \in Scans
                /\ SupplyStep(j) \/ WriteStep(j) \/ PassStep(j) \/ AskStep(j) \/ KnownStep(j)
             \/ StationStep(j) \/ SendMapStep(j)
      PROVE  KnownNext(job'[i].code, job'[i].slot)
  <2>1. /\ job[j].pc \notin {"idle", "done", "skipped"} /\ KeepsSlot(j)
        /\ \E pc : JobStep(j, pc)
    BY <1>8 DEF SupplyStep, WriteStep, PassStep, AskStep, KnownStep, RowWritten, Asks,
       SendsOwn, Sends, StationStep, SendMapStep
  <2> QED BY <1>2, <1>3, <1>5, <2>1
<1>9. ASSUME NEW c \in Code, AnswerStep(c)
      PROVE  KnownNext(job'[i].code, job'[i].slot)
  <2>1. PICK slot \in Int : Sends(Main, c, slot)
    BY <1>9 DEF AnswerStep, Answered
  <2>2. KnownNext(c, slot) /\ job'[Main].code = c /\ job'[Main].slot = slot
    BY <2>1, SendsIsKnown DEF Sends, Thread
  <2>3. Main \in Thread /\ \E pc : JobStep(Main, pc)
    BY <2>1 DEF Sends, Thread
  <2> QED BY <1>2, <1>5, <2>2, <2>3
<1>10. ASSUME NEW j \in Thread, SendRowStep(j) \/ EraseStep(j)
       PROVE  job'[i] = job[i]
  <2>1. JobStep(j, "idle") \/ JobStep(j, "done")
    BY <1>10 DEF SendRowStep, EraseStep, Finished
  <2>2. j # i
    BY <2>1 DEF JobStep
  <2> QED BY <1>5, <2>1, <2>2
<1>11. UNCHANGED job \/ JobSteps
  BY EveryStep DEF OperatorStep, RecordStep, EndStep, FrameSteps, ParcelsKept
<1> QED BY <1>2, <1>4, <1>6, <1>7, <1>8, <1>9, <1>10, <1>11 DEF JobSteps, Thread

\* Every step keeps the slots known.
LEMMA SlotsStay ==
  ASSUME Typed, TypeOK, Referred, MapOfCarrier, SlotsKnown, Next
  PROVE  SlotsKnown'
<1>1. \A c \in Code : codeToSlot'[c] # NoSlot => KnownNext(c, codeToSlot'[c])
  BY MapSlotsKnown
<1>2. \A c \in Code : db'[c] # NoRow => KnownNext(c, db'[c].slot)
  BY RowSlotsKnown
<1>3. \A c \in Code : \A k \in DOMAIN slotWrites'[c] : KnownNext(c, slotWrites'[c][k])
  BY LeftSlotsKnown
<1>4. \A i \in Thread : job'[i].pc \in {"idle", "done", "skipped"}
                         \/ KnownNext(job'[i].code, job'[i].slot)
  BY TaskSlotsKnown
<1>5. DOMAIN job' = Thread
  BY JobTyped
<1> QED BY <1>1, <1>2, <1>3, <1>4, <1>5 DEF SlotsKnown, Known, KnownNext

\* An entry that is still that of a scan was not changed.
LEMMA EntryKept ==
  ASSUME Typed, TypeOK, Referred, MapOfCarrier, Carried, Next,
         NEW m \in Number, NEW s \in Scans, Started(s),
         carrier'[m] = s, msgToCode'[m] \in Code
  PROVE  carrier[m] = s /\ msgToCode'[m] = msgToCode[m]
<1>1. ASSUME NEW i \in Scans, NEW c \in Code, NEW n \in Number, ScanStep(i, c, n)
      PROVE  carrier[m] = s /\ msgToCode'[m] = msgToCode[m]
  <2>1. i # s
    BY <1>1 DEF ScanStep, Started
  <2> QED BY <1>1, <2>1 DEF ScanStep, TypeOK
<1>2. CASE ~\E i \in Scans : \E c \in Code, m1 \in Number : ScanStep(i, c, m1)
  BY <1>2, CarrierStays, CodesStay
<1> QED BY <1>1, <1>2

\* The task of a frame beyond the search for the slot got there with the number and the
\* scan it has.
LEMMA FrameHasParcel ==
  ASSUME Typed, TypeOK, Referred, MapOfCarrier, Next, NEW f \in Frames, f \notin torn',
         frame'[f].pc \in {"slotErase", "mode1", "mode2", "small"}
  PROVE  /\ frame[f].pc \in Referring /\ SameParcel(f) /\ f \notin torn
         /\ \/ /\ frame[f].pc \in {"slotErase", "mode1", "mode2", "small"}
               /\ frame'[f].slot = frame[f].slot
            \/ LookStep(f) \/ RowSlotStep(f)
<1>1. CASE FramesKept
  BY <1>1, FramePlaces DEF FramesKept, SameParcel
<1>2. CASE FrameSteps
  <2>1. PICK g \in Frames : FrameMove(g)
    BY <1>2 DEF FrameSteps
  <2>2. CASE g # f
    BY <2>1, <2>2, OtherFrames, FramePlaces DEF SameParcel
  <2>3. CASE g = f
    <3>1. ~ArriveStep(f) /\ ~FindStep(f) /\ ~ReferStep(f) /\ ~ForgetStep(f)
      BY DEF ArriveStep, FindStep, ReferStep, ForgetStep, FrameStep
    <3>2. LookStep(f) \/ TakeStep(f) \/ RowSlotStep(f) \/ PassOn(f) \/ CallStep(f)
      BY <2>1, <2>3, <3>1 DEF FrameMove
    <3> QED BY <3>2, FramePlaces DEF LookStep, TakeStep, RowSlotStep, PassOn, CallStep,
               SameSlot
  <2> QED BY <2>2, <2>3
<1> QED BY <1>1, <1>2, FramesApart

\* Every step keeps the slots of the tasks of the frames known.
LEMMA FrameSlotsStay ==
  ASSUME Typed, TypeOK, Referred, MapOfCarrier, Carried, SlotsKnown, FrameSlotsKnown, Next
  PROVE  FrameSlotsKnown'
<1>1. ASSUME NEW f \in Frames, f \notin torn',
             frame'[f].pc \in {"slotErase", "mode1", "mode2", "small"},
             carrier'[Head(frame'[f].left)] = frame'[f].scan,
             msgToCode'[Head(frame'[f].left)] \in Code
      PROVE  KnownNext(msgToCode'[Head(frame'[f].left)], frame'[f].slot)
  <2> DEFINE m == Segment(f)
             c == msgToCode[m]
  <2>1. /\ frame[f].pc \in Referring /\ f \notin torn
        /\ Head(frame'[f].left) = m /\ frame'[f].scan = frame[f].scan
    BY <1>1, FrameHasParcel DEF SameParcel, Segment
  <2>2. m \in Number /\ frame[f].scan \in Scans /\ Started(frame[f].scan)
    BY <2>1 DEF Referred
  <2>3. carrier[m] = frame[f].scan /\ msgToCode'[m] = c
    BY <1>1, <2>1, <2>2, EntryKept
  <2>4. c \in Code
    BY <1>1, <2>1, <2>3
  <2>5. CodeOf(f) = c
    BY <2>1 DEF CodeOf
  <2>6. KnownNext(c, frame'[f].slot)
    <3>1. CASE /\ frame[f].pc \in {"slotErase", "mode1", "mode2", "small"}
               /\ frame'[f].slot = frame[f].slot
      <4>1. Known(c, frame[f].slot)
        BY <2>1, <2>3, <2>4, <3>1 DEF FrameSlotsKnown, FrameSlotKnown
      <4> QED BY <3>1, <4>1, KnownGoesOn
    <3>2. CASE LookStep(f)
      <4>1. codeToSlot[c] # NoSlot /\ frame'[f].slot = codeToSlot[c]
        BY <1>1, <2>5, <3>2 DEF LookStep, FrameStep
      <4>2. Known(c, codeToSlot[c])
        BY <2>4, <4>1 DEF SlotsKnown
      <4> QED BY <4>1, <4>2, KnownGoesOn
    <3>3. CASE RowSlotStep(f) /\ frame'[f].slot = -1
      BY <3>3 DEF KnownNext
    <3>4. CASE RowSlotStep(f) /\ frame'[f].slot # -1
      <4>1. db[c] # NoRow /\ frame'[f].slot = db[c].slot
        BY <2>5, <3>4 DEF RowSlotStep
      <4>2. Known(c, db[c].slot)
        BY <2>4, <4>1 DEF SlotsKnown
      <4> QED BY <4>1, <4>2, KnownGoesOn
    <3> QED BY <1>1, <3>1, <3>2, <3>3, <3>4, FrameHasParcel
  <2> QED BY <2>1, <2>3, <2>6
<1> QED BY <1>1 DEF FrameSlotsKnown, FrameSlotKnown, Segment, Known, KnownNext

\* Every step keeps the reported slots among those that were sent.
LEMMA WasSentStays ==
  ASSUME Typed, TypeOK, Referred, MapOfCarrier, Carried, SlotsKnown, FrameSlotsKnown,
         ReportedWasSent, Next
  PROVE  ReportedWasSent'
<1>1. \A r \in reports : r.code \in Code /\ r.scan = r.found => KnownNext(r.code, r.slot)
  BY KnownGoesOn DEF ReportedWasSent
<1>2. ASSUME NEW f \in Frames, CallStep(f), NEW r \in reports' \ reports,
             r.code \in Code, r.scan = r.found
      PROVE  KnownNext(r.code, r.slot)
  <2>1. PICK kind, package : /\ frame[f].pc \in {"mode1", "mode2", "small"}
                             /\ r = Call(f, kind, package)
    BY <1>2 DEF CallStep
  <2>2. frame[f].pc \in Referring
    BY <2>1, FramePlaces
  <2>3. /\ r.number = Segment(f) /\ r.found = frame[f].scan /\ r.slot = frame[f].slot
        /\ f \notin torn /\ r.scan = carrier[r.number] /\ msgToCode[r.number] = r.code
    BY <1>2, <2>1, <2>2, CallPlaced
  <2>4. Known(r.code, r.slot)
    BY <1>2, <2>1, <2>3 DEF FrameSlotsKnown, FrameSlotKnown
  <2> QED BY <2>4, KnownGoesOn
<1>3. \A r \in reports' : r.code \in Code /\ r.scan = r.found => KnownNext(r.code, r.slot)
  BY <1>1, <1>2, OnlyCallsReport
<1> QED BY <1>3 DEF ReportedWasSent, Known, KnownNext
-----------------------------------------------------------------------------
(* The number in the map of a code in work is that of its parcel.          *)

\* Work on a code begins with a scan of it.
LEMMA WorkStays ==
  ASSUME Typed, TypeOK, Referred, MapOfCarrier, Next, NEW c \in Code, InWork(c)'
  PROVE  InWork(c) \/ \E i \in Scans : \E m \in Number : ScanStep(i, c, m)
<1> DEFINE Scanned == \E i \in Scans : \E m \in Number : ScanStep(i, c, m)
<1>1. DOMAIN job = Thread /\ DOMAIN job' = Thread
  BY JobTyped DEF Typed, Thread
<1>2. ASSUME NEW j \in Thread, job[j].pc \in Working, job[j].code = c
      PROVE  InWork(c)
  BY <1>1, <1>2 DEF InWork
<1>3. ASSUME NEW j \in Thread, NEW pc, JobStep(j, pc),
             job'[j].code = job[j].code, job[j].pc \in Working,
             NEW k \in Thread, job'[k].code = c, job'[k].pc \in Working
      PROVE  InWork(c)
  BY <1>2, <1>3 DEF JobStep
<1>4. ASSUME NEW k \in Thread, job'[k].code = c, job'[k].pc \in Working
      PROVE  InWork(c) \/ Scanned
  <2>1. CASE job'[k] = job[k]
    BY <1>2, <1>4, <2>1
  <2>2. ASSUME NEW i \in Scans, NEW d \in Code, NEW m \in Number, ScanStep(i, d, m)
        PROVE  InWork(c) \/ Scanned
    <3>1. CASE k = i
      BY <1>4, <2>2, <3>1 DEF ScanStep, ScanJob
    <3>2. CASE k # i
      BY <2>1, <2>2, <3>2 DEF ScanStep, ScanJob, JobStep
    <3> QED BY <3>1, <3>2
  <2>3. ASSUME NEW i \in Scans,
               SupplyStep(i) \/ QueryStep(i) \/ WriteStep(i) \/ PassStep(i)
               \/ AskStep(i) \/ KnownStep(i)
        PROVE  InWork(c)
    <3>1. /\ job[i].pc \in Working /\ job'[i].code = job[i].code /\ i \in Thread
          /\ \E pc : JobStep(i, pc)
      BY <2>3, Places DEF SupplyStep, QueryStep, WriteStep, PassStep, AskStep, KnownStep,
         RowRead, RowWritten, Asks, SendsOwn, Sends, KeepsSlot, KeepsParcel, Thread
    <3> QED BY <1>3, <1>4, <3>1
  <2>4. ASSUME NEW d \in Code, AnswerStep(d)
        PROVE  InWork(c)
    <3>1. /\ asked[d] > 0 /\ job'[Main].code = d
          /\ \E pc : JobStep(Main, pc)
      BY <2>4 DEF AnswerStep, Answered, Sends
    <3>2. CASE k = Main
      BY <1>4, <3>1, <3>2 DEF InWork
    <3>3. CASE k # Main
      BY <1>2, <1>4, <3>1, <3>3 DEF JobStep
    <3> QED BY <3>2, <3>3
  <2>5. ASSUME NEW j \in Thread, StationStep(j) \/ SendMapStep(j)
        PROVE  InWork(c)
    <3>1. /\ job[j].pc \in Working /\ job'[j].code = job[j].code
          /\ \E pc : JobStep(j, pc)
      BY <2>5, Places DEF StationStep, SendMapStep, KeepsSlot, KeepsParcel
    <3> QED BY <1>3, <1>4, <3>1
  <2>6. ASSUME NEW j \in Thread, EraseStep(j) \/ SendRowStep(j)
        PROVE  InWork(c)
    <3>1. \E pc \in {"idle", "done"} : JobStep(j, pc)
      BY <2>6 DEF EraseStep, SendRowStep, Finished
    <3>2. k # j
      BY <1>4, <3>1, Places DEF JobStep
    <3> QED BY <1>2, <1>4, <3>1, <3>2 DEF JobStep
  <2>7. UNCHANGED job \/ JobSteps
    BY EveryStep DEF OperatorStep, RecordStep, EndStep, FrameSteps, ParcelsKept
  <2> HIDE DEF Scanned
  <2> QED BY <2>1, <2>2, <2>3, <2>4, <2>5, <2>6, <2>7 DEF JobSteps
<1>5. ASSUME asked'[c] > 0
      PROVE  InWork(c)
  <2>1. asked \in [Code -> 0 .. MaxScans]
    BY DEF TypeOK
  <2>2. CASE UNCHANGED asked
    BY <1>5, <2>2 DEF InWork
  <2>3. ASSUME NEW d \in Code, AnswerStep(d) \/ EndStep(d)
        PROVE  asked[c] > 0
    <3>1. asked' = [asked EXCEPT ![d] = @ - 1]
      BY <2>3 DEF AnswerStep, EndStep, Answered
    <3> QED BY <1>5, <2>1, <3>1
  <2>4. ASSUME NEW i \in Scans, AskStep(i)
        PROVE  asked[c] > 0 \/ (job[i].code = c /\ job[i].pc \in Working)
    <3>1. asked' = [asked EXCEPT ![job[i].code] = @ + 1] /\ job[i].pc \in Working
      BY <2>4, Places DEF AskStep, Asks
    <3> QED BY <1>5, <2>1, <3>1
  <2>5. \/ UNCHANGED asked
        \/ \E d \in Code : AnswerStep(d) \/ EndStep(d)
        \/ \E i \in Scans : AskStep(i)
    BY EveryStep DEF OperatorStep, JobSteps, RecordStep, FrameSteps, ScanStep, SupplyStep,
       QueryStep, WriteStep, PassStep, KnownStep, SendsOwn, StationStep, SendMapStep,
       SendRowStep, EraseStep, ParcelsKept
  <2> QED BY <1>2, <2>2, <2>3, <2>4, <2>5 DEF InWork, Thread
<1>6. ASSUME slotWrites'[c] # << >>
      PROVE  InWork(c)
  <2>1. slotWrites \in [Code -> Seq(Int)]
    BY DEF Typed
  <2>2. CASE UNCHANGED slotWrites
    BY <1>6, <2>2 DEF InWork
  <2>3. ASSUME NEW j \in Thread, EraseStep(j) \/ SendRowStep(j)
        PROVE  slotWrites[c] # << >> \/ (job[j].code = c /\ job[j].pc \in Working)
    BY <1>6, <2>1, <2>3, Places DEF EraseStep, SendRowStep, Finished
  <2>4. ASSUME NEW d \in Code, NEW k, RecordStep(d, k)
        PROVE  slotWrites[c] # << >>
    BY <1>6, <2>1, <2>4 DEF RecordStep, SlotWritten
  <2>5. \/ UNCHANGED slotWrites
        \/ (\E j \in Thread : EraseStep(j) \/ SendRowStep(j))
        \/ \E d \in Code : \E k : RecordStep(d, k)
    BY EveryStep DEF OperatorStep, JobSteps, EndStep, FrameSteps, ScanStep, SupplyStep,
       QueryStep, WriteStep, PassStep, AskStep, KnownStep, AnswerStep, StationStep,
       SendMapStep, ParcelsKept, sendVars
  <2> QED BY <1>2, <2>2, <2>3, <2>4, <2>5 DEF InWork
<1>7. \/ \E k \in Thread : job'[k].code = c /\ job'[k].pc \in Working
      \/ asked'[c] > 0
      \/ slotWrites'[c] # << >>
  BY <1>1 DEF InWork
<1> QED BY <1>4, <1>5, <1>6, <1>7

\* The map loses a number, or a scan gives it one.
LEMMA NumberStays ==
  ASSUME Typed, TypeOK, Referred, MapOfCarrier, Next, NEW c \in Code
  PROVE  \/ codeToMsg'[c] = codeToMsg[c]
         \/ codeToMsg'[c] = NoNumber
         \/ \E i \in Scans : \E m \in Number : ScanStep(i, c, m)
<1>1. codeToMsg \in [Code -> Number \cup {NoNumber}]
  BY DEF TypeOK
<1>2. ASSUME NEW i \in Scans, NEW d \in Code, NEW m \in Number, ScanStep(i, d, m), d # c
      PROVE  codeToMsg'[c] = codeToMsg[c]
  BY <1>1, <1>2 DEF ScanStep
<1>3. ASSUME NEW j \in Thread, EraseStep(j)
      PROVE  codeToMsg'[c] = codeToMsg[c] \/ codeToMsg'[c] = NoNumber
  BY <1>1, <1>3 DEF EraseStep
<1>4. \/ UNCHANGED codeToMsg
      \/ (\E i \in Scans : \E d \in Code, m \in Number : ScanStep(i, d, m))
      \/ \E j \in Thread : EraseStep(j)
  BY EveryStep DEF OperatorStep, JobSteps, RecordStep, EndStep, FrameSteps, SupplyStep,
     QueryStep, WriteStep, PassStep, AskStep, KnownStep, AnswerStep, StationStep,
     SendMapStep, SendRowStep, ParcelsKept, mapVars
<1> QED BY <1>2, <1>3, <1>4

\* A number that is carried is carried by a scan.
LEMMA CarrierIsScan ==
  ASSUME TypeOK, NEW m \in Number, carrier[m] # 0
  PROVE  carrier[m] \in Scans
BY ParcelAssumption DEF TypeOK, Scans

\* A message is new when a thread has just sent it.
LEMMA NewMessages ==
  ASSUME Typed, TypeOK, Referred, MapOfCarrier, Next, NEW p \in plc'.slots
  PROVE  \/ p \in plc.slots
         \/ \E j \in Thread :
              \/ SendMapStep(j) /\ p = Message(j, FoundNumber(j))
              \/ SendRowStep(j) /\ \E number : p = Message(j, number)
<1>1. ASSUME NEW i \in Scans, SupplyStep(i)
      PROVE  plc'.slots = plc.slots
  BY <1>1 DEF SupplyStep, Announces
<1>2. ASSUME NEW j \in Thread, SendMapStep(j)
      PROVE  p \in plc.slots \/ p = Message(j, FoundNumber(j))
  BY <1>2 DEF SendMapStep, Handed
<1>3. ASSUME NEW j \in Thread, SendRowStep(j)
      PROVE  p \in plc.slots \/ \E number : p = Message(j, number)
  BY <1>3 DEF SendRowStep, Handed
<1>4. \/ UNCHANGED plc
      \/ \E i \in Scans : SupplyStep(i)
      \/ \E j \in Thread : SendMapStep(j) \/ SendRowStep(j)
  BY EveryStep DEF OperatorStep, JobSteps, RecordStep, EndStep, FrameSteps, ScanStep,
     QueryStep, WriteStep, PassStep, AskStep, KnownStep, AnswerStep, StationStep, EraseStep,
     ParcelsKept
<1> QED BY <1>1, <1>2, <1>3, <1>4

\* What was found of a number stays in the map, or the reference to it dangles.
LEMMA FoundStays ==
  ASSUME Typed, TypeOK, Referred, MapOfCarrier, Next, NEW j \in Thread,
         job'[j].pc = "sendFound", j \notin gone'
  PROVE  codeToMsg'[job'[j].code] # NoNumber
<1>0. /\ DOMAIN job = Thread /\ codeToMsg \in [Code -> Number \cup {NoNumber}]
      /\ job[j].pc = "sendFound" => job[j].code \in Code
  BY SenderHasCode, Places DEF Typed, TypeOK, Thread
<1>1. job[j].pc = "sendFound" /\ j \notin gone => codeToMsg[job[j].code] # NoNumber
  BY <1>0 DEF MapOfCarrier
<1>2. ASSUME NEW k \in Thread, NEW pc, JobStep(k, pc), pc # "sendFound"
      PROVE  job'[j] = job[j] /\ k # j
  BY <1>2 DEF JobStep
<1>3. CASE UNCHANGED <<job, codeToMsg, gone>>
  BY <1>1, <1>3
<1>4. ASSUME NEW i \in Scans, NEW c \in Code, NEW m \in Number, ScanStep(i, c, m)
      PROVE  codeToMsg'[job'[j].code] # NoNumber
  <2>1. /\ job'[j] = job[j] /\ gone' = gone /\ m # NoNumber
        /\ codeToMsg' = [codeToMsg EXCEPT ![c] = m]
    BY <1>2, <1>4, NoneAssumption DEF ScanStep, ScanJob, Thread, sendVars
  <2> QED BY <1>0, <1>1, <2>1
<1>5. ASSUME NEW i \in Scans,
             SupplyStep(i) \/ QueryStep(i) \/ WriteStep(i) \/ PassStep(i) \/ AskStep(i)
      PROVE  UNCHANGED <<codeToMsg, gone>> /\ job'[j] = job[j]
  <2>1. /\ UNCHANGED <<codeToMsg, gone>>
        /\ \/ JobStep(i, "query") \/ JobStep(i, "write") \/ JobStep(i, "mode1")
           \/ JobStep(i, "mode2") \/ JobStep(i, "skipped") \/ JobStep(i, "done")
    BY <1>5 DEF SupplyStep, QueryStep, WriteStep, PassStep, AskStep, RowRead, RowWritten,
       Asks, mapVars, sendVars
  <2> QED BY <1>2, <2>1 DEF Thread
<1>6. ASSUME NEW k \in Thread, NEW c, NEW slot, Sends(k, c, slot),
             UNCHANGED <<codeToMsg, gone>>
      PROVE  codeToMsg'[job'[j].code] # NoNumber
  <2>1. CASE k = j
    BY <1>6, <2>1 DEF Sends, JobStep
  <2>2. CASE k # j
    BY <1>1, <1>6, <2>2 DEF Sends, JobStep
  <2> QED BY <2>1, <2>2
<1>7. ASSUME NEW i \in Scans, KnownStep(i)
      PROVE  UNCHANGED <<codeToMsg, gone>> /\ \E c, slot : Sends(i, c, slot)
  BY <1>7 DEF KnownStep, SendsOwn, sendVars
<1>8. ASSUME NEW c \in Code, AnswerStep(c)
      PROVE  UNCHANGED <<codeToMsg, gone>> /\ \E slot : Sends(Main, c, slot)
  BY <1>8 DEF AnswerStep, Answered, sendVars
<1>9. ASSUME NEW k \in Thread, StationStep(k) \/ SendRowStep(k) \/ SendMapStep(k)
      PROVE  codeToMsg'[job'[j].code] # NoNumber
  <2>1. /\ codeToMsg' = codeToMsg /\ gone \ {k} \subseteq gone'
        /\ \/ JobStep(k, "queryOrder") \/ JobStep(k, "idle") \/ JobStep(k, "done")
           \/ JobStep(k, "erase")
    BY <1>9 DEF StationStep, SendRowStep, SendMapStep, Finished, mapVars, sendVars
  <2>2. job'[j] = job[j] /\ k # j
    BY <1>2, <2>1
  <2> QED BY <1>1, <2>1, <2>2
<1>10. ASSUME NEW k \in Thread, EraseStep(k)
       PROVE  codeToMsg'[job'[j].code] # NoNumber
  <2> DEFINE c == job[k].code
  <2>1. /\ codeToMsg' = [codeToMsg EXCEPT ![c] = NoNumber]
        /\ gone' = gone \cup {l \in Thread : job[l].pc = "sendFound" /\ job[l].code = c}
        /\ JobStep(k, "idle") \/ JobStep(k, "done")
    BY <1>10 DEF EraseStep, Finished
  <2>2. job'[j] = job[j]
    BY <1>2, <2>1
  <2>3. j \notin gone /\ job[j].code # c
    BY <2>1, <2>2
  <2> QED BY <1>0, <1>1, <2>1, <2>2, <2>3
<1>11. UNCHANGED <<job, codeToMsg, gone>> \/ JobSteps
  BY EveryStep DEF OperatorStep, RecordStep, EndStep, FrameSteps, ParcelsKept, mapVars,
     sendVars
<1>12. ASSUME NEW i \in Scans
       PROVE  i \in Thread /\ Main \in Thread
  BY DEF Thread
<1>13. Main \in Thread
  BY DEF Thread
<1> QED BY <1>1, <1>3, <1>4, <1>5, <1>6, <1>7, <1>8, <1>9, <1>10, <1>11, <1>12, <1>13
        DEF JobSteps

\* Every step keeps the map on the last carrier of its code.
LEMMA MapStays ==
  ASSUME Typed, TypeOK, Referred, MapOfCarrier, Carried, Next
  PROVE  MapOfCarrier'
<1>1. ASSUME NEW c \in Code, InWork(c)', codeToMsg'[c] # NoNumber
      PROVE  carrier'[codeToMsg'[c]] # 0 /\ job'[carrier'[codeToMsg'[c]]].code = c
  <2>1. ASSUME NEW i \in Scans, NEW m \in Number, ScanStep(i, c, m)
        PROVE  carrier'[codeToMsg'[c]] # 0 /\ job'[carrier'[codeToMsg'[c]]].code = c
    <3>1. /\ codeToMsg' = [codeToMsg EXCEPT ![c] = m]
          /\ carrier' = [carrier EXCEPT ![m] = i]
          /\ job'[i].code = c /\ i # 0
      BY <2>1, MainIsNoScan DEF ScanStep, ScanJob
    <3> QED BY <3>1 DEF TypeOK
  <2>2. CASE ~\E i \in Scans : \E m \in Number : ScanStep(i, c, m)
    <3> DEFINE n == codeToMsg[c]
               k == carrier[n]
    <3>1. InWork(c) /\ codeToMsg'[c] = n /\ n # NoNumber /\ n \in Number
      BY <1>1, <2>2, WorkStays, NumberStays DEF TypeOK
    <3>2. k # 0 /\ job[k].code = c
      BY <3>1 DEF MapOfCarrier
    <3>3. k \in Scans /\ Started(k)
      BY <3>1, <3>2, CarrierIsScan DEF Carried
    <3>4. \A i \in Scans : Started(i) => job'[i].code = job[i].code
      BY StartedStays DEF KeepsParcel
    <3>5. carrier'[n] = k
      <4>1. CASE UNCHANGED carrier
        BY <4>1
      <4>2. ASSUME NEW i \in Scans, NEW d \in Code, NEW m \in Number, ScanStep(i, d, m)
            PROVE  carrier'[n] = k
        <5>1. carrier[m] # 0 => ~InWork(job[carrier[m]].code)
          BY <4>2 DEF ScanStep
        <5>2. m # n
          BY <3>1, <3>2, <5>1
        <5>3. carrier' = [carrier EXCEPT ![m] = i] /\ carrier \in [Number -> 0 .. MaxScans]
          BY <4>2 DEF ScanStep, TypeOK
        <5> HIDE DEF n
        <5> QED BY <3>1, <5>2, <5>3
      <4> QED BY <4>1, <4>2, CarrierStays
    <3> HIDE DEF n, k
    <3> QED BY <3>1, <3>2, <3>3, <3>4, <3>5
  <2> QED BY <2>1, <2>2
<1>2. ASSUME NEW p \in plc'.slots, p.scan # 0
      PROVE  p.scan \in Scans /\ job'[p.scan].pc # "idle"
  <2>1. \A i \in Scans : Started(i) => job'[i].pc # "idle"
    BY StartedStays DEF Started
  <2>2. CASE p \in plc.slots
    BY <1>2, <2>1, <2>2 DEF MapOfCarrier
  <2>3. ASSUME NEW j \in Thread, NEW number, p = Message(j, number)
        PROVE  p.scan \in Scans /\ job'[p.scan].pc # "idle"
    <3>1. number \in Number /\ p.scan = carrier[number]
      BY <1>2, <2>3 DEF Message
    <3>2. p.scan \in Scans /\ Started(p.scan)
      BY <1>2, <3>1, CarrierIsScan DEF Carried
    <3> QED BY <2>1, <3>2
  <2> QED BY <1>2, <2>2, <2>3, NewMessages
<1>3. \A p \in plc'.slots : p.scan # 0 => p.scan \in Scans /\ Started(p.scan)'
  BY <1>2 DEF Started
<1>4. \A j \in Thread : job'[j].pc = "sendFound" /\ j \notin gone' =>
        codeToMsg'[job'[j].code] # NoNumber
  BY FoundStays
<1>5. DOMAIN job' = Thread
  BY JobTyped
<1> QED BY <1>1, <1>3, <1>4, <1>5 DEF MapOfCarrier

\* Every step keeps the slots with the parcels they are for.
LEMMA ForCarrierStays ==
  ASSUME Typed, TypeOK, Referred, MapOfCarrier, Carried, OneWork, SlotForCarrier, Next
  PROVE  SlotForCarrier'
<1>1. ASSUME NEW p \in plc'.slots, p.number \in Number, ~(p.byRow /\ plant.overlap)
      PROVE  p.scan # 0 /\ job'[p.scan].code = p.code
  <2>1. \A i \in Scans : Started(i) => job'[i].code = job[i].code
    BY StartedStays DEF KeepsParcel
  <2>2. CASE p \in plc.slots
    <3>1. p.scan # 0 /\ job[p.scan].code = p.code
      BY <1>1, <2>2 DEF SlotForCarrier
    <3>2. p.scan \in Scans /\ Started(p.scan)
      BY <2>2, <3>1 DEF MapOfCarrier
    <3> QED BY <2>1, <3>1, <3>2
  <2>3. ASSUME NEW j \in Thread, SendMapStep(j), p = Message(j, FoundNumber(j))
        PROVE  p.scan # 0 /\ job'[p.scan].code = p.code
    <3> DEFINE c == job[j].code
               n == codeToMsg[c]
    <3>1. /\ p.number = FoundNumber(j) /\ p.code = c
          /\ p.scan = IF FoundNumber(j) \in Number THEN carrier[FoundNumber(j)] ELSE 0
      BY <2>3 DEF Message
    <3>2. FoundNumber(j) \in Number
      BY <1>1, <3>1
    <3>3. n # NoNumber /\ FoundNumber(j) = n
      BY <3>2, NoneAssumption DEF FoundNumber
    <3>4. c \in Code /\ InWork(c)
      <4>1. job[j].pc \in Working /\ j \in DOMAIN job /\ c \in Code
        BY <2>3, Places DEF SendMapStep, Typed, Thread
      <4> QED BY <4>1 DEF InWork
    <3>5. carrier[n] # 0 /\ job[carrier[n]].code = c
      BY <3>3, <3>4 DEF MapOfCarrier
    <3>6. p.scan = carrier[n]
      BY <3>1, <3>2, <3>3
    <3>7. carrier[n] \in Scans /\ Started(carrier[n])
      BY <3>2, <3>3, <3>5, CarrierIsScan DEF Carried
    <3> HIDE DEF n, c
    <3> QED BY <2>1, <3>1, <3>5, <3>6, <3>7
  <2>4. ASSUME NEW j \in Thread, SendRowStep(j), NEW number, p = Message(j, number)
        PROVE  FALSE
    <3>1. job[j].pc = "queryOrder" /\ j \in DOMAIN job
      BY <2>4 DEF SendRowStep, Typed, Thread
    <3>2. p.byRow
      BY <2>4, <3>1 DEF Message
    <3>3. plant.overlap
      BY <3>1 DEF OneWork
    <3> QED BY <1>1, <3>2, <3>3
  <2> QED BY <1>1, <2>2, <2>3, <2>4, NewMessages
<1> QED BY <1>1, FramesApart DEF SlotForCarrier
-----------------------------------------------------------------------------
(* Where scans of a code do not overlap, there is one piece of work on it.  *)

\* A thread goes on with its work, or gives it up.
LEMMA OneWorkMoves ==
  ASSUME Typed, OneWork, ~plant.overlap, NEW j \in Thread, NEW pc, JobStep(j, pc),
         pc \notin {"queryId", "queryOrder"},
         pc \in Working => job[j].pc \in Working /\ job'[j].code = job[j].code,
         UNCHANGED <<plant, codeToMsg, asked, slotWrites>>,
         \A p \in plc'.slots : ~p.byRow
  PROVE  OneWork'
<1>1. DOMAIN job = Thread /\ DOMAIN job' = Thread
  BY DEF Typed, JobStep, Thread
<1>2. \A k \in Thread : job'[k].pc \in Working =>
        job[k].pc \in Working /\ job'[k].code = job[k].code
  BY DEF JobStep
<1>3. \A k \in Thread : job'[k].pc \notin {"queryId", "queryOrder"}
  BY <1>1 DEF JobStep, OneWork
<1>4. \A c \in Code, k, l \in Thread :
        job'[k].code = c /\ job'[k].pc \in Working
          /\ job'[l].code = c /\ job'[l].pc \in Working => k = l
  BY <1>1, <1>2 DEF OneWork, AtWork
<1>5. \A c \in Code : asked[c] > 0 =>
        /\ asked[c] = 1 /\ slotWrites[c] = << >> /\ codeToMsg[c] # NoNumber
        /\ \A k \in Thread : ~(job'[k].code = c /\ job'[k].pc \in Working)
  BY <1>1, <1>2 DEF OneWork, AtWork
<1>6. \A c \in Code : slotWrites[c] # << >> =>
        /\ Len(slotWrites[c]) = 1
        /\ \A k \in Thread : ~(job'[k].code = c /\ job'[k].pc \in Working)
  BY <1>1, <1>2 DEF OneWork, AtWork
<1>7. \A k \in Thread : job'[k].pc \in Working => codeToMsg[job'[k].code] # NoNumber
  BY <1>1, <1>2 DEF OneWork
<1> QED BY <1>1, <1>3, <1>4, <1>5, <1>6, <1>7 DEF OneWork, AtWork

\* The work on a code that thread j has in hand is the only one.
LEMMA OnlyWork ==
  ASSUME Typed, TypeOK, OneWork, ~plant.overlap, NEW j \in Thread,
         job[j].pc \in Working
  PROVE  LET c == job[j].code IN
         /\ c \in Code /\ asked[c] = 0 /\ slotWrites[c] = << >>
         /\ codeToMsg[c] # NoNumber
         /\ \A k \in Thread : job[k].pc \in Working /\ job[k].code = c => k = j
<1>1. DOMAIN job = Thread /\ job[j].code \in Code
  BY SenderHasCode DEF Typed, Thread
<1>2. asked[job[j].code] \in Nat
  BY <1>1, ParcelAssumption DEF TypeOK
<1>3. ~(asked[job[j].code] > 0)
  BY <1>1 DEF OneWork, AtWork
<1>4. slotWrites[job[j].code] = << >>
  BY <1>1 DEF OneWork, AtWork
<1>5. codeToMsg[job[j].code] # NoNumber
  BY <1>1 DEF OneWork
<1>6. \A k \in Thread : job[k].pc \in Working /\ job[k].code = job[j].code => k = j
  BY <1>1 DEF OneWork, AtWork
<1> QED BY <1>1, <1>2, <1>3, <1>4, <1>5, <1>6

\* A scan of a code without work gives it its one piece of work.
LEMMA OneWorkScanned ==
  ASSUME Typed, TypeOK, OneWork, ~plant.overlap,
         NEW i \in Scans, NEW c \in Code, NEW m \in Number, ScanStep(i, c, m)
  PROVE  OneWork'
<1>1. /\ i \in Thread /\ DOMAIN job = Thread /\ DOMAIN job' = Thread
      /\ \A k \in Thread \ {i} : job'[k] = job[k]
      /\ job'[i].pc = "supply" /\ job'[i].code = c
  BY DEF ScanStep, ScanJob, JobStep, Typed, Thread
<1>2. ~InWork(c)
  BY DEF ScanStep
<1>3. /\ ~(asked[c] > 0) /\ slotWrites[c] = << >>
      /\ \A k \in Thread : ~(job[k].code = c /\ job[k].pc \in Working)
  BY <1>1, <1>2 DEF InWork
<1>4. /\ UNCHANGED <<plant, asked, slotWrites, plc>>
      /\ codeToMsg' = [codeToMsg EXCEPT ![c] = m]
  BY DEF ScanStep, sendVars
<1>5. codeToMsg \in [Code -> Number \cup {NoNumber}] /\ m # NoNumber
  BY NoneAssumption DEF TypeOK
<1>6. \A d \in Code : codeToMsg'[d] = IF d = c THEN m ELSE codeToMsg[d]
  BY <1>4, <1>5
<1>7. \A d \in Code, k, l \in Thread :
        job'[k].code = d /\ job'[k].pc \in Working
          /\ job'[l].code = d /\ job'[l].pc \in Working => k = l
  BY <1>1, <1>3 DEF OneWork, AtWork
<1>8. \A d \in Code : asked[d] > 0 =>
        /\ asked[d] = 1 /\ slotWrites[d] = << >> /\ codeToMsg'[d] # NoNumber
        /\ \A k \in Thread : ~(job'[k].code = d /\ job'[k].pc \in Working)
  BY <1>1, <1>3, <1>6 DEF OneWork, AtWork
<1>9. \A d \in Code : slotWrites[d] # << >> =>
        /\ Len(slotWrites[d]) = 1
        /\ \A k \in Thread : ~(job'[k].code = d /\ job'[k].pc \in Working)
  BY <1>1, <1>3 DEF OneWork, AtWork
<1>10. \A k \in Thread : /\ job'[k].pc \notin {"queryId", "queryOrder"}
                         /\ job'[k].pc \in Working => codeToMsg'[job'[k].code] # NoNumber
  <2>1. CASE \A k \in Thread : job[k].pc \in Working => job[k].code \in Code
    BY <1>1, <1>5, <1>6, <2>1 DEF OneWork
  <2> QED BY <2>1, SenderHasCode
<1>11. \A p \in plc.slots : ~p.byRow
  BY DEF OneWork
<1> QED BY <1>1, <1>4, <1>7, <1>8, <1>9, <1>10, <1>11 DEF OneWork, AtWork

\* A request takes the place of the task that makes it.
LEMMA OneWorkAsked ==
  ASSUME Typed, TypeOK, OneWork, ~plant.overlap, NEW i \in Scans, AskStep(i)
  PROVE  OneWork'
<1> DEFINE c == job[i].code
<1>1. /\ i \in Thread /\ DOMAIN job = Thread /\ DOMAIN job' = Thread
      /\ \A k \in Thread \ {i} : job'[k] = job[k]
      /\ job'[i].pc = "done"
  BY DEF AskStep, Asks, JobStep, Typed, Thread
<1>2. /\ c \in Code /\ asked[c] = 0 /\ slotWrites[c] = << >>
      /\ codeToMsg[c] # NoNumber
      /\ \A k \in Thread : job[k].pc \in Working /\ job[k].code = c => k = i
  BY <1>1, OnlyWork, Places DEF AskStep
<1>3. /\ UNCHANGED <<plant, codeToMsg, slotWrites, plc>>
      /\ asked' = [asked EXCEPT ![c] = @ + 1]
  BY DEF AskStep, Asks, mapVars, sendVars
<1>4. asked \in [Code -> 0 .. MaxScans] /\ "done" \notin Working
  BY Places DEF TypeOK
<1> HIDE DEF c
<1>5. \A d \in Code : asked'[d] = IF d = c THEN 1 ELSE asked[d]
  BY <1>2, <1>3, <1>4
<1>6. \A k \in Thread : job'[k].pc \in Working =>
        job[k].pc \in Working /\ job'[k].code = job[k].code /\ job[k].code # c
  BY <1>1, <1>2, <1>4 DEF c
<1>7. \A d \in Code, k, l \in Thread :
        job'[k].code = d /\ job'[k].pc \in Working
          /\ job'[l].code = d /\ job'[l].pc \in Working => k = l
  BY <1>1, <1>6 DEF OneWork, AtWork
<1>8. \A d \in Code : asked'[d] > 0 =>
        /\ asked'[d] = 1 /\ slotWrites[d] = << >> /\ codeToMsg[d] # NoNumber
        /\ \A k \in Thread : ~(job'[k].code = d /\ job'[k].pc \in Working)
  BY <1>1, <1>2, <1>5, <1>6 DEF OneWork, AtWork
<1>9. \A d \in Code : slotWrites[d] # << >> =>
        /\ Len(slotWrites[d]) = 1
        /\ \A k \in Thread : ~(job'[k].code = d /\ job'[k].pc \in Working)
  BY <1>1, <1>6 DEF OneWork, AtWork
<1>10. \A k \in Thread : /\ job'[k].pc \notin {"queryId", "queryOrder"}
                         /\ job'[k].pc \in Working => codeToMsg[job'[k].code] # NoNumber
  BY <1>1, <1>6 DEF OneWork
<1>11. \A p \in plc.slots : ~p.byRow
  BY DEF OneWork
<1> QED BY <1>1, <1>3, <1>7, <1>8, <1>9, <1>10, <1>11 DEF OneWork, AtWork

\* An answer takes the place of its request.
LEMMA OneWorkAnswered ==
  ASSUME Typed, TypeOK, OneWork, ~plant.overlap, NEW c \in Code, AnswerStep(c)
  PROVE  OneWork'
<1>1. PICK slot \in Int : Sends(Main, c, slot)
  BY DEF AnswerStep, Answered
<1>2. /\ asked[c] = 1 /\ slotWrites[c] = << >> /\ codeToMsg[c] # NoNumber
      /\ \A k \in Thread : ~(job[k].code = c /\ job[k].pc \in Working)
  BY DEF AnswerStep, Answered, OneWork, AtWork, Typed, Thread
<1>3. /\ Main \in Thread /\ DOMAIN job = Thread /\ DOMAIN job' = Thread
      /\ \A k \in Thread \ {Main} : job'[k] = job[k]
      /\ job'[Main].pc = "sendFound" /\ job'[Main].code = c
  BY <1>1, <1>2 DEF Sends, JobStep, Typed, Thread
<1>4. /\ UNCHANGED <<plant, codeToMsg, slotWrites, plc>>
      /\ asked' = [asked EXCEPT ![c] = @ - 1]
  BY DEF AnswerStep, Answered, sendVars
<1>5. asked \in [Code -> 0 .. MaxScans]
  BY DEF TypeOK
<1>6. \A d \in Code : asked'[d] = IF d = c THEN 0 ELSE asked[d]
  BY <1>2, <1>4, <1>5
<1>7. \A k \in Thread : job'[k].pc \in Working =>
        \/ k = Main /\ job'[k].code = c
        \/ k # Main /\ job[k].pc \in Working /\ job'[k].code = job[k].code
           /\ job[k].code # c
  BY <1>2, <1>3
<1>8. \A d \in Code, k, l \in Thread :
        job'[k].code = d /\ job'[k].pc \in Working
          /\ job'[l].code = d /\ job'[l].pc \in Working => k = l
  BY <1>3, <1>7 DEF OneWork, AtWork
<1>9. \A d \in Code : asked'[d] > 0 =>
        /\ asked'[d] = 1 /\ slotWrites[d] = << >> /\ codeToMsg[d] # NoNumber
        /\ \A k \in Thread : ~(job'[k].code = d /\ job'[k].pc \in Working)
  BY <1>3, <1>6, <1>7 DEF OneWork, AtWork
<1>10. \A d \in Code : slotWrites[d] # << >> =>
         /\ Len(slotWrites[d]) = 1
         /\ \A k \in Thread : ~(job'[k].code = d /\ job'[k].pc \in Working)
  BY <1>2, <1>3, <1>7 DEF OneWork, AtWork
<1>11. \A k \in Thread : /\ job'[k].pc \notin {"queryId", "queryOrder"}
                         /\ job'[k].pc \in Working => codeToMsg[job'[k].code] # NoNumber
  BY <1>2, <1>3, <1>7 DEF OneWork
<1>12. \A p \in plc.slots : ~p.byRow
  BY DEF OneWork
<1> QED BY <1>3, <1>4, <1>8, <1>9, <1>10, <1>11, <1>12 DEF OneWork, AtWork

\* A request that ends without an answer leaves no work.
LEMMA OneWorkEnded ==
  ASSUME Typed, TypeOK, OneWork, ~plant.overlap, NEW c \in Code, EndStep(c)
  PROVE  OneWork'
<1>1. /\ UNCHANGED <<plant, codeToMsg, job, slotWrites, plc>>
      /\ asked' = [asked EXCEPT ![c] = @ - 1] /\ asked[c] = 1
  BY DEF EndStep, OneWork, mapVars, sendVars
<1>2. asked \in [Code -> 0 .. MaxScans]
  BY DEF TypeOK
<1>3. \A d \in Code : asked'[d] = IF d = c THEN 0 ELSE asked[d]
  BY <1>1, <1>2
<1>4. \A d \in Code : asked'[d] > 0 => asked[d] > 0 /\ asked'[d] = asked[d]
  BY <1>3
<1> QED BY <1>1, <1>4 DEF OneWork, AtWork

\* A number that was sent is erased, and the slot is left to write.
LEMMA OneWorkSent ==
  ASSUME Typed, TypeOK, OneWork, ~plant.overlap, NEW j \in Thread, EraseStep(j)
  PROVE  OneWork'
<1> DEFINE c == job[j].code
<1>1. job[j].pc = "erase" /\ job[j].pc \in Working
  BY Places DEF EraseStep
<1>2. /\ c \in Code /\ asked[c] = 0 /\ slotWrites[c] = << >>
      /\ \A k \in Thread : job[k].pc \in Working /\ job[k].code = c => k = j
  BY <1>1, OnlyWork
<1>3. Finished(j)
  BY DEF EraseStep
<1>4. /\ DOMAIN job = Thread /\ DOMAIN job' = Thread
      /\ \A k \in Thread \ {j} : job'[k] = job[k]
      /\ job'[j].pc \notin Working
  BY <1>3, Places DEF Finished, JobStep, Typed, Thread
<1>5. UNCHANGED <<plant, asked, plc>> /\ codeToMsg' = [codeToMsg EXCEPT ![c] = NoNumber]
  BY DEF EraseStep
<1>6. codeToMsg \in [Code -> Number \cup {NoNumber}] /\ slotWrites \in [Code -> Seq(Int)]
      /\ job[j].slot \in Int
  BY DEF TypeOK, Typed, Thread, Job
<1>7. \A p \in plc'.slots : ~p.byRow
  BY <1>5 DEF OneWork
<1>8. \A d \in Code \ {c} : slotWrites'[d] = slotWrites[d]
  BY <1>3, <1>6 DEF Finished
<1>9. slotWrites'[c] = << >> \/ Len(slotWrites'[c]) = 1
  <2>1. CASE UNCHANGED slotWrites
    BY <1>2, <2>1
  <2>2. CASE slotWrites' = [slotWrites EXCEPT ![c] = Append(@, job[j].slot)]
    <3>1. slotWrites'[c] = Append(<< >>, job[j].slot)
      BY <1>2, <1>6, <2>2
    <3>2. Len(Append(<< >>, job[j].slot)) = 1
      BY <1>6
    <3> QED BY <3>1, <3>2
  <2> QED BY <1>3, <2>1, <2>2 DEF Finished
<1> HIDE DEF c
<1>10. \A d \in Code : codeToMsg'[d] = IF d = c THEN NoNumber ELSE codeToMsg[d]
  BY <1>5, <1>6
<1>11. \A k \in Thread : job'[k].pc \in Working =>
         k # j /\ job[k].pc \in Working /\ job'[k] = job[k] /\ job[k].code # c
  BY <1>2, <1>4
<1>12. \A d \in Code, k, l \in Thread :
         job'[k].code = d /\ job'[k].pc \in Working
           /\ job'[l].code = d /\ job'[l].pc \in Working => k = l
  BY <1>4, <1>11 DEF OneWork, AtWork
<1>13. \A d \in Code : asked[d] > 0 =>
         /\ asked[d] = 1 /\ slotWrites'[d] = << >> /\ codeToMsg'[d] # NoNumber
         /\ \A k \in Thread : ~(job'[k].code = d /\ job'[k].pc \in Working)
  BY <1>2, <1>4, <1>8, <1>10, <1>11 DEF OneWork, AtWork
<1>14. \A d \in Code : slotWrites'[d] # << >> =>
         /\ Len(slotWrites'[d]) = 1
         /\ \A k \in Thread : ~(job'[k].code = d /\ job'[k].pc \in Working)
  BY <1>4, <1>8, <1>9, <1>11 DEF OneWork, AtWork
<1>15. \A k \in Thread : job'[k].pc \notin {"queryId", "queryOrder"}
  BY <1>4, Places DEF OneWork
<1>16. \A k \in Thread : job'[k].pc \in Working => codeToMsg'[job'[k].code] # NoNumber
  <2>1. \A k \in Thread : job'[k].pc \in Working => job[k].code \in Code
    BY <1>11, SenderHasCode
  <2> QED BY <1>4, <1>10, <1>11, <2>1 DEF OneWork
<1> QED BY <1>4, <1>5, <1>7, <1>12, <1>13, <1>14, <1>15, <1>16 DEF OneWork, AtWork

\* A slot that is written ends the work for its code.
LEMMA OneWorkRecorded ==
  ASSUME Typed, TypeOK, OneWork, ~plant.overlap, NEW c \in Code, NEW k, RecordStep(c, k)
  PROVE  OneWork'
<1> DEFINE rest == RemoveAt(slotWrites[c], k)
<1>1. /\ UNCHANGED <<plant, codeToMsg, job, asked, plc>>
      /\ slotWrites' = [slotWrites EXCEPT ![c] = rest]
      /\ rest \in Seq(Int) /\ Len(rest) = Len(slotWrites[c]) - 1
      /\ k \in DOMAIN slotWrites[c]
  BY DEF RecordStep, SlotWritten, mapVars
<1>2. slotWrites \in [Code -> Seq(Int)]
  BY DEF Typed
<1> HIDE DEF rest
<1>3. slotWrites[c] # << >>
  BY <1>1
<1>4. Len(slotWrites[c]) = 1
  BY <1>3 DEF OneWork
<1>5. rest = << >>
  <2>1. Len(rest) = 0
    BY <1>1, <1>4
  <2> QED BY <1>1, <2>1, EmptySeq
<1>6. \A d \in Code : slotWrites'[d] = IF d = c THEN << >> ELSE slotWrites[d]
  BY <1>1, <1>2, <1>5
<1>7. \A d \in Code : asked[d] > 0 => slotWrites'[d] = << >>
  BY <1>6 DEF OneWork
<1>8. \A d \in Code : slotWrites'[d] # << >> =>
        slotWrites[d] # << >> /\ Len(slotWrites'[d]) = 1
  BY <1>6 DEF OneWork
<1> QED BY <1>1, <1>7, <1>8 DEF OneWork, AtWork

\* Every step keeps one piece of work per code.
LEMMA OneWorkStays ==
  ASSUME Typed, TypeOK, Referred, MapOfCarrier, OneWork, Next
  PROVE  OneWork'
<1>1. CASE plant.overlap
  BY <1>1, FramesApart DEF OneWork
<1>2. CASE ~plant.overlap
  <2>1. CASE UNCHANGED <<plant, codeToMsg, job, asked, slotWrites, plc>>
    BY <2>1 DEF OneWork, AtWork
  <2>2. ASSUME NEW i \in Scans,
               SupplyStep(i) \/ QueryStep(i) \/ WriteStep(i) \/ PassStep(i)
        PROVE  OneWork'
    <3>1. \E pc \in {"query", "write", "mode1", "mode2", "skipped"} : JobStep(i, pc)
      BY <2>2 DEF SupplyStep, QueryStep, WriteStep, PassStep, RowRead, RowWritten
    <3>2. /\ job[i].pc \in Working /\ job'[i].code = job[i].code /\ i \in Thread
          /\ UNCHANGED <<plant, codeToMsg, asked, slotWrites>>
      BY <2>2, Places DEF SupplyStep, QueryStep, WriteStep, PassStep, RowRead, RowWritten,
         KeepsSlot, KeepsParcel, Thread, mapVars, sendVars
    <3>3. \A p \in plc'.slots : ~p.byRow
      BY <1>2, <2>2 DEF SupplyStep, Announces, QueryStep, WriteStep, PassStep, OneWork
    <3> QED BY <1>2, <3>1, <3>2, <3>3, OneWorkMoves
  <2>3. ASSUME NEW i \in Scans, KnownStep(i)
        PROVE  OneWork'
    <3>1. i \in Thread /\ job[i].pc \in Working
      BY <2>3, Places DEF KnownStep, Thread
    <3>2. codeToMsg[job[i].code] # NoNumber
      BY <1>2, <3>1, OnlyWork
    <3>3. /\ JobStep(i, "sendFound") /\ job'[i].code = job[i].code
          /\ UNCHANGED <<plant, codeToMsg, asked, slotWrites, plc>>
      BY <2>3, <3>2 DEF KnownStep, SendsOwn, Sends, sendVars
    <3>4. \A p \in plc'.slots : ~p.byRow
      BY <1>2, <3>3 DEF OneWork
    <3> QED BY <1>2, <3>1, <3>3, <3>4, OneWorkMoves
  <2>4. ASSUME NEW j \in Thread, StationStep(j) \/ SendRowStep(j)
        PROVE  FALSE
    BY <1>2, <2>4 DEF StationStep, SendRowStep, OneWork, Typed, Thread
  <2>5. ASSUME NEW j \in Thread, SendMapStep(j)
        PROVE  OneWork'
    <3>1. /\ job[j].pc \in Working /\ JobStep(j, "erase") /\ job'[j].code = job[j].code
          /\ UNCHANGED <<plant, codeToMsg, asked, slotWrites>>
      BY <2>5, Places DEF SendMapStep, KeepsSlot, KeepsParcel, mapVars
    <3>2. ~Message(j, FoundNumber(j)).byRow
      BY <2>5 DEF SendMapStep, Message
    <3>3. \A p \in plc'.slots : ~p.byRow
      BY <1>2, <2>5, <3>2 DEF SendMapStep, Handed, OneWork
    <3> QED BY <1>2, <3>1, <3>3, OneWorkMoves
  <2>6. CASE JobSteps
    BY <1>2, <2>2, <2>3, <2>4, <2>5, <2>6, OneWorkScanned, OneWorkAsked, OneWorkAnswered,
       OneWorkSent DEF JobSteps
  <2>7. \/ UNCHANGED <<plant, codeToMsg, job, asked, slotWrites, plc>>
        \/ JobSteps
        \/ \E c \in Code : EndStep(c)
        \/ \E c \in Code : \E k : RecordStep(c, k)
    BY EveryStep DEF OperatorStep, FrameSteps, ParcelsKept, mapVars, sendVars
  <2> QED BY <1>2, <2>1, <2>6, <2>7, OneWorkRecorded, OneWorkEnded
<1> QED BY <1>1, <1>2
-----------------------------------------------------------------------------
(* A scan is announced before its slot is sent.                            *)

\* The announcement of the scan that the map has of a code is made.
Made(c) == carrier[codeToMsg[c]] \in Announcements

\* The last two parts of Announced, where scans of a code do not overlap.
MadeInTime ==
  /\ \A i \in Scans : job[i].pc = "supply" => codeToMsg[job[i].code] = job[i].number
  /\ \A j \in DOMAIN job : job[j].pc \in Working \ {"supply"} => Made(job[j].code)
  /\ \A c \in Code : asked[c] > 0 => Made(c)

\* Nothing waits at a port that does not fail, and nothing is lost.
PortOpen == ~plant.portFails => plc.stored = << >> /\ plc.lost = {}

\* An announcement that is made is not taken back.
LEMMA AnnouncementsGrow ==
  ASSUME Typed, TypeOK, Referred, MapOfCarrier, PortOpen, Next
  PROVE  Announcements \subseteq Announcements' /\ PortOpen'
<1>1. CASE UNCHANGED plc
  BY <1>1, FramesApart DEF Announcements, PortOpen
<1>2. ASSUME NEW i \in Scans, SupplyStep(i)
      PROVE  Announcements \subseteq Announcements' /\ PortOpen'
  BY <1>2, FramesApart DEF SupplyStep, Announces, PortOpen
<1>3. ASSUME NEW j \in Thread, SendMapStep(j) \/ SendRowStep(j)
      PROVE  Announcements \subseteq Announcements' /\ PortOpen'
  <2>1. plc'.supplied = plc.supplied /\ plc'.stored = plc.stored /\ plc'.lost = plc.lost
    BY <1>3 DEF SendMapStep, SendRowStep, Handed
  <2> QED BY <2>1, FramesApart DEF Announcements, PortOpen
<1>4. \/ UNCHANGED plc
      \/ \E i \in Scans : SupplyStep(i)
      \/ \E j \in Thread : SendMapStep(j) \/ SendRowStep(j)
  BY EveryStep DEF OperatorStep, JobSteps, RecordStep, EndStep, FrameSteps, ScanStep,
     QueryStep, WriteStep, PassStep, AskStep, KnownStep, AnswerStep, StationStep, EraseStep,
     ParcelsKept
<1> QED BY <1>1, <1>2, <1>3, <1>4

\* A job that moves on keeps what is announced, if its own scan is.
LEMMA AnnouncedMoves ==
  ASSUME Typed, MadeInTime, NEW j \in Thread, NEW pc, JobStep(j, pc),
         pc # "supply",
         pc \in Working => carrier[codeToMsg[job'[j].code]] \in Announcements',
         UNCHANGED <<codeToMsg, carrier>>, Announcements \subseteq Announcements',
         \A c \in Code : asked'[c] > 0 => Made(c)
  PROVE  MadeInTime'
<1>1. DOMAIN job = Thread /\ DOMAIN job' = Thread
  BY DEF Typed, JobStep, Thread
<1>2. \A i \in Scans : job'[i].pc = "supply" => codeToMsg[job'[i].code] = job'[i].number
  BY DEF JobStep, MadeInTime, Thread
<1>3. \A k \in Thread : job'[k].pc \in Working \ {"supply"} =>
        carrier[codeToMsg[job'[k].code]] \in Announcements'
  <2> TAKE k \in Thread
  <2> HAVE job'[k].pc \in Working \ {"supply"}
  <2>1. CASE k = j
    BY <2>1 DEF JobStep
  <2>2. CASE k # j
    BY <1>1, <2>2 DEF JobStep, MadeInTime, Made
  <2> QED BY <2>1, <2>2
<1>4. \A c \in Code : asked'[c] > 0 => carrier[codeToMsg[c]] \in Announcements'
  BY DEF Made
<1> QED BY <1>1, <1>2, <1>3, <1>4 DEF MadeInTime, Made

\* A new number replaces one that nobody works for.
LEMMA AnnouncedScanned ==
  ASSUME Typed, TypeOK, MapOfCarrier, MadeInTime, OneWork, ~plant.overlap,
         NEW i \in Scans, NEW c \in Code, NEW m \in Number, ScanStep(i, c, m)
  PROVE  MadeInTime'
<1>1. /\ i \in Thread /\ DOMAIN job = Thread /\ DOMAIN job' = Thread
      /\ \A k \in Thread \ {i} : job'[k] = job[k]
      /\ job'[i].pc = "supply" /\ job'[i].code = c /\ job'[i].number = m
  BY DEF ScanStep, ScanJob, JobStep, Typed, Thread
<1>2. /\ ~InWork(c) /\ UNCHANGED <<asked, plc>>
      /\ carrier[m] # 0 => ~InWork(job[carrier[m]].code)
      /\ codeToMsg' = [codeToMsg EXCEPT ![c] = m]
      /\ carrier' = [carrier EXCEPT ![m] = i]
  BY DEF ScanStep, sendVars
<1>3. Announcements' = Announcements
  BY <1>2 DEF Announcements
<1>4. /\ codeToMsg \in [Code -> Number \cup {NoNumber}]
      /\ carrier \in [Number -> 0 .. MaxScans]
  BY DEF TypeOK
<1>5. \A d \in Code : codeToMsg'[d] = IF d = c THEN m ELSE codeToMsg[d]
  BY <1>2, <1>4
<1>6. ASSUME NEW d \in Code, InWork(d), codeToMsg[d] # NoNumber, Made(d)
      PROVE  carrier'[codeToMsg'[d]] \in Announcements'
  <2> DEFINE n == codeToMsg[d]
  <2>1. d # c /\ n \in Number
    BY <1>2, <1>4, <1>6
  <2>2. carrier[n] # 0 /\ job[carrier[n]].code = d
    BY <1>6 DEF MapOfCarrier
  <2>3. n # m
    BY <1>2, <1>6, <2>2
  <2>4. codeToMsg'[d] = n
    BY <1>5, <2>1
  <2>5. carrier[n] \in Announcements
    BY <1>6 DEF Made
  <2> HIDE DEF n
  <2>6. carrier'[n] = carrier[n]
    BY <1>2, <1>4, <2>1, <2>3
  <2> QED BY <1>3, <2>4, <2>5, <2>6
<1>7. \A k \in Thread \ {i} : job[k].pc \in Working =>
        /\ job[k].code \in Code /\ job[k].code # c /\ InWork(job[k].code)
        /\ codeToMsg[job[k].code] # NoNumber
  BY <1>1, <1>2, SenderHasCode DEF InWork, OneWork
<1>8. \A k \in Scans : job'[k].pc = "supply" => codeToMsg'[job'[k].code] = job'[k].number
  <2>1. \A k \in Scans \ {i} : job[k].pc = "supply" =>
          codeToMsg'[job[k].code] = job[k].number
    BY <1>5, <1>7, Places DEF MadeInTime, Thread
  <2> QED BY <1>1, <1>5, <2>1 DEF Thread
<1>9. \A k \in Thread : job'[k].pc \in Working \ {"supply"} =>
        carrier'[codeToMsg'[job'[k].code]] \in Announcements'
  BY <1>1, <1>6, <1>7 DEF MadeInTime
<1>10. \A d \in Code : asked[d] > 0 => carrier'[codeToMsg'[d]] \in Announcements'
  BY <1>6 DEF MadeInTime, OneWork, InWork
<1> QED BY <1>1, <1>2, <1>8, <1>9, <1>10 DEF MadeInTime, Made

\* A number that was sent is erased when nobody else works for it.
LEMMA AnnouncedErased ==
  ASSUME Typed, TypeOK, OneWork, MadeInTime, ~plant.overlap, NEW j \in Thread,
         EraseStep(j)
  PROVE  MadeInTime'
<1> DEFINE c == job[j].code
<1>1. job[j].pc = "erase" /\ job[j].pc \in Working
  BY Places DEF EraseStep
<1>2. /\ c \in Code /\ asked[c] = 0
      /\ \A k \in Thread : job[k].pc \in Working /\ job[k].code = c => k = j
  BY <1>1, OnlyWork
<1>3. /\ DOMAIN job = Thread /\ DOMAIN job' = Thread
      /\ \A k \in Thread \ {j} : job'[k] = job[k]
      /\ job'[j].pc \notin Working
  BY Places DEF EraseStep, Finished, JobStep, Typed, Thread
<1>4. /\ UNCHANGED <<asked, carrier, plc>>
      /\ codeToMsg' = [codeToMsg EXCEPT ![c] = NoNumber]
  BY DEF EraseStep
<1>5. codeToMsg \in [Code -> Number \cup {NoNumber}]
  BY DEF TypeOK
<1>6. Announcements' = Announcements
  BY <1>4 DEF Announcements
<1> HIDE DEF c
<1>7. \A d \in Code \ {c} : codeToMsg'[d] = codeToMsg[d]
  BY <1>4, <1>5
<1>8. \A k \in Thread : job'[k].pc \in Working =>
        job[k].pc \in Working /\ job'[k] = job[k] /\ job[k].code \in Code \ {c}
  BY <1>2, <1>3, SenderHasCode
<1>9. \A k \in Scans : job'[k].pc = "supply" => codeToMsg'[job'[k].code] = job'[k].number
  BY <1>7, <1>8, Places DEF MadeInTime, Thread
<1>10. \A k \in Thread : job'[k].pc \in Working \ {"supply"} =>
         carrier[codeToMsg'[job'[k].code]] \in Announcements
  BY <1>3, <1>7, <1>8 DEF MadeInTime, Made
<1>11. \A d \in Code : asked[d] > 0 => carrier[codeToMsg'[d]] \in Announcements
  BY <1>2, <1>7 DEF MadeInTime, Made
<1> QED BY <1>3, <1>4, <1>6, <1>9, <1>10, <1>11 DEF MadeInTime, Made

\* Every step keeps the scans in work announced.
LEMMA InTimeStays ==
  ASSUME Typed, TypeOK, Referred, MapOfCarrier, Carried, OneWork, PortOpen, MadeInTime,
         ~plant.overlap, Next
  PROVE  MadeInTime'
<1>1. CASE UNCHANGED <<codeToMsg, carrier, job, asked, plc>>
  BY <1>1 DEF MadeInTime, Made, Announcements
<1>2. /\ \A c \in Code : asked[c] > 0 => Made(c)
      /\ \A k \in Thread : job[k].pc \in Working \ {"supply"} => Made(job[k].code)
  BY DEF MadeInTime, Typed, Thread
<1>3. Announcements \subseteq Announcements'
  BY AnnouncementsGrow
<1>4. ASSUME NEW i \in Scans, SupplyStep(i)
      PROVE  MadeInTime'
  <2>1. codeToMsg[job[i].code] = job[i].number /\ carrier[job[i].number] = i
    BY <1>4, Places DEF SupplyStep, MadeInTime, Carried
  <2>2. /\ i \in Announcements' /\ JobStep(i, "query") /\ job'[i].code = job[i].code
        /\ UNCHANGED <<codeToMsg, carrier, asked>>
    BY <1>4 DEF SupplyStep, Announces, KeepsSlot, KeepsParcel, mapVars
  <2> QED BY <1>2, <1>3, <2>1, <2>2, AnnouncedMoves DEF Thread
<1>5. ASSUME NEW j \in Thread,
             \/ /\ j \in Scans
                /\ QueryStep(j) \/ WriteStep(j) \/ PassStep(j) \/ KnownStep(j)
             \/ SendMapStep(j)
      PROVE  MadeInTime'
  <2>1. /\ job[j].pc \in Working \ {"supply"} /\ job'[j].code = job[j].code
        /\ UNCHANGED <<codeToMsg, carrier, asked>>
    BY <1>5, Places DEF QueryStep, WriteStep, PassStep, KnownStep, RowRead, RowWritten,
       SendsOwn, SendMapStep, KeepsSlot, KeepsParcel, mapVars
  <2>2. \E pc : JobStep(j, pc) /\ pc # "supply"
    BY <1>5 DEF QueryStep, WriteStep, PassStep, KnownStep, RowRead, RowWritten,
       SendsOwn, Sends, SendMapStep
  <2>3. carrier[codeToMsg[job'[j].code]] \in Announcements'
    BY <1>2, <1>3, <2>1 DEF Made
  <2> QED BY <1>2, <1>3, <2>1, <2>2, <2>3, AnnouncedMoves
<1>6. ASSUME NEW i \in Scans, AskStep(i)
      PROVE  MadeInTime'
  <2>1. /\ i \in Thread /\ job[i].pc \in Working \ {"supply"} /\ job[i].code \in Code
        /\ JobStep(i, "done") /\ "done" \notin Working
        /\ asked' = [asked EXCEPT ![job[i].code] = @ + 1]
        /\ UNCHANGED <<codeToMsg, carrier>>
    BY <1>6, Places, SenderHasCode DEF AskStep, Asks, Thread, mapVars
  <2>2. asked \in [Code -> 0 .. MaxScans]
    BY DEF TypeOK
  <2>3. \A c \in Code : asked'[c] > 0 => asked[c] > 0 \/ c = job[i].code
    BY <2>1, <2>2
  <2>4. \A c \in Code : asked'[c] > 0 => Made(c)
    BY <1>2, <2>1, <2>3
  <2> QED BY <1>3, <2>1, <2>4, AnnouncedMoves
<1>7. ASSUME NEW c \in Code, AnswerStep(c)
      PROVE  MadeInTime'
  <2>1. PICK pc : JobStep(Main, pc) /\ pc # "supply"
    BY <1>7 DEF AnswerStep, Answered, Sends
  <2>2. /\ job'[Main].code = c /\ asked[c] > 0
        /\ asked' = [asked EXCEPT ![c] = @ - 1]
        /\ UNCHANGED <<codeToMsg, carrier>> /\ Main \in Thread
    BY <1>7 DEF AnswerStep, Answered, Sends, Thread
  <2>3. asked \in [Code -> 0 .. MaxScans]
    BY DEF TypeOK
  <2>4. \A d \in Code : asked'[d] > 0 => asked[d] > 0
    BY <2>2, <2>3
  <2>5. carrier[codeToMsg[job'[Main].code]] \in Announcements'
    BY <1>2, <1>3, <2>2 DEF Made
  <2> QED BY <1>2, <1>3, <2>1, <2>2, <2>4, <2>5, AnnouncedMoves
<1>8. ASSUME NEW j \in Thread, StationStep(j) \/ SendRowStep(j)
      PROVE  FALSE
  BY <1>8 DEF StationStep, SendRowStep, OneWork, Typed, Thread
<1>9. ASSUME NEW c \in Code, EndStep(c)
      PROVE  MadeInTime'
  <2>1. /\ UNCHANGED <<codeToMsg, carrier, job, plc>>
        /\ asked' = [asked EXCEPT ![c] = @ - 1]
    BY <1>9 DEF EndStep, mapVars, sendVars
  <2>2. asked \in [Code -> 0 .. MaxScans]
    BY DEF TypeOK
  <2>3. \A d \in Code : asked'[d] > 0 => asked[d] > 0
    BY <2>1, <2>2, <1>9 DEF EndStep
  <2> QED BY <2>1, <2>3 DEF MadeInTime, Made, Announcements
<1>10. CASE JobSteps
  BY <1>4, <1>5, <1>6, <1>7, <1>8, <1>10, AnnouncedScanned, AnnouncedErased
  DEF JobSteps, Thread
<1>11. \/ UNCHANGED <<codeToMsg, carrier, job, asked, plc>>
       \/ JobSteps
       \/ \E c \in Code : EndStep(c)
  BY EveryStep DEF OperatorStep, RecordStep, FrameSteps, ParcelsKept, mapVars, sendVars
<1> QED BY <1>1, <1>9, <1>10, <1>11

\* The two parts are what Announced says.
LEMMA AnnouncedParts ==
  Announced <=> PortOpen /\ (~plant.overlap => MadeInTime)
BY DEF Announced, PortOpen, MadeInTime, Made

\* Every step keeps the announcements.
LEMMA AnnouncedStays ==
  ASSUME Typed, TypeOK, Referred, MapOfCarrier, Carried, OneWork, Announced, Next
  PROVE  Announced'
<1>1. PortOpen /\ (~plant.overlap => MadeInTime) /\ plant' = plant
  BY AnnouncedParts, FramesApart
<1>2. PortOpen'
  BY <1>1, AnnouncementsGrow
<1>3. ~plant.overlap => MadeInTime'
  BY <1>1, InTimeStays
<1>4. (~plant.overlap => MadeInTime)'
  BY <1>1, <1>3
<1> QED BY <1>2, <1>4 DEF Announced, PortOpen, MadeInTime, Made

\* No step sends a slot before the announcement of its scan is made.
LEMMA AnnouncedFirstStays ==
  ASSUME Typed, TypeOK, Referred, MapOfCarrier, OneWork, Announced, AnnouncedFirst, Next
  PROVE  AnnouncedFirst'
<1>1. PortOpen /\ (~plant.overlap => MadeInTime) /\ plant' = plant
  BY AnnouncedParts, FramesApart
<1>2. Announcements \subseteq Announcements' /\ PortOpen'
  BY <1>1, AnnouncementsGrow
<1>3. ASSUME ~plant.overlap, NEW p \in plc'.slots, p.scan # 0
      PROVE  p.scan \in Announcements'
  <2>1. CASE p \in plc.slots
    <3>1. p.scan \in Announcements
      BY <1>3, <2>1 DEF AnnouncedFirst, Announcements
    <3> QED BY <1>2, <3>1
  <2>2. ASSUME NEW j \in Thread, SendMapStep(j), p = Message(j, FoundNumber(j))
        PROVE  p.scan \in Announcements'
    <3>1. FoundNumber(j) \in Number /\ p.scan = carrier[FoundNumber(j)]
      BY <1>3, <2>2 DEF Message
    <3>2. p.scan = carrier[codeToMsg[job[j].code]]
      BY <3>1, NoneAssumption DEF FoundNumber
    <3>3. job[j].pc \in Working \ {"supply"} /\ j \in DOMAIN job
      BY <2>2, Places DEF SendMapStep, Typed, Thread
    <3>4. Made(job[j].code)
      BY <1>1, <1>3, <3>3 DEF MadeInTime
    <3> QED BY <1>2, <3>2, <3>4 DEF Made
  <2>3. ASSUME NEW j \in Thread, SendRowStep(j)
        PROVE  FALSE
    BY <1>3, <2>3 DEF SendRowStep, OneWork, Typed, Thread
  <2> QED BY <2>1, <2>2, <2>3, NewMessages
<1>4. ASSUME ~plant.overlap, NEW p \in plc'.slots, p.scan # 0
      PROVE  \/ p.scan \in plc'.supplied
             \/ plant.portFails /\ p.scan \in ToSet(plc'.stored) \cup plc'.lost
  <2>1. p.scan \in plc'.supplied \cup ToSet(plc'.stored) \cup plc'.lost
    BY <1>3, <1>4 DEF Announcements
  <2>2. CASE plant.portFails
    BY <2>1, <2>2
  <2>3. CASE ~plant.portFails
    <3>1. plc'.stored = << >> /\ plc'.lost = {}
      BY <1>1, <1>2, <2>3 DEF PortOpen
    <3>2. ToSet(plc'.stored) = {}
      BY <3>1 DEF ToSet
    <3> QED BY <2>1, <3>1, <3>2
  <2> QED BY <2>2, <2>3
<1> QED BY <1>1, <1>4 DEF AnnouncedFirst
-----------------------------------------------------------------------------
(* There, if no statement fails, the row has the slot of the map.          *)

\* A task moves, and leaves the maps and the row alone.
LEMMA RowMoves ==
  ASSUME Typed, TypeOK, RowInStep, ~plant.overlap, ~plant.dbFails,
         NEW i \in Scans, NEW pc, JobStep(i, pc), TaskInStep(i)',
         UNCHANGED <<plant, db, codeToSlot, slotWrites>>,
         \A c \in Code : asked'[c] > 0 => db[c] # NoRow
  PROVE  RowInStep'
<1>1. /\ \A k \in Scans \ {i} : job'[k] = job[k]
      /\ job'[Main] = job[Main]
  BY MainIsNoScan DEF JobStep, Thread
<1>2. \A c \in Code : MapInStep(c)'
  BY <1>1 DEF RowInStep, MapInStep, AtWork, RowHasSlot
<1>3. \A k \in Scans \ {i} : TaskInStep(k)'
  BY <1>1 DEF RowInStep, TaskInStep
<1>4. job'[Main].pc # "idle" => db'[job'[Main].code] # NoRow
  BY <1>1 DEF RowInStep
<1>5. \A c \in Code : asked'[c] > 0 \/ slotWrites'[c] # << >> => db'[c] # NoRow
  BY DEF RowInStep
<1> QED BY <1>2, <1>3, <1>4, <1>5 DEF RowInStep

\* A task writes the row: no other work is under way on its code.
LEMMA RowWrites ==
  ASSUME Typed, TypeOK, OneWork, RowInStep, ~plant.overlap, ~plant.dbFails,
         NEW i \in Scans, WriteStep(i)
  PROVE  RowInStep'
<1> DEFINE c == job[i].code
           row == RowOf(job[i])
<1>1. /\ i \in Thread /\ Main \in Thread /\ i # Main
      /\ \A k \in Thread \ {i} : job'[k] = job[k]
      /\ job'[i].pc = "mode1" /\ job'[i].code = c /\ job'[i].slot = job[i].slot
  BY MainIsNoScan DEF WriteStep, RowWritten, JobStep, KeepsSlot, KeepsParcel, Thread
<1>2. /\ c \in Code /\ asked[c] = 0 /\ slotWrites[c] = << >>
      /\ \A k \in Thread : job[k].pc \in Working /\ job[k].code = c => k = i
  BY <1>1, OnlyWork, Places DEF WriteStep
<1>3. TaskInStep(i) /\ job[i].pc = "write"
  BY DEF RowInStep, WriteStep
<1>4. job[i].found = (db[c] # NoRow)
  <2>1. job[i].found \in BOOLEAN
    BY <1>1 DEF Typed, Thread, Job
  <2>2. IF job[i].found THEN db[c] # NoRow /\ job[i].slot = db[c].slot
        ELSE db[c] = NoRow /\ job[i].slot = -1
    BY <1>3 DEF TaskInStep
  <2> QED BY <2>1, <2>2
<1>5. db[c] # NoRow => job[i].slot = db[c].slot
  BY <1>3, <1>4 DEF TaskInStep
<1>6. /\ db'[c] = row /\ row \in Row /\ row.slot = job[i].slot
      /\ \A d \in Code \ {c} : db'[d] = db[d]
  BY <1>4 DEF WriteStep, RowWritten
<1>7. db'[c] # NoRow /\ db'[c].slot = job[i].slot
  BY <1>6, NoneAssumption
<1>8. UNCHANGED <<plant, codeToSlot, asked, slotWrites>>
  BY DEF WriteStep, mapVars, sendVars
<1> HIDE DEF c, row
<1>9. \A d \in Code : MapInStep(d)'
  <2> SUFFICES ASSUME NEW d \in Code PROVE MapInStep(d)'
    OBVIOUS
  <2>1. MapInStep(d)
    BY DEF RowInStep
  <2>2. CASE d # c
    BY <1>1, <1>6, <1>8, <2>1, <2>2 DEF MapInStep, AtWork, RowHasSlot
  <2>3. CASE d = c
    <3>1. ~AtWork(Main, c)
      BY <1>1, <1>2 DEF AtWork
    <3>2. codeToSlot[c] # NoSlot => db[c] # NoRow /\ db[c].slot = codeToSlot[c]
      BY <1>2, <2>1, <2>3, <3>1 DEF MapInStep, RowHasSlot
    <3>3. codeToSlot[c] # NoSlot => db'[c] # NoRow /\ db'[c].slot = codeToSlot[c]
      BY <1>5, <1>7, <3>2 DEF c
    <3> QED BY <1>1, <1>2, <1>8, <2>3, <3>1, <3>3 DEF MapInStep, AtWork, RowHasSlot
  <2> QED BY <2>2, <2>3
<1>10. \A k \in Scans : TaskInStep(k)'
  <2>1. TaskInStep(i)'
    BY <1>1, <1>7, Places DEF TaskInStep
  <2>2. ASSUME NEW k \in Scans \ {i} PROVE TaskInStep(k)'
    <3>1. TaskInStep(k) /\ k \in Thread
      BY DEF RowInStep, Thread
    <3>2. job[k].pc \in Working => job[k].code \in Code \ {c}
      BY <1>2, <3>1, SenderHasCode
    <3>3. job[k].pc \in Working => db'[job[k].code] = db[job[k].code]
      BY <1>6, <3>2
    <3> QED BY <1>1, <3>1, <3>3, Places DEF TaskInStep
  <2> QED BY <2>1, <2>2
<1>11. job'[Main].pc # "idle" => db'[job'[Main].code] # NoRow
  <2>1. job[Main].pc # "idle" => job[Main].pc \in Working
    BY Places DEF Typed
  <2>2. job[Main].pc # "idle" => job[Main].code \in Code \ {c}
    BY <1>1, <1>2, <2>1, SenderHasCode
  <2> QED BY <1>1, <1>6, <2>2 DEF RowInStep
<1>12. \A d \in Code : asked'[d] > 0 \/ slotWrites'[d] # << >> => db'[d] # NoRow
  BY <1>6, <1>7, <1>8 DEF RowInStep
<1> QED BY <1>9, <1>10, <1>11, <1>12 DEF RowInStep

\* A slot is known to a task, and is that of the row.
LEMMA RowKnown ==
  ASSUME Typed, TypeOK, OneWork, RowInStep, ~plant.overlap, ~plant.dbFails,
         NEW i \in Scans, KnownStep(i)
  PROVE  RowInStep'
<1> DEFINE c == job[i].code
           slot == job[i].slot
<1>1. /\ i \in Thread /\ Main \in Thread /\ i # Main
      /\ \A k \in Thread \ {i} : job'[k] = job[k]
      /\ job'[i].code = c /\ job'[i].slot = slot /\ job'[i].pc \in Sending
      /\ codeToSlot'[c] = slot
      /\ \A d \in Code \ {c} : codeToSlot'[d] = codeToSlot[d]
      /\ UNCHANGED <<plant, db, asked, slotWrites>>
  BY MainIsNoScan, Places DEF KnownStep, SendsOwn, Sends, JobStep, Thread, sendVars
<1>2. /\ c \in Code /\ slotWrites[c] = << >>
      /\ \A k \in Thread : job[k].pc \in Working /\ job[k].code = c => k = i
  BY <1>1, OnlyWork, Places DEF KnownStep
<1>3. db[c] # NoRow /\ slot = db[c].slot
  BY DEF KnownStep, RowInStep, TaskInStep
<1> HIDE DEF c, slot
<1>4. \A d \in Code : MapInStep(d)'
  <2> SUFFICES ASSUME NEW d \in Code PROVE MapInStep(d)'
    OBVIOUS
  <2>1. CASE d # c
    <3>1. MapInStep(d)
      BY DEF RowInStep
    <3> QED BY <1>1, <2>1, <3>1 DEF MapInStep, AtWork, RowHasSlot
  <2>2. CASE d = c
    <3>1. ~(job'[Main].code = c /\ job'[Main].pc \in Working)
      BY <1>1, <1>2
    <3> QED BY <1>1, <1>2, <1>3, <2>2, <3>1 DEF MapInStep, AtWork, RowHasSlot
  <2> QED BY <2>1, <2>2
<1>5. \A k \in Scans : TaskInStep(k)'
  <2>1. TaskInStep(i)'
    BY <1>1, <1>3, Places DEF TaskInStep
  <2>2. \A k \in Scans \ {i} : TaskInStep(k)'
    BY <1>1 DEF RowInStep, TaskInStep, Thread
  <2> QED BY <2>1, <2>2
<1>6. job'[Main].pc # "idle" => db'[job'[Main].code] # NoRow
  BY <1>1 DEF RowInStep
<1>7. \A d \in Code : asked'[d] > 0 \/ slotWrites'[d] # << >> => db'[d] # NoRow
  BY <1>1 DEF RowInStep
<1> QED BY <1>4, <1>5, <1>6, <1>7 DEF RowInStep
\* The answer: the slot is in the map, the main thread has it.
LEMMA RowAnswered ==
  ASSUME Typed, TypeOK, OneWork, RowInStep, ~plant.overlap, ~plant.dbFails,
         NEW c \in Code, AnswerStep(c)
  PROVE  RowInStep'
<1>1. PICK slot \in Int : Sends(Main, c, slot)
  BY DEF AnswerStep, Answered
<1>2. /\ Main \in Thread /\ Main \notin Scans /\ job[Main].pc = "idle" /\ asked[c] > 0
      /\ \A k \in Scans : job'[k] = job[k]
      /\ job'[Main].code = c /\ job'[Main].slot = slot /\ job'[Main].pc \in Sending
      /\ codeToSlot'[c] = slot
      /\ \A d \in Code \ {c} : codeToSlot'[d] = codeToSlot[d]
      /\ asked' = [asked EXCEPT ![c] = @ - 1]
      /\ UNCHANGED <<plant, db, slotWrites>>
  BY <1>1, MainIsNoScan, Places DEF AnswerStep, Answered, Sends, JobStep, Thread, sendVars
<1>3. slotWrites[c] = << >> /\ db[c] # NoRow
  BY <1>2 DEF OneWork, RowInStep
<1>4. asked \in [Code -> 0 .. MaxScans]
  BY DEF TypeOK
<1>5. \A d \in Code : asked'[d] > 0 => asked[d] > 0
  BY <1>2, <1>4
<1>6. \A d \in Code : MapInStep(d)'
  <2> SUFFICES ASSUME NEW d \in Code PROVE MapInStep(d)'
    OBVIOUS
  <2>1. CASE d # c
    <3>1. MapInStep(d)
      BY DEF RowInStep
    <3>2. ~AtWork(Main, d)
      BY <1>2, Places DEF AtWork
    <3> QED BY <1>2, <2>1, <3>1, <3>2 DEF MapInStep, AtWork, RowHasSlot
  <2>2. CASE d = c
    BY <1>2, <1>3, <2>2, Places DEF MapInStep, AtWork, RowHasSlot
  <2> QED BY <2>1, <2>2
<1>7. \A k \in Scans : TaskInStep(k)'
  BY <1>2 DEF RowInStep, TaskInStep
<1>8. job'[Main].pc # "idle" => db'[job'[Main].code] # NoRow
  BY <1>2, <1>3
<1>9. \A d \in Code : asked'[d] > 0 \/ slotWrites'[d] # << >> => db'[d] # NoRow
  BY <1>2, <1>5 DEF RowInStep
<1> QED BY <1>6, <1>7, <1>8, <1>9 DEF RowInStep

\* The main thread sends: it keeps its code and its slot.
LEMMA RowSent ==
  ASSUME Typed, TypeOK, RowInStep, ~plant.overlap, ~plant.dbFails, SendMapStep(Main)
  PROVE  RowInStep'
<1>1. /\ Main \in Thread /\ Main \notin Scans /\ job[Main].pc = "sendFound"
      /\ \A k \in Scans : job'[k] = job[k]
      /\ job'[Main].pc = "erase" /\ job'[Main].code = job[Main].code
      /\ job'[Main].slot = job[Main].slot
      /\ UNCHANGED <<plant, db, codeToSlot, asked, slotWrites>>
  BY MainIsNoScan DEF SendMapStep, JobStep, KeepsSlot, KeepsParcel, Thread, mapVars
<1>2. \A c \in Code : MapInStep(c)'
  <2> SUFFICES ASSUME NEW c \in Code PROVE MapInStep(c)'
    OBVIOUS
  <2>1. MapInStep(c)
    BY DEF RowInStep
  <2>2. (job'[Main].code = c /\ job'[Main].pc \in Working) <=> AtWork(Main, c)
    BY <1>1, Places DEF AtWork
  <2> QED BY <1>1, <2>1, <2>2 DEF MapInStep, AtWork, RowHasSlot
<1>3. \A k \in Scans : TaskInStep(k)'
  BY <1>1 DEF RowInStep, TaskInStep
<1>4. job'[Main].pc # "idle" => db'[job'[Main].code] # NoRow
  BY <1>1 DEF RowInStep
<1>5. \A c \in Code : asked'[c] > 0 \/ slotWrites'[c] # << >> => db'[c] # NoRow
  BY <1>1 DEF RowInStep
<1> QED BY <1>2, <1>3, <1>4, <1>5 DEF RowInStep

\* The main thread is done with a slot: it is left to be written.
LEMMA RowLeft ==
  ASSUME Typed, TypeOK, OneWork, RowInStep, ~plant.overlap, ~plant.dbFails,
         EraseStep(Main)
  PROVE  RowInStep'
<1> DEFINE c == job[Main].code
           slot == job[Main].slot
<1>1. /\ Main \in Thread /\ Main \notin Scans /\ job[Main].pc = "erase"
      /\ \A k \in Scans : job'[k] = job[k]
      /\ job'[Main].pc = "idle"
      /\ slotWrites' = [slotWrites EXCEPT ![c] = Append(@, slot)]
      /\ UNCHANGED <<plant, db, codeToSlot, asked>>
  BY MainIsNoScan DEF EraseStep, Finished, JobStep, Thread
<1>2. c \in Code /\ slotWrites[c] = << >>
  BY <1>1, OnlyWork, Places
<1>3. slotWrites \in [Code -> Seq(Int)] /\ slot \in Int
  BY <1>1 DEF Typed, Thread, Job
<1>4. db[c] # NoRow
  BY <1>1 DEF RowInStep
<1>5. AtWork(Main, c)
  BY <1>1, Places DEF AtWork
<1> HIDE DEF c, slot
<1>6. /\ slotWrites'[c] = Append(<< >>, slot)
      /\ \A d \in Code \ {c} : slotWrites'[d] = slotWrites[d]
  BY <1>1, <1>2, <1>3
<1>7. slotWrites'[c] # << >> /\ slotWrites'[c][1] = slot
  BY <1>3, <1>6
<1>8. \A d \in Code : MapInStep(d)'
  <2> SUFFICES ASSUME NEW d \in Code PROVE MapInStep(d)'
    OBVIOUS
  <2>1. MapInStep(d)
    BY DEF RowInStep
  <2>2. ~(job'[Main].code = d /\ job'[Main].pc \in Working)
    BY <1>1, Places
  <2>3. CASE d # c
    <3>1. ~AtWork(Main, d)
      BY <2>3 DEF AtWork, c
    <3> QED BY <1>1, <1>6, <2>1, <2>2, <2>3, <3>1 DEF MapInStep, AtWork, RowHasSlot
  <2>4. CASE d = c
    <3>1. codeToSlot[c] # NoSlot => codeToSlot[c] = slot
      BY <1>5, <2>1, <2>4 DEF MapInStep, slot
    <3> QED BY <1>1, <1>7, <2>2, <2>4, <3>1 DEF MapInStep, AtWork, RowHasSlot
  <2> QED BY <2>3, <2>4
<1>9. \A k \in Scans : TaskInStep(k)'
  BY <1>1 DEF RowInStep, TaskInStep
<1>10. job'[Main].pc = "idle"
  BY <1>1
<1>11. \A d \in Code : asked'[d] > 0 \/ slotWrites'[d] # << >> => db'[d] # NoRow
  BY <1>1, <1>4, <1>6 DEF RowInStep
<1> QED BY <1>8, <1>9, <1>10, <1>11 DEF RowInStep

\* It is written.
LEMMA RowRecorded ==
  ASSUME Typed, TypeOK, OneWork, RowInStep, ~plant.overlap, ~plant.dbFails,
         NEW c \in Code, NEW k, RecordStep(c, k)
  PROVE  RowInStep'
<1> DEFINE slot == slotWrites[c][k]
           rest == RemoveAt(slotWrites[c], k)
<1>1. /\ UNCHANGED <<plant, codeToSlot, job, asked>>
      /\ slotWrites' = [slotWrites EXCEPT ![c] = rest]
      /\ rest \in Seq(Int) /\ Len(rest) = Len(slotWrites[c]) - 1
      /\ k \in DOMAIN slotWrites[c]
      /\ \A d \in Code \ {c} : db'[d] = db[d]
      /\ db[c] # NoRow => db'[c] # NoRow /\ db'[c].slot = slot
  BY DEF RecordStep, SlotWritten, mapVars
<1>2. slotWrites \in [Code -> Seq(Int)]
  BY DEF Typed
<1>3. slotWrites[c] # << >>
  BY <1>1
<1>4. /\ Len(slotWrites[c]) = 1 /\ DOMAIN job = Thread
      /\ \A j \in Thread : ~AtWork(j, c)
  BY <1>3 DEF OneWork, Typed, Thread
<1>5. k = 1
  <2>1. DOMAIN slotWrites[c] = 1 .. 1
    BY <1>2, <1>4, LenProperties
  <2> QED BY <1>1, <2>1
<1> HIDE DEF rest, slot
<1>6. rest = << >>
  <2>1. Len(rest) = 0
    BY <1>1, <1>4
  <2> QED BY <1>1, <2>1, EmptySeq
<1>7. \A d \in Code : slotWrites'[d] = IF d = c THEN << >> ELSE slotWrites[d]
  BY <1>1, <1>2, <1>6
<1>8. db'[c] # NoRow /\ db'[c].slot = slotWrites[c][1]
  BY <1>1, <1>3, <1>5 DEF RowInStep, slot
<1>9. \A d \in Code : MapInStep(d)'
  <2> SUFFICES ASSUME NEW d \in Code PROVE MapInStep(d)'
    OBVIOUS
  <2>1. MapInStep(d)
    BY DEF RowInStep
  <2>2. CASE d # c
    BY <1>1, <1>7, <2>1, <2>2 DEF MapInStep, AtWork, RowHasSlot
  <2>3. CASE d = c
    <3>1. ~AtWork(Main, c)
      BY <1>4 DEF Thread
    <3>2. codeToSlot[c] # NoSlot => codeToSlot[c] = slotWrites[c][1]
      BY <1>3, <2>1, <2>3 DEF MapInStep
    <3> QED BY <1>1, <1>7, <1>8, <2>3, <3>1, <3>2 DEF MapInStep, AtWork, RowHasSlot
  <2> QED BY <2>2, <2>3
<1>10. \A i \in Scans : TaskInStep(i)'
  <2> SUFFICES ASSUME NEW i \in Scans PROVE TaskInStep(i)'
    OBVIOUS
  <2>1. TaskInStep(i) /\ i \in Thread
    BY DEF RowInStep, Thread
  <2>2. job[i].pc \in Working => job[i].code \in Code \ {c}
    BY <1>4, <2>1, SenderHasCode DEF AtWork
  <2> QED BY <1>1, <2>1, <2>2, Places DEF TaskInStep
<1>11. job'[Main].pc # "idle" => db'[job'[Main].code] # NoRow
  <2>1. job[Main].pc # "idle" => job[Main].pc \in Working
    BY Places DEF Typed
  <2>2. job[Main].pc # "idle" => job[Main].code \in Code \ {c}
    BY <1>4, <2>1, SenderHasCode DEF AtWork, Thread
  <2> QED BY <1>1, <2>2 DEF RowInStep
<1>12. \A d \in Code : asked'[d] > 0 \/ slotWrites'[d] # << >> => db'[d] # NoRow
  BY <1>1, <1>7, <1>8 DEF RowInStep
<1> QED BY <1>9, <1>10, <1>11, <1>12 DEF RowInStep

\* Every step keeps the row in step with the map.
LEMMA RowStays ==
  ASSUME Typed, TypeOK, Referred, MapOfCarrier, OneWork, RowInStep, Next
  PROVE  RowInStep'
<1>1. CASE plant.overlap \/ plant.dbFails
  BY <1>1, FramesApart DEF RowInStep
<1>2. CASE ~plant.overlap /\ ~plant.dbFails
  <2>1. CASE /\ UNCHANGED <<plant, db, job, asked, slotWrites>>
             /\ \A c \in Code : codeToSlot'[c] = codeToSlot[c] \/ codeToSlot'[c] = NoSlot
    <3>1. \A c \in Code : MapInStep(c)'
      BY <1>2, <2>1 DEF RowInStep, MapInStep, AtWork, RowHasSlot
    <3>2. \A i \in Scans : TaskInStep(i)'
      BY <1>2, <2>1 DEF RowInStep, TaskInStep
    <3> QED BY <1>2, <2>1, <3>1, <3>2 DEF RowInStep
  <2>2. \A c \in Code : asked[c] > 0 => db[c] # NoRow
    BY <1>2 DEF RowInStep
  <2>3. ASSUME NEW i \in Scans,
               SupplyStep(i) \/ \E c \in Code, m \in Number : ScanStep(i, c, m)
        PROVE  RowInStep'
    <3>1. \E pc \in {"supply", "query"} : JobStep(i, pc)
      BY <2>3 DEF SupplyStep, ScanStep, ScanJob
    <3>2. TaskInStep(i)'
      BY <3>1, Places DEF JobStep, TaskInStep
    <3>3. UNCHANGED <<plant, db, codeToSlot, slotWrites, asked>>
      BY <2>3 DEF SupplyStep, ScanStep, mapVars, sendVars
    <3> QED BY <1>2, <2>2, <3>1, <3>2, <3>3, RowMoves
  <2>4. ASSUME NEW i \in Scans, QueryStep(i)
        PROVE  RowInStep'
    <3>1. JobStep(i, "write") /\ job'[i].code = job[i].code
          /\ UNCHANGED <<plant, db, codeToSlot, slotWrites, asked>>
      BY <2>4 DEF QueryStep, RowRead, KeepsParcel, mapVars, sendVars
    <3>2. TaskInStep(i)'
      BY <1>2, <2>4, <3>1, Places DEF QueryStep, RowRead, JobStep, TaskInStep
    <3> QED BY <1>2, <2>2, <3>1, <3>2, RowMoves
  <2>5. ASSUME NEW i \in Scans, PassStep(i)
        PROVE  RowInStep'
    <3>1. /\ \E pc \in {"mode2", "skipped"} : JobStep(i, pc)
          /\ job'[i].code = job[i].code /\ job'[i].slot = job[i].slot
          /\ job[i].pc \in {"mode1", "mode2"}
          /\ UNCHANGED <<plant, db, codeToSlot, slotWrites, asked>>
      BY <2>5 DEF PassStep, KeepsSlot, KeepsParcel, mapVars, sendVars
    <3>2. TaskInStep(i)'
      BY <1>2, <3>1, Places DEF RowInStep, JobStep, TaskInStep
    <3> QED BY <1>2, <2>2, <3>1, <3>2, RowMoves
  <2>6. ASSUME NEW i \in Scans, AskStep(i)
        PROVE  RowInStep'
    <3>1. /\ JobStep(i, "done") /\ asked' = [asked EXCEPT ![job[i].code] = @ + 1]
          /\ UNCHANGED <<plant, db, codeToSlot, slotWrites>>
      BY <2>6 DEF AskStep, Asks, mapVars, sendVars
    <3>2. TaskInStep(i)'
      BY <3>1, Places DEF JobStep, TaskInStep
    <3>3. db[job[i].code] # NoRow
      BY <1>2, <2>6 DEF AskStep, RowInStep, TaskInStep
    <3>4. asked \in [Code -> 0 .. MaxScans]
      BY DEF TypeOK
    <3>5. \A c \in Code : asked'[c] > 0 => db[c] # NoRow
      BY <2>2, <3>1, <3>3, <3>4
    <3> QED BY <1>2, <3>1, <3>2, <3>5, RowMoves
  <2>7. ASSUME NEW j \in Scans, SendMapStep(j) \/ EraseStep(j)
        PROVE  RowInStep'
    <3>1. /\ \E pc \in {"erase", "done"} : JobStep(j, pc)
          /\ job'[j].code = job[j].code /\ job'[j].slot = job[j].slot
          /\ job[j].pc \in {"sendFound", "erase"}
          /\ UNCHANGED <<plant, db, codeToSlot, slotWrites, asked>>
      BY <2>7, MainIsNoScan
      DEF SendMapStep, EraseStep, Finished, KeepsSlot, KeepsParcel, mapVars
    <3>2. TaskInStep(j)'
      BY <1>2, <3>1, Places DEF RowInStep, JobStep, TaskInStep
    <3> QED BY <1>2, <2>2, <3>1, <3>2, RowMoves
  <2>8. ASSUME NEW j \in Thread, StationStep(j) \/ SendRowStep(j)
        PROVE  FALSE
    BY <1>2, <2>8 DEF StationStep, SendRowStep, OneWork, Typed, Thread
  <2>9. CASE JobSteps
    <3>1. ASSUME NEW j \in Thread, SendMapStep(j) \/ EraseStep(j)
          PROVE  RowInStep'
      BY <1>2, <2>7, <3>1, RowSent, RowLeft DEF Thread
    <3> QED BY <1>2, <2>3, <2>4, <2>5, <2>6, <2>8, <2>9, <3>1, RowWrites, RowKnown, RowAnswered
        DEF JobSteps
  <2>10. ASSUME NEW c \in Code, EndStep(c)
         PROVE  RowInStep'
    <3>1. /\ asked' = [asked EXCEPT ![c] = @ - 1] /\ asked \in [Code -> 0 .. MaxScans]
          /\ UNCHANGED <<plant, db, job, slotWrites, codeToSlot>>
      BY <2>10 DEF EndStep, TypeOK, mapVars, sendVars
    <3>2. \A d \in Code : asked'[d] > 0 => asked[d] > 0
      BY <2>10, <3>1 DEF EndStep
    <3>3. \A d \in Code : MapInStep(d)'
      BY <1>2, <3>1 DEF RowInStep, MapInStep, AtWork, RowHasSlot
    <3>4. \A i \in Scans : TaskInStep(i)'
      BY <1>2, <3>1 DEF RowInStep, TaskInStep
    <3> QED BY <1>2, <3>1, <3>2, <3>3, <3>4 DEF RowInStep
  <2>11. \/ /\ UNCHANGED <<plant, db, job, asked, slotWrites>>
            /\ \A c \in Code : codeToSlot'[c] = codeToSlot[c] \/ codeToSlot'[c] = NoSlot
         \/ JobSteps
         \/ \E c \in Code : EndStep(c)
         \/ \E c \in Code : \E k : RecordStep(c, k)
    BY EveryStep DEF OperatorStep, FrameSteps, ParcelsKept, mapVars, sendVars
  <2> QED BY <1>2, <2>1, <2>9, <2>10, <2>11, RowRecorded
<1> QED BY <1>1, <1>2

\* The row in step has the slot of the map once nobody works on the code.
LEMMA InStepIsRecorded ==
  ASSUME RowInStep, Typed
  PROVE  SlotRecorded
<1> SUFFICES ASSUME NEW c \in Code, ~plant.overlap, ~plant.dbFails, ~InWork(c),
                    codeToSlot[c] # NoSlot
             PROVE  db[c] # NoRow /\ db[c].slot = codeToSlot[c]
  BY DEF SlotRecorded
<1>1. MapInStep(c)
  BY DEF RowInStep
<1>2. ~AtWork(Main, c) /\ slotWrites[c] = << >>
  BY DEF InWork, AtWork, Typed
<1> QED BY <1>1, <1>2 DEF MapInStep, RowHasSlot
-----------------------------------------------------------------------------
(* The theorems.                                                           *)

\* No thread is at work at the start.
LEMMA InitJobs ==
  ASSUME Init
  PROVE  /\ \A j \in DOMAIN job : job[j] = IdleJob
         /\ \A j \in DOMAIN job : job[j].pc = "idle"
         /\ \A j \in DOMAIN job : job[j].pc \notin Working
         /\ \A f \in Frames : frame[f] = IdleFrame
         /\ \A c \in Code : ~InWork(c)
         /\ \A i \in Scans : ~Started(i)
         /\ job[Main].pc = "idle"
<1>1. \A j \in Scans \cup {Main} : job[j] = IdleJob
  BY DEF Init
<1>2. DOMAIN job = Scans \cup {Main}
  BY DEF Init
<1>3. IdleJob.pc = "idle" /\ "idle" \notin Working
  BY DEF IdleJob, Working, Sending
<1>4. \A c \in Code : asked[c] = 0 /\ slotWrites[c] = << >>
  BY DEF Init
<1>5. \A c \in Code : ~InWork(c)
  BY <1>1, <1>2, <1>3, <1>4 DEF InWork
<1>6. \A f \in Frames : frame[f] = IdleFrame
  BY DEF Init
<1> QED BY <1>1, <1>2, <1>3, <1>5, <1>6 DEF Started

\* The types hold at the start.
LEMMA InitTypes ==
  ASSUME Init
  PROVE  Typed /\ TypeOK
<1>0. 0 \in 0 .. MaxOrder /\ 0 \in 0 .. MaxScans /\ 0 \in 0 .. MaxSwitches /\ 0 \in 0 .. 2
  BY ParcelAssumption
<1>1. IdleJob \in Job
  BY DEF IdleJob, Job, JobPc
<1>2. IdleFrame \in Frame
  <2>1. << >> \in Seq(Number \cup {Garbage})
    BY EmptySeq
  <2>2. "idle" \in FramePc /\ -1 \in Int
    BY FramePlaces
  <2> QED BY <1>0, <2>1, <2>2 DEF IdleFrame, Frame
<1>3. plant \in Plant /\ job \in [Scans \cup {Main} -> Job] /\ frame \in [Frames -> Frame]
  BY <1>1, <1>2, ParcelAssumption DEF Init
<1>4. db \in [Code -> Row \cup {NoRow}] /\ slotWrites \in [Code -> Seq(Int)]
  BY EmptySeq DEF Init
<1>5. plc \in [supplied : SUBSET Scans, stored : Seq(Scans), lost : SUBSET Scans,
              slots : SUBSET SlotMessage]
  BY EmptySeq DEF Init
<1>6. \A c \in Code : asked[c] <= Cardinality(Done)
  <2>1. Done = {}
    BY InitJobs DEF Done, Init, Started
  <2>2. Cardinality(Done) = 0
    BY <2>1, FS_EmptySet
  <2>3. \A c \in Code : asked[c] = 0
    BY DEF Init
  <2> QED BY <2>2, <2>3
<1>7. Typed
  <2>1. job[Main].pc \in Sending \cup {"idle", "erase"} /\ ~Started(Main)
    BY InitJobs DEF Started
  <2>2. \A i \in Scans : ~Started(i)
    BY InitJobs
  <2> QED BY <1>3, <1>4, <1>5, <1>6, <2>1, <2>2 DEF Typed
<1>8. /\ running \in BOOLEAN /\ mode \in 0 .. 2 /\ switches \in 0 .. MaxSwitches
      /\ order \in [Supply -> 0 .. MaxOrder]
  BY <1>0 DEF Init
<1>9. /\ msgToCode \in [Number -> Code \cup {NoCode, Empty}]
      /\ codeToMsg \in [Code -> Number \cup {NoNumber}]
      /\ codeToSlot \in [Code -> Int \cup {NoSlot}]
      /\ PackageSlots \subseteq DOMAIN slotToPackage
  BY DEF Init
<1>10. carrier \in [Number -> 0 .. MaxScans] /\ asked \in [Code -> 0 .. MaxScans]
  BY <1>0 DEF Init
<1>11. /\ \A c \in Code : db[c] = NoRow \/ db[c] \in Row
       /\ \A j \in DOMAIN job : job[j].pc \in Working \cup {"idle", "done", "skipped"}
       /\ \A c \in Code : slotWrites[c] \in Seq(Int)
       /\ plc.stored \in Seq(Scans) /\ refused \subseteq Code
       /\ gone \subseteq Scans \cup {Main} /\ torn \subseteq Frames
  BY <1>4, <1>5, InitJobs DEF Init
<1> QED BY <1>7, <1>8, <1>9, <1>10, <1>11 DEF TypeOK

\* Nothing was said, sent or reported at the start, and nobody is at work.
LEMMA InitInv ==
  ASSUME Init
  PROVE  ParcelInv
<1>1. Typed /\ TypeOK
  BY InitTypes
<1>2. ModeChosen
  BY InitJobs DEF Init, ModeChosen, Started
<1>3. Carried
  <2>1. \A m \in Number : carrier[m] = 0 /\ msgToCode[m] = NoCode
    BY DEF Init
  <2>2. \A i \in Scans : job[i].pc \notin Working
    BY InitJobs, <1>1 DEF Typed
  <2> QED BY <2>1, <2>2, NoneAssumption DEF Carried
<1>4. \A f \in Frames : frame[f].pc = "idle" /\ frame[f].pc \notin Referring /\ ~Busy(f)
  BY InitJobs DEF IdleFrame, Referring, Busy
<1>5. /\ Referred /\ Meeting /\ FrameSlotsKnown
      /\ ReportsPlaced /\ ReportedOnce /\ ReportedWasSent
  <2>1. torn = {} /\ reports = {}
    BY DEF Init
  <2>2. Referred /\ Meeting
    BY <1>4, <2>1, FramePlaces DEF Referred, Meeting
  <2>3. FrameSlotsKnown
    BY <1>4 DEF FrameSlotsKnown, FrameSlotKnown
  <2> QED BY <2>1, <2>2, <2>3 DEF ReportsPlaced, ReportedOnce, ReportedWasSent
<1>6. SlotsKnown
  <2>1. \A c \in Code : codeToSlot[c] = NoSlot /\ db[c] = NoRow /\ slotWrites[c] = << >>
    BY DEF Init
  <2>2. \A c \in Code : DOMAIN slotWrites[c] = {}
    BY <2>1
  <2> QED BY <2>1, <2>2, InitJobs DEF SlotsKnown
<1>7. MapOfCarrier /\ SlotForCarrier /\ AnnouncedFirst
  BY InitJobs DEF Init, MapOfCarrier, SlotForCarrier, AnnouncedFirst
<1>8. \A c \in Code : asked[c] = 0 /\ slotWrites[c] = << >> /\ codeToSlot[c] = NoSlot
  BY DEF Init
<1>9. plc.slots = {}
  BY DEF Init
<1>10. OneWork
  BY <1>8, <1>9, InitJobs DEF OneWork, AtWork
<1>11. Announced
  <2>1. plc.stored = << >> /\ plc.lost = {}
    BY DEF Init
  <2>2. \A j \in DOMAIN job : job[j].pc \notin Working
    BY InitJobs
  <2>3. \A i \in Scans : job[i].pc # "supply"
    BY InitJobs, <1>1 DEF Typed
  <2> QED BY <1>8, <2>1, <2>2, <2>3 DEF Announced
<1>12. RowInStep
  BY <1>8, InitJobs DEF RowInStep, MapInStep, TaskInStep, Sending, Started
<1> QED BY <1>1, <1>2, <1>3, <1>5, <1>6, <1>7, <1>10, <1>11, <1>12 DEF ParcelInv

\* A step that changes nothing keeps them.
LEMMA NothingChanges ==
  ASSUME ParcelInv, UNCHANGED vars
  PROVE  ParcelInv'
<1>1. /\ UNCHANGED <<plant, running, mode, switches, order>>
      /\ UNCHANGED <<msgToCode, codeToMsg, codeToSlot>>
      /\ UNCHANGED <<db, job, carrier, plc, slotToPackage>>
      /\ UNCHANGED <<asked, refused, slotWrites, gone>>
      /\ UNCHANGED <<frame, torn, met, reports>>
  BY DEF vars, lineVars, mapVars, askVars, sendVars, unloadVars
<1>2. Typed'
  BY <1>1 DEF ParcelInv, Typed, Started, Done
<1>3. TypeOK' /\ ModeChosen'
  BY <1>1 DEF ParcelInv, TypeOK, ModeChosen, Started
<1>4. Carried' /\ Referred'
  BY <1>1 DEF ParcelInv, Carried, Referred, Started, Busy, Segment
<1>5. Meeting'
  BY <1>1 DEF ParcelInv, Meeting, Busy
<1>6. ReportsPlaced'
  BY <1>1 DEF ParcelInv, ReportsPlaced, StillInHand, Forgotten, Started, Segment
<1>7. ReportedOnce' /\ ReportedWasSent'
  BY <1>1 DEF ParcelInv, ReportedOnce, ReportedWasSent, Known
<1>8. SlotsKnown' /\ FrameSlotsKnown'
  BY <1>1 DEF ParcelInv, SlotsKnown, FrameSlotsKnown, FrameSlotKnown, Known, Segment
<1>9. MapOfCarrier' /\ SlotForCarrier' /\ AnnouncedFirst'
  BY <1>1 DEF ParcelInv, MapOfCarrier, SlotForCarrier, AnnouncedFirst, InWork, Started
<1>10. OneWork' /\ Announced'
  BY <1>1 DEF ParcelInv, OneWork, Announced, Announcements, AtWork
<1>11. RowInStep'
  BY <1>1 DEF ParcelInv, RowInStep, MapInStep, TaskInStep, RowHasSlot, AtWork
<1> QED BY <1>2, <1>3, <1>4, <1>5, <1>6, <1>7, <1>8, <1>9, <1>10, <1>11 DEF ParcelInv

\* The invariants of a parcel's way hold together in every state.
THEOREM ParcelInvariant == Spec => []ParcelInv
<1>1. Init => ParcelInv
  BY InitInv
<1>2. ParcelInv /\ [Next]_vars => ParcelInv'
  <2>1. ASSUME ParcelInv, Next PROVE ParcelInv'
    <3>1. Typed /\ TypeOK /\ Referred /\ MapOfCarrier /\ Carried /\ OneWork /\ Next
      BY <2>1 DEF ParcelInv
    <3>2. Typed' /\ TypeOK' /\ Carried' /\ Referred' /\ MapOfCarrier' /\ OneWork'
      BY <3>1, TypesStay, CarriedStays, ReferredStays, MapStays, OneWorkStays
    <3>3. ModeChosen'
      BY <2>1, <3>1, ModeStays DEF ParcelInv
    <3>4. Meeting' /\ ReportsPlaced' /\ ReportedOnce'
      BY <2>1, <3>1, MeetingStays, ReportsPlacedStays, OnceStays DEF ParcelInv
    <3>5. SlotsKnown' /\ FrameSlotsKnown' /\ ReportedWasSent'
      BY <2>1, <3>1, SlotsStay, FrameSlotsStay, WasSentStays DEF ParcelInv
    <3>6. SlotForCarrier'
      BY <2>1, <3>1, ForCarrierStays DEF ParcelInv
    <3>7. Announced' /\ AnnouncedFirst'
      BY <2>1, <3>1, AnnouncedStays, AnnouncedFirstStays DEF ParcelInv
    <3>8. RowInStep'
      BY <2>1, <3>1, RowStays DEF ParcelInv
    <3> QED BY <3>2, <3>3, <3>4, <3>5, <3>6, <3>7, <3>8 DEF ParcelInv
  <2> QED BY <2>1, NothingChanges
<1> QED BY <1>1, <1>2, PTL DEF Spec

\* The maps, the rows, the counters and the threads keep their types.
THEOREM TypeCorrect == Spec => []TypeOK
<1>1. ParcelInv => TypeOK
  BY DEF ParcelInv
<1> QED BY <1>1, ParcelInvariant, PTL

\* A task skips both of its branches only after the mode was changed a second time.
THEOREM SkippedNeedsSwitch == Spec => []SkippedByModeChange
<1>1. ParcelInv => SkippedByModeChange
  BY DEF ParcelInv, ModeChosen, SkippedByModeChange
<1> QED BY <1>1, ParcelInvariant, PTL

\* A scan is reported twice by calls of one kind only by two tasks that were at work at
\* the same time, whatever numbers the PLC repeats and the tasks erase.
THEOREM EachReportedOnce == Spec => []ReportedOnce
<1>1. ParcelInv => ReportedOnce
  BY DEF ParcelInv
<1> QED BY <1>1, ParcelInvariant, PTL

\* A slot reported through a reference was sent to the PLC for the code, or is being
\* sent, or is -1, if no other scan was given the number under the reference.
THEOREM ReportedSlotsWereSent == Spec => []ReportedWasSent
<1>1. ParcelInv => ReportedWasSent
  BY DEF ParcelInv
<1> QED BY <1>1, ParcelInvariant, PTL

\* A slot sent under a number is for the parcel that carries it.
THEOREM SlotsForCarriers == Spec => []SlotForCarrier
<1>1. ParcelInv => SlotForCarrier
  BY DEF ParcelInv
<1> QED BY <1>1, ParcelInvariant, PTL

\* The announcement of a scan is made before its slot is handed over; with a supply port
\* that does not fail, the PLC has heard it by then.
THEOREM AnnouncedBeforeSlot == Spec => []AnnouncedFirst
<1>1. ParcelInv => AnnouncedFirst
  BY DEF ParcelInv
<1> QED BY <1>1, ParcelInvariant, PTL

\* Once work on a code is over, its row has the slot of m_codeToSlotMap.
THEOREM RowsRecorded == Spec => []SlotRecorded
<1>1. ParcelInv => SlotRecorded
  BY InStepIsRecorded DEF ParcelInv
<1> QED BY <1>1, ParcelInvariant, PTL
=============================================================================
