----------------------------- MODULE ParcelFlow -----------------------------
(***************************************************************************)
(* The life of a parcel in dataprocess.cpp: a scan gives it a number on the*)
(* line and a row in the database, the service (JTRequest) answers with its*)
(* terminal code, the slot of that code is sent to the PLC under the       *)
(* parcel's number, and the PLC's unload message reports it.               *)
(*                                                                         *)
(* Who runs what: scans on the supply worker, their rest as tasks of the   *)
(* thread pool, answers on the main thread, unload frames as tasks of the  *)
(* pool.  Tasks read and write the maps and the database with nothing held,*)
(* so every database query and every map operation that another thread can *)
(* come between is a step.  A single map operation is indivisible here; the*)
(* maps themselves are not protected in the code.  Where the code keeps a  *)
(* reference into a map, its entry is read again at each use: it may have  *)
(* been assigned meanwhile, or erased, and then Garbage is read.           *)
(***************************************************************************)
EXTENDS Integers, Sequences, FiniteSets, SequencesExt

CONSTANTS
  Code,            \* barcodes
  Supply,          \* supply stations, 1 .. 12 in the plant
  MaxOrder,        \* 9999: the highest number of a station
  BatchMax,        \* the 5 of takeMsgFromPLCSupplyQueue(5)
  Terminal,        \* the terminal codes the service answers
  ArrivalSlot,     \* arrival_terminalCodeToSlotMap
  DepartureSlot,   \* depature_terminalCodeToSlotMap
  DeliverySlots,   \* the keys of m_slotTodeliveryCodeMap
  PackageSlots,    \* the slots of slot_config
  PdaSlots,        \* the slots the hand scanners name
  Package,         \* what the hand scanners bind to a slot
  NoCode, NoNumber, NoSlot, NoRow,
  Empty,           \* the empty string that operator[] puts into a map
  Garbage,         \* read through a reference whose map entry is gone
  Plants,          \* what varies between plants: see Plant
  MaxScans, MaxFrames, MaxSwitches   \* bounds on the inputs

\* overlap: may a code be scanned while its last scan is in work; dbFails: may
\* statements fail; portFails: may the supply port be busy or its link broken; pda:
\* are hand scanners in use; stations, codes: those in use; scans, frames, switches:
\* how many scans, unload frames and changes of the mode there are.
Plant == [overlap : BOOLEAN, dbFails : BOOLEAN, portFails : BOOLEAN, pda : BOOLEAN,
          stations : SUBSET Supply, codes : SUBSET Code, scans : 0 .. MaxScans,
          frames : 0 .. MaxFrames, switches : 0 .. MaxSwitches]

ASSUME ParcelAssumption ==
  /\ MaxOrder \in Nat \ {0} /\ BatchMax \in Nat \ {0}
  /\ MaxScans \in Nat /\ MaxFrames \in Nat /\ MaxSwitches \in Nat
  /\ Supply \subseteq 1 .. 12
  /\ Plants \subseteq Plant
  /\ \A name \in DOMAIN ArrivalSlot : ArrivalSlot[name] \in Int
  /\ \A name \in DOMAIN DepartureSlot : DepartureSlot[name] \in Int

Main == 0                       \* the thread that runs onTerminalCodeRecv
Scans == 1 .. MaxScans
Frames == 1 .. MaxFrames
Number == Supply \X (1 .. MaxOrder)

\* A row of supply_data.
Row == [supply : Supply, order : 1 .. MaxOrder, slot : Int]

ASSUME NoneAssumption ==
  /\ NoNumber \notin Number /\ Garbage \notin Number
  /\ NoSlot \notin Int /\ NoRow \notin Row
  /\ NoCode \notin Code /\ Empty \notin Code /\ Garbage \notin Code
  /\ NoCode # Empty

\* What the service says of a code: interceptor 1 is "intercepted", order_type
\* 1 is "normal".
Answer == [terminal : Terminal, order_type : {1, 2}, interceptor : {1, 2}]

VARIABLES
  plant,           \* chosen at the start
  running,         \* m_deviceRunning
  mode,            \* m_operateType
  switches,        \* calls of setOperateType so far
  order,           \* m_supplyIDToOrder
  msgToCode,       \* m_msgToCodeMap
  codeToMsg,       \* m_codeToMsgMap
  codeToSlot,      \* m_codeToSlotMap
  slotToPackage,   \* m_slotToPackage
  db,              \* the rows of supply_data
  job,             \* the task of each scan, and the main thread
  carrier,         \* per number, the last scan that was given it
  asked,           \* per code, requestTerminalCode calls not answered yet
  refused,         \* the codes for which such a call ended without an answer
  slotWrites,      \* per code, slots that tasks have still to write to its row
  gone,            \* the threads whose reference into m_codeToMsgMap is dangling
  plc,             \* the outgoing ports: the scans whose number is announced, stored
                   \* to be announced, and lost with the link; slots handed over
  frame,           \* the tasks of the unload frames
  torn,            \* those whose reference into m_msgToCodeMap is dangling
  met,             \* pairs of them that were at work at the same time
  reports          \* the calls that report a parcel to the service

lineVars == <<plant, running, mode, switches, order>>
mapVars == <<msgToCode, codeToMsg, codeToSlot>>
askVars == <<asked, refused>>
sendVars == <<slotWrites, gone>>
unloadVars == <<frame, torn, met, reports>>
vars == <<lineVars, mapVars, db, job, carrier, askVars, sendVars, plc, unloadVars,
          slotToPackage>>

Sending == {"sendFound", "queryId", "queryOrder"}
Working == {"supply", "query", "write", "mode1", "mode2", "erase"} \cup Sending

IdleJob == [pc |-> "idle", code |-> NoCode, number |-> NoNumber,
            found |-> FALSE, slot |-> -1, station |-> -1]
IdleFrame == [pc |-> "idle", left |-> << >>, scan |-> 0, slot |-> -1]

Init ==
  /\ plant \in Plants
  /\ running = FALSE
  /\ mode = 0
  /\ switches = 0
  /\ order = [s \in Supply |-> 0]
  /\ msgToCode = [m \in Number |-> NoCode]
  /\ codeToMsg = [c \in Code |-> NoNumber]
  /\ codeToSlot = [c \in Code |-> NoSlot]
  /\ slotToPackage = [s \in PackageSlots |-> ""]
  /\ db = [c \in Code |-> NoRow]
  /\ job = [j \in Scans \cup {Main} |-> IdleJob]
  /\ carrier = [m \in Number |-> 0]
  /\ asked = [c \in Code |-> 0]
  /\ refused = {}
  /\ slotWrites = [c \in Code |-> << >>]
  /\ gone = {}
  /\ plc = [supplied |-> {}, stored |-> << >>, lost |-> {}, slots |-> {}]
  /\ frame = [f \in Frames |-> IdleFrame]
  /\ torn = {}
  /\ met = {}
  /\ reports = {}
-----------------------------------------------------------------------------
(* The statements of SqlConnection: what one may return, or leave behind in*)
(* supply_data.  The code of a parcel is the key of its row.               *)

\* Nothing (the empty sequence) also when the statement fails.
QueryString(c, column) ==
  {IF db[c] = NoRow THEN << >> ELSE <<db[c][column]>>}
    \cup (IF plant.dbFails THEN {<< >>} ELSE {})

OrMinus1(found) == IF found = << >> THEN -1 ELSE found[1]

OrUnchanged(table) == {table} \cup (IF plant.dbFails THEN {db} ELSE {})

UpdateRow(c, row) ==
  OrUnchanged(IF db[c] = NoRow THEN db ELSE [db EXCEPT ![c] = row])

InsertRow(c, row) ==
  OrUnchanged(IF db[c] = NoRow THEN [db EXCEPT ![c] = row] ELSE db)

UpdateValue(c, slot) ==
  OrUnchanged(IF db[c] = NoRow THEN db ELSE [db EXCEPT ![c].slot = slot])
-----------------------------------------------------------------------------
(* The operator.                                                           *)

SetOperateType(m) ==
  /\ switches < plant.switches
  /\ m # mode
  /\ mode' = m
  /\ switches' = switches + 1
  /\ UNCHANGED <<plant, running, order, mapVars, db, job, carrier, askVars,
                 sendVars, plc, unloadVars, slotToPackage>>

\* The run button works only once a mode is chosen.
Run ==
  /\ ~running
  /\ mode # 0
  /\ running' = TRUE
  /\ UNCHANGED <<plant, mode, switches, order, mapVars, db, job, carrier, askVars,
                 sendVars, plc, unloadVars, slotToPackage>>

Stop ==
  /\ running
  /\ running' = FALSE
  /\ UNCHANGED <<plant, mode, switches, order, mapVars, db, job, carrier, askVars,
                 sendVars, plc, unloadVars, slotToPackage>>

\* A hand scanner binds a package to a slot.
PdaScan(s, p) ==
  /\ running
  /\ plant.pda
  /\ slotToPackage' = [t \in DOMAIN slotToPackage \cup {s} |->
                         IF t = s THEN p ELSE slotToPackage[t]]
  /\ UNCHANGED <<lineVars, mapVars, db, job, carrier, askVars, sendVars, plc,
                 unloadVars>>
-----------------------------------------------------------------------------
(* A scan.                                                                 *)

UpdateSupplyOrder(o) == IF o = MaxOrder THEN 1 ELSE o + 1

\* Faulty variant: the number is written without the station.
SupplyNumberWithoutStation(s, o) == <<CHOOSE t \in Supply : TRUE, o>>

SupplyNumber(s, o) == <<s, o>>

\* Work on a code is under way: a task, an answer, or a write to its row.
InWork(c) ==
  \/ \E j \in DOMAIN job : job[j].code = c /\ job[j].pc \in Working
  \/ asked[c] > 0
  \/ slotWrites[c] # << >>

\* The line moves parcels off before a station comes round to their number.
NumberIsFree(s, o) ==
  LET last == carrier[<<s, o>>]
  IN  last # 0 => ~InWork(job[last].code)

\* onSupplyUDPServerRecv on the supply worker, up to the task it starts.  The
\* guards after the first two are the plant's, not the code's.
Scan(i, c, s) ==
  /\ running
  /\ job[i].pc = "idle"
  /\ \A k \in 1 .. (i - 1) : job[k].pc # "idle"
  /\ i <= plant.scans /\ c \in plant.codes /\ s \in plant.stations
  /\ plant.overlap \/ ~InWork(c)
  /\ NumberIsFree(s, IF order[s] = MaxOrder THEN 1 ELSE order[s] + 1)
  /\ LET o == UpdateSupplyOrder(order[s])
         m == SupplyNumber(s, o)
     IN  /\ order' = [order EXCEPT ![s] = o]
         /\ msgToCode' = [msgToCode EXCEPT ![m] = c]
         /\ codeToMsg' = [codeToMsg EXCEPT ![c] = m]
         /\ carrier' = [carrier EXCEPT ![m] = i]
         /\ job' = [job EXCEPT ![i] = [IdleJob EXCEPT !.pc = "supply",
                                                      !.code = c,
                                                      !.number = m]]
  /\ UNCHANGED <<plant, running, mode, switches, codeToSlot, db, askVars, sendVars,
                 plc, unloadVars, slotToPackage>>

\* Those that go out with the announcement of scan i, and those left in the queue.
Batch(i) ==
  LET waiting == Append(plc.stored, i)
  IN  SubSeq(waiting, 1, IF Len(waiting) < BatchMax THEN Len(waiting) ELSE BatchMax)

Rest(i) == SubSeq(Append(plc.stored, i), Len(Batch(i)) + 1, Len(plc.stored) + 1)

\* Faulty variant: an announcement that finds the port busy is not kept.
TaskSupplyForgets(i) ==
  /\ job[i].pc = "supply"
  /\ job' = [job EXCEPT ![i].pc = "query"]
  /\ \/ plc' = [plc EXCEPT !.supplied = @ \cup ToSet(Batch(i)), !.stored = Rest(i)]
     \/ plant.portFails /\ UNCHANGED plc
  /\ UNCHANGED <<lineVars, mapVars, db, carrier, askVars, sendVars, unloadVars,
                 slotToPackage>>

\* The task starts with sendSupplyDataToPLC: if the port is free the announcement
\* goes out behind those that are stored, or all of them are lost with the link; if
\* it is busy, the announcement is stored until another one finds it free.
TaskSupply(i) ==
  /\ job[i].pc = "supply"
  /\ job' = [job EXCEPT ![i].pc = "query"]
  /\ \/ plc' = [plc EXCEPT !.supplied = @ \cup ToSet(Batch(i)), !.stored = Rest(i)]
     \/ /\ plant.portFails
        /\ plc' = [plc EXCEPT !.lost = @ \cup ToSet(Batch(i)), !.stored = Rest(i)]
     \/ plant.portFails /\ plc' = [plc EXCEPT !.stored = Append(@, i)]
  /\ UNCHANGED <<lineVars, mapVars, db, carrier, askVars, sendVars, unloadVars,
                 slotToPackage>>

\* insertSupplyDataToDB asks for the slot in the row of the code, ...
QueryRow(i) ==
  /\ job[i].pc = "query"
  /\ \E check \in QueryString(job[i].code, "slot") :
       job' = [job EXCEPT ![i].pc = "write",
                          ![i].found = check # << >>,
                          ![i].slot = OrMinus1(check)]
  /\ UNCHANGED <<lineVars, mapVars, db, carrier, askVars, sendVars, plc,
                 unloadVars, slotToPackage>>

\* Faulty variant: the row of a code scanned again loses its slot.
RowOfResetSlot(j) == [supply |-> j.number[1], order |-> j.number[2], slot |-> -1]

RowOf(j) == [supply |-> j.number[1], order |-> j.number[2], slot |-> j.slot]

\* ... then writes the row with the slot it read, or inserts one with -1.
WriteRow(i) ==
  LET c == job[i].code
  IN  /\ job[i].pc = "write"
      /\ job' = [job EXCEPT ![i].pc = "mode1"]
      /\ db' \in IF job[i].found THEN UpdateRow(c, RowOf(job[i]))
                 ELSE InsertRow(c, RowOf(job[i]))
      /\ UNCHANGED <<lineVars, mapVars, carrier, askVars, sendVars, plc,
                     unloadVars, slotToPackage>>

\* The slot of a code is known to thread j: it goes into m_codeToSlotMap, and
\* the number is looked for.
StartSend(j, r) ==
  /\ codeToSlot' = [codeToSlot EXCEPT ![r.code] = r.slot]
  /\ job' = [job EXCEPT ![j] =
               [r EXCEPT !.pc = IF codeToMsg[r.code] = NoNumber
                                THEN "queryId" ELSE "sendFound"]]

\* No slot is known: one is requested.
NotRequested(slot) == slot <= 0

AskOrSend(i) ==
  LET c == job[i].code
  IN  \/ /\ NotRequested(job[i].slot)
         /\ asked' = [asked EXCEPT ![c] = @ + 1]
         /\ job' = [job EXCEPT ![i].pc = "done"]
         /\ UNCHANGED codeToSlot
      \/ /\ ~NotRequested(job[i].slot)
         /\ StartSend(i, job[i])
         /\ UNCHANGED asked

\* requestAndSendToPLC: m_operateType is read for the test for arrivals, ...
TestArrival(i) ==
  /\ job[i].pc = "mode1"
  /\ \/ mode = 1 /\ AskOrSend(i)
     \/ /\ mode # 1
        /\ job' = [job EXCEPT ![i].pc = "mode2"]
        /\ UNCHANGED <<asked, codeToSlot>>
  /\ UNCHANGED <<lineVars, msgToCode, codeToMsg, db, carrier, refused, sendVars, plc,
                 unloadVars, slotToPackage>>

\* Faulty variant: only arrivals are handled.
TestDepartureNever(i) ==
  /\ job[i].pc = "mode2"
  /\ job' = [job EXCEPT ![i].pc = "skipped"]
  /\ UNCHANGED <<lineVars, mapVars, db, carrier, askVars, sendVars, plc,
                 unloadVars, slotToPackage>>

\* ... and again for the test for departures.
TestDeparture(i) ==
  /\ job[i].pc = "mode2"
  /\ \/ mode = 2 /\ AskOrSend(i)
     \/ /\ mode # 2
        /\ job' = [job EXCEPT ![i].pc = "skipped"]
        /\ UNCHANGED <<asked, codeToSlot>>
  /\ UNCHANGED <<lineVars, msgToCode, codeToMsg, db, carrier, refused, sendVars, plc,
                 unloadVars, slotToPackage>>
-----------------------------------------------------------------------------
(* The slot.                                                               *)

\* operator[] of a map gives 0 for a name the tables do not have.
SlotOr0(slots, name) == IF name \in DOMAIN slots THEN slots[name] ELSE 0

SlotOf(a) ==
  LET slots == IF mode = 1 THEN ArrivalSlot ELSE DepartureSlot
  IN  CASE a.interceptor = 1 -> SlotOr0(slots, "intercepted")
        [] a.order_type # 1 \/ a.terminal \notin DOMAIN slots
             -> SlotOr0(slots, "abnormal")
        [] OTHER -> slots[a.terminal]

\* onTerminalCodeRecv on the main thread, up to the message to the PLC.
TerminalCodeRecv(c) ==
  /\ asked[c] > 0
  /\ job[Main].pc = "idle"
  /\ asked' = [asked EXCEPT ![c] = @ - 1]
  /\ \E slot \in {SlotOf(a) : a \in Answer} :
       StartSend(Main, [IdleJob EXCEPT !.code = c, !.slot = slot])
  /\ UNCHANGED <<lineVars, msgToCode, codeToMsg, db, carrier, refused, sendVars, plc,
                 unloadVars, slotToPackage>>

\* The request fails for good, or is dropped: nothing is heard of the code.
RequestEnds(c) ==
  /\ asked[c] > 0
  /\ job[Main].pc = "idle"
  /\ asked' = [asked EXCEPT ![c] = @ - 1]
  /\ refused' = refused \cup {c}
  /\ UNCHANGED <<lineVars, mapVars, db, job, carrier, sendVars, plc, unloadVars,
                 slotToPackage>>

\* sendSlotToPLC hands the slot to its port, under a number.
HandSlot(j, number) ==
  plc' = [plc EXCEPT !.slots = @ \cup
            {[number |-> number, slot |-> job[j].slot, code |-> job[j].code,
              byRow |-> job[j].pc = "queryOrder",
              scan |-> IF number \in Number THEN carrier[number] ELSE 0]}]

\* Nothing is left to do, but for the main thread to start a task for the row.
Finish(j) ==
  IF j = Main
  THEN /\ job' = [job EXCEPT ![j] = IdleJob]
       /\ slotWrites' = [slotWrites EXCEPT ![job[j].code] = Append(@, job[j].slot)]
  ELSE /\ job' = [job EXCEPT ![j].pc = "done"]
       /\ UNCHANGED slotWrites

\* Faulty variant: the entry is erased before the number is read.
SendFoundErased(j) ==
  /\ job[j].pc = "sendFound"
  /\ HandSlot(j, Garbage)
  /\ job' = [job EXCEPT ![j].pc = "erase"]
  /\ gone' = gone \ {j}
  /\ UNCHANGED <<lineVars, mapVars, db, carrier, askVars, slotWrites, unloadVars,
                 slotToPackage>>

\* The number was found, and is read through a reference into the map: what is
\* sent is the number the entry has now, ...
SendFound(j) ==
  /\ job[j].pc = "sendFound"
  /\ HandSlot(j, IF j \in gone THEN Garbage ELSE codeToMsg[job[j].code])
  /\ job' = [job EXCEPT ![j].pc = "erase"]
  /\ gone' = gone \ {j}
  /\ UNCHANGED <<lineVars, mapVars, db, carrier, askVars, slotWrites, unloadVars,
                 slotToPackage>>

\* ... and then the entry is erased, whatever number it has by then.
EraseNumber(j) ==
  LET c == job[j].code
  IN  /\ job[j].pc = "erase"
      /\ codeToMsg' = [codeToMsg EXCEPT ![c] = NoNumber]
      /\ gone' = gone \cup {k \in DOMAIN job : job[k].pc = "sendFound" /\ job[k].code = c}
      /\ Finish(j)
      /\ UNCHANGED <<lineVars, msgToCode, codeToSlot, db, carrier, askVars, plc,
                     unloadVars, slotToPackage>>

\* The number was not found: the row is asked for the station, ...
QueryStation(j) ==
  /\ job[j].pc = "queryId"
  /\ \E id \in QueryString(job[j].code, "supply") :
       job' = [job EXCEPT ![j].pc = "queryOrder", ![j].station = OrMinus1(id)]
  /\ UNCHANGED <<lineVars, mapVars, db, carrier, askVars, sendVars, plc,
                 unloadVars, slotToPackage>>

\* ... then for the order, in a query of its own.
QueryOrder(j) ==
  /\ job[j].pc = "queryOrder"
  /\ \E o \in QueryString(job[j].code, "order") :
       HandSlot(j, <<job[j].station, OrMinus1(o)>>)
  /\ Finish(j)
  /\ UNCHANGED <<lineVars, mapVars, db, carrier, askVars, gone, unloadVars,
                 slotToPackage>>

\* A task of onTerminalCodeRecv writes the slot.
WriteSlot(c, k) ==
  /\ k \in DOMAIN slotWrites[c]
  /\ slotWrites' = [slotWrites EXCEPT ![c] = RemoveAt(@, k)]
  /\ db' \in UpdateValue(c, slotWrites[c][k])
  /\ UNCHANGED <<lineVars, mapVars, job, carrier, askVars, gone, plc, unloadVars,
                 slotToPackage>>
-----------------------------------------------------------------------------
(* An unload frame: segments with the number of a parcel each.  Garbage is *)
(* a segment without a station from 1 to 12.                               *)

\* The segment of a task that it has in hand.
Segment(f) == Head(frame[f].left)

Busy(f) == frame[f].left # << >>

\* What the PLC knows a number from: its announcement, or its slot.
Told == {m \in Number : \/ carrier[m] \in plc.supplied
                        \/ \E p \in plc.slots : p.number = m}

\* The PLC sends it, and repeats a number as it likes.
UnloadFrame(f) ==
  /\ running
  /\ frame[f].pc = "idle"
  /\ \A g \in 1 .. (f - 1) : frame[g].pc # "idle"
  /\ f <= plant.frames
  /\ \E m \in Told : \E left \in {<<m>>, <<Garbage, m>>} \cup {<<n, m>> : n \in Told} :
       frame' = [frame EXCEPT ![f] = [IdleFrame EXCEPT !.pc = "next", !.left = left]]
  /\ met' = met \cup {<<g, f>> : g \in {h \in Frames : Busy(h)}}
  /\ UNCHANGED <<lineVars, mapVars, db, job, carrier, askVars, sendVars, plc, torn,
                 reports, slotToPackage>>

\* The task takes its next segment and looks for the number.  A bad segment ends
\* the task, those after it included.
UnloadFind(f) ==
  LET m == Segment(f)
  IN  /\ frame[f].pc = "next"
      /\ Busy(f)
      /\ frame' =
           [frame EXCEPT ![f] =
              IF m = Garbage THEN [@ EXCEPT !.left = << >>]
              ELSE IF msgToCode[m] = NoCode
                   THEN [@ EXCEPT !.left = Tail(frame[f].left)]
              ELSE [@ EXCEPT !.pc = "refer"]]
      /\ UNCHANGED <<lineVars, mapVars, db, job, carrier, askVars, sendVars, plc,
                     torn, met, reports, slotToPackage>>

\* It takes a reference to the code, by operator[]: an entry that another task has
\* erased meanwhile is made again, with an empty code.
UnloadRefer(f) ==
  LET m == Segment(f)
  IN  /\ frame[f].pc = "refer"
      /\ frame' = [frame EXCEPT ![f].pc = "slot", ![f].scan = carrier[m]]
      /\ msgToCode' = [msgToCode EXCEPT ![m] = IF @ = NoCode THEN Empty ELSE @]
      /\ UNCHANGED <<lineVars, codeToMsg, codeToSlot, db, job, carrier, askVars,
                     sendVars, plc, torn, met, reports, slotToPackage>>

\* What is read through that reference.
CodeOf(f) == IF f \in torn THEN Garbage ELSE msgToCode[Segment(f)]

\* The slot of the code is looked for in m_codeToSlotMap, ...
UnloadSlot(f) ==
  LET c == CodeOf(f)
      known == c \in Code /\ codeToSlot[c] # NoSlot
  IN  /\ frame[f].pc = "slot"
      /\ frame' = [frame EXCEPT ![f].pc = IF known THEN "slotErase" ELSE "slotDb",
                                ![f].slot = IF known THEN codeToSlot[c] ELSE -1]
      /\ UNCHANGED <<lineVars, mapVars, db, job, carrier, askVars, sendVars, plc,
                     torn, met, reports, slotToPackage>>

\* ... and what is there by then is taken out of it.
UnloadSlotErase(f) ==
  /\ frame[f].pc = "slotErase"
  /\ frame' = [frame EXCEPT ![f].pc = "mode1"]
  /\ codeToSlot' = [c \in Code |-> IF c = CodeOf(f) THEN NoSlot ELSE codeToSlot[c]]
  /\ UNCHANGED <<lineVars, msgToCode, codeToMsg, db, job, carrier, askVars, sendVars,
                 plc, torn, met, reports, slotToPackage>>

\* Faulty variant: the query names the column supply_order.
SlotColumnWrong(c) == IF c \in Code THEN QueryString(c, "order") ELSE {<< >>}

SlotColumn(c) == IF c \in Code THEN QueryString(c, "slot") ELSE {<< >>}

\* It is not there: the one in the row.
UnloadSlotDb(f) ==
  /\ frame[f].pc = "slotDb"
  /\ \E slot \in SlotColumn(CodeOf(f)) :
       frame' = [frame EXCEPT ![f].pc = "mode1", ![f].slot = OrMinus1(slot)]
  /\ UNCHANGED <<lineVars, mapVars, db, job, carrier, askVars, sendVars, plc, torn,
                 met, reports, slotToPackage>>

\* A call for the parcel.  found is the scan that carried the number when the
\* reference was taken, scan the one whose code is reported.
Post(f, kind, package) ==
  reports' = reports \cup
    {[kind |-> kind, by |-> <<f, Len(frame[f].left)>>, number |-> Segment(f),
      found |-> frame[f].scan,
      scan |-> IF f \in torn THEN frame[f].scan ELSE carrier[Segment(f)],
      code |-> CodeOf(f), slot |-> frame[f].slot, package |-> package]}

\* The scan out of the warehouse, for arrivals, ...
UnloadArrival(f) ==
  /\ frame[f].pc = "mode1"
  /\ frame' = [frame EXCEPT ![f].pc = IF mode = 1 THEN "small" ELSE "mode2"]
  /\ IF mode = 1 /\ frame[f].slot \in DeliverySlots
     THEN Post(f, "outbound", << >>) ELSE UNCHANGED reports
  /\ UNCHANGED <<lineVars, mapVars, db, job, carrier, askVars, sendVars, plc, torn,
                 met, slotToPackage>>

\* ... or the build, for departures, ...
UnloadDeparture(f) ==
  /\ frame[f].pc = "mode2"
  /\ frame' = [frame EXCEPT ![f].pc = "small"]
  /\ IF mode = 2 /\ frame[f].slot \in DOMAIN slotToPackage
     THEN Post(f, "build", <<slotToPackage[frame[f].slot]>>) ELSE UNCHANGED reports
  /\ UNCHANGED <<lineVars, mapVars, db, job, carrier, askVars, sendVars, plc, torn,
                 met, slotToPackage>>

\* ... then requestSmallData, ...
UnloadSmall(f) ==
  /\ frame[f].pc = "small"
  /\ frame' = [frame EXCEPT ![f].pc = "forget"]
  /\ Post(f, "small", << >>)
  /\ UNCHANGED <<lineVars, mapVars, db, job, carrier, askVars, sendVars, plc, torn,
                 met, slotToPackage>>

\* Faulty variant: the number stays in m_msgToCodeMap.
ForgetKeeps(m) == UNCHANGED msgToCode

Forget(m) == msgToCode' = [msgToCode EXCEPT ![m] = NoCode]

\* The task has a reference into m_msgToCodeMap.
Referring == {"slot", "slotErase", "slotDb", "mode1", "mode2", "small", "forget"}

\* ... and the number is erased, under the references of other tasks too.
UnloadForget(f) ==
  LET m == Segment(f)
  IN  /\ frame[f].pc = "forget"
      /\ Forget(m)
      /\ torn' = (torn \cup {g \in Frames : frame[g].pc \in Referring /\ Segment(g) = m})
                   \ {f}
      /\ frame' = [frame EXCEPT ![f].pc = "next", ![f].left = Tail(@),
                                ![f].scan = 0, ![f].slot = -1]
      /\ UNCHANGED <<lineVars, codeToMsg, codeToSlot, db, job, carrier, askVars,
                     sendVars, plc, met, reports, slotToPackage>>
-----------------------------------------------------------------------------
TaskStep(i) ==
  TaskSupply(i) \/ QueryRow(i) \/ WriteRow(i) \/ TestArrival(i) \/ TestDeparture(i)

SendStep(j) == SendFound(j) \/ EraseNumber(j) \/ QueryStation(j) \/ QueryOrder(j)

UnloadStep(f) ==
  \/ UnloadFind(f) \/ UnloadRefer(f)
  \/ UnloadSlot(f) \/ UnloadSlotErase(f) \/ UnloadSlotDb(f)
  \/ UnloadArrival(f) \/ UnloadDeparture(f) \/ UnloadSmall(f) \/ UnloadForget(f)

LineNext ==
  \/ \E m \in {1, 2} : SetOperateType(m)
  \/ Run \/ Stop
  \/ \E i \in Scans, c \in Code, s \in Supply : Scan(i, c, s)
  \/ \E i \in Scans : TaskStep(i)
  \/ \E c \in Code : TerminalCodeRecv(c) \/ RequestEnds(c)
  \/ \E j \in Scans \cup {Main} : SendStep(j)
  \/ \E c \in Code : \E k \in 1 .. MaxScans : WriteSlot(c, k)

Next ==
  \/ LineNext
  \/ \E s \in PdaSlots, p \in Package : PdaScan(s, p)
  \/ \E f \in Frames : UnloadFrame(f) \/ UnloadStep(f)

Spec == Init /\ [][Next]_vars

\* The pool runs its tasks, the main thread its events, and every request for
\* a terminal code ends, with an answer or without.
FairSpec ==
  /\ Spec
  /\ \A i \in Scans : WF_vars(TaskStep(i))
  /\ \A j \in Scans \cup {Main} : WF_vars(SendStep(j))
  /\ \A c \in Code : SF_vars(TerminalCodeRecv(c) \/ RequestEnds(c))
-----------------------------------------------------------------------------
(* Properties.                                                             *)

TypeOK ==
  /\ running \in BOOLEAN
  /\ mode \in 0 .. 2
  /\ switches \in 0 .. MaxSwitches
  /\ order \in [Supply -> 0 .. MaxOrder]
  /\ msgToCode \in [Number -> Code \cup {NoCode, Empty}]
  /\ codeToMsg \in [Code -> Number \cup {NoNumber}]
  /\ codeToSlot \in [Code -> Int \cup {NoSlot}]
  /\ PackageSlots \subseteq DOMAIN slotToPackage
  /\ \A c \in Code : db[c] = NoRow \/ db[c] \in Row
  /\ \A j \in DOMAIN job : job[j].pc \in Working \cup {"idle", "done", "skipped"}
  /\ carrier \in [Number -> 0 .. MaxScans]
  /\ asked \in [Code -> 0 .. MaxScans]
  /\ refused \subseteq Code
  /\ \A c \in Code : slotWrites[c] \in Seq(Int)
  /\ gone \subseteq Scans \cup {Main}
  /\ plc.stored \in Seq(Scans)
  /\ torn \subseteq Frames

\* The PLC steers the parcel that carries a number: a slot handed over under a
\* number is for the code of the parcel that carries it then, although the number
\* comes from a map that several threads use.  (A number from the row can be a
\* mixture when scans of the code overlap: see NumberFromRow.  A slot under a number
\* that is none, after a failed query or through a dangling reference, is not
\* spoken of.)
SlotForCarrier ==
  \A p \in plc.slots :
    p.number \in Number /\ ~(p.byRow /\ plant.overlap)
      => p.scan # 0 /\ job[p.scan].code = p.code

\* What the comment at dataprocess.cpp:769 says of a number that the map does not
\* have: it is the one in the database, so one that the code was given.
NumberFromRow ==
  \A p \in plc.slots :
    p.byRow /\ p.number \in Number =>
      \E i \in Scans : job[i].code = p.code /\ job[i].number = p.number

\* The announcement of a scan is made before its slot is handed over, though a thread
\* of its own sends the slot; only the answer to an overlapping scan of the same code
\* may come before.  The PLC has heard it by then if the supply port did not fail: a
\* busy port stores it and a broken link loses it, while the slot goes out by another
\* port, so that a PLC with a bad supply port hears the slot first.
AnnouncedFirst ==
  \A p \in plc.slots :
    ~plant.overlap /\ p.scan # 0 =>
      \/ p.scan \in plc.supplied
      \/ plant.portFails /\ p.scan \in ToSet(plc.stored) \cup plc.lost

\* When no work on a code is left, its row has the slot that the unload message
\* finds in m_codeToSlotMap: a report does not depend on which of the two is
\* used, unless a statement failed or two scans of the code overlapped.
SlotRecorded ==
  \A c \in Code :
    /\ ~plant.overlap /\ ~plant.dbFails
    /\ ~InWork(c)
    /\ codeToSlot[c] # NoSlot
    => db[c] # NoRow /\ db[c].slot = codeToSlot[c]

\* A slot that the PLC was told for a code, or is being told, or none.
Known(c, slot) ==
  \/ slot = -1
  \/ \E p \in plc.slots : p.code = c /\ p.slot = slot
  \/ \E j \in DOMAIN job :
       job[j].pc \in Sending /\ job[j].code = c /\ job[j].slot = slot

\* A report on a code names a slot that the PLC was told for that code, or is being
\* told, or -1, although the code is read through a reference all along and the slot
\* is looked for in between.  That is so if no other scan was given the number in the
\* meantime: then the slot of one parcel is reported with the code of another.
ReportedWasSent ==
  \A r \in reports : r.code \in Code /\ r.scan = r.found => Known(r.code, r.slot)

\* A scan is reported twice by calls of one kind only if the PLC repeats its number
\* while the task of the first message is still at work: what is found after that was
\* forgotten, also if tasks make the entry again with an empty code.
ReportedOnce ==
  \A r1, r2 \in reports :
    /\ r1.code \in Code /\ r2.code \in Code
    /\ r1.scan = r2.scan /\ r1.kind = r2.kind
    => \/ r1 = r2
       \/ <<r1.by[1], r2.by[1]>> \in met \/ <<r2.by[1], r1.by[1]>> \in met

\* A task ends without a request and without a slot, against what the comment
\* at dataprocess.cpp:490 says, only if the operator changed the mode after
\* the first choice: between the two reads of m_operateType.
SkippedByModeChange == \A i \in Scans : job[i].pc = "skipped" => switches > 1

\* Every scan is followed by a slot under its own number, unless its request ends
\* without an answer or a change of the mode made its task skip both branches.  Of
\* scans of one code that overlap, one gets its slot: the number of the others is
\* overwritten in the map.
ScanGetsSlot ==
  \A i \in Scans :
    (job[i].pc # "idle")
      ~> \/ \E p \in plc.slots :
              \/ p.scan = i
              \/ plant.overlap /\ p.scan # 0 /\ p.code = job[i].code
         \/ job[i].pc = "skipped"
         \/ job[i].code \in refused
-----------------------------------------------------------------------------
(* The inductive invariants behind the properties.                         *)

JobPc == Working \cup {"idle", "done", "skipped"}
FramePc == {"idle", "next", "refer"} \cup Referring

\* The task of a scan, and the main thread.
Job == [pc : JobPc, code : Code \cup {NoCode}, number : Number \cup {NoNumber},
        found : BOOLEAN, slot : Int, station : Int]

\* The task of an unload frame.
Frame == [pc : FramePc, left : Seq(Number \cup {Garbage}),
          scan : 0 .. MaxScans, slot : Int]

\* A slot as it was handed over: under a number, or under what took its place.
SlotMessage == [number : Number \cup {Garbage} \cup (Int \X Int), slot : Int,
                code : Code, byRow : BOOLEAN, scan : 0 .. MaxScans]

Started(i) == job[i].pc # "idle"
Done == {i \in Scans : job[i].pc = "done"}

\* The types of the tasks, and that a task at work has a code and a number; a code
\* is asked for at most once for each task that is over.
Typed ==
  /\ plant \in Plant
  /\ job \in [Scans \cup {Main} -> Job]
  /\ frame \in [Frames -> Frame]
  /\ db \in [Code -> Row \cup {NoRow}]
  /\ slotWrites \in [Code -> Seq(Int)]
  /\ plc \in [supplied : SUBSET Scans, stored : Seq(Scans), lost : SUBSET Scans,
              slots : SUBSET SlotMessage]
  /\ \A i \in Scans : Started(i) => job[i].code \in Code /\ job[i].number \in Number
  /\ job[Main].pc \in Sending \cup {"idle", "erase"}
  /\ Started(Main) => job[Main].code \in Code
  /\ \A c \in Code : asked[c] <= Cardinality(Done)

\* The mode is chosen before anything runs, and a task between its two tests of it
\* has seen the choice of 2.
ModeChosen ==
  /\ mode # 0 => switches > 0
  /\ (running \/ \E i \in Scans : Started(i)) => mode # 0
  /\ \A i \in Scans : job[i].pc = "mode2" /\ mode # 2 => switches > 1
  /\ \A i \in Scans : job[i].pc = "skipped" => switches > 1

\* The scan that carries a number is the last that was given it, one at work carries
\* its number, and a number in the map is carried by a scan of that code.
Carried ==
  /\ \A m \in Number : carrier[m] # 0 => Started(carrier[m]) /\ job[carrier[m]].number = m
  /\ \A i \in Scans : job[i].pc \in Working => carrier[job[i].number] = i
  /\ \A m \in Number : msgToCode[m] # NoCode => carrier[m] # 0
  /\ \A m \in Number : msgToCode[m] \in Code => job[carrier[m]].code = msgToCode[m]

\* A task with a reference has a number in hand that a scan was given, and the
\* reference dangles only if the entry was erased since.
Referred ==
  /\ torn \subseteq Frames
  /\ \A f \in Frames : frame[f].pc \in {"refer"} \cup Referring =>
       /\ Busy(f) /\ Segment(f) \in Number
       /\ carrier[Segment(f)] # 0
  /\ \A f \in Frames : frame[f].pc \in Referring =>
       /\ frame[f].scan \in Scans /\ Started(frame[f].scan)
       /\ f \notin torn => msgToCode[Segment(f)] # NoCode
  /\ \A f \in torn : frame[f].pc \in Referring
  /\ \A f \in Frames : frame[f].pc = "idle" => ~Busy(f)

\* Two tasks of unload frames at work have met.
Meeting ==
  \A f, g \in Frames : Busy(f) /\ Busy(g) /\ f # g => <<f, g>> \in met \/ <<g, f>> \in met

\* A task that made the call r has the number still in hand, beyond that call, ...
StillInHand(r) ==
  LET f == r.by[1] IN
  /\ frame[f].pc \in Referring
  /\ Len(frame[f].left) = r.by[2] /\ Segment(f) = r.number
  /\ IF r.kind = "small" THEN frame[f].pc = "forget"
     ELSE frame[f].pc \in {"small", "forget"}

\* ... or has erased it: it is found again only when another scan is given it.
Forgotten(r) ==
  LET f == r.by[1] IN
  /\ frame[f].pc # "idle"
  /\ Len(frame[f].left) < r.by[2]
  /\ carrier[r.number] = r.scan => msgToCode[r.number] \notin Code

ReportsPlaced ==
  \A r \in reports :
    /\ r.by \in Frames \X Nat
    /\ r.number \in Number
    /\ r.scan \in Scans /\ Started(r.scan)
    /\ r.code \in Code => job[r.scan].number = r.number /\ job[r.scan].code = r.code
    /\ StillInHand(r) \/ Forgotten(r)

\* Wherever a slot of a code is kept, it is a known one.
SlotsKnown ==
  /\ \A c \in Code : codeToSlot[c] # NoSlot => Known(c, codeToSlot[c])
  /\ \A c \in Code : db[c] # NoRow => Known(c, db[c].slot)
  /\ \A c \in Code : \A k \in DOMAIN slotWrites[c] : Known(c, slotWrites[c][k])
  /\ \A j \in DOMAIN job :
       job[j].pc \in {"idle", "done", "skipped"} \/ Known(job[j].code, job[j].slot)

\* So is the slot that the task of a frame has, if the entry it refers to is still that
\* of the same scan.
FrameSlotKnown(f) ==
  LET m == Segment(f) IN
  /\ frame[f].pc \in {"slotErase", "mode1", "mode2", "small"}
  /\ f \notin torn
  /\ carrier[m] = frame[f].scan
  /\ msgToCode[m] \in Code
  => Known(msgToCode[m], frame[f].slot)

FrameSlotsKnown == \A f \in Frames : FrameSlotKnown(f)

\* The number that the map has of a code in work is carried by a parcel with that
\* code: it is not given to another one while there is work on the code.
MapOfCarrier ==
  /\ \A c \in Code :
       InWork(c) /\ codeToMsg[c] # NoNumber =>
         /\ carrier[codeToMsg[c]] # 0
         /\ job[carrier[codeToMsg[c]]].code = c
  /\ \A j \in DOMAIN job :
       job[j].pc = "sendFound" /\ j \notin gone => codeToMsg[job[j].code] # NoNumber
  /\ \A p \in plc.slots : p.scan # 0 => p.scan \in Scans /\ Started(p.scan)

\* A thread works on the code.
AtWork(j, c) == job[j].code = c /\ job[j].pc \in Working

\* Where scans of a code do not overlap, there is one piece of work on it at a
\* time, and the number is in the map until it is sent.
OneWork ==
  ~plant.overlap =>
    /\ \A c \in Code, j, k \in DOMAIN job : AtWork(j, c) /\ AtWork(k, c) => j = k
    /\ \A c \in Code : asked[c] > 0 =>
         /\ asked[c] = 1 /\ slotWrites[c] = << >>
         /\ \A j \in DOMAIN job : ~AtWork(j, c)
         /\ codeToMsg[c] # NoNumber
    /\ \A c \in Code : slotWrites[c] # << >> =>
         /\ Len(slotWrites[c]) = 1
         /\ \A j \in DOMAIN job : ~AtWork(j, c)
    /\ \A j \in DOMAIN job :
         /\ job[j].pc \notin {"queryId", "queryOrder"}
         /\ job[j].pc \in Working => codeToMsg[job[j].code] # NoNumber
    /\ \A p \in plc.slots : ~p.byRow

\* The scans whose announcement was made.
Announcements == plc.supplied \cup ToSet(plc.stored) \cup plc.lost

\* There, the number of a code in work has been announced before anything else.
Announced ==
  /\ ~plant.portFails => plc.stored = << >> /\ plc.lost = {}
  /\ ~plant.overlap =>
       /\ \A i \in Scans : job[i].pc = "supply" => codeToMsg[job[i].code] = job[i].number
       /\ \A j \in DOMAIN job :
            job[j].pc \in Working \ {"supply"} =>
              carrier[codeToMsg[job[j].code]] \in Announcements
       /\ \A c \in Code : asked[c] > 0 => carrier[codeToMsg[c]] \in Announcements

\* There, if no statement fails, the row and m_codeToSlotMap differ only between an
\* answer and its write, ...
RowHasSlot(c) == db[c] # NoRow /\ db[c].slot = codeToSlot[c]

MapInStep(c) ==
  codeToSlot[c] # NoSlot =>
    /\ AtWork(Main, c) => codeToSlot[c] = job[Main].slot
    /\ slotWrites[c] # << >> => codeToSlot[c] = slotWrites[c][1]
    /\ AtWork(Main, c) \/ slotWrites[c] # << >> \/ RowHasSlot(c)

\* ... a task has the slot of the row, ...
TaskInStep(i) ==
  LET c == job[i].code IN
  /\ job[i].pc = "write" =>
       IF job[i].found THEN db[c] # NoRow /\ job[i].slot = db[c].slot
       ELSE db[c] = NoRow /\ job[i].slot = -1
  /\ job[i].pc \in {"mode1", "mode2", "erase"} \cup Sending =>
       db[c] # NoRow /\ job[i].slot = db[c].slot

\* ... and the row is there before a slot is asked for.
RowInStep ==
  ~plant.overlap /\ ~plant.dbFails =>
    /\ \A c \in Code : MapInStep(c)
    /\ \A i \in Scans : TaskInStep(i)
    /\ job[Main].pc # "idle" => db[job[Main].code] # NoRow
    /\ \A c \in Code : asked[c] > 0 \/ slotWrites[c] # << >> => db[c] # NoRow

\* All of them together.
ParcelInv ==
  /\ Typed /\ TypeOK
  /\ ModeChosen
  /\ Carried /\ Referred
  /\ Meeting /\ ReportsPlaced /\ ReportedOnce
  /\ SlotsKnown /\ FrameSlotsKnown /\ ReportedWasSent
  /\ MapOfCarrier /\ OneWork /\ SlotForCarrier
  /\ Announced /\ AnnouncedFirst
  /\ RowInStep
=============================================================================
