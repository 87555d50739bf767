# Verification of loopline_houjie

loopline_houjie controls a parcel sorting loop.  A supply station puts a parcel
on the loop and reports its barcode; the program gives the parcel a number,
asks a web service where it goes, and tells the PLC the slot to drop it into;
when the PLC reports the drop, the program reports it to the service.  A second
program, `ftp_server`, takes the pictures of the cameras, uploads them, and
loads the table `terminalcode_to_slot` from a spreadsheet.

This directory holds TLA+ modules of both programs, the TLC configurations that
check them on small instances, and proofs that TLAPS checks for all instances.
`PROJECT.json` lists the components, runs, findings, hazards and theorems, and
maps every definition to the lines it models.

## The system

| Component | Source | State | Operations |
| --- | --- | --- | --- |
| Receive rings and workers | `spsc_ring.h`, `dataprocess.cpp` 10-203 | ring buffer, head, tail, run flag, drop counter | `try_push` (receive thread), `pop_bulk` and handling (worker), start, stop |
| Request scheduler | `jtrequest.cpp/.h` | `m_pending`, `m_requestQueue`, `m_pausedRequests`, `m_refreshingToken`, `m_authToken`, retry timers | one function per request, `enqueueOrSend`, `tryStartNext`, `checkPendingTimeouts`, `onNetworkFinished` |
| Parcel flow | `dataprocess.cpp` 366-795 | number and slot maps, `supply_data` rows, mode, run flag | scan, unload, terminal code, PDA scan, mode, run, stop |
| PLC ports | `dataprocess.cpp` 205-364, 711-826, `tcpsocketclient.cpp` | store queue, mutex, socket per port | send, take from the queue, connect, check, disconnect |
| Receiver threads of `SocketClient` | `tcpsocketclient.cpp` | socket, connected and receiving flags, a detached thread | connect, receive, heartbeat, disconnect |
| Database pool and connection | `sqlconnectionpool.cpp`, `sqlconnection.cpp` | free connections, waiting tasks | init, acquire, release, shutdown, one function per statement |
| PDA server | `qttcpserver.cpp` | clients by id, each with socket and buffer | connections, framing, messages, stop |
| UDP receiver | `udpreceiver.h` | socket, thread, running flag | start, loop, callback, stop |
| Logger | `logger.cpp` | queue, stop flag, file of the hour | log, write, rotate, close |
| Picture service | `ftp_server/src` `ftp_handler.py`, `db.py`, `uploader.py`, `token_manager.py` | table `pic`, files, attempts, token | receive a picture, upload round, marks |
| Slot file watcher | `ftp_server/src/read_excel.py` | table `terminalcode_to_slot`, the file | read, replace the table, move the file |
| Window, entry point | `loopline_houjie.cpp/.h`, `main.cpp` | none of their own | buttons, `closeEvent`, start and end of the program |
| Helpers, configuration | `otherfunction.cpp`, `config.py`, ... | none | pure functions |

How they interact.  The UDP callback and the two PLC receivers each push into a
ring; one worker per ring pops batches and calls the handler.  Handlers start
tasks in a thread pool, which use the maps of `DataProcess`, the database pool,
the PLC ports, the request functions and the logger.  Hand scanners (PDA) talk to a TCP server
whose messages reach `DataProcess` through the event loop.  Closing the window ends all of
it, in the order of `dataProCleanUp` and `closeEvent`.  The request scheduler runs on the main
thread (requests arrive by queued invocation) and answers by signals, handled on the
main thread by `DataProcess`.  `ftp_server` is a process of
its own: the watcher writes `terminalcode_to_slot`, while `DataProcess` reads
`terminal_to_slot_arrival` and `terminal_to_slot_depature` at start, so nothing in this
repository reads what it writes.  Within
`ftp_server` the FTP handler and the upload thread meet in table `pic` and in
the directory of pictures; the watcher shares nothing with them, but a stop of the
service (`main.py`) ends all of its threads.

What is hard:
- *concurrency*: a lock-free ring; maps and a queue used by several threads
  with nothing held; a mutex that is unlocked by a thread that may not hold it;
  a mode that is read twice; a receiver thread that is detached, so that nobody waits for it;
- *ends*: sockets closed under the threads that use them, a writer that must empty its queue, tasks
  that still want a connection when the pool is emptied;
- *ordering*: two scans of one code, answers, row writes and unloads in any order;
- *failure*: replies that fail, are aborted or say that the token has expired;
  a socket that breaks; database statements that fail between two transactions;
  restarts of the picture service;
- *bounds*: full rings, full queues, the concurrency limit, wrapping numbers.

What makes each part correct, and which property says so:
- *rings*: a slot is never written while the worker copies it, messages come out once and in
  order, a message is dropped only when the ring is full, and what is in the
  ring is handled (`NoSlotRace`, `ImplementsFifo`,
  `OldestIsPopped`, `BatchIsHandled`; proved besides: `CountersOrdered`, `NothingTorn`);
- *scheduler*: the limit holds on every path, a request is in one place until
  it ends, retries end, the queue moves (`PendingBound`, `OnePlace`,
  `RetryBudget`, `QueuedIsSent`), the refresh flag goes with a login (`RefreshHasLogin`), and a caller
  sees one end of its request, with nothing posted behind it (`ImplementsDesk`);
- *parcel flow*: a slot goes out under the number of the parcel that carries
  it, after its announcement was made; row and map agree; a drop is reported once, with a slot that
  was sent for the code; every scan gets its slot (`SlotForCarrier`, `AnnouncedFirst`,
  `SlotRecorded`, `ReportedOnce`, `ReportedWasSent`, `ScanGetsSlot`), and no parcel is skipped but by a
  change of the mode (`SkippedByModeChange`).  Each of these has an exception in the code, which the property names
  and "What the code does not keep" describes;
- *receivers*: a ring has one producer, a connection that is broken or was given up comes back, and
  every thread ends (`OneProducer`, `LinkComesBack`, `NoCallbackAfterStop`, `CleanUpEnds`), with exceptions too;
- *connections*: one user each, and nobody sleeps beside a free one (`ConnectionHasOneUser`,
  `NoLostWakeup`, `TaskEnds`);
- *logger*: lines come out once, in order, in the file of their hour, before close returns
  (`ImplementsLogBook`, `LineInItsHour`), and the program can end (`ClosingEnds`);
- *PDA server*: messages come out whole and under the id of their scanner (`MessagesOfScanner`,
  `MessageArrives`);
- *ports*: one user of a socket at a time, a message goes out at most once, stored
  messages first (`PortIsExclusive`, `MessageInOnePlace`, `StoredGoesFirst`);
- *pictures*: marks are true, pending rows are settled (`MarkedWasStored`,
  `MarkIsTrue`, `PendingIsSettled`);
- *slot file*: the table holds one file, is not left empty by a restart, files
  are taken (`OneFileAtATime`, `EmptyIsBeingFilled`, `FileIsTaken`).

## The modules

| Module | What it models |
| --- | --- |
| `BoundedFifo` | what a ring promises: a bounded queue, a producer and a consumer, a counter of drops |
| `SpscRing` | `try_push`, `pop_bulk`, the worker loop; implements `BoundedFifo` |
| `SpscRingProofs` | its theorems |
| `RequestDesk` | what the scheduler promises to the callers of its request functions |
| `JTRequest`, `JTRequestProofs` | the request scheduler and the token refresh; implements `RequestDesk` |
| `ParcelFlow`, `ParcelFlowProofs` | scans, answers, rows, slot messages, unload reports |
| `PlcSend`, `PlcSendProofs` | one outgoing PLC port with its connection check thread |
| `PicUpload` | FTP handler, table `pic`, upload thread |
| `SlotFile` | the watcher of the slot file |
| `FtpServer`, `FtpServerProofs` | the service of `main.py`: the two together; proofs about each and about the service |
| `PlcReceive` | one receiving PLC port: `SocketClient`, its receiver threads, the check thread |
| `UdpReceiver` | the UDP receiver of the supply stations |
| `Intake`, `IntakeProofs` | both receivers under the main thread: run, stop, clean-up |
| `SqlPool` | the pool of database connections |
| `LogBook` | what the logger promises |
| `LoggerQueue` | the logger; implements `LogBook` |
| `TaskServices`, `TaskServicesProofs` | the tasks between the pool and the logger, and the end of the program; proofs about each and about the whole |
| `PdaServer`, `PdaServerProofs` | the TCP server of the hand scanners |
| `MC*` | instances for TLC |

Operators named "Faulty variant" in a comment are not part of a
specification.  Each stands beside the operator it could replace and shows a
plausible mistake that the property named in `PROJECT.json` detects.

### SpscRing

One producer (the receive thread) and one worker.  `try_push` is a load of the
other side's counter, the decision, the copy in two steps (begin and end, the
slot is `Torn` in between), and the store of `tail`; `pop_bulk` is the load, one
copy per slot, and the store of `head`.  An acquire load may return any value
the other counter has had since the last load of this thread (`seenHead`,
`seenTail`): that is all the C++ memory model allows under acquire/release with
a single writer per counter.  Counters are taken modulo `CounterMod` (2^64 in the
code), slots are `position % Cap` (the code masks, and `Cap` divides the
modulus).  `popHead` is the `head` that `pop_bulk` has loaded, from which it copies: `NoSlotRace` says that the slot being
written is none of the worker's batch, from there to its end, whatever `head` is by then, and none whose return the producer has not
acquired.  The worker's flag is cleared by stop and tested at the head of its
loop, as in 100-122, 133-155 and 166-189 of `dataprocess.cpp`; the three rings run the same code.

### JTRequest

All of it runs on one thread, so a function call, a timer callback or the whole
of `onNetworkFinished` is one action.  `net` holds queue and in-flight set;
`EnqueueOrSend` and `TryStartNext` take and return such a record, so that a
handler composes them in the order of its calls.  `meta` is what travels
with a request: retries left, whether its token has expired, the mark
`X-Retried-After-Refresh`, and whether its tag is "login".  The tag matters: replays are
enqueued with it, and the branches for logins test nothing else.  `outcome` and
`posts` record how each request ended and how often it was posted.  `RequestDesk` is what a caller may count on: its request is new,
waits, is in flight (`sent`) or has ended, and ends once; queue, timers and paused requests are all "waiting" to it.

### ParcelFlow

A scan is handled by the supply worker up to the task it starts (`Scan`); the
task is `TaskSupply`, `QueryRow`, `WriteRow`, then the two tests of the mode
(`TestArrival`, `TestDeparture`), which ask for a slot or send the known one.
The answer (`TerminalCodeRecv`) stores the slot, sends it and starts a task for the row (`WriteSlot`).  A request may also
end without an answer (`RequestEnds`): `JTRequest` drops, aborts and gives up requests.

To send is to find the number in the map, to read it through the reference and hand over the slot (`SendFound`), and to erase
the entry (`EraseNumber`), with other threads in between: the number that is sent is the one the entry has then, and the one
that is erased may be newer still.  When the map does not have it, two queries (`QueryStation`, `QueryOrder`) make one from the
row.

`TaskSupply` announces the number over the supply port, in one step, with what the port makes of it: the announcement goes out
behind those in the queue, or is stored because the port is busy, or is lost with a broken link (`plc`).
`PlcSend` has the steps inside it.  `AnnouncedFirst` is about the announcement being made.

An unload frame is a list of segments, and its task takes one after the other: `UnloadFind`, `UnloadRefer`,
`UnloadSlot` and `UnloadSlotErase` or `UnloadSlotDb`, the two tests of the mode (`UnloadArrival`, `UnloadDeparture`), `UnloadSmall` and `UnloadForget`.
393 takes a reference into `m_msgToCodeMap` that is used until 444: `CodeOf` reads the entry anew at each use, so that a scan
that is given the number changes the code under the task, and when another task has erased it (`torn`) what is read is `Garbage`.
`operator[]` makes an entry with an empty code when there is none.  The PLC may send any numbers it was told, one or two in a frame, and repeat them at any time; `met` remembers which frames were at work together.

Two guards belong to the plant and not to the code: a number is used again
only when no work on the parcel that had it is left, unload messages excepted (`NumberIsFree`); and where
scans do not overlap a barcode is not scanned again while work on it is under way.

The statements of `SqlConnection` are operators: what `queryString` may return, and what
`updateRow`, `insertRow` and `updateValue` may leave behind.  A failed query looks like a missing row.
What may happen at a site is a constant set of `Plants`, one of which is chosen at the start (`plant`): whether scans of a code
overlap, whether statements fail, whether the supply port may be busy or its link broken, whether hand scanners are in use, which
stations and codes there are, and how many scans, unload frames and changes of the mode.

A single operation on a map is one indivisible step.  The maps have no lock, so
in the code two such operations at the same time are undefined behaviour; the model does not
show what that could do.

### PlcSend

One task per message, the mutex, the queue and the connection thread.
`sendSupplyDataToPLC` and the second half of `sendSlotToPLC` are the same code on
two ports; the model is one port.  The queue is read and
extended outside the mutex, in steps of their own.  A connection that is broken and not yet noticed may
accept a message or fail; both lose it.

`plcSupplyTcpConnect` unlocks the mutex also when its `try_lock` failed.  Unlocking a
mutex another thread holds is undefined; the model lets it free the mutex,
which is what the usual lock does, and sets `stolen`.  The properties are stated
for `~stolen`: they hold up to the first such unlock, and fail after it.

### PicUpload, SlotFile and FtpServer

Every function of `db.py` commits by itself, so each is a step.  The upload
round keeps the rows it fetched (`rows`, `batch`) while pictures arrive and are deleted.
The pool of puts runs its puts in any order.  `PicRestart` clears what is in memory.

The watcher deletes the old pairs in one transaction (`ClearTable`) and inserts
the new ones in a second (`FillTable`); a failure of either is swallowed and the
file is moved all the same.  `WatchRestart` leaves the table and the file as they are, and forgets what was in progress.

`FtpServer` is the process.  `handle_stop` (`main.py` 31-36) waits five seconds for the upload thread and three for
the watcher, and both are daemons, so that the exit ends each of them between any two of its steps: `Restart` is
`PicRestart` and `WatchRestart` in one.  Every other step is one of the parts, and leaves the other alone.

### PlcReceive, UdpReceiver and Intake

`connectTo` starts a thread and detaches it; `disconnect` closes the socket (`CloseSocket`), then clears the
flags (`StopReceiveData`), and waits for nobody.  The thread tests the flag, receives, pushes, each in
a step of its own; an error of `recv` only sends it round the loop.  A heartbeat to an ended
connection may still succeed, to a failed one it may not.  A closed handle may be given out for the next
connection, and a receiver of the old one then finds it.

`plcRecvUnloadTcpConnect` sleeps 200 ms between `disconnect` and `connectTo`, and nothing else makes sure
that the old receiver has ended.  `overrun` is set when it had not; `OneProducer`
is stated for runs without it.  The model lets it happen, and after it two receivers may push into one ring.
A receiver that outlives its connection may also clear `SocketConnection` when it stands for the next one: a good connection is then
taken for lost, and `LinkComesBack`, which has no such condition, says that it is made again.

The UDP loop reads `sock_` and `running_` between the steps of `stop`, which closes the socket under it.
`UdpReceiver::stop` then calls `WSACleanup`, and so does `start` when it gets no socket.  Winsock counts its users: `main` is one, and Qt and the MySQL
library may be others, so that sockets fail afterwards or they do not.

Behind it `dataProCleanUp` stops the PDA server (`StopPda`), and only then the check thread and the port.  With a hand scanner
connected the main thread hangs there (`StopEnds` below), so that nobody ends the receivers: `CleanUpEnds` is stated for no scanner.

### SqlPool, LoggerQueue and TaskServices

Every function of the pool runs under its mutex and is one step; a task that is notified has to come back for the mutex (`woken`)
and may find that another was faster (`Wake`).  Spurious wakeups are in the model.

`LoggerQueue` has one step per critical section.  The writer looks at the clock three times for a line, in
`Rotate`, `Open` and `WriteLine`, and the hour may change between them.  `LogBook` is the promise
of `close` (275-286): `owed` is what had been accepted when it was called.

`TaskServices` composes the two.  A task waits for a connection, logs its statement and gives the connection back;
`closeEvent` cleans up, closes the logger, empties the pool, and the application object waits for the tasks.
It starts behind `stop` of the PDA server, which may hang (see below).  Handlers of `JTRequest` (469, 700) take a connection on the main
thread itself: such a task (`Handler`) keeps the event loop from everything else while it waits.

### PdaServer

Everything runs in the event loop, so a slot is one action.  `said` is what a scanner means by its bytes, kept
byte by byte as they are sent; `Drain` is what the server makes of the pieces it reads: the lines between the
terminators, stripped, without the empty ones, and the rest for the buffer.  Clients are found by the address of their
socket object, which the next one may get.  `stop` and the slot that
`disconnectFromHost` calls are on one thread and lock the same mutex.

## The runs

| Run | Configuration | Properties | Shows |
| --- | --- | --- | --- |
| `ring` | `MCSpscRing.cfg` | `NoSlotRace ImplementsFifo OldestIsPopped BatchIsHandled` | with stale loads, wrapping counters, stop and start, the ring is a bounded FIFO, and what is pushed is handled |
| `requests` | `MCJTRequest.cfg` | `PendingBound OnePlace RetryBudget RefreshHasLogin ImplementsDesk` | no path exceeds the limit, loses, doubles or retries a request without end; the refresh flag is left behind on two paths only; the scheduler implements `RequestDesk` |
| `requests_prompt` | `MCJTRequestPrompt.cfg` | `QueuedIsSent` | when no reply is aborted, every queued request is sent |
| `parcels` | `MCParcelFlow.cfg` | `SlotForCarrier AnnouncedFirst SlotRecorded SkippedByModeChange ReportedWasSent ReportedOnce ScanGetsSlot` | scans, announcements, answers, writes, unload messages, hand scanners and mode changes in any order; every scan gets its slot or loses its answer, even when statements fail |
| `parcels_row` | `MCParcelFlowRow.cfg` | `NumberFromRow` | violated, see below |
| `plc_send` | `MCPlcSend.cfg` | `PortIsExclusive MessageInOnePlace StoredGoesFirst` | three tasks, the connection thread and a breaking link |
| `pictures` | `MCPicUpload.cfg` | `MarkedWasStored MarkIsTrue PendingIsSettled` | new, deleted and refused pictures race the upload round |
| `ftp_server` | `MCFtpServer.cfg` | `OneFileAtATime EmptyIsBeingFilled FileIsTaken` | files replaced at any moment, failing statements, and restarts of the whole service beside the upload of a picture |
| `intake` | `MCIntake.cfg` | `OneProducer NoCallbackAfterStop LinkComesBack CleanUpEnds` | receivers, check thread, buttons, Winsock and the end of the program |
| `task_services` | `MCTaskServices.cfg` | `ConnectionHasOneUser NoLostWakeup LineInItsHour ImplementsLogBook TaskEnds ClosingEnds` | tasks, pool, logger and the end of the program |
| `pda_server` | `MCPdaServer.cfg` | `TypeOK MessagesOfScanner MessageArrives` | two scanners, every cutting of their bytes, addresses used again |
| `pda_stop` | `MCPdaStop.cfg` | `StopEnds` | violated, see below |

The type invariant of `PdaServer` is part of its run and proved as well; those of the other
modules are in the proofs only.

Bounds and why they are enough:
- `ring`: four slots, eight counter values, batches of two: the ring fills, pops leave
  messages behind, slots are reused and the counters wrap around in the middle of a
  batch.  Two messages tell right from wrong content.  One drop is enough for the counter.
- `requests`: three requests on two slots, a queue of one, one retry before and
  one after a replay, one change of mode: requests queue, are dropped, time out, are paused
  two at a time, and a login of the new mode overlaps that of the refresh.  Three login ids, so
  that a third would show.  `requests_prompt` has one slot, so that everything queues.
- `parcels`: two codes, two stations, one number per station, so that numbers are reused at once; batches of one, so that
  a store queue outgrows them; six plants (`MCPlants`).  In `Orderly` two scans follow each other, of one code or two, while the supply port is busy or its
  link broken; in `Long` there are three of one code and two changes of mode; in `Rough` two scans of one
  code overlap and statements fail; in `Mixed` a parcel is unloaded while another is scanned, maybe under the same number; in
  `Repeating` the unload message of a parcel is repeated before or after it is handled; `Bound` has hand scanners and failing
  statements.  Unload messages beside two overlapping scans are left to the proofs, which have no such limit.
- `parcels_row`: three overlapping scans of one code, the fewest that mix two rows in this way.
- `plc_send`: three messages and batches of two: the store queue outgrows a batch,
  and two takers meet.
- `pictures`: two pictures of one code and one of another, one attempt, two
  failures, one deletion, one restart.  `FetchLimit` is the number of codes (the code
  fetches fifty rows): see the note at `PendingIsSettled`.
- `intake`: two handles and two receiver threads, so that an old receiver meets the next connection, on its own
  handle or another; two messages around one break, one datagram, one run, with a scanner or none when the window is closed.
- `task_services`: three tasks, of which one is a handler on the main thread, on two connections, so that one waits while another may be faster than a
  notified one; three hours, the first and the last with the same number on two days; one failed open.
- `pda_server`: two scanners on two addresses, one after the other on one of them or at the same time;
  four bytes, so that one can send two messages, of `x` and both terminators.  STX and CR are
  left to `pda_stop`, which has one byte: they change a frame, not where it ends.
- `ftp_server`: three files, two of which share a pair and one without pairs; two failures and two restarts.  Of the
  pictures one, without trouble: the two parts meet only in `Restart`, and `pictures` has the rest.

Runs other than `ring` have `CHECK_DEADLOCK FALSE`: inputs are bounded, and when
they are used up the system rests.

Fairness:
- `ring` (`FairSpec`): the worker thread is scheduled, a `try_push` that has
  begun ends, and a store becomes visible in the end, so that a worker that keeps loading
  sees the latest `tail` (C++ asks this of implementations).  Nothing makes
  messages arrive or the worker start.
- `requests_prompt` (`PromptSpec`): a reply ends, with an answer or an error, before the
  abort timer.  With aborts the property is false: the abort path starts no queued request,
  so after the last reply in flight was aborted the queue waits for the
  next request.
- `parcels`: the pool and the main thread run (weak), and a request for a
  terminal code ends, with an answer or without.  That one is strong, because the main thread
  handles other answers in between.  It is an assumption on `JTRequest`: where an abort leaves the queue at rest (below), a
  request waits for the next one.
- `intake`: the threads run (weak), and connecting succeeds again and again if it is tried again and again (strong: the PLC
  accepts).  Nothing makes messages arrive, and nobody presses a button.
- `task_services`: tasks, writer and main thread run (weak).  No strong fairness for a notified task: that
  every task ends follows from their finite number.
- `pda_server`: the event loop runs (weak); scanners need not send, hang up or end a message.
- `pictures`, `ftp_server`: the upload thread and the watcher thread run; what fails fails a bounded
  number of times.

## What the code does not keep

Two statements of the source are checked and violated; `PROJECT.json` quotes them:
- `StopEnds` (`qttcpserver.h` 29): `stop` disconnects its clients while it holds `m_mutex`;
  `disconnectFromHost` emits `disconnected` before it returns, the slot runs at once, on the same thread, and locks
  `m_mutex` again.  With a scanner connected, closing the window hangs.
- `NumberFromRow` (`dataprocess.cpp` 769, 781): when the map no longer has the number of a code, station and order are to be
  taken from its row; they are read by two queries, and a scan of the code that rewrites the row between them makes a
  number that no row ever had, maybe that of another parcel.  `SlotForCarrier` excepts the slots sent this way (`byRow`).  It
  takes scans of a code that overlap.

Others are in the models, and a property says exactly where they are kept:
- `RefreshHasLogin` (`jtrequest.cpp` 350): a login that ends with an error and no retry left, or that a full queue
  drops, leaves `m_refreshingToken` set; no refresh is started again, and expired requests stay paused.  No other path does.
- `SkippedByModeChange` (`dataprocess.cpp` 490): the mode is read at 492 and again at 517; a change in between
  skips both branches, and the parcel gets no slot.
- `EmptyIsBeingFilled` (`read_excel.py` 278): the file of a failed update is moved away although the table is empty.
- `ClosingEnds`: a task that wants a connection after `shutdown` has emptied the pool waits for ever, and with it the program,
  or the main thread waits itself, in a handler: `acquire` does not look at `initialized`.
- `ImplementsLogBook`: what is logged after `close` may be lost; tasks still log then.
- `OneProducer`, `LinkComesBack`: see `overrun` above.
- `CleanUpEnds`: with a hand scanner connected the clean-up hangs before it comes to the PLC ports.
- `AnnouncedFirst` (`dataprocess.cpp` 728-752): an announcement that finds the supply port busy is stored until the next scan finds it free, one that meets
  a broken link is lost (731, 745); the slot goes out by another port meanwhile, and the PLC gets it first, or for a parcel it never heard of.
- `ScanGetsSlot` (`dataprocess.cpp` 481, 506): a second scan of a code overwrites the number of the first, which then gets no slot, and one that comes between
  sending and erasing loses its own.  A parcel whose request ends without an answer gets none either.
- `SlotForCarrier` (`dataprocess.cpp` 504, 769-784): the entry of a number may be erased under the reference of a sending task, and then anything
  is sent; after a failed query the slot goes out under -1.
- `ReportedOnce` (`dataprocess.cpp` 390-450): the number is erased at the end of the task.  A PLC that repeats it before that has the parcel
  reported twice.
- `ReportedWasSent` (`dataprocess.cpp` 393-444): when the number is scanned anew under an unload task, the slot of one parcel
  is reported with the code of another, and the new entry is then erased.
- `SlotRecorded` (`dataprocess.cpp` 593-614, 698): a task that has read -1 from the row writes it back over the slot of an answer that
  came in between, when scans of a code overlap.
- `QueuedIsSent` (`jtrequest.cpp` 297): the abort path starts no queued request; see the fairness of `requests_prompt`.
- `PortIsExclusive`, `MessageInOnePlace`, `StoredGoesFirst` (`dataprocess.cpp` 274): they hold up to the first unlock of a mutex that another
  thread holds.  `StoredGoesFirst` speaks of what is stored when a task looks at the queue: what others store behind its look it may overtake.
- `MarkedWasStored`, `MarkIsTrue` (`uploader.py` 60, 224): with two pictures of a code, the mark may be earned by the other one.
- `PendingIsSettled` (`uploader.py` 67): rows that are given up stay pending, and fifty of them fill the LIMIT of every fetch, so that nothing else is
  uploaded until a restart.  In the run there are no more codes than a fetch takes.
- `FileIsTaken` (`read_excel.py` 266-276): a file that replaces another while that is being loaded is moved away with it, unread.

Other differences, seen while modelling, that no run states:
- `jtrequest.cpp` 438 fails paused requests when a login fails; a login answered
  as expired (348-355), without a token (426-430), or ended by an error leaves them paused.
- `jtrequest.cpp` 362 reports a replay that is refused again; replays carry the tag
  "login" (416), so line 348 takes them first, without `requestFailed`.  Lines 361-370 are never reached.
- `jtrequest.cpp` 389 starts a refresh only when none is under way; the answer
  to a replay clears the flag during a later refresh, and a second login is started.
- `jtrequest.cpp` 419 enqueues replays without the test of `maxQueueSize` at 124.
- `dataprocess.h` 36: -1 means that no slot was requested; a second scan reads -1 until
  the answer has been written to the row.
- `dataprocess.cpp` 375: an FA segment is to delete the parcel's package record; the handler does
  not look at the prefix.  458: a slot status message is to empty the
  package of the slot; the handler only logs it.
- `dataprocess.h` 60: a message to the PLC is to wait for the reply to the last;
  `isRecvAndSend` is never read.

## The proofs

| Theorem | States |
| --- | --- |
| `SpscRingProofs`: `RingInvariant`, `TypeCorrect`, `CountersNeverLap`, `SlotsNeverRace`, `NeverTorn` | `RingInv` and its consequences hold in every reachable state |
| `SpscRingProofs`: `RingImplementsFifo` | `SpscRing` implements `BoundedFifo` |
| `JTRequestProofs`: `TypedInvariant`, `TypeCorrect`, `PendingBounded` | types, and never more than `Limit` requests in flight |
| `JTRequestProofs`: `PlacedInvariant`, `EachInOnePlace` | a request under way is in one place, and a settled one in none |
| `JTRequestProofs`: `BudgetedInvariant`, `RetriesBounded` | a request is posted at most as often as its retries allow |
| `JTRequestProofs`: `RequestsImplementDesk` | `JTRequest` implements `RequestDesk`: one end for each request, an answer only from flight, a limited number of posts |
| `JTRequestProofs`: `LoginTrackedInvariant`, `RefreshAlwaysHasLogin` | the refresh flag goes with a login, but for the two paths below |
| `ParcelFlowProofs`: `ParcelInvariant`, `TypeCorrect` | `ParcelInv` holds in every reachable state |
| `ParcelFlowProofs`: `SlotsForCarriers`, `AnnouncedBeforeSlot`, `RowsRecorded` | slots go out under the number of their parcel, after its announcement was made, and into its row |
| `ParcelFlowProofs`: `EachReportedOnce`, `ReportedSlotsWereSent`, `SkippedNeedsSwitch` | a drop is reported twice only by messages at work at the same time, and with a slot of its code unless the number was given out again; no parcel is skipped but by a change of the mode |
| `PlcSendProofs`: `PortInvariant`, `PortHasOneUser`, `TypeCorrect` | one thread at a time uses an outgoing port, until the connector unlocks the mutex of a task |
| `PlcSendProofs`: `PlaceInvariant`, `EachMessageInOnePlace`, `OrderInvariant`, `StoredBeforeLater` | until then a message is in one place and is not overtaken by a later one |
| `FtpServerProofs`: `PicInvariant`, `PicTypeCorrect`, `MarkIsEarned`, `MarksAreTrue` | a mark in table `pic` says what became of the picture |
| `FtpServerProofs`: `SlotFileInvariant`, `NeverTwoFiles`, `EmptyOnlyBetween` | the slot table never mixes two files; a restart alone does not leave it empty |
| `FtpServerProofs`: `ServiceUsesPictures`, `ServiceUsesWatcher`, `ServiceMarksAreTrue`, `ServiceNeverTwoFiles`, `ServiceEmptyOnlyBetween` | the service implements both parts, so that the same holds of it |
| `TaskServicesProofs`: `PoolInvariant`, `PoolOneUser`, `PoolWakes` | a connection has one user; no wakeup is lost |
| `TaskServicesProofs`: `LogInvariant`, `LogLineInItsHour`, `LoggerImplementsBook` | every line is in the file of its hour; the logger implements the safety part of `LogBook` |
| `TaskServicesProofs`: `TasksOneUser`, `TasksWake`, `TasksLineInItsHour`, `TasksImplementBook`, `TasksTypeCorrect` | the same for the composition with the tasks and the end of the program |
| `IntakeProofs`: `PlcInvariant`, `IntakeOneProducer`, `IntakeQuietAfterStop`, `TypeCorrect` | a ring has one producer and is filled in order; nothing is called back behind `stop` |
| `PdaServerProofs`: `PdaInvariant`, `TypeCorrect`, `MessagesWhole` | what is emitted under the id of a scanner is what it sent, whole and in order, however its bytes were cut |

They hold for every value of the constants under the named assumptions:
- `RingAssumption`: `Cap` positive, smaller than `CounterMod` and a divisor
  of it (the constructor rounds to a power of two), `Batch` positive, `Torn` and
  `NoItem` not messages;
- `RequestAssumption`: finite disjoint sets of ids, `Limit` positive, the other
  numbers natural;
- `ParcelAssumption`, `NoneAssumption`: stations are among 1 .. 12 and have numbers to give, the slot tables hold
  integers, the bounds are natural, and `NoNumber`, `Garbage`, `Empty`, `NoCode`, `NoSlot`, `NoRow` are none of the things they stand beside;
- `PdaAssumption`: the five kinds of byte the framing tells apart, the bounds are natural;
- `PicAssumption`: every picture has a code, a round fetches and a put tries at least once, `NoRow` is no row and `NoPicture` no picture;
- `SlotFileAssumption`: `NoFile` no file, every file has its pairs;
- `PoolAssumption`: finitely many connections and tasks, `NoConn` not a connection;
- `LoggerAssumption`: a day has hours, the bounds are natural, `NoFile` is no file;
- `PlcSendAssumption`: a batch has at least one message;
- `PlcReceiveAssumption`, `UdpAssumption`, `IntakeAssumption`: `NoSock` is no handle, the bounds are natural;
- `TaskServicesAssumption`: what is logged is named after the task that logs it, and handlers are tasks.

The arguments:
- *Ring.*  `CountersOrdered` says that `seenHead`, `head`, `seenTail` and `tail` follow
  each other within `Cap` of the modulus.  It is not inductive alone.  `RingInv` adds
  that a producer past its test has a free slot even as it sees `head`
  (`PushHasRoom`), that the slot it has finished holds its message (`PushWritten`), that every
  slot between head and tail holds a message (`RingHoldsItems`), that the worker copies from `head` on, no more than there is, and has copied the front of the ring (`CopyIsFront`), that a batch holds messages
  only (`BatchIsItems`), and a bound on the drops.  The arithmetic of wrapping is proved once, as lemmas on
  `Plus`, `Minus` and `Slot`: two positions less than `Cap` apart have different
  slots, which is where `Cap` must divide the modulus.  `NoSlotRace` follows from there: the slot being written is at `tail`, the batch of the
  worker lies between `head` and `tail`, and what the producer has not seen returned lies behind, all within `Cap` of each other.  For the
  refinement the content of the ring maps to the queue; `TryPushStore`,
  `TryPushFull` and `PopBulkStore` map to the abstract steps, the rest stutters.
- *Scheduler.*  `TypeOK` does not say that the pending set is finite, and
  cardinalities need that: the invariant adds it.  `EnqueueOrSend` adds one only below the
  limit, and `Startable` never lets `TryStartNext` exceed it; every handler is a
  composition of those two and a removal.  For `OnePlace`, counting is of no use in a proof: `Placed` says that pending
  set, queue, paused requests and timers are disjoint, that neither sequence repeats an id, and that exactly the ids under way are in one of them;
  each helper has a lemma on what it moves from where to where, each handler one step that puts them together.
  `Budgeted` adds to the posts of a request what is left of its retries, and to those the post that a queued one or one behind a timer has
  still ahead; it needs `Placed`, as a request in two places would be posted twice for one retry.  A replay gets a second budget, and only
  one: it carries the tag "login", which keeps it from being paused again.  `LoginTracked` says that logins keep that tag, and
  that one of them is under way, or ended as an error or for want of room, while the flag is set.
  The refinement maps `outcome` and the pending set to the phase of a request (`Phase`), and the posts to themselves.  Each handler has
  one lemma (`...Promised`) on what it makes of *every* request, since it may end one and start others: `Ends` and `Counts`.  That an
  ended request is neither ended nor posted again comes from `Placed`, the number of posts from `Budgeted`, and that a retry at once is
  never refused from the bound: there is room for the one that left (`SentAgainKept`).
- *Parcel flow.*  The conjuncts of `ParcelInv` hold only together.  `Carried` says that the scan that carries a number was given it, and
  that the code the map has of a number is the one of its carrier; with it `MapOfCarrier` (the number that the map has of a code in work is carried by a parcel
  with that code) gives `SlotForCarrier`.  `Referred` says what a task with a reference may count on: its number was given to a scan, and the
  entry is there unless it is marked as torn.  `ReportedOnce` comes from `ReportsPlaced` and `Meeting`: the task that made a report has the number still
  in hand, or has erased it, and then no task finds it until another scan is given it; two tasks with one number in hand have met.
  `SlotsKnown` follows a slot from the answer through map, row and tasks: wherever one is kept, the PLC was told it; `FrameSlotsKnown` carries that to the
  task of a frame for as long as the entry it refers to is that of the same scan.
  `OneWork`, `Announced` and `RowInStep` are for plants without overlap: one piece of work on a code at a time, announced
  before it goes on, and row and map apart only between an answer and its write.  `RowInStep` needs
  that a task between its query and its write still has the slot of the row (`TaskInStep`), without which it is not inductive.
- *Slot file.*  `SlotFileInv` adds that an update in progress has a file to
  come back to and the pairs of a dropped one (`UpdateHasFile`), that the
  INSERT finds an empty table (`FillFindsEmpty`), and that an update that went well
  leaves it filled (`UpdateFilled`).
- *Pictures.*  `PicInv`: what table, fetched rows and batch have of a code is a picture of it that the handler is done with
  (`Filed`), and a put about to write a mark has the ground for it (`Grounded`).  For the table there is one lemma: a step leaves it, enters
  a picture, or marks one row.
- *Pool.*  `NoLostWakeup` is inductive only with `Awake`: nobody sleeps and is notified at once, and neither has a connection.
  A release adds a connection and, if anybody sleeps, a notified task; a notified task that finds nothing
  means that none is free.
- *Logger.*  `Order` says that the lines, the message in hand and the queue are together what was accepted; `Closing`,
  that the thread is over only when `owed` lines are written.  For the hours there is a time at which the last
  rotation took place (`Hours`): `rotated` is its stamp, and the file is one between it and now, or one could not be opened (`GoodFile`).
  Days and hours determine the time, so that the rotation is due exactly when the time has changed.
- *Outgoing port.*  `PortIsExclusive` is inductive with `PortIsLocked`: whoever uses the port holds the mutex.  Then a
  thread that finds it free is alone, and one that unlocks was.
  `PlaceInv` adds that a task takes no more than the queue still holds, and says without counting that a message is in one place; `OrderInv` says what "in front" means in
  every place: in the queue, in what a task has taken, on the wire.
- *Receiving port.*  `PlcInv` adds that between a disconnect and the next connection `receiving` is clear and there is no handle
  (`NotConnected`), that a handle other than the present one is closed and empty (`OnlyLink`), and that a receiver serves the present
  connection and has seen an end only if there is one (`OneReceiver`).  So a connection made while a receiver is alive sets `overrun`,
  and without it there is one receiver at most.  `InOrder` says that what was pushed is older than what is in hand, and that older than what
  has arrived.
- *UDP receiver.*  `UdpInv`: `stop` returns behind the end of the thread, or there never was one.
- *PDA server.*  `Understood` is the invariant: the messages a scanner means are those emitted, with those that `Drain` would make of its buffer
  and what is unread, and what it has begun is the rest of that.  Under it lie lemmas on what one more byte does to `Drain`: a terminator ends the
  line in hand, another byte makes it longer, and draining in pieces gives the lines of the whole.  `Addressed` says that an address belongs to
  one connection at a time, `InTurn` that ids are given in the order of the connections.  The first form of `Understood` was
  not inductive for a scanner that hangs up before it is accepted.
- *Composition.*  The same for `FtpServer` with its two parts.  Every step of `Intake` is a step of the port or none, and a step of the UDP receiver or none.  Every step of `TaskServices` is a step of the pool or none, and a step of the logger or none; so it
  implements both, and their theorems carry over.

Every invariant and every safety property that a run checks and finds to hold is stated by a theorem.
Only model-checked are the liveness properties, since fairness and `ENABLED` are beyond the prover: `OldestIsPopped`, `BatchIsHandled`, `QueuedIsSent`,
`ScanGetsSlot`, `PendingIsSettled`, `FileIsTaken`, `LinkComesBack`, `CleanUpEnds`, `TaskEnds`, `ClosingEnds`,
`MessageArrives`, and the liveness part of `LogBook` in `ImplementsLogBook`.

## Not modelled

- The functions of `UdpReceiver` and `QtTcpServer` that send, and the message handler: nothing calls them.
- The start of `SqlConnection` and its two functions that read the slot tables once, before anything runs.
- The echo of an unload frame to the PLC, weights, the column `shortUrl`: no property looks at them.
- `otherfunction.cpp`, `utils.py`, widgets, configuration: pure functions of text, start-up.
- The data races of the maps and of plain flags such as `SocketConnection` beyond the order of their reads and
  writes: what undefined behaviour could do to the memory of a map is not modelled.
- *ftp_server/test* is an older version in one file that the program does not run.

## Plan

Done, in this order: `SpscRing` with its abstract specification and proofs,
`JTRequest` with `RequestDesk`, `ParcelFlow`, `PlcSend`, `PicUpload`, `SlotFile`; then the services beside
and below them: `SqlPool`, `LoggerQueue` and their composition, `PlcReceive`, `UdpReceiver` and
their composition, `PdaServer`; the composition `FtpServer`; and for all of them the proofs of their safety properties.
The order follows what a failure costs: the data path first, then what decides about a parcel,
then the services beside it.

Next modules: a composition of the port, the parcel flow and the scheduler.  Today `ParcelFlow` takes a send
with its three results as one step, and a request as answered or ended.  Then the start of the program.

Next properties: the differences listed above without a run; the account of a token, when two logins are answered out of order.

Next theorems: abstract specifications of the outgoing port (a queue that may lose) and of the PDA server (a sequence of messages
per scanner), each with its refinement; the invariants above are what those need.
