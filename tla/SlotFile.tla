------------------------------ MODULE SlotFile ------------------------------
(***************************************************************************)
(* The watcher of ftp_server/src/read_excel.py: it looks for the slot file *)
(* the operator drops into its directory, reads the pairs (terminal code,  *)
(* slot), replaces the table terminalcode_to_slot with them, and moves the *)
(* file away.  The table is cleared in one transaction and filled in a     *)
(* second one, and whoever reads it may do so in between.                  *)
(*                                                                         *)
(* A file is a model value that has Rows[file]; reading the spreadsheet    *)
(* either gives them or raises.  The file on disk may be replaced at any   *)
(* moment, and the service may stop and start again between two steps.     *)
(***************************************************************************)
EXTENDS Naturals, FiniteSets

CONSTANTS
  File,             \* the files the operator drops, each once
  NoFile,           \* there is no file
  Rows,             \* per file its pairs; {} when it holds only a header
  MaxWatchTrouble,  \* bound: how many reads, writes and moves fail
  MaxWatchRestarts  \* bound: how often the service is started again

ASSUME SlotFileAssumption ==
  /\ NoFile \notin File
  /\ DOMAIN Rows = File
  /\ MaxWatchTrouble \in Nat
  /\ MaxWatchRestarts \in Nat

VARIABLES
  target,       \* the file under the name the watcher looks for
  dropped,      \* every file dropped so far
  processed,    \* the files moved to the directory "processed"
  table,        \* what terminalcode_to_slot holds, as committed
  pc,           \* where the watcher is
  pairs,        \* what it has read
  everFilled,   \* whether the table has ever been filled
  updateFailed,   \* whether a connection, DELETE or INSERT has ever failed
  watchTrouble, watchRestarts

watchVars == <<target, dropped, processed, table, pc, pairs, everFilled,
               updateFailed, watchTrouble, watchRestarts>>

WatchInit ==
  /\ target = NoFile
  /\ dropped = {}
  /\ processed = {}
  /\ table = {}
  /\ pc = "look"
  /\ pairs = {}
  /\ everFilled = FALSE
  /\ updateFailed = FALSE
  /\ watchTrouble = 0
  /\ watchRestarts = 0

WatchTrouble == watchTrouble < MaxWatchTrouble /\ watchTrouble' = watchTrouble + 1
-----------------------------------------------------------------------------
\* The operator drops a file, over the one that is there if there is one.
DropFile(f) ==
  /\ f \notin dropped
  /\ target' = f
  /\ dropped' = dropped \cup {f}
  /\ UNCHANGED <<processed, table, pc, pairs, everFilled, updateFailed, watchTrouble,
                 watchRestarts>>

\* Where the watcher goes once it has read "read": without a pair the table is
\* left alone.
AfterRead(read) == IF read = {} THEN "move" ELSE "clear"

\* Faulty variant: the file is moved away before its pairs are in the table.
ReadSlotExcelMovesFirst ==
  /\ pc = "look"
  /\ target # NoFile
  /\ pairs' = Rows[target]
  /\ pc' = AfterRead(Rows[target])
  /\ target' = NoFile
  /\ UNCHANGED <<dropped, processed, table, everFilled, updateFailed, watchTrouble,
                 watchRestarts>>

\* The file is there and is read.
ReadSlotExcel ==
  /\ pc = "look"
  /\ target # NoFile
  /\ pairs' = Rows[target]
  /\ pc' = AfterRead(Rows[target])
  /\ UNCHANGED <<target, dropped, processed, table, everFilled, updateFailed,
                 watchTrouble, watchRestarts>>

\* Reading raises, for instance because the file is still being copied: the
\* file stays for the next round.
ReadFails ==
  /\ pc = "look"
  /\ target # NoFile
  /\ WatchTrouble
  /\ UNCHANGED <<target, dropped, processed, table, pc, pairs, everFilled,
                 updateFailed, watchRestarts>>

\* Faulty variant: the rows are never deleted.
CommittedDeleteNone(rows) == rows

\* DELETE without a WHERE, and its commit.
CommittedDelete(rows) == {}

ClearTable ==
  /\ pc = "clear"
  /\ table' = CommittedDelete(table)
  /\ pc' = "fill"
  /\ UNCHANGED <<target, dropped, processed, pairs, everFilled, updateFailed,
                 watchTrouble, watchRestarts>>

\* No connection, or the DELETE fails: logged, and the function returns.
ClearFails ==
  /\ pc = "clear"
  /\ WatchTrouble
  /\ updateFailed' = TRUE
  /\ pc' = "move"
  /\ UNCHANGED <<target, dropped, processed, table, pairs, everFilled,
                 watchRestarts>>

\* executemany and its commit: every pair, or none.
FillTable ==
  /\ pc = "fill"
  /\ table' = table \cup pairs
  /\ everFilled' = TRUE
  /\ pc' = "move"
  /\ UNCHANGED <<target, dropped, processed, pairs, updateFailed, watchTrouble,
                 watchRestarts>>

\* The INSERT fails and is rolled back; the DELETE is committed.
FillFails ==
  /\ pc = "fill"
  /\ WatchTrouble
  /\ updateFailed' = TRUE
  /\ pc' = "move"
  /\ UNCHANGED <<target, dropped, processed, table, pairs, everFilled,
                 watchRestarts>>

\* Faulty variant: the processed file is copied and stays where it is.
MoveProcessedCopies ==
  /\ pc = "move"
  /\ processed' = processed \cup {target}
  /\ pc' = "look"
  /\ pairs' = {}
  /\ UNCHANGED <<target, dropped, table, everFilled, updateFailed, watchTrouble,
                 watchRestarts>>

\* The rename moves whichever file has the name by now.
MoveProcessed ==
  /\ pc = "move"
  /\ processed' = processed \cup {target}
  /\ target' = NoFile
  /\ pc' = "look"
  /\ pairs' = {}
  /\ UNCHANGED <<dropped, table, everFilled, updateFailed, watchTrouble, watchRestarts>>

\* The rename raises, for instance because the file is open elsewhere: the
\* file stays, and the next round loads it again.
MoveFails ==
  /\ pc = "move"
  /\ WatchTrouble
  /\ pc' = "look"
  /\ pairs' = {}
  /\ UNCHANGED <<target, dropped, processed, table, everFilled, updateFailed,
                 watchRestarts>>

\* The service stops between two steps and starts again.
WatchRestart ==
  /\ watchRestarts < MaxWatchRestarts
  /\ watchRestarts' = watchRestarts + 1
  /\ pc' = "look"
  /\ pairs' = {}
  /\ UNCHANGED <<target, dropped, processed, table, everFilled, updateFailed,
                 watchTrouble>>
-----------------------------------------------------------------------------
Watch ==
  \/ ReadSlotExcel \/ ReadFails
  \/ ClearTable    \/ ClearFails
  \/ FillTable     \/ FillFails
  \/ MoveProcessed \/ MoveFails

WatchStep == (\E f \in File : DropFile(f)) \/ Watch

WatchNext == WatchStep \/ WatchRestart

WatchSpec == WatchInit /\ [][WatchNext]_watchVars

\* The watcher's thread keeps running.
WatchFairSpec == WatchSpec /\ WF_watchVars(Watch)
-----------------------------------------------------------------------------
(* Properties.                                                             *)

WatchTypeOK ==
  /\ target \in File \cup {NoFile}
  /\ dropped \subseteq File
  /\ processed \subseteq File
  /\ table \subseteq UNION {Rows[f] : f \in File}
  /\ pc \in {"look", "clear", "fill", "move"}
  /\ pairs \in {{}} \cup {Rows[f] : f \in File}
  /\ everFilled \in BOOLEAN
  /\ updateFailed \in BOOLEAN
  /\ watchTrouble \in 0 .. MaxWatchTrouble
  /\ watchRestarts \in 0 .. MaxWatchRestarts

\* Whenever the table is read, it holds the pairs of one dropped file,
\* all of them, or nothing: never a mixture of two files, whatever fails and
\* wherever the service is stopped.
OneFileAtATime == table = {} \/ \E f \in dropped : table = Rows[f]

\* Once the table has been filled it is found empty only while a file is being
\* loaded or is still there to be loaded, unless an update of the table has failed or
\* a file without pairs was dropped: a restart between the two transactions
\* does not by itself leave it empty for good.
EmptyIsBeingFilled ==
  everFilled /\ table = {} =>
    \/ target # NoFile
    \/ updateFailed
    \/ \E f \in dropped : Rows[f] = {}

\* The inductive invariant behind the two: an update in progress has a file to
\* come back to and the pairs of one; the INSERT finds the table empty; and an
\* update that went well leaves it filled.
UpdateHasFile ==
  /\ target \in dropped \cup {NoFile}
  /\ pc # "look" => target # NoFile
  /\ pc \in {"clear", "fill"} => \E f \in dropped : pairs = Rows[f] /\ pairs # {}

FillFindsEmpty == pc = "fill" => table = {}

UpdateFilled ==
  pc = "move" =>
    table # {} \/ updateFailed \/ \E f \in dropped : Rows[f] = {}

SlotFileInv ==
  /\ WatchTypeOK
  /\ OneFileAtATime
  /\ EmptyIsBeingFilled
  /\ UpdateHasFile
  /\ FillFindsEmpty
  /\ UpdateFilled

\* A dropped file that nobody replaces does not stay for ever: it is moved
\* away once reading and moving it succeed.
FileIsTaken == \A f \in File : (target = f) ~> (target # f)
=============================================================================
