----------------------------- MODULE PicUpload ------------------------------
(***************************************************************************)
(* The picture service of ftp_server/src: the FTP handler files a received *)
(* picture and enters it in the table pic (ftp_handler.py, db.py), and the *)
(* upload thread asks for the pending rows, has the service name an upload *)
(* address for each, and puts the pictures there (uploader.py).            *)
(*                                                                         *)
(* Every statement of db.py commits by itself, so the two threads meet     *)
(* between any two of them.  A row is found by its code; the picture it    *)
(* names may have changed since it was fetched.                            *)
(***************************************************************************)
EXTENDS Naturals, FiniteSets

CONSTANTS
  Code,          \* waybills
  Picture,       \* the pictures that arrive, in files of their own
  CodeOf,        \* [Picture -> Code]
  NoRow, NoPicture,
  FetchLimit,    \* the LIMIT of fetch_pending: 50
  MaxRetries,    \* MAX_RETRIES_PER_FILE
  MaxTrouble,    \* bound: failures of the network, the service or the login
  MaxRemovals,   \* bound: pictures somebody deletes
  MaxRestarts    \* bound: restarts of the service

\* What a row of a code can be.
Row == [path : Picture, is_upload : 0 .. 2]

ASSUME PicAssumption ==
  /\ NoRow \notin Row /\ NoPicture \notin Picture
  /\ FetchLimit \in Nat \ {0} /\ MaxRetries \in Nat \ {0}
  /\ MaxTrouble \in Nat /\ MaxRemovals \in Nat /\ MaxRestarts \in Nat
  /\ CodeOf \in [Picture -> Code]

VARIABLES
  pic,         \* the table: per code, the picture (path) and is_upload
  files,       \* the pictures on disk
  received,    \* the pictures the handler is done with
  filing,      \* the picture the handler has moved but not entered yet
  errorDir,    \* the pictures copied to db_error
  run,         \* the upload thread: pc, rows to look at, rows_by_code, puts
  attempts,    \* per code, failed attempts (in memory)
  stored,      \* the pictures the service has
  trouble, removals, restarts

bounds == <<trouble, removals, restarts>>
handler == <<received, filing, errorDir>>
picVars == <<pic, files, handler, run, attempts, stored, bounds>>

\* rows and batch: code -> picture, as fetched; puts: what do_put has still to
\* do per code, and what it has done.
NoBatch == [c \in {} |-> NoPicture]
IdleRun == [pc |-> "fetch", rows |-> NoBatch, batch |-> NoBatch,
            put |-> [c \in Code |-> "none"]]

PicInit ==
  /\ pic = [c \in Code |-> NoRow]
  /\ files = {}
  /\ received = {}
  /\ filing = NoPicture
  /\ errorDir = {}
  /\ run = IdleRun
  /\ attempts = [c \in Code |-> 0]
  /\ stored = {}
  /\ trouble = 0
  /\ removals = 0
  /\ restarts = 0

Trouble == trouble < MaxTrouble /\ trouble' = trouble + 1
OnDisk(p) == p \in files
Without(f, c) == [d \in DOMAIN f \ {c} |-> f[d]]
-----------------------------------------------------------------------------
(* The FTP handler.                                                        *)

\* on_file_received: a picture is moved to its directory; what is too big or no
\* picture is deleted before.
FileReceived(p) ==
  /\ filing = NoPicture
  /\ p \notin received
  /\ filing' = p
  /\ files' = files \cup {p}
  /\ UNCHANGED <<pic, received, errorDir, run, attempts, stored, bounds>>

EnteredRow(p) == [path |-> p, is_upload |-> 0]

\* insert_or_update_pic, one row per code; if it fails the picture is copied.
InsertOrUpdatePic ==
  /\ filing # NoPicture
  /\ \/ /\ pic' = [pic EXCEPT ![CodeOf[filing]] = EnteredRow(filing)]
        /\ UNCHANGED <<errorDir, trouble>>
     \/ /\ Trouble
        /\ errorDir' = errorDir \cup {filing}
        /\ UNCHANGED pic
  /\ received' = received \cup {filing}
  /\ filing' = NoPicture
  /\ UNCHANGED <<files, run, attempts, stored, removals, restarts>>

\* Somebody deletes a picture from the disk.
RemoveFile(p) ==
  /\ p \in files /\ p # filing
  /\ removals < MaxRemovals
  /\ removals' = removals + 1
  /\ files' = files \ {p}
  /\ UNCHANGED <<pic, handler, run, attempts, stored, trouble, restarts>>
-----------------------------------------------------------------------------
(* The upload thread.                                                      *)

Pending == {c \in Code : pic[c] # NoRow /\ pic[c].is_upload = 0}

\* fetch_pending: at most FetchLimit pending rows, in no given order.
FetchPending ==
  /\ run.pc = "fetch"
  /\ \E cs \in SUBSET Pending :
       /\ cs # {}
       /\ Cardinality(cs) = FetchLimit
            \/ (cs = Pending /\ Cardinality(cs) < FetchLimit)
       /\ run' = [IdleRun EXCEPT !.pc = "look",
                                 !.rows = [c \in cs |-> pic[c].path]]
  /\ UNCHANGED <<pic, files, handler, attempts, stored, bounds>>

Exhausted(c) == attempts[c] >= MaxRetries

\* A fetched row without a file on disk will be marked; one with too many
\* attempts is left alone; any other joins the batch.
LookAtRow(c) ==
  LET p == run.rows[c]
      next == [run EXCEPT !.rows = Without(@, c)]
  IN  /\ run.pc = "look"
      /\ c \in DOMAIN run.rows
      /\ run' = IF ~OnDisk(p) THEN [run EXCEPT !.pc = "missing", !.put[c] = "missing"]
                ELSE IF Exhausted(c) THEN next
                ELSE [next EXCEPT !.batch = [d \in DOMAIN @ \cup {c} |->
                                               IF d = c THEN p ELSE @[d]]]
      /\ UNCHANGED <<pic, files, handler, attempts, stored, bounds>>

\* Faulty variant: the row stays pending.
MissingMarkPending == 0

\* is_upload of a row whose picture is missing
MissingMark == 2

\* mark_missing: by the id of the row, whatever picture it names by now; a
\* failure is only logged.
MarkMissing(c) ==
  /\ run.pc = "missing"
  /\ run.put[c] = "missing"
  /\ run' = [run EXCEPT !.pc = "look", !.rows = Without(@, c), !.put[c] = "none"]
  /\ \/ pic' = [pic EXCEPT ![c].is_upload = MissingMark] /\ UNCHANGED trouble
     \/ Trouble /\ UNCHANGED pic
  /\ UNCHANGED <<files, handler, attempts, stored, removals, restarts>>

\* Every row has been looked at: the batch, if there is one, is posted.
StartPost ==
  /\ run.pc = "look"
  /\ run.rows = NoBatch
  /\ run' = IF run.batch = NoBatch THEN IdleRun ELSE [run EXCEPT !.pc = "post"]
  /\ UNCHANGED <<pic, files, handler, attempts, stored, bounds>>

CountAttempts(cs) ==
  attempts' = [c \in Code |-> IF c \in cs THEN attempts[c] + 1 ELSE attempts[c]]

\* There is no token: the round is skipped, and no attempt is counted.
NoTokenThisRound ==
  /\ run.pc = "post"
  /\ Trouble
  /\ run' = IdleRun
  /\ UNCHANGED <<pic, files, handler, attempts, stored, removals, restarts>>

\* The post, or the post after a refused token, ends without addresses: the
\* whole batch has failed.
PostFails ==
  /\ run.pc \in {"post", "repost"}
  /\ Trouble
  /\ CountAttempts(DOMAIN run.batch)
  /\ run' = IdleRun
  /\ UNCHANGED <<pic, files, handler, stored, removals, restarts>>

\* The token is refused: a login is forced; the post is repeated once.  (A
\* login that brings nothing leaves the old token, or none: PostFails.)
TokenRefused ==
  /\ run.pc = "post"
  /\ Trouble
  /\ run' = [run EXCEPT !.pc = "repost"]
  /\ UNCHANGED <<pic, files, handler, attempts, stored, removals, restarts>>

\* The service names an address for the pictures of cs, all or some.
PostAnswered(cs) ==
  /\ run.pc \in {"post", "repost"}
  /\ cs # {} /\ cs \subseteq DOMAIN run.batch
  /\ IF cs = DOMAIN run.batch THEN UNCHANGED trouble ELSE Trouble
  /\ run' = [run EXCEPT !.pc = "put",
                        !.put = [c \in Code |-> IF c \in cs THEN "put" ELSE "none"]]
  /\ UNCHANGED <<pic, files, handler, attempts, stored, removals, restarts>>

\* do_put: the picture of the fetched row is gone; its row will be marked.
PutMissing(c) ==
  /\ run.pc = "put" /\ run.put[c] = "put"
  /\ ~OnDisk(run.batch[c])
  /\ run' = [run EXCEPT !.put[c] = "markMissing"]
  /\ UNCHANGED <<pic, files, handler, attempts, stored, bounds>>

PutMarkMissing(c) ==
  /\ run.pc = "put" /\ run.put[c] = "markMissing"
  /\ \/ pic' = [pic EXCEPT ![c].is_upload = MissingMark] /\ UNCHANGED trouble
     \/ Trouble /\ UNCHANGED pic
  /\ run' = [run EXCEPT !.put[c] = "failed"]
  /\ UNCHANGED <<files, handler, attempts, stored, removals, restarts>>

\* Faulty variant: the status of the answer is not looked at.
PutRefusedUnnoticed(c) ==
  /\ run.pc = "put" /\ run.put[c] = "put"
  /\ OnDisk(run.batch[c])
  /\ Trouble
  /\ run' = [run EXCEPT !.put[c] = "mark"]
  /\ UNCHANGED <<pic, files, handler, attempts, stored, removals, restarts>>

\* Faulty variant: a refused picture is taken for a missing one.
PutRefusedMissing(c) ==
  /\ run.pc = "put" /\ run.put[c] = "put"
  /\ OnDisk(run.batch[c])
  /\ Trouble
  /\ run' = [run EXCEPT !.put[c] = "markMissing"]
  /\ UNCHANGED <<pic, files, handler, attempts, stored, removals, restarts>>

\* The picture is refused, or the network fails.
PutRefused(c) ==
  /\ run.pc = "put" /\ run.put[c] = "put"
  /\ OnDisk(run.batch[c])
  /\ Trouble
  /\ run' = [run EXCEPT !.put[c] = "failed"]
  /\ UNCHANGED <<pic, files, handler, attempts, stored, removals, restarts>>

\* The service has the picture; its row will be marked.
PutStored(c) ==
  /\ run.pc = "put" /\ run.put[c] = "put"
  /\ OnDisk(run.batch[c])
  /\ stored' = stored \cup {run.batch[c]}
  /\ run' = [run EXCEPT !.put[c] = "mark"]
  /\ UNCHANGED <<pic, files, handler, attempts, bounds>>

\* mark_uploaded: by code; a failure is only logged.
MarkUploaded(c) ==
  /\ run.pc = "put" /\ run.put[c] = "mark"
  /\ \/ pic' = [pic EXCEPT ![c].is_upload = 1] /\ UNCHANGED trouble
     \/ Trouble /\ UNCHANGED pic
  /\ run' = [run EXCEPT !.put[c] = "stored"]
  /\ UNCHANGED <<files, handler, attempts, stored, removals, restarts>>

\* A result of the pool: success forgets the attempts, failure counts one.
PutDone(c) ==
  /\ run.pc = "put"
  /\ \/ /\ run.put[c] = "stored"
        /\ attempts' = [attempts EXCEPT ![c] = 0]
     \/ /\ run.put[c] = "failed"
        /\ CountAttempts({c})
  /\ run' = [run EXCEPT !.put[c] = "none"]
  /\ UNCHANGED <<pic, files, handler, stored, bounds>>

\* The pool is empty: the round is over.
RoundDone ==
  /\ run.pc = "put"
  /\ \A c \in Code : run.put[c] = "none"
  /\ run' = IdleRun
  /\ UNCHANGED <<pic, files, handler, attempts, stored, bounds>>

\* The service stops and starts: what is in memory is gone.
PicRestart ==
  /\ restarts < MaxRestarts
  /\ restarts' = restarts + 1
  /\ run' = IdleRun
  /\ attempts' = [c \in Code |-> 0]
  /\ filing' = NoPicture
  /\ received' = received \cup ({filing} \ {NoPicture})
  /\ UNCHANGED <<pic, files, errorDir, stored, trouble, removals>>
-----------------------------------------------------------------------------
UploadStep ==
  \/ FetchPending \/ StartPost \/ RoundDone
  \/ NoTokenThisRound \/ PostFails \/ TokenRefused
  \/ \E cs \in SUBSET Code : PostAnswered(cs)
  \/ \E c \in Code :
       \/ LookAtRow(c) \/ MarkMissing(c)
       \/ PutMissing(c) \/ PutMarkMissing(c) \/ PutRefused(c) \/ PutStored(c)
       \/ MarkUploaded(c) \/ PutDone(c)

PicStep ==
  \/ \E p \in Picture : FileReceived(p) \/ RemoveFile(p)
  \/ InsertOrUpdatePic
  \/ UploadStep

PicNext == PicStep \/ PicRestart

PicSpec == PicInit /\ [][PicNext]_picVars

\* The upload thread runs; what can go wrong goes wrong a bounded number of
\* times (MaxTrouble).
PicFairSpec == PicSpec /\ WF_picVars(UploadStep)
-----------------------------------------------------------------------------
(* Properties.                                                             *)

\* A row is marked as uploaded only if the service has a picture of its code:
\* the mark is never set for a refused, lost or unposted picture.
MarkedWasStored ==
  \A c \in Code :
    pic[c] # NoRow /\ pic[c].is_upload = 1 =>
      \E p \in stored : CodeOf[p] = c

HasOnePicture(c) == \A p, q \in Picture : CodeOf[p] = c /\ CodeOf[q] = c => p = q

\* Where a code has a single picture, a mark is true of that picture: uploaded
\* means that the service has it, missing that it is not on disk.  (With a
\* second picture a mark meant for the first one can fall on it.)
MarkIsTrue ==
  \A c \in Code :
    HasOnePicture(c) /\ pic[c] # NoRow =>
      /\ pic[c].is_upload = 1 => pic[c].path \in stored
      /\ pic[c].is_upload = 2 => ~OnDisk(pic[c].path)

\* Where the pending rows fit into one fetch, every one is settled in the end:
\* its picture is uploaded or found missing, or its code has used up its
\* attempts.  (Rows of such codes stay pending; once they fill the LIMIT of
\* every fetch, no other row is looked at.)
PendingIsSettled ==
  \A c \in Code : (c \in Pending) ~> (c \notin Pending \/ Exhausted(c))
-----------------------------------------------------------------------------
(* The inductive invariant behind MarkedWasStored and MarkIsTrue.          *)

\* Rows as fetched: for some codes, the picture each row named.
Fetched == UNION {[cs -> Picture] : cs \in SUBSET Code}

\* What a put can have come to.
PutState == {"none", "missing", "put", "markMissing", "mark", "stored", "failed"}

\* Every variable has its type.
PicTypeOK ==
  /\ pic \in [Code -> Row \cup {NoRow}]
  /\ files \subseteq Picture
  /\ received \subseteq Picture
  /\ filing \in Picture \cup {NoPicture}
  /\ errorDir \subseteq Picture
  /\ run \in [pc : {"fetch", "look", "missing", "post", "repost", "put"},
              rows : Fetched, batch : Fetched, put : [Code -> PutState]]
  /\ attempts \in [Code -> Nat]
  /\ stored \subseteq Picture
  /\ trouble \in 0 .. MaxTrouble
  /\ removals \in 0 .. MaxRemovals
  /\ restarts \in 0 .. MaxRestarts

\* A picture that the handler is done with, entered or fetched for a code: it is
\* one of the code, and once deleted it does not come back.
Belongs(p, c) == CodeOf[p] = c /\ p \in received

\* What the table, the fetched rows and the batch have of a code belongs to it;
\* the picture being filed is still to come.
Filed ==
  /\ filing \notin received
  /\ \A c \in Code : pic[c] # NoRow => Belongs(pic[c].path, c)
  /\ \A c \in DOMAIN run.rows : pic[c] # NoRow /\ Belongs(run.rows[c], c)
  /\ \A c \in DOMAIN run.batch : pic[c] # NoRow /\ Belongs(run.batch[c], c)

\* A row is about to be marked as missing only for a fetched picture that is not
\* on disk, and as uploaded only for one the service has.
Grounded ==
  \A c \in Code :
    /\ run.put[c] = "missing" =>
         c \in DOMAIN run.rows /\ ~OnDisk(run.rows[c])
    /\ run.put[c] \notin {"none", "missing"} =>
         run.pc = "put" /\ c \in DOMAIN run.batch
    /\ run.put[c] = "markMissing" => ~OnDisk(run.batch[c])
    /\ run.put[c] \in {"mark", "stored"} => run.batch[c] \in stored

PicInv == PicTypeOK /\ Filed /\ Grounded
=============================================================================
