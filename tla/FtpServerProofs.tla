--------------------------- MODULE FtpServerProofs ---------------------------
(***************************************************************************)
(* Proofs about the two parts of ftp_server and the service they make up,   *)
(* for any waybills, pictures, slot files, limits, and numbers of failures, *)
(* deleted pictures and restarts.  Of PicUpload: the types, that a mark as  *)
(* uploaded was earned, and that the mark of a code with a single picture   *)
(* is true.  Of SlotFile: the table of slots holds one file's pairs or      *)
(* nothing, and is not empty for good.  The service has what its parts have. *)
(***************************************************************************)
EXTENDS FtpServer, TLAPS
-----------------------------------------------------------------------------
(* PicUpload.                                                              *)


\* The upload thread's state, field by field.
RunType(r) ==
  /\ r.pc \in {"fetch", "look", "missing", "post", "repost", "put"}
  /\ r.rows \in Fetched
  /\ r.batch \in Fetched
  /\ r.put \in [Code -> PutState]

\* The thread's state is the record of its fields.
LEMMA RunTypes ==
  PicTypeOK => RunType(run) /\ run = [pc |-> run.pc, rows |-> run.rows,
                                      batch |-> run.batch, put |-> run.put]
BY DEF PicTypeOK, RunType

\* No row, some of the rows, and one row more are fetched rows.
LEMMA FetchedNone == NoBatch \in Fetched /\ DOMAIN NoBatch = {}
<1>1. NoBatch \in [{} -> Picture]
  BY DEF NoBatch
<1> QED BY <1>1 DEF Fetched

\* Fewer rows are fetched rows.
LEMMA FetchedWithout ==
  ASSUME NEW f \in Fetched, NEW c
  PROVE  /\ Without(f, c) \in Fetched
         /\ DOMAIN Without(f, c) = DOMAIN f \ {c}
         /\ \A d \in DOMAIN f \ {c} : Without(f, c)[d] = f[d]
<1>1. PICK cs \in SUBSET Code : f \in [cs -> Picture]
  BY DEF Fetched
<1>2. Without(f, c) \in [cs \ {c} -> Picture]
  BY <1>1 DEF Without
<1> QED BY <1>1, <1>2 DEF Fetched, Without

\* A row more in the batch.
With(f, c, p) == [d \in DOMAIN f \cup {c} |-> IF d = c THEN p ELSE f[d]]

\* One row more gives fetched rows.
LEMMA FetchedWith ==
  ASSUME NEW f \in Fetched, NEW c \in Code, NEW p \in Picture
  PROVE  /\ With(f, c, p) \in Fetched
         /\ DOMAIN With(f, c, p) = DOMAIN f \cup {c}
         /\ With(f, c, p)[c] = p
         /\ \A d \in DOMAIN f \ {c} : With(f, c, p)[d] = f[d]
<1>1. PICK cs \in SUBSET Code : f \in [cs -> Picture]
  BY DEF Fetched
<1>2. With(f, c, p) \in [cs \cup {c} -> Picture]
  BY <1>1 DEF With
<1> QED BY <1>1, <1>2 DEF Fetched, With

\* Fetched rows are of some codes, and name pictures.
LEMMA FetchedOf ==
  ASSUME NEW f \in Fetched
  PROVE  DOMAIN f \subseteq Code /\ \A c \in DOMAIN f : f[c] \in Picture
BY DEF Fetched

\* The thread between two rounds.
LEMMA IdleRunType ==
  /\ RunType(IdleRun)
  /\ IdleRun.rows = NoBatch /\ IdleRun.batch = NoBatch
  /\ \A c \in Code : IdleRun.put[c] = "none"
BY FetchedNone DEF RunType, IdleRun, PutState

\* A row, and a row with another mark.
LEMMA RowTypes ==
  ASSUME NEW r \in Row, NEW m \in 0 .. 2
  PROVE  /\ r # NoRow /\ r.path \in Picture
         /\ [r EXCEPT !.is_upload = m] \in Row
         /\ [r EXCEPT !.is_upload = m].path = r.path
         /\ [r EXCEPT !.is_upload = m].is_upload = m
BY PicAssumption DEF Row
-----------------------------------------------------------------------------
(* What the actions change.                                                *)

\* A statement that marks a row keeps its picture and the other rows.
MarksRow(c, m) ==
  /\ pic' \in [Code -> Row \cup {NoRow}]
  /\ \A d \in Code \ {c} : pic'[d] = pic[d]
  /\ pic'[c] # NoRow
  /\ pic'[c].path = pic[c].path
  /\ pic'[c].is_upload = m

\* To set the mark of a row changes nothing else of the table.
LEMMA MarkEffect ==
  ASSUME PicTypeOK, NEW c \in Code, NEW m \in 0 .. 2, pic[c] # NoRow,
         pic' = [pic EXCEPT ![c].is_upload = m]
  PROVE  MarksRow(c, m)
<1>1. pic[c] \in Row
  BY DEF PicTypeOK
<1>2. pic' = [pic EXCEPT ![c] = [pic[c] EXCEPT !.is_upload = m]]
  OBVIOUS
<1> DEFINE r == [pic[c] EXCEPT !.is_upload = m]
<1>3. r \in Row /\ r # NoRow /\ r.path = pic[c].path /\ r.is_upload = m
  BY <1>1, RowTypes
<1> HIDE DEF r
<1> QED BY <1>2, <1>3 DEF MarksRow, PicTypeOK, r

\* The states the thread can be in.
Runs == [pc : {"fetch", "look", "missing", "post", "repost", "put"},
         rows : Fetched, batch : Fetched, put : [Code -> PutState]]

\* A state of the thread stays one when a field of it is set.
LEMMA RunOfParts ==
  ASSUME NEW r \in Runs
  PROVE  /\ RunType(r)
         /\ \A x \in {"fetch", "look", "missing", "post", "repost", "put"} :
              [r EXCEPT !.pc = x] \in Runs
         /\ \A f \in Fetched : /\ [r EXCEPT !.rows = f] \in Runs
                               /\ [r EXCEPT !.batch = f] \in Runs
         /\ \A g \in [Code -> PutState] : [r EXCEPT !.put = g] \in Runs
BY DEF Runs, RunType

\* The thread's first state is one of its states.
LEMMA IdleRunIsRun == IdleRun \in Runs
BY FetchedNone DEF Runs, IdleRun, PutState

\* A put moves on, the rest of the thread stays.
PutMoves(c, x) ==
  /\ run' \in Runs
  /\ run'.pc = run.pc /\ run'.rows = run.rows /\ run'.batch = run.batch
  /\ run'.put[c] = x
  /\ \A d \in Code \ {c} : run'.put[d] = run.put[d]

\* To set the state of one put changes no other.
LEMMA PutEffect ==
  ASSUME PicTypeOK, NEW c \in Code, NEW x \in PutState,
         run' = [run EXCEPT !.put[c] = x]
  PROVE  PutMoves(c, x)
BY DEF PicTypeOK, PutMoves, Runs

\* The thread only goes to another place.
PlaceMoves(x) ==
  /\ run' \in Runs
  /\ run'.pc = x /\ run'.rows = run.rows /\ run'.batch = run.batch
  /\ run'.put = run.put

\* To move the thread on changes nothing else of its state.
LEMMA PlaceEffect ==
  ASSUME PicTypeOK, NEW x \in {"fetch", "look", "missing", "post", "repost", "put"},
         run' = [run EXCEPT !.pc = x]
  PROVE  PlaceMoves(x)
BY DEF PicTypeOK, PlaceMoves, Runs

\* The rows of a fetch: each names the picture of its row in the table.
FetchTakes(cs) ==
  /\ run' \in Runs
  /\ DOMAIN run'.rows = cs
  /\ \A c \in cs : run'.rows[c] = pic[c].path
  /\ run'.batch = NoBatch
  /\ \A c \in Code : run'.put[c] = "none"

\* The fetched rows name the pictures of the table.
LEMMA FetchEffect ==
  ASSUME PicTypeOK, NEW cs \in SUBSET Pending,
         run' = [IdleRun EXCEPT !.pc = "look",
                                !.rows = [c \in cs |-> pic[c].path]]
  PROVE  FetchTakes(cs)
<1> DEFINE f == [c \in cs |-> pic[c].path]
<1>1. cs \in SUBSET Code
  BY DEF Pending
<1>2. \A c \in cs : pic[c].path \in Picture
  <2> TAKE c \in cs
  <2>1. pic[c] \in Row
    BY <1>1 DEF Pending, PicTypeOK
  <2> QED BY <2>1 DEF Row
<1>3. f \in [cs -> Picture]
  BY <1>2
<1>4. f \in Fetched
  BY <1>1, <1>3 DEF Fetched
<1>5. DOMAIN f = cs /\ \A c \in cs : f[c] = pic[c].path
  OBVIOUS
<1>6. run' = [IdleRun EXCEPT !.pc = "look", !.rows = f]
  OBVIOUS
<1> HIDE DEF f
<1>7. IdleRun \in Runs /\ IdleRun.batch = NoBatch
      /\ \A c \in Code : IdleRun.put[c] = "none"
  BY IdleRunIsRun, IdleRunType
<1>8. run' \in Runs /\ run'.rows = f /\ run'.batch = IdleRun.batch
      /\ run'.put = IdleRun.put
  BY <1>4, <1>6, <1>7 DEF Runs
<1> QED BY <1>5, <1>7, <1>8 DEF FetchTakes

\* What a look at a row of the fetch can come to: the row waits to be marked,
\* its code is exhausted, or it joins the batch.
LookFindsMissing(c) ==
  /\ ~OnDisk(run.rows[c])
  /\ run' \in Runs
  /\ run'.pc = "missing" /\ run'.rows = run.rows /\ run'.batch = run.batch
  /\ run'.put[c] = "missing"
  /\ \A d \in Code \ {c} : run'.put[d] = run.put[d]

RowLeaves(c) ==
  /\ run' \in Runs
  /\ DOMAIN run'.rows = DOMAIN run.rows \ {c}
  /\ \A d \in DOMAIN run.rows \ {c} : run'.rows[d] = run.rows[d]

LookLeavesAlone(c) ==
  /\ OnDisk(run.rows[c])
  /\ RowLeaves(c)
  /\ run'.pc = run.pc /\ run'.batch = run.batch /\ run'.put = run.put

LookJoins(c) ==
  /\ OnDisk(run.rows[c])
  /\ RowLeaves(c)
  /\ run'.pc = run.pc /\ run'.put = run.put
  /\ DOMAIN run'.batch = DOMAIN run.batch \cup {c}
  /\ run'.batch[c] = run.rows[c]
  /\ \A d \in DOMAIN run.batch \ {c} : run'.batch[d] = run.batch[d]

\* A row that is looked at is missing, left alone, or joins the batch.
LEMMA LookEffect ==
  ASSUME PicTypeOK, NEW c \in Code, LookAtRow(c)
  PROVE  LookFindsMissing(c) \/ LookLeavesAlone(c) \/ LookJoins(c)
<1> DEFINE p == run.rows[c]
           rest == Without(run.rows, c)
           more == With(run.batch, c, p)
           next == [run EXCEPT !.rows = rest]
<1>1. run \in Runs /\ run.rows \in Fetched /\ run.batch \in Fetched
  BY DEF PicTypeOK, Runs
<1>2. c \in DOMAIN run.rows /\ p \in Picture
  BY <1>1, FetchedOf DEF LookAtRow
<1>3. /\ rest \in Fetched
      /\ DOMAIN rest = DOMAIN run.rows \ {c}
      /\ \A d \in DOMAIN run.rows \ {c} : rest[d] = run.rows[d]
  BY <1>1, FetchedWithout
<1>4. /\ more \in Fetched
      /\ DOMAIN more = DOMAIN run.batch \cup {c}
      /\ more[c] = p
      /\ \A d \in DOMAIN run.batch \ {c} : more[d] = run.batch[d]
  BY <1>1, <1>2, FetchedWith
<1>5. run' = IF ~OnDisk(p) THEN [run EXCEPT !.pc = "missing", !.put[c] = "missing"]
             ELSE IF Exhausted(c) THEN next ELSE [next EXCEPT !.batch = more]
  BY DEF LookAtRow, With
<1> HIDE DEF p, rest, more
<1>6. CASE ~OnDisk(p)
  <2>1. run' = [run EXCEPT !.pc = "missing", !.put[c] = "missing"]
    BY <1>5, <1>6
  <2>2. /\ run' \in Runs
        /\ run'.pc = "missing" /\ run'.rows = run.rows /\ run'.batch = run.batch
        /\ run'.put[c] = "missing"
        /\ \A d \in Code \ {c} : run'.put[d] = run.put[d]
    BY <1>1, <2>1 DEF Runs, PutState
  <2> QED BY <1>6, <2>2 DEF LookFindsMissing, p
<1>7. next \in Runs /\ next.rows = rest /\ next.pc = run.pc
      /\ next.batch = run.batch /\ next.put = run.put
  BY <1>1, <1>3 DEF Runs
<1> HIDE DEF next
<1>8. CASE OnDisk(p) /\ Exhausted(c)
  <2>1. run' = next
    BY <1>5, <1>8
  <2> QED BY <1>3, <1>7, <1>8, <2>1 DEF LookLeavesAlone, RowLeaves, p
<1>9. CASE OnDisk(p) /\ ~Exhausted(c)
  <2>1. run' = [next EXCEPT !.batch = more]
    BY <1>5, <1>9
  <2>2. run' \in Runs /\ run'.rows = rest /\ run'.pc = run.pc
        /\ run'.batch = more /\ run'.put = run.put
    BY <1>4, <1>7, <2>1 DEF Runs
  <2> QED BY <1>3, <1>4, <1>9, <2>2 DEF LookJoins, RowLeaves, p
<1> QED BY <1>6, <1>8, <1>9

\* The marked row of a missing picture leaves the rows.
MissingLeaves(c) ==
  /\ RowLeaves(c)
  /\ run'.pc = "look" /\ run'.batch = run.batch
  /\ run'.put[c] = "none"
  /\ \A d \in Code \ {c} : run'.put[d] = run.put[d]

\* The thread goes on behind a missing picture.
LEMMA MissingEffect ==
  ASSUME PicTypeOK, NEW c \in Code, MarkMissing(c)
  PROVE  MissingLeaves(c)
<1> DEFINE rest == Without(run.rows, c)
<1>1. run \in Runs /\ run.rows \in Fetched
  BY DEF PicTypeOK, Runs
<1>2. /\ rest \in Fetched
      /\ DOMAIN rest = DOMAIN run.rows \ {c}
      /\ \A d \in DOMAIN run.rows \ {c} : rest[d] = run.rows[d]
  BY <1>1, FetchedWithout
<1>3. run' = [run EXCEPT !.pc = "look", !.rows = rest, !.put[c] = "none"]
  BY DEF MarkMissing
<1> HIDE DEF rest
<1>4. run' \in Runs /\ run'.pc = "look" /\ run'.rows = rest
      /\ run'.batch = run.batch /\ run'.put[c] = "none"
      /\ \A d \in Code \ {c} : run'.put[d] = run.put[d]
  BY <1>1, <1>2, <1>3 DEF Runs, PutState
<1> QED BY <1>2, <1>4 DEF MissingLeaves, RowLeaves

\* The addresses that the service named start the puts.
PutsStart(cs) ==
  /\ run' \in Runs
  /\ run'.pc = "put" /\ run'.rows = run.rows /\ run'.batch = run.batch
  /\ \A c \in Code : run'.put[c] = IF c \in cs THEN "put" ELSE "none"

\* The puts start for the codes that got an address.
LEMMA PostEffect ==
  ASSUME PicTypeOK, NEW cs, PostAnswered(cs)
  PROVE  PutsStart(cs)
<1> DEFINE puts == [c \in Code |-> IF c \in cs THEN "put" ELSE "none"]
<1>1. puts \in [Code -> PutState]
  BY DEF PutState
<1>2. run' = [run EXCEPT !.pc = "put", !.put = puts]
  BY DEF PostAnswered
<1>3. run \in Runs
  BY DEF PicTypeOK, Runs
<1>4. \A c \in Code : puts[c] = IF c \in cs THEN "put" ELSE "none"
  OBVIOUS
<1> HIDE DEF puts
<1>5. run' \in Runs /\ run'.pc = "put" /\ run'.rows = run.rows
      /\ run'.batch = run.batch /\ run'.put = puts
  BY <1>1, <1>2, <1>3 DEF Runs
<1> QED BY <1>4, <1>5 DEF PutsStart
-----------------------------------------------------------------------------
(* The types.                                                              *)

\* Only FetchPending and the steps below it change the thread, and each leaves
\* it in a state it can be in.
LEMMA RunStep == PicTypeOK /\ Filed /\ Grounded /\ [PicNext]_picVars => run' \in Runs
<1> SUFFICES ASSUME PicTypeOK, Filed, Grounded, [PicNext]_picVars PROVE run' \in Runs
  OBVIOUS
<1>1. run \in Runs
  BY DEF PicTypeOK, Runs
<1>2. IdleRun \in Runs
  BY IdleRunIsRun
<1>3. ASSUME NEW c \in Code, NEW x \in PutState, run' = [run EXCEPT !.put[c] = x]
      PROVE  run' \in Runs
  BY <1>3, PutEffect DEF PutMoves
<1>4. {"none", "missing", "put", "markMissing", "mark", "stored", "failed"} \subseteq PutState
  BY DEF PutState
<1>5. CASE FetchPending
  BY <1>5, FetchEffect DEF FetchPending, FetchTakes
<1>6. CASE StartPost
  BY <1>1, <1>2, <1>6, PlaceEffect DEF StartPost, PlaceMoves
<1>7. CASE RoundDone \/ NoTokenThisRound \/ PostFails
  BY <1>2, <1>7 DEF RoundDone, NoTokenThisRound, PostFails
<1>8. CASE TokenRefused
  BY <1>8, PlaceEffect DEF TokenRefused, PlaceMoves
<1>9. ASSUME NEW cs \in SUBSET Code, PostAnswered(cs) PROVE run' \in Runs
  BY <1>9, PostEffect DEF PutsStart
<1>10. ASSUME NEW c \in Code, LookAtRow(c) PROVE run' \in Runs
  BY <1>10, LookEffect DEF LookFindsMissing, LookLeavesAlone, LookJoins, RowLeaves
<1>11. ASSUME NEW c \in Code, MarkMissing(c) PROVE run' \in Runs
  BY <1>11, MissingEffect DEF MissingLeaves, RowLeaves
<1>12. ASSUME NEW c \in Code,
              PutMissing(c) \/ PutMarkMissing(c) \/ PutRefused(c) \/ PutStored(c)
              \/ MarkUploaded(c) \/ PutDone(c)
       PROVE  run' \in Runs
  <2>1. CASE PutMissing(c)
    BY <1>3, <1>4, <2>1 DEF PutMissing
  <2>2. CASE PutMarkMissing(c)
    BY <1>3, <1>4, <2>2 DEF PutMarkMissing
  <2>3. CASE PutRefused(c)
    BY <1>3, <1>4, <2>3 DEF PutRefused
  <2>4. CASE PutStored(c)
    BY <1>3, <1>4, <2>4 DEF PutStored
  <2>5. CASE MarkUploaded(c)
    BY <1>3, <1>4, <2>5 DEF MarkUploaded
  <2>6. CASE PutDone(c)
    BY <1>3, <1>4, <2>6 DEF PutDone
  <2> QED BY <1>12, <2>1, <2>2, <2>3, <2>4, <2>5, <2>6
<1>13. ASSUME NEW p \in Picture, FileReceived(p) \/ RemoveFile(p) PROVE run' \in Runs
  BY <1>1, <1>13 DEF FileReceived, RemoveFile
<1>14. CASE InsertOrUpdatePic
  BY <1>1, <1>14 DEF InsertOrUpdatePic
<1>15. CASE PicRestart
  BY <1>2, <1>15 DEF PicRestart
<1>16. CASE UNCHANGED picVars
  BY <1>1, <1>16 DEF picVars
<1> QED
  BY <1>5, <1>6, <1>7, <1>8, <1>9, <1>10, <1>11, <1>12, <1>13, <1>14, <1>15, <1>16
  DEF PicNext, PicStep, UploadStep

\* The table changes only by a row that is entered or marked.
TableMoves ==
  \/ UNCHANGED pic
  \/ \E p \in Picture : /\ filing = p /\ p \in received'
                        /\ pic' = [pic EXCEPT ![CodeOf[p]] = EnteredRow(p)]
  \/ \E c \in Code : /\ MarkMissing(c) \/ PutMarkMissing(c)
                     /\ pic[c] # NoRow
                     /\ MarksRow(c, 2)
  \/ \E c \in Code : /\ MarkUploaded(c)
                     /\ pic[c] # NoRow
                     /\ MarksRow(c, 1)

\* How a step changes the table.
LEMMA TableStep == PicTypeOK /\ Filed /\ Grounded /\ [PicNext]_picVars => TableMoves
<1> SUFFICES ASSUME PicTypeOK, Filed, Grounded, [PicNext]_picVars PROVE TableMoves
  OBVIOUS
<1>1. CASE InsertOrUpdatePic
  BY <1>1 DEF InsertOrUpdatePic, TableMoves, PicTypeOK
<1>2. ASSUME NEW c \in Code, MarkMissing(c) PROVE TableMoves
  <2>1. pic[c] # NoRow
    BY <1>2 DEF MarkMissing, Grounded, Filed
  <2>2. CASE pic' = [pic EXCEPT ![c].is_upload = MissingMark]
    <3>1. 2 \in 0 .. 2 /\ pic' = [pic EXCEPT ![c].is_upload = 2]
      BY <2>2 DEF MissingMark
    <3>2. MarksRow(c, 2)
      BY <2>1, <3>1, MarkEffect
    <3> QED BY <1>2, <2>1, <3>2 DEF TableMoves
  <2> QED BY <1>2, <2>2 DEF MarkMissing, TableMoves
<1>3. ASSUME NEW c \in Code, PutMarkMissing(c) PROVE TableMoves
  <2>1. pic[c] # NoRow
    BY <1>3 DEF PutMarkMissing, Grounded, Filed
  <2>2. CASE pic' = [pic EXCEPT ![c].is_upload = MissingMark]
    <3>1. 2 \in 0 .. 2 /\ pic' = [pic EXCEPT ![c].is_upload = 2]
      BY <2>2 DEF MissingMark
    <3>2. MarksRow(c, 2)
      BY <2>1, <3>1, MarkEffect
    <3> QED BY <1>3, <2>1, <3>2 DEF TableMoves
  <2> QED BY <1>3, <2>2 DEF PutMarkMissing, TableMoves
<1>4. ASSUME NEW c \in Code, MarkUploaded(c) PROVE TableMoves
  <2>1. pic[c] # NoRow
    BY <1>4 DEF MarkUploaded, Grounded, Filed
  <2>2. CASE pic' = [pic EXCEPT ![c].is_upload = 1]
    <3>1. 1 \in 0 .. 2 /\ pic' = [pic EXCEPT ![c].is_upload = 1]
      BY <2>2
    <3>2. MarksRow(c, 1)
      BY <2>1, <3>1, MarkEffect
    <3> QED BY <1>4, <2>1, <3>2 DEF TableMoves
  <2> QED BY <1>4, <2>2 DEF MarkUploaded, TableMoves
<1>5. CASE FetchPending \/ StartPost \/ RoundDone \/ NoTokenThisRound \/ PostFails
           \/ TokenRefused \/ PicRestart \/ UNCHANGED picVars
  BY <1>5 DEF FetchPending, StartPost, RoundDone, NoTokenThisRound, PostFails,
              TokenRefused, PicRestart, picVars, TableMoves
<1>6. ASSUME NEW cs \in SUBSET Code, PostAnswered(cs) PROVE TableMoves
  BY <1>6 DEF PostAnswered, TableMoves
<1>7. ASSUME NEW c \in Code,
             LookAtRow(c) \/ PutMissing(c) \/ PutRefused(c) \/ PutStored(c) \/ PutDone(c)
      PROVE  TableMoves
  BY <1>7 DEF LookAtRow, PutMissing, PutRefused, PutStored, PutDone, TableMoves
<1>8. ASSUME NEW p \in Picture, FileReceived(p) \/ RemoveFile(p) PROVE TableMoves
  BY <1>8 DEF FileReceived, RemoveFile, TableMoves
<1> QED
  BY <1>1, <1>2, <1>3, <1>4, <1>5, <1>6, <1>7, <1>8 DEF PicNext, PicStep, UploadStep

\* Rows stay, and each keeps its picture unless another one is entered.
LEMMA TableTypes ==
  ASSUME PicTypeOK, TableMoves
  PROVE  /\ pic' \in [Code -> Row \cup {NoRow}]
         /\ \A c \in Code : pic[c] # NoRow => pic'[c] # NoRow
         /\ \A c \in Code : pic'[c] # NoRow =>
              \/ pic[c] # NoRow /\ pic'[c].path = pic[c].path
              \/ filing \in received' /\ CodeOf[filing] = c /\ pic'[c].path = filing
                 /\ pic'[c].is_upload = 0
<1>1. CASE UNCHANGED pic
  BY <1>1 DEF PicTypeOK
<1>2. ASSUME NEW p \in Picture, filing = p, p \in received',
             pic' = [pic EXCEPT ![CodeOf[p]] = EnteredRow(p)]
      PROVE  /\ pic' \in [Code -> Row \cup {NoRow}]
             /\ \A c \in Code : pic[c] # NoRow => pic'[c] # NoRow
             /\ \A c \in Code : pic'[c] # NoRow =>
                  \/ pic[c] # NoRow /\ pic'[c].path = pic[c].path
                  \/ filing \in received' /\ CodeOf[filing] = c /\ pic'[c].path = filing
                     /\ pic'[c].is_upload = 0
  <2>1. EnteredRow(p) \in Row /\ EnteredRow(p).path = p /\ EnteredRow(p).is_upload = 0
    BY DEF EnteredRow, Row
  <2>2. EnteredRow(p) # NoRow
    BY <2>1, PicAssumption
  <2>3. CodeOf[p] \in Code
    BY PicAssumption
  <2> QED BY <1>2, <2>1, <2>2, <2>3 DEF PicTypeOK
<1>3. ASSUME NEW c \in Code, NEW m \in {1, 2}, pic[c] # NoRow, MarksRow(c, m)
      PROVE  /\ pic' \in [Code -> Row \cup {NoRow}]
             /\ \A d \in Code : pic[d] # NoRow => pic'[d] # NoRow
             /\ \A d \in Code : pic'[d] # NoRow =>
                  pic[d] # NoRow /\ pic'[d].path = pic[d].path
  BY <1>3 DEF MarksRow
<1> QED BY <1>1, <1>2, <1>3 DEF TableMoves

\* What is not the upload thread's: a received picture stays received and never
\* comes back to the disk, a stored one stays with the service.
DiskMoves ==
  /\ files' \subseteq Picture
  /\ received' \subseteq Picture
  /\ stored' \subseteq Picture
  /\ errorDir' \subseteq Picture
  /\ filing' \in Picture \cup {NoPicture}
  /\ filing' \notin received'
  /\ received \subseteq received'
  /\ stored \subseteq stored'
  /\ files' \cap received \subseteq files

\* How a step changes the files.
LEMMA DiskStep == PicTypeOK /\ Filed /\ Grounded /\ [PicNext]_picVars => DiskMoves
<1> SUFFICES ASSUME PicTypeOK, Filed, Grounded, [PicNext]_picVars PROVE DiskMoves
  OBVIOUS
<1>1. NoPicture \notin Picture
  BY PicAssumption
<1>2. CASE InsertOrUpdatePic
  BY <1>1, <1>2 DEF InsertOrUpdatePic, DiskMoves, PicTypeOK
<1>3. ASSUME NEW c \in Code, PutStored(c) PROVE DiskMoves
  <2>1. run.batch \in Fetched /\ c \in DOMAIN run.batch
    BY <1>3 DEF PutStored, Grounded, PicTypeOK
  <2>2. run.batch[c] \in Picture
    BY <2>1, FetchedOf
  <2> QED BY <1>3, <2>2 DEF PutStored, DiskMoves, PicTypeOK, Filed, handler
<1>4. CASE FetchPending \/ StartPost \/ RoundDone \/ NoTokenThisRound \/ PostFails
           \/ TokenRefused \/ UNCHANGED picVars
  BY <1>4 DEF FetchPending, StartPost, RoundDone, NoTokenThisRound, PostFails,
              TokenRefused, picVars, DiskMoves, PicTypeOK, Filed, handler
<1>5. CASE PicRestart
  BY <1>1, <1>5 DEF PicRestart, DiskMoves, PicTypeOK
<1>6. ASSUME NEW cs \in SUBSET Code, PostAnswered(cs) PROVE DiskMoves
  BY <1>6 DEF PostAnswered, DiskMoves, PicTypeOK, Filed, handler
<1>7. ASSUME NEW c \in Code,
             LookAtRow(c) \/ MarkMissing(c) \/ PutMissing(c) \/ PutMarkMissing(c)
             \/ PutRefused(c) \/ MarkUploaded(c) \/ PutDone(c)
      PROVE  DiskMoves
  BY <1>7 DEF LookAtRow, MarkMissing, PutMissing, PutMarkMissing, PutRefused,
              MarkUploaded, PutDone, DiskMoves, PicTypeOK, Filed, handler
<1>8. ASSUME NEW p \in Picture, FileReceived(p) PROVE DiskMoves
  BY <1>8 DEF FileReceived, DiskMoves, PicTypeOK, Filed, handler
<1>9. ASSUME NEW p \in Picture, RemoveFile(p) PROVE DiskMoves
  BY <1>9 DEF RemoveFile, DiskMoves, PicTypeOK, Filed, handler
<1> QED
  BY <1>2, <1>3, <1>4, <1>5, <1>6, <1>7, <1>8, <1>9 DEF PicNext, PicStep, UploadStep

\* The counters.
LEMMA CountStep ==
  PicTypeOK /\ [PicNext]_picVars =>
    /\ attempts' \in [Code -> Nat]
    /\ trouble' \in 0 .. MaxTrouble
    /\ removals' \in 0 .. MaxRemovals
    /\ restarts' \in 0 .. MaxRestarts
<1> DEFINE Counts == /\ attempts' \in [Code -> Nat]
                     /\ trouble' \in 0 .. MaxTrouble
                     /\ removals' \in 0 .. MaxRemovals
                     /\ restarts' \in 0 .. MaxRestarts
<1> SUFFICES ASSUME PicTypeOK, [PicNext]_picVars PROVE Counts
  OBVIOUS
<1>1. MaxTrouble \in Nat /\ MaxRemovals \in Nat /\ MaxRestarts \in Nat
  BY PicAssumption
<1>2. /\ attempts \in [Code -> Nat]
      /\ trouble \in 0 .. MaxTrouble
      /\ removals \in 0 .. MaxRemovals
      /\ restarts \in 0 .. MaxRestarts
  BY DEF PicTypeOK
<1>3. Trouble => trouble' \in 0 .. MaxTrouble
  BY <1>1, <1>2 DEF Trouble
<1>4. \A cs : CountAttempts(cs) => attempts' \in [Code -> Nat]
  BY <1>2 DEF CountAttempts
<1>5. CASE InsertOrUpdatePic
  BY <1>2, <1>3, <1>5 DEF InsertOrUpdatePic
<1>6. CASE FetchPending \/ StartPost \/ RoundDone \/ UNCHANGED picVars
  BY <1>2, <1>6 DEF FetchPending, StartPost, RoundDone, picVars, bounds
<1>7. CASE NoTokenThisRound \/ TokenRefused
  BY <1>2, <1>3, <1>7 DEF NoTokenThisRound, TokenRefused
<1>8. CASE PostFails
  BY <1>2, <1>3, <1>4, <1>8 DEF PostFails
<1>9. CASE PicRestart
  BY <1>1, <1>2, <1>9 DEF PicRestart
<1>10. ASSUME NEW cs \in SUBSET Code, PostAnswered(cs) PROVE Counts
  BY <1>2, <1>3, <1>10 DEF PostAnswered
<1>11. ASSUME NEW c \in Code,
              LookAtRow(c) \/ PutMissing(c) \/ PutStored(c)
       PROVE  Counts
  BY <1>2, <1>11 DEF LookAtRow, PutMissing, PutStored, bounds
<1>12. ASSUME NEW c \in Code,
              MarkMissing(c) \/ PutMarkMissing(c) \/ PutRefused(c) \/ MarkUploaded(c)
       PROVE  Counts
  BY <1>2, <1>3, <1>12 DEF MarkMissing, PutMarkMissing, PutRefused, MarkUploaded
<1>13. ASSUME NEW c \in Code, PutDone(c) PROVE Counts
  BY <1>2, <1>4, <1>13 DEF PutDone, bounds
<1>14. ASSUME NEW p \in Picture, FileReceived(p) PROVE Counts
  BY <1>2, <1>14 DEF FileReceived, bounds
<1>15. ASSUME NEW p \in Picture, RemoveFile(p) PROVE Counts
  BY <1>1, <1>2, <1>15 DEF RemoveFile
<1> HIDE DEF Counts
<1> QED
  BY <1>5, <1>6, <1>7, <1>8, <1>9, <1>10, <1>11, <1>12, <1>13, <1>14, <1>15
  DEF PicNext, PicStep, UploadStep

\* Every step keeps the types.
LEMMA TypeStep == PicTypeOK /\ Filed /\ Grounded /\ [PicNext]_picVars => PicTypeOK'
<1> SUFFICES ASSUME PicTypeOK, Filed, Grounded, [PicNext]_picVars PROVE PicTypeOK'
  OBVIOUS
<1>1. pic' \in [Code -> Row \cup {NoRow}]
  BY TableStep, TableTypes
<1>2. run' \in Runs
  BY RunStep
<1>3. DiskMoves
  BY DiskStep
<1> QED BY <1>1, <1>2, <1>3, CountStep DEF PicTypeOK, Runs, DiskMoves
-----------------------------------------------------------------------------
(* What was fetched belongs to its code.                                   *)

\* A row is fetched from the table, and only a fetched row joins the batch.
RowsMove ==
  /\ \A c \in DOMAIN run'.rows :
       \/ c \in DOMAIN run.rows /\ run'.rows[c] = run.rows[c]
       \/ c \in Code /\ pic[c] # NoRow /\ run'.rows[c] = pic[c].path
  /\ \A c \in DOMAIN run'.batch :
       \/ c \in DOMAIN run.batch /\ run'.batch[c] = run.batch[c]
       \/ c \in DOMAIN run.rows /\ run'.batch[c] = run.rows[c]

\* How a step changes the fetched rows and the batch.
LEMMA RowsStep == PicTypeOK /\ Filed /\ Grounded /\ [PicNext]_picVars => RowsMove
<1> SUFFICES ASSUME PicTypeOK, Filed, Grounded, [PicNext]_picVars PROVE RowsMove
  OBVIOUS
<1>1. /\ IdleRun.rows = NoBatch /\ IdleRun.batch = NoBatch
      /\ DOMAIN NoBatch = {}
  BY IdleRunType, FetchedNone
<1>2. (run'.rows = run.rows /\ run'.batch = run.batch) => RowsMove
  BY DEF RowsMove
<1>3. run' = IdleRun => RowsMove
  BY <1>1 DEF RowsMove
<1>4. ASSUME NEW c \in Code, NEW x \in PutState, run' = [run EXCEPT !.put[c] = x]
      PROVE  RowsMove
  BY <1>2, <1>4, PutEffect DEF PutMoves
<1>5. {"none", "missing", "put", "markMissing", "mark", "stored", "failed"} \subseteq PutState
  BY DEF PutState
<1>6. CASE FetchPending
  <2>1. PICK cs \in SUBSET Pending : FetchTakes(cs)
    BY <1>6, FetchEffect DEF FetchPending
  <2>2. \A c \in cs : c \in Code /\ pic[c] # NoRow
    BY DEF Pending
  <2> QED BY <1>1, <2>1, <2>2 DEF FetchTakes, RowsMove
<1>7. CASE StartPost
  <2>1. CASE run' = [run EXCEPT !.pc = "post"]
    BY <1>2, <2>1, PlaceEffect DEF PlaceMoves
  <2> QED BY <1>3, <1>7, <2>1 DEF StartPost
<1>8. CASE RoundDone \/ NoTokenThisRound \/ PostFails \/ PicRestart
  BY <1>3, <1>8 DEF RoundDone, NoTokenThisRound, PostFails, PicRestart
<1>9. CASE TokenRefused
  BY <1>2, <1>9, PlaceEffect DEF TokenRefused, PlaceMoves
<1>10. ASSUME NEW cs \in SUBSET Code, PostAnswered(cs) PROVE RowsMove
  BY <1>2, <1>10, PostEffect DEF PutsStart
<1>11. ASSUME NEW c \in Code, LookAtRow(c) PROVE RowsMove
  <2>1. c \in DOMAIN run.rows
    BY <1>11 DEF LookAtRow
  <2>2. CASE LookFindsMissing(c)
    BY <1>2, <2>2 DEF LookFindsMissing
  <2>3. CASE LookLeavesAlone(c)
    BY <2>3 DEF LookLeavesAlone, RowLeaves, RowsMove
  <2>4. CASE LookJoins(c)
    <3>1. \A d \in DOMAIN run'.rows : d \in DOMAIN run.rows /\ run'.rows[d] = run.rows[d]
      BY <2>4 DEF LookJoins, RowLeaves
    <3>2. \A d \in DOMAIN run'.batch :
            \/ d \in DOMAIN run.batch /\ run'.batch[d] = run.batch[d]
            \/ d \in DOMAIN run.rows /\ run'.batch[d] = run.rows[d]
      BY <2>1, <2>4 DEF LookJoins
    <3> QED BY <3>1, <3>2 DEF RowsMove
  <2> QED BY <1>11, <2>2, <2>3, <2>4, LookEffect
<1>12. ASSUME NEW c \in Code, MarkMissing(c) PROVE RowsMove
  BY <1>12, MissingEffect DEF MissingLeaves, RowLeaves, RowsMove
<1>13. ASSUME NEW c \in Code,
              PutMissing(c) \/ PutMarkMissing(c) \/ PutRefused(c) \/ PutStored(c)
              \/ MarkUploaded(c) \/ PutDone(c)
       PROVE  RowsMove
  <2>1. CASE PutMissing(c)
    BY <1>4, <1>5, <2>1 DEF PutMissing
  <2>2. CASE PutMarkMissing(c)
    BY <1>4, <1>5, <2>2 DEF PutMarkMissing
  <2>3. CASE PutRefused(c)
    BY <1>4, <1>5, <2>3 DEF PutRefused
  <2>4. CASE PutStored(c)
    BY <1>4, <1>5, <2>4 DEF PutStored
  <2>5. CASE MarkUploaded(c)
    BY <1>4, <1>5, <2>5 DEF MarkUploaded
  <2>6. CASE PutDone(c)
    BY <1>4, <1>5, <2>6 DEF PutDone
  <2> QED BY <1>13, <2>1, <2>2, <2>3, <2>4, <2>5, <2>6
<1>14. ASSUME NEW p \in Picture, FileReceived(p) \/ RemoveFile(p) PROVE RowsMove
  BY <1>2, <1>14 DEF FileReceived, RemoveFile
<1>15. CASE InsertOrUpdatePic \/ UNCHANGED picVars
  BY <1>2, <1>15 DEF InsertOrUpdatePic, picVars
<1> QED
  BY <1>6, <1>7, <1>8, <1>9, <1>10, <1>11, <1>12, <1>13, <1>14, <1>15
  DEF PicNext, PicStep, UploadStep

\* Every step keeps what belongs to a code.
LEMMA FiledStep == PicTypeOK /\ Filed /\ Grounded /\ [PicNext]_picVars => Filed'
<1> SUFFICES ASSUME PicTypeOK, Filed, Grounded, [PicNext]_picVars PROVE Filed'
  OBVIOUS
<1>1. DiskMoves /\ RowsMove /\ TableMoves
  BY DiskStep, RowsStep, TableStep
<1>2. received \subseteq received'
  BY <1>1 DEF DiskMoves
<1>3. \A c \in Code : pic'[c] # NoRow => CodeOf[pic'[c].path] = c /\ pic'[c].path \in received'
  <2> TAKE c \in Code
  <2> HAVE pic'[c] # NoRow
  <2>1. CASE pic[c] # NoRow /\ pic'[c].path = pic[c].path
    BY <1>2, <2>1 DEF Filed, Belongs
  <2>2. CASE filing \in received' /\ CodeOf[filing] = c /\ pic'[c].path = filing
    BY <2>2
  <2> QED BY <1>1, <2>1, <2>2, TableTypes
<1>4. \A c \in Code : pic[c] # NoRow => pic'[c] # NoRow
  BY <1>1, TableTypes
<1>5. run.rows \in Fetched /\ run.batch \in Fetched
  BY DEF PicTypeOK
<1>6. DOMAIN run.rows \subseteq Code /\ DOMAIN run.batch \subseteq Code
  BY <1>5, FetchedOf
<1>7. \A c \in DOMAIN run'.rows : pic'[c] # NoRow /\ CodeOf[run'.rows[c]] = c /\ run'.rows[c] \in received'
  BY <1>1, <1>2, <1>4, <1>6 DEF Filed, Belongs, RowsMove
<1>8. \A c \in DOMAIN run'.batch : pic'[c] # NoRow /\ CodeOf[run'.batch[c]] = c /\ run'.batch[c] \in received'
  BY <1>1, <1>2, <1>4, <1>6 DEF Filed, Belongs, RowsMove
<1> QED BY <1>1, <1>3, <1>7, <1>8 DEF Filed, Belongs, DiskMoves
-----------------------------------------------------------------------------
(* What is about to be marked is so.                                       *)

\* The promise of Grounded for one code.
GroundedFor(c) ==
  /\ run.put[c] = "missing" =>
       c \in DOMAIN run.rows /\ ~OnDisk(run.rows[c])
  /\ run.put[c] \notin {"none", "missing"} =>
       run.pc = "put" /\ c \in DOMAIN run.batch
  /\ run.put[c] = "markMissing" => ~OnDisk(run.batch[c])
  /\ run.put[c] \in {"mark", "stored"} => run.batch[c] \in stored

\* A code whose put, rows and batch stay keeps its promise, for a picture that
\* is off the disk stays off it.
LEMMA GroundedStays ==
  ASSUME PicTypeOK, Filed, DiskMoves, NEW c \in Code, GroundedFor(c),
         run'.put[c] = run.put[c],
         run.put[c] \notin {"none", "missing"} =>
           run'.pc = run.pc /\ run'.batch = run.batch,
         run.put[c] = "missing" =>
           c \in DOMAIN run'.rows /\ run'.rows[c] = run.rows[c]
  PROVE  GroundedFor(c)'
<1>1. \A p \in received : ~OnDisk(p) => p \notin files'
  BY DEF DiskMoves, OnDisk
<1>2. c \in DOMAIN run.rows => run.rows[c] \in received
  BY DEF Filed, Belongs
<1>3. c \in DOMAIN run.batch => run.batch[c] \in received
  BY DEF Filed, Belongs
<1>4. stored \subseteq stored'
  BY DEF DiskMoves
<1>5. run.put[c] = "missing" => run'.rows[c] \notin files'
  BY <1>1, <1>2 DEF GroundedFor, OnDisk
<1>6. run.put[c] = "markMissing" => run'.batch[c] \notin files'
  BY <1>1, <1>3 DEF GroundedFor, OnDisk
<1> QED BY <1>4, <1>5, <1>6 DEF GroundedFor, OnDisk
\* A code without a put has nothing to keep.
LEMMA GroundedNone ==
  ASSUME NEW c, run'.put[c] = "none"
  PROVE  GroundedFor(c)'
BY DEF GroundedFor

\* A step of the put of one code leaves the other codes their promises.
LEMMA GroundedOthers ==
  ASSUME PicTypeOK, Filed, Grounded, DiskMoves, NEW c \in Code, NEW x,
         PutMoves(c, x), NEW d \in Code \ {c}
  PROVE  GroundedFor(d)'
<1>1. GroundedFor(d)
  BY DEF Grounded, GroundedFor
<1>2. run'.put[d] = run.put[d] /\ run'.pc = run.pc
      /\ run'.batch = run.batch /\ run'.rows = run.rows
  BY DEF PutMoves
<1>3. run.put[d] = "missing" => d \in DOMAIN run'.rows
  BY <1>1, <1>2 DEF GroundedFor
<1> QED BY <1>1, <1>2, <1>3, GroundedStays

\* Every step keeps what is about to be marked true.
LEMMA GroundedStep == PicTypeOK /\ Filed /\ Grounded /\ [PicNext]_picVars => Grounded'
<1> SUFFICES ASSUME PicTypeOK, Filed, Grounded, [PicNext]_picVars, NEW d \in Code
             PROVE  GroundedFor(d)'
  BY DEF Grounded, GroundedFor
<1>1. DiskMoves
  BY DiskStep
<1>2. GroundedFor(d)
  BY DEF Grounded, GroundedFor
<1>3. run' = IdleRun => GroundedFor(d)'
  BY IdleRunType, GroundedNone
<1>4. UNCHANGED run => GroundedFor(d)'
  <2> SUFFICES ASSUME UNCHANGED run PROVE GroundedFor(d)'
    OBVIOUS
  <2>1. run.put[d] = "missing" => d \in DOMAIN run'.rows
    BY <1>2 DEF GroundedFor
  <2> QED BY <1>1, <1>2, <2>1, GroundedStays
<1>5. \A x : PlaceMoves(x) /\ run.pc # "put" => GroundedFor(d)'
  <2> SUFFICES ASSUME NEW x, PlaceMoves(x), run.pc # "put" PROVE GroundedFor(d)'
    OBVIOUS
  <2>1. run.put[d] \in {"none", "missing"}
    BY <1>2 DEF GroundedFor
  <2>2. run'.put[d] = run.put[d] /\ run'.rows = run.rows
    BY DEF PlaceMoves
  <2>3. run.put[d] = "missing" => d \in DOMAIN run'.rows
    BY <1>2, <2>2 DEF GroundedFor
  <2> QED BY <1>1, <1>2, <2>1, <2>2, <2>3, GroundedStays
<1>6. \A c \in Code, x \in PutState :
        PutMoves(c, x) /\ c # d => GroundedFor(d)'
  BY <1>1, GroundedOthers
<1>7. CASE FetchPending
  <2>1. PICK cs \in SUBSET Pending : FetchTakes(cs)
    BY <1>7, FetchEffect DEF FetchPending
  <2> QED BY <2>1, GroundedNone DEF FetchTakes
<1>8. CASE StartPost
  <2>1. CASE run' = [run EXCEPT !.pc = "post"]
    BY <1>5, <1>8, <2>1, PlaceEffect DEF StartPost
  <2> QED BY <1>3, <1>8, <2>1 DEF StartPost
<1>9. CASE RoundDone \/ NoTokenThisRound \/ PostFails \/ PicRestart
  BY <1>3, <1>9 DEF RoundDone, NoTokenThisRound, PostFails, PicRestart
<1>10. CASE TokenRefused
  BY <1>5, <1>10, PlaceEffect DEF TokenRefused
<1>11. ASSUME NEW cs \in SUBSET Code, PostAnswered(cs) PROVE GroundedFor(d)'
  <2>1. PutsStart(cs) /\ cs \subseteq DOMAIN run.batch
    BY <1>11, PostEffect DEF PostAnswered
  <2> QED BY <2>1 DEF PutsStart, GroundedFor
<1>12. ASSUME NEW c \in Code, LookAtRow(c) PROVE GroundedFor(d)'
  <2>1. c \in DOMAIN run.rows /\ run.pc = "look" /\ UNCHANGED files
    BY <1>12 DEF LookAtRow
  <2>2. run.put[d] \in {"none", "missing"}
    BY <1>2, <2>1 DEF GroundedFor
  <2>3. CASE LookFindsMissing(c)
    <3>1. CASE d = c
      BY <2>1, <2>3, <3>1 DEF LookFindsMissing, GroundedFor, OnDisk
    <3>2. CASE d # c
      <4>1. run'.put[d] = run.put[d] /\ run'.rows = run.rows
        BY <2>3, <3>2 DEF LookFindsMissing
      <4>2. run.put[d] = "missing" => d \in DOMAIN run'.rows
        BY <1>2, <4>1 DEF GroundedFor
      <4> QED BY <1>1, <1>2, <2>2, <4>1, <4>2, GroundedStays
    <3> QED BY <3>1, <3>2
  <2>4. CASE OnDisk(run.rows[c]) /\ RowLeaves(c) /\ run'.put = run.put
    <3>1. run.put[d] = "missing" => d # c
      BY <1>2, <2>4 DEF GroundedFor
    <3>2. run.put[d] = "missing" => d \in DOMAIN run'.rows /\ run'.rows[d] = run.rows[d]
      BY <1>2, <2>4, <3>1 DEF GroundedFor, RowLeaves
    <3>3. run'.put[d] = run.put[d]
      BY <2>4
    <3> QED BY <1>1, <1>2, <2>2, <3>2, <3>3, GroundedStays
  <2> QED BY <1>12, <2>3, <2>4, LookEffect DEF LookLeavesAlone, LookJoins
<1>13. ASSUME NEW c \in Code, MarkMissing(c) PROVE GroundedFor(d)'
  <2>1. MissingLeaves(c)
    BY <1>13, MissingEffect
  <2>2. CASE d = c
    BY <2>1, <2>2, GroundedNone DEF MissingLeaves
  <2>3. CASE d # c
    <3>1. run'.put[d] = run.put[d]
      BY <2>1, <2>3 DEF MissingLeaves
    <3>2. run.put[d] \in {"none", "missing"}
      BY <1>2, <1>13 DEF MarkMissing, GroundedFor
    <3>3. run.put[d] = "missing" => d \in DOMAIN run'.rows /\ run'.rows[d] = run.rows[d]
      BY <1>2, <2>1, <2>3 DEF GroundedFor, MissingLeaves, RowLeaves
    <3> QED BY <1>1, <1>2, <3>1, <3>2, <3>3, GroundedStays
  <2> QED BY <2>2, <2>3
<1>14. ASSUME NEW c \in Code, PutMissing(c) PROVE GroundedFor(d)'
  <2>1. PutMoves(c, "markMissing")
    BY <1>14, PutEffect DEF PutMissing, PutState
  <2>2. GroundedFor(c) /\ UNCHANGED files /\ ~OnDisk(run.batch[c])
        /\ run.pc = "put" /\ run.put[c] = "put"
    BY <1>14 DEF PutMissing, Grounded, GroundedFor
  <2>3. d = c => GroundedFor(d)'
    BY <2>1, <2>2 DEF PutMoves, GroundedFor, OnDisk
  <2> QED BY <1>6, <2>1, <2>3 DEF PutState
<1>15. ASSUME NEW c \in Code, PutMarkMissing(c) \/ PutRefused(c)
       PROVE  GroundedFor(d)'
  <2>1. PutMoves(c, "failed")
    BY <1>15, PutEffect DEF PutMarkMissing, PutRefused, PutState
  <2>2. GroundedFor(c) /\ run.pc = "put" /\ run.put[c] \in {"put", "markMissing"}
    BY <1>15 DEF PutMarkMissing, PutRefused, Grounded, GroundedFor
  <2>3. d = c => GroundedFor(d)'
    BY <2>1, <2>2 DEF PutMoves, GroundedFor
  <2> QED BY <1>6, <2>1, <2>3 DEF PutState
<1>16. ASSUME NEW c \in Code, PutStored(c) PROVE GroundedFor(d)'
  <2>1. PutMoves(c, "mark")
    BY <1>16, PutEffect DEF PutStored, PutState
  <2>2. GroundedFor(c) /\ run.pc = "put" /\ run.put[c] = "put"
        /\ run.batch[c] \in stored'
    BY <1>16 DEF PutStored, Grounded, GroundedFor
  <2>3. d = c => GroundedFor(d)'
    BY <2>1, <2>2 DEF PutMoves, GroundedFor
  <2> QED BY <1>6, <2>1, <2>3 DEF PutState
<1>17. ASSUME NEW c \in Code, MarkUploaded(c) PROVE GroundedFor(d)'
  <2>1. PutMoves(c, "stored")
    BY <1>17, PutEffect DEF MarkUploaded, PutState
  <2>2. GroundedFor(c) /\ run.pc = "put" /\ run.put[c] = "mark" /\ UNCHANGED stored
    BY <1>17 DEF MarkUploaded, Grounded, GroundedFor
  <2>3. d = c => GroundedFor(d)'
    BY <2>1, <2>2 DEF PutMoves, GroundedFor
  <2> QED BY <1>6, <2>1, <2>3 DEF PutState
<1>18. ASSUME NEW c \in Code, PutDone(c) PROVE GroundedFor(d)'
  <2>1. PutMoves(c, "none")
    BY <1>18, PutEffect DEF PutDone, PutState
  <2>2. d = c => GroundedFor(d)'
    BY <2>1, GroundedNone DEF PutMoves
  <2> QED BY <1>6, <2>1, <2>2 DEF PutState
<1>19. ASSUME NEW p \in Picture, FileReceived(p) \/ RemoveFile(p) PROVE GroundedFor(d)'
  BY <1>4, <1>19 DEF FileReceived, RemoveFile
<1>20. CASE InsertOrUpdatePic \/ UNCHANGED picVars
  BY <1>4, <1>20 DEF InsertOrUpdatePic, picVars
<1> QED
  BY <1>7, <1>8, <1>9, <1>10, <1>11, <1>12, <1>13, <1>14, <1>15, <1>16, <1>17,
     <1>18, <1>19, <1>20
  DEF PicNext, PicStep, UploadStep

\* The inductive invariant of the service and its upload thread.
THEOREM PicInvariant == PicSpec => []PicInv
<1>1. PicInit => PicInv
  <2> SUFFICES ASSUME PicInit PROVE PicInv
    OBVIOUS
  <2>1. run \in Runs /\ run.rows = NoBatch /\ run.batch = NoBatch
        /\ \A c \in Code : run.put[c] = "none"
    BY IdleRunIsRun, IdleRunType DEF PicInit
  <2>2. PicTypeOK
    BY <2>1, PicAssumption DEF PicInit, PicTypeOK, Runs
  <2>3. Filed
    BY <2>1, FetchedNone DEF PicInit, Filed
  <2>4. Grounded
    BY <2>1 DEF Grounded
  <2> QED BY <2>2, <2>3, <2>4 DEF PicInv
<1>2. PicInv /\ [PicNext]_picVars => PicInv'
  BY TypeStep, FiledStep, GroundedStep DEF PicInv
<1> QED BY <1>1, <1>2, PTL DEF PicSpec

\* Every variable of the service has its type.
THEOREM PicTypeCorrect == PicSpec => []PicTypeOK
<1>1. PicInv => PicTypeOK
  BY DEF PicInv
<1> QED BY <1>1, PicInvariant, PTL
-----------------------------------------------------------------------------
(* The marks.                                                              *)

\* A step keeps the marks earned: a picture that is marked was put.
LEMMA MarkedStep == PicInv /\ MarkedWasStored /\ [PicNext]_picVars => MarkedWasStored'
<1> SUFFICES ASSUME PicInv, MarkedWasStored, [PicNext]_picVars, NEW c \in Code,
                    pic'[c] # NoRow, pic'[c].is_upload = 1
             PROVE  \E p \in stored' : CodeOf[p] = c
  BY DEF MarkedWasStored
<1>1. PicTypeOK /\ Filed /\ Grounded
  BY DEF PicInv
<1>2. TableMoves /\ stored \subseteq stored'
  BY <1>1, TableStep, DiskStep DEF DiskMoves
<1>3. CASE pic'[c] = pic[c]
  BY <1>2, <1>3 DEF MarkedWasStored
<1>4. ASSUME NEW p \in Picture, pic' = [pic EXCEPT ![CodeOf[p]] = EnteredRow(p)]
      PROVE  pic'[c] = pic[c]
  BY <1>1, <1>4 DEF PicTypeOK, EnteredRow
<1>5. ASSUME NEW e \in Code, pic[e] # NoRow, MarksRow(e, 2)
      PROVE  pic'[c] = pic[c]
  BY <1>5 DEF MarksRow
<1>6. ASSUME NEW e \in Code, MarkUploaded(e), MarksRow(e, 1)
      PROVE  \E p \in stored' : CodeOf[p] = c
  <2>1. CASE c = e
    <3>1. c \in DOMAIN run.batch /\ run.batch[c] \in stored
      BY <1>1, <1>6, <2>1 DEF MarkUploaded, Grounded
    <3>2. CodeOf[run.batch[c]] = c
      BY <1>1, <3>1 DEF Filed, Belongs
    <3> QED BY <1>2, <3>1, <3>2
  <2>2. CASE c # e
    BY <1>3, <1>6, <2>2 DEF MarksRow
  <2> QED BY <2>1, <2>2
<1> QED BY <1>2, <1>3, <1>4, <1>5, <1>6 DEF TableMoves

\* A row is marked as uploaded only if the service has a picture of its code,
\* whatever fails, is deleted or restarts in between.
THEOREM MarkIsEarned == PicSpec => []MarkedWasStored
<1>1. PicInit => MarkedWasStored
  BY DEF PicInit, MarkedWasStored
<1>2. PicInv /\ MarkedWasStored /\ [PicNext]_picVars => MarkedWasStored'
  BY MarkedStep
<1> QED BY <1>1, <1>2, PicInvariant, PTL DEF PicSpec

\* A step keeps the marks true of a code that has one picture.
LEMMA TrueStep == PicInv /\ MarkIsTrue /\ [PicNext]_picVars => MarkIsTrue'
<1> DEFINE Holds(c) == /\ pic'[c].is_upload = 1 => pic'[c].path \in stored'
                       /\ pic'[c].is_upload = 2 => pic'[c].path \notin files'
<1> SUFFICES ASSUME PicInv, MarkIsTrue, [PicNext]_picVars, NEW c \in Code,
                    HasOnePicture(c), pic'[c] # NoRow
             PROVE  Holds(c)
  BY DEF MarkIsTrue, OnDisk, HasOnePicture
<1>1. PicTypeOK /\ Filed /\ Grounded
  BY DEF PicInv
<1>2. TableMoves /\ stored \subseteq stored' /\ files' \cap received \subseteq files
  BY <1>1, TableStep, DiskStep DEF DiskMoves
<1>3. CASE pic'[c] = pic[c]
  <2>1. pic[c].path \in received
    BY <1>1, <1>3 DEF Filed, Belongs
  <2> QED BY <1>2, <1>3, <2>1 DEF MarkIsTrue, OnDisk
<1>4. ASSUME NEW p \in Picture, pic' = [pic EXCEPT ![CodeOf[p]] = EnteredRow(p)]
      PROVE  pic'[c] = pic[c] \/ pic'[c].is_upload = 0
  BY <1>1, <1>4 DEF PicTypeOK, EnteredRow
<1>5. \A p : Belongs(p, c) /\ p \in Picture /\ pic[c] # NoRow => p = pic[c].path
  BY <1>1 DEF Filed, Belongs, HasOnePicture, PicTypeOK
<1>6. run.rows \in Fetched /\ run.batch \in Fetched
  BY <1>1 DEF PicTypeOK
<1>7. c \in DOMAIN run.rows /\ pic[c] # NoRow => run.rows[c] = pic[c].path
  BY <1>1, <1>5, <1>6, FetchedOf DEF Filed
<1>8. c \in DOMAIN run.batch /\ pic[c] # NoRow => run.batch[c] = pic[c].path
  BY <1>1, <1>5, <1>6, FetchedOf DEF Filed
<1>9. ASSUME NEW e \in Code, MarkMissing(e) \/ PutMarkMissing(e),
             pic[e] # NoRow, MarksRow(e, 2)
      PROVE  Holds(c)
  <2>1. CASE c = e
    <3>1. UNCHANGED files
      BY <1>9 DEF MarkMissing, PutMarkMissing
    <3>2. pic[c].path \notin files
      BY <1>1, <1>7, <1>8, <1>9, <2>1 DEF MarkMissing, PutMarkMissing, Grounded, OnDisk
    <3> QED BY <1>9, <2>1, <3>1, <3>2 DEF MarksRow
  <2>2. CASE c # e
    BY <1>3, <1>9, <2>2 DEF MarksRow
  <2> QED BY <2>1, <2>2
<1>10. ASSUME NEW e \in Code, MarkUploaded(e), pic[e] # NoRow, MarksRow(e, 1)
       PROVE  Holds(c)
  <2>1. CASE c = e
    <3>1. c \in DOMAIN run.batch /\ run.batch[c] \in stored
      BY <1>1, <1>10, <2>1 DEF MarkUploaded, Grounded
    <3>2. pic[c].path \in stored'
      BY <1>2, <1>8, <1>10, <2>1, <3>1
    <3> QED BY <1>10, <2>1, <3>2 DEF MarksRow
  <2>2. CASE c # e
    BY <1>3, <1>10, <2>2 DEF MarksRow
  <2> QED BY <2>1, <2>2
<1> QED BY <1>2, <1>3, <1>4, <1>9, <1>10 DEF TableMoves

\* Where a code has a single picture, a mark is true of it: the statements of the
\* two threads can meet in any order, and a deleted picture does not come back.
THEOREM MarksAreTrue == PicSpec => []MarkIsTrue
<1>1. PicInit => MarkIsTrue
  BY DEF PicInit, MarkIsTrue
<1>2. PicInv /\ MarkIsTrue /\ [PicNext]_picVars => MarkIsTrue'
  BY TrueStep
<1> QED BY <1>1, <1>2, PicInvariant, PTL DEF PicSpec
-----------------------------------------------------------------------------
(* SlotFile.                                                               *)

\* No file has been dropped and nothing was read.
LEMMA WatchInitInv == WatchInit => SlotFileInv
<1> SUFFICES ASSUME WatchInit
             PROVE  SlotFileInv
  OBVIOUS
<1>1. WatchTypeOK
  <2>1. 0 \in 0 .. MaxWatchTrouble /\ 0 \in 0 .. MaxWatchRestarts
    BY SlotFileAssumption
  <2>2. pairs \in {{}} \cup {Rows[f] : f \in File}
    BY DEF WatchInit
  <2> QED
    BY <2>1, <2>2 DEF WatchInit, WatchTypeOK
<1>2. OneFileAtATime /\ EmptyIsBeingFilled
  BY DEF WatchInit, OneFileAtATime, EmptyIsBeingFilled
<1>3. UpdateHasFile /\ FillFindsEmpty /\ UpdateFilled
  BY DEF WatchInit, UpdateHasFile, FillFindsEmpty, UpdateFilled
<1> QED
  BY <1>1, <1>2, <1>3 DEF SlotFileInv

\* Every step preserves the invariant: one step per action, one below it per
\* conjunct that the action can disturb.
LEMMA WatchNextInv == SlotFileInv /\ [WatchNext]_watchVars => SlotFileInv'
<1> SUFFICES ASSUME SlotFileInv, [WatchNext]_watchVars
             PROVE  SlotFileInv'
  OBVIOUS
<1> USE SlotFileAssumption
<1> USE DEF SlotFileInv, WatchTypeOK
<1>1. ASSUME NEW f \in File, DropFile(f)
      PROVE  SlotFileInv'
  BY <1>1 DEF DropFile, OneFileAtATime, EmptyIsBeingFilled, UpdateHasFile,
              FillFindsEmpty, UpdateFilled
<1>2. CASE ReadSlotExcel
  <2> USE <1>2 DEF ReadSlotExcel, AfterRead
  <2>1. target \in File /\ target \in dropped
    BY DEF UpdateHasFile
  <2>2. WatchTypeOK'
    BY <2>1
  <2>3. OneFileAtATime' /\ EmptyIsBeingFilled'
    BY DEF OneFileAtATime, EmptyIsBeingFilled
  <2>4. UpdateHasFile'
    BY <2>1 DEF UpdateHasFile
  <2>5. FillFindsEmpty'
    BY DEF FillFindsEmpty
  <2>6. UpdateFilled'
    BY <2>1 DEF UpdateFilled
  <2> QED
    BY <2>2, <2>3, <2>4, <2>5, <2>6
<1>3. CASE ReadFails
  BY <1>3 DEF ReadFails, WatchTrouble, OneFileAtATime, EmptyIsBeingFilled,
              UpdateHasFile, FillFindsEmpty, UpdateFilled
<1>4. CASE ClearTable
  <2> USE <1>4 DEF ClearTable, CommittedDelete
  <2>1. WatchTypeOK' /\ FillFindsEmpty' /\ OneFileAtATime'
    BY DEF FillFindsEmpty, OneFileAtATime
  <2>2. UpdateHasFile' /\ EmptyIsBeingFilled' /\ UpdateFilled'
    BY DEF UpdateHasFile, EmptyIsBeingFilled, UpdateFilled
  <2> QED
    BY <2>1, <2>2
<1>5. CASE ClearFails
  BY <1>5 DEF ClearFails, WatchTrouble, OneFileAtATime, EmptyIsBeingFilled,
              UpdateHasFile, FillFindsEmpty, UpdateFilled
<1>6. CASE FillTable
  <2> USE <1>6 DEF FillTable
  <2>1. PICK f \in dropped : pairs = Rows[f] /\ pairs # {}
    BY DEF UpdateHasFile
  <2>2. f \in File /\ table' = Rows[f] /\ table' # {}
    BY <2>1 DEF FillFindsEmpty
  <2>3. WatchTypeOK'
    BY <2>2
  <2>4. OneFileAtATime' /\ EmptyIsBeingFilled' /\ UpdateFilled'
    BY <2>1, <2>2 DEF OneFileAtATime, EmptyIsBeingFilled, UpdateFilled
  <2>5. UpdateHasFile' /\ FillFindsEmpty'
    BY DEF UpdateHasFile, FillFindsEmpty
  <2> QED
    BY <2>3, <2>4, <2>5
<1>7. CASE FillFails
  BY <1>7 DEF FillFails, WatchTrouble, OneFileAtATime, EmptyIsBeingFilled,
              UpdateHasFile, FillFindsEmpty, UpdateFilled
<1>8. CASE MoveProcessed
  <2> USE <1>8 DEF MoveProcessed
  <2>1. target \in File
    BY DEF UpdateHasFile
  <2>2. WatchTypeOK'
    BY <2>1
  <2>3. OneFileAtATime' /\ EmptyIsBeingFilled'
    BY DEF OneFileAtATime, EmptyIsBeingFilled, UpdateFilled
  <2>4. UpdateHasFile' /\ FillFindsEmpty' /\ UpdateFilled'
    BY DEF UpdateHasFile, FillFindsEmpty, UpdateFilled
  <2> QED
    BY <2>2, <2>3, <2>4
<1>9. CASE MoveFails
  BY <1>9 DEF MoveFails, WatchTrouble, OneFileAtATime, EmptyIsBeingFilled,
              UpdateHasFile, FillFindsEmpty, UpdateFilled
<1>10. CASE WatchRestart
  BY <1>10 DEF WatchRestart, OneFileAtATime, EmptyIsBeingFilled, UpdateHasFile,
               FillFindsEmpty, UpdateFilled
<1>11. CASE UNCHANGED watchVars
  BY <1>11 DEF watchVars, OneFileAtATime, EmptyIsBeingFilled, UpdateHasFile,
               FillFindsEmpty, UpdateFilled
<1> QED
  BY <1>1, <1>2, <1>3, <1>4, <1>5, <1>6, <1>7, <1>8, <1>9, <1>10, <1>11
  DEF WatchNext, WatchStep, Watch

\* The invariant holds in every reachable state.
THEOREM SlotFileInvariant == WatchSpec => []SlotFileInv
<1>1. WatchInit => SlotFileInv
  BY WatchInitInv
<1>2. SlotFileInv /\ [WatchNext]_watchVars => SlotFileInv'
  BY WatchNextInv
<1> QED
  BY <1>1, <1>2, PTL DEF WatchSpec

\* Whenever DataProcess looks a slot up, the table holds the pairs of one
\* dropped file, or nothing.
THEOREM NeverTwoFiles == WatchSpec => []OneFileAtATime
<1>1. SlotFileInv => OneFileAtATime
  BY DEF SlotFileInv
<1> QED
  BY <1>1, SlotFileInvariant, PTL

\* A table that was filled once is empty only while there is a file to fill it
\* from, unless an update failed or a file without pairs was dropped.
THEOREM EmptyOnlyBetween == WatchSpec => []EmptyIsBeingFilled
<1>1. SlotFileInv => EmptyIsBeingFilled
  BY DEF SlotFileInv
<1> QED
  BY <1>1, SlotFileInvariant, PTL
-----------------------------------------------------------------------------
(* The service.                                                            *)

\* A step of the service is one of its picture part, or none of it.
LEMMA StepIsPic == [Next]_vars => [PicNext]_picVars
BY DEF Next, vars, Restart, PicNext

\* And one of its watcher, or none of it.
LEMMA StepIsWatch == [Next]_vars => [WatchNext]_watchVars
BY DEF Next, vars, Restart, WatchNext

\* The service implements the picture handler and the upload thread (main.py).
THEOREM ServiceUsesPictures == Spec => PicSpec
<1>1. Init => PicInit
  BY DEF Init
<1> QED BY <1>1, StepIsPic, PTL DEF Spec, PicSpec

\* The service implements the watcher (main.py).
THEOREM ServiceUsesWatcher == Spec => WatchSpec
<1>1. Init => WatchInit
  BY DEF Init
<1> QED BY <1>1, StepIsWatch, PTL DEF Spec, WatchSpec

\* In the service too the marks of the rows are earned, and true of a code with one
\* picture, whatever the watcher does.
THEOREM ServiceMarksAreTrue == Spec => [](MarkedWasStored /\ MarkIsTrue)
BY ServiceUsesPictures, MarkIsEarned, MarksAreTrue, PTL

\* And the table never mixes two files, whatever the pictures do.
THEOREM ServiceNeverTwoFiles == Spec => []OneFileAtATime
BY ServiceUsesWatcher, NeverTwoFiles, PTL

\* Nor is it empty for good after a restart of the service, which stops both threads.
THEOREM ServiceEmptyOnlyBetween == Spec => []EmptyIsBeingFilled
BY ServiceUsesWatcher, EmptyOnlyBetween, PTL
=============================================================================
