------------------------------ MODULE FtpServer ------------------------------
(***************************************************************************)
(* The service of ftp_server/src/main.py: the picture handler and the      *)
(* upload thread of PicUpload, and the watcher of SlotFile, in threads of  *)
(* one process.  They share no table and no file; a stop of the service    *)
(* ends them together, each between two of its steps.                      *)
(***************************************************************************)
EXTENDS PicUpload, SlotFile

vars == <<picVars, watchVars>>

Init == PicInit /\ WatchInit

\* handle_stop and main: the upload thread is given five seconds to end and the
\* watcher three; both are daemons, so sys.exit ends them wherever they are.  Then
\* main starts them anew.
Restart == PicRestart /\ WatchRestart

Next ==
  \/ PicStep /\ UNCHANGED watchVars
  \/ WatchStep /\ UNCHANGED picVars
  \/ Restart

Spec == Init /\ [][Next]_vars

\* The two threads keep running.
FairSpec ==
  /\ Spec
  /\ WF_vars(UploadStep /\ UNCHANGED watchVars)
  /\ WF_vars(Watch /\ UNCHANGED picVars)
=============================================================================
