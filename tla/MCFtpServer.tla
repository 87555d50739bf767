---------------------------- MODULE MCFtpServer ------------------------------
(* The service of ftp_server for TLC.  Its watcher has two files that share a *)
(* pair and differ in another, and one without pairs; beside it one picture   *)
(* is filed and uploaded (MCPicUpload has more of them).                      *)
EXTENDS FtpServer, TLC

CONSTANTS c1, p1, f1, f2, f3, t1, t2, t3

MCCodeOf == (p1 :> c1)
MCFile == {f1, f2, f3}
MCRows == (f1 :> {t1, t2}) @@ (f2 :> {t1, t3}) @@ (f3 :> {})
==============================================================================
