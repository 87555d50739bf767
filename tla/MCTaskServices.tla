--------------------------- MODULE MCTaskServices ---------------------------
(* Three tasks on two connections, so that one waits while another may be     *)
(* faster than a notified one; one of them, which writes, is a handler on the *)
(* main thread; three hours of which the first and the last have the same     *)
(* number on two days, so that a file can be opened late or not at all.       *)
EXTENDS TaskServices
=============================================================================
