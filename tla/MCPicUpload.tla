---------------------------- MODULE MCPicUpload ------------------------------
(* Instances of PicUpload for TLC: two pictures of one code, one of another. *)
EXTENDS PicUpload, TLC

CONSTANTS c1, c2, p1, p2, q1

MCCodeOf == (p1 :> c1) @@ (p2 :> c1) @@ (q1 :> c2)
==============================================================================
