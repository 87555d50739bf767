---------------------------- MODULE MCJTRequest ----------------------------
(***************************************************************************)
(* JTRequest for TLC.  Two or three business requests against one or two   *)
(* slots, so that they queue behind each other; one retry each, so that a  *)
(* request can be retried, aborted and exhausted; one choice of the mode   *)
(* beside the refresh, so that two logins overlap, and an id to spare, so  *)
(* that a third one would show.                                            *)
(***************************************************************************)
EXTENDS JTRequest, TLC

CONSTANTS r1, r2, r3, l1, l2, l3

MCReq2 == {r1, r2}
MCReq3 == {r1, r2, r3}
MCLoginId3 == {l1, l2, l3}
MCTerminal == {r1}

Symmetry3 == Permutations({r2, r3}) \cup Permutations(MCLoginId3)
=============================================================================
