----------------------------- MODULE MCPlcSend ------------------------------
(* Instances of PlcSend for TLC: the tasks differ only in their message.    *)
EXTENDS PlcSend, TLC

Symmetry == Permutations(Msg)
=============================================================================
