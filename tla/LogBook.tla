------------------------------ MODULE LogBook ------------------------------
(***************************************************************************)
(* What logger.cpp promises: every message is accepted at once; the lines   *)
(* come out in that order, each once; and close (275-286: stop, wait until  *)
(* the queue is written, then close the file) ends only when all that was   *)
(* accepted before it is written.  What is accepted later may be lost.      *)
(***************************************************************************)
EXTENDS Naturals, Sequences

CONSTANT LogMsg

VARIABLES
  accepted,   \* what Log was called with, in order
  written,    \* the lines, in order
  owed,       \* how many of the accepted ones close has to wait for
  closed

vars == <<accepted, written, owed, closed>>

Init ==
  /\ accepted = << >>
  /\ written = << >>
  /\ owed = 0
  /\ closed = FALSE

Accept(m) ==
  /\ accepted' = Append(accepted, m)
  /\ UNCHANGED <<written, owed, closed>>

\* close is called.
RequestClose ==
  /\ ~closed
  /\ owed' = Len(accepted)
  /\ UNCHANGED <<accepted, written, closed>>

Write ==
  /\ ~closed
  /\ Len(written) < Len(accepted)
  /\ written' = Append(written, accepted[Len(written) + 1])
  /\ UNCHANGED <<accepted, owed, closed>>

\* close returns.
Close ==
  /\ Len(written) >= owed
  /\ closed' = TRUE
  /\ UNCHANGED <<accepted, written, owed>>

Next == (\E m \in LogMsg : Accept(m)) \/ RequestClose \/ Write \/ Close

Spec == Init /\ [][Next]_vars

\* What is accepted is written, unless the log is closed first.
FairSpec == Spec /\ WF_vars(Write)
============================================================================
