------------------------------ MODULE MCIntake ------------------------------
(* Two handles, so that a closed one is given out again or not, and two      *)
(* receiver threads, so that one of an earlier connection can still run when  *)
(* the next begins; a connection that breaks, and two messages around it.     *)
EXTENDS Intake
=============================================================================
