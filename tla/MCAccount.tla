------------------------------ MODULE MCAccount ------------------------------
(***************************************************************************)
(* An instance of Account for TLC: values for its constants.               *)
(***************************************************************************)
EXTENDS Account

CONSTANTS l1, l2, f1, f2, q1, q2, c1
===============================================================================
