----------------------------- MODULE MCTaskIntake -----------------------------
(***************************************************************************)
(* Instances of TaskIntake for TLC: requests overlap freely, or all but    *)
(* those that start the same work do.                                      *)
(***************************************************************************)
EXTENDS TaskIntake, TLC

CONSTANTS t1, t2, m1, m2, h1, h2

\* Where nothing has to happen, members and handlers do not differ.
Alike == Permutations({m1, m2}) \cup Permutations({h1, h2})
===============================================================================
