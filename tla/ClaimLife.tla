------------------------------- MODULE ClaimLife ------------------------------
(***************************************************************************)
(* What review may rely on: a claim is started once, and it comes up for   *)
(* review once, with a submission to look at.  StartTask and SubmitTask of *)
(* Settlement are these steps.                                             *)
(***************************************************************************)
CONSTANT Claims

VARIABLES stage, stored

vars == <<stage, stored>>

Init ==
    /\ stage = [k \in Claims |-> "none"]
    /\ stored = {}

StartTask(k) ==
    /\ stage[k] = "none"
    /\ stage' = [stage EXCEPT ![k] = "started"]
    /\ UNCHANGED stored

HandIn(k) ==
    /\ stored' = stored \cup {k}
    /\ UNCHANGED stage

SubmitTask(k) ==
    /\ stage[k] = "started"
    /\ k \in stored
    /\ stage' = [stage EXCEPT ![k] = "pending"]
    /\ UNCHANGED stored

Next == \E k \in Claims : StartTask(k) \/ HandIn(k) \/ SubmitTask(k)

Spec == Init /\ [][Next]_vars

===============================================================================
