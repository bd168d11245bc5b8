----------------------------- MODULE MCMembership -----------------------------
(***************************************************************************)
(* An instance of Membership for TLC: one user, two brands.                *)
(***************************************************************************)
EXTENDS Membership, TLC

CONSTANTS u1, b1, b2, p1, p2, j1, j2, f1, f2

Lists == f1 :> <<b1, b2>> @@ f2 :> <<b2, b1>>
===============================================================================
