---------------------------- MODULE MCRegistration ----------------------------
(***************************************************************************)
(* An instance of Registration for TLC: two registrations and an OAuth     *)
(* login with one e-mail, and an OAuth login with another one that gets    *)
(* the user name of the first.                                             *)
(***************************************************************************)
EXTENDS Registration, TLC

CONSTANTS s1, s2, o1, o2, e1, e2, n1, n2, x1

EmailsOf == [r \in {s1, s2, o1, x1} |-> e1] @@ o2 :> e2
NamesOf == s1 :> n1 @@ s2 :> n2 @@ o1 :> n2 @@ o2 :> n1
===============================================================================
