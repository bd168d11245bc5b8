----------------------------- MODULE MCFiatWallet -----------------------------
(***************************************************************************)
(* An instance of FiatWallet for TLC: a brand that transfers and gifts to  *)
(* a member and tops up its wallet, and the member who withdraws.          *)
(***************************************************************************)
EXTENDS FiatWallet, TLC

CONSTANTS p, q, t1, t2, g1, w1, v1, brand, member

Payers == t1 :> brand @@ t2 :> brand @@ g1 :> brand @@ v1 :> brand @@ w1 :> member
Receivers == [r \in {t1, t2, g1} |-> member]
===============================================================================
