----------------------------- MODULE MCSettlement -----------------------------
(***************************************************************************)
(* Instances of Settlement for TLC: two campaigns with a sub task or none, *)
(* of one brand or of two, and two handlers.                               *)
(***************************************************************************)
EXTENDS Settlement, TLC

CONSTANTS b1, b2, m1, m2, c1, c2, t1, t2, h1, h2

\* One brand with two campaigns, or two brands with one each.
OneBrand == c1 :> b1 @@ c2 :> b1
TwoBrands == c1 :> b1 @@ c2 :> b2

OneTask == t1 :> c1
TwoTasks == t1 :> c1 @@ t2 :> c2

Balances == [w \in Wallets |-> IF w \in Brands THEN 30 ELSE 0]

NoTopUps == {}
BothTopUps == {<<"form", 1>>, <<"json", -12>>}
===============================================================================
