--------------------------- MODULE MCCryptoDeposit ----------------------------
(***************************************************************************)
(* Instances of CryptoDeposit for TLC: one invoice whose notices overlap,  *)
(* and two invoices of one customer with their notices handled apart,      *)
(* while another customer looks on.                                        *)
(***************************************************************************)
EXTENDS CryptoDeposit, TLC

CONSTANTS u1, u2, i1, i2, h1, h2

OnePayer == i1 :> u1 @@ i2 :> u1
OneInvoice == i1 :> u1

\* A notice may also say that less than nothing came in.
Wrong == -3
SomeAmounts == {Wrong, Full}

\* With one payer neither handlers nor invoices differ.
Alike == Permutations({h1, h2}) \cup Permutations({i1, i2})
===============================================================================
