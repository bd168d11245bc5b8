------------------------------- MODULE Deposit --------------------------------
(***************************************************************************)
(* What the webhook keeps of a deposit when it handles the notices of one  *)
(* invoice one at a time: an invoice that was opened is credited once, to  *)
(* the wallet of the customer who opened it and to no other.  The amount   *)
(* is what the notice says, whoever sent it.  There are no notices, reads  *)
(* or transactions here.                                                   *)
(***************************************************************************)
EXTENDS Integers

CONSTANTS Users, Invoices, Payer

VARIABLES tracker, wallet

vars == <<tracker, wallet>>

Init ==
    /\ tracker = [i \in Invoices |-> "none"]
    /\ wallet = [u \in Users |-> 0]

Open(i) ==
    /\ tracker[i] = "none"
    /\ tracker' = [tracker EXCEPT ![i] = "open"]
    /\ UNCHANGED wallet

Credit(i) ==
    /\ tracker[i] = "open"
    /\ tracker' = [tracker EXCEPT ![i] = "paid"]
    /\ wallet'[Payer[i]] \in Int
    /\ wallet' = [wallet EXCEPT ![Payer[i]] = wallet'[Payer[i]]]

Next == \E i \in Invoices : Open(i) \/ Credit(i)

Spec == Init /\ [][Next]_vars

===============================================================================
