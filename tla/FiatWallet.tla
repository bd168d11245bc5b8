------------------------------ MODULE FiatWallet ------------------------------
(***************************************************************************)
(* What moves money outside campaigns: transfers to a member, behind the   *)
(* guard of PinGuard, gifts of a brand (gift cards and discounts),         *)
(* withdrawals to a bank, and the verification of card payments.           *)
(*                                                                         *)
(* The balance that transfers, gifts and withdrawals check and write was   *)
(* replaced in the wallet's schema by a list of balances: the checks       *)
(* compare with undefined and never refuse, and the writes change nothing. *)
(* What these operations leave behind is ledger entries.  Every request    *)
(* is suspended at each await and may fail there.                          *)
(***************************************************************************)
EXTENDS PinGuard

CONSTANTS
    Gifts,          \* requests to create a gift card or a discount
    Withdrawals,    \* requests to pay out to a bank
    Verifies,       \* requests to verify a card payment
    Wallets,
    WalletOf,       \* the wallet of the user who makes each request
    ReceiverOf      \* the wallet of the member each transfer or gift is for

Transfers == Guarded
Requests == Transfers \cup Gifts \cup Withdrawals \cup Verifies

ASSUME WalletAssumption ==
    /\ Transfers \cap Gifts = {} /\ Transfers \cap Withdrawals = {}
    /\ Transfers \cap Verifies = {} /\ Gifts \cap Withdrawals = {}
    /\ Gifts \cap Verifies = {} /\ Withdrawals \cap Verifies = {}
    /\ WalletOf \in [Requests -> Wallets]
    /\ ReceiverOf \in [Transfers \cup Gifts -> Wallets]

VARIABLES
    step,       \* the await each request is at
    forMember,  \* gifts to one member; the others are for a community
    keyed,      \* verifications whose tx_ref has a transaction id in redis
    ledger,     \* transaction entries
    paid,       \* withdrawals the bank was told to pay
    cards,      \* gifts whose card or discount exists
    credited    \* verifications that raised the balance

ledgerVars == <<step, forMember, keyed, ledger, paid, cards, credited>>
vars == <<pinVars, ledgerVars>>

Entries == [request: Requests, side: {"credit", "debit"}, wallet: Wallets]

TypeOK ==
    /\ PinTypeOK
    /\ step \in [Requests -> {"idle", "pay", "credit", "debit", "card",
                              "entry", "balance", "done", "cut"}]
    /\ forMember \subseteq Gifts
    /\ keyed \subseteq Verifies
    /\ ledger \subseteq Entries
    /\ paid \subseteq Withdrawals
    /\ cards \subseteq Gifts
    /\ credited \subseteq Verifies

Init ==
    /\ PinInit
    /\ step = [r \in Requests |-> "idle"]
    /\ forMember = {}
    /\ keyed = {}
    /\ ledger = {}
    /\ paid = {}
    /\ cards = {}
    /\ credited = {}

Goto(r, from, to) == step[r] = from /\ step' = [step EXCEPT ![r] = to]

Credit(r) == [request |-> r, side |-> "credit", wallet |-> ReceiverOf[r]]
Debit(r) == [request |-> r, side |-> "debit", wallet |-> WalletOf[r]]
TopUp(v) == [request |-> v, side |-> "credit", wallet |-> WalletOf[v]]

-------------------------------------------------------------------------------
(* Requests begin *)

GuardTransfer(t) ==
    /\ step[t] = "idle"
    /\ GuardStep(t)
    /\ UNCHANGED ledgerVars

SetPin(p) ==
    /\ ChoosePin(p) \/ StorePin(p)
    /\ UNCHANGED ledgerVars

\* sendFundToUser up to the receiver's entry.
BeginTransfer(t) ==
    /\ gate[t] = "passed"
    /\ gate' = [gate EXCEPT ![t] = "idle"]
    /\ Goto(t, "idle", "credit")
    /\ UNCHANGED <<pin, attempts, locked, choosing, guesses, wrongs>>
    /\ UNCHANGED <<forMember, keyed, ledger, paid, cards, credited>>

\* The brand service asks the wallet service for the charge.
BeginGift(g) ==
    /\ \/ Goto(g, "idle", "credit") /\ forMember' = forMember \cup {g}
       \/ Goto(g, "idle", "debit") /\ UNCHANGED forMember
    /\ UNCHANGED <<pinVars, keyed, ledger, paid, cards, credited>>

BeginWithdrawal(w) ==
    /\ Goto(w, "idle", "pay")
    /\ UNCHANGED <<pinVars, forMember, keyed, ledger, paid, cards, credited>>

\* Variant for the mutation runs: any entry of the wallet will do.
EarlierEntryOfAny(v) == \E e \in ledger : e.wallet = WalletOf[v]

\* The search for an earlier entry: none has the transaction id; without an id
\* every entry of the wallet fits.
EarlierEntry(v) == v \notin keyed' /\ \E e \in ledger : e.wallet = WalletOf[v]

BeginVerify(v) ==
    /\ \/ keyed' = keyed \cup {v}
       \/ keyed' = keyed
    /\ IF EarlierEntry(v) THEN Goto(v, "idle", "done") ELSE Goto(v, "idle", "entry")
    /\ UNCHANGED <<pinVars, forMember, ledger, paid, cards, credited>>

-------------------------------------------------------------------------------
(* and go on, one write at a time *)

\* Variant for the mutation runs: the debit is entered first.
EnterDebitFirst(r) ==
    /\ r \in Transfers \cup Gifts
    /\ Goto(r, "credit", "debit")
    /\ ledger' = ledger \cup {Debit(r)}
    /\ UNCHANGED <<pinVars, forMember, keyed, paid, cards, credited>>

EnterCredit(r) ==
    /\ r \in Transfers \cup Gifts
    /\ Goto(r, "credit", "debit")
    /\ ledger' = ledger \cup {Credit(r)}
    /\ UNCHANGED <<pinVars, forMember, keyed, paid, cards, credited>>

\* The wallet service answers a gift's request with "success".
EnterDebit(r) ==
    /\ Goto(r, "debit", IF r \in Gifts THEN "card" ELSE "done")
    /\ ledger' = ledger \cup {Debit(r)}
    /\ UNCHANGED <<pinVars, forMember, keyed, paid, cards, credited>>

\* Variant for the mutation runs: the answer of the wallet is not looked at.
CreateCardUncharged(g) ==
    /\ g \in Gifts
    /\ step[g] \in {"debit", "card"}
    /\ step' = [step EXCEPT ![g] = "done"]
    /\ cards' = cards \cup {g}
    /\ UNCHANGED <<pinVars, forMember, keyed, ledger, paid, credited>>

CreateCard(g) ==
    /\ g \in Gifts
    /\ Goto(g, "card", "done")
    /\ cards' = cards \cup {g}
    /\ UNCHANGED <<pinVars, forMember, keyed, ledger, paid, credited>>

PayOut(w) ==
    /\ w \in Withdrawals
    /\ Goto(w, "pay", "debit")
    /\ paid' = paid \cup {w}
    /\ UNCHANGED <<pinVars, forMember, keyed, ledger, cards, credited>>

EnterTopUp(v) ==
    /\ v \in Verifies
    /\ Goto(v, "entry", "balance")
    /\ ledger' = ledger \cup {TopUp(v)}
    /\ UNCHANGED <<pinVars, forMember, keyed, paid, cards, credited>>

RaiseBalance(v) ==
    /\ v \in Verifies
    /\ Goto(v, "balance", "done")
    /\ credited' = credited \cup {v}
    /\ UNCHANGED <<pinVars, forMember, keyed, ledger, paid, cards>>

\* An await rejects, the bank refuses, an answer is lost or a process ends:
\* what was written stays.
Cut(r) ==
    /\ step[r] \notin {"idle", "done", "cut"}
    /\ step' = [step EXCEPT ![r] = "cut"]
    /\ UNCHANGED <<pinVars, forMember, keyed, ledger, paid, cards, credited>>

Next ==
    \/ \E p \in Pins : SetPin(p)
    \/ \E t \in Transfers : GuardTransfer(t) \/ BeginTransfer(t)
    \/ \E g \in Gifts : BeginGift(g) \/ CreateCard(g)
    \/ \E w \in Withdrawals : BeginWithdrawal(w) \/ PayOut(w)
    \/ \E v \in Verifies : BeginVerify(v) \/ EnterTopUp(v) \/ RaiseBalance(v)
    \/ \E r \in Requests : EnterCredit(r) \/ EnterDebit(r) \/ Cut(r)

Spec == Init /\ [][Next]_vars

-------------------------------------------------------------------------------
(* Properties *)

\* Wherever a request is cut off, a debit is entered only for money that went
\* somewhere: to the entry of the member a transfer or gift is for, or out of
\* the bank.
DebitIsCovered ==
    \A r \in Requests \ Verifies : Debit(r) \in ledger =>
        \/ r \in Withdrawals /\ r \in paid
        \/ r \in Transfers \cup forMember /\ Credit(r) \in ledger
        \/ r \in Gifts \ forMember

\* The brand service has no card or discount that the wallet service did not
\* enter, on both sides when it is for a member.
CardIsCharged ==
    \A g \in cards : Debit(g) \in ledger /\ (g \in forMember => Credit(g) \in ledger)

\* A verified card payment that raised the balance has its entry; one of a
\* payment whose id is known does not end, unless cut off, without raising it.
PaymentIsEntered ==
    \A v \in Verifies :
        /\ v \in credited => TopUp(v) \in ledger
        /\ v \in keyed /\ step[v] = "done" => v \in credited

===============================================================================
