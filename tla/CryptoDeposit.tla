---------------------------- MODULE CryptoDeposit -----------------------------
(***************************************************************************)
(* Crypto deposits in the wallet service: createCryptoPayment opens an     *)
(* invoice with the payment provider and stores a tracker for it;          *)
(* paymentWebhookNotification handles the provider's notices, writes the   *)
(* ledger entry and credits the wallet when the money has come in.         *)
(*                                                                         *)
(* A handler reads the tracker's paid flag, then awaits other services,    *)
(* and decides inside the transaction on the flag it read before.  The     *)
(* transaction is two steps: its body, which holds the documents it wrote, *)
(* and its commit.                                                         *)
(*                                                                         *)
(* The webhook is a route without guard and does not compare the notice's  *)
(* signature (the check is commented out): it takes any body for the       *)
(* provider's.  So a notice with any status and any amount may arrive at   *)
(* any time, in any order and any number of times; what the provider does  *)
(* matters only for what must eventually happen.  A notice naming another  *)
(* customer than the invoice's cannot credit: the update of the tracker    *)
(* matches nothing and the transaction aborts, as it does in Fail.         *)
(* Left out: the amounts of ledger entries and the conversion to USDT.     *)
(***************************************************************************)
EXTENDS Integers, FiniteSets

CONSTANTS
    Users,      \* customers, each with one wallet
    Invoices,   \* identities of the invoices to be created
    Payer,      \* the customer who creates each invoice
    Handlers,   \* request slots of the webhook
    Amounts,    \* what a notice may say came in
    Part,       \* what a customer pays who pays too little
    Full,       \* the price of an invoice
    Faults      \* which of "fail" and "retry" may happen

ASSUME DepositAssumption ==
    /\ Payer \in [Invoices -> Users]
    /\ Amounts \subseteq Int
    /\ {Part, Full} \subseteq Amounts
    /\ Faults \subseteq {"fail", "retry"}

\* The process serves finitely many requests at a time.
ASSUME FiniteAssumption == IsFiniteSet(Handlers)

VARIABLES
    status,     \* the provider's payment_status of each invoice
    answered,   \* invoices whose current status has been answered with success
    tracker,    \* none, open, or paid (paid_to_user_wallet)
    entries,    \* number of ledger entries with the invoice's tx_ref
    wallet,     \* usdttrc20 balance of each customer
    credited,   \* history: how often each invoice was credited
    job         \* what each handler is doing

vars == <<status, answered, tracker, entries, wallet, credited, job>>

-------------------------------------------------------------------------------
(* The statuses the handler acts on, and those it only answers.            *)
Noted == {"confirming", "confirmed", "partially_paid", "finished", "failed"}
PaymentStatus == Noted \cup {"waiting", "expired"}

\* An invoice, its status, and the amount that has come in.
Notices == Invoices \X PaymentStatus \X Amounts

\* Which status may follow which, as the provider reports a payment.
Follows(s) ==
    CASE s = "waiting" -> {"confirming", "partially_paid", "expired"}
      [] s = "confirming" -> {"confirmed", "failed"}
      [] s = "confirmed" -> {"finished"}
      [] s = "partially_paid" -> {"finished", "failed"}
      [] OTHER -> {}

\* What the provider sends of an invoice, and repeats until it is answered.
AmountOf(s) == IF s \in {"partially_paid", "failed"} THEN Part ELSE Full
Notice(i) == <<i, status[i], AmountOf(status[i])>>

Idle == [step |-> "idle"]
Jobs == {Idle}
    \cup [step: {"found"}, notice: Notices, flag: BOOLEAN]
    \cup [step: {"commit"}, notice: Notices, flag: BOOLEAN, new: BOOLEAN]

TypeOK ==
    /\ status \in [Invoices -> PaymentStatus \cup {"none"}]
    /\ answered \subseteq Invoices
    /\ tracker \in [Invoices -> {"none", "open", "paid"}]
    /\ entries \in [Invoices -> Nat]
    /\ wallet \in [Users -> Int]
    /\ credited \in [Invoices -> Nat]
    /\ job \in [Handlers -> Jobs]

Init ==
    /\ status = [i \in Invoices |-> "none"]
    /\ answered = {}
    /\ tracker = [i \in Invoices |-> "none"]
    /\ entries = [i \in Invoices |-> 0]
    /\ wallet = [u \in Users |-> 0]
    /\ credited = [i \in Invoices |-> 0]
    /\ job = [h \in Handlers |-> Idle]

-------------------------------------------------------------------------------
(* createCryptoPayment.  The customer gets the invoice's address when the  *)
(* tracker is stored; an invoice without tracker is never paid, and a      *)
(* notice of it is refused.                                                *)
CreateCryptoPayment(i) ==
    /\ tracker[i] = "none"
    /\ tracker' = [tracker EXCEPT ![i] = "open"]
    /\ status' = [status EXCEPT ![i] = "waiting"]
    /\ UNCHANGED <<answered, entries, wallet, credited, job>>

(* The provider: a payment moves on, and notices of it are sent.           *)
Progress(i, s) ==
    /\ s \in Follows(status[i])
    /\ status' = [status EXCEPT ![i] = s]
    /\ answered' = answered \ {i}
    /\ UNCHANGED <<tracker, entries, wallet, credited, job>>

-------------------------------------------------------------------------------
(* paymentWebhookNotification                                              *)

Active(h, step) == job[h].step = step
Finish(h) == job' = [job EXCEPT ![h] = Idle]
Found(n) == tracker[n[1]] # "none"
Answer(n) == answered' = answered \cup {i \in Invoices : n = Notice(i)}

\* Variants for the mutation runs: the flag is not looked at; only partial
\* payments are credited.
CreditsAgain(j) == j.notice[2] \in {"finished", "partially_paid"}
CreditsPartOnly(j) == j.notice[2] = "partially_paid" /\ ~j.flag

Credits(j) == j.notice[2] \in {"finished", "partially_paid"} /\ ~j.flag

\* Documents written by an open transaction.
Held(j) ==
    IF j.step # "commit" THEN {}
    ELSE (IF j.new THEN {} ELSE {<<"entry", j.notice[1]>>})
         \cup (IF Credits(j)
               THEN {<<"tracker", j.notice[1]>>, <<"wallet", Payer[j.notice[1]]>>}
               ELSE {})

Unlocked(h, docs) == \A g \in Handlers \ {h} : Held(job[g]) \cap docs = {}

\* A status that is not needed is answered and changes nothing.
Dismiss(n) ==
    /\ Found(n)
    /\ n[2] \notin Noted
    /\ Answer(n)
    /\ UNCHANGED <<status, tracker, entries, wallet, credited, job>>

\* findPayment: the flag is read here, before the customer is asked for and
\* the amount is converted.
Receive(h, n) ==
    /\ job[h] = Idle
    /\ Found(n)
    /\ n[2] \in Noted
    /\ job' = [job EXCEPT ![h] = [step |-> "found", notice |-> n,
                                  flag |-> tracker[n[1]] = "paid"]]
    /\ UNCHANGED <<status, answered, tracker, entries, wallet, credited>>

\* Variant: a ledger entry is created for every notice.
BodyAlwaysNew(h) ==
    /\ Active(h, "found")
    /\ job' = [job EXCEPT ![h] = [step |-> "commit", notice |-> job[h].notice,
                                  flag |-> job[h].flag, new |-> TRUE]]
    /\ UNCHANGED <<status, answered, tracker, entries, wallet, credited>>

\* The body: the ledger entry with this tx_ref is updated, or created when the
\* transaction sees none.
Body(h) ==
    /\ Active(h, "found")
    /\ LET i == job[h].notice[1]
           j == [step |-> "commit", notice |-> job[h].notice,
                 flag |-> job[h].flag, new |-> entries[i] = 0]
       IN /\ Unlocked(h, Held(j))
          /\ job' = [job EXCEPT ![h] = j]
    /\ UNCHANGED <<status, answered, tracker, entries, wallet, credited>>

\* Variant: the flag is not set.
CommitUnflagged(h) ==
    /\ Active(h, "commit")
    /\ LET i == job[h].notice[1] IN
        /\ entries' = [entries EXCEPT ![i] = IF job[h].new THEN @ + 1 ELSE @]
        /\ IF Credits(job[h])
           THEN /\ wallet' = [wallet EXCEPT ![Payer[i]] = @ + job[h].notice[3]]
                /\ credited' = [credited EXCEPT ![i] = @ + 1]
           ELSE UNCHANGED <<wallet, credited>>
    /\ Answer(job[h].notice)
    /\ Finish(h)
    /\ UNCHANGED <<status, tracker>>

Commit(h) ==
    /\ Active(h, "commit")
    /\ LET i == job[h].notice[1] IN
        /\ entries' = [entries EXCEPT ![i] = IF job[h].new THEN @ + 1 ELSE @]
        /\ IF Credits(job[h])
           THEN /\ wallet' = [wallet EXCEPT ![Payer[i]] = @ + job[h].notice[3]]
                /\ tracker' = [tracker EXCEPT ![i] = "paid"]
                /\ credited' = [credited EXCEPT ![i] = @ + 1]
           ELSE UNCHANGED <<wallet, tracker, credited>>
    /\ Answer(job[h].notice)
    /\ Finish(h)
    /\ UNCHANGED status

\* A call to another service or to the database rejects, or the process stops:
\* an open transaction aborts and the notice is not answered.
Fail(h) ==
    /\ "fail" \in Faults
    /\ job[h] # Idle
    /\ Finish(h)
    /\ UNCHANGED <<status, answered, tracker, entries, wallet, credited>>

\* A transient error at commit: withTransaction runs the body again, with the
\* flag that was read before the first attempt.
Retry(h) ==
    /\ "retry" \in Faults
    /\ Active(h, "commit")
    /\ job' = [job EXCEPT ![h] = [step |-> "found", notice |-> job[h].notice,
                                  flag |-> job[h].flag]]
    /\ UNCHANGED <<status, answered, tracker, entries, wallet, credited>>

-------------------------------------------------------------------------------
ProviderStep(i) ==
    \/ CreateCryptoPayment(i)
    \/ \E s \in PaymentStatus : Progress(i, s)

HandlerStep(h) ==
    \/ \E n \in Notices : Receive(h, n)
    \/ Body(h)
    \/ Commit(h)
    \/ Fail(h)
    \/ Retry(h)

Next ==
    \/ \E i \in Invoices : ProviderStep(i)
    \/ \E n \in Notices : Dismiss(n)
    \/ \E h \in Handlers : HandlerStep(h)

Spec == Init /\ [][Next]_vars

(* A request that is being handled goes on, and the provider repeats the   *)
(* notice of an invoice's status until it is answered.                     *)
Redeliver(i) ==
    i \notin answered /\ \E h \in Handlers : Receive(h, Notice(i))

FairSpec ==
    /\ Spec
    /\ \A h \in Handlers : SF_vars(Body(h)) /\ WF_vars(Commit(h))
    /\ \A i \in Invoices : SF_vars(Redeliver(i))

(* Nothing in the code keeps two notices of one invoice apart.  ApartSpec  *)
(* has the behaviours in which they happen not to be handled at the same   *)
(* time: what the handler is written for.                                  *)
Handling(h) == job[h].step \in {"found", "commit"}

NoticesApart ==
    \A g, h \in Handlers : g # h /\ Handling(g) /\ Handling(h) =>
        job[g].notice[1] # job[h].notice[1]

ApartSpec == Init /\ [][Next /\ NoticesApart']_vars

-------------------------------------------------------------------------------
(* Properties *)

\* The paid flag and the credit commit together: whatever notices overlap, fail
\* or are retried, the flag is set exactly for the invoices that were credited,
\* and a credited invoice has a ledger entry.
FlaggedIsCredited ==
    \A i \in Invoices :
        /\ tracker[i] = "paid" <=> credited[i] > 0
        /\ credited[i] > 0 => entries[i] > 0

\* However often and in whatever order its notices arrive, as long as no two of
\* them are handled at once, an invoice is credited once: "so when next this
\* notification is sent user dont get value more than once".
CreditedAtMostOnce == \A i \in Invoices : credited[i] <= 1

\* All notices of an invoice, handled one after the other, share one ledger entry.
OneEntryPerInvoice == \A i \in Invoices : entries[i] <= 1

\* How far overlapping notices can go: every handler that will credit an invoice
\* found it unpaid, so it was there before the first of them committed, and the
\* same goes for those that will enter it.  An invoice is credited and entered at
\* most once per request that can be open at a time.
Unaware(i) == {h \in Handlers : Handling(h) /\ job[h].notice[1] = i /\ ~job[h].flag}
Booking(i) == {h \in Handlers : Active(h, "commit") /\ job[h].notice[1] = i /\ job[h].new}
CreditedOncePerRequest ==
    \A i \in Invoices :
        /\ credited[i] + Cardinality(Unaware(i)) <= Cardinality(Handlers)
        /\ entries[i] + Cardinality(Booking(i)) <= Cardinality(Handlers)

\* Once the provider has reported an invoice finished, it gets credited, if
\* calls do not go on failing for ever.  (A repeated notice whose handling
\* changes nothing looks like a failed one; those have to stop as well.)
FaultsStop == <>[][\A h \in Handlers : ~Fail(h) /\ ~Retry(h)]_vars
FinishedIsCredited ==
    FaultsStop => \A i \in Invoices : status[i] = "finished" ~> tracker[i] = "paid"

\* With the notices of an invoice handled one at a time this is the Deposit.
Abstract == INSTANCE Deposit
ImplementsDeposit == Abstract!Spec

===============================================================================
