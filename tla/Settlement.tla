------------------------------ MODULE Settlement ------------------------------
(***************************************************************************)
(* Campaign money in the brand service: creating and topping up a campaign *)
(* (createBrandTask, updateBrandTask), reviewing a member's submission     *)
(* (approveSubmission, rejectSubmission), and the wallet service's ledger  *)
(* entries for the events those handlers emit (createCampaign, sendAward). *)
(*                                                                         *)
(* A request is served by a handler.  A handler takes one step per stretch *)
(* of code between two awaits that other requests can get between, and     *)
(* keeps in job[h] what it has read so far.  A MongoDB transaction is two  *)
(* steps: its body, which ends with the emit and holds the documents it    *)
(* wrote, and its commit, which makes the writes visible.                  *)
(*                                                                         *)
(* One reward currency is modelled: the entries of other currencies in a   *)
(* wallet's balances are never touched together with this one.  No amount  *)
(* in a request is checked for its sign, so amounts are integers, and no   *)
(* review compares the brand of the campaign with that of the reviewer, so *)
(* any handler may review any submission.                                  *)
(***************************************************************************)
EXTENDS Integers, FiniteSets, FiniteSetsExt

CONSTANTS
    Brands,          \* business accounts, each with one wallet
    Members,         \* user accounts, each with one wallet
    Campaigns,       \* identities of the campaigns to be created
    SubTasks,        \* identities of their sub tasks
    Handlers,        \* request slots of the brand service
    Owner,           \* the brand each campaign belongs to
    CampaignOf,      \* the campaign each sub task belongs to
    NoBalance,       \* wallets without an entry in the reward currency
    InitialBalance,  \* what each wallet holds at first
    Amounts,         \* campaign_amount of a create request
    Rewards,         \* reward_amount of a sub task
    TopUps,          \* <<body kind, campaign_amount>> of an update request
    MaxAmount,       \* bound on what an update may write, up or down
    MaxEntries,      \* bound on the events emitted for one campaign or claim
    Faults           \* which of "fail", "retry" and "lose" may happen

Claims == SubTasks \X Members
Wallets == Brands \cup Members
Entries == Campaigns \cup Claims
SubTasksOf(c) == {t \in SubTasks : CampaignOf[t] = c}

ASSUME LayoutAssumption ==
    /\ Owner \in [Campaigns -> Brands]
    /\ CampaignOf \in [SubTasks -> Campaigns]
    /\ Brands \cap Members = {}
    /\ Campaigns \cap Claims = {}
    /\ NoBalance \subseteq Wallets

\* A database holds finitely many documents.
ASSUME FiniteAssumption ==
    IsFiniteSet(Brands) /\ IsFiniteSet(Members) /\ IsFiniteSet(Campaigns)
        /\ IsFiniteSet(Handlers)

ASSUME AmountAssumption ==
    /\ InitialBalance \in [Wallets -> Nat]
    /\ Amounts \subseteq Int
    /\ Rewards \subseteq Int
    /\ TopUps \subseteq {"json", "form"} \X Int
    /\ MaxAmount \in Nat
    /\ MaxEntries \in Nat
    /\ Faults \subseteq {"fail", "retry", "lose"}

VARIABLES
    wallet,     \* balances.$.amount of each wallet
    live,       \* campaigns whose creation has committed (status: true)
    funds,      \* campaign_amount of each campaign
    reward,     \* reward_amount of each sub task
    tracker,    \* the sub task tracker of each claim
    job,        \* what each handler is doing
    inflight,   \* create_campaign and send_award events on their way
    ledger,     \* wallet transactions created from those events
    paid        \* history: how often each claim's reward was committed

vars == <<wallet, live, funds, reward, tracker, job, inflight, ledger, paid>>

-------------------------------------------------------------------------------
Idle == [step |-> "idle"]
LaunchJobs ==
    UNION {[step: {"launch", "launched"}, camp: {c}, amount: Amounts,
            rewards: [SubTasksOf(c) -> Rewards]] : c \in Campaigns}
UpdateJobs == [step: {"update"}, camp: Campaigns, total: Int]
CheckJobs == [step: {"check"}, claim: Claims, seen: Int]
ReviewJobs == [step: {"pay", "commit", "reject"}, claim: Claims]
Jobs == {Idle} \cup LaunchJobs \cup UpdateJobs \cup CheckJobs \cup ReviewJobs

TrackerStates == {"none", "started", "pending", "approved", "rejected"}

TypeOK ==
    /\ wallet \in [Wallets -> Int]
    /\ live \subseteq Campaigns
    /\ funds \in [Campaigns -> Int]
    /\ reward \in [SubTasks -> Int]
    /\ tracker \in [Claims -> TrackerStates]
    /\ job \in [Handlers -> Jobs]
    /\ inflight \in [Entries -> Nat]
    /\ ledger \in [Entries -> Nat]
    /\ paid \in [Claims -> Nat]

Init ==
    /\ wallet = InitialBalance
    /\ live = {}
    /\ funds = [c \in Campaigns |-> 0]
    /\ reward = [t \in SubTasks |-> 0]
    /\ tracker = [k \in Claims |-> "none"]
    /\ job = [h \in Handlers |-> Idle]
    /\ inflight = [e \in Entries |-> 0]
    /\ ledger = [e \in Entries |-> 0]
    /\ paid = [k \in Claims |-> 0]

-------------------------------------------------------------------------------
(* The documents a transaction has written and not yet committed: another  *)
(* write to one of them waits, or conflicts and starts its body again.     *)
Held(j) ==
    CASE j.step = "launched" -> {j.camp, Owner[j.camp]}
      [] j.step = "commit" -> {CampaignOf[j.claim[1]], j.claim[2], j.claim}
      [] OTHER -> {}

Unlocked(h, docs) == \A g \in Handlers \ {h} : Held(job[g]) \cap docs = {}

Emitted(e) == inflight[e] + ledger[e]

At(h, step) == job[h].step = step
Goto(h, step) == job' = [job EXCEPT ![h].step = step]
Finish(h) == job' = [job EXCEPT ![h] = Idle]

(* createBrandTask *)

Drafted == {job[g].camp : g \in {h \in Handlers : job[h].step \in {"launch", "launched"}}}

\* The sum of the values of f on S.
Total(f, S) == MapThenSumSet(LAMBDA x : f[x], S)

RewardTotal(rewards) == Total(rewards, DOMAIN rewards)

\* The cumulative rewards are compared with the campaign amount plus 10%.
WithinCampaign(rewards, amount) == 10 * RewardTotal(rewards) <= 11 * amount

\* Variant for the mutation runs: the balance check is left out.
WalletUnchecked(b, amount) == TRUE

\* walletBalance?.amount < requiredAmount is false for an entry that is missing.
WalletCovers(b, amount) == b \in NoBalance \/ 10 * wallet[b] >= 11 * amount

BeginCreate(h, c) ==
    /\ job[h] = Idle
    /\ c \notin live \cup Drafted
    /\ \E amount \in Amounts, rewards \in [SubTasksOf(c) -> Rewards] :
        /\ WithinCampaign(rewards, amount)
        /\ WalletCovers(Owner[c], amount)
        /\ job' = [job EXCEPT ![h] = [step |-> "launch", camp |-> c,
                                      amount |-> amount, rewards |-> rewards]]
    /\ UNCHANGED <<wallet, live, funds, reward, tracker, inflight, ledger, paid>>

LaunchBody(h) ==
    /\ At(h, "launch")
    /\ Owner[job[h].camp] \notin NoBalance
    /\ Emitted(job[h].camp) < MaxEntries
    /\ Unlocked(h, {Owner[job[h].camp]})
    /\ inflight' = [inflight EXCEPT ![job[h].camp] = @ + 1]
    /\ Goto(h, "launched")
    /\ UNCHANGED <<wallet, live, funds, reward, tracker, ledger, paid>>

\* Variant: the campaign is funded and the wallet is not debited.
LaunchCommitNoDebit(h) ==
    /\ At(h, "launched")
    /\ LET c == job[h].camp IN
        /\ live' = live \cup {c}
        /\ funds' = [funds EXCEPT ![c] = job[h].amount]
        /\ reward' = [t \in SubTasks |->
                        IF CampaignOf[t] = c THEN job[h].rewards[t] ELSE reward[t]]
    /\ Finish(h)
    /\ UNCHANGED <<wallet, tracker, inflight, ledger, paid>>

LaunchCommit(h) ==
    /\ At(h, "launched")
    /\ LET c == job[h].camp IN
        /\ wallet' = [wallet EXCEPT ![Owner[c]] = @ - job[h].amount]
        /\ live' = live \cup {c}
        /\ funds' = [funds EXCEPT ![c] = job[h].amount]
        /\ reward' = [t \in SubTasks |->
                        IF CampaignOf[t] = c THEN job[h].rewards[t] ELSE reward[t]]
    /\ Finish(h)
    /\ UNCHANGED <<tracker, inflight, ledger, paid>>

(* updateBrandTask.  A request without campaign_amount adds undefined to a *)
(* number; the cast of NaN fails and nothing is written.  In a JSON body   *)
(* the amount is a number and + adds; in a multipart form, which is what   *)
(* the route is declared for, it is text and + puts the two texts together *)
(* before the schema casts the result back: "5" and 12 make 512, "-5" and  *)
(* 12 make -512.                                                           *)
Scale[n \in Int] == IF n < 10 THEN 10 ELSE 10 * Scale[n \div 10]

ToppedUp(topUp, current) ==
    CASE topUp[1] = "json" -> topUp[2] + current
      [] topUp[1] = "form" /\ topUp[2] >= 0 -> topUp[2] * Scale[current] + current
      [] topUp[1] = "form" /\ topUp[2] < 0 -> topUp[2] * Scale[current] - current

UpdateRead(h, c) ==
    /\ job[h] = Idle
    /\ c \in live
    /\ \E topUp \in TopUps :
        /\ topUp[1] = "form" => funds[c] >= 0       \* "5-3" is not a number
        /\ ToppedUp(topUp, funds[c]) \in -MaxAmount .. MaxAmount
        /\ job' = [job EXCEPT ![h] = [step |-> "update", camp |-> c,
                                      total |-> ToppedUp(topUp, funds[c])]]
    /\ UNCHANGED <<wallet, live, funds, reward, tracker, inflight, ledger, paid>>

UpdateWrite(h) ==
    /\ At(h, "update")
    /\ Unlocked(h, {job[h].camp})
    /\ funds' = [funds EXCEPT ![job[h].camp] = job[h].total]
    /\ Finish(h)
    /\ UNCHANGED <<wallet, live, reward, tracker, inflight, ledger, paid>>

(* approveSubmission.  The submission and the sub task never change; the   *)
(* campaign and then the tracker are read, each after an await.            *)
Reviewable(h, k) ==
    /\ job[h] = Idle
    /\ tracker[k] # "none"

ApproveRead(h, k) ==
    /\ Reviewable(h, k)
    /\ job' = [job EXCEPT ![h] = [step |-> "check", claim |-> k,
                                  seen |-> funds[CampaignOf[k[1]]]]]
    /\ UNCHANGED <<wallet, live, funds, reward, tracker, inflight, ledger, paid>>

\* Variants: without the status check, without the amount check.
MayPayReviewed(j) == reward[j.claim[1]] <= j.seen
MayPayUnfunded(j) == tracker[j.claim] = "pending"

MayPay(j) == tracker[j.claim] = "pending" /\ reward[j.claim[1]] <= j.seen

ApproveCheck(h) ==
    /\ At(h, "check")
    /\ \/ /\ MayPay(job[h])
          /\ job' = [job EXCEPT ![h] = [step |-> "pay", claim |-> job[h].claim]]
       \/ /\ ~MayPay(job[h])
          /\ Finish(h)
    /\ UNCHANGED <<wallet, live, funds, reward, tracker, inflight, ledger, paid>>

ApproveBody(h) ==
    /\ At(h, "pay")
    /\ LET k == job[h].claim IN
        /\ k[2] \notin NoBalance
        /\ Emitted(k) < MaxEntries
        /\ Unlocked(h, {CampaignOf[k[1]], k[2], k})
        /\ inflight' = [inflight EXCEPT ![k] = @ + 1]
    /\ Goto(h, "commit")
    /\ UNCHANGED <<wallet, live, funds, reward, tracker, ledger, paid>>

\* Variant: the member is credited and the campaign is not debited.
ApproveCommitNoDebit(h) ==
    /\ At(h, "commit")
    /\ LET k == job[h].claim IN
        /\ wallet' = [wallet EXCEPT ![k[2]] = @ + reward[k[1]]]
        /\ tracker' = [tracker EXCEPT ![k] = "approved"]
        /\ paid' = [paid EXCEPT ![k] = @ + 1]
    /\ Finish(h)
    /\ UNCHANGED <<live, funds, reward, inflight, ledger>>

ApproveCommit(h) ==
    /\ At(h, "commit")
    /\ LET k == job[h].claim
           c == CampaignOf[k[1]]
       IN /\ funds' = [funds EXCEPT ![c] = @ - reward[k[1]]]
          /\ wallet' = [wallet EXCEPT ![k[2]] = @ + reward[k[1]]]
          /\ tracker' = [tracker EXCEPT ![k] = "approved"]
          /\ paid' = [paid EXCEPT ![k] = @ + 1]
    /\ Finish(h)
    /\ UNCHANGED <<live, reward, inflight, ledger>>

(* rejectSubmission *)

\* Variant: a submission that has been reviewed can be rejected.
RejectReadReviewed(h, k) ==
    /\ Reviewable(h, k)
    /\ job' = [job EXCEPT ![h] = [step |-> "reject", claim |-> k]]
    /\ UNCHANGED <<wallet, live, funds, reward, tracker, inflight, ledger, paid>>

RejectRead(h, k) ==
    /\ Reviewable(h, k)
    /\ tracker[k] = "pending"
    /\ job' = [job EXCEPT ![h] = [step |-> "reject", claim |-> k]]
    /\ UNCHANGED <<wallet, live, funds, reward, tracker, inflight, ledger, paid>>

RejectWrite(h) ==
    /\ At(h, "reject")
    /\ Unlocked(h, {job[h].claim})
    /\ tracker' = [tracker EXCEPT ![job[h].claim] = "rejected"]
    /\ Finish(h)
    /\ UNCHANGED <<wallet, live, funds, reward, inflight, ledger, paid>>

-------------------------------------------------------------------------------
(* An awaited call rejects or the process stops: nothing is written, an    *)
(* open transaction aborts, and what was emitted stays emitted.            *)
NotCredited(j) ==
    \/ j.step = "launch" /\ Owner[j.camp] \in NoBalance
    \/ j.step = "pay" /\ j.claim[2] \in NoBalance

Fail(h) ==
    /\ job[h] # Idle
    /\ "fail" \in Faults \/ NotCredited(job[h])
    /\ Finish(h)
    /\ UNCHANGED <<wallet, live, funds, reward, tracker, inflight, ledger, paid>>

(* A transient error at commit: withTransaction runs the body again.       *)
Retry(h) ==
    /\ "retry" \in Faults
    /\ \/ At(h, "launched") /\ Goto(h, "launch")
       \/ At(h, "commit") /\ Goto(h, "pay")
    /\ UNCHANGED <<wallet, live, funds, reward, tracker, inflight, ledger, paid>>

\* Variant: the entry is not created.
RecordEntryDropped(e) ==
    /\ inflight[e] > 0
    /\ inflight' = [inflight EXCEPT ![e] = @ - 1]
    /\ UNCHANGED <<wallet, live, funds, reward, tracker, job, ledger, paid>>

(* The wallet service: createCampaign and sendAward create a transaction.  *)
RecordEntry(e) ==
    /\ inflight[e] > 0
    /\ inflight' = [inflight EXCEPT ![e] = @ - 1]
    /\ ledger' = [ledger EXCEPT ![e] = @ + 1]
    /\ UNCHANGED <<wallet, live, funds, reward, tracker, job, paid>>

(* Events are acknowledged on receipt: one whose handler fails is lost.    *)
LoseEntry(e) ==
    /\ "lose" \in Faults
    /\ inflight[e] > 0
    /\ inflight' = [inflight EXCEPT ![e] = @ - 1]
    /\ UNCHANGED <<wallet, live, funds, reward, tracker, job, ledger, paid>>

(* The auth service moves the tracker until the submission can be reviewed.*)
StartTask(k) ==
    /\ CampaignOf[k[1]] \in live
    /\ tracker[k] = "none"
    /\ tracker' = [tracker EXCEPT ![k] = "started"]
    /\ UNCHANGED <<wallet, live, funds, reward, job, inflight, ledger, paid>>

\* Variant: a tracker that has been submitted can be submitted again.
SubmitTaskAgain(k) ==
    /\ tracker[k] # "none"
    /\ tracker' = [tracker EXCEPT ![k] = "pending"]
    /\ UNCHANGED <<wallet, live, funds, reward, job, inflight, ledger, paid>>

SubmitTask(k) ==
    /\ tracker[k] = "started"
    /\ tracker' = [tracker EXCEPT ![k] = "pending"]
    /\ UNCHANGED <<wallet, live, funds, reward, job, inflight, ledger, paid>>

-------------------------------------------------------------------------------
CreateStep(h) ==
    \/ \E c \in Campaigns : BeginCreate(h, c)
    \/ LaunchBody(h)
    \/ LaunchCommit(h)

UpdateStep(h) ==
    \/ \E c \in Campaigns : UpdateRead(h, c)
    \/ UpdateWrite(h)

ReviewStep(h) ==
    \/ \E k \in Claims : ApproveRead(h, k) \/ RejectRead(h, k)
    \/ ApproveCheck(h)
    \/ ApproveBody(h)
    \/ ApproveCommit(h)
    \/ RejectWrite(h)

HandlerStep(h) ==
    CreateStep(h) \/ UpdateStep(h) \/ ReviewStep(h) \/ Fail(h) \/ Retry(h)

Next ==
    \/ \E h \in Handlers : HandlerStep(h)
    \/ \E e \in Entries : RecordEntry(e) \/ LoseEntry(e)
    \/ \E k \in Claims : StartTask(k) \/ SubmitTask(k)

Spec == Init /\ [][Next]_vars

\* The wallet service keeps consuming its queue.
FairSpec == Spec /\ \A e \in Entries : WF_vars(RecordEntry(e))

-------------------------------------------------------------------------------
(* Requests that concern the same thing.  Nothing in the code keeps them   *)
(* apart: ApartSpec has the behaviours in which no two of them are open at *)
(* the same time, while any others overlap.                                *)

Drafting(h) == job[h].step \in {"launch", "launched"}
Reviewing(h) == job[h].step \in {"check", "pay", "commit", "reject"}

\* Requests that will change the amount of a campaign, and which one.
Spending(h) == job[h].step \in {"update", "check", "pay", "commit"}
CampaignAt(h) ==
    IF job[h].step = "update" THEN job[h].camp ELSE CampaignOf[job[h].claim[1]]

\* A brand creates one campaign at a time.
CreatesApart ==
    \A g, h \in Handlers : g # h /\ Drafting(g) /\ Drafting(h) =>
        Owner[job[g].camp] # Owner[job[h].camp]

\* A campaign has one payment or update at a time.
SpendsApart ==
    \A g, h \in Handlers : g # h /\ Spending(g) /\ Spending(h) =>
        CampaignAt(g) # CampaignAt(h)

\* A submission has one review at a time.
ReviewsApart ==
    \A g, h \in Handlers : g # h /\ Reviewing(g) /\ Reviewing(h) =>
        job[g].claim # job[h].claim

Apart == CreatesApart /\ SpendsApart /\ ReviewsApart

StaysApart == Apart'

ApartSpec == Init /\ [][Next /\ StaysApart]_vars

-------------------------------------------------------------------------------
(* Properties *)

\* Every coin that leaves a wallet is in a campaign and every coin that leaves
\* a campaign is in a wallet, whatever requests overlap, fail or are retried:
\* the debit and the credit of both transactions commit together.  (Stated for
\* behaviours without updateBrandTask, which debits nothing: TopUps = {}.)
Money == Total(wallet, Wallets) + Total(funds, Campaigns)
MoneyConserved == Money = Total(InitialBalance, Wallets)

\* No reward is committed for a submission that was not there to review, and a
\* paid one never looks reviewable again, even when reviews overlap.
PaidIsReviewed == \A k \in Claims : paid[k] > 0 => tracker[k] \in {"approved", "rejected"}

\* The 'previously reviewed' check of approveSubmission: no submission is paid
\* for twice.  Two approvals that overlap both pass it and both pay.
PaidOnce == \A k \in Claims : paid[k] <= 1

\* However reviews overlap, a submission is paid for at most once per request
\* that can be open at a time, those that have passed the check and are still to
\* pay included: once one has paid, no request that comes later passes it.
Paying(k) == {h \in Handlers : job[h].step \in {"pay", "commit"} /\ job[h].claim = k}
PaidOncePerRequest ==
    \A k \in Claims : paid[k] + Cardinality(Paying(k)) <= Cardinality(Handlers)

\* approveSubmission credits the member once, and exactly when the tracker says
\* approved, whoever reviews and whatever reviews of other submissions overlap.
PaidAtMostOnce ==
    \A k \in Claims : paid[k] <= 1 /\ (paid[k] = 1 <=> tracker[k] = "approved")

\* A reward is committed only out of money the campaign still has: the amount
\* that was read before the transaction still covers it at the commit.
PaidFromFunds ==
    [][\A k \in Claims : paid'[k] > paid[k] => reward[k[1]] <= funds[CampaignOf[k[1]]]]_vars

\* A campaign is created only out of money the brand's wallet still has.
WalletSolvent == \A b \in Brands : wallet[b] >= 0

\* The outcome of a review is final: neither approve nor reject may change it.
ReviewIsFinal ==
    [][\A k \in Claims : tracker[k] \in {"approved", "rejected"} => tracker'[k] = tracker[k]]_vars

\* Once the balances have moved, the ledger entry follows (no event is lost).
LedgerCatchesUp ==
    /\ \A c \in Campaigns : c \in live ~> ledger[c] >= 1
    /\ \A k \in Claims, n \in 1 .. MaxEntries : paid[k] >= n ~> ledger[k] >= n

\* While requests that concern the same thing do not overlap, this module is
\* the abstract Escrow.
Abstract == INSTANCE Escrow
ImplementsEscrow == Abstract!Spec

===============================================================================
