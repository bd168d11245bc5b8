# Verification of the dripp microservices

dripp lets brands run campaigns: a brand funds a campaign out of its wallet, members work on the campaign's
sub tasks, hand in what they did, and are paid out of the campaign when the brand approves it. The repository
is a NestJS monorepo of services that talk over RabbitMQ, each with MongoDB collections of its own
(`src/apps/{auth,brand,wallet,chat,notification}`, plus gateways and a common library in `src/libs/common`).

This directory holds TLA+ models of the code, the TLC configurations that check them, and theorems that TLAPS
checks. `PROJECT.json` lists components, runs, findings, hazards and theorems, and maps every definition to the
source lines it stands for.

Run `tlc -config MCSettlement_apart.cfg MCSettlement` (and so on for the other `.cfg` files), and
`tlapm SettlementProofs.tla`.

## Inventory

What makes the system hard is common to all services. A handler is an `async` function: between any two awaits
other requests run, also in other services. Uniqueness and limits are enforced by reading first and writing
later; unique indexes exist on identities and on user names only, and there are no versions and no filters on
the state that was read. A search that finds nothing throws, so code that catches "not found" also catches every
other error. A promise that nobody awaits and that rejects ends the process, as no service handles unhandled
rejections. Some writes are wrapped in a MongoDB transaction (`mongoose-transaction.ts`), which re-runs its body
on transient errors, and which protects the documents it writes but not what was read before it began. Request
bodies are not validated: what a body carries is stored as it came, signs of amounts are not looked at, and who
asks is compared with what is asked for in few places. Events (`emit`) are delivered at most once; requests
(`send`) have no timeout.

| Component | State | Operations | Interacts with | Hard part | Correct when |
|---|---|---|---|---|---|
| Campaign settlement (`brand/app.service.ts`, `wallet.service.ts`) | campaign `campaign_amount`, sub task `reward_amount`, tracker status, wallet balances, wallet transactions | `createBrandTask`, `updateBrandTask`, `approveSubmission`, `rejectSubmission`; `createCampaign`, `sendAward` | wallet service (RPC before, events during the transaction), notification | stale reads before a transaction, emit inside it, retry, event loss | money is conserved, a submission is reviewed and paid once, a reward is paid out of money the campaign has, ledger agrees with balances |
| Task intake (`auth/users`) | trackers, submissions | `startTask`, `submitTask` | brand service (RPC), settlement (tracker) | find-then-create, a call nobody awaits | one tracker, handed in means stored and comes up for review |
| Crypto deposit (`wallet.service.ts`, `nowpayment/`) | invoice tracker, ledger, wallet | `createCryptoPayment`, `paymentWebhookNotification` | payment provider (webhook), auth | notices that say anything, repeated, reordered and overlapping; stale flag | credited once, flag and credit together, and at last credited |
| Wallet transfers and charges | ledger | `createWallet`, `sendFundToUser`, `createGiftCard`, `createDiscount` | auth, brand, notification | several writes without transaction, a checked field that is no longer stored | a debit is entered only for money that went somewhere |
| Card funding (`wallet/fund`) | ledger, wallet | `directCharge`, `authorize`, `validate`, `verify`, `checkout` | Flutterwave | a search for an earlier entry that finds the wrong ones | what was paid is entered and credited |
| Withdrawal (`wallet/withdraw`) | ledger | `initiateWithdrawal` | Flutterwave | pay first, debit later | a debit is entered only for what was paid out |
| PIN guard (`wallet-pin.guard.ts`) | PIN, attempts, lock | `canActivate`, `createTransactionPin` | transfers | counter compared before it is counted | wrong tries bounded, locked after the attempts announced and not before |
| Registration (`auth/users`) | user, token record, code, account type | `create`, OAuth, `updateChatUuid`, `resendEmail`, `verifyAccount`, `setAccountType` | wallet, chat, brand, notification | saga without compensation, find-then-create | one user per e-mail; success means all records exist; verified by a mailed code |
| Sessions (`auth.service.ts`, guards) | token records | login, `exchangeRefreshToken`, `logout` | every guard | refresh overlapping logout, errors taken for "no record" | a session that ended stays ended |
| Passwords, user names | password, reset token, status | `forgotPassword`, `resetPassword`, `updatePassword`, `updateUsername`, `deactivateAccount` | notification | a write after the answer | a token is spent once; what was answered last counts |
| Membership (`brand`) | members | `addMemberToBrand(s)`, `removeMemberFromBrand` | auth (RPC and event) | find-then-create, a rejection ends the process | one membership per member and brand, as asked for last; a business has a brand |
| Gift cards, discounts (`brand`) | cards, discounts | charge by RPC, then create | wallet | failure between charge and create | no card without its charge |
| Chat | presence, rooms, messages, archive lists | connect, disconnect, `createMessage`, `markMessage(s)AsRead`, archive | gateway sockets | handlers nobody awaits, lost updates | nothing waits for an online user; read stays read; lists as asked |
| Notification | notifications | event handlers | mail | none: one write per event | - |
| Posts, payment cards, mail templates | documents | create, update, delete | - | none: one document | - |
| Queries, search, metrics | - | aggregations | - | none: no state | - |
| Common library | - | repositories, transaction helper | MongoDB, RabbitMQ | retry, not-found as exception | modelled where it is used |
| Upload, mail transport, gateways, seeds, build | - | I/O and configuration | third parties | out of scope | - |

The hazards of each component, at the line where they bite, are in `PROJECT.json`.

## Modules

| Module | What it is |
|---|---|
| `Settlement` | campaigns and reviews in the brand service, with the wallet service's ledger entries |
| `Escrow` | what settlement promises: every operation at once on the current state |
| `MCSettlement` | instances for TLC |
| `SettlementProofs` | theorems for any overlap, and for requests about the same thing that do not overlap |
| `TaskIntake` | starting and submitting in the auth service |
| `ClaimLife` | what intake promises to review; its steps are Settlement's `StartTask` and `SubmitTask` |
| `MCTaskIntake`, `TaskIntakeProofs` | instances, theorems |
| `CryptoDeposit` | invoices and webhook notices in the wallet service |
| `Deposit` | what a customer may expect of a deposit |
| `MCCryptoDeposit`, `CryptoDepositProofs` | instances, theorems |
| `PinGuard` | the PIN of one wallet: its guard, the counter and the lock |
| `FiatWallet` | extends `PinGuard`: transfers behind the guard, gifts with the brand service's side, withdrawals, verified card payments |
| `MCFiatWallet`, `FiatWalletProofs` | instance, theorems of both |
| `Account` | sessions, password, reset token and status of one user in the auth service |
| `MCAccount`, `AccountProofs` | instance, theorems |
| `Registration` | registrations and OAuth logins over the auth, wallet and chat services; verification of e-mails |
| `MCRegistration`, `RegistrationProofs` | instance, theorems |
| `Membership` | account types and subscriptions: the auth service, its event, and the brand service |
| `MCMembership`, `MembershipProofs` | instance, theorems |
| `Chat` | the chat service: presence, rooms, messages, archive lists |
| `MCChat`, `ChatProofs` | instance, theorems |

Three pairs of modules meet in an interface: `ClaimLife` is what `Settlement` assumes of trackers and what
`TaskIntake` is shown to implement; `Registration!Disable` is `Account`'s deactivation; `FiatWallet` composes
`PinGuard` with the transfers it guards.

### How the models correspond to the code

One action is the code between two awaits that another request can get in between. In `Settlement`, `TaskIntake`
and `CryptoDeposit`, where handlers take request after request, `job[h]` is what a request has read so far, and its
`step` the await it is suspended at; in the others each request is sent once, and `step[r]`, `send[m]`, `issue[s]`
and the like say where it is. Reads and calls that nothing the properties tell apart depends on are merged into the
next step. A call that rejects is `Fail`, `Cut` or an action named `Fail...` or `Drop...`: what was written
stays. A variable marked `history` in its declaration does not exist in the code; no guard looks at one.

A MongoDB transaction is two actions, the body and the commit. From body to commit the documents it wrote are
`Held`: another write to one of them has to wait (`Unlocked`), which stands for MongoDB's write conflict. Reads
are not held up, and reads made before the transaction are not repeated in it - that is where the code's races
are. `Retry` takes an open transaction back to before its body with the values read before it, as
`withTransaction` does on a transient error.

**Settlement.** `BeginCreate` covers `createBrandTask` up to the transaction: the rewards are compared with the
amount plus 10% (`WithinCampaign`) and the wallet balance from the RPC with the amount (`WalletCovers`).
`LaunchBody` is the transaction callback with the debit, the sub tasks and the emit of `create_campaign`;
`LaunchCommit` makes it visible. `UpdateRead`/`UpdateWrite` are `updateBrandTask`; a `form` body is text, so the
addition puts two texts together (`ToppedUp`); nothing is debited for an update. `ApproveRead`, `ApproveCheck`,
`ApproveBody`, `ApproveCommit` are `approveSubmission`; `RejectRead`, `RejectWrite` are `rejectSubmission`.
`RecordEntry` is `createCampaign` or `sendAward` taking an event off the queue, `LoseEntry` an event lost by
at-most-once delivery. `paid` is a history variable. One reward currency is modelled. `Reviewable` is all that the
two reviews ask of a request: the account is not a user's and there is a tracker. Neither compares the campaign's
brand with that of the caller, so any handler may review any submission. Amounts are integers of either sign, as no
request is checked for it (`WithinCampaign` refuses a negative amount only when the rewards are larger still).

**TaskIntake.** `StartRead`/`StartWrite` are the two halves of `startTask`. `SubmitCheck` is `submitTask` up to
the write. Two of its tests never refuse and are therefore no guards: the end date is text and is compared with a
`Date`, so work is accepted for a campaign that is over; the search for an earlier submission names the field
`task_uuid`, which submissions do not have, so a member may hand in twice. `StoreSubmission` stores,
calls the callback and answers; the callback is counted in `marks`, and `MarkSubmitted` or `MarkRejects` settle
it later. No handler for unhandled rejections exists in the repository, so `MarkRejects` ends the process
(`up = FALSE`) and every request in it. A write that was already sent may still take effect (`StartWrite`,
`StoreSubmission`, `MarkSubmitted` do not require `up`) or be lost (`Drop`, `DropMark`). The compose file has no
restart policy; `Restart` is somebody starting the service again.

**CryptoDeposit.** `CreateCryptoPayment` opens the invoice and its tracker. The webhook is a route without guard and
the comparison of the notice's signature is commented out, so `Receive` and `Dismiss` take any notice of an invoice
that has a tracker (`Found`), with any status and any amount, at any time. `Receive` is `findPayment`, where the
flag is read; `Body` and `Commit` are the transaction. `Dismiss` answers the statuses the handler does nothing for.
`Progress` is the provider, which matters only for what must eventually happen: it moves a payment on, and `Notice(i)`
is what it repeats until `answered`. A notice that names another customer than the invoice's matches no tracker in
the update, so its transaction aborts (`Fail`). `credited` is a history variable. The conversion to USDT and the
amounts of ledger entries are left out. What a credit is worth is therefore what the notice says, and no property
claims that it came in.

**PinGuard.** A wallet's PIN is empty until `ChoosePin`/`StorePin` (`createTransactionPin`, which refuses a second
PIN by a read before the write). `TryPin(h, p)` is `canActivate` up to its first write: it reads the wallet,
compares, and decides between `Count`, `Lock`, `Reset` and letting the request pass. The bcrypt comparison is
synchronous, so nothing runs between the read and the decision; other requests do run before the write. Nothing
in the code clears the lock, though the guard's message speaks of a reset of the PIN; there is no action for it.
No route calls `createTransactionPin` at this commit, so the guard's behaviour with a chosen PIN is that of the
service behind its routes: with these routes alone every wallet keeps the empty PIN.

**FiatWallet.** The wallet's schema replaced the single balance `amount_in_fiat` by a list of balances. Transfers,
gifts and withdrawals still read and write the old field: their checks compare with `undefined` and never refuse,
and their writes are dropped by the schema. So the model has no balance for them; what they leave behind, and what
the properties are about, are entries of the `ledger`. `BeginTransfer` to `EnterDebit` are `sendFundToUser`;
`BeginGift`, the two entries and `CreateCard` are a gift card or discount, whose charge runs in the wallet service
and whose creation in the brand service waits for its answer. `BeginWithdrawal`, `PayOut`, `EnterDebit` are
`initiateWithdrawal`. `BeginVerify`, `EnterTopUp`, `RaiseBalance` are `directChargeVerifyFund`: the earlier entry
it searches for has a field no entry has, so with a transaction id (`keyed`) it is never found, and without one
any entry of the wallet is (`EarlierEntry`). `Cut` ends a request at any await, also when an answer is lost.

**Account.** One user. A session is the pair of tokens a login or refresh issues, and has the identity of that
request; two pairs issued in one second are taken to differ. `first` is the token record that `findOne` finds,
`others` later ones, which the guards accept as well but no update reaches. `StoreTokens` is
`updateRefreshToken`; `StoreRejects`, `CreateRecord` are its `catch`, which takes every error for a missing
record. `LogoutGuard` and `LogoutWrite` stand apart, as the guard's read and the write of `logout` do.
`ResetRead` answers success; `ResetWrite` or `ResetRejects` settle the write nobody awaits, and the latter ends
the process with every request in it. A reset that names no token looks for a user without one
(`ResetReadTokenless`), and its write sets the password of the first it meets, this user's (`ResetWrite`) or
another's (`ResetElsewhere`). `Refresh` does not look at the status of the user, `Login` and the guards do.
`CloseRead`/`CloseWrite` are `deactivateAccount`.

**Registration.** An arrival is a registration or an OAuth login and has the identity of the user it creates. Its
actions are the awaits of `create` and of `authenticateGoogle`, which the other two providers' handlers repeat:
the e-mail and name checks, the user, the token record, the code, the wallet service's `MakeWallet`, the chat
service's `MakeChat`, and `Attach`. A failed check lets the arrival go on; a deactivated user makes an OAuth login
throw inside the `try` whose `catch` creates users (`BeginOAuth`). The unique index on user names is
`NameTaken`. `code` is what `findOne` finds for an e-mail, the first record. `Disable` is `Account`'s
deactivation. The body of a registration is spread into the document, so a user may be created verified
(`CreateUser`), and `updateUser` writes `email_verified` from its body (`UpdateUser`); the history `declared` holds
the users to whom either happened.

**Membership.** Users start with any type and any brand, as a registration's body may carry both, and
`UpdateUser` writes the brand its body names; `declared` holds those whose type or brand is what a body last
said. `PickRead`, `MakeBrand`, `SetType` are `setAccountType` with the brand service's `createBrand`.
`JoinCheck`, `JoinCreate` are `subscribeChannel` with `addMemberToBrand`; `Leave` is `removeMemberFromBrand`,
one delete. `EmitFollow` is the event of `updateUser`, `TakeFollow` its arrival, and `FollowCheck`,
`FollowCreate` one round of the loop of `addMemberToBrands`. The event's handler does not return the promise, so
`FollowRejects` - a brand the user follows already, or a failed write - ends the brand process. `members` counts
documents, so that a second one shows.

**Chat.** A socket slot is a device of its `Owner`. `Connect`, `StatusOn`, `Flush` are `handleConnection`; `Drop`,
`StatusOff` are `handleDisconnection`; each runs by itself, so that the disconnect of one socket and the connect
of the next overlap. `Reject` is a rejection of either, among them that of a user without a chat document (a
guest): the process ends, the documents stay as they are. `FindRoom` to `SetLast` are `createMessage`, await by
await; a room has the identity of the message it was made for. A user may write to himself; the search for a room
(`$all` with one user twice) then finds any room of his. `MarkRoomRead`, `MarkOneRead` are the two events
that read; `TidyRead`, `TidyWrite` archive or unarchive with the list read before.

## Runs

`settlement`, `intake`, `deposit` and `chat` runs check for deadlock: their systems always go on. In `wallet`,
`account`, `registration` and `membership` each request is sent once, and the system stops when all have ended.

| Run | Question | What holds |
|---|---|---|
| `settlement_apart` | two brands, any of which may review any submission; requests overlap that do not concern the same submission, campaign or wallet; failing anywhere, events lost, amounts of updates negative or text | a submission is paid at most once and iff approved; a reward comes out of money its campaign has; no wallet overdrawn; reviews final; implements `Escrow` |
| `settlement_overlap` | overlapping requests of one brand, failures and retried transactions | money is conserved; what was paid never looks reviewable again; a submission is paid at most once per request open at a time; each movement reaches the ledger |
| `intake_apart` | two members whose requests overlap, but for two `startTask` for the same work; they may hand in twice and at once; failures, restarts | one tracker; implements `ClaimLife` |
| `intake_overlap` | overlapping requests of one member, a database that does not fail | nothing comes up unstored; trackers are bounded by the requests open at a time; the process ends only for a submission no tracker stands for; while it runs, what was handed in comes up for review |
| `deposit_apart` | two invoices of one customer whose notices, whatever they say, are handled one at a time for each invoice; every fault | credited at most once, one ledger entry, one customer (`Deposit`) |
| `deposit_overlap` | overlapping notices, faults that stop | the paid flag is set exactly for credited invoices; credits and entries are bounded by the requests open at a time; a finished payment is credited |
| `wallet` | two transfers with right and wrong PINs at once, a gift, a withdrawal, a card payment, each cut off anywhere | wrong tries are bounded and the lock is earned; a debit is covered, a card charged, a payment entered |
| `account` | two sessions with refreshes and logouts, two reset tokens and two resets with one of them or none, a change of password, deactivation; failures, restarts | ended sessions stay ended; a reset token sets one password; the process ends only for contested tokens; the password answered last counts |
| `registration` | two registrations and two OAuth logins, with one e-mail or two, failing at any call; deactivation, resent codes, bodies that say `email_verified` | one user per e-mail unless raced; success means complete; verified means by a mailed code of its own, unless a body said so |
| `membership` | users registered with any type and brand; a type chosen twice, a brand written by an update, two lists of brands, subscribing and leaving, at once; failures, restarts | a business has a brand that was created, unless a body said otherwise since; a subscription is as asked for last |
| `chat` | two messages, one possibly to a guest or to its own sender, over connects, reads, archiving; rejections, restarts | nothing waits for a user shown online; read stays read; presence is connection; rooms fit; lists are as asked |

`settlement_double_pay` is a run that TLC is expected to refute, with a finding in `PROJECT.json` that quotes the
line of the repository which says otherwise: two overlapping approvals of a submission both pay.

Several properties have an exception in their statement (`raced`, `astray`, `contested`, `mixed`, `muddled`,
`crossed`, `declared`). Each is a history variable that is set exactly when requests meet in the order that the
code's reads and writes do not guard against, or, for `declared`, when a body was stored that says what the code
else works out. Such a property does not show that the hazard is met: it shows that nothing else leads to the
same harm. Where that is all there is, the hazard in `PROJECT.json` names no property and its note says so. In
the same way `PaidAtMostOnce`, `PaidFromFunds`, `WalletSolvent`, `ReviewIsFinal`, `OneTrackerPerClaim`,
`CreditedAtMostOnce` and `OneEntryPerInvoice` fail when requests about the same thing overlap. The runs check
them in the behaviours in which those requests happen to be *apart* (`ApartSpec`: `[Next /\ Apart']_vars`, where
everything else overlaps); for what overlap can do, `PaidOncePerRequest`, `TrackersPerRequest` and
`CreditedOncePerRequest` give the bound that the code does have. `MoneyConserved` is stated without
`updateBrandTask` (`TopUps = {}`), which debits nothing. That every event has a committed movement is not
claimed: the event of a transaction that is aborted was emitted already.

### Bounds

- *Settlement*: two campaigns, one or two sub tasks, one or two members, two handlers; every race needs two requests.
  Brands start with 30. A campaign of 40 is refused and one of 10 is not; a reward of 11 passes the 10% check on
  a campaign of 10 and cannot be paid from it, a reward of 5 can. `MaxAmount` bounds what an update writes: with
  20, a form update takes a campaign that has paid 5 out from 5 to "1" and "5". `MaxEntries` bounds the events of
  one movement: 2 lets a retried or failed transaction emit twice.
- *TaskIntake*: two handlers, one or two sub tasks, `MaxSubmissions` = 2, the least at which a duplicate occurs.
- *CryptoDeposit*: two invoices of one wallet, so that two transactions meet in one document; two handlers, so
  that two notices overlap. A notice may carry any status and one of two
  amounts, in `deposit_apart` a negative one among them; there `Part` is `Full`, as the amounts make no difference
  to what is checked.
- *PinGuard*, *FiatWallet*: two transfers of one wallet, so that one reads a counter the other is about to write;
  each may try as often as the guard lets it. `PinTries` is 3 where the code has 5: the least with a count between
  the first try and the lock. One gift, withdrawal and verification: they meet in the ledger only, where each
  entry names its request.
- *Account*: one user, as no operation touches another's documents; two sessions, two tokens and two resets, so
  that each can replace the other or use the other's; one change of password. Other users appear only as the one a
  reset without a token may meet.
- *Registration*: two registrations and an OAuth login with one e-mail, so that a code can be another user's; an
  OAuth login with another e-mail and the user name of the first registration; one resent code.
- *Membership*: one user, as no operation touches another's; two brands in lists of opposite order, so that two
  loops meet in both; two choices of a type, two direct subscriptions. The brand of a body is that of one of the two
  choices, made or not yet made, or none.
- *Chat*: three users, of whom one has no chat document; a message one way, and one back, to the guest or to its
  own sender; one socket slot that comes and goes and whose handlers overlap with themselves. Two archive
  requests at once need two users. About 1.5 million states.

### Fairness

- `Settlement!FairSpec`: weak fairness of `RecordEntry`: the wallet service consumes its queue. Brand requests
  get no fairness; a brand need not finish anything for the ledger to catch up.
- `CryptoDeposit!FairSpec`: weak fairness of `Commit` and strong fairness of `Body` (which waits while another
  transaction holds a document, and MongoDB lets a waiting writer in): the event loop goes on with a request.
  Strong fairness of delivering a notice that has not been answered (`Redeliver`): the provider repeats it.
  Failures may occur, but the property is premised on their stopping (`FaultsStop`); nothing in the code bounds
  them.
- `TaskIntake!FairSpec`: weak fairness of settling an un-awaited call: the driver resolves or rejects it.

## Proofs

For every value of the constants, under the modules' named assumptions:

| Module | Theorem | States |
|---|---|---|
| `SettlementProofs` | `TypeCorrect` | `TypeOK` |
| *any overlap* | `PaidOnlyIfReviewed`, `PaysOncePerRequest` | `PaidIsReviewed`, `PaidOncePerRequest` |
| | `MoneyOnlyMoves`, `MoneyIsConserved` | only the write of `updateBrandTask` changes the sum of all money; `MoneyConserved` |
| | `EveryMoveIsEmitted`, `EachEntryIsAMove` | no movement without its event; no event without its movement while nothing fails |
| *apart* | `PaysOnceIfApart`, `OutcomeIsFinalIfApart` | `PaidAtMostOnce`, `ReviewIsFinal`, from `[]ReviewsApart` |
| | `PaidFromFundsIfApart`, `WalletsSolventIfApart` | `PaidFromFunds` from `[]SpendsApart`, `WalletSolvent` from `[]CreatesApart` |
| | `RefinementIfApart` | implements `Escrow`, from all three |
| `CryptoDepositProofs` | `TypeCorrect`, `FlagIsCredit` | types; the flag is the credit |
| *any overlap* | `CreditsOncePerHandler` | `CreditedOncePerRequest` |
| *apart* | `CreditsOnceIfApart`, `BooksOnceIfApart`, `RefinementIfApart` | one credit, one entry, implements `Deposit`, from `[]NoticesApart` |
| `TaskIntakeProofs` | `TypeCorrect`, `StoredFirst`, `StopsForStray` | for any overlap |
| | `StartsOncePerRequest` | `TrackersPerRequest` |
| *apart* | `StartsOnceIfApart`, `RefinementIfApart` | one tracker, implements `ClaimLife`, from `[]StartsApart` |
| `FiatWalletProofs` | `FiatTypeCorrect`, `GuessesAreBounded`, `LockEarned` | types; the guard, for any number of tries and requests |
| | `DebitsAreCovered`, `CardsAreCharged`, `PaymentsAreEntered` | the ledger, wherever requests are cut off |
| `AccountProofs` | `AccountTypeCorrect`, `EndedSessionsStayEnded` | types; sessions |
| | `TokensAreSpentOnce`, `OnlyContestsStop`, `LatestCounts` | passwords |
| `RegistrationProofs` | `RegistrationTypeCorrect`, `EmailsAreUnique`, `AnswersAreComplete`, `VerificationIsMailed` | all of its properties |
| `MembershipProofs` | `MembershipTypeCorrect`, `BusinessHasItsBrand`, `SubscriptionsAreAsAsked` | all of its properties |
| `ChatProofs` | `ChatTypeCorrect`, `RoomsFit`, `ReadStays`, `PresenceFollowsConnection`, `NothingIsLeftSent`, `ArchivesAreAsAsked` | all of its properties |

Types are proved and therefore not checked by a run. Three modules assume that what is summed or counted is finite
(`FiniteAssumption`): brands, members, campaigns and handlers of `Settlement`, handlers of the other two.

`Settlement`, `CryptoDeposit` and `TaskIntake` have properties that fail when requests overlap. Their theorems
are of two strengths. *Any overlap*: what holds whatever the code does at once. *Apart*: what holds in every
behaviour in which requests about the same thing do not overlap - a condition on states, which says exactly
which requests the code would have to keep apart: two reviews of one submission (`ReviewsApart`), two payments
out of or updates of one campaign (`SpendsApart`), two creations by one brand (`CreatesApart`), two notices of
one invoice (`NoticesApart`), two `startTask` for one claim (`StartsApart`). Everything else may overlap: a
brand may review two submissions while it creates a campaign, a member may submit twice at once. The runs of the
*apart* properties check `ApartSpec`, which implies both `Spec` and `[]Apart` (`ApartSpecIsApart` in each
module), so what they show is an instance of what the theorems say. `settlement_apart` writes it as `Spec` under
the action constraint `StaysApart`, which has the same behaviours and lets TLC report each action by its name.
The theorems of the other modules assume nothing of how requests overlap.

The arguments:

- *Any overlap.* A paid claim stays reviewed because a commit writes `approved` and holds the tracker from the
  body on (`UnderReview`: a claim in a review was handed in). The flag is the credit because a commit that
  finds a ledger entry still has one (`EntryKnown`). In `TaskIntake` the inductive invariant counts calls under
  way as well: trackers submitted plus calls that will submit one are no more than submissions.
- *How bad an overlap can be.* A request pays only if it found the submission pending, and after the first
  payment it is not pending again; so all requests that pay it were under way together. `PayingInv` says it:
  payments made plus requests about to pay are no more than the handlers there are, whoever's requests they
  serve. Each commit takes one handler out of a finite set and adds one payment. The invariants for credits,
  entries and trackers are of the same form.
- *Money.* `Money` sums with the library's `MapThenSumSet`. What the sum is of a set with one element more is proved
  first; that a sum changes by what one element changes (`TotalOfChange`) follows by looking at a least set for
  which it fails (`MinimalMember`), instead of by an induction theorem. `FundsInv` says what requests and open
  transactions hold, and `MoneyStep` takes the actions in turn: a commit takes from a wallet what it puts in a
  campaign, or the other way round.
- *Apart.* None of the at-most-once, solvency and finality properties is inductive: they hold because a handler still
  *knows* what it has read. `ReviewInv`, `SpendInv`, `DraftInv` (and `CreditInv`, `StartInv`) say for each
  step which of the values it read are still so: the tracker is pending, the campaign has at least the
  reward, the wallet at least the amount, the flag is the flag, there is no tracker yet. Steps of other handlers
  keep it because what they write concerns another submission, campaign, brand, invoice or claim.
- *Refinement.* Init maps to Init; a commit (in `TaskIntake`, a write) maps to the abstract operation, whose
  guard is what the handler knows; every other step stutters.
- *Settlement's ledger.* `Emitted` counts the entries of a movement in the queue and in the ledger, `Moved` the
  movements committed, `Owed` the transactions that have emitted and not committed. Without loss movements plus `Owed`
  are no more than entries (a retry or failure adds entries only), and without faults they are equal.
- *PIN.* `PinInv` counts the requests between comparison and write (`At(gate, "count")`, `At(gate, "lock")`):
  while the wallet is not locked, wrong tries answered are the stored counter, and the counter with the counts
  still to come is bounded. From a lock on, only those already compared are answered, which gives the two more
  for each overlapping request. The lemmas on cardinality rest on the library's theorems about finite sets.
- *Ledger.* `LedgerInv` says what has been entered when a request stands at an await.
- *Sessions.* `SessionInv`: a pair is stored once, so an ended one comes back only from a second record; of those
  there is none while at most one request is between "no record" and its creation.
- *Passwords.* `TokenInv`: a stored reset token was never spent; a reset without a token spends none.
  `ContestInv`, `LatestInv`: uncontested, one write is under way and its token is the stored one; unmixed, the
  write under way is the one answered last.
- *Registration.* `StepInv` ties the await to the documents that exist; on it `EmailInv` (between check and write
  an arrival sees no user and no other arrival with its e-mail, or the e-mail is raced), `CompleteInv`, `CodeInv` and
  `MailInv` (a mailed code is a resent one or that of a user). Users to whom a body said `email_verified` are left
  out of it.
- *Membership.* A brand is made before the write that names it (`PickInv`). Of a subscription not `crossed` one
  request of either kind stands between search and write, and then there is no document (`Sole`).
- *Chat.* `RoomInv` follows a message through its awaits; `PresenceInv` says that of a user who is not muddled one
  handler runs and what it knows of the connections; `DeliveryInv` says that past its look at the status a message
  is not left `SENT` with an online receiver, because it was stored before the look and the status is set before
  the delivery; `ArchiveInv` says what an uncrossed request will write.

Only model-checked: `LedgerCatchesUp`, `FinishedIsCredited` and `HandedInIsMarked` are liveness under fairness,
beyond the prover; `EveryMoveIsEmitted` is the part of the first that is safety. Every invariant and action
property of a passing run is stated by a theorem.

## Not modelled

The components listed in `PROJECT.json` as `not_modelled`, with the reason. Most of the repository's lines are
data (`auth/src/assets/countries.ts`, seeds), aggregations that change nothing, request formats and modules of
declarations. Within the modelled components:

- other reward currencies, wording and content of documents, mail and notifications (nothing reads them back),
  ledger amounts, currency conversion, the checks of request formats;
- the balance of transfers, gifts and withdrawals, which the code no longer stores;
- the Flutterwave operations before verification, which write nothing but a transaction id, and repeated
  verification of one payment (each verification is taken for a payment of its own);
- fields that a body carries though its type does not declare them, other than `email_verified`, `account_type`
  and `brand_uuid`: `createUser`, `updateUser`, `createBrandTask` and `updateBrandTask` spread the body into the
  document, so `status`, `wallet_uuid`, `chat_uuid`, `username`, a reset token or the brand of a campaign could be
  written as well. The models take bodies to carry the fields of their types and the three named;
- the signature of deposit notices, which the code does not compare: notices are of any content here, and no
  property rests on where they come from;
- `updateUsername`, a single write that the unique index guards;
- expiry: access tokens expire by themselves, the stored expiry of verification codes is never compared;
- two devices of one user in the `chat` run. The proofs cover any number; with two, the status of a user whose
  connects and disconnects overlap is claimed by no property (`muddled`).

## Plan

1. An abstract specification of `Chat`: a conversation as a sequence of messages whose status only advances,
   which `createMessage` implements apart from its late `DELIVERED`; one of `PinGuard`: a budget of tries.
2. Conditions on overlap, as for settlement, in place of the history variables `raced`, `mixed` and
   `crossed`: the theorems of `Account`, `Registration`, `Membership` and `Chat` would then say which requests to
   keep apart, and the histories would be what the conditions make empty.
3. A composition of `TaskIntake` and `Settlement` over one tracker state, to check that rejection, payment and a
   late second submission agree beyond what `ClaimLife` says.
4. `checkout` and its session, with the provider's redirects repeated; user names that change.
