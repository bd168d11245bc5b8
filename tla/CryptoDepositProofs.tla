-------------------------- MODULE CryptoDepositProofs -------------------------
(***************************************************************************)
(* Theorems about CryptoDeposit, for any number of customers, invoices and *)
(* handlers: first what holds however notices overlap, then what holds     *)
(* while no two notices of one invoice are handled at the same time.       *)
(***************************************************************************)
EXTENDS CryptoDeposit, FiniteSetTheorems, TLAPS

FoundJobs == [step: {"found"}, notice: Notices, flag: BOOLEAN]
CommitJobs == [step: {"commit"}, notice: Notices, flag: BOOLEAN, new: BOOLEAN]

\* What the step of a handler says about the fields of its job.
LEMMA JobFields ==
    ASSUME NEW j \in Jobs
    PROVE  /\ j.step = "idle" <=> j = Idle
           /\ j.step = "found" => j \in FoundJobs
           /\ j.step = "commit" => j \in CommitJobs
BY DEF Jobs, Idle, FoundJobs, CommitJobs

-------------------------------------------------------------------------------
(* Type correctness *)

LEMMA TypeStep == TypeOK /\ [Next]_vars => TypeOK'
<1> SUFFICES ASSUME TypeOK, [Next]_vars
             PROVE  TypeOK'
    OBVIOUS
<1> USE DepositAssumption DEF TypeOK
<1>1. ASSUME NEW i \in Invoices, CreateCryptoPayment(i)
      PROVE  TypeOK'
    BY <1>1 DEF CreateCryptoPayment, PaymentStatus
<1>2. ASSUME NEW i \in Invoices, NEW s \in PaymentStatus, Progress(i, s)
      PROVE  TypeOK'
    BY <1>2 DEF Progress
<1>3. ASSUME NEW n \in Notices, Dismiss(n)
      PROVE  TypeOK'
    BY <1>3 DEF Dismiss, Answer
<1>4. ASSUME NEW h \in Handlers, NEW n \in Notices, Receive(h, n)
      PROVE  TypeOK'
    BY <1>4 DEF Receive, Jobs
<1>5. ASSUME NEW h \in Handlers, Body(h)
      PROVE  TypeOK'
    <2>1. job[h] \in FoundJobs
        BY <1>5, JobFields DEF Body, Active
    <2>2. [step |-> "commit", notice |-> job[h].notice, flag |-> job[h].flag,
           new |-> entries[job[h].notice[1]] = 0] \in Jobs
        BY <2>1 DEF FoundJobs, Jobs
    <2> QED
        BY <1>5, <2>2 DEF Body
<1>6. ASSUME NEW h \in Handlers, Commit(h)
      PROVE  TypeOK'
    <2> DEFINE i == job[h].notice[1]
    <2>1. job[h] \in CommitJobs
        BY <1>6, JobFields DEF Commit, Active
    <2>2. /\ job[h].notice \in Notices /\ i \in Invoices /\ Payer[i] \in Users
          /\ job[h].notice[3] \in Int
        BY <2>1 DEF CommitJobs, Notices
    <2>3. job' = [job EXCEPT ![h] = Idle] /\ Idle \in Jobs
        BY <1>6 DEF Commit, Finish, Jobs
    <2>4. /\ entries' = [entries EXCEPT ![i] = IF job[h].new THEN @ + 1 ELSE @]
          /\ answered' \in SUBSET Invoices
          /\ UNCHANGED status
        BY <1>6 DEF Commit, Answer
    <2>5. CASE Credits(job[h])
        <3>1. /\ wallet' = [wallet EXCEPT ![Payer[i]] = @ + job[h].notice[3]]
              /\ tracker' = [tracker EXCEPT ![i] = "paid"]
              /\ credited' = [credited EXCEPT ![i] = @ + 1]
            BY <1>6, <2>5 DEF Commit
        <3> QED
            BY <2>2, <2>3, <2>4, <3>1
    <2>6. CASE ~Credits(job[h])
        <3>1. UNCHANGED <<wallet, tracker, credited>>
            BY <1>6, <2>6 DEF Commit
        <3> QED
            BY <2>2, <2>3, <2>4, <3>1
    <2> QED
        BY <2>5, <2>6
<1>7. ASSUME NEW h \in Handlers, Fail(h) \/ Retry(h)
      PROVE  TypeOK'
    <2>1. CASE Fail(h)
        BY <2>1 DEF Fail, Finish, Jobs
    <2>2. CASE Retry(h)
        <3>1. job[h] \in CommitJobs
            BY <2>2, JobFields DEF Retry, Active
        <3>2. [step |-> "found", notice |-> job[h].notice, flag |-> job[h].flag] \in Jobs
            BY <3>1 DEF CommitJobs, Jobs
        <3> QED
            BY <2>2, <3>2 DEF Retry
    <2> QED
        BY <1>7, <2>1, <2>2
<1>8. CASE UNCHANGED vars
    BY <1>8 DEF vars
<1> QED
    BY <1>1, <1>2, <1>3, <1>4, <1>5, <1>6, <1>7, <1>8
       DEF Next, ProviderStep, HandlerStep

\* Every variable keeps its type: counts are natural numbers.
THEOREM TypeCorrect == Spec => []TypeOK
<1>1. Init => TypeOK
    BY DEF Init, TypeOK, Jobs
<1> QED
    BY <1>1, TypeStep, PTL DEF Spec

-------------------------------------------------------------------------------
(* Any overlap: the paid flag is the credit *)

\* A body that found a ledger entry was right: entries are never removed.
EntryKnown ==
    \A h \in Handlers :
        job[h].step = "commit" /\ ~job[h].new => entries[job[h].notice[1]] > 0

FlagInv == TypeOK /\ EntryKnown /\ FlaggedIsCredited

LEMMA FlagStep == FlagInv /\ [Next]_vars => FlagInv'
<1> SUFFICES ASSUME FlagInv, [Next]_vars
             PROVE  FlagInv'
    OBVIOUS
<1>0. TypeOK /\ TypeOK'
    BY TypeStep DEF FlagInv
<1> USE DepositAssumption DEF FlagInv
<1>1. ASSUME NEW i \in Invoices, CreateCryptoPayment(i)
      PROVE  FlagInv'
    BY <1>0, <1>1 DEF CreateCryptoPayment, TypeOK, EntryKnown, FlaggedIsCredited
<1>2. ASSUME NEW i \in Invoices, NEW s \in PaymentStatus, Progress(i, s)
      PROVE  FlagInv'
    BY <1>0, <1>2 DEF Progress, EntryKnown, FlaggedIsCredited
<1>3. ASSUME NEW n \in Notices, Dismiss(n)
      PROVE  FlagInv'
    BY <1>0, <1>3 DEF Dismiss, EntryKnown, FlaggedIsCredited
<1>4. ASSUME NEW h \in Handlers, \/ \E n \in Notices : Receive(h, n)
                                 \/ Body(h) \/ Fail(h) \/ Retry(h)
      PROVE  FlagInv'
    <2>1. UNCHANGED <<entries, tracker, credited>>
        BY <1>4 DEF Receive, Body, Fail, Retry
    <2>2. \A g \in Handlers \ {h} : job'[g] = job[g]
        BY <1>0, <1>4 DEF Receive, Body, Fail, Finish, Retry, TypeOK
    <2>3. job'[h].step = "commit" /\ ~job'[h].new => entries[job'[h].notice[1]] > 0
        <3>1. CASE Body(h)
            <4>1. job[h] \in FoundJobs
                BY <1>0, <3>1, JobFields DEF Body, Active, TypeOK
            <4>2. job[h].notice[1] \in Invoices
                BY <4>1 DEF FoundJobs, Notices
            <4>3. /\ job'[h].notice = job[h].notice
                  /\ job'[h].new <=> entries[job[h].notice[1]] = 0
                BY <1>0, <3>1 DEF Body, TypeOK
            <4>4. entries[job[h].notice[1]] \in Nat
                BY <1>0, <4>2 DEF TypeOK
            <4> QED
                BY <4>3, <4>4
        <3>2. CASE (\E n \in Notices : Receive(h, n)) \/ Fail(h) \/ Retry(h)
            <4>1. job'[h].step \in {"found", "idle"}
                BY <1>0, <3>2 DEF Receive, Fail, Finish, Retry, Idle, TypeOK
            <4> QED
                BY <4>1
        <3> QED
            BY <1>4, <3>1, <3>2
    <2> QED
        BY <1>0, <2>1, <2>2, <2>3 DEF EntryKnown, FlaggedIsCredited
<1>5. ASSUME NEW h \in Handlers, Commit(h)
      PROVE  FlagInv'
    <2> DEFINE i == job[h].notice[1]
    <2>1. job[h] \in CommitJobs /\ job[h].step = "commit"
        BY <1>0, <1>5, JobFields DEF Commit, Active, TypeOK
    <2>2. i \in Invoices
        BY <2>1 DEF CommitJobs, Notices
    <2>3. /\ job' = [job EXCEPT ![h] = Idle]
          /\ entries' = [entries EXCEPT ![i] = IF job[h].new THEN @ + 1 ELSE @]
        BY <1>5 DEF Commit, Finish
    <2>4. entries'[i] > 0 /\ \A k \in Invoices : entries[k] > 0 => entries'[k] > 0
        <3>1. job[h].new \/ entries[i] > 0
            BY <2>1 DEF EntryKnown
        <3> QED
            BY <1>0, <2>2, <2>3, <3>1 DEF TypeOK
    <2>5. EntryKnown'
        <3> SUFFICES ASSUME NEW g \in Handlers, job'[g].step = "commit", ~job'[g].new
                     PROVE  entries'[job'[g].notice[1]] > 0
            BY DEF EntryKnown
        <3>1. g # h /\ job'[g] = job[g]
            BY <1>0, <2>3 DEF TypeOK, Idle
        <3>2. job[g] \in CommitJobs
            BY <1>0, <3>1, JobFields DEF TypeOK
        <3>3. job[g].notice[1] \in Invoices
            BY <3>2 DEF CommitJobs, Notices
        <3> QED
            BY <2>4, <3>1, <3>3 DEF EntryKnown
    <2>6. CASE Credits(job[h])
        <3>1. /\ tracker' = [tracker EXCEPT ![i] = "paid"]
              /\ credited' = [credited EXCEPT ![i] = @ + 1]
            BY <1>5, <2>6 DEF Commit
        <3>2. FlaggedIsCredited'
            BY <1>0, <2>2, <2>4, <3>1 DEF TypeOK, FlaggedIsCredited
        <3> QED
            BY <1>0, <2>5, <3>2
    <2>7. CASE ~Credits(job[h])
        <3>1. UNCHANGED <<tracker, credited>>
            BY <1>5, <2>7 DEF Commit
        <3>2. FlaggedIsCredited'
            BY <2>4, <3>1 DEF FlaggedIsCredited
        <3> QED
            BY <1>0, <2>5, <3>2
    <2> QED
        BY <2>6, <2>7
<1>6. CASE UNCHANGED vars
    BY <1>0, <1>6 DEF vars, EntryKnown, FlaggedIsCredited
<1> QED
    BY <1>1, <1>2, <1>3, <1>4, <1>5, <1>6 DEF Next, ProviderStep, HandlerStep

LEMMA FlagInvariant == Spec => []FlagInv
<1>1. Init => FlagInv
    BY DEF Init, FlagInv, TypeOK, Jobs, Idle, EntryKnown, FlaggedIsCredited
<1> QED
    BY <1>1, FlagStep, PTL DEF Spec

\* Whatever notices overlap, fail or are retried, the paid flag is set exactly
\* for the invoices that were credited, and these have a ledger entry.
THEOREM FlagIsCredit == Spec => []FlaggedIsCredited
<1>1. FlagInv => FlaggedIsCredited
    BY DEF FlagInv
<1> QED
    BY <1>1, FlagInvariant, PTL

-------------------------------------------------------------------------------
(* Any overlap: only what was opened is handled *)

\* What a job is about.
LEMMA JobNotice ==
    ASSUME NEW j \in Jobs, j.step \in {"found", "commit"}
    PROVE  /\ j.notice \in Notices
           /\ j.notice[1] \in Invoices
           /\ j.notice[2] \in PaymentStatus /\ j.notice[3] \in Int
BY JobFields, DepositAssumption DEF FoundJobs, CommitJobs, Notices

\* The steps of a handler write only its own job.
LEMMA OthersRest ==
    ASSUME TypeOK, NEW h \in Handlers, HandlerStep(h), NEW g \in Handlers \ {h}
    PROVE  job'[g] = job[g]
BY DEF HandlerStep, Receive, Body, Commit, Fail, Retry, Finish, TypeOK

\* What a handler does to its job.
LEMMA JobSteps ==
    ASSUME TypeOK, NEW h \in Handlers, HandlerStep(h), job'[h].step \in {"found", "commit"}
    PROVE  /\ UNCHANGED <<tracker, entries, credited>>
           /\ \/ /\ job'[h].step = "found" /\ Found(job'[h].notice)
                 /\ job'[h].flag <=> tracker[job'[h].notice[1]] = "paid"
              \/ /\ job[h].step \in {"found", "commit"}
                 /\ job'[h].notice = job[h].notice /\ (job'[h].flag <=> job[h].flag)
                 /\ job'[h].step = "commit" =>
                        (job'[h].new <=> entries[job[h].notice[1]] = 0)
<1>1. CASE \E n \in Notices : Receive(h, n)
    <2>1. PICK n \in Notices : Receive(h, n)
        BY <1>1
    <2>2. /\ job'[h].step = "found" /\ job'[h].notice = n
          /\ job'[h].flag <=> tracker[n[1]] = "paid"
        BY <2>1 DEF Receive, TypeOK
    <2>3. Found(n) /\ UNCHANGED <<tracker, entries, credited>>
        BY <2>1 DEF Receive
    <2> QED
        BY <2>2, <2>3
<1>2. CASE Body(h)
    BY <1>2 DEF Body, Active, TypeOK
<1>3. CASE Retry(h)
    BY <1>3 DEF Retry, Active, TypeOK
<1>4. ~Commit(h) /\ ~Fail(h)
    BY DEF Commit, Fail, Finish, Idle, TypeOK
<1> QED
    BY <1>1, <1>2, <1>3, <1>4 DEF HandlerStep

\* A handler works on a notice of an invoice that was opened.
Carries(h) == Handling(h) => Found(job[h].notice)

FoundInv == TypeOK /\ \A h \in Handlers : Carries(h)

LEMMA FoundStep == FoundInv /\ [Next]_vars => FoundInv'
<1> SUFFICES ASSUME FoundInv, [Next]_vars, NEW h \in Handlers
             PROVE  Carries(h)'
    BY TypeStep DEF FoundInv
<1>1. ASSUME NEW i \in Invoices, tracker[i] # "none"
      PROVE  tracker'[i] # "none"
    <2>1. \/ UNCHANGED tracker
          \/ \E k \in Invoices : \/ tracker' = [tracker EXCEPT ![k] = "open"]
                                 \/ tracker' = [tracker EXCEPT ![k] = "paid"]
        <3>1. ASSUME NEW g \in Handlers, Commit(g)
              PROVE  \/ UNCHANGED tracker
                     \/ \E k \in Invoices : tracker' = [tracker EXCEPT ![k] = "paid"]
            <4>1. job[g].notice[1] \in Invoices
                BY <3>1, JobNotice DEF FoundInv, TypeOK, Commit, Active
            <4> QED
                BY <3>1, <4>1 DEF Commit
        <3>2. ASSUME NEW k \in Invoices, CreateCryptoPayment(k)
              PROVE  tracker' = [tracker EXCEPT ![k] = "open"]
            BY <3>2 DEF CreateCryptoPayment
        <3> QED
            BY <3>1, <3>2 DEF Next, ProviderStep, Progress, Dismiss, HandlerStep, Receive, Body,
                Fail, Retry, vars
    <2> QED
        BY <1>1, <2>1 DEF FoundInv, TypeOK
<1>2. Handling(h)' => job'[h].notice[1] \in Invoices
    BY TypeStep, JobNotice DEF FoundInv, TypeOK, Handling
<1>3. CASE HandlerStep(h)
    BY <1>1, <1>2, <1>3, JobSteps DEF Carries, Found, Handling, FoundInv
<1>4. CASE ~HandlerStep(h)
    <2>1. job'[h] = job[h]
        BY <1>4, OthersRest
           DEF Next, ProviderStep, CreateCryptoPayment, Progress, Dismiss, vars, FoundInv
    <2> QED
        BY <1>1, <1>2, <2>1 DEF Carries, Found, Handling, FoundInv
<1> QED
    BY <1>3, <1>4

LEMMA FoundInvariant == Spec => []FoundInv
<1>1. Init => FoundInv
    BY DEF Init, FoundInv, TypeOK, Jobs, Idle, Carries, Handling
<1> QED
    BY <1>1, FoundStep, PTL DEF Spec

-------------------------------------------------------------------------------
(***************************************************************************)
(* Any overlap: how bad it gets.  Every handler that is to credit an       *)
(* invoice found it unpaid, so they all found it before the first of them  *)
(* committed; the same goes for those that are to create its ledger entry. *)
(***************************************************************************)

LEMMA HandlersFinite ==
    ASSUME NEW i
    PROVE  /\ IsFiniteSet(Handlers) /\ Cardinality(Handlers) \in Nat
           /\ IsFiniteSet(Unaware(i)) /\ Cardinality(Unaware(i)) \in Nat
           /\ IsFiniteSet(Booking(i)) /\ Cardinality(Booking(i)) \in Nat
BY FiniteAssumption, FS_Subset, FS_CardinalityType DEF Unaware, Booking

\* A count, and the set of handlers about to add to it: either the set does not
\* grow, or nothing was counted yet, or one of the set has added its one.
LEMMA CountFits ==
    ASSUME NEW T, IsFiniteSet(T), NEW P, IsFiniteSet(P), NEW Q \in SUBSET T,
           NEW m \in Nat, NEW n \in Nat, m + Cardinality(P) <= Cardinality(T),
           \/ n = m /\ Q \subseteq P
           \/ n = 0
           \/ n = m + 1 /\ \E h \in P : Q \subseteq P \ {h}
    PROVE  n + Cardinality(Q) <= Cardinality(T)
<1>1. Cardinality(Q) \in Nat /\ Cardinality(P) \in Nat /\ Cardinality(T) \in Nat
    BY FS_Subset, FS_CardinalityType
<1>2. Cardinality(Q) <= Cardinality(T)
    BY FS_Subset
<1>3. CASE n = m /\ Q \subseteq P
    <2>1. Cardinality(Q) <= Cardinality(P)
        BY <1>3, FS_Subset
    <2> QED
        BY <1>1, <1>3, <2>1
<1>4. CASE n = 0
    BY <1>1, <1>2, <1>4
<1>5. CASE n = m + 1 /\ \E h \in P : Q \subseteq P \ {h}
    <2>1. PICK h \in P : Q \subseteq P \ {h}
        BY <1>5
    <2>2. IsFiniteSet(P \ {h}) /\ Cardinality(P \ {h}) = Cardinality(P) - 1
        BY FS_RemoveElement
    <2>3. Cardinality(Q) <= Cardinality(P) - 1
        BY <2>1, <2>2, FS_Subset
    <2> QED
        BY <1>1, <1>5, <2>3
<1> QED
    BY <1>3, <1>4, <1>5

LEMMA UnawareSteps ==
    ASSUME TypeOK, FlaggedIsCredited, [Next]_vars, NEW i \in Invoices
    PROVE  \/ credited'[i] = credited[i] /\ Unaware(i)' \subseteq Unaware(i)
           \/ credited'[i] = 0
           \/ /\ credited'[i] = credited[i] + 1
              /\ \E h \in Unaware(i) : Unaware(i)' \subseteq Unaware(i) \ {h}
<1>1. ASSUME NEW h \in Handlers, Commit(h)
      PROVE  \/ credited'[i] = credited[i] /\ Unaware(i)' \subseteq Unaware(i)
             \/ /\ credited'[i] = credited[i] + 1
                /\ \E g \in Unaware(i) : Unaware(i)' \subseteq Unaware(i) \ {g}
    <2>1. job' = [job EXCEPT ![h] = Idle]
        BY <1>1 DEF Commit, Finish
    <2>2. Unaware(i)' \subseteq Unaware(i) \ {h}
        BY <2>1 DEF Unaware, Handling, Idle, TypeOK
    <2>3. CASE Credits(job[h]) /\ job[h].notice[1] = i
        <3>1. h \in Unaware(i)
            BY <1>1, <2>3 DEF Commit, Active, Credits, Unaware, Handling
        <3> QED
            BY <1>1, <2>2, <2>3, <3>1 DEF Commit, TypeOK
    <2>4. CASE ~(Credits(job[h]) /\ job[h].notice[1] = i)
        BY <1>1, <2>2, <2>4 DEF Commit, TypeOK
    <2> QED
        BY <2>3, <2>4
<1>2. ASSUME NEW h \in Handlers, HandlerStep(h), ~Commit(h)
      PROVE  \/ credited'[i] = credited[i] /\ Unaware(i)' \subseteq Unaware(i)
             \/ credited'[i] = 0
    <2>1. credited' = credited
        BY <1>2 DEF HandlerStep, Receive, Body, Fail, Retry
    <2>2. \A g \in Handlers \ {h} : job'[g] = job[g]
        BY <1>2, OthersRest
    <2>3. h \in Unaware(i)' /\ h \notin Unaware(i) => credited[i] = 0
        BY <1>2, JobSteps DEF Unaware, Handling, FlaggedIsCredited, TypeOK
    <2> QED
        BY <2>1, <2>2, <2>3 DEF Unaware, Handling
<1>3. CASE UNCHANGED <<job, credited>>
    BY <1>3 DEF Unaware, Handling
<1> QED
    BY <1>1, <1>2, <1>3 DEF Next, ProviderStep, CreateCryptoPayment, Progress, Dismiss, vars

LEMMA BookingSteps ==
    ASSUME TypeOK, [Next]_vars, NEW i \in Invoices
    PROVE  \/ entries'[i] = entries[i] /\ Booking(i)' \subseteq Booking(i)
           \/ entries'[i] = 0
           \/ /\ entries'[i] = entries[i] + 1
              /\ \E h \in Booking(i) : Booking(i)' \subseteq Booking(i) \ {h}
<1>1. ASSUME NEW h \in Handlers, Commit(h)
      PROVE  \/ entries'[i] = entries[i] /\ Booking(i)' \subseteq Booking(i)
             \/ /\ entries'[i] = entries[i] + 1
                /\ \E g \in Booking(i) : Booking(i)' \subseteq Booking(i) \ {g}
    <2>1. job' = [job EXCEPT ![h] = Idle]
        BY <1>1 DEF Commit, Finish
    <2>2. Booking(i)' \subseteq Booking(i) \ {h}
        BY <2>1 DEF Booking, Active, Idle, TypeOK
    <2>3. CASE job[h].new /\ job[h].notice[1] = i
        <3>1. h \in Booking(i)
            BY <1>1, <2>3 DEF Commit, Active, Booking
        <3> QED
            BY <1>1, <2>2, <2>3, <3>1 DEF Commit, TypeOK
    <2>4. CASE ~(job[h].new /\ job[h].notice[1] = i)
        BY <1>1, <2>2, <2>4 DEF Commit, TypeOK
    <2> QED
        BY <2>3, <2>4
<1>2. ASSUME NEW h \in Handlers, HandlerStep(h), ~Commit(h)
      PROVE  \/ entries'[i] = entries[i] /\ Booking(i)' \subseteq Booking(i)
             \/ entries'[i] = 0
    <2>1. entries' = entries
        BY <1>2 DEF HandlerStep, Receive, Body, Fail, Retry
    <2>2. \A g \in Handlers \ {h} : job'[g] = job[g]
        BY <1>2, OthersRest
    <2>3. h \in Booking(i)' /\ h \notin Booking(i) => entries[i] = 0
        BY <1>2, JobSteps DEF Booking, Active, TypeOK
    <2> QED
        BY <2>1, <2>2, <2>3 DEF Booking, Active
<1>3. CASE UNCHANGED <<job, entries>>
    BY <1>3 DEF Booking, Active
<1> QED
    BY <1>1, <1>2, <1>3 DEF Next, ProviderStep, CreateCryptoPayment, Progress, Dismiss, vars

FitsInv == FlagInv /\ CreditedOncePerRequest

LEMMA FitsStep == FitsInv /\ [Next]_vars => FitsInv'
<1> SUFFICES ASSUME FitsInv, [Next]_vars, NEW i \in Invoices
             PROVE  /\ credited'[i] + Cardinality(Unaware(i)') <= Cardinality(Handlers)
                    /\ entries'[i] + Cardinality(Booking(i)') <= Cardinality(Handlers)
    BY FlagStep DEF FitsInv, CreditedOncePerRequest
<1>1. TypeOK /\ TypeOK' /\ FlaggedIsCredited
    BY TypeStep DEF FitsInv, FlagInv
<1>2. /\ credited[i] \in Nat /\ credited'[i] \in Nat
      /\ entries[i] \in Nat /\ entries'[i] \in Nat
    BY <1>1 DEF TypeOK
<1>3. /\ IsFiniteSet(Handlers) /\ IsFiniteSet(Unaware(i)) /\ IsFiniteSet(Booking(i))
    BY HandlersFinite
<1>4. Unaware(i)' \in SUBSET Handlers /\ Booking(i)' \in SUBSET Handlers
    BY DEF Unaware, Booking
<1>5. /\ credited[i] + Cardinality(Unaware(i)) <= Cardinality(Handlers)
      /\ entries[i] + Cardinality(Booking(i)) <= Cardinality(Handlers)
    BY DEF FitsInv, CreditedOncePerRequest
<1>6. credited'[i] + Cardinality(Unaware(i)') <= Cardinality(Handlers)
    BY <1>1, <1>2, <1>3, <1>4, <1>5, UnawareSteps, CountFits
<1>7. entries'[i] + Cardinality(Booking(i)') <= Cardinality(Handlers)
    BY <1>1, <1>2, <1>3, <1>4, <1>5, BookingSteps, CountFits
<1> QED
    BY <1>6, <1>7

\* However notices overlap, fail or are retried, an invoice is credited and
\* entered at most once per request that can be open at a time.
THEOREM CreditsOncePerHandler == Spec => []CreditedOncePerRequest
<1>1. Init => CreditedOncePerRequest
    <2> SUFFICES ASSUME Init, NEW i \in Invoices
                 PROVE  /\ credited[i] + Cardinality(Unaware(i)) <= Cardinality(Handlers)
                        /\ entries[i] + Cardinality(Booking(i)) <= Cardinality(Handlers)
        BY DEF CreditedOncePerRequest
    <2>1. Unaware(i) = {} /\ Booking(i) = {} /\ credited[i] = 0 /\ entries[i] = 0
        BY DEF Init, Unaware, Booking, Handling, Active, Idle
    <2> QED
        BY <2>1, HandlersFinite, FS_EmptySet
<1>2. FitsInv => CreditedOncePerRequest
    BY DEF FitsInv
<1>3. Init /\ FlagInv => FitsInv
    BY <1>1 DEF FitsInv
<1> QED
    BY <1>2, <1>3, FlagInvariant, FitsStep, PTL DEF Spec

-------------------------------------------------------------------------------
(***************************************************************************)
(* While no two notices of one invoice are handled at the same time, what  *)
(* a handler has read is still so when it commits.                         *)
(***************************************************************************)

Knows(h) ==
    job[h].step \in {"found", "commit"} =>
        /\ job[h].flag <=> tracker[job[h].notice[1]] = "paid"
        /\ job[h].step = "commit" => (job[h].new <=> entries[job[h].notice[1]] = 0)

CreditInv ==
    /\ FlagInv
    /\ \A h \in Handlers : Knows(h)
    /\ CreditedAtMostOnce
    /\ OneEntryPerInvoice

\* Only the commit of one of its notices pays an invoice or enters it.
LEMMA InvoiceSteps ==
    ASSUME TypeOK, [Next]_vars, NEW i \in Invoices
    PROVE  \/ /\ tracker'[i] = "paid" <=> tracker[i] = "paid"
              /\ entries'[i] = entries[i] /\ credited'[i] = credited[i]
           \/ \E h \in Handlers :
                /\ Commit(h) /\ job[h].step = "commit" /\ job[h].notice[1] = i
                /\ entries'[i] = IF job[h].new THEN entries[i] + 1 ELSE entries[i]
                /\ \/ ~job[h].flag /\ credited'[i] = credited[i] + 1
                   \/ credited'[i] = credited[i]
<1>1. ASSUME NEW h \in Handlers, Commit(h), job[h].notice[1] = i
      PROVE  /\ job[h].step = "commit"
             /\ entries'[i] = IF job[h].new THEN entries[i] + 1 ELSE entries[i]
             /\ \/ ~job[h].flag /\ credited'[i] = credited[i] + 1
                \/ credited'[i] = credited[i]
    BY <1>1 DEF Commit, Active, Credits, TypeOK
<1>2. ASSUME NEW h \in Handlers, Commit(h), job[h].notice[1] # i
      PROVE  /\ tracker'[i] = "paid" <=> tracker[i] = "paid"
             /\ entries'[i] = entries[i] /\ credited'[i] = credited[i]
    BY <1>2 DEF Commit, TypeOK
<1>3. ASSUME NEW k \in Invoices, CreateCryptoPayment(k)
      PROVE  /\ tracker'[i] = "paid" <=> tracker[i] = "paid"
             /\ entries'[i] = entries[i] /\ credited'[i] = credited[i]
    BY <1>3 DEF CreateCryptoPayment, TypeOK
<1>4. CASE UNCHANGED <<tracker, entries, credited>>
    BY <1>4
<1> QED
    BY <1>1, <1>2, <1>3, <1>4
       DEF Next, ProviderStep, Progress, Dismiss, HandlerStep, Receive, Body, Fail, Retry, vars

LEMMA CreditInvStep == CreditInv /\ NoticesApart /\ [Next]_vars => CreditInv'
<1> SUFFICES ASSUME CreditInv, NoticesApart, [Next]_vars
             PROVE  (\A h \in Handlers : Knows(h)') /\ CreditedAtMostOnce' /\ OneEntryPerInvoice'
    BY FlagStep DEF CreditInv
<1>1. TypeOK /\ FlaggedIsCredited
    BY DEF CreditInv, FlagInv
<1>2. ASSUME NEW h \in Handlers
      PROVE  Knows(h)'
    <2> SUFFICES ASSUME job'[h].step \in {"found", "commit"}
                 PROVE  Knows(h)'
        BY DEF Knows
    <2>1. Knows(h)
        BY DEF CreditInv
    <2>2. CASE HandlerStep(h)
        BY <1>1, <2>1, <2>2, JobSteps DEF Knows
    <2>3. CASE ~HandlerStep(h)
        <3> DEFINE i == job[h].notice[1]
        <3>1. job'[h] = job[h]
            BY <1>1, <2>3, OthersRest
               DEF Next, ProviderStep, CreateCryptoPayment, Progress, Dismiss, vars
        <3>2. i \in Invoices
            BY <1>1, <3>1, JobNotice DEF TypeOK
        <3>3. ASSUME NEW g \in Handlers, Commit(g)
              PROVE  job[g].notice[1] # i
            BY <2>3, <3>1, <3>3 DEF NoticesApart, Handling, Commit, Active, HandlerStep
        <3>4. /\ tracker'[i] = "paid" <=> tracker[i] = "paid"
              /\ entries'[i] = entries[i]
            BY <1>1, <3>2, <3>3, InvoiceSteps
        <3> QED
            BY <2>1, <3>1, <3>4 DEF Knows
    <2> QED
        BY <2>2, <2>3
<1>3. ASSUME NEW i \in Invoices
      PROVE  credited'[i] <= 1 /\ entries'[i] <= 1
    <2>1. /\ credited[i] \in Nat /\ credited[i] <= 1
          /\ entries[i] \in Nat /\ entries[i] <= 1
          /\ tracker[i] = "paid" <=> credited[i] > 0
        BY <1>1 DEF TypeOK, FlaggedIsCredited, CreditInv, CreditedAtMostOnce, OneEntryPerInvoice
    <2>2. ASSUME NEW h \in Handlers, job[h].step = "commit", job[h].notice[1] = i
          PROVE  /\ job[h].flag <=> tracker[i] = "paid"
                 /\ job[h].new <=> entries[i] = 0
        BY <2>2 DEF CreditInv, Knows
    <2> QED
        BY <1>1, <2>1, <2>2, InvoiceSteps
<1> QED
    BY <1>2, <1>3 DEF CreditedAtMostOnce, OneEntryPerInvoice

LEMMA CreditInvariant == Spec /\ []NoticesApart => []CreditInv
<1>1. Init /\ FlagInv => CreditInv
    BY DEF Init, CreditInv, Idle, Knows, CreditedAtMostOnce, OneEntryPerInvoice
<1> QED
    BY <1>1, FlagInvariant, CreditInvStep, PTL DEF Spec

\* While no two notices of an invoice are handled at the same time, however
\* often and in whatever order they come, the invoice is credited once.
THEOREM CreditsOnceIfApart == Spec /\ []NoticesApart => []CreditedAtMostOnce
<1>1. CreditInv => CreditedAtMostOnce
    BY DEF CreditInv
<1> QED
    BY <1>1, CreditInvariant, PTL

\* While no two notices of an invoice are handled at the same time, they share
\* one ledger entry.
THEOREM BooksOnceIfApart == Spec /\ []NoticesApart => []OneEntryPerInvoice
<1>1. CreditInv => OneEntryPerInvoice
    BY DEF CreditInv
<1> QED
    BY <1>1, CreditInvariant, PTL

-------------------------------------------------------------------------------
(* CryptoDeposit implements Deposit *)

LEMMA CommitImplements ==
    ASSUME FoundInv, CreditInv, NEW h \in Handlers, Commit(h)
    PROVE  Abstract!Next \/ UNCHANGED Abstract!vars
<1> USE DEF FoundInv
<1> DEFINE i == job[h].notice[1]
           v == wallet[Payer[i]] + job[h].notice[3]
<1>1. job[h].step = "commit" /\ job[h] \in Jobs
    BY DEF Commit, Active, TypeOK
<1>2. i \in Invoices /\ job[h].notice[3] \in Int /\ Payer[i] \in Users
    BY <1>1, JobNotice, DepositAssumption
<1>3. CASE Credits(job[h])
    <2>1. tracker[i] # "paid" /\ tracker[i] # "none"
        BY <1>1, <1>3 DEF CreditInv, Knows, Credits, Carries, Handling, Found
    <2>2. tracker[i] = "open"
        BY <1>2, <2>1 DEF TypeOK
    <2>3. /\ wallet' = [wallet EXCEPT ![Payer[i]] = v]
          /\ tracker' = [tracker EXCEPT ![i] = "paid"]
        BY <1>3 DEF Commit
    <2>4. v \in Int
        BY <1>2 DEF TypeOK
    <2> HIDE DEF i, v
    <2>5. wallet'[Payer[i]] = v
        BY <1>2, <2>3 DEF TypeOK
    <2>6. Abstract!Credit(i)
        BY <2>2, <2>3, <2>4, <2>5 DEF Abstract!Credit
    <2> QED
        BY <1>2, <2>6 DEF Abstract!Next
<1>4. CASE ~Credits(job[h])
    BY <1>4 DEF Commit, Abstract!vars
<1> QED
    BY <1>3, <1>4

LEMMA StepImplements ==
    FoundInv /\ CreditInv /\ [Next]_vars => [Abstract!Next]_(Abstract!vars)
<1> SUFFICES ASSUME FoundInv, CreditInv, [Next]_vars
             PROVE  Abstract!Next \/ UNCHANGED Abstract!vars
    OBVIOUS
<1> USE DEF Abstract!vars
<1>1. ASSUME NEW i \in Invoices, CreateCryptoPayment(i)
      PROVE  Abstract!Next
    BY <1>1 DEF CreateCryptoPayment, Abstract!Next, Abstract!Open
<1>2. ASSUME \/ \E i \in Invoices, s \in PaymentStatus : Progress(i, s)
             \/ \E n \in Notices : Dismiss(n)
      PROVE  UNCHANGED Abstract!vars
    BY <1>2 DEF Progress, Dismiss
<1>3. ASSUME NEW h \in Handlers, \/ \E n \in Notices : Receive(h, n)
                                 \/ Body(h) \/ Fail(h) \/ Retry(h)
      PROVE  UNCHANGED Abstract!vars
    BY <1>3 DEF Receive, Body, Fail, Retry
<1>4. CASE UNCHANGED vars
    BY <1>4 DEF vars
<1> QED
    BY <1>1, <1>2, <1>3, <1>4, CommitImplements DEF Next, ProviderStep, HandlerStep

\* While no two notices of an invoice are handled at the same time, the webhook,
\* with its repeated and reordered notices, failures and retried transactions,
\* is the Deposit: an opened invoice is credited once, and only to its customer.
THEOREM RefinementIfApart == Spec /\ []NoticesApart => ImplementsDeposit
<1>1. Init => Abstract!Init
    BY DEF Init, Abstract!Init
<1> QED
    BY <1>1, FoundInvariant, CreditInvariant, StepImplements, PTL
       DEF Spec, ImplementsDeposit, Abstract!Spec

\* ApartSpec, which the runs check, has exactly such behaviours.
LEMMA ApartSpecIsApart == ApartSpec => Spec /\ []NoticesApart
<1>1. Init => NoticesApart
    BY DEF Init, NoticesApart, Handling, Idle
<1>2. [Next /\ NoticesApart']_vars /\ NoticesApart => NoticesApart'
    BY DEF NoticesApart, Handling, vars
<1>3. [Next /\ NoticesApart']_vars => [Next]_vars
    OBVIOUS
<1> QED
    BY <1>1, <1>2, <1>3, PTL DEF ApartSpec, Spec

===============================================================================
