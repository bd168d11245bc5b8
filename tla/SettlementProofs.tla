--------------------------- MODULE SettlementProofs ---------------------------
(***************************************************************************)
(* Theorems about Settlement, for any number of brands, members, campaigns *)
(* and handlers.                                                           *)
(***************************************************************************)
EXTENDS Settlement, FiniteSetTheorems, WellFoundedInduction, TLAPS

\* What the step of a handler says about the fields of its job.
LEMMA JobFields ==
    ASSUME NEW j \in Jobs
    PROVE  /\ j.step \in {"launch", "launched"} =>
                j \in LaunchJobs /\ j.camp \in Campaigns /\ j.amount \in Amounts
                /\ j.rewards \in [SubTasksOf(j.camp) -> Rewards]
           /\ j.step = "update" => j \in UpdateJobs
           /\ j.step = "check" => j \in CheckJobs
           /\ j.step \in {"pay", "commit", "reject"} => j \in ReviewJobs
           /\ j = Idle <=> j.step = "idle"
<1>1. CASE j = Idle
    BY <1>1 DEF Idle
<1>2. CASE j \in LaunchJobs
    <2>1. PICK c \in Campaigns :
            j \in [step: {"launch", "launched"}, camp: {c}, amount: Amounts,
                   rewards: [SubTasksOf(c) -> Rewards]]
        BY <1>2 DEF LaunchJobs
    <2>2. j.camp = c /\ j.step \in {"launch", "launched"}
        BY <2>1
    <2>3. j # Idle
        BY <2>2 DEF Idle
    <2> QED
        BY <1>2, <2>1, <2>2, <2>3
<1>3. CASE j \in UpdateJobs
    BY <1>3 DEF UpdateJobs, Idle
<1>4. CASE j \in CheckJobs
    BY <1>4 DEF CheckJobs, Idle
<1>5. CASE j \in ReviewJobs
    BY <1>5 DEF ReviewJobs, Idle
<1> QED
    BY <1>1, <1>2, <1>3, <1>4, <1>5 DEF Jobs

\* The two steps of a transaction are jobs of the same kind.
LEMMA LaunchStep ==
    ASSUME NEW j \in LaunchJobs, NEW s \in {"launch", "launched"}
    PROVE  [j EXCEPT !.step = s] \in LaunchJobs
<1>1. PICK c \in Campaigns :
        j \in [step: {"launch", "launched"}, camp: {c}, amount: Amounts,
               rewards: [SubTasksOf(c) -> Rewards]]
    BY DEF LaunchJobs
<1>2. [j EXCEPT !.step = s] \in
        [step: {"launch", "launched"}, camp: {c}, amount: Amounts,
         rewards: [SubTasksOf(c) -> Rewards]]
    BY <1>1
<1> QED
    BY <1>2 DEF LaunchJobs

LEMMA ReviewStepJob ==
    ASSUME NEW j \in ReviewJobs, NEW s \in {"pay", "commit"}
    PROVE  [j EXCEPT !.step = s] \in ReviewJobs
BY DEF ReviewJobs

-------------------------------------------------------------------------------
(* Type correctness *)

LEMMA TypeStep == TypeOK /\ [Next]_vars => TypeOK'
<1> SUFFICES ASSUME TypeOK, [Next]_vars
             PROVE  TypeOK'
    OBVIOUS
<1> USE LayoutAssumption, AmountAssumption DEF TypeOK
<1>1. ASSUME NEW h \in Handlers, NEW c \in Campaigns, BeginCreate(h, c)
      PROVE  TypeOK'
    <2>1. PICK amount \in Amounts, rewards \in [SubTasksOf(c) -> Rewards] :
            job' = [job EXCEPT ![h] = [step |-> "launch", camp |-> c,
                                       amount |-> amount, rewards |-> rewards]]
        BY <1>1 DEF BeginCreate
    <2>2. [step |-> "launch", camp |-> c, amount |-> amount, rewards |-> rewards]
            \in LaunchJobs
        BY DEF LaunchJobs
    <2> QED
        BY <1>1, <2>1, <2>2 DEF BeginCreate, Jobs
<1>2. ASSUME NEW h \in Handlers, LaunchBody(h)
      PROVE  TypeOK'
    <2>1. job[h] \in LaunchJobs /\ job[h].camp \in Entries
        BY <1>2, JobFields DEF LaunchBody, At, Entries
    <2>2. job' \in [Handlers -> Jobs]
        BY <1>2, <2>1, LaunchStep DEF LaunchBody, Goto, Jobs
    <2> QED
        BY <1>2, <2>1, <2>2 DEF LaunchBody
<1>3. ASSUME NEW h \in Handlers, LaunchCommit(h)
      PROVE  TypeOK'
    <2> DEFINE c == job[h].camp
    <2>1. /\ c \in Campaigns
          /\ job[h].amount \in Int
          /\ job[h].rewards \in [SubTasksOf(c) -> Int]
        <3>1. job[h] \in Jobs /\ job[h].step = "launched"
            BY <1>3 DEF LaunchCommit, At
        <3>2. /\ c \in Campaigns
              /\ job[h].amount \in Amounts
              /\ job[h].rewards \in [SubTasksOf(c) -> Rewards]
            BY <3>1, JobFields
        <3> HIDE DEF c
        <3> QED
            BY <3>2
    <2>2. reward' \in [SubTasks -> Int]
        BY <1>3, <2>1 DEF LaunchCommit, SubTasksOf
    <2>3. wallet' \in [Wallets -> Int]
        BY <1>3, <2>1 DEF LaunchCommit, Wallets
    <2> QED
        BY <1>3, <2>1, <2>2, <2>3 DEF LaunchCommit, Finish, Jobs
<1>4. ASSUME NEW h \in Handlers, NEW c \in Campaigns, UpdateRead(h, c)
      PROVE  TypeOK'
    BY <1>4 DEF UpdateRead, UpdateJobs, Jobs
<1>5. ASSUME NEW h \in Handlers, UpdateWrite(h)
      PROVE  TypeOK'
    <2>1. job[h].camp \in Campaigns /\ job[h].total \in Int
        BY <1>5, JobFields DEF UpdateWrite, At, UpdateJobs
    <2> QED
        BY <1>5, <2>1 DEF UpdateWrite, Finish, Jobs
<1>6. ASSUME NEW h \in Handlers, NEW k \in Claims, ApproveRead(h, k)
      PROVE  TypeOK'
    <2>1. funds[CampaignOf[k[1]]] \in Int
        BY DEF Claims
    <2> QED
        BY <1>6, <2>1 DEF ApproveRead, CheckJobs, Jobs
<1>7. ASSUME NEW h \in Handlers, NEW k \in Claims, RejectRead(h, k)
      PROVE  TypeOK'
    BY <1>7 DEF RejectRead, ReviewJobs, Jobs
<1>8. ASSUME NEW h \in Handlers, ApproveCheck(h)
      PROVE  TypeOK'
    <2>1. job[h].claim \in Claims
        BY <1>8, JobFields DEF ApproveCheck, At, CheckJobs
    <2> QED
        BY <1>8, <2>1 DEF ApproveCheck, Finish, ReviewJobs, Jobs
<1>9. ASSUME NEW h \in Handlers, ApproveBody(h)
      PROVE  TypeOK'
    <2>1. job[h] \in ReviewJobs /\ job[h].claim \in Entries
        BY <1>9, JobFields DEF ApproveBody, At, ReviewJobs, Entries
    <2>2. job' \in [Handlers -> Jobs]
        BY <1>9, <2>1, ReviewStepJob DEF ApproveBody, Goto, Jobs
    <2> QED
        BY <1>9, <2>1, <2>2 DEF ApproveBody
<1>10. ASSUME NEW h \in Handlers, ApproveCommit(h)
       PROVE  TypeOK'
    <2> DEFINE k == job[h].claim
    <2>1. k \in Claims
        BY <1>10, JobFields DEF ApproveCommit, At, ReviewJobs
    <2>2. k[1] \in SubTasks /\ k[2] \in Wallets /\ CampaignOf[k[1]] \in Campaigns
        BY <2>1 DEF Claims, Wallets
    <2> QED
        BY <1>10, <2>1, <2>2 DEF ApproveCommit, Finish, Jobs, TrackerStates
<1>11. ASSUME NEW h \in Handlers, RejectWrite(h)
       PROVE  TypeOK'
    BY <1>11, JobFields DEF RejectWrite, At, ReviewJobs, Finish, Jobs, TrackerStates
<1>12. ASSUME NEW h \in Handlers, Fail(h)
       PROVE  TypeOK'
    BY <1>12 DEF Fail, Finish, Jobs
<1>13. ASSUME NEW h \in Handlers, Retry(h)
       PROVE  TypeOK'
    <2>1. CASE At(h, "launched") /\ Goto(h, "launch")
        <3>1. job' \in [Handlers -> Jobs]
            BY <2>1, JobFields, LaunchStep DEF At, Goto, Jobs
        <3> QED
            BY <1>13, <3>1 DEF Retry
    <2>2. CASE At(h, "commit") /\ Goto(h, "pay")
        <3>1. job' \in [Handlers -> Jobs]
            BY <2>2, JobFields, ReviewStepJob DEF At, Goto, Jobs
        <3> QED
            BY <1>13, <3>1 DEF Retry
    <2> QED
        BY <1>13, <2>1, <2>2 DEF Retry
<1>14. ASSUME NEW e \in Entries, RecordEntry(e) \/ LoseEntry(e)
       PROVE  TypeOK'
    BY <1>14 DEF RecordEntry, LoseEntry
<1>15. ASSUME NEW k \in Claims, StartTask(k) \/ SubmitTask(k)
       PROVE  TypeOK'
    BY <1>15 DEF StartTask, SubmitTask, TrackerStates
<1>16. CASE UNCHANGED vars
    BY <1>16 DEF vars
<1> QED
    BY <1>1, <1>2, <1>3, <1>4, <1>5, <1>6, <1>7, <1>8, <1>9, <1>10, <1>11, <1>12,
       <1>13, <1>14, <1>15, <1>16
       DEF Next, HandlerStep, CreateStep, UpdateStep, ReviewStep

LEMMA InitTypes == Init => TypeOK
BY LayoutAssumption, AmountAssumption DEF Init, TypeOK, Jobs, TrackerStates, Wallets

\* Every variable keeps its type; in particular an event count or a ledger
\* entry never becomes negative.
THEOREM TypeCorrect == Spec => []TypeOK
<1> QED
    BY InitTypes, TypeStep, PTL DEF Spec

-------------------------------------------------------------------------------
(* Overlapping requests: a paid submission has been reviewed *)

\* A review that passed its check is of a submission that was handed in.
UnderReview ==
    \A h \in Handlers : job[h].step \in {"pay", "commit", "reject"} =>
        tracker[job[h].claim] \in {"pending", "approved", "rejected"}

ReviewedInv == TypeOK /\ UnderReview /\ PaidIsReviewed

LEMMA ReviewedStep == ReviewedInv /\ [Next]_vars => ReviewedInv'
<1> SUFFICES ASSUME ReviewedInv, [Next]_vars
             PROVE  UnderReview' /\ PaidIsReviewed'
    BY TypeStep DEF ReviewedInv
<1> USE DEF ReviewedInv, TypeOK
\* Steps that leave the tracker and the history alone need care only for the
\* job of the handler that takes them.
<1>1. ASSUME UNCHANGED <<tracker, paid>>,
             \A h \in Handlers :
                \/ job'[h] = job[h]
                \/ job'[h].step \notin {"pay", "commit", "reject"}
                \/ tracker[job'[h].claim] \in {"pending", "approved", "rejected"}
      PROVE  UnderReview' /\ PaidIsReviewed'
    BY <1>1 DEF UnderReview, PaidIsReviewed
<1>2. ASSUME NEW h \in Handlers, CreateStep(h)
      PROVE  UnderReview' /\ PaidIsReviewed'
    <2>1. CASE \E c \in Campaigns : BeginCreate(h, c)
        BY <1>1, <2>1 DEF BeginCreate
    <2>2. CASE LaunchBody(h)
        BY <1>1, <2>2 DEF LaunchBody, At, Goto
    <2>3. CASE LaunchCommit(h)
        BY <1>1, <2>3 DEF LaunchCommit, Finish, Idle
    <2> QED
        BY <1>2, <2>1, <2>2, <2>3 DEF CreateStep
<1>3. ASSUME NEW h \in Handlers, UpdateStep(h)
      PROVE  UnderReview' /\ PaidIsReviewed'
    BY <1>1, <1>3 DEF UpdateStep, UpdateRead, UpdateWrite, Finish, Idle
<1>4. ASSUME NEW h \in Handlers, NEW k \in Claims, ApproveRead(h, k) \/ RejectRead(h, k)
      PROVE  UnderReview' /\ PaidIsReviewed'
    BY <1>1, <1>4 DEF ApproveRead, RejectRead
<1>5. ASSUME NEW h \in Handlers, ApproveCheck(h)
      PROVE  UnderReview' /\ PaidIsReviewed'
    BY <1>1, <1>5 DEF ApproveCheck, MayPay, Finish, Idle
<1>6. ASSUME NEW h \in Handlers, ApproveBody(h)
      PROVE  UnderReview' /\ PaidIsReviewed'
    <2>1. /\ job'[h].claim = job[h].claim
          /\ tracker[job[h].claim] \in {"pending", "approved", "rejected"}
        BY <1>6, JobFields DEF ApproveBody, At, Goto, ReviewJobs, UnderReview
    <2> QED
        BY <1>1, <1>6, <2>1 DEF ApproveBody, Goto
<1>7. ASSUME NEW h \in Handlers, ApproveCommit(h)
      PROVE  UnderReview' /\ PaidIsReviewed'
    <2>1. job[h].claim \in Claims
        BY <1>7, JobFields DEF ApproveCommit, At, ReviewJobs
    <2>2. UnderReview'
        BY <1>7, <2>1, JobFields DEF ApproveCommit, UnderReview, Finish, Idle, ReviewJobs
    <2>3. PaidIsReviewed'
        BY <1>7, <2>1 DEF ApproveCommit, PaidIsReviewed
    <2> QED
        BY <2>2, <2>3
<1>8. ASSUME NEW h \in Handlers, RejectWrite(h)
      PROVE  UnderReview' /\ PaidIsReviewed'
    <2>1. job[h].claim \in Claims
        BY <1>8, JobFields DEF RejectWrite, At, ReviewJobs
    <2>2. UnderReview'
        BY <1>8, <2>1, JobFields DEF RejectWrite, UnderReview, Finish, Idle, ReviewJobs
    <2>3. PaidIsReviewed'
        BY <1>8, <2>1 DEF RejectWrite, PaidIsReviewed
    <2> QED
        BY <2>2, <2>3
<1>9. ASSUME NEW h \in Handlers, Fail(h)
      PROVE  UnderReview' /\ PaidIsReviewed'
    BY <1>1, <1>9 DEF Fail, Finish, Idle
<1>10. ASSUME NEW h \in Handlers, Retry(h)
       PROVE  UnderReview' /\ PaidIsReviewed'
    <2>1. CASE At(h, "launched") /\ Goto(h, "launch")
        BY <1>1, <1>10, <2>1 DEF Retry, At, Goto
    <2>2. CASE At(h, "commit") /\ Goto(h, "pay")
        <3>1. /\ job'[h].claim = job[h].claim
              /\ tracker[job[h].claim] \in {"pending", "approved", "rejected"}
            BY <2>2, JobFields DEF At, Goto, ReviewJobs, UnderReview
        <3> QED
            BY <1>1, <1>10, <2>2, <3>1 DEF Retry, Goto
    <2> QED
        BY <1>10, <2>1, <2>2 DEF Retry
<1>11. ASSUME NEW e \in Entries, RecordEntry(e) \/ LoseEntry(e)
       PROVE  UnderReview' /\ PaidIsReviewed'
    BY <1>1, <1>11 DEF RecordEntry, LoseEntry
<1>12. ASSUME NEW k \in Claims, StartTask(k) \/ SubmitTask(k)
       PROVE  UnderReview' /\ PaidIsReviewed'
    <2>1. /\ job' = job /\ paid' = paid
          /\ tracker[k] \in {"none", "started"}
          /\ tracker' = [tracker EXCEPT ![k] = "started"]
                \/ tracker' = [tracker EXCEPT ![k] = "pending"]
        BY <1>12 DEF StartTask, SubmitTask
    <2>2. UnderReview'
        BY <2>1, JobFields DEF UnderReview, ReviewJobs
    <2>3. PaidIsReviewed'
        BY <2>1 DEF PaidIsReviewed
    <2> QED
        BY <2>2, <2>3
<1>13. CASE UNCHANGED vars
    BY <1>1, <1>13 DEF vars
<1> QED
    BY <1>2, <1>3, <1>4, <1>5, <1>6, <1>7, <1>8, <1>9, <1>10, <1>11, <1>12, <1>13
       DEF Next, HandlerStep, ReviewStep

\* Whatever requests overlap, fail or are retried, a reward is committed only
\* for a submission that was handed in, and the submission then stays reviewed.
THEOREM PaidOnlyIfReviewed == Spec => []PaidIsReviewed
<1>1. Init => ReviewedInv
    BY TypeCorrect, LayoutAssumption, AmountAssumption
       DEF Init, ReviewedInv, UnderReview, PaidIsReviewed, TypeOK, Jobs, Idle,
           TrackerStates, Wallets
<1>2. ReviewedInv => PaidIsReviewed
    BY DEF ReviewedInv
<1> QED
    BY <1>1, <1>2, ReviewedStep, PTL DEF Spec

-------------------------------------------------------------------------------
(***************************************************************************)
(* Total is a fold, a function defined by recursion on the subsets of a    *)
(* finite set.  That the function exists, and what it does when one        *)
(* summand changes, is proved from the minimal element of a set of         *)
(* counterexamples.                                                        *)
(***************************************************************************)

\* A family of subsets of a finite set has a minimal member.
LEMMA MinimalMember ==
    ASSUME NEW S, IsFiniteSet(S), NEW B \in SUBSET SUBSET S, B # {}
    PROVE  \E T \in B : \A U \in B : U \subseteq T => U = T
<1>1. B \subseteq FiniteSubsetsOf(S)
    BY FS_Subset DEF FiniteSubsetsOf
<1>2. PICK T \in B : \A U \in B : ~(<<U, T>> \in StrictSubsetOrdering(S))
    BY <1>1, FS_StrictSubsetOrderingWellFounded, WFMin
<1> QED
    BY <1>2 DEF StrictSubsetOrdering

\* A set of natural numbers has a least member.
LEMMA LeastNumber ==
    ASSUME NEW T \in SUBSET Nat, T # {}
    PROVE  \E n \in T : \A m \in T : n <= m
<1>1. PICK top \in T : TRUE
    OBVIOUS
<1> DEFINE S == 0 .. top
           B == {0 .. n : n \in {k \in T : k <= top}}
<1>2. B \in SUBSET SUBSET S /\ B # {}
    <2>1. \A n \in {k \in T : k <= top} : 0 .. n \in SUBSET S
        BY <1>1
    <2>2. 0 .. top \in B
        BY <1>1
    <2> QED
        BY <2>1, <2>2
<1>3. IsFiniteSet(S)
    BY <1>1, FS_Interval
<1> HIDE DEF B, S
<1>4. PICK I \in B : \A J \in B : J \subseteq I => J = I
    BY <1>2, <1>3, MinimalMember
<1>5. PICK n \in T : n <= top /\ I = 0 .. n
    BY <1>4 DEF B
<1>6. ASSUME NEW m \in T, m < n
      PROVE  FALSE
    <2>1. 0 .. m \in B
        BY <1>1, <1>5, <1>6 DEF B
    <2>2. 0 .. m \subseteq 0 .. n
        BY <1>6
    <2>3. n \in 0 .. n /\ n \notin 0 .. m
        BY <1>6
    <2> QED
        BY <2>1, <2>2, <2>3, <1>4, <1>5
<1> QED
    BY <1>6

\* The element Total adds first, the equation it is defined by, on the subsets
\* in D, and the function that is chosen to satisfy it.
First(s) == CHOOSE x \in s : TRUE
Sums(g, f, D) ==
    g = [s \in D |-> IF s = {} THEN 0 ELSE f[First(s)] + g[s \ {First(s)}]]
SumFcn(f, S) == CHOOSE g : Sums(g, f, SUBSET S)

LEMMA TotalIs ==
    ASSUME NEW f, NEW S
    PROVE  Total(f, S) = SumFcn(f, S)[S]
BY DEF Total, MapThenSumSet, MapThenFoldSet, SumFcn, Sums, First

LEMMA AllButFirst ==
    ASSUME NEW S, IsFiniteSet(S), NEW s \in SUBSET S, s # {}
    PROVE  /\ First(s) \in s
           /\ s \ {First(s)} \in SUBSET S
           /\ s \ {First(s)} # s
           /\ Cardinality(s \ {First(s)}) = Cardinality(s) - 1
           /\ Cardinality(s) \in Nat
<1>1. First(s) \in s
    BY DEF First
<1>2. IsFiniteSet(s)
    BY FS_Subset
<1> QED
    BY <1>1, <1>2, FS_RemoveElement, FS_CardinalityType

Small(S, n) == {s \in SUBSET S : Cardinality(s) <= n}

\* From the sums over the sets of fewer than n elements, those over n.
LEMMA OneMore ==
    ASSUME NEW f, NEW S, IsFiniteSet(S), NEW n \in Nat, n # 0,
           NEW g, Sums(g, f, Small(S, n - 1))
    PROVE  \E h : Sums(h, f, Small(S, n))
<1> DEFINE h == [s \in Small(S, n) |->
                    IF s = {} THEN 0 ELSE f[First(s)] + g[s \ {First(s)}]]
<1>1. ASSUME NEW s \in Small(S, n), s # {}
      PROVE  h[s \ {First(s)}] = g[s \ {First(s)}]
    <2> DEFINE t == s \ {First(s)}
    <2>1. s \in SUBSET S /\ Cardinality(s) <= n
        BY DEF Small
    <2>2. t \in Small(S, n - 1) /\ t \in Small(S, n)
        BY <2>1, <1>1, AllButFirst DEF Small
    <2>3. g[t] = IF t = {} THEN 0 ELSE f[First(t)] + g[t \ {First(t)}]
        BY <2>2 DEF Sums
    <2>4. h[t] = IF t = {} THEN 0 ELSE f[First(t)] + g[t \ {First(t)}]
        BY <2>2
    <2> QED
        BY <2>3, <2>4
<1>2. h = [s \in Small(S, n) |-> IF s = {} THEN 0 ELSE f[First(s)] + h[s \ {First(s)}]]
    BY <1>1
<1> QED
    BY <1>2 DEF Sums

LEMMA SumFcnSums ==
    ASSUME NEW f, NEW S, IsFiniteSet(S)
    PROVE  Sums(SumFcn(f, S), f, SUBSET S)
<1> DEFINE Bad == {n \in Nat : ~ \E g : Sums(g, f, Small(S, n))}
<1>1. 0 \notin Bad
    <2>1. Small(S, 0) = {{}}
        BY FS_Subset, FS_EmptySet, FS_CardinalityType DEF Small
    <2>2. Sums([s \in {{}} |-> 0], f, {{}})
        BY DEF Sums
    <2> QED
        BY <2>1, <2>2
<1>2. Bad = {}
    <2> SUFFICES ASSUME Bad # {} PROVE FALSE
        OBVIOUS
    <2>1. PICK n \in Bad : \A m \in Bad : n <= m
        BY LeastNumber
    <2>2. n \in Nat /\ n # 0 /\ n - 1 \in Nat /\ n - 1 \notin Bad
        BY <1>1, <2>1
    <2>3. PICK g : Sums(g, f, Small(S, n - 1))
        BY <2>2
    <2>4. \E h : Sums(h, f, Small(S, n))
        BY <2>2, <2>3, OneMore
    <2> QED
        BY <2>1, <2>4
<1>3. Cardinality(S) \in Nat
    BY FS_CardinalityType
<1>4. Small(S, Cardinality(S)) = SUBSET S
    BY <1>3, FS_Subset DEF Small
<1>5. \A n \in Nat : \E g : Sums(g, f, Small(S, n))
    BY <1>2
<1>6. \E g : Sums(g, f, SUBSET S)
    <2> HIDE DEF Bad
    <2> QED
        BY <1>3, <1>4, <1>5
<1> QED
    BY <1>6 DEF SumFcn

\* A total over a finite set is a number, and when one summand changes it
\* changes by as much.
LEMMA TotalOfChange ==
    ASSUME NEW S, IsFiniteSet(S), NEW f \in [S -> Int], NEW a \in S, NEW v \in Int,
           NEW g, g = [f EXCEPT ![a] = v]
    PROVE  /\ Total(f, S) \in Int
           /\ Total(g, S) = Total(f, S) + v - f[a]
<1> DEFINE F == SumFcn(f, S)
           G == SumFcn(g, S)
           Good(s) == F[s] \in Int /\ G[s] = F[s] + IF a \in s THEN v - f[a] ELSE 0
           Bad == {s \in SUBSET S : ~Good(s)}
<1>1. Sums(F, f, SUBSET S) /\ Sums(G, g, SUBSET S)
    BY SumFcnSums
<1>2. ASSUME NEW s \in Bad, \A t \in Bad : t \subseteq s => t = s
      PROVE  FALSE
    <2> DEFINE x == First(s)
               t == s \ {x}
    <2>1. s # {}
        <3>1. F[{}] = 0 /\ G[{}] = 0
            <4> HIDE DEF F, G
            <4> QED
                BY <1>1 DEF Sums
        <3>2. Good({})
            BY <3>1
        <3> QED
            BY <3>2
    <2>2. x \in s /\ t \in SUBSET S /\ t # s /\ x \in S
        BY <2>1, AllButFirst
    <2>3. Good(t)
        BY <2>2, <1>2
    <2>4. F[s] = f[x] + F[t] /\ G[s] = g[x] + G[t]
        <3> HIDE DEF F, G
        <3> QED
            BY <1>1, <2>1, <2>2 DEF Sums
    <2>5. g[x] = (IF x = a THEN v ELSE f[x]) /\ f[x] \in Int
        BY <2>2
    <2>6. Good(s)
        <3> HIDE DEF F, G, x
        <3> QED
            BY <2>2, <2>3, <2>4, <2>5
    <2> QED
        BY <2>6
<1>3. Bad = {}
    <2> HIDE DEF Bad
    <2>1. Bad \in SUBSET SUBSET S
        BY DEF Bad
    <2> QED
        BY <1>2, <2>1, MinimalMember
<1>4. Good(S)
    BY <1>3
<1>5. Total(f, S) = F[S] /\ Total(g, S) = G[S]
    BY TotalIs
<1> QED
    BY <1>4, <1>5

LEMMA TotalIsInt ==
    ASSUME NEW S, IsFiniteSet(S), NEW f \in [S -> Int]
    PROVE  Total(f, S) \in Int
<1> DEFINE F == SumFcn(f, S)
           Bad == {s \in SUBSET S : F[s] \notin Int}
<1>1. Sums(F, f, SUBSET S)
    BY SumFcnSums
<1>2. ASSUME NEW s \in Bad, \A t \in Bad : t \subseteq s => t = s
      PROVE  FALSE
    <2> DEFINE t == s \ {First(s)}
    <2> HIDE DEF F
    <2>1. s # {}
        BY <1>1, <1>2 DEF Sums
    <2>2. First(s) \in S /\ t \in SUBSET S /\ t # s
        BY <2>1, AllButFirst
    <2>3. F[t] \in Int
        BY <2>2, <1>2
    <2>4. F[s] = f[First(s)] + F[t]
        BY <1>1, <2>1, <2>2 DEF Sums
    <2> QED
        BY <2>2, <2>3, <2>4
<1>3. Bad = {}
    <2> HIDE DEF Bad
    <2>1. Bad \in SUBSET SUBSET S
        BY DEF Bad
    <2> QED
        BY <1>2, <2>1, MinimalMember
<1> QED
    BY <1>3, TotalIs

\* Nothing adds up to nothing.
LEMMA TotalOfZeros ==
    ASSUME NEW S, IsFiniteSet(S)
    PROVE  Total([x \in S |-> 0], S) = 0
<1> DEFINE f == [x \in S |-> 0]
           F == SumFcn(f, S)
           Bad == {s \in SUBSET S : F[s] # 0}
<1>1. Sums(F, f, SUBSET S)
    BY SumFcnSums
<1>2. ASSUME NEW s \in Bad, \A t \in Bad : t \subseteq s => t = s
      PROVE  FALSE
    <2> DEFINE t == s \ {First(s)}
    <2>1. s # {}
        <3> HIDE DEF F, f
        <3> QED
            BY <1>1, <1>2 DEF Sums
    <2>2. First(s) \in S /\ t \in SUBSET S /\ t # s
        BY <2>1, AllButFirst
    <2>3. F[t] = 0
        BY <2>2, <1>2
    <2>4. F[s] = f[First(s)] + F[t]
        <3> HIDE DEF F, f
        <3> QED
            BY <1>1, <2>1, <2>2 DEF Sums
    <2> QED
        BY <2>2, <2>3, <2>4
<1>3. Bad = {}
    <2> HIDE DEF Bad
    <2>1. Bad \in SUBSET SUBSET S
        BY DEF Bad
    <2> QED
        BY <1>2, <2>1, MinimalMember
<1> QED
    BY <1>3, TotalIs

-------------------------------------------------------------------------------
(***************************************************************************)
(* Overlapping requests: money.  A request to launch a campaign finds it   *)
(* unfunded when it commits, since its identity is fresh and nothing can   *)
(* be submitted, reviewed or topped up for a campaign that is not live.    *)
(***************************************************************************)

\* What a request concerns is there, and what it is to create is not.
Grounded(h) ==
    /\ Drafting(h) =>
        /\ job[h].camp \notin live
        /\ \A g \in Handlers \ {h} : Drafting(g) => job[g].camp # job[h].camp
    /\ job[h].step = "update" => job[h].camp \in live
    /\ Reviewing(h) => tracker[job[h].claim] # "none"

FundsInv ==
    /\ TypeOK
    /\ \A h \in Handlers : Grounded(h)
    /\ \A k \in Claims : tracker[k] # "none" => CampaignOf[k[1]] \in live
    /\ \A c \in Campaigns : c \notin live => funds[c] = 0

\* A step of h that launches nothing, and whose next job, if any, is grounded.
Steady(h) ==
    /\ \A g \in Handlers \ {h} : job'[g] = job[g]
    /\ live' = live
    /\ \A c \in Campaigns : c \in live \/ funds'[c] = funds[c]
    /\ \A k \in Claims : tracker'[k] = tracker[k]
            \/ (tracker[k] # "none" /\ tracker'[k] # "none")
    /\ \/ job'[h] = Idle
       \/ /\ job'[h].step \in {"launch", "launched"}
          /\ job'[h].camp \notin live
          /\ \A g \in Handlers \ {h} : Drafting(g) => job[g].camp # job'[h].camp
       \/ job'[h].step = "update" /\ job'[h].camp \in live
       \/ /\ job'[h].step \in {"check", "pay", "commit", "reject"}
          /\ job'[h].claim \in Claims /\ tracker[job'[h].claim] # "none"

LEMMA GroundedStep ==
    ASSUME FundsInv, TypeOK', NEW h \in Handlers, Steady(h)
    PROVE  FundsInv'
<1> USE DEF FundsInv, Steady
<1>1. Grounded(h)'
    BY DEF Grounded, Drafting, Reviewing, Idle
<1>2. ASSUME NEW g \in Handlers \ {h}
      PROVE  Grounded(g)'
    <2>1. Reviewing(g) => job[g].claim \in Claims
        BY JobFields DEF TypeOK, Reviewing, CheckJobs, ReviewJobs
    <2> QED
        BY <2>1 DEF Grounded, Drafting, Reviewing, Idle
<1> QED
    BY <1>1, <1>2

LEMMA FundsStep == FundsInv /\ [Next]_vars => FundsInv'
<1> SUFFICES ASSUME FundsInv, [Next]_vars
             PROVE  FundsInv'
    OBVIOUS
<1>0. TypeOK /\ TypeOK'
    BY TypeStep DEF FundsInv
<1>1. ASSUME NEW h \in Handlers, NEW c \in Campaigns, BeginCreate(h, c)
      PROVE  FundsInv'
    <2>1. c \notin live /\ \A g \in Handlers : Drafting(g) => job[g].camp # c
        BY <1>1 DEF BeginCreate, Drafted, Drafting
    <2>2. /\ job'[h].step = "launch" /\ job'[h].camp = c
          /\ \A g \in Handlers \ {h} : job'[g] = job[g]
          /\ live' = live /\ funds' = funds /\ tracker' = tracker
        BY <1>0, <1>1 DEF BeginCreate, TypeOK
    <2>3. Steady(h)
        BY <2>1, <2>2 DEF Steady
    <2> QED
        BY <1>0, <2>3, GroundedStep
<1>2. ASSUME NEW h \in Handlers, LaunchBody(h) \/ (At(h, "launched") /\ Goto(h, "launch"))
                \/ ApproveBody(h) \/ (At(h, "commit") /\ Goto(h, "pay")),
             live' = live, funds' = funds, tracker' = tracker
      PROVE  FundsInv'
    <2>1. /\ \A g \in Handlers \ {h} : job'[g] = job[g]
          /\ \/ /\ Drafting(h) /\ job'[h].step \in {"launch", "launched"}
                /\ job'[h].camp = job[h].camp
             \/ /\ Reviewing(h) /\ job'[h].step \in {"pay", "commit"}
                /\ job'[h].claim = job[h].claim /\ job[h].claim \in Claims
        <3>1. CASE LaunchBody(h) \/ (At(h, "launched") /\ Goto(h, "launch"))
            <4>1. job[h] \in LaunchJobs
                BY <1>0, <3>1, JobFields DEF LaunchBody, At, TypeOK
            <4> QED
                BY <1>0, <3>1, <4>1 DEF LaunchBody, At, Goto, TypeOK, LaunchJobs, Drafting
        <3>2. CASE ApproveBody(h) \/ (At(h, "commit") /\ Goto(h, "pay"))
            <4>1. job[h] \in ReviewJobs
                BY <1>0, <3>2, JobFields DEF ApproveBody, At, TypeOK
            <4> QED
                BY <1>0, <3>2, <4>1 DEF ApproveBody, At, Goto, TypeOK, ReviewJobs, Reviewing
        <3> QED
            BY <1>2, <3>1, <3>2
    <2>2. Grounded(h)
        BY DEF FundsInv
    <2>3. /\ Drafting(h) => job[h].camp \notin live
             /\ \A g \in Handlers \ {h} : Drafting(g) => job[g].camp # job[h].camp
          /\ Reviewing(h) => tracker[job[h].claim] # "none"
        BY <2>2 DEF Grounded
    <2>4. Steady(h)
        BY <1>2, <2>1, <2>3 DEF Steady
    <2> QED
        BY <1>0, <2>4, GroundedStep
<1>3. ASSUME NEW h \in Handlers, LaunchCommit(h)
      PROVE  FundsInv'
    <2> DEFINE c == job[h].camp
    <2>1. Drafting(h) /\ c \in Campaigns /\ c \notin live
        BY <1>0, <1>3, JobFields DEF LaunchCommit, At, TypeOK, Grounded, Drafting, FundsInv
    <2>2. /\ live' = live \cup {c}
          /\ \A d \in Campaigns \ {c} : funds'[d] = funds[d]
          /\ tracker' = tracker
          /\ job'[h] = Idle
          /\ \A g \in Handlers \ {h} : job'[g] = job[g]
        BY <1>0, <1>3 DEF LaunchCommit, Finish, TypeOK
    <2>3. \A g \in Handlers \ {h} : Drafting(g) => job[g].camp # c
        BY <2>1 DEF Grounded, FundsInv
    <2>4. Grounded(h)'
        BY <2>2 DEF Grounded, Drafting, Reviewing, Idle
    <2> HIDE DEF c
    <2>5. ASSUME NEW g \in Handlers \ {h}
          PROVE  Grounded(g)'
        BY <2>2, <2>3 DEF Grounded, Drafting, Reviewing, Idle, FundsInv
    <2> QED
        BY <1>0, <2>1, <2>2, <2>4, <2>5 DEF FundsInv
<1>4. ASSUME NEW h \in Handlers, NEW c \in Campaigns, UpdateRead(h, c)
      PROVE  FundsInv'
    <2>1. /\ job'[h].step = "update" /\ job'[h].camp = c /\ c \in live
          /\ \A g \in Handlers \ {h} : job'[g] = job[g]
          /\ live' = live /\ funds' = funds /\ tracker' = tracker
        BY <1>0, <1>4 DEF UpdateRead, TypeOK
    <2>2. Steady(h)
        BY <2>1 DEF Steady
    <2> QED
        BY <1>0, <2>2, GroundedStep
<1>5. ASSUME NEW h \in Handlers, UpdateWrite(h)
      PROVE  FundsInv'
    <2>1. job[h].camp \in live
        BY <1>5 DEF UpdateWrite, At, Grounded, FundsInv
    <2>2. /\ job'[h] = Idle
          /\ \A g \in Handlers \ {h} : job'[g] = job[g]
          /\ \A c \in Campaigns : c \in live \/ funds'[c] = funds[c]
          /\ live' = live /\ tracker' = tracker
        BY <1>0, <1>5, <2>1 DEF UpdateWrite, Finish, TypeOK
    <2>3. Steady(h)
        BY <2>2 DEF Steady
    <2> QED
        BY <1>0, <2>3, GroundedStep
<1>6. ASSUME NEW h \in Handlers, NEW k \in Claims, ApproveRead(h, k) \/ RejectRead(h, k)
      PROVE  FundsInv'
    <2>1. /\ job'[h].step \in {"check", "reject"} /\ job'[h].claim = k
          /\ tracker[k] # "none"
          /\ \A g \in Handlers \ {h} : job'[g] = job[g]
          /\ live' = live /\ funds' = funds /\ tracker' = tracker
        BY <1>0, <1>6 DEF ApproveRead, RejectRead, Reviewable, TypeOK
    <2>2. Steady(h)
        BY <2>1 DEF Steady
    <2> QED
        BY <1>0, <2>2, GroundedStep
<1>7. ASSUME NEW h \in Handlers, ApproveCheck(h)
      PROVE  FundsInv'
    <2>1. job[h].claim \in Claims /\ Reviewing(h)
        BY <1>0, <1>7, JobFields DEF ApproveCheck, At, TypeOK, CheckJobs, Reviewing
    <2>2. /\ job'[h] = Idle \/ job'[h] = [step |-> "pay", claim |-> job[h].claim]
          /\ \A g \in Handlers \ {h} : job'[g] = job[g]
          /\ live' = live /\ funds' = funds /\ tracker' = tracker
        BY <1>0, <1>7 DEF ApproveCheck, Finish, TypeOK
    <2>3. tracker[job[h].claim] # "none"
        BY <2>1 DEF Grounded, FundsInv
    <2>4. Steady(h)
        BY <2>1, <2>2, <2>3 DEF Steady
    <2> QED
        BY <1>0, <2>4, GroundedStep
<1>8. ASSUME NEW h \in Handlers, ApproveCommit(h) \/ RejectWrite(h)
      PROVE  FundsInv'
    <2> DEFINE k == job[h].claim
    <2>1. k \in Claims /\ tracker[k] # "none"
        BY <1>0, <1>8, JobFields DEF ApproveCommit, RejectWrite, At, TypeOK, ReviewJobs,
            Grounded, Reviewing, FundsInv
    <2>2. CampaignOf[k[1]] \in live
        BY <2>1 DEF FundsInv
    <2> HIDE DEF k
    <2>3. /\ job'[h] = Idle
          /\ \A g \in Handlers \ {h} : job'[g] = job[g]
          /\ live' = live
          /\ \A c \in Campaigns : c \in live \/ funds'[c] = funds[c]
          /\ \A m \in Claims : tracker'[m] = tracker[m]
                \/ (tracker[m] # "none" /\ tracker'[m] # "none")
        BY <1>0, <1>8, <2>1, <2>2 DEF ApproveCommit, RejectWrite, Finish, TypeOK, k
    <2>4. Steady(h)
        BY <2>3 DEF Steady
    <2> QED
        BY <1>0, <2>4, GroundedStep
<1>9. ASSUME NEW h \in Handlers, Fail(h)
      PROVE  FundsInv'
    <2>1. /\ job'[h] = Idle
          /\ \A g \in Handlers \ {h} : job'[g] = job[g]
          /\ live' = live /\ funds' = funds /\ tracker' = tracker
        BY <1>0, <1>9 DEF Fail, Finish, TypeOK
    <2>2. Steady(h)
        BY <2>1 DEF Steady
    <2> QED
        BY <1>0, <2>2, GroundedStep
<1>10. ASSUME live' = live, funds' = funds, tracker' = tracker, job' = job
       PROVE  FundsInv'
    BY <1>0, <1>10 DEF Grounded, Drafting, Reviewing, FundsInv
<1>11. ASSUME NEW k \in Claims, StartTask(k) \/ SubmitTask(k)
       PROVE  FundsInv'
    <2>1. /\ live' = live /\ funds' = funds /\ job' = job
          /\ CampaignOf[k[1]] \in live
          /\ tracker'[k] # "none"
          /\ \A m \in Claims \ {k} : tracker'[m] = tracker[m]
        BY <1>0, <1>11 DEF StartTask, SubmitTask, TypeOK, FundsInv
    <2>2. ASSUME NEW h \in Handlers
          PROVE  Grounded(h)'
        <3>1. Reviewing(h) => job[h].claim \in Claims
            BY <1>0, JobFields DEF TypeOK, Reviewing, CheckJobs, ReviewJobs
        <3> QED
            BY <2>1, <3>1 DEF Grounded, Drafting, Reviewing, FundsInv
    <2> QED
        BY <1>0, <2>1, <2>2 DEF FundsInv
<1> QED
    BY <1>1, <1>2, <1>3, <1>4, <1>5, <1>6, <1>7, <1>8, <1>9, <1>10, <1>11
       DEF Next, HandlerStep, CreateStep, UpdateStep, ReviewStep, Retry, vars,
           LaunchBody, ApproveBody, RecordEntry, LoseEntry

LEMMA FundsInvariant == Spec => []FundsInv
<1>1. Init => FundsInv
    BY LayoutAssumption, AmountAssumption
       DEF Init, FundsInv, TypeOK, Jobs, TrackerStates, Wallets, Grounded, Drafting,
           Reviewing, Idle
<1> QED
    BY <1>1, FundsStep, PTL DEF Spec

LEMMA FiniteWallets == IsFiniteSet(Wallets) /\ IsFiniteSet(Campaigns)
BY FiniteAssumption, FS_Union DEF Wallets

\* One wallet and one campaign change, and together hold what they held.
LEMMA MoneyMoves ==
    ASSUME TypeOK, NEW w \in Wallets, NEW a \in Int, NEW c \in Campaigns, NEW b \in Int,
           wallet' = [wallet EXCEPT ![w] = a],
           funds' = [funds EXCEPT ![c] = b],
           a + b = wallet[w] + funds[c]
    PROVE  Money' = Money
<1>1. wallet \in [Wallets -> Int] /\ funds \in [Campaigns -> Int]
    BY DEF TypeOK
<1>2. /\ Total(wallet, Wallets) \in Int
      /\ Total(wallet', Wallets) = Total(wallet, Wallets) + a - wallet[w]
    BY <1>1, FiniteWallets, TotalOfChange
<1>3. /\ Total(funds, Campaigns) \in Int
      /\ Total(funds', Campaigns) = Total(funds, Campaigns) + b - funds[c]
    BY <1>1, FiniteWallets, TotalOfChange
<1>4. wallet[w] \in Int /\ funds[c] \in Int
    BY <1>1
<1> QED
    BY <1>2, <1>3, <1>4 DEF Money

LEMMA MoneyStep ==
    FundsInv /\ [Next]_vars => Money' = Money \/ \E h \in Handlers : UpdateWrite(h)
<1> SUFFICES ASSUME FundsInv, [Next]_vars, ~ \E h \in Handlers : UpdateWrite(h)
             PROVE  Money' = Money
    OBVIOUS
<1> USE DEF FundsInv
<1>1. ASSUME NEW h \in Handlers, LaunchCommit(h)
      PROVE  Money' = Money
    <2> DEFINE c == job[h].camp
               n == job[h].amount
    <2>1. job[h] \in Jobs /\ job[h].step = "launched"
        BY <1>1 DEF LaunchCommit, At, TypeOK
    <2>2. c \in Campaigns /\ n \in Int /\ Owner[c] \in Wallets
        <3>1. c \in Campaigns /\ n \in Amounts
            BY <2>1, JobFields
        <3> HIDE DEF c, n
        <3>2. n \in Int
            BY <3>1, AmountAssumption
        <3>3. Owner[c] \in Wallets
            BY <3>1, LayoutAssumption DEF Wallets
        <3> QED
            BY <3>1, <3>2, <3>3
    <2>3. funds[c] = 0
        BY <2>1, <2>2 DEF Grounded, Drafting
    <2> DEFINE a == wallet[Owner[c]] - n
    <2>4. wallet[Owner[c]] \in Int
        BY <2>2 DEF TypeOK
    <2>5. a \in Int /\ a + n = wallet[Owner[c]] + funds[c]
        BY <2>2, <2>3, <2>4
    <2>6. wallet' = [wallet EXCEPT ![Owner[c]] = a] /\ funds' = [funds EXCEPT ![c] = n]
        BY <1>1 DEF LaunchCommit
    <2> HIDE DEF a, c, n
    <2> QED
        BY <2>2, <2>5, <2>6, MoneyMoves
<1>2. ASSUME NEW h \in Handlers, ApproveCommit(h)
      PROVE  Money' = Money
    <2> DEFINE k == job[h].claim
               c == CampaignOf[k[1]]
               a == wallet[k[2]] + reward[k[1]]
               b == funds[c] - reward[k[1]]
    <2>1. k \in Claims
        BY <1>2, JobFields DEF ApproveCommit, At, TypeOK, ReviewJobs
    <2>2. c \in Campaigns /\ k[2] \in Wallets /\ reward[k[1]] \in Int
        BY <2>1, LayoutAssumption DEF Claims, Wallets, TypeOK
    <2>3. wallet[k[2]] \in Int /\ funds[c] \in Int
        BY <2>2 DEF TypeOK
    <2>4. a \in Int /\ b \in Int /\ a + b = wallet[k[2]] + funds[c]
        BY <2>2, <2>3
    <2>5. wallet' = [wallet EXCEPT ![k[2]] = a] /\ funds' = [funds EXCEPT ![c] = b]
        BY <1>2 DEF ApproveCommit
    <2> HIDE DEF a, b, c, k
    <2> QED
        BY <2>2, <2>4, <2>5, MoneyMoves
<1>3. ASSUME UNCHANGED <<wallet, funds>>
      PROVE  Money' = Money
    BY <1>3 DEF Money
<1> QED
    BY <1>1, <1>2, <1>3
       DEF Next, HandlerStep, CreateStep, UpdateStep, ReviewStep, BeginCreate, LaunchBody,
           UpdateRead, ApproveRead, RejectRead, ApproveCheck, ApproveBody, RejectWrite,
           Fail, Retry, RecordEntry, LoseEntry, StartTask, SubmitTask, vars

\* Whatever requests overlap, fail or are retried, updateBrandTask is the only
\* request that makes money or loses some: every other step moves as much out
\* of wallets as into campaigns, or back.
OnlyUpdatesMint == [][Money' = Money \/ \E h \in Handlers : UpdateWrite(h)]_vars

\* Money is only moved, in every behaviour: LaunchCommit takes from the wallet
\* what it puts into the campaign, and ApproveCommit pays out of the campaign
\* what it adds to the member's wallet.
THEOREM MoneyOnlyMoves == Spec => OnlyUpdatesMint
<1> QED
    BY FundsInvariant, MoneyStep, PTL DEF Spec, OnlyUpdatesMint

\* Without updateBrandTask all the money there is is what there was at first.
THEOREM MoneyIsConserved ==
    ASSUME TopUps = {}
    PROVE  Spec => []MoneyConserved
<1> DEFINE NoUpdate == \A h \in Handlers : job[h].step # "update"
<1>1. Init => NoUpdate /\ MoneyConserved
    <2> SUFFICES ASSUME Init PROVE NoUpdate /\ MoneyConserved
        OBVIOUS
    <2>1. Total(funds, Campaigns) = 0
        BY FiniteWallets, TotalOfZeros DEF Init
    <2>2. Total(wallet, Wallets) \in Int /\ wallet = InitialBalance
        BY FiniteWallets, TotalIsInt, AmountAssumption DEF Init
    <2> QED
        BY <2>1, <2>2 DEF Init, Idle, MoneyConserved, Money
<1>2. TypeOK /\ TypeOK' /\ NoUpdate /\ [Next]_vars => NoUpdate'
    <2> SUFFICES ASSUME TypeOK, NoUpdate, [Next]_vars
                 PROVE  NoUpdate'
        OBVIOUS
    <2>1. ASSUME NEW h \in Handlers, HandlerStep(h)
          PROVE  \A g \in Handlers : job'[g] = job[g] \/ job'[g].step # "update"
        <3>1. ASSUME NEW s \in {"launch", "launched", "pay", "commit"}, At(h, s),
                     NEW t \in {"launch", "launched", "pay", "commit"}, Goto(h, t)
              PROVE  \A g \in Handlers : job'[g] = job[g] \/ job'[g].step # "update"
            <4>1. job[h] \in LaunchJobs \cup ReviewJobs
                BY <3>1, JobFields DEF At, TypeOK
            <4>2. job'[h].step = t
                BY <3>1, <4>1 DEF Goto, TypeOK, LaunchJobs, ReviewJobs
            <4> QED
                BY <3>1, <4>2 DEF Goto, TypeOK
        <3>2. ASSUME Finish(h)
              PROVE  \A g \in Handlers : job'[g] = job[g] \/ job'[g].step # "update"
            BY <3>2 DEF Finish, TypeOK, Idle
        <3>3. ~ \E c \in Campaigns : UpdateRead(h, c)
            BY DEF UpdateRead
        <3>4. CASE \/ \E c \in Campaigns : BeginCreate(h, c)
                   \/ \E k \in Claims : ApproveRead(h, k) \/ RejectRead(h, k)
                   \/ ApproveCheck(h)
            BY <3>2, <3>4 DEF BeginCreate, ApproveRead, RejectRead, ApproveCheck, TypeOK
        <3> QED
            BY <2>1, <3>1, <3>2, <3>3, <3>4
               DEF HandlerStep, CreateStep, UpdateStep, ReviewStep, LaunchBody,
                   LaunchCommit, UpdateWrite, ApproveBody, ApproveCommit, RejectWrite,
                   Fail, Retry
    <2>2. CASE UNCHANGED job
        BY <2>2
    <2> QED
        BY <2>1, <2>2 DEF Next, vars, RecordEntry, LoseEntry, StartTask, SubmitTask
<1>3. FundsInv => TypeOK
    BY DEF FundsInv
<1>4. /\ FundsInv /\ NoUpdate /\ MoneyConserved /\ [Next]_vars => MoneyConserved'
    BY MoneyStep DEF MoneyConserved, UpdateWrite, At
<1> QED
    BY <1>1, <1>2, <1>3, <1>4, FundsInvariant, PTL DEF Spec

-------------------------------------------------------------------------------
(***************************************************************************)
(* Which overlap breaks what.  A check that a request made still holds     *)
(* when the request writes, unless another request that concerns the same  *)
(* thing was under way at the same time: another campaign of the same      *)
(* brand, another payment out of or top-up of the same campaign, another   *)
(* review of the same submission.  Requests that overlap otherwise do no   *)
(* harm, however many there are and whichever handlers serve them.         *)
(***************************************************************************)

\* A step of one handler is no step of another.
LEMMA OthersRest ==
    ASSUME TypeOK, NEW h \in Handlers, HandlerStep(h), NEW g \in Handlers \ {h}
    PROVE  job'[g] = job[g]
<1>1. PICK j : job' = [job EXCEPT ![h] = j]
    BY DEF HandlerStep, CreateStep, UpdateStep, ReviewStep, BeginCreate, LaunchBody,
        LaunchCommit, UpdateRead, UpdateWrite, ApproveRead, RejectRead, ApproveCheck,
        ApproveBody, ApproveCommit, RejectWrite, Fail, Retry, Goto, Finish
<1> QED
    BY <1>1 DEF TypeOK

\* Going on to the next step of a transaction, or back to its body, keeps the
\* rest of the job.
LEMMA LaunchGoesOn ==
    ASSUME TypeOK, NEW h \in Handlers, Drafting(h),
           NEW s \in {"launch", "launched"}, Goto(h, s)
    PROVE  /\ job'[h].step = s /\ job'[h].camp = job[h].camp
           /\ job'[h].amount = job[h].amount
<1>1. job[h] \in LaunchJobs
    BY JobFields DEF Drafting, TypeOK
<1> QED
    BY <1>1 DEF Goto, TypeOK, LaunchJobs

LEMMA ReviewGoesOn ==
    ASSUME TypeOK, NEW h \in Handlers, job[h].step \in {"pay", "commit"},
           NEW s \in {"pay", "commit"}, Goto(h, s)
    PROVE  job'[h].step = s /\ job'[h].claim = job[h].claim
<1>1. job[h] \in ReviewJobs
    BY JobFields DEF TypeOK
<1> QED
    BY <1>1 DEF Goto, TypeOK, ReviewJobs

-------------------------------------------------------------------------------
(* Reviews of the same submission *)

\* A review that passed its check is of a submission still to be reviewed.
ReviewKnown(h) ==
    job[h].step \in {"pay", "commit", "reject"} => tracker[job[h].claim] = "pending"

ReviewInv == TypeOK /\ (\A h \in Handlers : ReviewKnown(h)) /\ PaidAtMostOnce

\* Only a commit of a review writes a tracker that was handed in.
LEMMA TrackerSteps ==
    ASSUME TypeOK, [Next]_vars, NEW k \in Claims
    PROVE  \/ tracker'[k] = tracker[k] /\ paid'[k] = paid[k]
           \/ /\ tracker[k] \in {"none", "started"}
              /\ tracker'[k] \in {"started", "pending"} /\ paid'[k] = paid[k]
           \/ \E h \in Handlers : /\ ApproveCommit(h) /\ job[h].claim = k
                                  /\ tracker'[k] = "approved" /\ paid'[k] = paid[k] + 1
           \/ \E h \in Handlers : /\ RejectWrite(h) /\ job[h].claim = k
                                  /\ tracker'[k] = "rejected" /\ paid'[k] = paid[k]
<1>1. ASSUME NEW h \in Handlers, ApproveCommit(h)
      PROVE  \/ tracker'[k] = tracker[k] /\ paid'[k] = paid[k]
             \/ /\ job[h].claim = k
                /\ tracker'[k] = "approved" /\ paid'[k] = paid[k] + 1
    BY <1>1 DEF ApproveCommit, TypeOK
<1>2. ASSUME NEW h \in Handlers, RejectWrite(h)
      PROVE  \/ tracker'[k] = tracker[k] /\ paid'[k] = paid[k]
             \/ /\ job[h].claim = k
                /\ tracker'[k] = "rejected" /\ paid'[k] = paid[k]
    BY <1>2 DEF RejectWrite, TypeOK
<1>3. ASSUME NEW m \in Claims, StartTask(m) \/ SubmitTask(m)
      PROVE  \/ tracker'[k] = tracker[k] /\ paid'[k] = paid[k]
             \/ /\ tracker[k] \in {"none", "started"}
                /\ tracker'[k] \in {"started", "pending"} /\ paid'[k] = paid[k]
    BY <1>3 DEF StartTask, SubmitTask, TypeOK
<1>4. ASSUME tracker' = tracker, paid' = paid
      PROVE  tracker'[k] = tracker[k] /\ paid'[k] = paid[k]
    BY <1>4
<1> QED
    BY <1>1, <1>2, <1>3, <1>4
       DEF Next, HandlerStep, CreateStep, UpdateStep, ReviewStep, BeginCreate, LaunchBody,
           LaunchCommit, UpdateRead, UpdateWrite, ApproveRead, RejectRead, ApproveCheck,
           ApproveBody, Fail, Retry, RecordEntry, LoseEntry, vars

\* Whose review passes its check now found its submission pending.
LEMMA ReviewJobSteps ==
    ASSUME TypeOK, NEW h \in Handlers, ReviewKnown(h), HandlerStep(h),
           job'[h].step \in {"pay", "commit", "reject"}
    PROVE  /\ job'[h].claim \in Claims /\ tracker[job'[h].claim] = "pending"
           /\ tracker' = tracker
<1>1. CASE \E c \in Campaigns : BeginCreate(h, c) \/ UpdateRead(h, c)
    BY <1>1 DEF BeginCreate, UpdateRead, TypeOK
<1>2. CASE \E k \in Claims : ApproveRead(h, k) \/ RejectRead(h, k)
    BY <1>2 DEF ApproveRead, RejectRead, TypeOK
<1>3. CASE ApproveCheck(h)
    <2>1. job[h].claim \in Claims
        BY <1>3, JobFields DEF ApproveCheck, At, TypeOK, CheckJobs
    <2> QED
        BY <1>3, <2>1 DEF ApproveCheck, MayPay, Finish, Idle, TypeOK
<1>4. CASE Finish(h)
    BY <1>4 DEF Finish, Idle, TypeOK
<1>5. CASE Drafting(h) /\ (Goto(h, "launch") \/ Goto(h, "launched"))
    BY <1>5, LaunchGoesOn
<1>6. CASE /\ job[h].step \in {"pay", "commit"}
           /\ Goto(h, "pay") \/ Goto(h, "commit")
           /\ tracker' = tracker
    <2>1. job[h].claim \in Claims
        BY <1>6, JobFields DEF TypeOK, ReviewJobs
    <2> QED
        BY <1>6, <2>1, ReviewGoesOn DEF ReviewKnown
<1> QED
    BY <1>1, <1>2, <1>3, <1>4, <1>5, <1>6
       DEF HandlerStep, CreateStep, UpdateStep, ReviewStep, LaunchBody, LaunchCommit,
           UpdateWrite, ApproveBody, ApproveCommit, RejectWrite, Fail, Retry, At, Drafting

LEMMA ReviewStepKeeps ==
    ReviewInv /\ ReviewsApart /\ [Next]_vars => ReviewInv'
<1> SUFFICES ASSUME ReviewInv, ReviewsApart, [Next]_vars
             PROVE  ReviewInv'
    OBVIOUS
<1>1. TypeOK /\ TypeOK'
    BY TypeStep DEF ReviewInv
<1>2. ASSUME NEW h \in Handlers, ApproveCommit(h) \/ RejectWrite(h)
      PROVE  /\ Reviewing(h) /\ job[h].claim \in Claims /\ tracker[job[h].claim] = "pending"
             /\ HandlerStep(h) /\ job'[h] = Idle
    BY <1>1, <1>2, JobFields DEF ApproveCommit, RejectWrite, At, TypeOK, ReviewJobs,
        Reviewing, ReviewInv, ReviewKnown, HandlerStep, ReviewStep, Finish
<1>3. PaidAtMostOnce'
    <2> SUFFICES ASSUME NEW k \in Claims
                 PROVE  paid'[k] <= 1 /\ (paid'[k] = 1 <=> tracker'[k] = "approved")
        BY DEF PaidAtMostOnce
    <2>1. paid[k] \in Nat /\ paid[k] <= 1 /\ (paid[k] = 1 <=> tracker[k] = "approved")
        BY <1>1 DEF ReviewInv, PaidAtMostOnce, TypeOK
    <2> QED
        BY <1>1, <1>2, <2>1, TrackerSteps
<1>4. ASSUME NEW h \in Handlers
      PROVE  ReviewKnown(h)'
    <2> SUFFICES ASSUME job'[h].step \in {"pay", "commit", "reject"}
                 PROVE  tracker'[job'[h].claim] = "pending"
        BY DEF ReviewKnown
    <2>1. ReviewKnown(h)
        BY DEF ReviewInv
    <2>2. CASE HandlerStep(h)
        BY <1>1, <2>1, <2>2, ReviewJobSteps
    <2>3. CASE ~HandlerStep(h)
        <3> DEFINE k == job[h].claim
        <3>1. job'[h] = job[h]
            BY <1>1, <2>3, OthersRest DEF Next, RecordEntry, LoseEntry, StartTask,
                SubmitTask, vars
        <3>2. Reviewing(h) /\ k \in Claims /\ tracker[k] = "pending"
            BY <1>1, <2>1, <3>1, JobFields DEF ReviewKnown, Reviewing, TypeOK, ReviewJobs
        <3>3. ASSUME NEW g \in Handlers, ApproveCommit(g) \/ RejectWrite(g)
              PROVE  job[g].claim # k
            BY <1>2, <2>3, <3>2, <3>3 DEF ReviewsApart
        <3>4. tracker'[k] = tracker[k]
            BY <1>1, <3>2, <3>3, TrackerSteps
        <3> QED
            BY <3>1, <3>2, <3>4
    <2> QED
        BY <2>2, <2>3
<1> QED
    BY <1>1, <1>3, <1>4 DEF ReviewInv

LEMMA ReviewInvariant == Spec /\ []ReviewsApart => []ReviewInv
<1>1. Init => ReviewInv
    BY InitTypes DEF Init, ReviewInv, ReviewKnown, PaidAtMostOnce, Idle
<1> QED
    BY <1>1, ReviewStepKeeps, PTL DEF Spec

\* While no two reviews of one submission overlap, a submission is paid for at
\* most once, and exactly when its tracker says approved.
THEOREM PaysOnceIfApart == Spec /\ []ReviewsApart => []PaidAtMostOnce
<1>1. ReviewInv => PaidAtMostOnce
    BY DEF ReviewInv
<1> QED
    BY <1>1, ReviewInvariant, PTL

LEMMA FinalStep ==
    ReviewInv /\ [Next]_vars =>
        [\A k \in Claims : tracker[k] \in {"approved", "rejected"} => tracker'[k] = tracker[k]]_vars
<1> SUFFICES ASSUME ReviewInv, [Next]_vars, NEW k \in Claims,
                    tracker[k] \in {"approved", "rejected"}
             PROVE  tracker'[k] = tracker[k]
    BY DEF vars
<1>1. ASSUME NEW h \in Handlers, ApproveCommit(h) \/ RejectWrite(h)
      PROVE  tracker[job[h].claim] = "pending"
    BY <1>1 DEF ApproveCommit, RejectWrite, At, ReviewInv, ReviewKnown
<1> QED
    BY <1>1, TrackerSteps DEF ReviewInv

\* While no two reviews of one submission overlap, no review changes an outcome.
THEOREM OutcomeIsFinalIfApart == Spec /\ []ReviewsApart => ReviewIsFinal
<1> QED
    BY ReviewInvariant, FinalStep, PTL DEF Spec, ReviewIsFinal

-------------------------------------------------------------------------------
(* Payments out of, and top-ups of, the same campaign *)

\* An update still writes what the present amount and the request make, and a
\* payment that passed its check is still covered.
SpendKnown(h) ==
    /\ job[h].step = "update" =>
        \E topUp \in TopUps : job[h].total = ToppedUp(topUp, funds[job[h].camp])
    /\ job[h].step = "check" => job[h].seen = funds[CampaignAt(h)]
    /\ job[h].step \in {"pay", "commit"} => reward[job[h].claim[1]] <= funds[CampaignAt(h)]

SpendInv == FundsInv /\ \A h \in Handlers : SpendKnown(h)

\* A request that spends is about a campaign that is live.
LEMMA SpendsLive ==
    ASSUME FundsInv, NEW h \in Handlers, Spending(h)
    PROVE  /\ CampaignAt(h) \in live
           /\ job[h].step = "update" => job[h].camp \in Campaigns /\ job[h].total \in Int
           /\ job[h].step # "update" => /\ job[h].claim \in Claims
                                        /\ job[h].claim[1] \in SubTasks
                                        /\ CampaignOf[job[h].claim[1]] \in Campaigns
<1> USE DEF FundsInv
<1>1. CASE job[h].step = "update"
    BY <1>1, JobFields DEF UpdateJobs, CampaignAt, Grounded, TypeOK
<1>2. CASE job[h].step \in {"check", "pay", "commit"}
    <2>1. job[h].claim \in Claims
        BY <1>2, JobFields DEF TypeOK, CheckJobs, ReviewJobs
    <2>2. tracker[job[h].claim] # "none"
        BY <1>2 DEF Grounded, Reviewing
    <2> QED
        BY <1>2, <2>1, <2>2, LayoutAssumption DEF CampaignAt, Claims
<1> QED
    BY <1>1, <1>2 DEF Spending

\* Who writes the amount of a campaign, and what.
LEMMA FundsSteps ==
    ASSUME TypeOK, [Next]_vars, NEW c \in Campaigns
    PROVE  \/ /\ funds'[c] = funds[c]
              /\ \A t \in SubTasksOf(c) : reward'[t] = reward[t]
           \/ \E h \in Handlers : /\ LaunchCommit(h) /\ job[h].camp = c
                                  /\ funds'[c] \in Int
           \/ \E h \in Handlers : /\ UpdateWrite(h) /\ job[h].camp = c
                                  /\ funds'[c] = job[h].total
           \/ \E h \in Handlers : /\ ApproveCommit(h) /\ CampaignOf[job[h].claim[1]] = c
                                  /\ funds'[c] = funds[c] - reward[job[h].claim[1]]
<1>1. ASSUME NEW h \in Handlers, LaunchCommit(h)
      PROVE  \/ /\ funds'[c] = funds[c]
                /\ \A t \in SubTasksOf(c) : reward'[t] = reward[t]
             \/ job[h].camp = c /\ funds'[c] \in Int
    <2>1. job[h].amount \in Int
        BY <1>1, JobFields, AmountAssumption DEF LaunchCommit, At, TypeOK
    <2> QED
        BY <1>1, <2>1 DEF LaunchCommit, TypeOK, SubTasksOf
<1>2. ASSUME NEW h \in Handlers, UpdateWrite(h)
      PROVE  \/ /\ funds'[c] = funds[c]
                /\ \A t \in SubTasksOf(c) : reward'[t] = reward[t]
             \/ job[h].camp = c /\ funds'[c] = job[h].total
    BY <1>2 DEF UpdateWrite, TypeOK
<1>3. ASSUME NEW h \in Handlers, ApproveCommit(h)
      PROVE  \/ /\ funds'[c] = funds[c]
                /\ \A t \in SubTasksOf(c) : reward'[t] = reward[t]
             \/ /\ CampaignOf[job[h].claim[1]] = c
                /\ funds'[c] = funds[c] - reward[job[h].claim[1]]
    BY <1>3 DEF ApproveCommit, TypeOK
<1>4. ASSUME funds' = funds, reward' = reward
      PROVE  /\ funds'[c] = funds[c]
             /\ \A t \in SubTasksOf(c) : reward'[t] = reward[t]
    BY <1>4
<1> QED
    BY <1>1, <1>2, <1>3, <1>4
       DEF Next, HandlerStep, CreateStep, UpdateStep, ReviewStep, BeginCreate, LaunchBody,
           UpdateRead, ApproveRead, RejectRead, ApproveCheck, ApproveBody, RejectWrite,
           Fail, Retry, RecordEntry, LoseEntry, StartTask, SubmitTask, vars

\* A request that goes on to spend has changed no amount, and its check was
\* against the present one.
LEMMA SpendJobSteps ==
    ASSUME SpendInv, NEW h \in Handlers, HandlerStep(h), Spending(h)'
    PROVE  SpendKnown(h)' /\ funds' = funds /\ reward' = reward
<1> USE DEF SpendInv, FundsInv
<1>1. CASE \E c \in Campaigns : BeginCreate(h, c)
    BY <1>1 DEF BeginCreate, TypeOK, Spending
<1>2. CASE \E c \in Campaigns : UpdateRead(h, c)
    <2>1. PICK c \in Campaigns, topUp \in TopUps :
            /\ job' = [job EXCEPT ![h] = [step |-> "update", camp |-> c,
                                          total |-> ToppedUp(topUp, funds[c])]]
            /\ funds' = funds /\ reward' = reward
        BY <1>2 DEF UpdateRead
    <2>2. job'[h] = [step |-> "update", camp |-> c, total |-> ToppedUp(topUp, funds[c])]
        BY <2>1 DEF TypeOK
    <2> QED
        BY <2>1, <2>2 DEF SpendKnown
<1>3. CASE \E k \in Claims : ApproveRead(h, k) \/ RejectRead(h, k)
    BY <1>3 DEF ApproveRead, RejectRead, TypeOK, Spending, SpendKnown, CampaignAt
<1>4. CASE ApproveCheck(h)
    <2>1. /\ MayPay(job[h]) /\ job'[h] = [step |-> "pay", claim |-> job[h].claim]
          /\ funds' = funds /\ reward' = reward
        BY <1>4 DEF ApproveCheck, Finish, Idle, TypeOK, Spending
    <2>2. job[h].step = "check" /\ job[h].seen = funds[CampaignAt(h)]
        BY <1>4 DEF ApproveCheck, At, SpendKnown
    <2> QED
        BY <2>1, <2>2 DEF SpendKnown, MayPay, CampaignAt
<1>5. CASE Finish(h)
    BY <1>5 DEF Finish, Idle, TypeOK, Spending
<1>6. CASE Drafting(h) /\ (Goto(h, "launch") \/ Goto(h, "launched"))
    BY <1>6, LaunchGoesOn DEF Spending
<1>7. CASE /\ job[h].step \in {"pay", "commit"}
           /\ Goto(h, "pay") \/ Goto(h, "commit")
           /\ funds' = funds /\ reward' = reward
    <2>1. job'[h].step \in {"pay", "commit"} /\ job'[h].claim = job[h].claim
        BY <1>7, ReviewGoesOn
    <2> QED
        BY <1>7, <2>1 DEF SpendKnown, CampaignAt
<1> QED
    BY <1>1, <1>2, <1>3, <1>4, <1>5, <1>6, <1>7
       DEF HandlerStep, CreateStep, UpdateStep, ReviewStep, LaunchBody, LaunchCommit,
           UpdateWrite, ApproveBody, ApproveCommit, RejectWrite, Fail, Retry, At, Drafting

LEMMA SpendStep == SpendInv /\ SpendsApart /\ [Next]_vars => SpendInv'
<1> SUFFICES ASSUME SpendInv, SpendsApart, [Next]_vars
             PROVE  SpendInv'
    OBVIOUS
<1>1. FundsInv /\ FundsInv' /\ TypeOK
    BY FundsStep DEF SpendInv, FundsInv
<1>2. ASSUME NEW h \in Handlers, UpdateWrite(h)
      PROVE  /\ Spending(h) /\ CampaignAt(h) = job[h].camp
             /\ job'[h] = Idle /\ HandlerStep(h)
    BY <1>1, <1>2, SpendsLive DEF UpdateWrite, At, Spending, CampaignAt, Finish, TypeOK,
        HandlerStep, UpdateStep
<1>3. ASSUME NEW h \in Handlers, ApproveCommit(h)
      PROVE  /\ Spending(h) /\ CampaignAt(h) = CampaignOf[job[h].claim[1]]
             /\ job'[h] = Idle /\ HandlerStep(h)
    BY <1>1, <1>3, SpendsLive DEF ApproveCommit, At, Spending, CampaignAt, Finish, TypeOK,
        HandlerStep, ReviewStep
<1>4. ASSUME NEW h \in Handlers, LaunchCommit(h)
      PROVE  job[h].camp \notin live
    BY <1>4, <1>1 DEF LaunchCommit, At, FundsInv, Grounded, Drafting
<1>5. ASSUME NEW h \in Handlers
      PROVE  SpendKnown(h)'
    <2>1. CASE ~Spending(h)'
        BY <2>1 DEF Spending, SpendKnown
    <2>2. CASE HandlerStep(h) /\ Spending(h)'
        BY <2>2, SpendJobSteps
    <2>3. CASE ~HandlerStep(h) /\ Spending(h)'
        <3> DEFINE c == CampaignAt(h)
        <3>1. job'[h] = job[h]
            BY <1>1, <2>3, OthersRest DEF Next, RecordEntry, LoseEntry, StartTask,
                SubmitTask, vars
        <3>2. Spending(h) /\ CampaignAt(h)' = c
            BY <2>3, <3>1 DEF Spending, CampaignAt
        <3>3. c \in live /\ c \in Campaigns
            BY <1>1, <3>2, SpendsLive DEF TypeOK
        <3>4. ASSUME NEW g \in Handlers, UpdateWrite(g) \/ ApproveCommit(g)
              PROVE  CampaignAt(g) # c
            BY <1>2, <1>3, <2>3, <3>2, <3>4 DEF SpendsApart
        <3>5. funds'[c] = funds[c] /\ \A t \in SubTasksOf(c) : reward'[t] = reward[t]
            <4> HIDE DEF c
            <4> QED
                BY <1>1, <1>2, <1>3, <1>4, <3>3, <3>4, FundsSteps
        <3>6. job[h].step \in {"pay", "commit"} => job[h].claim[1] \in SubTasksOf(c)
            BY <1>1, <3>2, SpendsLive DEF SubTasksOf, CampaignAt
        <3>7. job[h].step = "update" => job[h].camp = c
            BY DEF CampaignAt
        <3>8. SpendKnown(h)
            BY DEF SpendInv
        <3> HIDE DEF c
        <3> QED
            BY <3>1, <3>2, <3>5, <3>6, <3>7, <3>8 DEF SpendKnown, c
    <2> QED
        BY <2>1, <2>2, <2>3
<1> QED
    BY <1>1, <1>5 DEF SpendInv

LEMMA SpendInvariant == Spec /\ []SpendsApart => []SpendInv
<1>1. FundsInv /\ Init => SpendInv
    BY DEF Init, SpendInv, SpendKnown, Idle
<1> QED
    BY <1>1, FundsInvariant, SpendStep, PTL DEF Spec

LEMMA PaymentStep ==
    SpendInv /\ [Next]_vars =>
        [\A k \in Claims : paid'[k] > paid[k] => reward[k[1]] <= funds[CampaignOf[k[1]]]]_vars
<1> SUFFICES ASSUME SpendInv, [Next]_vars, NEW k \in Claims, paid'[k] > paid[k]
             PROVE  reward[k[1]] <= funds[CampaignOf[k[1]]]
    BY DEF vars
<1>1. TypeOK
    BY DEF SpendInv, FundsInv
<1>2. paid[k] \in Nat
    BY <1>1 DEF TypeOK
<1>3. PICK h \in Handlers : ApproveCommit(h) /\ job[h].claim = k
    BY <1>1, <1>2, TrackerSteps
<1> QED
    BY <1>3 DEF ApproveCommit, At, SpendInv, SpendKnown, CampaignAt

\* While no two payments out of, or updates of, one campaign overlap, each
\* reward is committed out of money the campaign has at the commit, whatever
\* sign the amounts have and whatever else overlaps, fails or is retried.
THEOREM PaidFromFundsIfApart == Spec /\ []SpendsApart => PaidFromFunds
<1> QED
    BY SpendInvariant, PaymentStep, PTL DEF Spec, PaidFromFunds

-------------------------------------------------------------------------------
(* Campaigns of the same brand *)

\* A create request is still covered by the wallet it was checked against.
DraftKnown(h) ==
    /\ Drafting(h) /\ Owner[job[h].camp] \notin NoBalance =>
            job[h].amount <= wallet[Owner[job[h].camp]]
    /\ job[h].step = "launched" => Owner[job[h].camp] \notin NoBalance

DraftInv == TypeOK /\ (\A h \in Handlers : DraftKnown(h)) /\ WalletSolvent

LEMMA DraftOwner ==
    ASSUME TypeOK, NEW h \in Handlers, Drafting(h)
    PROVE  /\ job[h].camp \in Campaigns /\ job[h].amount \in Int
           /\ Owner[job[h].camp] \in Brands
BY JobFields, LayoutAssumption, AmountAssumption DEF Drafting, TypeOK

\* Who takes from the wallet of a brand.
LEMMA WalletSteps ==
    ASSUME TypeOK, [Next]_vars, NEW b \in Brands
    PROVE  \/ wallet'[b] = wallet[b]
           \/ \E h \in Handlers : /\ LaunchCommit(h) /\ Owner[job[h].camp] = b
                                  /\ wallet'[b] = wallet[b] - job[h].amount
<1>1. ASSUME NEW h \in Handlers, LaunchCommit(h)
      PROVE  \/ wallet'[b] = wallet[b]
             \/ Owner[job[h].camp] = b /\ wallet'[b] = wallet[b] - job[h].amount
    BY <1>1 DEF LaunchCommit, TypeOK, Wallets
<1>2. ASSUME NEW h \in Handlers, ApproveCommit(h)
      PROVE  wallet'[b] = wallet[b]
    <2>1. job[h].claim[2] \in Members
        BY <1>2, JobFields DEF ApproveCommit, At, TypeOK, ReviewJobs, Claims
    <2> QED
        BY <1>2, <2>1, LayoutAssumption DEF ApproveCommit, TypeOK, Wallets
<1>3. ASSUME wallet' = wallet
      PROVE  wallet'[b] = wallet[b]
    BY <1>3
<1> QED
    BY <1>1, <1>2, <1>3
       DEF Next, HandlerStep, CreateStep, UpdateStep, ReviewStep, BeginCreate, LaunchBody,
           UpdateRead, UpdateWrite, ApproveRead, RejectRead, ApproveCheck, ApproveBody,
           RejectWrite, Fail, Retry, RecordEntry, LoseEntry, StartTask, SubmitTask, vars

LEMMA DraftJobSteps ==
    ASSUME DraftInv, NEW h \in Handlers, HandlerStep(h), Drafting(h)'
    PROVE  DraftKnown(h)' /\ wallet' = wallet
<1> USE DEF DraftInv
<1>1. CASE \E c \in Campaigns : BeginCreate(h, c)
    <2>1. PICK c \in Campaigns : BeginCreate(h, c)
        BY <1>1
    <2>2. PICK amount \in Amounts :
            /\ WalletCovers(Owner[c], amount)
            /\ job'[h].step = "launch" /\ job'[h].camp = c /\ job'[h].amount = amount
        BY <2>1 DEF BeginCreate, TypeOK
    <2>3. amount \in Int /\ wallet[Owner[c]] \in Int /\ wallet[Owner[c]] >= 0
        BY LayoutAssumption, AmountAssumption DEF TypeOK, Wallets, WalletSolvent
    <2>4. wallet' = wallet
        BY <2>1 DEF BeginCreate
    <2> QED
        BY <2>2, <2>3, <2>4 DEF DraftKnown, WalletCovers
<1>2. CASE LaunchBody(h)
    <2>1. /\ job'[h].camp = job[h].camp /\ job'[h].amount = job[h].amount
          /\ Drafting(h)
        BY <1>2, LaunchGoesOn DEF LaunchBody, At, Drafting
    <2> QED
        BY <1>2, <2>1 DEF LaunchBody, DraftKnown
<1>3. CASE At(h, "launched") /\ Goto(h, "launch") /\ wallet' = wallet
    <2>1. /\ job'[h].camp = job[h].camp /\ job'[h].amount = job[h].amount
          /\ job'[h].step = "launch" /\ Drafting(h)
        BY <1>3, LaunchGoesOn DEF At, Drafting
    <2> QED
        BY <1>3, <2>1 DEF DraftKnown
<1>4. CASE Finish(h)
    BY <1>4 DEF Finish, Idle, TypeOK, Drafting
<1>5. CASE \/ \E c \in Campaigns : UpdateRead(h, c)
           \/ \E k \in Claims : ApproveRead(h, k) \/ RejectRead(h, k)
           \/ ApproveCheck(h)
    BY <1>4, <1>5 DEF UpdateRead, ApproveRead, RejectRead, ApproveCheck, TypeOK, Drafting
<1>6. CASE job[h].step \in {"pay", "commit"} /\ (Goto(h, "pay") \/ Goto(h, "commit"))
    BY <1>6, ReviewGoesOn DEF Drafting
<1> QED
    BY <1>1, <1>2, <1>3, <1>4, <1>5, <1>6
       DEF HandlerStep, CreateStep, UpdateStep, ReviewStep, LaunchCommit,
           UpdateWrite, ApproveBody, ApproveCommit, RejectWrite, Fail, Retry, At

LEMMA DraftStep == DraftInv /\ CreatesApart /\ [Next]_vars => DraftInv'
<1> SUFFICES ASSUME DraftInv, CreatesApart, [Next]_vars
             PROVE  DraftInv'
    OBVIOUS
<1>1. TypeOK /\ TypeOK'
    BY TypeStep DEF DraftInv
<1>2. ASSUME NEW h \in Handlers, LaunchCommit(h)
      PROVE  /\ Drafting(h) /\ HandlerStep(h) /\ job'[h] = Idle
             /\ job[h].amount \in Int
             /\ job[h].amount <= wallet[Owner[job[h].camp]]
    BY <1>1, <1>2, DraftOwner DEF LaunchCommit, At, Drafting, HandlerStep, CreateStep,
        Finish, TypeOK, DraftInv, DraftKnown
<1>3. WalletSolvent'
    <2> SUFFICES ASSUME NEW b \in Brands
                 PROVE  wallet'[b] >= 0
        BY DEF WalletSolvent
    <2>1. wallet[b] \in Int /\ wallet[b] >= 0
        BY <1>1 DEF TypeOK, DraftInv, WalletSolvent, Wallets
    <2> QED
        BY <1>1, <1>2, <2>1, WalletSteps
<1>4. ASSUME NEW h \in Handlers
      PROVE  DraftKnown(h)'
    <2>1. CASE ~Drafting(h)'
        BY <2>1 DEF Drafting, DraftKnown
    <2>2. CASE HandlerStep(h) /\ Drafting(h)'
        BY <2>2, DraftJobSteps
    <2>3. CASE ~HandlerStep(h) /\ Drafting(h)'
        <3> DEFINE b == Owner[job[h].camp]
        <3>1. job'[h] = job[h]
            BY <1>1, <2>3, OthersRest DEF Next, RecordEntry, LoseEntry, StartTask,
                SubmitTask, vars
        <3>2. Drafting(h)
            BY <2>3, <3>1 DEF Drafting
        <3>3. b \in Brands
            BY <1>1, <3>2, DraftOwner
        <3>4. ASSUME NEW g \in Handlers, LaunchCommit(g)
              PROVE  Owner[job[g].camp] # b
            BY <1>2, <2>3, <3>2, <3>4 DEF CreatesApart
        <3>5. wallet'[b] = wallet[b]
            BY <1>1, <3>3, <3>4, WalletSteps
        <3>6. DraftKnown(h)
            BY DEF DraftInv
        <3> QED
            BY <3>1, <3>5, <3>6 DEF DraftKnown, Drafting
    <2> QED
        BY <2>1, <2>2, <2>3
<1> QED
    BY <1>1, <1>3, <1>4 DEF DraftInv

LEMMA DraftInvariant == Spec /\ []CreatesApart => []DraftInv
<1>1. Init => DraftInv
    BY InitTypes, AmountAssumption
       DEF Init, DraftInv, DraftKnown, Drafting, WalletSolvent, Wallets, Idle
<1> QED
    BY <1>1, DraftStep, PTL DEF Spec

\* While a brand creates one campaign at a time, no brand is overdrawn.
THEOREM WalletsSolventIfApart == Spec /\ []CreatesApart => []WalletSolvent
<1>1. DraftInv => WalletSolvent
    BY DEF DraftInv
<1> QED
    BY <1>1, DraftInvariant, PTL

-------------------------------------------------------------------------------
(***************************************************************************)
(* Settlement implements Escrow: while no such requests overlap, the       *)
(* checks of a request still hold when it writes, so the write is an       *)
(* atomic step of Escrow and everything else is none.                      *)
(***************************************************************************)

ApartInv == ReviewInv /\ SpendInv /\ DraftInv

LEMMA LaunchImplements ==
    ASSUME ApartInv, TypeOK', NEW h \in Handlers, LaunchCommit(h)
    PROVE  Abstract!Next
<1> USE DEF ApartInv, DraftInv
<1> DEFINE c == job[h].camp
           amount == job[h].amount
<1>1. job[h].step = "launched" /\ Drafting(h)
    BY DEF LaunchCommit, At, Drafting
<1>2. c \in Campaigns /\ amount \in Int /\ Owner[c] \in Wallets
    BY <1>1, DraftOwner DEF Wallets
<1>3. wallet[Owner[c]] \in Int
    <2> HIDE DEF c
    <2> QED
        BY <1>2 DEF TypeOK
<1>4. c \notin live /\ amount <= wallet[Owner[c]]
    BY <1>1, <1>2, <1>3 DEF DraftKnown, SpendInv, FundsInv, Grounded
<1>5. /\ wallet' = [wallet EXCEPT ![Owner[c]] = @ - amount]
      /\ live' = live \cup {c}
      /\ funds' = [funds EXCEPT ![c] = amount]
      /\ reward' = [t \in SubTasks |->
                      IF CampaignOf[t] = c THEN reward'[t] ELSE reward[t]]
      /\ UNCHANGED <<tracker, paid>>
    BY DEF LaunchCommit
<1>6. funds'[c] = amount
    <2> HIDE DEF c, amount
    <2> QED
        BY <1>2, <1>5 DEF SpendInv, FundsInv, TypeOK
<1> HIDE DEF c, amount
<1>7. Abstract!Launch(c)
    BY <1>4, <1>5, <1>6 DEF Abstract!Launch
<1> QED
    BY <1>2, <1>7 DEF Abstract!Next

LEMMA UpdateImplements ==
    ASSUME ApartInv, NEW h \in Handlers, UpdateWrite(h)
    PROVE  Abstract!Next
<1> USE DEF ApartInv, SpendInv
<1> DEFINE c == job[h].camp
           total == job[h].total
<1>1. job[h].step = "update" /\ Spending(h)
    BY DEF UpdateWrite, At, Spending
<1>2. c \in Campaigns /\ c \in live
    BY <1>1, SpendsLive DEF CampaignAt
<1>3. PICK topUp \in TopUps : total = ToppedUp(topUp, funds[c])
    BY <1>1 DEF SpendKnown
<1>4. funds' = [funds EXCEPT ![c] = total] /\ UNCHANGED <<wallet, live, reward, tracker, paid>>
    BY DEF UpdateWrite
<1> HIDE DEF c, total
<1>5. Abstract!TopUp(c)
    BY <1>2, <1>3, <1>4 DEF Abstract!TopUp
<1> QED
    BY <1>2, <1>5 DEF Abstract!Next

LEMMA ReviewImplements ==
    ASSUME ApartInv, NEW h \in Handlers, ApproveCommit(h) \/ RejectWrite(h)
    PROVE  Abstract!Next
<1> USE DEF ApartInv, ReviewInv
<1> DEFINE k == job[h].claim
<1>1. job[h].step \in {"commit", "reject"}
    BY DEF ApproveCommit, RejectWrite, At
<1>2. k \in Claims /\ tracker[k] = "pending"
    BY <1>1, JobFields DEF TypeOK, ReviewJobs, ReviewKnown
<1>3. paid[k] = 0
    BY <1>2 DEF PaidAtMostOnce, TypeOK
<1>4. CASE ApproveCommit(h)
    <2>1. reward[k[1]] <= funds[CampaignOf[k[1]]]
        BY <1>4 DEF ApproveCommit, At, SpendInv, SpendKnown, CampaignAt
    <2>2. /\ funds' = [funds EXCEPT ![CampaignOf[k[1]]] = @ - reward[k[1]]]
          /\ wallet' = [wallet EXCEPT ![k[2]] = @ + reward[k[1]]]
          /\ tracker' = [tracker EXCEPT ![k] = "approved"]
          /\ paid' = [paid EXCEPT ![k] = @ + 1]
          /\ UNCHANGED <<live, reward>>
        BY <1>4 DEF ApproveCommit
    <2> HIDE DEF k
    <2>3. paid' = [paid EXCEPT ![k] = 1]
        BY <1>2, <1>3, <2>2 DEF TypeOK
    <2>4. Abstract!Pay(k)
        BY <1>2, <1>3, <2>1, <2>2, <2>3 DEF Abstract!Pay
    <2> QED
        BY <1>2, <2>4 DEF Abstract!Next, Abstract!Claims, Claims
<1>5. CASE RejectWrite(h)
    <2>1. Abstract!Reject(k)
        BY <1>2, <1>5 DEF RejectWrite, Abstract!Reject
    <2> QED
        BY <1>2, <2>1 DEF Abstract!Next, Abstract!Claims, Claims
<1> QED
    BY <1>4, <1>5

LEMMA StepImplements ==
    ApartInv /\ TypeOK' /\ [Next]_vars => [Abstract!Next]_(Abstract!vars)
<1> SUFFICES ASSUME ApartInv, TypeOK', [Next]_vars
             PROVE  Abstract!Next \/ UNCHANGED Abstract!vars
    OBVIOUS
<1>1. ASSUME NEW h \in Handlers, HandlerStep(h)
      PROVE  Abstract!Next \/ UNCHANGED Abstract!vars
    <2>1. CASE LaunchCommit(h)
        BY <2>1, LaunchImplements
    <2>2. CASE UpdateWrite(h)
        BY <2>2, UpdateImplements
    <2>3. CASE ApproveCommit(h) \/ RejectWrite(h)
        BY <2>3, ReviewImplements
    <2>4. CASE ~LaunchCommit(h) /\ ~UpdateWrite(h) /\ ~ApproveCommit(h) /\ ~RejectWrite(h)
        BY <1>1, <2>4 DEF HandlerStep, CreateStep, UpdateStep, ReviewStep, BeginCreate,
            LaunchBody, UpdateRead, ApproveRead, RejectRead, ApproveCheck, ApproveBody,
            Fail, Retry, Abstract!vars
    <2> QED
        BY <2>1, <2>2, <2>3, <2>4
<1>2. ASSUME NEW e \in Entries, RecordEntry(e) \/ LoseEntry(e)
      PROVE  UNCHANGED Abstract!vars
    BY <1>2 DEF RecordEntry, LoseEntry, Abstract!vars
<1>3. ASSUME NEW k \in Claims, StartTask(k) \/ SubmitTask(k)
      PROVE  Abstract!Next
    <2>1. Abstract!Start(k) \/ Abstract!Submit(k)
        BY <1>3 DEF StartTask, SubmitTask, Abstract!Start, Abstract!Submit
    <2> QED
        BY <2>1 DEF Abstract!Next, Abstract!Claims, Claims
<1>4. CASE UNCHANGED vars
    BY <1>4 DEF vars, Abstract!vars
<1> QED
    BY <1>1, <1>2, <1>3, <1>4 DEF Next

\* While requests that concern the same thing do not overlap, the handlers,
\* transactions, retries and failures of Settlement amount to the atomic
\* operations of Escrow.
THEOREM RefinementIfApart ==
    Spec /\ []Apart => ImplementsEscrow
<1>1. Init => Abstract!Init
    BY DEF Init, Abstract!Init, Claims, Abstract!Claims
<1>2. ReviewInv => TypeOK
    BY DEF ReviewInv
<1>3. ReviewInv /\ SpendInv /\ DraftInv => ApartInv
    BY DEF ApartInv
<1>4. Apart => CreatesApart /\ SpendsApart /\ ReviewsApart
    BY DEF Apart
<1> QED
    BY <1>1, <1>2, <1>3, <1>4, ReviewInvariant, SpendInvariant, DraftInvariant, StepImplements, PTL
       DEF Spec, ImplementsEscrow, Abstract!Spec

\* The behaviours of ApartSpec are those of Spec in which requests that concern
\* the same thing never overlap: the theorems above are about them.
LEMMA ApartSpecIsApart == ApartSpec => Spec /\ []Apart
<1>1. Init => Apart
    BY DEF Init, Apart, CreatesApart, SpendsApart, ReviewsApart, Drafting, Spending,
        Reviewing, Idle
<1>2. Apart /\ UNCHANGED vars => Apart'
    BY DEF vars, Apart, CreatesApart, SpendsApart, ReviewsApart, Drafting, Spending,
        Reviewing, CampaignAt
<1>3. [Next /\ StaysApart]_vars => [Next]_vars /\ (Apart' \/ UNCHANGED vars)
    BY DEF StaysApart
<1> QED
    BY <1>1, <1>2, <1>3, PTL DEF ApartSpec, Spec

-------------------------------------------------------------------------------
(***************************************************************************)
(* How bad it gets when reviews of one submission do overlap.  A review    *)
(* pays only after finding the tracker pending, and nothing is paid before *)
(* the tracker leaves pending for good.  So all the reviews that pay found *)
(* it pending together, each on a handler of its own.                      *)
(***************************************************************************)

PayingInv == ReviewedInv /\ PaidOncePerRequest

LEMMA PayingFinite ==
    ASSUME NEW k
    PROVE  /\ IsFiniteSet(Handlers) /\ Cardinality(Handlers) \in Nat
           /\ IsFiniteSet(Paying(k)) /\ Cardinality(Paying(k)) \in Nat
BY FiniteAssumption, FS_Subset, FS_CardinalityType DEF Paying

\* How the requests that are to pay for a submission come and go.
LEMMA PayingSteps ==
    ASSUME TypeOK, [Next]_vars, NEW k \in Claims
    PROVE  \/ paid'[k] = paid[k] /\ Paying(k)' \subseteq Paying(k)
           \/ paid'[k] = paid[k] /\ tracker[k] = "pending"
           \/ \E h \in Paying(k) : /\ Paying(k)' \subseteq Paying(k) \ {h}
                                   /\ paid'[k] = paid[k] + 1
<1>1. ASSUME NEW h \in Handlers, HandlerStep(h), ~ApproveCommit(h), tracker[k] # "pending"
      PROVE  Paying(k)' \subseteq Paying(k)
    <2>1. \A g \in Handlers \ {h} : job'[g] = job[g]
        BY <1>1, OthersRest
    <2>2. h \in Paying(k)' => h \in Paying(k)
        <3>1. CASE \/ \E c \in Campaigns : BeginCreate(h, c) \/ UpdateRead(h, c)
                   \/ \E m \in Claims : ApproveRead(h, m) \/ RejectRead(h, m)
            BY <3>1 DEF BeginCreate, UpdateRead, ApproveRead, RejectRead, TypeOK, Paying
        <3>2. CASE ApproveCheck(h)
            BY <1>1, <3>2 DEF ApproveCheck, MayPay, Finish, Idle, TypeOK, Paying
        <3>3. CASE Finish(h)
            BY <3>3 DEF Finish, Idle, TypeOK, Paying
        <3>4. CASE Drafting(h) /\ (Goto(h, "launch") \/ Goto(h, "launched"))
            BY <3>4, LaunchGoesOn DEF Paying
        <3>5. CASE job[h].step \in {"pay", "commit"} /\ (Goto(h, "pay") \/ Goto(h, "commit"))
            BY <3>5, ReviewGoesOn DEF Paying
        <3> QED
            BY <1>1, <3>1, <3>2, <3>3, <3>4, <3>5
               DEF HandlerStep, CreateStep, UpdateStep, ReviewStep, LaunchBody,
                   LaunchCommit, UpdateWrite, ApproveBody, RejectWrite, Fail, Retry, At,
                   Drafting
    <2> QED
        BY <2>1, <2>2 DEF Paying
<1>2. ASSUME NEW h \in Handlers, ApproveCommit(h)
      PROVE  \/ paid'[k] = paid[k] /\ Paying(k)' \subseteq Paying(k)
             \/ \E g \in Paying(k) : /\ Paying(k)' \subseteq Paying(k) \ {g}
                                     /\ paid'[k] = paid[k] + 1
    <2>1. h \notin Paying(k)' /\ \A g \in Handlers \ {h} : job'[g] = job[g]
        BY <1>2 DEF ApproveCommit, Finish, Idle, TypeOK, Paying
    <2>2. Paying(k)' \subseteq Paying(k) \ {h}
        BY <2>1 DEF Paying
    <2>3. CASE job[h].claim = k
        BY <1>2, <2>2, <2>3 DEF ApproveCommit, At, TypeOK, Paying
    <2>4. CASE job[h].claim # k
        BY <1>2, <2>2, <2>4 DEF ApproveCommit, TypeOK
    <2> QED
        BY <2>3, <2>4
<1>3. ASSUME job' = job
      PROVE  Paying(k)' \subseteq Paying(k)
    BY <1>3 DEF Paying
<1>4. ASSUME \A h \in Handlers : ~ApproveCommit(h)
      PROVE  paid'[k] = paid[k]
    BY <1>4, TrackerSteps
<1>5. \/ \E h \in Handlers : HandlerStep(h)
      \/ job' = job
    BY DEF Next, RecordEntry, LoseEntry, StartTask, SubmitTask, vars
<1> QED
    <2>1. CASE \E h \in Handlers : ApproveCommit(h)
        BY <1>2, <2>1
    <2>2. CASE \A h \in Handlers : ~ApproveCommit(h)
        BY <1>1, <1>3, <1>4, <1>5, <2>2
    <2> QED
        BY <2>1, <2>2

LEMMA PayingStep == PayingInv /\ [Next]_vars => PayingInv'
<1> SUFFICES ASSUME PayingInv, [Next]_vars
             PROVE  PayingInv'
    OBVIOUS
<1>1. TypeOK /\ ReviewedInv'
    BY ReviewedStep DEF PayingInv, ReviewedInv
<1>2. ASSUME NEW k \in Claims
      PROVE  paid'[k] + Cardinality(Paying(k)') <= Cardinality(Handlers)
    <2> DEFINE R == Handlers
               P == Paying(k)
               Q == Paying(k)'
    <2>1. IsFiniteSet(R) /\ IsFiniteSet(P) /\ Cardinality(P) \in Nat /\ Cardinality(R) \in Nat
        BY PayingFinite
    <2>2. Q \subseteq R
        BY DEF Paying
    <2>3. paid[k] \in Nat /\ paid[k] + Cardinality(P) <= Cardinality(R)
        BY <1>1 DEF TypeOK, PayingInv, PaidOncePerRequest
    <2>4. tracker[k] = "pending" => paid[k] = 0
        BY <1>1 DEF TypeOK, PayingInv, ReviewedInv, PaidIsReviewed
    <2>5. \/ paid'[k] = paid[k] /\ Q \subseteq P
          \/ paid'[k] = paid[k] /\ tracker[k] = "pending"
          \/ \E h \in P : Q \subseteq P \ {h} /\ paid'[k] = paid[k] + 1
        BY <1>1, PayingSteps
    <2> HIDE DEF P, Q, R
    <2>6. CASE paid'[k] = paid[k] /\ Q \subseteq P
        <3>1. Cardinality(Q) \in Nat /\ Cardinality(Q) <= Cardinality(P)
            BY <2>1, <2>6, FS_Subset, FS_CardinalityType
        <3> QED
            BY <2>1, <2>3, <2>6, <3>1 DEF Q, R
    <2>7. CASE paid'[k] = paid[k] /\ tracker[k] = "pending"
        <3>1. Cardinality(Q) \in Nat /\ Cardinality(Q) <= Cardinality(R)
            BY <2>1, <2>2, FS_Subset, FS_CardinalityType
        <3> QED
            BY <2>4, <2>7, <3>1 DEF Q, R
    <2>8. CASE \E h \in P : Q \subseteq P \ {h} /\ paid'[k] = paid[k] + 1
        <3>1. PICK h \in P : Q \subseteq P \ {h} /\ paid'[k] = paid[k] + 1
            BY <2>8
        <3>2. IsFiniteSet(P \ {h}) /\ Cardinality(P \ {h}) = Cardinality(P) - 1
            BY <2>1, FS_RemoveElement
        <3>3. Cardinality(Q) \in Nat /\ Cardinality(Q) <= Cardinality(P) - 1
            BY <3>1, <3>2, FS_Subset, FS_CardinalityType
        <3> QED
            BY <2>1, <2>3, <3>1, <3>3 DEF Q, R
    <2> QED
        BY <2>5, <2>6, <2>7, <2>8
<1> QED
    BY <1>1, <1>2 DEF PayingInv, PaidOncePerRequest

\* Whatever requests overlap, fail or are retried, and whichever business
\* accounts send them, a submission is paid for at most once per request that
\* can be open at a time.
THEOREM PaysOncePerRequest == Spec => []PaidOncePerRequest
<1>1. Init => PayingInv
    <2> SUFFICES ASSUME Init PROVE PayingInv
        OBVIOUS
    <2>1. ReviewedInv
        BY InitTypes DEF Init, ReviewedInv, UnderReview, PaidIsReviewed, Idle
    <2>2. \A k \in Claims : Paying(k) = {} /\ paid[k] = 0
        BY DEF Init, Paying, Idle
    <2>3. PaidOncePerRequest
        BY <2>2, PayingFinite, FS_EmptySet DEF PaidOncePerRequest
    <2> QED
        BY <2>1, <2>3 DEF PayingInv
<1>2. PayingInv => PaidOncePerRequest
    BY DEF PayingInv
<1> QED
    BY <1>1, <1>2, PayingStep, PTL DEF Spec

-------------------------------------------------------------------------------
(***************************************************************************)
(* The ledger.  A transaction emits its event before it commits, so an     *)
(* event in flight or in the ledger stands for every commit there was and  *)
(* for every one to come.                                                  *)
(***************************************************************************)

\* Transactions on an entry that have emitted their event and not yet committed.
Owed(e) == {h \in Handlers : \/ job[h].step = "launched" /\ job[h].camp = e
                             \/ job[h].step = "commit" /\ job[h].claim = e}

\* How often the money an entry stands for has moved.
Moved(e) == IF e \in Campaigns THEN (IF e \in live THEN 1 ELSE 0) ELSE paid[e]

MovesAreEmitted == \A e \in Entries : Moved(e) <= Emitted(e)

OwedIsEmitted == \A e \in Entries : Moved(e) + Cardinality(Owed(e)) <= Emitted(e)
EmittedIsOwed == \A e \in Entries : Emitted(e) = Moved(e) + Cardinality(Owed(e))

LEMMA OwedFinite ==
    ASSUME NEW e
    PROVE  IsFiniteSet(Owed(e)) /\ Cardinality(Owed(e)) \in Nat
BY FiniteAssumption, FS_Subset, FS_CardinalityType DEF Owed

LEMMA MovedType ==
    ASSUME TypeOK, NEW e \in Entries
    PROVE  Moved(e) \in Nat /\ Emitted(e) \in Nat
BY DEF Moved, Emitted, TypeOK, Entries

\* What a step does to one entry: the body of a transaction emits, its commit
\* moves the money, a failure or a retry abandons the commit.
Emits(e) == \E h \in Handlers \ Owed(e) :
    Owed(e)' = Owed(e) \cup {h} /\ Emitted(e)' = Emitted(e) + 1 /\ Moved(e)' = Moved(e)
Moves(e) == \E h \in Owed(e) :
    Owed(e)' = Owed(e) \ {h} /\ Emitted(e)' = Emitted(e) /\ Moved(e)' = Moved(e) + 1
Abandons(e) == \E h \in Owed(e) :
    Owed(e)' = Owed(e) \ {h} /\ Emitted(e)' = Emitted(e) /\ Moved(e)' = Moved(e)
Rests(e) == Owed(e)' = Owed(e) /\ Emitted(e)' = Emitted(e) /\ Moved(e)' = Moved(e)

LEMMA EntrySteps ==
    ASSUME FundsInv, [Next]_vars, NEW e \in Entries, ~LoseEntry(e)
    PROVE  \/ Emits(e) \/ Moves(e) \/ Rests(e)
           \/ Faults \cap {"fail", "retry"} # {} /\ Abandons(e)
<1> USE DEF FundsInv
<1>1. ASSUME NEW h \in Handlers, LaunchBody(h) \/ ApproveBody(h)
      PROVE  Emits(e) \/ Rests(e)
    <2> DEFINE d == IF job[h].step = "launch" THEN job[h].camp ELSE job[h].claim
    <2>1. /\ job[h].step = "launch" => LaunchBody(h) /\ d \in Campaigns /\ Drafting(h)
          /\ job[h].step = "pay" => ApproveBody(h) /\ d \in Claims
          /\ job[h].step \in {"launch", "pay"} /\ d \in Entries
        BY <1>1, JobFields
           DEF LaunchBody, ApproveBody, At, TypeOK, ReviewJobs, Entries, Drafting
    <2>2. /\ inflight' = [inflight EXCEPT ![d] = @ + 1]
          /\ \A g \in Handlers \ {h} : job'[g] = job[g]
          /\ UNCHANGED <<live, paid, ledger>>
        BY <1>1, <2>1 DEF LaunchBody, ApproveBody, At, Goto, TypeOK
    <2>3. \/ /\ job[h].step = "launch" /\ job'[h].step = "launched" /\ job'[h].camp = d
          \/ /\ job[h].step = "pay" /\ job'[h].step = "commit" /\ job'[h].claim = d
        BY <2>1, LaunchGoesOn, ReviewGoesOn DEF LaunchBody, ApproveBody, At
    <2> HIDE DEF d
    <2>4. h \notin Owed(e) /\ (h \in Owed(e)' <=> d = e)
        BY <2>1, <2>3, LayoutAssumption DEF Owed, Entries
    <2>5. \A g \in Handlers \ {h} : g \in Owed(e)' <=> g \in Owed(e)
        BY <2>2 DEF Owed
    <2>6. Owed(e)' \subseteq Handlers /\ Owed(e) \subseteq Handlers
        BY DEF Owed
    <2>7. Moved(e)' = Moved(e)
        BY <2>2 DEF Moved
    <2>8. Emitted(e)' = IF d = e THEN Emitted(e) + 1 ELSE Emitted(e)
        BY <2>2 DEF Emitted, TypeOK
    <2>9. CASE d = e
        <3>1. Owed(e)' = Owed(e) \cup {h}
            BY <2>4, <2>5, <2>6, <2>9
        <3> QED
            BY <2>4, <2>7, <2>8, <2>9, <3>1 DEF Emits
    <2>10. CASE d # e
        <3>1. Owed(e)' = Owed(e)
            BY <2>4, <2>5, <2>6, <2>10
        <3> QED
            BY <2>7, <2>8, <2>10, <3>1 DEF Rests
    <2> QED
        BY <2>9, <2>10
<1>2. ASSUME NEW h \in Handlers, LaunchCommit(h) \/ ApproveCommit(h)
      PROVE  Moves(e) \/ Rests(e)
    <2> DEFINE d == IF job[h].step = "launched" THEN job[h].camp ELSE job[h].claim
    <2>1. /\ job[h].step = "launched" => LaunchCommit(h) /\ d \in Campaigns /\ d \notin live
          /\ job[h].step = "commit" => ApproveCommit(h) /\ d \in Claims
          /\ job[h].step \in {"launched", "commit"} /\ d \in Entries
        BY <1>2, JobFields
           DEF LaunchCommit, ApproveCommit, At, TypeOK, ReviewJobs, Entries, Drafting, Grounded
    <2>2. /\ job' = [job EXCEPT ![h] = Idle]
          /\ live' = IF job[h].step = "launched" THEN live \cup {d} ELSE live
          /\ paid' = IF job[h].step = "launched" THEN paid ELSE [paid EXCEPT ![d] = @ + 1]
          /\ UNCHANGED <<inflight, ledger>>
        BY <1>2, <2>1 DEF LaunchCommit, ApproveCommit, Finish
    <2>3. h \notin Owed(e)' /\ (h \in Owed(e) <=> d = e)
        BY <2>1, <2>2, LayoutAssumption DEF Owed, Idle, Entries, TypeOK
    <2>4. \A g \in Handlers \ {h} : g \in Owed(e)' <=> g \in Owed(e)
        BY <2>2 DEF Owed, TypeOK
    <2>5. Owed(e)' \subseteq Handlers /\ Owed(e) \subseteq Handlers
        BY DEF Owed
    <2>6. Moved(e)' = IF d = e THEN Moved(e) + 1 ELSE Moved(e)
        <3> HIDE DEF d
        <3> QED
            BY <2>1, <2>2, LayoutAssumption DEF Moved, TypeOK, Entries
    <2>7. Emitted(e)' = Emitted(e)
        BY <2>2 DEF Emitted
    <2> HIDE DEF d
    <2>8. CASE d = e
        <3>1. h \in Owed(e) /\ Owed(e)' = Owed(e) \ {h}
            BY <2>3, <2>4, <2>5, <2>8
        <3> QED
            BY <2>6, <2>7, <2>8, <3>1 DEF Moves
    <2>9. CASE d # e
        <3>1. Owed(e)' = Owed(e)
            BY <2>3, <2>4, <2>5, <2>9
        <3> QED
            BY <2>6, <2>7, <2>9, <3>1 DEF Rests
    <2> QED
        BY <2>8, <2>9
<1>3. ASSUME NEW h \in Handlers, HandlerStep(h), ~LaunchBody(h), ~ApproveBody(h),
             ~LaunchCommit(h), ~ApproveCommit(h)
      PROVE  Rests(e) \/ (Faults \cap {"fail", "retry"} # {} /\ Abandons(e))
    <2>1. UNCHANGED <<live, paid, inflight, ledger>>
        BY <1>3 DEF HandlerStep, CreateStep, UpdateStep, ReviewStep, BeginCreate,
            UpdateRead, UpdateWrite, ApproveRead, RejectRead, ApproveCheck, RejectWrite,
            Fail, Retry
    <2>2. Moved(e)' = Moved(e) /\ Emitted(e)' = Emitted(e)
        BY <2>1 DEF Moved, Emitted
    <2>3. \A g \in Handlers \ {h} : g \in Owed(e)' <=> g \in Owed(e)
        BY <1>3, OthersRest DEF Owed
    <2>4. Owed(e)' \subseteq Handlers /\ Owed(e) \subseteq Handlers
        BY DEF Owed
    <2>5. h \notin Owed(e)'
        <3>1. CASE \/ \E c \in Campaigns : BeginCreate(h, c) \/ UpdateRead(h, c)
                   \/ \E k \in Claims : ApproveRead(h, k) \/ RejectRead(h, k)
                   \/ ApproveCheck(h)
            BY <3>1 DEF BeginCreate, UpdateRead, ApproveRead, RejectRead, ApproveCheck,
                Finish, Idle, TypeOK, Owed
        <3>2. CASE Finish(h)
            BY <3>2 DEF Finish, Idle, TypeOK, Owed
        <3>3. CASE Drafting(h) /\ Goto(h, "launch")
            BY <3>3, LaunchGoesOn DEF Owed
        <3>4. CASE job[h].step = "commit" /\ Goto(h, "pay")
            BY <3>4, ReviewGoesOn DEF Owed
        <3> QED
            BY <1>3, <3>1, <3>2, <3>3, <3>4
               DEF HandlerStep, CreateStep, UpdateStep, ReviewStep, UpdateWrite,
                   RejectWrite, Fail, Retry, At, Drafting
    <2>6. CASE h \notin Owed(e)
        BY <2>2, <2>3, <2>4, <2>5, <2>6 DEF Rests
    <2>7. CASE h \in Owed(e)
        <3>1. Owed(e)' = Owed(e) \ {h}
            BY <2>3, <2>4, <2>5, <2>7
        <3>2. job[h].step \in {"launched", "commit"}
            BY <2>7 DEF Owed
        <3>3. Faults \cap {"fail", "retry"} # {}
            BY <1>3, <3>2 DEF HandlerStep, CreateStep, UpdateStep, ReviewStep, BeginCreate,
                UpdateRead, UpdateWrite, ApproveRead, RejectRead, Reviewable, ApproveCheck,
                RejectWrite, Fail, NotCredited, Retry, At, Idle
        <3> QED
            BY <2>2, <2>7, <3>1, <3>3 DEF Abandons
    <2> QED
        BY <2>6, <2>7
<1>4. ASSUME NEW d \in Entries, RecordEntry(d) \/ LoseEntry(d)
      PROVE  Rests(e)
    <2>1. UNCHANGED <<live, job, paid>>
        BY <1>4 DEF RecordEntry, LoseEntry
    <2>2. Emitted(e)' = Emitted(e)
        <3>1. CASE RecordEntry(d)
            BY <3>1 DEF RecordEntry, Emitted, TypeOK
        <3>2. CASE LoseEntry(d)
            <4>1. d # e
                BY <3>2
            <4> QED
                BY <3>2, <4>1 DEF LoseEntry, Emitted, TypeOK
        <3> QED
            BY <1>4, <3>1, <3>2
    <2> QED
        BY <2>1, <2>2 DEF Rests, Owed, Moved
<1>5. ASSUME UNCHANGED <<live, job, paid, inflight, ledger>>
      PROVE  Rests(e)
    BY <1>5 DEF Rests, Owed, Moved, Emitted
<1> QED
    BY <1>1, <1>2, <1>3, <1>4, <1>5 DEF Next, StartTask, SubmitTask, vars

\* The count of an entry follows the steps of its transactions.
LEMMA EntryCounts ==
    ASSUME FundsInv, FundsInv', NEW e \in Entries
    PROVE  /\ Emits(e) => /\ Cardinality(Owed(e)') = Cardinality(Owed(e)) + 1
                          /\ Emitted(e)' = Emitted(e) + 1 /\ Moved(e)' = Moved(e)
           /\ Moves(e) => /\ Cardinality(Owed(e)') = Cardinality(Owed(e)) - 1
                          /\ Emitted(e)' = Emitted(e) /\ Moved(e)' = Moved(e) + 1
           /\ Abandons(e) => /\ Cardinality(Owed(e)') = Cardinality(Owed(e)) - 1
                             /\ Emitted(e)' = Emitted(e) /\ Moved(e)' = Moved(e)
<1>1. IsFiniteSet(Owed(e))
    BY OwedFinite
<1>2. \A h \in Handlers \ Owed(e) :
        Cardinality(Owed(e) \cup {h}) = Cardinality(Owed(e)) + 1
    BY <1>1, FS_AddElement
<1>3. \A h \in Owed(e) : Cardinality(Owed(e) \ {h}) = Cardinality(Owed(e)) - 1
    BY <1>1, FS_RemoveElement
<1> QED
    BY <1>2, <1>3 DEF Emits, Moves, Abandons

\* While no event is lost, whatever overlaps, fails or is retried: for each
\* campaign funded and each reward paid an entry is in the ledger or on its way.
THEOREM EveryMoveIsEmitted ==
    ASSUME "lose" \notin Faults
    PROVE  Spec => []MovesAreEmitted
<1>1. FundsInv /\ Init => OwedIsEmitted
    <2> SUFFICES ASSUME Init, NEW e \in Entries
                 PROVE  Moved(e) + Cardinality(Owed(e)) <= Emitted(e)
        BY DEF OwedIsEmitted
    <2>1. Owed(e) = {} /\ Moved(e) = 0 /\ Emitted(e) = 0
        BY DEF Init, Idle, Owed, Moved, Emitted, Entries
    <2> QED
        BY <2>1, FS_EmptySet
<1>2. FundsInv /\ FundsInv' /\ OwedIsEmitted /\ [Next]_vars => OwedIsEmitted'
    <2> SUFFICES ASSUME FundsInv, FundsInv', OwedIsEmitted, [Next]_vars, NEW e \in Entries
                 PROVE  Moved(e)' + Cardinality(Owed(e)') <= Emitted(e)'
        BY DEF OwedIsEmitted
    <2>1. ~LoseEntry(e)
        BY DEF LoseEntry
    <2>2. /\ Moved(e) \in Nat /\ Emitted(e) \in Nat /\ Cardinality(Owed(e)) \in Nat
          /\ Moved(e) + Cardinality(Owed(e)) <= Emitted(e)
        BY MovedType, OwedFinite DEF FundsInv, OwedIsEmitted
    <2> QED
        BY <2>1, <2>2, EntrySteps, EntryCounts DEF Rests
<1>3. FundsInv /\ OwedIsEmitted => MovesAreEmitted
    <2> SUFFICES ASSUME FundsInv, OwedIsEmitted, NEW e \in Entries
                 PROVE  Moved(e) <= Emitted(e)
        BY DEF MovesAreEmitted
    <2> QED
        BY MovedType, OwedFinite DEF FundsInv, OwedIsEmitted
<1> QED
    BY <1>1, <1>2, <1>3, FundsInvariant, PTL DEF Spec

\* While nothing fails, is retried or lost, requests may overlap as they like:
\* there is one entry for each campaign funded and each reward paid, and none
\* for anything else but a transaction about to commit.
THEOREM EachEntryIsAMove ==
    ASSUME Faults = {}
    PROVE  Spec => []EmittedIsOwed
<1>1. FundsInv /\ Init => EmittedIsOwed
    <2> SUFFICES ASSUME Init, NEW e \in Entries
                 PROVE  Emitted(e) = Moved(e) + Cardinality(Owed(e))
        BY DEF EmittedIsOwed
    <2>1. Owed(e) = {} /\ Moved(e) = 0 /\ Emitted(e) = 0
        BY DEF Init, Idle, Owed, Moved, Emitted, Entries
    <2> QED
        BY <2>1, FS_EmptySet
<1>2. FundsInv /\ FundsInv' /\ EmittedIsOwed /\ [Next]_vars => EmittedIsOwed'
    <2> SUFFICES ASSUME FundsInv, FundsInv', EmittedIsOwed, [Next]_vars, NEW e \in Entries
                 PROVE  Emitted(e)' = Moved(e)' + Cardinality(Owed(e)')
        BY DEF EmittedIsOwed
    <2>1. ~LoseEntry(e)
        BY DEF LoseEntry
    <2>2. /\ Moved(e) \in Nat /\ Emitted(e) \in Nat /\ Cardinality(Owed(e)) \in Nat
          /\ Emitted(e) = Moved(e) + Cardinality(Owed(e))
        BY MovedType, OwedFinite DEF FundsInv, EmittedIsOwed
    <2> QED
        BY <2>1, <2>2, EntrySteps, EntryCounts DEF Rests
<1> QED
    BY <1>1, <1>2, FundsInvariant, PTL DEF Spec

===============================================================================
