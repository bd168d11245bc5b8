--------------------------- MODULE TaskIntakeProofs ---------------------------
(***************************************************************************)
(* Theorems about TaskIntake, for any number of sub tasks, members and     *)
(* handlers: what holds however requests overlap, then what holds while no *)
(* two startTask requests for the same claim do.                           *)
(***************************************************************************)
EXTENDS TaskIntake, FiniteSetTheorems, TLAPS

BusyJobs == [step: {"create", "store"}, claim: Claims]

LEMMA JobFields ==
    ASSUME NEW j \in Jobs
    PROVE  /\ j.step = "idle" <=> j = Idle
           /\ j.step # "idle" => j \in BusyJobs /\ j.claim \in Claims
BY DEF Jobs, Idle, BusyJobs

-------------------------------------------------------------------------------
(* Any overlap: types, and nothing comes up for review unstored            *)

Inv == TypeOK /\ HandedInIsStored

LEMMA InvInit == Init => Inv
BY DEF Init, Inv, TypeOK, Jobs, HandedInIsStored

LEMMA InvStep == Inv /\ [Next]_vars => Inv'
<1> SUFFICES ASSUME Inv, [Next]_vars
             PROVE  Inv'
    OBVIOUS
<1> USE IntakeAssumption DEF Inv, TypeOK
<1>1. ASSUME NEW h \in Handlers, NEW k \in Claims,
             StartRead(h, k) \/ SubmitCheck(h, k)
      PROVE  Inv'
    <2>1. PICK step \in {"create", "store"} : Begin(h, step, k)
        BY <1>1 DEF StartRead, SubmitCheck
    <2>2. [step |-> step, claim |-> k] \in Jobs
        BY DEF Jobs
    <2>3. job' \in [Handlers -> Jobs]
        BY <2>1, <2>2 DEF Begin
    <2>4. UNCHANGED <<started, submitted, submissions, marks, up>>
        BY <1>1 DEF StartRead, SubmitCheck
    <2> QED
        BY <2>3, <2>4 DEF HandedInIsStored
<1>2. ASSUME NEW h \in Handlers, StartWrite(h)
      PROVE  Inv'
    <2>1. job[h].claim \in Claims
        BY <1>2, JobFields DEF StartWrite
    <2> QED
        BY <1>2, <2>1 DEF StartWrite, Finish, Jobs, HandedInIsStored
<1>3. ASSUME NEW h \in Handlers, StoreSubmission(h)
      PROVE  Inv'
    <2>1. job[h].claim \in Claims
        BY <1>3, JobFields DEF StoreSubmission
    <2>2. TypeOK'
        BY <1>3, <2>1 DEF StoreSubmission, Finish, Jobs
    <2>3. HandedInIsStored'
        BY <1>3, <2>1 DEF StoreSubmission, HandedInIsStored
    <2> QED
        BY <2>2, <2>3
<1>4. ASSUME NEW h \in Handlers, Drop(h)
      PROVE  Inv'
    BY <1>4 DEF Drop, Finish, Jobs, HandedInIsStored
<1>5. ASSUME NEW k \in Claims, MarkSubmitted(k)
      PROVE  Inv'
    <2>1. /\ marks[k] > 0 /\ started[k] > 0
          /\ started' = [started EXCEPT ![k] = @ - 1]
          /\ submitted' = [submitted EXCEPT ![k] = @ + 1]
          /\ marks' = [marks EXCEPT ![k] = @ - 1]
          /\ UNCHANGED <<submissions, job>>
        BY <1>5 DEF MarkSubmitted
    <2>2. up' \in BOOLEAN
        BY <1>5 DEF MarkSubmitted
    <2>3. HandedInIsStored'
        BY <2>1 DEF HandedInIsStored
    <2>4. /\ started' \in [Claims -> Nat] /\ submitted' \in [Claims -> Nat]
          /\ marks' \in [Claims -> Nat]
        BY <2>1
    <2> QED
        BY <2>1, <2>2, <2>3, <2>4
<1>6. ASSUME NEW k \in Claims, MarkRejects(k) \/ DropMark(k)
      PROVE  Inv'
    <2>1. /\ marks[k] > 0
          /\ marks' = [marks EXCEPT ![k] = @ - 1]
          /\ UNCHANGED <<started, submitted, submissions, job>>
        BY <1>6 DEF MarkRejects, DropMark
    <2>2. up' \in BOOLEAN
        BY <1>6 DEF MarkRejects, DropMark
    <2>3. HandedInIsStored'
        BY <2>1 DEF HandedInIsStored
    <2>4. marks' \in [Claims -> Nat]
        BY <2>1
    <2> QED
        BY <2>1, <2>2, <2>3, <2>4
<1>7. CASE Restart
    BY <1>7 DEF Restart, HandedInIsStored
<1>8. CASE UNCHANGED vars
    BY <1>8 DEF vars, HandedInIsStored
<1>9. ASSUME NEW h \in Handlers, NEW k \in Claims, StartRefused(h, k)
      PROVE  Inv'
    BY <1>8, <1>9 DEF StartRefused
<1> QED
    BY <1>1, <1>2, <1>3, <1>4, <1>5, <1>6, <1>7, <1>8, <1>9
       DEF Next, RequestStep, MarkStep

\* Every variable keeps its type: no counter goes below zero.
THEOREM TypeCorrect == Spec => []TypeOK
<1>1. Inv => TypeOK
    BY DEF Inv
<1> QED
    BY <1>1, InvInit, InvStep, PTL DEF Spec

\* Nothing comes up for review without a submission of its own, however
\* requests overlap, fail and are cut off.
THEOREM StoredFirst == Spec => []HandedInIsStored
<1>1. Inv => HandedInIsStored
    BY DEF Inv
<1> QED
    BY <1>1, InvInit, InvStep, PTL DEF Spec

\* With a database that does not fail, the process ends only for a submission
\* that no tracker stands for.
THEOREM StopsForStray == ASSUME Faults = {} PROVE Spec => StopsOnlyForStray
<1>1. ASSUME Inv, [Next]_vars, up, ~up'
      PROVE  \E k \in Claims : submissions[k] > Trackers(k)
    <2>1. PICK k \in Claims : MarkRejects(k)
        BY <1>1 DEF Next, RequestStep, MarkStep, StartRead, StartRefused, SubmitCheck,
           StartWrite, StoreSubmission, Drop, MarkSubmitted, DropMark,
           Restart, Begin, vars
    <2>2. started[k] = 0 /\ marks[k] > 0
        BY <2>1 DEF MarkRejects
    <2>3. submissions[k] > Trackers(k)
        BY <1>1, <2>2 DEF Inv, TypeOK, HandedInIsStored, Trackers
    <2> QED
        BY <2>3
<1>2. Inv /\ [Next]_vars
      => [up /\ ~up' => \E k \in Claims : submissions[k] > Trackers(k)]_vars
    BY <1>1
<1> QED
    BY <1>2, InvInit, InvStep, PTL DEF Spec, StopsOnlyForStray

-------------------------------------------------------------------------------
(***************************************************************************)
(* Any overlap of startTask: every request that is to create a tracker     *)
(* found none, so they all looked before the first of them wrote.          *)
(***************************************************************************)

StarterInv == Inv /\ TrackersPerRequest

\* How the requests that are to create a tracker of a claim come and go.
LEMMA CreatingSteps ==
    ASSUME Inv, [Next]_vars, NEW k \in Claims
    PROVE  \/ Trackers(k)' = Trackers(k) /\ Creating(k)' \subseteq Creating(k)
           \/ Trackers(k)' = 0
           \/ \E h \in Handlers : /\ StartWrite(h) /\ job[h].claim = k /\ h \in Creating(k)
                                  /\ Trackers(k)' = Trackers(k) + 1
                                  /\ Creating(k)' \subseteq Creating(k) \ {h}
<1> USE DEF Inv, TypeOK
<1>1. ASSUME NEW h \in Handlers, StartWrite(h)
      PROVE  \/ Trackers(k)' = Trackers(k) /\ Creating(k)' \subseteq Creating(k)
             \/ /\ job[h].claim = k /\ h \in Creating(k)
                /\ Trackers(k)' = Trackers(k) + 1
                /\ Creating(k)' \subseteq Creating(k) \ {h}
    <2>1. Creating(k)' \subseteq Creating(k) \ {h}
        BY <1>1 DEF StartWrite, Finish, Idle, Creating
    <2>2. CASE job[h].claim = k
        <3>1. h \in Creating(k) /\ started[k] \in Nat /\ submitted[k] \in Nat
            BY <1>1, <2>2 DEF StartWrite, Creating
        <3>2. started'[k] = started[k] + 1 /\ submitted'[k] = submitted[k]
            BY <1>1, <2>2 DEF StartWrite
        <3> QED
            BY <2>1, <2>2, <3>1, <3>2 DEF Trackers
    <2>3. CASE job[h].claim # k
        BY <1>1, <2>1, <2>3 DEF StartWrite, Trackers
    <2> QED
        BY <2>2, <2>3
<1>2. ASSUME NEW h \in Handlers, NEW c \in Claims, StartRead(h, c) \/ SubmitCheck(h, c)
      PROVE  \/ Trackers(k)' = Trackers(k) /\ Creating(k)' \subseteq Creating(k)
             \/ Trackers(k)' = 0
    <2>1. UNCHANGED <<started, submitted>>
        BY <1>2 DEF StartRead, SubmitCheck
    <2>2. PICK step \in {"create", "store"} :
              /\ job' = [job EXCEPT ![h] = [step |-> step, claim |-> c]]
              /\ step = "create" => Trackers(c) = 0
        BY <1>2 DEF StartRead, SubmitCheck, Begin
    <2>3. Trackers(k)' = Trackers(k)
        BY <2>1 DEF Trackers
    <2>4. CASE step = "create" /\ c = k
        BY <2>2, <2>3, <2>4
    <2>5. CASE ~(step = "create" /\ c = k)
        BY <2>2, <2>3, <2>5 DEF Creating
    <2> QED
        BY <2>4, <2>5
<1>3. ASSUME NEW h \in Handlers, StoreSubmission(h) \/ Drop(h)
      PROVE  Trackers(k)' = Trackers(k) /\ Creating(k)' \subseteq Creating(k)
    BY <1>3 DEF StoreSubmission, Drop, Finish, Idle, Trackers, Creating
<1>4. ASSUME NEW c \in Claims, MarkSubmitted(c)
      PROVE  Trackers(k)' = Trackers(k) /\ Creating(k)' \subseteq Creating(k)
    BY <1>4 DEF MarkSubmitted, Trackers, Creating
<1>5. CASE UNCHANGED <<started, submitted, job>>
    BY <1>5 DEF Trackers, Creating
<1> QED
    BY <1>1, <1>2, <1>3, <1>4, <1>5
       DEF Next, RequestStep, MarkStep, StartRefused, MarkRejects, DropMark, Restart, vars

LEMMA StarterStep == StarterInv /\ [Next]_vars => StarterInv'
<1> SUFFICES ASSUME StarterInv, [Next]_vars
             PROVE  StarterInv'
    OBVIOUS
<1>1. Inv /\ Inv'
    BY InvStep DEF StarterInv
<1>2. ASSUME NEW k \in Claims
      PROVE  Trackers(k)' + Cardinality(Creating(k)') <= Cardinality(Handlers)
    <2> DEFINE S == Handlers
               C == Creating(k)
               D == Creating(k)'
    <2>1. /\ IsFiniteSet(S) /\ Cardinality(S) \in Nat
          /\ IsFiniteSet(C) /\ Cardinality(C) \in Nat
        BY FiniteAssumption, FS_Subset, FS_CardinalityType DEF Creating
    <2>2. D \subseteq S
        BY DEF Creating
    <2>3. /\ Trackers(k) \in Nat
          /\ Trackers(k) + Cardinality(C) <= Cardinality(S)
        BY <1>1 DEF Inv, TypeOK, Trackers, StarterInv, TrackersPerRequest
    <2>4. \/ Trackers(k)' = Trackers(k) /\ D \subseteq C
          \/ Trackers(k)' = 0
          \/ \E h \in C : Trackers(k)' = Trackers(k) + 1 /\ D \subseteq C \ {h}
        BY <1>1, CreatingSteps
    <2> HIDE DEF C, D, S
    <2>5. Cardinality(D) \in Nat /\ Cardinality(D) <= Cardinality(S)
        BY <2>1, <2>2, FS_Subset, FS_CardinalityType
    <2>6. CASE Trackers(k)' = Trackers(k) /\ D \subseteq C
        <3>1. Cardinality(D) <= Cardinality(C)
            BY <2>1, <2>6, FS_Subset
        <3> QED
            BY <2>1, <2>3, <2>5, <2>6, <3>1 DEF D, S
    <2>7. CASE Trackers(k)' = 0
        BY <2>5, <2>7 DEF D, S
    <2>8. CASE \E h \in C : Trackers(k)' = Trackers(k) + 1 /\ D \subseteq C \ {h}
        <3>1. PICK h \in C : Trackers(k)' = Trackers(k) + 1 /\ D \subseteq C \ {h}
            BY <2>8
        <3>2. IsFiniteSet(C \ {h}) /\ Cardinality(C \ {h}) = Cardinality(C) - 1
            BY <2>1, FS_RemoveElement
        <3>3. Cardinality(D) <= Cardinality(C) - 1
            BY <3>1, <3>2, FS_Subset
        <3> QED
            BY <2>1, <2>3, <2>5, <3>1, <3>3 DEF D, S
    <2> QED
        BY <2>4, <2>6, <2>7, <2>8
<1> QED
    BY <1>1, <1>2 DEF StarterInv, TrackersPerRequest

\* Whatever requests overlap, fail or are cut off, a member has at most one
\* tracker of a sub task per request that can be open at a time.
THEOREM StartsOncePerRequest == Spec => []TrackersPerRequest
<1>1. Init => StarterInv
    <2> SUFFICES ASSUME Init PROVE StarterInv
        OBVIOUS
    <2>1. \A k \in Claims : Creating(k) = {} /\ Trackers(k) = 0
        BY DEF Init, Creating, Trackers, Idle
    <2>2. Cardinality(Handlers) \in Nat
        BY FiniteAssumption, FS_CardinalityType
    <2>3. TrackersPerRequest
        BY <2>1, <2>2, FS_EmptySet DEF TrackersPerRequest
    <2> QED
        BY <2>3, InvInit DEF StarterInv
<1>2. StarterInv => TrackersPerRequest
    BY DEF StarterInv
<1> QED
    BY <1>1, <1>2, StarterStep, PTL DEF Spec

-------------------------------------------------------------------------------
(***************************************************************************)
(* While no two startTask requests for the same claim overlap, a request   *)
(* that found no tracker is right when it creates one.  Submissions may    *)
(* overlap with each other and with the start as they like.                *)
(***************************************************************************)

\* A handler that is to create a tracker still has none to fear.
NoneYet(h) == job[h].step = "create" => Trackers(job[h].claim) = 0

StartInv == Inv /\ OneTrackerPerClaim /\ \A h \in Handlers : NoneYet(h)

LEMMA StartInit == Init => StartInv
BY InvInit DEF Init, StartInv, OneTrackerPerClaim, Trackers, NoneYet, Idle

LEMMA StartStep == StartInv /\ StartsApart /\ [Next]_vars => StartInv'
<1> SUFFICES ASSUME StartInv, StartsApart, [Next]_vars
             PROVE  StartInv'
    OBVIOUS
<1>1. Inv /\ Inv'
    BY InvStep DEF StartInv
<1>2. ASSUME NEW h \in Handlers, StartWrite(h)
      PROVE  /\ job[h].step = "create" /\ Trackers(job[h].claim) = 0
             /\ job'[h] = Idle
    BY <1>1, <1>2 DEF StartWrite, Finish, Inv, TypeOK, StartInv, NoneYet
<1>3. OneTrackerPerClaim'
    <2> SUFFICES ASSUME NEW k \in Claims
                 PROVE  Trackers(k)' <= 1
        BY DEF OneTrackerPerClaim
    <2>1. Trackers(k) <= 1
        BY DEF StartInv, OneTrackerPerClaim
    <2> QED
        BY <1>1, <1>2, <2>1, CreatingSteps
<1>4. ASSUME NEW h \in Handlers
      PROVE  NoneYet(h)'
    <2> SUFFICES ASSUME NEW k \in Claims, job'[h].step = "create", job'[h].claim = k
                 PROVE  Trackers(k)' = 0
        <3>1. job'[h].step = "create" => job'[h].claim \in Claims
            BY <1>1, JobFields DEF Inv, TypeOK
        <3> QED
            BY <3>1 DEF NoneYet, Trackers
    <2>1. h \in Creating(k)'
        BY DEF Creating
    <2>2. h \in Creating(k) => Trackers(k) = 0
        BY DEF StartInv, NoneYet, Creating
    <2>3. ASSUME NEW g \in Handlers, StartWrite(g), job[g].claim = k, h \in Creating(k)
          PROVE  g = h
        BY <1>2, <2>3 DEF StartsApart, Creating
    <2> QED
        BY <1>1, <2>1, <2>2, <2>3, CreatingSteps
<1> QED
    BY <1>1, <1>3, <1>4 DEF StartInv

LEMMA StartInvariant == Spec /\ []StartsApart => []StartInv
<1> QED
    BY StartInit, StartStep, PTL DEF Spec

\* While no two startTask requests for a claim overlap, a member has one tracker
\* for a sub task, also over failures and restarts.
THEOREM StartsOnceIfApart == Spec /\ []StartsApart => []OneTrackerPerClaim
<1>1. StartInv => OneTrackerPerClaim
    BY DEF StartInv
<1> QED
    BY <1>1, StartInvariant, PTL

-------------------------------------------------------------------------------
(* Refinement of ClaimLife                                                 *)

LEMMA LifeInit == Init => Life!Init
BY DEF Init, Life!Init, Stage, Stored

LEMMA LifeStep ==
    ASSUME StartInv, StartInv', [Next]_vars
    PROVE  [Life!Next]_(Life!vars)
<1> USE DEF StartInv, Inv, TypeOK
<1>1. ASSUME NEW h \in Handlers, StartWrite(h)
      PROVE  Life!Next
    <2> DEFINE k == job[h].claim
    <2>1. k \in Claims
        BY <1>1, JobFields DEF StartWrite
    <2>2. started[k] = 0 /\ submitted[k] = 0
        <3>1. Trackers(k) = 0
            BY <1>1 DEF StartWrite, NoneYet
        <3> QED
            BY <2>1, <3>1 DEF Trackers
    <2>3. /\ started' = [started EXCEPT ![k] = @ + 1]
          /\ UNCHANGED <<submitted, submissions>>
        BY <1>1 DEF StartWrite
    <2>4. Stage[k] = "none" /\ Stage' = [Stage EXCEPT ![k] = "started"]
        BY <2>1, <2>2, <2>3 DEF Stage
    <2>5. UNCHANGED Stored
        BY <2>3 DEF Stored
    <2> QED
        BY <2>1, <2>4, <2>5 DEF Life!Next, Life!StartTask
<1>2. ASSUME NEW h \in Handlers, StoreSubmission(h)
      PROVE  Life!Next
    <2> DEFINE k == job[h].claim
    <2>1. k \in Claims
        BY <1>2, JobFields DEF StoreSubmission
    <2>2. /\ submissions' = [submissions EXCEPT ![k] = @ + 1]
          /\ UNCHANGED <<started, submitted>>
        BY <1>2 DEF StoreSubmission
    <2>3. UNCHANGED Stage
        BY <2>2 DEF Stage
    <2>4. Stored' = Stored \cup {k}
        BY <2>1, <2>2 DEF Stored
    <2> QED
        BY <2>1, <2>3, <2>4 DEF Life!Next, Life!HandIn
<1>3. ASSUME NEW k \in Claims, MarkSubmitted(k)
      PROVE  Life!Next
    <2>1. /\ marks[k] > 0 /\ started[k] > 0
          /\ started' = [started EXCEPT ![k] = @ - 1]
          /\ submitted' = [submitted EXCEPT ![k] = @ + 1]
          /\ UNCHANGED submissions
        BY <1>3 DEF MarkSubmitted
    <2>2. submitted[k] = 0
        <3>1. started[k] \in Nat /\ submitted[k] \in Nat
            OBVIOUS
        <3>2. started[k] + submitted[k] <= 1
            BY DEF OneTrackerPerClaim, Trackers
        <3> QED
            BY <2>1, <3>1, <3>2
    <2>3. k \in Stored
        BY <2>1 DEF HandedInIsStored, Stored
    <2>4. Stage[k] = "started" /\ Stage' = [Stage EXCEPT ![k] = "pending"]
        <3>1. submitted'[k] > 0
            BY <2>1, <2>2
        <3>2. \A c \in Claims \ {k} :
                  started'[c] = started[c] /\ submitted'[c] = submitted[c]
            BY <2>1
        <3>3. Stage[k] = "started"
            BY <2>1, <2>2 DEF Stage
        <3>4. Stage'[k] = "pending"
            BY <3>1 DEF Stage
        <3>5. \A c \in Claims \ {k} : Stage'[c] = Stage[c]
            BY <3>2 DEF Stage
        <3>6. /\ Stage' = [c \in Claims |-> Stage'[c]]
              /\ Stage = [c \in Claims |-> Stage[c]]
            BY DEF Stage
        <3> HIDE DEF StartInv, Inv, TypeOK
        <3> QED
            BY <3>3, <3>4, <3>5, <3>6
    <2>5. UNCHANGED Stored
        BY <2>1 DEF Stored
    <2> QED
        BY <2>3, <2>4, <2>5 DEF Life!Next, Life!SubmitTask
<1>4. CASE UNCHANGED <<started, submitted, submissions>>
    BY <1>4 DEF Life!vars, Stage, Stored
<1> QED
    BY <1>1, <1>2, <1>3, <1>4
       DEF Next, RequestStep, MarkStep, StartRead, StartRefused, SubmitCheck, Drop,
           MarkRejects, DropMark, Restart, vars

\* While no two startTask requests for a claim overlap, TaskIntake implements
\* ClaimLife, however its submissions overlap, fail or are cut off.
THEOREM RefinementIfApart == Spec /\ []StartsApart => ImplementsClaimLife
<1>1. StartInv /\ StartInv' /\ [Next]_vars => [Life!Next]_(Life!vars)
    BY LifeStep
<1> QED
    BY <1>1, StartInvariant, LifeInit, PTL DEF Spec, Life!Spec, ImplementsClaimLife

\* ApartSpec, which the runs check, has exactly such behaviours.
LEMMA ApartSpecIsApart == ApartSpec => Spec /\ []StartsApart
<1>1. Init => StartsApart
    BY DEF Init, StartsApart, Idle
<1>2. [Next /\ StartsApart']_vars /\ StartsApart => StartsApart'
    BY DEF StartsApart, vars
<1>3. [Next /\ StartsApart']_vars => [Next]_vars
    OBVIOUS
<1> QED
    BY <1>1, <1>2, <1>3, PTL DEF ApartSpec, Spec

===============================================================================
