------------------------------ MODULE TaskIntake ------------------------------
(***************************************************************************)
(* How a member's work on a sub task reaches review, in the users part of  *)
(* the auth service: startTask stores a tracker, submitTask checks the     *)
(* request, stores a submission and then moves the tracker by a call that  *)
(* nobody awaits.  When that call rejects, nothing handles the rejection   *)
(* and the process ends with every request in it.                          *)
(*                                                                         *)
(* A request suspends between its read and its write, so requests overlap; *)
(* a write already sent when the process ends may or may not take effect.  *)
(* What is submitted (text, url, images) is left out.                      *)
(***************************************************************************)
EXTENDS Integers, FiniteSets

CONSTANTS
    Tasks,          \* sub tasks, each of one campaign
    Members,        \* users of account type 'user'
    Handlers,       \* requests the auth service works on at a time
    MaxSubmissions, \* bound: submissions of one member for one sub task
    Faults          \* {"fail"} when calls of other services or the database may fail

ASSUME IntakeAssumption ==
    /\ MaxSubmissions \in Nat
    /\ Faults \subseteq {"fail"}

\* The process serves finitely many requests at a time.
ASSUME FiniteAssumption == IsFiniteSet(Handlers)

\* What a tracker and a submission are about.
Claims == Tasks \X Members

VARIABLES
    started,     \* number of trackers of each claim with status 'started'
    submitted,   \* number of trackers with status 'submitted'
    submissions, \* number of submissions stored for each claim
    marks,       \* un-awaited calls that are to move a tracker
    up,          \* the process is running
    job          \* what each handler is doing

vars == <<started, submitted, submissions, marks, up, job>>

Idle == [step |-> "idle"]
Jobs == {Idle} \cup [step: {"create", "store"}, claim: Claims]

TypeOK ==
    /\ started \in [Claims -> Nat]
    /\ submitted \in [Claims -> Nat]
    /\ submissions \in [Claims -> Nat]
    /\ marks \in [Claims -> Nat]
    /\ up \in BOOLEAN
    /\ job \in [Handlers -> Jobs]

Init ==
    /\ started = [k \in Claims |-> 0]
    /\ submitted = [k \in Claims |-> 0]
    /\ submissions = [k \in Claims |-> 0]
    /\ marks = [k \in Claims |-> 0]
    /\ up = TRUE
    /\ job = [h \in Handlers |-> Idle]

Begin(h, step, k) ==
    /\ up
    /\ job[h] = Idle
    /\ job' = [job EXCEPT ![h] = [step |-> step, claim |-> k]]

Finish(h) == job' = [job EXCEPT ![h] = Idle]

Trackers(k) == started[k] + submitted[k]

-------------------------------------------------------------------------------
(* startTask                                                               *)

\* Variant for the mutation runs: only a tracker not yet submitted counts.
StartReadOpen(h, k) ==
    /\ started[k] = 0
    /\ Begin(h, "create", k)
    /\ UNCHANGED <<started, submitted, submissions, marks, up>>

\* No tracker of the claim is found, and the handler goes on to create one.
StartRead(h, k) ==
    /\ Trackers(k) = 0
    /\ Begin(h, "create", k)
    /\ UNCHANGED <<started, submitted, submissions, marks, up>>

\* 'Task already started'
StartRefused(h, k) ==
    /\ up
    /\ job[h] = Idle
    /\ Trackers(k) > 0
    /\ UNCHANGED vars

\* Variant: the tracker is created with the status it should reach later.
StartWriteSubmitted(h) ==
    /\ job[h].step = "create"
    /\ submitted' = [submitted EXCEPT ![job[h].claim] = @ + 1]
    /\ Finish(h)
    /\ UNCHANGED <<started, submissions, marks, up>>

StartWrite(h) ==
    /\ job[h].step = "create"
    /\ started' = [started EXCEPT ![job[h].claim] = @ + 1]
    /\ Finish(h)
    /\ UNCHANGED <<submitted, submissions, marks, up>>

-------------------------------------------------------------------------------
(* submitTask                                                              *)

\* Variant: the tracker is moved before the submission is stored.
SubmitCheckMarks(h, k) ==
    /\ submissions[k] < MaxSubmissions
    /\ Begin(h, "store", k)
    /\ marks' = [marks EXCEPT ![k] = @ + 1]
    /\ UNCHANGED <<started, submitted, submissions, up>>

(* Campaign and sub task are fetched and the work is checked and uploaded. *)
(* Neither the end date nor an earlier submission stops a request: the end *)
(* date arrives as text, which is never less than a Date, and the search   *)
(* for an earlier submission names a field (task_uuid) that no submission  *)
(* has, so it always comes back empty.  The tracker is not looked at.      *)
SubmitCheck(h, k) ==
    /\ submissions[k] < MaxSubmissions
    /\ Begin(h, "store", k)
    /\ UNCHANGED <<started, submitted, submissions, marks, up>>

\* Variant: the callback is not called.
StoreUnmarked(h) ==
    /\ job[h].step = "store"
    /\ submissions' = [submissions EXCEPT ![job[h].claim] = @ + 1]
    /\ Finish(h)
    /\ UNCHANGED <<started, submitted, marks, up>>

(* The submission is stored, the callback is called but not awaited, and   *)
(* the member gets an answer.  A process that has ended calls nothing.     *)
StoreSubmission(h) ==
    /\ job[h].step = "store"
    /\ submissions' = [submissions EXCEPT ![job[h].claim] = @ + 1]
    /\ marks' = [marks EXCEPT ![job[h].claim] = IF up THEN @ + 1 ELSE @]
    /\ Finish(h)
    /\ UNCHANGED <<started, submitted, up>>

(* findAndCreateOrUpdateTaskCompletion: one tracker of the claim with      *)
(* status 'started' becomes 'submitted'.  The count that follows in the    *)
(* finally block may still reject.                                         *)
MarkSubmitted(k) ==
    /\ marks[k] > 0
    /\ started[k] > 0
    /\ started' = [started EXCEPT ![k] = @ - 1]
    /\ submitted' = [submitted EXCEPT ![k] = @ + 1]
    /\ marks' = [marks EXCEPT ![k] = @ - 1]
    /\ \/ up' = up
       \/ "fail" \in Faults /\ up' = FALSE
    /\ UNCHANGED <<submissions, job>>

\* No tracker is found, or the database fails: the call rejects.
MarkRejects(k) ==
    /\ up
    /\ marks[k] > 0
    /\ started[k] = 0 \/ "fail" \in Faults
    /\ marks' = [marks EXCEPT ![k] = @ - 1]
    /\ up' = FALSE
    /\ UNCHANGED <<started, submitted, submissions, job>>

-------------------------------------------------------------------------------
(* Around the requests                                                     *)

\* A request fails at one of its calls, or ends with the process.
Drop(h) ==
    /\ job[h] # Idle
    /\ ~up \/ "fail" \in Faults
    /\ Finish(h)
    /\ UNCHANGED <<started, submitted, submissions, marks, up>>

\* A call ends with the process.
DropMark(k) ==
    /\ ~up
    /\ marks[k] > 0
    /\ marks' = [marks EXCEPT ![k] = @ - 1]
    /\ UNCHANGED <<started, submitted, submissions, up, job>>

\* Someone starts the service again, when nothing of the old process is left.
Restart ==
    /\ ~up
    /\ \A h \in Handlers : job[h] = Idle
    /\ \A k \in Claims : marks[k] = 0
    /\ up' = TRUE
    /\ UNCHANGED <<started, submitted, submissions, marks, job>>

MarkStep(k) == MarkSubmitted(k) \/ MarkRejects(k)

RequestStep(h) ==
    \/ \E k \in Claims : StartRead(h, k) \/ StartRefused(h, k) \/ SubmitCheck(h, k)
    \/ StartWrite(h)
    \/ StoreSubmission(h)
    \/ Drop(h)

Next ==
    \/ \E h \in Handlers : RequestStep(h)
    \/ \E k \in Claims : MarkStep(k) \/ DropMark(k)
    \/ Restart

Spec == Init /\ [][Next]_vars

\* A call that was made is settled sooner or later.
FairSpec == Spec /\ \A k \in Claims : WF_vars(MarkStep(k))

(* Nothing in the code keeps two startTask requests of a member apart.     *)
(* ApartSpec has the behaviours in which they happen not to overlap;       *)
(* submissions may overlap with each other and with the start.             *)
Creating(k) == {h \in Handlers : job[h].step = "create" /\ job[h].claim = k}

StartsApart ==
    \A g, h \in Handlers :
        g # h /\ job[g].step = "create" /\ job[h].step = "create" => job[g].claim # job[h].claim

ApartSpec == Init /\ [][Next /\ StartsApart']_vars

-------------------------------------------------------------------------------
(* Properties *)

\* However requests overlap, fail and are cut off, no more trackers of a claim
\* reach (or are about to reach) review than there are submissions to review:
\* the submission is stored before the call that moves the tracker.
HandedInIsStored ==
    \A k \in Claims : submitted[k] + marks[k] <= submissions[k]

\* With a database that does not fail, the process ends only for a submission
\* that no tracker stands for: one made without a start, or made twice.
StopsOnlyForStray ==
    [][up /\ ~up' => \E k \in Claims : submissions[k] > Trackers(k)]_vars

\* 'Task already started': while no two startTask requests for it overlap, a
\* member has one tracker for a sub task.
OneTrackerPerClaim == \A k \in Claims : Trackers(k) <= 1

\* How far overlapping startTask requests can go: whoever is to create a tracker
\* found none, so they all looked before the first of them wrote, and a claim has
\* at most one tracker per request that can be open at a time.
TrackersPerRequest ==
    \A k \in Claims : Trackers(k) + Cardinality(Creating(k)) <= Cardinality(Handlers)

\* As long as the process runs, whoever handed in comes up for review.
HandedInIsMarked ==
    []up => \A k \in Claims : submissions[k] > 0 ~> submitted[k] > 0

\* The refinement mapping to the life of a claim.
Stage == [k \in Claims |->
    IF submitted[k] > 0 THEN "pending" ELSE IF started[k] > 0 THEN "started" ELSE "none"]
Stored == {k \in Claims : submissions[k] > 0}

Life == INSTANCE ClaimLife WITH stage <- Stage, stored <- Stored

\* While no two startTask requests for a claim overlap, trackers live as
\* Settlement assumes, whatever is submitted twice, fails or is cut off.
ImplementsClaimLife == Life!Spec

===============================================================================
