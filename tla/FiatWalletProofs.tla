--------------------------- MODULE FiatWalletProofs ---------------------------
(***************************************************************************)
(* Proofs about FiatWallet, for any requests, wallets and number of tries. *)
(*                                                                         *)
(* The bound on wrong PINs counts the requests that stand between their    *)
(* comparison and their write: while the wallet is not locked, answered    *)
(* tries are exactly the stored counter, and the counter plus the counts   *)
(* still to be written is bounded.  What the ledger says follows from the  *)
(* await a request has reached.                                            *)
(***************************************************************************)
EXTENDS FiatWallet, FiniteSetTheorems, TLAPS

N == Cardinality(Guarded)
Gates == {"idle", "count", "lock", "reset", "passed"}
At(g, s) == {h \in Guarded : g[h] = s}

\* The counter and the lock, with the writes still to come.
PinInv ==
    /\ pin \in Pins \cup {NoPin}
    /\ choosing \subseteq Pins
    /\ gate \in [Guarded -> Gates]
    /\ attempts \in Nat /\ guesses \in Nat /\ wrongs \in 0 .. PinTries
    /\ locked \in BOOLEAN
    /\ attempts + Cardinality(At(gate, "count")) <= PinTries + N - 1
    /\ ~locked => /\ guesses = attempts
                  /\ attempts + Cardinality(At(gate, "count")) <= PinTries - 2 + N
                  /\ attempts <= wrongs \/ wrongs = PinTries
    /\ guesses + Cardinality(At(gate, "count")) + Cardinality(At(gate, "lock"))
          <= PinTries - 2 + 2 * N
    /\ (\E h \in Guarded : gate[h] = "lock") => wrongs >= PinTries - 1
    /\ locked => wrongs = PinTries

-------------------------------------------------------------------------------
(* Counting requests *)

LEMMA NAtLeastOne == N \in Nat /\ N >= 1
  <1>1. IsFiniteSet(Guarded) /\ Guarded # {}
    BY PinAssumption
  <1>2. N \in Nat
    BY <1>1, FS_CardinalityType DEF N
  <1>3. N # 0
    BY <1>1, FS_EmptySet DEF N
  <1>. QED BY <1>2, <1>3

\* How many requests stand at a write, and that one more or less do after a step.
LEMMA AtCount ==
  ASSUME NEW g \in [Guarded -> Gates], NEW s
  PROVE  /\ IsFiniteSet(At(g, s))
         /\ Cardinality(At(g, s)) \in Nat
         /\ Cardinality(At(g, s)) <= N
  <1>1. At(g, s) \subseteq Guarded
    BY DEF At
  <1>2. IsFiniteSet(At(g, s)) /\ Cardinality(At(g, s)) <= N
    BY <1>1, PinAssumption, FS_Subset DEF N
  <1>. QED BY <1>2, FS_CardinalityType

LEMMA AtEnter ==
  ASSUME NEW g \in [Guarded -> Gates], NEW h \in Guarded, NEW s, NEW t, g[h] = t, s # t
  PROVE  /\ Cardinality(At([g EXCEPT ![h] = s], s)) = Cardinality(At(g, s)) + 1
         /\ Cardinality(At(g, s)) <= N - 1
  <1>1. At([g EXCEPT ![h] = s], s) = At(g, s) \cup {h}
    BY DEF At
  <1>2. h \notin At(g, s)
    BY DEF At
  <1>3. IsFiniteSet(At(g, s)) /\ IsFiniteSet(Guarded)
    BY AtCount, PinAssumption
  <1>4. At(g, s) \cup {h} \subseteq Guarded
    BY DEF At
  <1>5. Cardinality(At(g, s) \cup {h}) = Cardinality(At(g, s)) + 1
    BY <1>2, <1>3, FS_AddElement
  <1>6. Cardinality(At(g, s) \cup {h}) <= N
    BY <1>3, <1>4, FS_Subset DEF N
  <1>7. Cardinality(At(g, s)) \in Nat /\ N \in Nat
    BY AtCount, NAtLeastOne
  <1>8. Cardinality(At(g, s)) + 1 <= N
    BY <1>5, <1>6
  <1>9. Cardinality(At(g, s)) <= N - 1
    BY <1>7, <1>8
  <1>. QED BY <1>1, <1>5, <1>9

LEMMA AtLeave ==
  ASSUME NEW g \in [Guarded -> Gates], NEW h \in Guarded, NEW s, NEW t, g[h] = s, s # t
  PROVE  Cardinality(At([g EXCEPT ![h] = t], s)) = Cardinality(At(g, s)) - 1
  <1>1. At([g EXCEPT ![h] = t], s) = At(g, s) \ {h}
    BY DEF At
  <1>2. h \in At(g, s)
    BY DEF At
  <1>. QED BY <1>1, <1>2, AtCount, FS_RemoveElement

-------------------------------------------------------------------------------
(* The guard *)

LEMMA PinInvInit == Init => PinInv
  <1>. SUFFICES ASSUME Init PROVE PinInv
    OBVIOUS
  <1>1. gate \in [Guarded -> Gates] /\ \A h \in Guarded : gate[h] = "idle"
    BY DEF Init, PinInit, Gates
  <1>2. At(gate, "count") = {} /\ At(gate, "lock") = {}
    BY <1>1 DEF At
  <1>3. Cardinality({}) = 0
    BY FS_EmptySet
  <1>4. /\ pin \in Pins \cup {NoPin} /\ choosing \subseteq Pins
        /\ attempts = 0 /\ guesses = 0 /\ wrongs = 0 /\ locked = FALSE
    BY DEF Init, PinInit
  <1>5. /\ attempts + Cardinality(At(gate, "count")) <= PinTries - 2 + N
        /\ guesses + Cardinality(At(gate, "count")) + Cardinality(At(gate, "lock"))
              <= PinTries - 2 + 2 * N
        /\ wrongs \in 0 .. PinTries /\ attempts \in Nat /\ guesses \in Nat
        /\ attempts + Cardinality(At(gate, "count")) <= PinTries + N - 1
        /\ attempts <= wrongs /\ guesses = attempts
    BY <1>2, <1>3, <1>4, NAtLeastOne, PinAssumption
  <1>6. ~(\E h \in Guarded : gate[h] = "lock")
    BY <1>1
  <1>. QED BY <1>1, <1>4, <1>5, <1>6 DEF PinInv

\* Each step of the guard, and each way to leave it, keeps the bounds.
LEMMA TryKeeps ==
  ASSUME PinInv, NEW h \in Guarded, NEW p \in Pins, TryPin(h, p)
  PROVE  PinInv'
  <1>. USE NAtLeastOne, PinAssumption
  <1>0. ~locked /\ gate \in [Guarded -> Gates] /\ gate[h] = "idle" /\ locked \in BOOLEAN
    BY DEF PinInv, TryPin, LetsTry
  <1>1. PICK s \in {"count", "lock", "reset", "passed"} :
            /\ gate' = [gate EXCEPT ![h] = s]
            /\ s = "count" => attempts < PinTries - 1
            /\ s = "lock" => ~(attempts < PinTries - 1)
    BY <1>0 DEF TryPin, AfterWrong
  <1>2. UNCHANGED <<pin, attempts, locked, choosing, guesses, wrongs>>
    BY DEF TryPin
  <1>3. gate' \in [Guarded -> Gates]
    BY <1>0, <1>1 DEF Gates
  <1>4. /\ Cardinality(At(gate, "count")) \in Nat /\ Cardinality(At(gate, "lock")) \in Nat
        /\ Cardinality(At(gate', "count")) \in Nat /\ Cardinality(At(gate', "lock")) \in Nat
        /\ Cardinality(At(gate', "count")) <= N /\ Cardinality(At(gate', "lock")) <= N
    BY <1>0, <1>3, AtCount
  <1>5. ASSUME s # "count" PROVE At(gate', "count") = At(gate, "count")
    <2>1. \A x \in Guarded : gate'[x] = "count" <=> gate[x] = "count"
      BY <1>0, <1>1, <1>5
    <2>. QED BY <2>1 DEF At
  <1>6. /\ attempts + Cardinality(At(gate', "count")) <= PinTries - 2 + N
        /\ guesses + Cardinality(At(gate', "count")) + Cardinality(At(gate', "lock"))
              <= PinTries - 2 + 2 * N
    <2>1. CASE s = "count"
      BY <2>1, <1>0, <1>1, <1>4 DEF PinInv
    <2>2. CASE s # "count"
      BY <2>2, <1>0, <1>4, <1>5 DEF PinInv
    <2>. QED BY <2>1, <2>2
  <1>7. (\E k \in Guarded : gate'[k] = "lock") => wrongs >= PinTries - 1
    <2>1. CASE s = "lock"
      BY <2>1, <1>0, <1>1 DEF PinInv
    <2>2. CASE s # "lock"
      BY <2>2, <1>0, <1>1 DEF PinInv
    <2>. QED BY <2>1, <2>2
  <1>. QED BY <1>0, <1>2, <1>3, <1>4, <1>6, <1>7 DEF PinInv

\* A request leaves its write s: the others keep theirs.
LEMMA LeaveFacts ==
  ASSUME PinInv, NEW h \in Guarded, NEW s \in {"count", "lock", "reset", "passed"},
         NEW t \in {"idle", "passed"}, s # t,
         gate[h] = s, gate' = [gate EXCEPT ![h] = t]
  PROVE  /\ gate' \in [Guarded -> Gates]
         /\ Cardinality(At(gate, "count")) \in Nat
         /\ Cardinality(At(gate, "lock")) \in Nat
         /\ Cardinality(At(gate', "count"))
               = IF s = "count" THEN Cardinality(At(gate, "count")) - 1
                                ELSE Cardinality(At(gate, "count"))
         /\ Cardinality(At(gate', "lock"))
               = IF s = "lock" THEN Cardinality(At(gate, "lock")) - 1
                               ELSE Cardinality(At(gate, "lock"))
         /\ s # "count" => Cardinality(At(gate, "count")) <= N - 1
         /\ (\E k \in Guarded : gate'[k] = "lock") => \E k \in Guarded : gate[k] = "lock"
  <1>1. gate \in [Guarded -> Gates] /\ gate' \in [Guarded -> Gates]
    BY DEF PinInv, Gates
  <1>2. Cardinality(At(gate, "count")) \in Nat /\ Cardinality(At(gate, "lock")) \in Nat
    BY <1>1, AtCount
  <1>3. s = "count" => Cardinality(At(gate', "count")) = Cardinality(At(gate, "count")) - 1
    BY <1>1, AtLeave
  <1>4. ASSUME s # "count" PROVE At(gate', "count") = At(gate, "count")
    <2>1. gate[h] # "count" /\ "count" # t
      BY <1>4
    <2>2. \A x \in Guarded : gate'[x] = "count" <=> gate[x] = "count"
      BY <1>1, <2>1
    <2>. QED BY <2>2 DEF At
  <1>5. s = "lock" => Cardinality(At(gate', "lock")) = Cardinality(At(gate, "lock")) - 1
    BY <1>1, AtLeave
  <1>6. ASSUME s # "lock" PROVE At(gate', "lock") = At(gate, "lock")
    <2>1. gate[h] # "lock" /\ "lock" # t
      BY <1>6
    <2>2. \A x \in Guarded : gate'[x] = "lock" <=> gate[x] = "lock"
      BY <1>1, <2>1
    <2>. QED BY <2>2 DEF At
  <1>7. s # "count" => Cardinality(At(gate, "count")) <= N - 1
    BY <1>1, AtEnter
  <1>8. (\E k \in Guarded : gate'[k] = "lock") => \E k \in Guarded : gate[k] = "lock"
    BY <1>1
  <1>. QED BY <1>1, <1>2, <1>3, <1>4, <1>5, <1>6, <1>7, <1>8

LEMMA CountKeeps ==
  ASSUME PinInv, NEW h \in Guarded, Count(h)
  PROVE  PinInv'
  <1>. USE NAtLeastOne, PinAssumption
  <1>. DEFINE c == Cardinality(At(gate, "count"))
              d == Cardinality(At(gate', "count"))
              l == Cardinality(At(gate, "lock"))
              m == Cardinality(At(gate', "lock"))
  <1>1. /\ gate' \in [Guarded -> Gates] /\ c \in Nat /\ l \in Nat /\ d = c - 1 /\ m = l
        /\ (\E k \in Guarded : gate'[k] = "lock") => \E k \in Guarded : gate[k] = "lock"
    <2>1. gate[h] = "count" /\ gate' = [gate EXCEPT ![h] = "idle"]
      BY DEF Count
    <2>. QED BY <2>1, LeaveFacts
  <1>2. /\ attempts' = attempts + 1 /\ guesses' = guesses + 1
        /\ wrongs' = IF wrongs < PinTries THEN wrongs + 1 ELSE wrongs
        /\ UNCHANGED <<pin, locked, choosing>>
    BY DEF Count, Answered
  <1>. HIDE DEF c, d, l, m
  <1>3. /\ attempts \in Nat /\ guesses \in Nat /\ wrongs \in 0 .. PinTries
        /\ attempts + c <= PinTries + N - 1
        /\ guesses + c + l <= PinTries - 2 + 2 * N
        /\ ~locked => /\ guesses = attempts /\ attempts + c <= PinTries - 2 + N
                      /\ attempts <= wrongs \/ wrongs = PinTries
    BY DEF PinInv, c, l
  <1>4. /\ attempts' \in Nat /\ guesses' \in Nat /\ wrongs' \in 0 .. PinTries
        /\ attempts' + d <= PinTries + N - 1
        /\ guesses' + d + m <= PinTries - 2 + 2 * N
    BY <1>1, <1>2, <1>3
  <1>5. ~locked' => /\ guesses' = attempts' /\ attempts' + d <= PinTries - 2 + N
                    /\ attempts' <= wrongs' \/ wrongs' = PinTries
    BY <1>1, <1>2, <1>3
  <1>6. wrongs >= PinTries - 1 => wrongs' >= PinTries - 1
    BY <1>2, <1>3
  <1>7. wrongs = PinTries => wrongs' = PinTries
    BY <1>2, <1>3
  <1>. QED BY <1>1, <1>2, <1>4, <1>5, <1>6, <1>7 DEF PinInv, d, m

LEMMA LockKeeps ==
  ASSUME PinInv, NEW h \in Guarded, Lock(h)
  PROVE  PinInv'
  <1>. USE NAtLeastOne, PinAssumption
  <1>. DEFINE c == Cardinality(At(gate, "count"))
              d == Cardinality(At(gate', "count"))
              l == Cardinality(At(gate, "lock"))
              m == Cardinality(At(gate', "lock"))
  <1>1. /\ gate' \in [Guarded -> Gates] /\ c \in Nat /\ l \in Nat /\ d = c /\ m = l - 1
        /\ c <= N - 1
    <2>1. gate[h] = "lock" /\ gate' = [gate EXCEPT ![h] = "idle"]
      BY DEF Lock
    <2>. QED BY <2>1, LeaveFacts
  <1>2. /\ attempts' = PinTries /\ guesses' = guesses + 1
        /\ wrongs' = IF wrongs < PinTries THEN wrongs + 1 ELSE wrongs
        /\ locked' = TRUE /\ UNCHANGED <<pin, choosing>>
    BY DEF Lock, Answered
  <1>3. wrongs >= PinTries - 1
    BY DEF Lock, PinInv
  <1>. HIDE DEF c, d, l, m
  <1>4. /\ guesses \in Nat /\ wrongs \in 0 .. PinTries
        /\ guesses + c + l <= PinTries - 2 + 2 * N
    BY DEF PinInv, c, l
  <1>5. /\ attempts' \in Nat /\ guesses' \in Nat /\ wrongs' = PinTries
        /\ wrongs' \in 0 .. PinTries /\ wrongs' >= PinTries - 1
        /\ attempts' + d <= PinTries + N - 1
        /\ guesses' + d + m <= PinTries - 2 + 2 * N
    BY <1>1, <1>2, <1>3, <1>4
  <1>6. pin' \in Pins \cup {NoPin} /\ choosing' \subseteq Pins
    BY <1>2 DEF PinInv
  <1>. QED BY <1>1, <1>2, <1>5, <1>6 DEF PinInv, d, m

LEMMA ResetKeeps ==
  ASSUME PinInv, NEW h \in Guarded, Reset(h)
  PROVE  PinInv'
  <1>. USE NAtLeastOne, PinAssumption
  <1>. DEFINE c == Cardinality(At(gate, "count"))
              d == Cardinality(At(gate', "count"))
              l == Cardinality(At(gate, "lock"))
              m == Cardinality(At(gate', "lock"))
  <1>1. /\ gate' \in [Guarded -> Gates] /\ c \in Nat /\ l \in Nat /\ d = c /\ m = l
        /\ c <= N - 1
        /\ (\E k \in Guarded : gate'[k] = "lock") => \E k \in Guarded : gate[k] = "lock"
    <2>1. gate[h] = "reset" /\ gate' = [gate EXCEPT ![h] = "passed"]
      BY DEF Reset
    <2>. QED BY <2>1, LeaveFacts
  <1>2. /\ attempts' = 0 /\ guesses' = 0 /\ UNCHANGED <<pin, locked, choosing, wrongs>>
    BY DEF Reset
  <1>3. l <= N
    BY AtCount DEF PinInv
  <1>. HIDE DEF c, d, l, m
  <1>4. wrongs \in 0 .. PinTries
    BY DEF PinInv
  <1>5. /\ attempts' \in Nat /\ guesses' \in Nat /\ guesses' = attempts'
        /\ attempts' + d <= PinTries + N - 1
        /\ attempts' + d <= PinTries - 2 + N
        /\ guesses' + d + m <= PinTries - 2 + 2 * N
        /\ attempts' <= wrongs'
    BY <1>1, <1>2, <1>3, <1>4
  <1>. QED BY <1>1, <1>2, <1>5 DEF PinInv, d, m

\* A request that fails at its write, or goes on to the transfer.
LEMMA LeaveKeeps ==
  ASSUME PinInv, NEW h \in Guarded, gate[h] \in {"count", "lock", "reset", "passed"},
         gate' = [gate EXCEPT ![h] = "idle"],
         UNCHANGED <<pin, attempts, locked, choosing, guesses, wrongs>>
  PROVE  PinInv'
  <1>. USE NAtLeastOne, PinAssumption
  <1>. DEFINE c == Cardinality(At(gate, "count"))
              d == Cardinality(At(gate', "count"))
              l == Cardinality(At(gate, "lock"))
              m == Cardinality(At(gate', "lock"))
  <1>1. /\ gate' \in [Guarded -> Gates] /\ c \in Nat /\ l \in Nat
        /\ d \in {c, c - 1} /\ m \in {l, l - 1}
        /\ (\E k \in Guarded : gate'[k] = "lock") => \E k \in Guarded : gate[k] = "lock"
    BY LeaveFacts
  <1>. HIDE DEF c, d, l, m
  <1>2. /\ attempts \in Nat /\ guesses \in Nat
        /\ attempts + c <= PinTries + N - 1
        /\ guesses + c + l <= PinTries - 2 + 2 * N
        /\ ~locked => attempts + c <= PinTries - 2 + N
    BY DEF PinInv, c, l
  <1>3. /\ attempts' + d <= PinTries + N - 1
        /\ guesses' + d + m <= PinTries - 2 + 2 * N
    BY <1>1, <1>2
  <1>4. ~locked' => attempts' + d <= PinTries - 2 + N
    BY <1>1, <1>2
  <1>. QED BY <1>1, <1>3, <1>4 DEF PinInv, d, m

LEMMA PinInvNext ==
  ASSUME PinInv, [Next]_vars
  PROVE  PinInv'
  <1>1. CASE UNCHANGED pinVars
    BY <1>1 DEF PinInv, pinVars, At
  <1>2. CASE \E p \in Pins : SetPin(p)
    <2>1. /\ UNCHANGED <<gate, attempts, locked, guesses, wrongs>>
          /\ pin \in Pins \cup {NoPin} => pin' \in Pins \cup {NoPin}
          /\ choosing \subseteq Pins => choosing' \subseteq Pins
      BY <1>2 DEF SetPin, ChoosePin, StorePin
    <2>. QED BY <2>1 DEF PinInv
  <1>3. ASSUME NEW t \in Transfers, GuardTransfer(t)
        PROVE  PinInv'
    <2>1. t \in Guarded /\ GuardStep(t)
      BY <1>3 DEF GuardTransfer, Transfers
    <2>2. DropTry(t) => PinInv'
      BY <2>1, LeaveKeeps DEF DropTry
    <2>. QED BY <2>1, <2>2, TryKeeps, CountKeeps, LockKeeps, ResetKeeps DEF GuardStep
  <1>4. ASSUME NEW t \in Transfers, BeginTransfer(t)
        PROVE  PinInv'
    BY <1>4, LeaveKeeps DEF BeginTransfer, Transfers
  <1>5. UNCHANGED pinVars \/ (\E p \in Pins : SetPin(p))
            \/ \E t \in Transfers : GuardTransfer(t) \/ BeginTransfer(t)
    BY DEF Next, vars, BeginGift, CreateCard, BeginWithdrawal, PayOut, BeginVerify,
           EnterTopUp, RaiseBalance, EnterCredit, EnterDebit, Cut
  <1>. QED BY <1>1, <1>2, <1>3, <1>4, <1>5

\* However many requests of a user try PINs at once, between two resets at most
\* PinTries + 2 (N - 1) wrong tries are answered (wallet-pin.guard.ts).
THEOREM GuessesAreBounded == Spec => []GuessesBounded
  <1>1. Init => PinInv
    BY PinInvInit
  <1>2. PinInv /\ [Next]_vars => PinInv'
    BY PinInvNext
  <1>3. PinInv => GuessesBounded
    <2>. SUFFICES ASSUME PinInv PROVE GuessesBounded
      OBVIOUS
    <2>1. /\ Cardinality(At(gate, "count")) \in Nat /\ Cardinality(At(gate, "lock")) \in Nat
      BY AtCount DEF PinInv
    <2>2. guesses \in Nat /\ guesses + Cardinality(At(gate, "count"))
              + Cardinality(At(gate, "lock")) <= PinTries - 2 + 2 * N
      BY DEF PinInv
    <2>. QED BY <2>1, <2>2, NAtLeastOne, PinAssumption DEF GuessesBounded, Overlap, N
  <1>. QED BY <1>1, <1>2, <1>3, PTL DEF Spec

\* A wallet is locked only after PinTries wrong tries, whatever the counters
\* requests have read (wallet-pin.guard.ts).
THEOREM LockEarned == Spec => []LockIsEarned
  <1>1. PinInv => LockIsEarned
    BY DEF PinInv, LockIsEarned
  <1>. QED BY <1>1, PinInvInit, PinInvNext, PTL DEF Spec

-------------------------------------------------------------------------------
(* The ledger *)

LedgerTypeOK ==
    /\ step \in [Requests -> {"idle", "pay", "credit", "debit", "card",
                              "entry", "balance", "done", "cut"}]
    /\ forMember \subseteq Gifts
    /\ keyed \subseteq Verifies
    /\ ledger \subseteq Entries
    /\ paid \subseteq Withdrawals
    /\ cards \subseteq Gifts
    /\ credited \subseteq Verifies

Covered(r) ==
    \/ r \in Withdrawals /\ r \in paid
    \/ r \in Transfers \cup forMember /\ Credit(r) \in ledger
    \/ r \in Gifts \ forMember

Charged(g) == Debit(g) \in ledger /\ (g \in forMember => Credit(g) \in ledger)

\* What is written when a request stands at an await.
LedgerInv ==
    /\ LedgerTypeOK
    /\ \A r \in Requests \ Verifies :
          /\ step[r] = "idle" => Debit(r) \notin ledger /\ r \notin forMember
          /\ step[r] = "debit" => Covered(r)
          /\ Debit(r) \in ledger => Covered(r)
    /\ \A g \in Gifts : step[g] = "card" \/ g \in cards => Charged(g)
    /\ \A v \in Verifies :
          /\ step[v] \in {"idle", "entry", "balance", "done", "cut"}
          /\ step[v] = "balance" \/ v \in credited => TopUp(v) \in ledger
          /\ v \in keyed /\ step[v] = "done" => v \in credited

LEMMA LedgerInvInit == Init => LedgerInv
  <1>. SUFFICES ASSUME Init PROVE LedgerInv
    OBVIOUS
  <1>1. /\ step = [r \in Requests |-> "idle"] /\ ledger = {} /\ forMember = {}
        /\ keyed = {} /\ paid = {} /\ cards = {} /\ credited = {}
    BY DEF Init
  <1>2. \A r \in Requests : step[r] = "idle"
    BY <1>1
  <1>3. LedgerTypeOK
    BY <1>1 DEF LedgerTypeOK
  <1>4. Gifts \subseteq Requests /\ Verifies \subseteq Requests
    BY DEF Requests
  <1>. QED BY <1>1, <1>2, <1>3, <1>4 DEF LedgerInv

LEMMA EntryTypes ==
  /\ \A r \in Requests : Debit(r) \in Entries /\ TopUp(r) \in Entries
  /\ \A r \in Transfers \cup Gifts : Credit(r) \in Entries
  <1>1. Transfers \cup Gifts \subseteq Requests
    BY DEF Requests
  <1>. QED BY <1>1, WalletAssumption DEF Entries, Debit, TopUp, Credit

LEMMA EntriesDiffer ==
  /\ \A r, t : Debit(r) = Debit(t) => r = t
  /\ \A r, t : Debit(r) # Credit(t) /\ Debit(r) # TopUp(t)
  BY DEF Debit, Credit, TopUp

LEMMA LedgerInvNext ==
  ASSUME LedgerInv, [Next]_vars
  PROVE  LedgerInv'
  <1>. USE DEF LedgerInv, LedgerTypeOK
  <1>1. CASE UNCHANGED ledgerVars
    BY <1>1 DEF ledgerVars, Covered, Charged, Debit, Credit, TopUp
  <1>2. ASSUME NEW t \in Transfers, BeginTransfer(t) PROVE LedgerInv'
    BY <1>2, WalletAssumption
       DEF BeginTransfer, Goto, Requests, Covered, Charged, Debit, Credit, TopUp
  <1>3. ASSUME NEW g \in Gifts, BeginGift(g) PROVE LedgerInv'
    BY <1>3, WalletAssumption DEF BeginGift, Goto, Requests, Covered, Charged, Debit, Credit, TopUp
  <1>4. ASSUME NEW w \in Withdrawals, BeginWithdrawal(w) PROVE LedgerInv'
    BY <1>4, WalletAssumption
       DEF BeginWithdrawal, Goto, Requests, Covered, Charged, Debit, Credit, TopUp
  <1>5. ASSUME NEW v \in Verifies, BeginVerify(v) PROVE LedgerInv'
    BY <1>5, WalletAssumption
       DEF BeginVerify, EarlierEntry, Goto, Requests, Covered, Charged, Debit, Credit, TopUp
  <1>6. ASSUME NEW r \in Requests, EnterCredit(r) PROVE LedgerInv'
    BY <1>6, WalletAssumption, EntryTypes, EntriesDiffer
       DEF EnterCredit, Goto, Requests, Covered, Charged
  <1>7. ASSUME NEW r \in Requests, EnterDebit(r) PROVE LedgerInv'
    <2>1. /\ step[r] = "debit" /\ r \notin Verifies /\ Covered(r)
          /\ step' = [step EXCEPT ![r] = IF r \in Gifts THEN "card" ELSE "done"]
          /\ ledger' = ledger \cup {Debit(r)}
          /\ UNCHANGED <<forMember, keyed, paid, cards, credited>>
      BY <1>7 DEF EnterDebit, Goto
    <2>2. LedgerTypeOK'
      BY <2>1, EntryTypes
    <2>3. \A x \in Requests : x # r => step'[x] = step[x]
      BY <2>1
    <2>4. \A x : Covered(x) => Covered(x)'
      BY <2>1 DEF Covered, Credit
    <2>5. step'[r] = IF r \in Gifts THEN "card" ELSE "done"
      BY <2>1
    <2>6. \A x \in Requests \ Verifies :
             /\ step'[x] = "idle" => Debit(x) \notin ledger' /\ x \notin forMember'
             /\ step'[x] = "debit" => Covered(x)'
             /\ Debit(x) \in ledger' => Covered(x)'
      BY <2>1, <2>3, <2>4, <2>5, EntriesDiffer
    <2>7. \A g \in Gifts : step'[g] = "card" \/ g \in cards' => Charged(g)'
      <3>. SUFFICES ASSUME NEW g \in Gifts, step'[g] = "card" \/ g \in cards'
                    PROVE  Charged(g)'
        OBVIOUS
      <3>1. Charged(g) => Charged(g)'
        BY <2>1 DEF Charged, Debit, Credit
      <3>2. CASE g = r
        BY <3>2, <2>1, WalletAssumption DEF Covered, Charged, Debit, Credit
      <3>3. CASE g # r
        BY <3>1, <3>3, <2>1, <2>3 DEF Requests
      <3>. QED BY <3>2, <3>3
    <2>8. \A v \in Verifies :
             /\ step'[v] \in {"idle", "entry", "balance", "done", "cut"}
             /\ step'[v] = "balance" \/ v \in credited' => TopUp(v) \in ledger'
             /\ v \in keyed' /\ step'[v] = "done" => v \in credited'
      BY <2>1, <2>3 DEF Requests
    <2>. QED BY <2>2, <2>6, <2>7, <2>8 DEF Covered, Charged, Debit, Credit, TopUp
  <1>8. ASSUME NEW g \in Gifts, CreateCard(g) PROVE LedgerInv'
    BY <1>8, WalletAssumption DEF CreateCard, Goto, Requests, Covered, Charged, Debit, Credit, TopUp
  <1>9. ASSUME NEW w \in Withdrawals, PayOut(w) PROVE LedgerInv'
    BY <1>9, WalletAssumption DEF PayOut, Goto, Requests, Covered, Charged, Debit, Credit, TopUp
  <1>10. ASSUME NEW v \in Verifies, EnterTopUp(v) PROVE LedgerInv'
    <2>1. /\ step[v] = "entry" /\ step' = [step EXCEPT ![v] = "balance"]
          /\ ledger' = ledger \cup {TopUp(v)}
          /\ UNCHANGED <<forMember, keyed, paid, cards, credited>>
          /\ v \in Requests /\ v \notin Gifts
      BY <1>10, WalletAssumption DEF EnterTopUp, Goto, Requests
    <2>2. LedgerTypeOK'
      BY <2>1, EntryTypes
    <2>3. step'[v] = "balance" /\ \A x \in Requests : x # v => step'[x] = step[x]
      BY <2>1
    <2>4. \A x : Debit(x) \in ledger' => Debit(x) \in ledger
      BY <2>1, EntriesDiffer
    <2>5. /\ \A x : Covered(x) => Covered(x)'
          /\ \A x : Charged(x) => Charged(x)'
      BY <2>1 DEF Covered, Charged, Credit, Debit
    <2>6. \A x \in Requests \ Verifies :
             /\ step'[x] = "idle" => Debit(x) \notin ledger' /\ x \notin forMember'
             /\ step'[x] = "debit" => Covered(x)'
             /\ Debit(x) \in ledger' => Covered(x)'
      BY <2>1, <2>3, <2>4, <2>5
    <2>7. \A g \in Gifts : step'[g] = "card" \/ g \in cards' => Charged(g)'
      BY <2>1, <2>3, <2>5 DEF Requests
    <2>8. \A x \in Verifies :
             /\ step'[x] \in {"idle", "entry", "balance", "done", "cut"}
             /\ step'[x] = "balance" \/ x \in credited' => TopUp(x) \in ledger'
             /\ x \in keyed' /\ step'[x] = "done" => x \in credited'
      BY <2>1, <2>3 DEF Requests
    <2>. QED BY <2>2, <2>6, <2>7, <2>8 DEF Covered, Charged, Debit, Credit, TopUp
  <1>11. ASSUME NEW v \in Verifies, RaiseBalance(v) PROVE LedgerInv'
    BY <1>11, WalletAssumption
       DEF RaiseBalance, Goto, Requests, Covered, Charged, Debit, Credit, TopUp
  <1>12. ASSUME NEW r \in Requests, Cut(r) PROVE LedgerInv'
    BY <1>12, WalletAssumption DEF Cut, Requests, Covered, Charged, Debit, Credit, TopUp
  <1>. HIDE DEF LedgerInv
  <1>13. (\E p \in Pins : SetPin(p)) \/ (\E t \in Transfers : GuardTransfer(t))
            => UNCHANGED ledgerVars
    BY DEF SetPin, GuardTransfer
  <1>. QED
    BY <1>1, <1>2, <1>3, <1>4, <1>5, <1>6, <1>7, <1>8, <1>9, <1>10, <1>11, <1>12, <1>13
       DEF Next, vars

\* Every variable keeps its type; the attempt counter stays under
\* PinTries + N - 1.
THEOREM FiatTypeCorrect == Spec => []TypeOK
  <1>1. PinInv /\ LedgerInv => TypeOK
    <2>. SUFFICES ASSUME PinInv, LedgerInv PROVE TypeOK
      OBVIOUS
    <2>1. Cardinality(At(gate, "count")) \in Nat
      BY AtCount DEF PinInv
    <2>2. attempts \in Nat /\ attempts + Cardinality(At(gate, "count")) <= PinTries + N - 1
      BY DEF PinInv
    <2>3. attempts \in 0 .. PinTries + Overlap
      BY <2>1, <2>2, NAtLeastOne, PinAssumption DEF Overlap, N
    <2>4. PinTypeOK
      BY <2>3 DEF PinInv, PinTypeOK, Gates
    <2>. QED BY <2>4 DEF TypeOK, LedgerInv, LedgerTypeOK
  <1>. QED BY <1>1, PinInvInit, PinInvNext, LedgerInvInit, LedgerInvNext, PTL DEF Spec

\* Cut off at any await, a transfer, gift or withdrawal has debited only money
\* that went somewhere (wallet.service.ts, withdrawal.service.ts).
THEOREM DebitsAreCovered == Spec => []DebitIsCovered
  <1>1. LedgerInv => DebitIsCovered
    BY DEF LedgerInv, DebitIsCovered, Covered
  <1>. QED BY <1>1, LedgerInvInit, LedgerInvNext, PTL DEF Spec

\* No gift card or discount exists that the wallet service did not enter
\* (brand app.service.ts, wallet.service.ts).
THEOREM CardsAreCharged == Spec => []CardIsCharged
  <1>1. LedgerInv => CardIsCharged
    BY DEF LedgerInv, LedgerTypeOK, CardIsCharged, Charged
  <1>. QED BY <1>1, LedgerInvInit, LedgerInvNext, PTL DEF Spec

\* A card payment that raised the balance has its entry, and one whose
\* transaction id is known ends by raising it (fund.service.ts).
THEOREM PaymentsAreEntered == Spec => []PaymentIsEntered
  <1>1. LedgerInv => PaymentIsEntered
    BY DEF LedgerInv, PaymentIsEntered
  <1>. QED BY <1>1, LedgerInvInit, LedgerInvNext, PTL DEF Spec

===============================================================================
