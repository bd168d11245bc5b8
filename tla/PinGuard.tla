------------------------------- MODULE PinGuard -------------------------------
(***************************************************************************)
(* The transaction PIN of one wallet: WalletPinGuard, which every transfer *)
(* passes, and createTransactionPin.                                       *)
(*                                                                         *)
(* The guard reads the wallet, compares, and then writes the counter or    *)
(* the lock: several requests of the user may stand between their read and *)
(* their write.  Nothing in the code clears the lock.                      *)
(*                                                                         *)
(* No route calls createTransactionPin at this commit, so wallets have the *)
(* empty PIN until it is called; what is said here of other PINs is said   *)
(* of the service as it stands behind its routes.                          *)
(***************************************************************************)
EXTENDS Integers, FiniteSets

CONSTANTS
    Guarded,    \* requests that pass the guard, each as often as it is sent
    Pins,       \* PINs; each may be chosen by one createTransactionPin
    NoPin,      \* the empty PIN of a new wallet
    PinTries    \* totalAttempts

ASSUME PinAssumption ==
    /\ IsFiniteSet(Guarded) /\ Guarded # {}
    /\ NoPin \notin Pins
    /\ PinTries \in Nat /\ PinTries >= 2

VARIABLES
    pin,        \* the stored PIN
    attempts,   \* pinAttempts
    locked,     \* pinLocked
    gate,       \* the await each request is at in the guard
    choosing,   \* PINs whose createTransactionPin is about to write
    guesses,    \* history: wrong tries answered since the last reset
    wrongs      \* history: wrong tries ever answered, up to PinTries

pinVars == <<pin, attempts, locked, gate, choosing, guesses, wrongs>>

Overlap == Cardinality(Guarded) - 1

PinTypeOK ==
    /\ pin \in Pins \cup {NoPin}
    /\ attempts \in 0 .. PinTries + Overlap
    /\ locked \in BOOLEAN
    /\ gate \in [Guarded -> {"idle", "count", "lock", "reset", "passed"}]
    /\ choosing \subseteq Pins
    /\ guesses \in Nat
    /\ wrongs \in 0 .. PinTries

PinInit ==
    /\ pin = NoPin
    /\ attempts = 0
    /\ locked = FALSE
    /\ gate = [h \in Guarded |-> "idle"]
    /\ choosing = {}
    /\ guesses = 0
    /\ wrongs = 0

-------------------------------------------------------------------------------
(* The guard *)

\* Variants for the mutation runs: the lock is not looked at; one try too
\* few is allowed.
LetsTryLocked == TRUE
AfterWrongEarly == IF attempts + 2 < PinTries THEN "count" ELSE "lock"

LetsTry == ~locked
AfterWrong == IF attempts < PinTries - 1 THEN "count" ELSE "lock"

\* The wallet is read and p is compared; without a stored PIN all are wrong.
TryPin(h, p) ==
    /\ LetsTry
    /\ gate[h] = "idle"
    /\ gate' = [gate EXCEPT ![h] = IF p # pin THEN AfterWrong
                                  ELSE IF attempts > 0 THEN "reset" ELSE "passed"]
    /\ UNCHANGED <<pin, attempts, locked, choosing, guesses, wrongs>>

\* History: a wrong try is answered.
Answered ==
    /\ guesses' = guesses + 1
    /\ wrongs' = IF wrongs < PinTries THEN wrongs + 1 ELSE wrongs

Count(h) ==
    /\ gate[h] = "count"
    /\ attempts' = attempts + 1
    /\ gate' = [gate EXCEPT ![h] = "idle"]
    /\ Answered
    /\ UNCHANGED <<pin, locked, choosing>>

Lock(h) ==
    /\ gate[h] = "lock"
    /\ attempts' = PinTries
    /\ locked' = TRUE
    /\ gate' = [gate EXCEPT ![h] = "idle"]
    /\ Answered
    /\ UNCHANGED <<pin, choosing>>

\* The counter starts again, even that of a wallet locked meanwhile.
Reset(h) ==
    /\ gate[h] = "reset"
    /\ attempts' = 0
    /\ gate' = [gate EXCEPT ![h] = "passed"]
    /\ guesses' = 0
    /\ UNCHANGED <<pin, locked, choosing, wrongs>>

\* The write fails, or the process ends: the caller learns nothing.
DropTry(h) ==
    /\ gate[h] \in {"count", "lock", "reset"}
    /\ gate' = [gate EXCEPT ![h] = "idle"]
    /\ UNCHANGED <<pin, attempts, locked, choosing, guesses, wrongs>>

GuardStep(h) ==
    \/ \E p \in Pins : TryPin(h, p)
    \/ Count(h) \/ Lock(h) \/ Reset(h) \/ DropTry(h)

-------------------------------------------------------------------------------
(* createTransactionPin *)
ChoosePin(p) ==
    /\ pin = NoPin
    /\ choosing' = choosing \cup {p}
    /\ UNCHANGED <<pin, attempts, locked, gate, guesses, wrongs>>

StorePin(p) ==
    /\ p \in choosing
    /\ pin' = p
    /\ choosing' = choosing \ {p}
    /\ UNCHANGED <<attempts, locked, gate, guesses, wrongs>>

-------------------------------------------------------------------------------
(* Properties *)

\* Requests sent at once cannot try PINs without end: since the counter was last
\* reset, one wrong try is answered for each attempt allowed, and at most two
\* more for each request that may overlap, one whose count and one whose lock
\* were still to be written.
GuessesBounded == guesses <= PinTries + 2 * Overlap

\* A wallet is locked only after as many wrong tries as the guard announces,
\* however stale the counters read.
LockIsEarned == locked => wrongs = PinTries

===============================================================================
