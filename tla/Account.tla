------------------------------- MODULE Account -------------------------------
(***************************************************************************)
(* The account of one user in the auth service: the token records that say *)
(* which sessions are accepted, the password, its reset token, and whether *)
(* the account is active.                                                  *)
(*                                                                         *)
(* A session is a pair of tokens, written to the user's first token record *)
(* or, after any error, to a new one.  resetPassword answers before its    *)
(* write, which nobody awaits: one that rejects ends the process.  One     *)
(* that names no token looks for a user without one and sets the password  *)
(* of the first it meets, this user's or another's.  Wrong passwords,      *)
(* unknown tokens and the mails change nothing.                            *)
(***************************************************************************)
EXTENDS Integers, FiniteSets

CONSTANTS
    Sessions,   \* logins and token refreshes, and the pairs they issue
    Forgots,    \* forgotPassword requests, and the reset tokens they make
    Resets,     \* resetPassword requests, and the passwords they set
    Changes,    \* updatePassword requests, and the passwords they set
    None,       \* null: no session, no token, the first password
    Missing,    \* no document
    Faults      \* whether "fail" may happen

ASSUME AccountAssumption ==
    /\ {None, Missing} \cap (Sessions \cup Forgots \cup Resets \cup Changes) = {}
    /\ None # Missing /\ {"idle", "done"} \cap (Forgots \cup {None}) = {}
    /\ Resets \cap Changes = {}
    /\ Faults \subseteq {"fail"}

VARIABLES
    up,         \* the auth process runs
    first,      \* tokens in the user's first token record
    others,     \* tokens in later records, which no update reaches
    issue,      \* the await each login or refresh is at
    leaving,    \* sessions whose logout has passed the guard
    active,     \* status of the user
    password,   \* None: the first one
    resetToken, \* password_reset_token
    forgot,     \* the await each forgotPassword is at
    reset,      \* "idle", the token or None of a write to come, or "done"
    change,     \* updatePassword requests: about to write, or done
    closing,    \* deactivateAccount is about to write
    ended,      \* history: sessions replaced or logged out
    astray,     \* history: a store failed, or two of them found no record
    spent,      \* history: how often each reset token set a password
    contested,  \* history: a reset token was used twice at once, or replaced
                \* while it was used, or the write of a reset failed or found
                \* no user without a token any more
    latest,     \* history: the password answered last
    mixed       \* history: two password writes were under way at once

sessionVars == <<first, others, issue, leaving, ended, astray>>
passwordVars == <<password, resetToken, forgot, reset, change, spent, contested, latest, mixed>>
statusVars == <<active, closing>>
vars == <<up, sessionVars, passwordVars, statusVars>>

-------------------------------------------------------------------------------
Accepted == ({first} \cup others) \ {None, Missing}
Pending == {q \in Resets : reset[q] \in Forgots \cup {None}}
Changing == {c \in Changes : change[c] = "write"}

TypeOK ==
    /\ up \in BOOLEAN
    /\ first \in Sessions \cup {None, Missing}
    /\ others \subseteq Sessions
    /\ issue \in [Sessions -> {"idle", "store", "create", "done", "cut"}]
    /\ leaving \subseteq Sessions
    /\ ended \subseteq Sessions
    /\ astray \in BOOLEAN
    /\ active \in BOOLEAN
    /\ closing \in BOOLEAN
    /\ password \in Resets \cup Changes \cup {None}
    /\ resetToken \in Forgots \cup {None}
    /\ forgot \in [Forgots -> {"idle", "write", "sent", "cut"}]
    /\ reset \in [Resets -> Forgots \cup {None, "idle", "done"}]
    /\ change \in [Changes -> {"idle", "write", "done"}]
    /\ spent \in [Forgots -> Nat]
    /\ contested \in BOOLEAN
    /\ latest \in Resets \cup Changes \cup {None}
    /\ mixed \in BOOLEAN

\* A registered user has a token record, one who came by OAuth has none.
Init ==
    /\ up = TRUE
    /\ first \in {None, Missing}
    /\ others = {}
    /\ issue = [s \in Sessions |-> "idle"]
    /\ leaving = {}
    /\ ended = {}
    /\ astray = FALSE
    /\ active = TRUE
    /\ closing = FALSE
    /\ password = None
    /\ resetToken = None
    /\ forgot = [f \in Forgots |-> "idle"]
    /\ reset = [q \in Resets |-> "idle"]
    /\ change = [c \in Changes |-> "idle"]
    /\ spent = [f \in Forgots |-> 0]
    /\ contested = FALSE
    /\ latest = None
    /\ mixed = FALSE

-------------------------------------------------------------------------------
(* Sessions *)

\* A login with the right password, or an OAuth login: the account is active.
Login(s) ==
    /\ up /\ active
    /\ issue[s] = "idle"
    /\ issue' = [issue EXCEPT ![s] = "store"]
    /\ UNCHANGED <<up, first, others, leaving, ended, astray, passwordVars, statusVars>>

\* A refresh token that a record holds; the status is not looked at.
Refresh(s, t) ==
    /\ up
    /\ t \in Accepted
    /\ issue[s] = "idle"
    /\ issue' = [issue EXCEPT ![s] = "store"]
    /\ UNCHANGED <<up, first, others, leaving, ended, astray, passwordVars, statusVars>>

\* Variant for the mutation runs: the record is not looked for.
StoreNew(s) ==
    /\ issue[s] = "store"
    /\ issue' = [issue EXCEPT ![s] = "create"]
    /\ UNCHANGED <<up, first, others, leaving, ended, astray, passwordVars, statusVars>>

StoreTokens(s) ==
    /\ issue[s] = "store"
    /\ first # Missing
    /\ first' = s
    /\ issue' = [issue EXCEPT ![s] = "done"]
    /\ ended' = ended \cup ({first} \cap Sessions)
    /\ UNCHANGED <<up, others, leaving, astray, passwordVars, statusVars>>

\* No record is found, or the update fails, which is taken for the same.
StoreRejects(s) ==
    /\ issue[s] = "store"
    /\ first = Missing \/ "fail" \in Faults
    /\ issue' = [issue EXCEPT ![s] = "create"]
    /\ astray' = (astray \/ first # Missing \/ \E t \in Sessions : issue[t] = "create")
    /\ UNCHANGED <<up, first, others, leaving, ended, passwordVars, statusVars>>

CreateRecord(s) ==
    /\ issue[s] = "create"
    /\ IF first = Missing
       THEN first' = s /\ UNCHANGED others
       ELSE others' = others \cup {s} /\ UNCHANGED first
    /\ issue' = [issue EXCEPT ![s] = "done"]
    /\ UNCHANGED <<up, leaving, ended, astray, passwordVars, statusVars>>

FailIssue(s) ==
    /\ "fail" \in Faults
    /\ issue[s] = "create"
    /\ issue' = [issue EXCEPT ![s] = "cut"]
    /\ UNCHANGED <<up, first, others, leaving, ended, astray, passwordVars, statusVars>>

\* The guard finds a record with the token, and an active user.
LogoutGuard(s) ==
    /\ up /\ active
    /\ s \in Accepted
    /\ leaving' = leaving \cup {s}
    /\ UNCHANGED <<up, first, others, issue, ended, astray, passwordVars, statusVars>>

\* Whatever session the first record holds by now is ended.
LogoutWrite(s) ==
    /\ s \in leaving
    /\ leaving' = leaving \ {s}
    /\ \/ /\ first # Missing
          /\ first' = None
          /\ ended' = ended \cup {s} \cup ({first} \cap Sessions)
       \/ /\ first = Missing \/ "fail" \in Faults
          /\ UNCHANGED <<first, ended>>
    /\ UNCHANGED <<up, others, issue, astray, passwordVars, statusVars>>

-------------------------------------------------------------------------------
(* Passwords *)

ForgotRead(f) ==
    /\ up /\ active
    /\ forgot[f] = "idle"
    /\ forgot' = [forgot EXCEPT ![f] = "write"]
    /\ UNCHANGED <<up, sessionVars, password, resetToken, reset, change, spent, contested,
                   latest, mixed, statusVars>>

ForgotWrite(f) ==
    /\ forgot[f] = "write"
    /\ \/ /\ active
          /\ resetToken' = f
          /\ forgot' = [forgot EXCEPT ![f] = "sent"]
          /\ contested' = (contested \/ Pending # {})
       \/ /\ ~active \/ "fail" \in Faults
          /\ forgot' = [forgot EXCEPT ![f] = "cut"]
          /\ UNCHANGED <<resetToken, contested>>
    /\ UNCHANGED <<up, sessionVars, password, reset, change, spent, latest, mixed, statusVars>>

\* Variant for the mutation runs: any token that was mailed is good.
KnowsMailed(f) == forgot[f] = "sent"

KnowsToken(f) == resetToken = f

\* The token is found with an active user; the answer does not wait.
ResetRead(q, f) ==
    /\ up /\ active
    /\ reset[q] = "idle"
    /\ KnowsToken(f)
    /\ reset' = [reset EXCEPT ![q] = f]
    /\ contested' = (contested \/ \E r \in Resets : reset[r] = f)
    /\ mixed' = (mixed \/ Pending # {} \/ Changing # {})
    /\ latest' = q
    /\ UNCHANGED <<up, sessionVars, password, resetToken, forgot, change, spent, statusVars>>

\* Without a token: some active user has none, this one or another.
ResetReadTokenless(q) ==
    /\ up
    /\ reset[q] = "idle"
    /\ reset' = [reset EXCEPT ![q] = None]
    /\ mixed' = (mixed \/ Pending # {} \/ Changing # {})
    /\ UNCHANGED <<up, sessionVars, password, resetToken, forgot, change, spent, contested,
                   latest, statusVars>>

\* Variant for the mutation runs: the token is not cleared.
ResetWriteKeeps(q) ==
    /\ q \in Pending
    /\ reset[q] = resetToken
    /\ password' = q
    /\ latest' = IF reset[q] = None THEN q ELSE latest
    /\ spent' = [f \in Forgots |-> IF f = resetToken THEN spent[f] + 1 ELSE spent[f]]
    /\ reset' = [reset EXCEPT ![q] = "done"]
    /\ UNCHANGED <<up, sessionVars, resetToken, forgot, change, contested, mixed, statusVars>>

\* The filter is the token alone: of the user who has it, or has none.
ResetWrite(q) ==
    /\ q \in Pending
    /\ reset[q] = resetToken
    /\ password' = q
    /\ latest' = IF reset[q] = None THEN q ELSE latest
    /\ resetToken' = None
    /\ spent' = [f \in Forgots |-> IF f = resetToken THEN spent[f] + 1 ELSE spent[f]]
    /\ reset' = [reset EXCEPT ![q] = "done"]
    /\ UNCHANGED <<up, sessionVars, forgot, change, contested, mixed, statusVars>>

\* The first user without a token is another one.
ResetElsewhere(q) ==
    /\ reset[q] = None
    /\ reset' = [reset EXCEPT ![q] = "done"]
    /\ UNCHANGED <<up, sessionVars, password, resetToken, forgot, change, spent, contested,
                   latest, mixed, statusVars>>

\* No document has the token any more, or the write fails: nobody handles the
\* rejection and the process ends with every request in it.
ResetRejects(q) ==
    /\ q \in Pending
    /\ reset[q] # resetToken \/ "fail" \in Faults
    /\ up' = FALSE
    /\ reset' = [r \in Resets |-> IF r \in Pending THEN "done" ELSE reset[r]]
    /\ issue' = [s \in Sessions |-> IF issue[s] \in {"store", "create"} THEN "cut" ELSE issue[s]]
    /\ leaving' = {}
    /\ forgot' = [f \in Forgots |-> IF forgot[f] = "write" THEN "cut" ELSE forgot[f]]
    /\ change' = [c \in Changes |-> IF change[c] = "write" THEN "done" ELSE change[c]]
    /\ closing' = FALSE
    /\ mixed' = TRUE
    /\ contested' = (contested \/ reset[q] \in {resetToken, None})
    /\ UNCHANGED <<first, others, ended, astray, password, resetToken, spent, latest, active>>

Restart ==
    /\ ~up
    /\ up' = TRUE
    /\ UNCHANGED <<sessionVars, passwordVars, statusVars>>

\* A session of an active user and the old password, which was the stored one.
ChangeRead(c) ==
    /\ up /\ active
    /\ Accepted # {}
    /\ change[c] = "idle"
    /\ change' = [change EXCEPT ![c] = "write"]
    /\ mixed' = (mixed \/ Pending # {} \/ Changing # {})
    /\ UNCHANGED <<up, sessionVars, password, resetToken, forgot, reset, spent, contested, latest, statusVars>>

\* Variant for the mutation runs: the password stays.
ChangeWriteNothing(c) ==
    /\ change[c] = "write"
    /\ change' = [change EXCEPT ![c] = "done"]
    /\ latest' = c
    /\ UNCHANGED <<up, sessionVars, password, resetToken, forgot, reset, spent, contested, mixed, statusVars>>

ChangeWrite(c) ==
    /\ change[c] = "write"
    /\ change' = [change EXCEPT ![c] = "done"]
    /\ \/ password' = c /\ latest' = c
       \/ "fail" \in Faults /\ UNCHANGED <<password, latest>>
    /\ UNCHANGED <<up, sessionVars, resetToken, forgot, reset, spent, contested, mixed, statusVars>>

-------------------------------------------------------------------------------
(* deactivateAccount *)
CloseRead ==
    /\ up /\ active
    /\ Accepted # {}
    /\ closing' = TRUE
    /\ UNCHANGED <<up, sessionVars, passwordVars, active>>

CloseWrite ==
    /\ closing
    /\ closing' = FALSE
    /\ active' = FALSE
    /\ UNCHANGED <<up, sessionVars, passwordVars>>

-------------------------------------------------------------------------------
SessionStep(s) ==
    \/ Login(s)
    \/ \E t \in Sessions : Refresh(s, t)
    \/ StoreTokens(s) \/ StoreRejects(s) \/ CreateRecord(s) \/ FailIssue(s)
    \/ LogoutGuard(s) \/ LogoutWrite(s)

ResetStep(q) ==
    \/ \E f \in Forgots : ResetRead(q, f)
    \/ ResetReadTokenless(q)
    \/ ResetWrite(q) \/ ResetElsewhere(q) \/ ResetRejects(q)

Next ==
    \/ \E s \in Sessions : SessionStep(s)
    \/ \E f \in Forgots : ForgotRead(f) \/ ForgotWrite(f)
    \/ \E q \in Resets : ResetStep(q)
    \/ \E c \in Changes : ChangeRead(c) \/ ChangeWrite(c)
    \/ CloseRead \/ CloseWrite
    \/ Restart

Spec == Init /\ [][Next]_vars

-------------------------------------------------------------------------------
(* Properties *)

\* A session that was logged out, or replaced by a later login, is refused
\* from then on, however the requests overlap - unless an error of the token
\* store was taken for a missing record, or two first logins overlapped.
EndedStaysEnded == ~astray => ended \cap Accepted = {}

\* A reset token sets a password at most once, however many requests use it.
ResetOnce == \A f \in Forgots : spent[f] <= 1

\* The process ends only when a token was used twice at once or replaced while
\* it was used, when the write of a reset failed, or when nobody was without a
\* token any more at the write of a reset that named none.
StopsOnlyIfContested == up \/ contested

\* With no two password writes under way at once, the stored password is the
\* one answered last as soon as nothing is under way; a reset without a token
\* counts when its write meets this user.
LatestPasswordCounts == ~mixed /\ Pending = {} /\ Changing = {} => password = latest

===============================================================================
