---------------------------- MODULE AccountProofs -----------------------------
(***************************************************************************)
(* Proofs about Account, for any sessions and requests.                    *)
(*                                                                         *)
(* A session is stored once, so one that ended cannot come back unless the *)
(* user has several records; of them there is one as long as a missing     *)
(* record is found missing by one request at a time.  A reset token is     *)
(* stored once, so it can be spent once; a reset that names none spends    *)
(* none, whoever it meets.                                                 *)
(***************************************************************************)
EXTENDS Account, TLAPS

SessionTypeOK ==
    /\ first \in Sessions \cup {None, Missing}
    /\ others \subseteq Sessions
    /\ issue \in [Sessions -> {"idle", "store", "create", "done", "cut"}]
    /\ leaving \subseteq Sessions
    /\ ended \subseteq Sessions
    /\ astray \in BOOLEAN

\* Only what was stored is anywhere, and there is one record unless astray.
SessionInv ==
    /\ SessionTypeOK
    /\ \A s \in Sessions : s \in {first} \cup others \cup ended \cup leaving => issue[s] = "done"
    /\ ~astray =>
          /\ others = {} /\ first \notin ended
          /\ \A s \in Sessions : issue[s] = "create" => first = Missing
          /\ \A s, t \in Sessions : issue[s] = "create" /\ issue[t] = "create" => s = t

PasswordTypeOK ==
    /\ up \in BOOLEAN
    /\ active \in BOOLEAN
    /\ closing \in BOOLEAN
    /\ password \in Resets \cup Changes \cup {None}
    /\ resetToken \in Forgots \cup {None}
    /\ forgot \in [Forgots -> {"idle", "write", "sent", "cut"}]
    /\ reset \in [Resets -> Forgots \cup {None, "idle", "done"}]
    /\ change \in [Changes -> {"idle", "write", "done"}]
    /\ spent \in [Forgots -> Nat]
    /\ contested \in BOOLEAN
    /\ latest \in Resets \cup Changes \cup {None}
    /\ mixed \in BOOLEAN

\* A token that is stored was never spent; one that is not mailed neither.
TokenInv ==
    \A f \in Forgots :
        /\ spent[f] <= 1
        /\ forgot[f] # "sent" => spent[f] = 0
        /\ resetToken = f => forgot[f] = "sent" /\ spent[f] = 0

\* Uncontested, one reset is under way and its token is the stored one.
ContestInv ==
    /\ up \/ contested
    /\ ~contested =>
          /\ \A q \in Resets : reset[q] \in Forgots => reset[q] = resetToken
          /\ \A q, r \in Resets : reset[q] \in Forgots /\ reset[r] \in Forgots => q = r

\* Unmixed, one password write is under way; a reset was answered already.
LatestInv ==
    ~mixed =>
        /\ \A q, r \in Pending : q = r
        /\ \A c, d \in Changes : change[c] = "write" /\ change[d] = "write" => c = d
        /\ \A q \in Pending, c \in Changes : change[c] # "write"
        /\ \A q \in Resets : reset[q] \in Forgots => latest = q
        /\ (\A q \in Resets : reset[q] \notin Forgots) => password = latest

PasswordInv == PasswordTypeOK /\ TokenInv /\ ContestInv /\ LatestInv

-------------------------------------------------------------------------------
(* Sessions *)

LEMMA SessionInvInit == Init => SessionInv
  BY AccountAssumption DEF Init, SessionInv, SessionTypeOK

LEMMA SessionInvNext ==
  ASSUME SessionInv, [Next]_vars
  PROVE  SessionInv'
  <1>. USE AccountAssumption DEF SessionInv, SessionTypeOK
  <1>1. CASE UNCHANGED sessionVars
    BY <1>1 DEF sessionVars
  <1>2. ASSUME NEW s \in Sessions, Login(s) \/ \E t \in Sessions : Refresh(s, t)
        PROVE  SessionInv'
    BY <1>2 DEF Login, Refresh
  <1>3. ASSUME NEW s \in Sessions, StoreTokens(s) PROVE SessionInv'
    BY <1>3 DEF StoreTokens
  <1>4. ASSUME NEW s \in Sessions, StoreRejects(s) PROVE SessionInv'
    BY <1>4 DEF StoreRejects
  <1>5. ASSUME NEW s \in Sessions, CreateRecord(s) PROVE SessionInv'
    BY <1>5 DEF CreateRecord
  <1>6. ASSUME NEW s \in Sessions, FailIssue(s) PROVE SessionInv'
    BY <1>6 DEF FailIssue
  <1>7. ASSUME NEW s \in Sessions, LogoutGuard(s) PROVE SessionInv'
    BY <1>7 DEF LogoutGuard, Accepted
  <1>8. ASSUME NEW s \in Sessions, LogoutWrite(s) PROVE SessionInv'
    BY <1>8 DEF LogoutWrite
  <1>9. ASSUME NEW q \in Resets, ResetRejects(q) PROVE SessionInv'
    BY <1>9 DEF ResetRejects
  <1>. HIDE DEF SessionInv
  <1>10. \/ UNCHANGED sessionVars \/ (\E s \in Sessions : SessionStep(s))
         \/ \E q \in Resets : ResetRejects(q)
    BY DEF Next, vars, ForgotRead, ForgotWrite, ResetStep, ResetRead, ResetReadTokenless,
           ResetWrite, ResetElsewhere, ChangeRead, ChangeWrite, CloseRead, CloseWrite, Restart
  <1>. QED
    BY <1>1, <1>2, <1>3, <1>4, <1>5, <1>6, <1>7, <1>8, <1>9, <1>10 DEF SessionStep

\* A session that was logged out or replaced is not accepted again, however
\* logins, refreshes and logouts overlap (users.service.ts, token records).
THEOREM EndedSessionsStayEnded == Spec => []EndedStaysEnded
  <1>1. SessionInv => EndedStaysEnded
    BY DEF SessionInv, EndedStaysEnded, Accepted
  <1>. QED BY <1>1, SessionInvInit, SessionInvNext, PTL DEF Spec

-------------------------------------------------------------------------------
(* Passwords *)

LEMMA PasswordInvInit == Init => PasswordInv
  <1>. SUFFICES ASSUME Init PROVE PasswordInv
    OBVIOUS
  <1>1. /\ up = TRUE /\ active = TRUE /\ closing = FALSE /\ contested = FALSE /\ mixed = FALSE
        /\ password = None /\ resetToken = None /\ latest = None
    BY DEF Init
  <1>2. /\ forgot = [f \in Forgots |-> "idle"] /\ reset = [q \in Resets |-> "idle"]
        /\ change = [c \in Changes |-> "idle"] /\ spent = [f \in Forgots |-> 0]
    BY DEF Init
  <1>3. "idle" \notin Forgots /\ None \notin Forgots
    BY AccountAssumption
  <1>4. PasswordTypeOK
    BY <1>1, <1>2 DEF PasswordTypeOK
  <1>5. Pending = {} /\ \A q \in Resets : reset[q] \notin Forgots
    BY <1>2, <1>3, AccountAssumption DEF Pending
  <1>. QED BY <1>1, <1>2, <1>3, <1>4, <1>5 DEF PasswordInv, TokenInv, ContestInv, LatestInv

LEMMA ForgotKeeps ==
  ASSUME PasswordInv, NEW f \in Forgots, ForgotRead(f) \/ ForgotWrite(f)
  PROVE  PasswordInv'
  <1>. USE AccountAssumption DEF PasswordInv, PasswordTypeOK
  <1>1. PasswordTypeOK'
    <2>1. /\ UNCHANGED <<up, password, reset, change, spent, latest, mixed, statusVars>>
          /\ forgot' \in [Forgots -> {"idle", "write", "sent", "cut"}]
          /\ resetToken' \in Forgots \cup {None}
      BY DEF ForgotRead, ForgotWrite
    <2>2. contested' \in BOOLEAN
      BY DEF ForgotRead, ForgotWrite
    <2>. QED BY <2>1, <2>2 DEF statusVars
  <1>2. TokenInv'
    BY DEF ForgotRead, ForgotWrite, TokenInv
  <1>3. ContestInv'
    BY DEF ForgotRead, ForgotWrite, ContestInv, Pending
  <1>4. LatestInv'
    BY DEF ForgotRead, ForgotWrite, LatestInv, Pending
  <1>. QED BY <1>1, <1>2, <1>3, <1>4

LEMMA ResetReadKeeps ==
  ASSUME PasswordInv, NEW q \in Resets, NEW f \in Forgots, ResetRead(q, f)
  PROVE  PasswordInv'
  <1>. USE AccountAssumption DEF PasswordInv, PasswordTypeOK, ResetRead, KnowsToken
  <1>1. PasswordTypeOK'
    <2>1. /\ UNCHANGED <<up, password, resetToken, forgot, change, spent, statusVars>>
          /\ reset' \in [Resets -> Forgots \cup {None, "idle", "done"}] /\ latest' = q
      OBVIOUS
    <2>2. contested' \in BOOLEAN
      OBVIOUS
    <2>3. mixed' \in BOOLEAN
      OBVIOUS
    <2>. QED BY <2>1, <2>2, <2>3 DEF statusVars
  <1>2. TokenInv'
    BY DEF TokenInv
  <1>3. reset'[q] = f /\ \A r \in Resets : r # q => reset'[r] = reset[r]
    OBVIOUS
  <1>4. ContestInv'
    BY <1>3 DEF ContestInv
  <1>5. LatestInv'
    BY <1>3 DEF LatestInv, Pending, Changing
  <1>. QED BY <1>1, <1>2, <1>4, <1>5

LEMMA ResetReadTokenlessKeeps ==
  ASSUME PasswordInv, NEW q \in Resets, ResetReadTokenless(q)
  PROVE  PasswordInv'
  <1>. USE AccountAssumption DEF PasswordInv, PasswordTypeOK, ResetReadTokenless
  <1>1. PasswordTypeOK'
    <2>1. /\ UNCHANGED <<up, password, resetToken, forgot, change, spent, contested, latest,
                       statusVars>>
          /\ reset' \in [Resets -> Forgots \cup {None, "idle", "done"}]
      OBVIOUS
    <2>2. mixed' \in BOOLEAN
      OBVIOUS
    <2>. QED BY <2>1, <2>2 DEF statusVars
  <1>2. TokenInv'
    BY DEF TokenInv
  <1>3. reset'[q] = None /\ \A r \in Resets : r # q => reset'[r] = reset[r]
    OBVIOUS
  <1>4. ContestInv'
    BY <1>3 DEF ContestInv
  <1>5. LatestInv'
    BY <1>3 DEF LatestInv, Pending, Changing
  <1>. QED BY <1>1, <1>2, <1>4, <1>5

LEMMA ResetElsewhereKeeps ==
  ASSUME PasswordInv, NEW q \in Resets, ResetElsewhere(q)
  PROVE  PasswordInv'
  <1>. USE AccountAssumption DEF PasswordInv, PasswordTypeOK, ResetElsewhere
  <1>1. PasswordTypeOK'
    BY DEF statusVars
  <1>2. reset'[q] = "done" /\ \A r \in Resets : r # q => reset'[r] = reset[r]
    OBVIOUS
  <1>3. TokenInv'
    BY DEF TokenInv
  <1>4. ContestInv'
    BY <1>2 DEF ContestInv
  <1>5. LatestInv'
    BY <1>2 DEF LatestInv, Pending
  <1>. QED BY <1>1, <1>3, <1>4, <1>5

LEMMA ResetWriteKeepsInv ==
  ASSUME PasswordInv, NEW q \in Resets, ResetWrite(q)
  PROVE  PasswordInv'
  <1>. USE AccountAssumption DEF PasswordInv, PasswordTypeOK, ResetWrite, Pending
  <1>1. PasswordTypeOK'
    <2>1. /\ UNCHANGED <<up, forgot, change, contested, mixed, statusVars>>
          /\ resetToken' = None /\ password' = q /\ latest' \in {q, latest}
          /\ reset' \in [Resets -> Forgots \cup {None, "idle", "done"}]
      OBVIOUS
    <2>2. spent' \in [Forgots -> Nat]
      OBVIOUS
    <2>. QED BY <2>1, <2>2 DEF statusVars
  <1>2. TokenInv'
    BY DEF TokenInv
  <1>3. reset'[q] = "done" /\ \A r \in Resets : r # q => reset'[r] = reset[r]
    OBVIOUS
  <1>4. ContestInv'
    BY <1>3 DEF ContestInv
  <1>5. LatestInv'
    BY <1>3 DEF LatestInv
  <1>. QED BY <1>1, <1>2, <1>4, <1>5

LEMMA ResetRejectsKeeps ==
  ASSUME PasswordInv, NEW q \in Resets, ResetRejects(q)
  PROVE  PasswordInv'
  <1>. USE AccountAssumption DEF PasswordInv, PasswordTypeOK, ResetRejects, Pending
  <1>1. PasswordTypeOK'
    <2>1. /\ UNCHANGED <<password, resetToken, spent, latest, active>>
          /\ up' = FALSE /\ closing' = FALSE /\ mixed' = TRUE
          /\ reset' \in [Resets -> Forgots \cup {None, "idle", "done"}]
      OBVIOUS
    <2>2. /\ forgot' \in [Forgots -> {"idle", "write", "sent", "cut"}]
          /\ change' \in [Changes -> {"idle", "write", "done"}]
      OBVIOUS
    <2>3. contested' \in BOOLEAN
      OBVIOUS
    <2>. QED BY <2>1, <2>2, <2>3
  <1>2. TokenInv'
    BY DEF TokenInv
  <1>3. \A r \in Resets : reset'[r] \notin Forgots
    OBVIOUS
  <1>4. ContestInv'
    BY <1>3 DEF ContestInv
  <1>5. LatestInv'
    BY DEF LatestInv
  <1>. QED BY <1>1, <1>2, <1>4, <1>5

LEMMA ChangeKeeps ==
  ASSUME PasswordInv, NEW c \in Changes, ChangeRead(c) \/ ChangeWrite(c)
  PROVE  PasswordInv'
  <1>. USE AccountAssumption DEF PasswordInv, PasswordTypeOK
  <1>1. PasswordTypeOK'
    <2>1. /\ UNCHANGED <<up, resetToken, forgot, reset, spent, contested, statusVars>>
          /\ password' \in Resets \cup Changes \cup {None}
          /\ latest' \in Resets \cup Changes \cup {None}
          /\ change' \in [Changes -> {"idle", "write", "done"}]
      BY DEF ChangeRead, ChangeWrite
    <2>2. mixed' \in BOOLEAN
      BY DEF ChangeRead, ChangeWrite
    <2>. QED BY <2>1, <2>2 DEF statusVars
  <1>2. TokenInv'
    BY DEF ChangeRead, ChangeWrite, TokenInv
  <1>3. ContestInv'
    BY DEF ChangeRead, ChangeWrite, ContestInv
  <1>4. LatestInv'
    BY DEF ChangeRead, ChangeWrite, LatestInv, Pending, Changing
  <1>. QED BY <1>1, <1>2, <1>3, <1>4

LEMMA PasswordInvNext ==
  ASSUME PasswordInv, [Next]_vars
  PROVE  PasswordInv'
  <1>1. CASE UNCHANGED passwordVars /\ (up' = up \/ up' = TRUE) /\ UNCHANGED statusVars
    BY <1>1 DEF passwordVars, statusVars, PasswordInv, PasswordTypeOK, TokenInv, ContestInv,
                LatestInv, Pending
  <1>2. CASE CloseRead \/ CloseWrite
    BY <1>2 DEF CloseRead, CloseWrite, passwordVars, PasswordInv, PasswordTypeOK, TokenInv,
                ContestInv, LatestInv, Pending
  <1>3. ASSUME NEW q \in Resets, ResetStep(q) PROVE PasswordInv'
    BY <1>3, ResetReadKeeps, ResetReadTokenlessKeeps, ResetWriteKeepsInv, ResetElsewhereKeeps,
       ResetRejectsKeeps DEF ResetStep
  <1>4. CASE \E s \in Sessions : SessionStep(s)
    BY <1>1, <1>4 DEF SessionStep, Login, Refresh, StoreTokens, StoreRejects, CreateRecord,
                      FailIssue, LogoutGuard, LogoutWrite
  <1>5. CASE Restart
    BY <1>1, <1>5 DEF Restart
  <1>6. CASE UNCHANGED vars
    BY <1>1, <1>6 DEF vars
  <1>. QED BY <1>2, <1>3, <1>4, <1>5, <1>6, ForgotKeeps, ChangeKeeps DEF Next

\* Every variable keeps its type.
THEOREM AccountTypeCorrect == Spec => []TypeOK
  <1>1. SessionInv /\ PasswordInv => TypeOK
    BY DEF SessionInv, SessionTypeOK, PasswordInv, PasswordTypeOK, TypeOK
  <1>. QED BY <1>1, SessionInvInit, SessionInvNext, PasswordInvInit, PasswordInvNext, PTL DEF Spec

\* A reset token sets one password, whoever uses it again and whenever
\* (users.service.ts, resetPassword).
THEOREM TokensAreSpentOnce == Spec => []ResetOnce
  <1>1. PasswordInv => ResetOnce
    BY DEF PasswordInv, TokenInv, ResetOnce
  <1>. QED BY <1>1, PasswordInvInit, PasswordInvNext, PTL DEF Spec

\* A reset whose token nobody else used or replaced, and whose write the
\* database accepts, does not end the process.
THEOREM OnlyContestsStop == Spec => []StopsOnlyIfContested
  <1>1. PasswordInv => StopsOnlyIfContested
    BY DEF PasswordInv, ContestInv, StopsOnlyIfContested
  <1>. QED BY <1>1, PasswordInvInit, PasswordInvNext, PTL DEF Spec

\* Unless two writes overlapped, the password is the one answered last.
THEOREM LatestCounts == Spec => []LatestPasswordCounts
  <1>1. PasswordInv => LatestPasswordCounts
    BY DEF PasswordInv, LatestInv, LatestPasswordCounts, Pending, Changing
  <1>. QED BY <1>1, PasswordInvInit, PasswordInvNext, PTL DEF Spec

===============================================================================
