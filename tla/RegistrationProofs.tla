-------------------------- MODULE RegistrationProofs --------------------------
(***************************************************************************)
(* What holds of registration, OAuth logins and verification for any users *)
(* and e-mails and any interleaving and failure.                           *)
(*                                                                         *)
(* StepInv relates the await an arrival is at to the documents it has      *)
(* created; EmailInv, CompleteInv, CodeInv and MailInv are preserved on    *)
(* top of it.                                                              *)
(***************************************************************************)
EXTENDS Registration, TLAPS

Before == {"none", "name", "create"}
After == {"token", "code", "wallet", "chat", "attach", "done"}

StepInv ==
  /\ TypeOK
  /\ \A r \in Arrivals : step[r] \in Before => r \notin users
  /\ \A r \in Arrivals : step[r] \in After => r \in users
  /\ \A r \in Arrivals : step[r] \in {"token", "code"} => r \in Signups
  /\ \A r \in Arrivals : step[r] \in {"chat", "attach"} => r \in wallets

\* Between its check and its write an arrival sees no user with its e-mail,
\* and no other arrival, or the e-mail is a raced one.
EmailInv ==
  /\ \A u \in users : first[EmailOf[u]] # None
  /\ \A r \in Arrivals, u \in users :
        step[r] \in {"name", "create"} /\ EmailOf[u] = EmailOf[r] => EmailOf[r] \in raced
  /\ \A r, q \in Arrivals :
        /\ r # q /\ EmailOf[r] = EmailOf[q]
        /\ step[r] \in {"name", "create"} /\ step[q] \in {"name", "create"}
        => EmailOf[r] \in raced
  /\ OneUserPerEmail

CompleteInv ==
  \A r \in Arrivals :
    /\ step[r] = "done" => r \in walleted \cap chatted
    /\ r \in Signups /\ step[r] \in {"code", "wallet", "chat", "attach", "done"} => r \in tokened
    /\ r \in Signups /\ step[r] \in {"wallet", "chat", "attach", "done"} => code[EmailOf[r]] # None
    /\ r \in Signups /\ step[r] = "done" => r \in mailed

CodeInv ==
  /\ \A e \in Emails : code[e] # None => EmailOf[code[e]] = e
  /\ \A e \in checking : \E c \in mailed : EmailOf[c] = e
  /\ \A u \in (verified \cap Signups) \ declared : \E c \in mailed : EmailOf[c] = EmailOf[u]

\* A mailed code is a resent one or that of a user.
MailInv == mailed \cap Signups \subseteq users

-------------------------------------------------------------------------------
LEMMA InitHolds == Init => StepInv /\ EmailInv /\ CompleteInv /\ CodeInv /\ MailInv
  BY RegistrationAssumption
  DEF Init, StepInv, TypeOK, EmailInv, CompleteInv, CodeInv, MailInv, OneUserPerEmail,
      Before, After, Codes

-------------------------------------------------------------------------------
(* The awaits of an arrival and its documents *)

LEMMA StepStays ==
  ASSUME StepInv, [Next]_vars
  PROVE  StepInv'
  <1>. USE RegistrationAssumption DEF StepInv, TypeOK, Before, After, Arrivals, Codes, codeVars
  <1>1. CASE \E r \in Signups : BeginSignup(r)
    BY <1>1 DEF BeginSignup, Goto, Race
  <1>2. CASE \E r \in Signups : CheckName(r)
    BY <1>2 DEF CheckName, Goto
  <1>3. CASE \E r \in OAuths : BeginOAuth(r)
    BY <1>3 DEF BeginOAuth, Goto, Race
  <1>4. CASE \E r \in Arrivals : CreateUser(r)
    BY <1>4 DEF CreateUser, Goto
  <1>5. CASE \E r \in Arrivals : CreateToken(r)
    BY <1>5 DEF CreateToken, Goto
  <1>6. CASE \E r \in Arrivals : CreateCode(r)
    BY <1>6 DEF CreateCode, Goto
  <1>7. CASE \E r \in Arrivals : MakeWallet(r)
    BY <1>7 DEF MakeWallet, Goto
  <1>8. CASE \E r \in Arrivals : MakeChat(r)
    BY <1>8 DEF MakeChat, Goto
  <1>9. CASE \E r \in Arrivals : Attach(r)
    BY <1>9 DEF Attach, Goto
  <1>10. CASE \E r \in Arrivals : Fail(r)
    BY <1>10 DEF Fail
  <1>11. CASE \E r \in Arrivals : RepairChat(r) \/ Disable(r)
    BY <1>11 DEF RepairChat, Disable, userVars
  <1>12. CASE \E e \in Emails : VerifyRead(e) \/ VerifyWrite(e)
    BY <1>12 DEF VerifyRead, VerifyWrite, userVars, ActiveOf, UsersOf
  <1>15. CASE \E u \in Arrivals, value \in BOOLEAN : UpdateUser(u, value)
    BY <1>15 DEF UpdateUser, userVars
  <1>13. CASE \E x \in Resends : ResendEmail(x)
    BY <1>13 DEF ResendEmail, userVars
  <1>14. CASE UNCHANGED vars
    BY <1>14 DEF vars, userVars
  <1>. QED
    BY <1>1, <1>2, <1>3, <1>4, <1>5, <1>6, <1>7, <1>8, <1>9, <1>10, <1>11, <1>12, <1>13, <1>14,
       <1>15
    DEF Next, ArrivalStep

-------------------------------------------------------------------------------
(* One user for an e-mail *)

\* A step after which no arrival is between its check and its write that was
\* not before, and no user is new.
LEMMA EmailQuiet ==
  ASSUME StepInv, EmailInv, UNCHANGED <<users, first, raced>>,
         \A r \in Arrivals : step'[r] \in {"name", "create"} => step[r] \in {"name", "create"}
  PROVE  EmailInv'
  BY DEF EmailInv, OneUserPerEmail

\* The check of an arrival: what it did not see is remembered as a race.
LEMMA EmailBegins ==
  ASSUME StepInv, EmailInv, NEW r \in Arrivals, UNCHANGED <<users, first>>,
         step[r] = "none", step' \in [Arrivals -> {"none", "name", "create", "token", "code",
                                                  "wallet", "chat", "attach", "done", "failed"}],
         \A q \in Arrivals \ {r} : step'[q] = step[q],
         raced \subseteq raced',
         (Overlapping(r) \/ \E u \in users : EmailOf[u] = EmailOf[r]) => EmailOf[r] \in raced'
  PROVE  EmailInv'
  <1>1. \A q \in Arrivals, u \in users :
          step'[q] \in {"name", "create"} /\ EmailOf[u] = EmailOf[q] => EmailOf[q] \in raced'
    BY DEF EmailInv
  <1>2. \A q \in Arrivals : q # r /\ EmailOf[q] = EmailOf[r] /\ step'[q] \in {"name", "create"}
                              => EmailOf[r] \in raced'
    BY DEF Overlapping
  <1>3. \A p, q \in Arrivals :
          /\ p # q /\ EmailOf[p] = EmailOf[q]
          /\ step'[p] \in {"name", "create"} /\ step'[q] \in {"name", "create"}
          => EmailOf[p] \in raced'
    BY <1>2 DEF EmailInv
  <1>4. OneUserPerEmail'
    BY DEF EmailInv, OneUserPerEmail
  <1>. QED BY <1>1, <1>3, <1>4 DEF EmailInv

LEMMA EmailStays ==
  ASSUME StepInv, EmailInv, [Next]_vars
  PROVE  EmailInv'
  <1>. USE RegistrationAssumption
  <1>1. CASE \E r \in Signups : BeginSignup(r)
    <2>1. PICK r \in Signups : BeginSignup(r)
      BY <1>1
    <2>2. step[r] = "none" /\ step' = [step EXCEPT ![r] = step'[r]] /\ UNCHANGED <<users, first>>
      BY <2>1 DEF BeginSignup, Goto, StepInv, TypeOK, Arrivals
    <2>3. step'[r] \in {"name", "create"}
      BY <2>1 DEF BeginSignup, Goto, StepInv, TypeOK, Arrivals
    <2>4. raced \subseteq raced' /\ (Overlapping(r) => EmailOf[r] \in raced')
          /\ (EmailFree(r) \/ EmailOf[r] \in raced')
      BY <2>1 DEF BeginSignup, Race
    <2>5. (\E u \in users : EmailOf[u] = EmailOf[r]) => EmailOf[r] \in raced'
      BY <2>4 DEF EmailFree, UsersOf
    <2>6. r \in Arrivals /\ \A q \in Arrivals \ {r} : step'[q] = step[q]
      BY <2>2 DEF StepInv, TypeOK, Arrivals
    <2>7. step' \in [Arrivals -> {"none", "name", "create", "token", "code",
                                 "wallet", "chat", "attach", "done", "failed"}]
      BY <2>2, <2>3 DEF StepInv, TypeOK
    <2>. QED BY <2>2, <2>4, <2>5, <2>6, <2>7, EmailBegins
  <1>2. CASE \E r \in OAuths : BeginOAuth(r)
    <2>1. PICK r \in OAuths : BeginOAuth(r)
      BY <1>2
    <2>2. step[r] = "none" /\ step' = [step EXCEPT ![r] = "create"] /\ UNCHANGED <<users, first>>
      BY <2>1 DEF BeginOAuth, Goto
    <2>3. raced \subseteq raced' /\ (Overlapping(r) => EmailOf[r] \in raced')
          /\ (first[EmailOf[r]] = None \/ EmailOf[r] \in raced')
      BY <2>1 DEF BeginOAuth, Race
    <2>4. (\E u \in users : EmailOf[u] = EmailOf[r]) => EmailOf[r] \in raced'
      BY <2>3 DEF EmailInv
    <2>. QED BY <2>2, <2>3, <2>4, EmailBegins DEF StepInv, TypeOK, Arrivals
  <1>3. CASE \E r \in Arrivals : CreateUser(r)
    <2>1. PICK r \in Arrivals : CreateUser(r)
      BY <1>3
    <2>2. /\ step[r] = "create" /\ r \notin users /\ raced' = raced
          /\ step'[r] \notin {"name", "create"}
          /\ \A q \in Arrivals \ {r} : step'[q] = step[q]
      BY <2>1 DEF CreateUser, Goto, StepInv, TypeOK, Before
    <2>3. CASE UNCHANGED <<users, first>>
      BY <2>2, <2>3, EmailQuiet
    <2>4. CASE /\ users' = users \cup {r}
               /\ first' = [first EXCEPT ![EmailOf[r]] = IF @ = None THEN r ELSE @]
      <3>1. \A u \in users' : first'[EmailOf[u]] # None
        BY <2>4 DEF EmailInv, StepInv, TypeOK, Arrivals
      <3>2. \A q \in Arrivals, u \in users' :
              step'[q] \in {"name", "create"} /\ EmailOf[u] = EmailOf[q] => EmailOf[q] \in raced'
        BY <2>2, <2>4 DEF EmailInv
      <3>3. \A p, q \in Arrivals :
              /\ p # q /\ EmailOf[p] = EmailOf[q]
              /\ step'[p] \in {"name", "create"} /\ step'[q] \in {"name", "create"}
              => EmailOf[p] \in raced'
        BY <2>2 DEF EmailInv
      <3>4. OneUserPerEmail'
        BY <2>2, <2>4 DEF EmailInv, OneUserPerEmail
      <3>. QED BY <3>1, <3>2, <3>3, <3>4 DEF EmailInv
    <2>. QED BY <2>1, <2>3, <2>4 DEF CreateUser
  <1>4. CASE \/ \E r \in Signups : CheckName(r)
             \/ \E r \in Arrivals : \/ CreateToken(r) \/ CreateCode(r) \/ MakeWallet(r)
                                    \/ MakeChat(r) \/ Attach(r) \/ Fail(r)
    BY <1>4, EmailQuiet
    DEF CheckName, CreateToken, CreateCode, MakeWallet, MakeChat, Attach, Fail, Goto,
        StepInv, TypeOK, Arrivals
  <1>5. CASE \/ \E r \in Arrivals : RepairChat(r) \/ Disable(r)
             \/ \E e \in Emails : VerifyRead(e) \/ VerifyWrite(e)
             \/ \E u \in Arrivals, value \in BOOLEAN : UpdateUser(u, value)
             \/ \E x \in Resends : ResendEmail(x)
             \/ UNCHANGED vars
    <2>1. UNCHANGED <<step, users, first, raced>>
      BY <1>5 DEF UpdateUser, RepairChat, Disable, VerifyRead, VerifyWrite, ResendEmail, userVars, vars
    <2>. QED BY <2>1, EmailQuiet
  <1>. QED
    BY <1>1, <1>2, <1>3, <1>4, <1>5 DEF Next, ArrivalStep

-------------------------------------------------------------------------------
(* What an answered arrival has *)

LEMMA CompleteStays ==
  ASSUME StepInv, CompleteInv, [Next]_vars
  PROVE  CompleteInv'
  <1>. USE RegistrationAssumption DEF StepInv, TypeOK, CompleteInv, Arrivals, Codes, codeVars
  <1>1. CASE \/ \E r \in Signups : BeginSignup(r) \/ CheckName(r)
             \/ \E r \in OAuths : BeginOAuth(r)
    <2>1. PICK r \in Arrivals : BeginSignup(r) \/ CheckName(r) \/ BeginOAuth(r)
      BY <1>1
    <2>2. UNCHANGED <<tokened, walleted, chatted, code, mailed>>
      BY <2>1 DEF BeginSignup, CheckName, BeginOAuth
    <2>3. \E to \in {"name", "create"} : step' = [step EXCEPT ![r] = to]
      BY <2>1 DEF BeginSignup, CheckName, BeginOAuth, Goto
    <2>. QED BY <2>2, <2>3
  <1>2. CASE \E r \in Arrivals : CreateUser(r)
    <2>1. PICK r \in Arrivals : CreateUser(r)
      BY <1>2
    <2>2. /\ step[r] = "create" /\ UNCHANGED <<tokened, walleted, chatted, code, mailed>>
          /\ \A q \in Arrivals \ {r} : step'[q] = step[q]
          /\ step'[r] \in {"failed", "token", "wallet"}
          /\ r \in Signups => step'[r] \in {"failed", "token"}
      BY <2>1 DEF CreateUser, Goto
    <2>. QED BY <2>2
  <1>3. CASE \E r \in Arrivals : CreateToken(r)
    BY <1>3 DEF CreateToken, Goto
  <1>4. CASE \E r \in Arrivals : CreateCode(r)
    BY <1>4 DEF CreateCode, Goto
  <1>5. CASE \E r \in Arrivals : MakeWallet(r)
    BY <1>5 DEF MakeWallet, Goto
  <1>6. CASE \E r \in Arrivals : MakeChat(r)
    BY <1>6 DEF MakeChat, Goto
  <1>7. CASE \E r \in Arrivals : Attach(r)
    BY <1>7 DEF Attach, Goto
  <1>8. CASE \E r \in Arrivals : Fail(r)
    BY <1>8 DEF Fail
  <1>9. CASE \/ \E r \in Arrivals : RepairChat(r) \/ Disable(r)
             \/ \E e \in Emails : VerifyRead(e) \/ VerifyWrite(e)
             \/ \E u \in Arrivals, value \in BOOLEAN : UpdateUser(u, value)
             \/ UNCHANGED vars
    BY <1>9 DEF UpdateUser, RepairChat, Disable, VerifyRead, VerifyWrite, userVars, vars
  <1>10. CASE \E x \in Resends : ResendEmail(x)
    BY <1>10 DEF ResendEmail, userVars
  <1>. QED
    BY <1>1, <1>2, <1>3, <1>4, <1>5, <1>6, <1>7, <1>8, <1>9, <1>10 DEF Next, ArrivalStep

-------------------------------------------------------------------------------
(* Codes *)

LEMMA CodeStays ==
  ASSUME StepInv, CodeInv, [Next]_vars
  PROVE  CodeInv'
  <1>. USE RegistrationAssumption DEF StepInv, TypeOK, CodeInv, Arrivals, Codes
  <1>1. CASE UNCHANGED codeVars
    BY <1>1 DEF codeVars
  <1>2. CASE \E r \in Arrivals : CreateUser(r)
    BY <1>2 DEF CreateUser
  <1>3. CASE \E r \in Arrivals : CreateCode(r)
    BY <1>3 DEF CreateCode, Goto
  <1>4. CASE \E r \in Arrivals : Attach(r)
    BY <1>4 DEF Attach
  <1>5. CASE \E e \in Emails : VerifyRead(e)
    BY <1>5 DEF VerifyRead, CodeMatches
  <1>6. CASE \E e \in Emails : VerifyWrite(e)
    BY <1>6 DEF VerifyWrite, ActiveOf, UsersOf
  <1>7. CASE \E x \in Resends : ResendEmail(x)
    BY <1>7 DEF ResendEmail
  <1>9. CASE \E u \in Arrivals, value \in BOOLEAN : UpdateUser(u, value)
    BY <1>9 DEF UpdateUser
  <1>8. CASE \/ \E r \in Signups : BeginSignup(r) \/ CheckName(r)
             \/ \E r \in OAuths : BeginOAuth(r)
             \/ \E r \in Arrivals : \/ CreateToken(r) \/ MakeWallet(r) \/ MakeChat(r)
                                    \/ Fail(r) \/ RepairChat(r) \/ Disable(r)
             \/ UNCHANGED vars
    <2>1. UNCHANGED codeVars
      BY <1>8 DEF BeginSignup, CheckName, BeginOAuth, CreateToken, MakeWallet, MakeChat,
                  Fail, RepairChat, Disable, vars
    <2>. QED BY <1>1, <2>1
  <1>. QED
    BY <1>2, <1>3, <1>4, <1>5, <1>6, <1>7, <1>8, <1>9 DEF Next, ArrivalStep

LEMMA MailStays ==
  ASSUME StepInv, MailInv, [Next]_vars
  PROVE  MailInv'
  <1>. USE RegistrationAssumption DEF MailInv, Arrivals
  <1>1. CASE mailed' = mailed /\ users \subseteq users'
    BY <1>1
  <1>2. CASE \E r \in Arrivals : Attach(r)
    <2>1. PICK r \in Arrivals : Attach(r)
      BY <1>2
    <2>2. r \in users
      BY <2>1 DEF StepInv, After, Attach, Goto
    <2>. QED BY <2>1, <2>2 DEF Attach
  <1>3. CASE \E x \in Resends : ResendEmail(x)
    BY <1>3 DEF ResendEmail, userVars
  <1>4. CASE \E r \in Arrivals : CreateUser(r)
    BY <1>1, <1>4 DEF CreateUser
  <1>5. CASE ~ \/ \E r \in Arrivals : Attach(r) \/ CreateUser(r)
               \/ \E x \in Resends : ResendEmail(x)
    <2>1. UNCHANGED <<mailed, users>>
      BY <1>5 DEF Next, ArrivalStep, BeginSignup, CheckName, BeginOAuth, CreateToken, CreateCode,
                  MakeWallet, MakeChat, Fail, RepairChat, Disable, UpdateUser, VerifyRead, VerifyWrite,
                  vars, userVars, codeVars
    <2>. QED BY <1>1, <2>1
  <1>. QED BY <1>2, <1>3, <1>4, <1>5

-------------------------------------------------------------------------------
(* The documents an arrival has are those of the await it is at: no        *)
(* wallet, chat, token record or code of the auth service belongs to a     *)
(* user that was not created.                                              *)
THEOREM RegistrationTypeCorrect == Spec => []TypeOK
  <1>1. StepInv => TypeOK
    BY DEF StepInv
  <1>2. StepInv /\ [Next]_vars => StepInv'
    BY StepStays
  <1>. QED BY InitHolds, <1>1, <1>2, PTL DEF Spec

(* However registrations and OAuth logins interleave and fail, an e-mail   *)
(* has two users only when two arrivals checked it at once, a search       *)
(* failed, or a provider's login found its user deactivated.               *)
THEOREM EmailsAreUnique == Spec => []OneUserPerEmail
  <1>1. StepInv /\ EmailInv /\ [Next]_vars => StepInv' /\ EmailInv'
    BY StepStays, EmailStays
  <1>2. EmailInv => OneUserPerEmail
    BY DEF EmailInv
  <1>. QED BY InitHolds, <1>1, <1>2, PTL DEF Spec

(* An arrival that was answered with success has its wallet and chat, its  *)
(* token record and a mailed code, whichever step of another one failed.   *)
THEOREM AnswersAreComplete == Spec => []AnsweredIsComplete
  <1>1. StepInv /\ CompleteInv /\ [Next]_vars => StepInv' /\ CompleteInv'
    BY StepStays, CompleteStays
  <1>2. CompleteInv => AnsweredIsComplete
    BY DEF CompleteInv, AnsweredIsComplete
  <1>. QED BY InitHolds, <1>1, <1>2, PTL DEF Spec

(* A registered user who did not write email_verified himself is verified  *)
(* with a code mailed to its e-mail, one of its own unless the e-mail was  *)
(* raced, although codes and users are only matched by e-mail: a mailed    *)
(* code is a resent one or that of a user.                                 *)
THEOREM VerificationIsMailed == Spec => []VerifiedByMail
  <1>1. StepInv /\ EmailInv /\ CodeInv /\ MailInv /\ [Next]_vars
        => StepInv' /\ EmailInv' /\ CodeInv' /\ MailInv'
    BY StepStays, EmailStays, CodeStays, MailStays
  <1>2. ASSUME StepInv, EmailInv, CodeInv, MailInv PROVE VerifiedByMail
    <2>1. SUFFICES ASSUME NEW u \in (verified \cap Signups) \ declared
                   PROVE  \E c \in mailed : /\ EmailOf[c] = EmailOf[u]
                                            /\ EmailOf[u] \notin raced => c \in Resends \cup {u}
      BY DEF VerifiedByMail
    <2>2. PICK c \in mailed : EmailOf[c] = EmailOf[u]
      BY <1>2 DEF CodeInv
    <2>3. u \in users /\ c \in Signups \cup Resends
      BY <1>2 DEF StepInv, TypeOK, Codes
    <2>4. c \in Signups => c \in users
      BY <1>2 DEF MailInv
    <2>5. c \in Signups /\ c # u => EmailOf[u] \in raced
      BY <1>2, <2>2, <2>3, <2>4 DEF EmailInv, OneUserPerEmail
    <2>. QED BY <2>2, <2>3, <2>5
  <1>. QED BY InitHolds, <1>1, <1>2, PTL DEF Spec

===============================================================================
