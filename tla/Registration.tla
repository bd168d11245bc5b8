----------------------------- MODULE Registration -----------------------------
(***************************************************************************)
(* How a user comes to be: registration and OAuth logins, and verification *)
(* of the e-mail.                                                          *)
(*                                                                         *)
(* Registration is a sequence of writes to the auth service's own          *)
(* documents and calls of the wallet and chat services, with no            *)
(* compensation.  Any error of the search for a user with the same e-mail  *)
(* is taken for "there is none"; only user names have a unique index.      *)
(*                                                                         *)
(* The bodies of registration and of updateUser are stored as they come,   *)
(* with fields no form has: email_verified may be one of them, and needs   *)
(* no code then.  Other such fields (user names, ids of wallets and chats) *)
(* are taken to be left alone.                                             *)
(***************************************************************************)
EXTENDS Integers, FiniteSets

CONSTANTS
    Signups,    \* registrations; each also names the user and code it creates
    OAuths,     \* logins through a provider; each also names its user
    Resends,    \* resendEmail requests; each also names its code
    Emails,
    EmailOf,    \* the e-mail of each of them, and of each resend
    NameOf,     \* the user name: the requested one or the e-mail's local part
    Asking,     \* registrations that request a user name
    None,       \* nothing yet
    Faults      \* whether "fail" may happen

Arrivals == Signups \cup OAuths

ASSUME RegistrationAssumption ==
    /\ Signups \cap OAuths = {} /\ Signups \cap Resends = {}
    /\ EmailOf \in [Arrivals \cup Resends -> Emails]
    /\ OAuths \cap Resends = {}
    /\ Asking \subseteq Signups
    /\ None \notin Arrivals \cup Resends
    /\ Faults \subseteq {"fail"}

VARIABLES
    step,       \* the await each arrival is at
    users,      \* user documents
    first,      \* the first document with each e-mail
    tokened,    \* users with a token record
    code,       \* the code in the first verification record of each e-mail
    mailed,     \* codes sent by mail
    checking,   \* e-mails whose code was right and that are about to be verified
    verified,   \* users with email_verified
    declared,   \* history: signed up users who wrote it themselves
    wallets,    \* arrivals a wallet was created for
    chats,      \* arrivals a chat document was created for
    walleted,   \* users with a wallet_uuid
    chatted,    \* users with a chat_uuid
    disabled,   \* users with status false
    raced       \* history: e-mails that two arrivals checked at once, or for
                \* which a search failed or found a deactivated user

userVars == <<step, users, first, tokened, wallets, chats, walleted, chatted, raced>>
codeVars == <<code, mailed, checking, verified, declared>>
vars == <<userVars, codeVars, disabled>>

-------------------------------------------------------------------------------
Codes == Signups \cup Resends

TypeOK ==
    /\ step \in [Arrivals -> {"none", "name", "create", "token", "code", "wallet",
                              "chat", "attach", "done", "failed"}]
    /\ users \subseteq Arrivals
    /\ first \in [Emails -> users \cup {None}]
    /\ tokened \subseteq users
    /\ code \in [Emails -> Codes \cup {None}]
    /\ mailed \subseteq Codes
    /\ checking \subseteq Emails
    /\ verified \subseteq users
    /\ declared \subseteq users
    /\ wallets \subseteq users /\ chats \subseteq users
    /\ walleted \subseteq wallets /\ chatted \subseteq users
    /\ disabled \subseteq users
    /\ raced \subseteq Emails

Init ==
    /\ step = [r \in Arrivals |-> "none"]
    /\ first = [e \in Emails |-> None]
    /\ users = {} /\ tokened = {}
    /\ code = [e \in Emails |-> None]
    /\ mailed = {} /\ checking = {} /\ verified = {} /\ declared = {}
    /\ wallets = {} /\ chats = {} /\ walleted = {} /\ chatted = {}
    /\ disabled = {}
    /\ raced = {}

-------------------------------------------------------------------------------
(* Registration and OAuth logins *)

UsersOf(e) == {u \in users : EmailOf[u] = e}
ActiveOf(e) == UsersOf(e) \ disabled
NameTaken(r) == \E u \in users : NameOf[u] = NameOf[r]
Goto(r, from, to) == step[r] = from /\ step' = [step EXCEPT ![r] = to]

\* History: another arrival with the e-mail is between its check and its write.
Overlapping(r) ==
    \E q \in Arrivals \ {r} : EmailOf[q] = EmailOf[r] /\ step[q] \in {"name", "create"}
Race(r, happens) == raced' = IF happens THEN raced \cup {EmailOf[r]} ELSE raced

\* Variant for the mutation runs: the search asks for active users.
EmailFreeActive(r) == ActiveOf(EmailOf[r]) = {}

EmailFree(r) == UsersOf(EmailOf[r]) = {}

BeginSignup(r) ==
    /\ Goto(r, "none", IF r \in Asking THEN "name" ELSE "create")
    /\ \/ EmailFree(r) /\ Race(r, Overlapping(r))
       \/ "fail" \in Faults /\ Race(r, TRUE)
    /\ UNCHANGED <<users, first, tokened, wallets, chats, walleted, chatted, codeVars, disabled>>

\* validateUsername, where a failed search is taken for a free name, too.
CheckName(r) ==
    /\ ~NameTaken(r) \/ "fail" \in Faults
    /\ Goto(r, "name", "create")
    /\ UNCHANGED <<users, first, tokened, wallets, chats, walleted, chatted, raced, codeVars, disabled>>

\* A provider's user who is new, was deactivated, or whose search failed.
BeginOAuth(r) ==
    /\ Goto(r, "none", "create")
    /\ LET u == first[EmailOf[r]]
       IN \/ u = None /\ Race(r, Overlapping(r))
          \/ u \in disabled /\ Race(r, TRUE)
          \/ "fail" \in Faults /\ Race(r, TRUE)
    /\ UNCHANGED <<users, first, tokened, wallets, chats, walleted, chatted, codeVars, disabled>>

\* The index on the user name refuses a second document.  A provider's user is
\* verified, and so is one whose body says so.
CreateUser(r) ==
    /\ Goto(r, "create", IF NameTaken(r) THEN "failed" ELSE IF r \in Signups THEN "token" ELSE "wallet")
    /\ \/ NameTaken(r) /\ UNCHANGED <<users, first, verified, declared>>
       \/ /\ ~NameTaken(r)
          /\ users' = users \cup {r}
          /\ first' = [first EXCEPT ![EmailOf[r]] = IF @ = None THEN r ELSE @]
          /\ \E saysSo \in SUBSET ({r} \cap Signups) :
                /\ verified' = verified \cup saysSo \cup ({r} \cap OAuths)
                /\ declared' = declared \cup saysSo
    /\ UNCHANGED <<tokened, wallets, chats, walleted, chatted, raced, code, mailed, checking, disabled>>

CreateToken(r) ==
    /\ Goto(r, "token", "code")
    /\ tokened' = tokened \cup {r}
    /\ UNCHANGED <<users, first, wallets, chats, walleted, chatted, raced, codeVars, disabled>>

CreateCode(r) ==
    /\ Goto(r, "code", "wallet")
    /\ code' = [code EXCEPT ![EmailOf[r]] = IF @ = None THEN r ELSE @]
    /\ UNCHANGED <<users, first, tokened, wallets, chats, walleted, chatted, raced, mailed, checking,
                   verified, declared, disabled>>

MakeWallet(r) ==
    /\ Goto(r, "wallet", "chat")
    /\ wallets' = wallets \cup {r}
    /\ UNCHANGED <<users, first, tokened, chats, walleted, chatted, raced, codeVars, disabled>>

MakeChat(r) ==
    /\ Goto(r, "chat", "attach")
    /\ chats' = chats \cup {r}
    /\ UNCHANGED <<users, first, tokened, wallets, walleted, chatted, raced, codeVars, disabled>>

\* Variant for the mutation runs: the mail is sent, the update is not made.
AttachNothing(r) ==
    /\ Goto(r, "attach", "done")
    /\ mailed' = IF r \in Signups THEN mailed \cup {r} ELSE mailed
    /\ UNCHANGED <<users, first, tokened, wallets, chats, walleted, chatted, raced, code, checking,
                   verified, declared, disabled>>

Attach(r) ==
    /\ Goto(r, "attach", "done")
    /\ walleted' = walleted \cup {r}
    /\ chatted' = chatted \cup {r}
    /\ mailed' = IF r \in Signups THEN mailed \cup {r} ELSE mailed
    /\ UNCHANGED <<users, first, tokened, wallets, chats, raced, code, checking, verified,
                   declared, disabled>>

\* An await rejects, an answer is lost or the process ends: nothing is undone.
Fail(r) ==
    /\ "fail" \in Faults
    /\ step[r] \notin {"none", "done", "failed"}
    /\ step' = [step EXCEPT ![r] = "failed"]
    /\ UNCHANGED <<users, first, tokened, wallets, chats, walleted, chatted, raced, codeVars, disabled>>

\* createChatService of the chat service, for a user who has none.
RepairChat(u) ==
    /\ u \in users \ (disabled \cup chatted)
    /\ chatted' = chatted \cup {u}
    /\ UNCHANGED <<step, users, first, tokened, wallets, chats, walleted, raced, codeVars, disabled>>

\* deactivateAccount, see Account.
Disable(u) ==
    /\ u \in users \ disabled
    /\ disabled' = disabled \cup {u}
    /\ UNCHANGED <<userVars, codeVars>>

-------------------------------------------------------------------------------
(* Verification of an e-mail *)

\* The code of the first record is replaced, if there is one, and mailed.
ResendEmail(x) ==
  LET e == EmailOf[x] IN
    /\ x \notin mailed
    /\ ActiveOf(e) # {}
    /\ code[e] # None
    /\ code' = [code EXCEPT ![e] = x]
    /\ mailed' = mailed \cup {x}
    /\ UNCHANGED <<userVars, checking, verified, declared, disabled>>

\* Variant for the mutation runs: that there is a code is enough.
CodeExists(e) == code[e] # None

\* The user enters a code that was mailed.
CodeMatches(e) == code[e] \in mailed

VerifyRead(e) ==
    /\ CodeMatches(e)
    /\ checking' = checking \cup {e}
    /\ UNCHANGED <<userVars, code, mailed, verified, declared, disabled>>

VerifyWrite(e) ==
    /\ e \in checking
    /\ checking' = checking \ {e}
    /\ \/ \E u \in ActiveOf(e) :
            /\ u = first[e] \/ first[e] \in disabled
            /\ verified' = verified \cup {u}
       \/ /\ ActiveOf(e) = {} \/ "fail" \in Faults
          /\ UNCHANGED verified
    /\ UNCHANGED <<userVars, code, mailed, declared, disabled>>

\* updateUser: everything but password, e-mail and account type is written as it
\* comes.  (The user was active when the request began.)
UpdateUser(u, value) ==
    /\ u \in users
    /\ verified' = IF value THEN verified \cup {u} ELSE verified \ {u}
    /\ declared' = declared \cup ({u} \cap Signups)
    /\ UNCHANGED <<userVars, code, mailed, checking, disabled>>

-------------------------------------------------------------------------------
ArrivalStep(r) ==
    \/ CreateUser(r) \/ CreateToken(r) \/ CreateCode(r)
    \/ MakeWallet(r) \/ MakeChat(r) \/ Attach(r) \/ Fail(r)
    \/ RepairChat(r) \/ Disable(r)

Next ==
    \/ \E r \in Signups : BeginSignup(r) \/ CheckName(r)
    \/ \E r \in OAuths : BeginOAuth(r)
    \/ \E r \in Arrivals : ArrivalStep(r) \/ \E value \in BOOLEAN : UpdateUser(r, value)
    \/ \E e \in Emails : VerifyRead(e) \/ VerifyWrite(e)
    \/ \E x \in Resends : ResendEmail(x)

Spec == Init /\ [][Next]_vars

-------------------------------------------------------------------------------
(* Properties *)

\* An e-mail has one user, unless two arrivals checked it at once, a search
\* failed, or a provider's login found the user deactivated.
OneUserPerEmail ==
    \A u, w \in users : EmailOf[u] = EmailOf[w] /\ u # w => EmailOf[u] \in raced

\* Whatever fails on the way, an arrival that is answered with success has its
\* wallet and chat and can log in and be verified.
AnsweredIsComplete ==
    \A r \in Arrivals : step[r] = "done" =>
        /\ r \in walleted \cap chatted
        /\ r \in Signups => r \in tokened \cap mailed /\ code[EmailOf[r]] # None

\* Although codes and users are only matched by e-mail, a registered user who did
\* not write email_verified himself, at registration or by an update, is verified
\* with a code that was mailed to its e-mail, and never with the code of another
\* registration, unless the e-mail was raced.
VerifiedByMail ==
    \A u \in (verified \cap Signups) \ declared : \E c \in mailed :
        /\ EmailOf[c] = EmailOf[u]
        /\ EmailOf[u] \notin raced => c \in Resends \cup {u}

===============================================================================
