--------------------------------- MODULE Chat ---------------------------------
(***************************************************************************)
(* The chat service: who is online, rooms, the status of messages, and the *)
(* participants who archived a room.                                       *)
(*                                                                         *)
(* handleConnection and handleDisconnection are called for their promise   *)
(* to be forgotten: the handlers of one socket or of one user run at the   *)
(* same time as everything else, and one that rejects ends the process.    *)
(* The socket events' handlers are suspended at each await; archiving      *)
(* writes back a list read before.  Typing notices, the events emitted to  *)
(* sockets and the queries change no state and are left out.               *)
(***************************************************************************)
EXTENDS Integers, FiniteSets

CONSTANTS
    Users,      \* chat uuids
    Guests,     \* those without a chat document
    Messages,   \* identities of the messages to be sent; a room has the
                \* identity of the message it is made for
    Talks,      \* who may write each message, and to whom
    Sockets,    \* socket slots
    Owner,      \* the user who connects on each slot
    Tidies,     \* archive and unarchive requests each user may make
    None,       \* no message, no user
    Faults      \* whether "fail" may happen

ASSUME ChatAssumption ==
    /\ Guests \subseteq Users
    /\ Talks \in [Messages -> SUBSET (Users \X Users)]
    /\ Owner \in [Sockets -> Users]
    /\ Tidies \in [Users -> SUBSET [kind: {"archive", "unarchive"}, room: Messages]]
    /\ None \notin Messages \cup Users
    /\ Faults \subseteq {"fail"}

VARIABLES
    up,         \* the process runs
    conn,       \* sockets that are connected
    presence,   \* status in each user's chat document
    join,       \* handleConnection of each slot: the await it is at
    leave,      \* handleDisconnection of each slot
    from, to,   \* the two participants of each message
    send,       \* createMessage of each message: the await it is at
    status,     \* status of each message, none before it is stored
    rooms,      \* rooms that exist
    room,       \* the room each message goes to
    last,       \* lastMessage of each room
    archived,   \* isArchivedFor of each room
    tidy,       \* archive request of each user
    muddled,    \* history: a user's connects and disconnects overlapped
    asked,      \* history: who asked last to have a room archived
    crossed     \* history: rooms with archive requests that overlapped

presenceVars == <<conn, presence, join, leave, muddled>>
messageVars == <<from, to, send, status, rooms, room, last>>
archiveVars == <<archived, tidy, asked, crossed>>
vars == <<up, presenceVars, messageVars, archiveVars>>

-------------------------------------------------------------------------------
SendSteps == {"none", "make", "store", "check", "mark", "last", "done", "cut"}
InProgress == SendSteps \ {"none", "done", "cut"}
Statuses == {"none", "SENT", "DELIVERED", "READ"}
Participants(r) == {from[r], to[r]}

Idle == [kind |-> "idle"]
Requests == {Idle} \cup
    [kind: {"archive", "unarchive"}, room: Messages, list: SUBSET Users]

TypeOK ==
    /\ up \in BOOLEAN
    /\ conn \subseteq Sockets
    /\ presence \in [Users -> BOOLEAN]
    /\ join \in [Sockets -> {"idle", "status", "flush", "cut"}]
    /\ leave \in [Sockets -> {"idle", "status"}]
    /\ from \in [Messages -> Users \cup {None}]
    /\ to \in [Messages -> Users \cup {None}]
    /\ send \in [Messages -> SendSteps]
    /\ status \in [Messages -> Statuses]
    /\ rooms \subseteq Messages
    /\ room \in [Messages -> Messages \cup {None}]
    /\ last \in [Messages -> Messages \cup {None}]
    /\ archived \in [Messages -> SUBSET Users]
    /\ tidy \in [Users -> Requests]
    /\ muddled \subseteq Users
    /\ asked \in [Messages -> SUBSET Users]
    /\ crossed \subseteq Messages

Init ==
    /\ up = TRUE
    /\ conn = {}
    /\ presence = [u \in Users |-> FALSE]
    /\ join = [s \in Sockets |-> "idle"]
    /\ leave = [s \in Sockets |-> "idle"]
    /\ from = [m \in Messages |-> None]
    /\ to = [m \in Messages |-> None]
    /\ send = [m \in Messages |-> "none"]
    /\ status = [m \in Messages |-> "none"]
    /\ rooms = {}
    /\ room = [m \in Messages |-> None]
    /\ last = [m \in Messages |-> None]
    /\ archived = [m \in Messages |-> {}]
    /\ tidy = [u \in Users |-> Idle]
    /\ muddled = {}
    /\ asked = [m \in Messages |-> {}]
    /\ crossed = {}

-------------------------------------------------------------------------------
(* handleConnection and handleDisconnection                                *)

SocketsOf(u) == {s \in Sockets : Owner[s] = u}
Settled(u) == \A s \in SocketsOf(u) : join[s] \in {"idle", "cut"} /\ leave[s] = "idle"

\* History: from here on the user's status is right, or may not be.
Muddle(s, clean) ==
    muddled' = IF clean THEN muddled \ {Owner[s]} ELSE muddled \cup {Owner[s]}

Connect(s) ==
    /\ up
    /\ s \notin conn
    /\ join[s] \in {"idle", "cut"}
    /\ conn' = conn \cup {s}
    /\ join' = [join EXCEPT ![s] = "status"]
    /\ Muddle(s, Settled(Owner[s]))
    /\ UNCHANGED <<up, presence, leave, messageVars, archiveVars>>

\* A user without a chat document is not found, which rejects: see Reject.
StatusOn(s) ==
    /\ join[s] = "status"
    /\ Owner[s] \notin Guests
    /\ presence' = [presence EXCEPT ![Owner[s]] = TRUE]
    /\ join' = [join EXCEPT ![s] = "flush"]
    /\ UNCHANGED <<up, conn, leave, muddled, messageVars, archiveVars>>

\* Variant for the mutation runs: the filter on the status is missing.
FlushAll(s) ==
    /\ join[s] = "flush"
    /\ status' = [m \in Messages |->
                    IF to[m] = Owner[s] /\ status[m] # "none" THEN "DELIVERED" ELSE status[m]]
    /\ join' = [join EXCEPT ![s] = "idle"]
    /\ UNCHANGED <<up, conn, presence, leave, muddled, from, to, send, rooms, room, last, archiveVars>>

\* What was sent while the user was away is delivered.
Flush(s) ==
    /\ join[s] = "flush"
    /\ status' = [m \in Messages |->
                    IF to[m] = Owner[s] /\ status[m] = "SENT" THEN "DELIVERED" ELSE status[m]]
    /\ join' = [join EXCEPT ![s] = "idle"]
    /\ UNCHANGED <<up, conn, presence, leave, muddled, from, to, send, rooms, room, last, archiveVars>>

\* The network drops a socket; its connect handler may still be running.
Drop(s) ==
    /\ up
    /\ s \in conn
    /\ leave[s] = "idle"
    /\ conn' = conn \ {s}
    /\ leave' = [leave EXCEPT ![s] = "status"]
    /\ Muddle(s, Settled(Owner[s]) /\ conn \cap SocketsOf(Owner[s]) = {s})
    /\ UNCHANGED <<up, presence, join, messageVars, archiveVars>>

\* Variant for the mutation runs: the status is left on.
StatusOffForgotten(s) ==
    /\ leave[s] = "status"
    /\ leave' = [leave EXCEPT ![s] = "idle"]
    /\ UNCHANGED <<up, conn, presence, join, muddled, messageVars, archiveVars>>

StatusOff(s) ==
    /\ leave[s] = "status"
    /\ presence' = [presence EXCEPT ![Owner[s]] = FALSE]
    /\ leave' = [leave EXCEPT ![s] = "idle"]
    /\ UNCHANGED <<up, conn, join, muddled, messageVars, archiveVars>>

\* A connect or disconnect handler rejects and nobody handles it: the process
\* ends, with every socket and request in it.  The documents stay as they are.
Reject(s) ==
    /\ \/ "fail" \in Faults /\ (join[s] \in {"status", "flush"} \/ leave[s] # "idle")
       \/ join[s] = "status" /\ Owner[s] \in Guests
    /\ up' = FALSE
    /\ conn' = {}
    /\ join' = [t \in Sockets |-> IF join[t] = "idle" THEN "idle" ELSE "cut"]
    /\ leave' = [t \in Sockets |-> "idle"]
    /\ send' = [m \in Messages |-> IF send[m] \in InProgress THEN "cut" ELSE send[m]]
    /\ tidy' = [u \in Users |-> Idle]
    /\ muddled' = Users
    /\ UNCHANGED <<presence, from, to, status, rooms, room, last, archived, asked, crossed>>

Restart ==
    /\ ~up
    /\ up' = TRUE
    /\ UNCHANGED <<presenceVars, messageVars, archiveVars>>

-------------------------------------------------------------------------------
(* createMessage                                                           *)

\* Variant: a room with one of the two participants is good enough.
RoomsForAny(talk) == {r \in rooms : Participants(r) \cap {talk[1], talk[2]} # {}}

\* The rooms both take part in.  Without a sort, any of several may be found; a
\* user who writes to himself may find any room he is in.
RoomsFor(talk) == {r \in rooms : {talk[1], talk[2]} \subseteq Participants(r)}

FindRoom(m, talk) ==
    /\ up
    /\ send[m] = "none"
    /\ from' = [from EXCEPT ![m] = talk[1]]
    /\ to' = [to EXCEPT ![m] = talk[2]]
    /\ \/ \E r \in RoomsFor(talk) :
            /\ room' = [room EXCEPT ![m] = r]
            /\ send' = [send EXCEPT ![m] = "store"]
       \/ /\ RoomsFor(talk) = {}
          /\ send' = [send EXCEPT ![m] = "make"]
          /\ UNCHANGED room
    /\ UNCHANGED <<up, presenceVars, status, rooms, last, archiveVars>>

MakeRoom(m) ==
    /\ send[m] = "make"
    /\ rooms' = rooms \cup {m}
    /\ room' = [room EXCEPT ![m] = m]
    /\ send' = [send EXCEPT ![m] = "store"]
    /\ UNCHANGED <<up, presenceVars, from, to, status, last, archiveVars>>

Store(m) ==
    /\ send[m] = "store"
    /\ status' = [status EXCEPT ![m] = "SENT"]
    /\ send' = [send EXCEPT ![m] = "check"]
    /\ UNCHANGED <<up, presenceVars, from, to, rooms, room, last, archiveVars>>

\* A receiver without a chat document is not found: the event fails with the
\* message stored.
CheckReceiver(m) ==
    /\ send[m] = "check"
    /\ send' = [send EXCEPT ![m] = IF to[m] \in Guests THEN "cut"
                                   ELSE IF presence[to[m]] THEN "mark" ELSE "last"]
    /\ UNCHANGED <<up, presenceVars, from, to, status, rooms, room, last, archiveVars>>

\* Variant: the message of an online receiver is left as it is.
MarkDeliveredNot(m) ==
    /\ send[m] = "mark"
    /\ send' = [send EXCEPT ![m] = "last"]
    /\ UNCHANGED <<up, presenceVars, from, to, status, rooms, room, last, archiveVars>>

\* Written by _id only, on the presence read before.
MarkDelivered(m) ==
    /\ send[m] = "mark"
    /\ status' = [status EXCEPT ![m] = "DELIVERED"]
    /\ send' = [send EXCEPT ![m] = "last"]
    /\ UNCHANGED <<up, presenceVars, from, to, rooms, room, last, archiveVars>>

SetLast(m) ==
    /\ send[m] = "last"
    /\ last' = [last EXCEPT ![room[m]] = m]
    /\ send' = [send EXCEPT ![m] = "done"]
    /\ UNCHANGED <<up, presenceVars, from, to, status, rooms, room, archiveVars>>

\* An await of createMessage rejects: what was written stays.
FailSend(m) ==
    /\ "fail" \in Faults
    /\ send[m] \in InProgress
    /\ send' = [send EXCEPT ![m] = "cut"]
    /\ UNCHANGED <<up, presenceVars, from, to, status, rooms, room, last, archiveVars>>

-------------------------------------------------------------------------------
(* markMessagesAsRead, one room of its loop, and markMessageAsRead         *)
MarkRoomRead(u, r) ==
    /\ up
    /\ r \in rooms
    /\ status' = [m \in Messages |->
                    IF room[m] = r /\ to[m] = u /\ status[m] \in {"SENT", "DELIVERED"}
                    THEN "READ" ELSE status[m]]
    /\ UNCHANGED <<up, presenceVars, from, to, send, rooms, room, last, archiveVars>>

MarkOneRead(u, m) ==
    /\ up
    /\ to[m] = u
    /\ status[m] # "none"
    /\ status' = [status EXCEPT ![m] = "READ"]
    /\ UNCHANGED <<up, presenceVars, from, to, send, rooms, room, last, archiveVars>>

-------------------------------------------------------------------------------
(* archiveChatByChat and archiveMultipleRooms, unArchiveChatByChat         *)

\* Variant for the mutation runs: the others are dropped instead of kept.
NewListDropsOthers(u, r, kind) == IF kind = "archive" THEN archived[r] \cup {u} ELSE {}

NewList(u, r, kind) == IF kind = "archive" THEN archived[r] \cup {u} ELSE archived[r] \ {u}

\* The list is read, and what will be written is computed from it.
TidyRead(u, r, kind) ==
    /\ up
    /\ tidy[u] = Idle
    /\ r \in rooms
    /\ [kind |-> kind, room |-> r] \in Tidies[u]
    /\ tidy' = [tidy EXCEPT ![u] = [kind |-> kind, room |-> r, list |-> NewList(u, r, kind)]]
    /\ UNCHANGED <<up, presenceVars, messageVars, archived, asked, crossed>>

TidyWrite(u) ==
    /\ tidy[u] # Idle
    /\ LET r == tidy[u].room
           lapped == \E v \in Users \ {u} : tidy[v] # Idle /\ tidy[v].room = r
       IN /\ archived' = [archived EXCEPT ![r] = tidy[u].list]
          /\ crossed' = IF lapped THEN crossed \cup {r} ELSE crossed
          /\ asked' = [asked EXCEPT ![r] =
                IF r \in crossed' THEN {}
                ELSE IF tidy[u].kind = "archive" THEN @ \cup {u} ELSE @ \ {u}]
    /\ tidy' = [tidy EXCEPT ![u] = Idle]
    /\ UNCHANGED <<up, presenceVars, messageVars>>

-------------------------------------------------------------------------------
SocketStep(s) ==
    \/ Connect(s) \/ StatusOn(s) \/ Flush(s)
    \/ Drop(s) \/ StatusOff(s) \/ Reject(s)

SendStep(m) ==
    \/ \E talk \in Talks[m] : FindRoom(m, talk)
    \/ MakeRoom(m) \/ Store(m) \/ CheckReceiver(m)
    \/ MarkDelivered(m) \/ SetLast(m) \/ FailSend(m)

UserStep(u) ==
    \/ \E r \in Messages : MarkRoomRead(u, r)
    \/ \E m \in Messages : MarkOneRead(u, m)
    \/ \E r \in Messages, kind \in {"archive", "unarchive"} : TidyRead(u, r, kind)
    \/ TidyWrite(u)

Next ==
    \/ \E s \in Sockets : SocketStep(s)
    \/ \E m \in Messages : SendStep(m)
    \/ \E u \in Users : UserStep(u)
    \/ Restart

Spec == Init /\ [][Next]_vars

-------------------------------------------------------------------------------
(* Properties *)

\* Nothing waits for a user who is shown online: a message that was sent
\* completely is delivered when its receiver's status is on, unless a connect
\* handler is still to do so or was cut off before it did.  It rests on the
\* order of awaits: createMessage stores before it looks at the status, and
\* handleConnection sets the status before it delivers.
JoinPending(u) == \E s \in SocketsOf(u) : join[s] # "idle"
NoneLeftSent ==
    \A m \in Messages :
        send[m] = "done" /\ presence[to[m]] /\ ~JoinPending(to[m]) => status[m] # "SENT"

\* A message that was read stays read, except for the late "DELIVERED" of its
\* own createMessage.
ReadIsFinal ==
    [][\A m \in Messages :
         status[m] = "READ" => status'[m] = "READ" \/ send[m] = "mark"]_vars

\* When connects and disconnects of a user did not overlap, and no crash left
\* its status behind, a settled user is shown online exactly when connected.
PresenceIsConnection ==
    \A u \in Users : u \notin muddled /\ Settled(u) =>
        (presence[u] <=> conn \cap SocketsOf(u) # {})

\* A message lies in a room that its sender and its receiver both take part in,
\* which for two users is a room of just these two, and a room shows no last
\* message of anybody else.  (What a user writes to himself may lie in any of
\* his rooms, before the eyes of the other participant.)
RoomFits ==
    \A m \in Messages :
        /\ status[m] # "none" =>
             room[m] \in rooms /\ Participants(m) \subseteq Participants(room[m])
        /\ last[m] # None => Participants(last[m]) \subseteq Participants(m)

\* As long as archive requests of a room do not overlap, it is archived for
\* exactly those whose last request was to archive it.
ArchivedAsAsked == \A r \in rooms \ crossed : archived[r] = asked[r]

===============================================================================
