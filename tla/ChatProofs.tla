------------------------------ MODULE ChatProofs ------------------------------
(***************************************************************************)
(* Proofs about Chat, for any users, messages, sockets and requests.       *)
(*                                                                         *)
(* Four inductive invariants: what a message's status is at each await of  *)
(* its createMessage; the room it was given; who of a user's sockets has a *)
(* handler running while the user is not muddled; and the list an archive  *)
(* request that nobody crossed is about to write.                          *)
(***************************************************************************)
EXTENDS Chat, TLAPS

MessageTypeOK ==
    /\ from \in [Messages -> Users \cup {None}]
    /\ to \in [Messages -> Users \cup {None}]
    /\ send \in [Messages -> SendSteps]
    /\ status \in [Messages -> Statuses]
    /\ rooms \subseteq Messages
    /\ room \in [Messages -> Messages \cup {None}]
    /\ last \in [Messages -> Messages \cup {None}]

PresenceTypeOK ==
    /\ up \in BOOLEAN
    /\ conn \subseteq Sockets
    /\ presence \in [Users -> BOOLEAN]
    /\ join \in [Sockets -> {"idle", "status", "flush", "cut"}]
    /\ leave \in [Sockets -> {"idle", "status"}]
    /\ muddled \subseteq Users

ArchiveTypeOK ==
    /\ archived \in [Messages -> SUBSET Users]
    /\ tidy \in [Users -> Requests]
    /\ asked \in [Messages -> SUBSET Users]
    /\ crossed \subseteq Messages

-------------------------------------------------------------------------------
(* Rooms *)

RoomInv ==
    /\ MessageTypeOK
    /\ \A m \in Messages : send[m] = "none" => m \notin rooms
    /\ \A m \in Messages : send[m] \in {"none", "make", "store"} => status[m] = "none"
    /\ \A m \in Messages : send[m] \in {"none", "make"} => room[m] = None
    /\ \A m \in Messages :
          send[m] \in {"store", "check", "mark", "last", "done"} \/ status[m] # "none"
             => room[m] # None
    /\ \A m \in Messages : room[m] # None =>
          room[m] \in rooms /\ Participants(m) \subseteq Participants(room[m])
    /\ \A r \in Messages : last[r] # None => room[last[r]] = r

LEMMA RoomInvInit == Init => RoomInv
  BY ChatAssumption DEF Init, RoomInv, MessageTypeOK, SendSteps, Statuses

LEMMA FindRoomKeeps ==
  ASSUME RoomInv, NEW m \in Messages, NEW talk \in Talks[m], FindRoom(m, talk)
  PROVE  RoomInv'
  <1>. USE ChatAssumption
  <1>1. talk \in Users \X Users
    OBVIOUS
  <1>2. /\ send[m] = "none" /\ room[m] = None /\ m \notin rooms /\ status[m] = "none"
        /\ UNCHANGED <<status, rooms, last>>
    BY DEF FindRoom, RoomInv
  <1>3. /\ from' = [from EXCEPT ![m] = talk[1]] /\ to' = [to EXCEPT ![m] = talk[2]]
        /\ \/ \E r \in rooms : /\ {talk[1], talk[2]} \subseteq Participants(r)
                               /\ room' = [room EXCEPT ![m] = r]
                               /\ send' = [send EXCEPT ![m] = "store"]
           \/ send' = [send EXCEPT ![m] = "make"] /\ room' = room
    BY DEF FindRoom, RoomsFor
  <1>4. MessageTypeOK'
    BY <1>1, <1>2, <1>3 DEF RoomInv, MessageTypeOK, SendSteps
  <1>5. /\ from'[m] = talk[1] /\ to'[m] = talk[2] /\ send'[m] \in {"make", "store"}
        /\ send'[m] = "make" => room'[m] = None
        /\ send'[m] = "store" => /\ room'[m] \in rooms
                                 /\ {talk[1], talk[2]} \subseteq Participants(room'[m])
        /\ \A n \in Messages : n # m => /\ from'[n] = from[n] /\ to'[n] = to[n]
                                        /\ send'[n] = send[n] /\ room'[n] = room[n]
    BY <1>2, <1>3 DEF RoomInv, MessageTypeOK
  <1>6. \A r \in rooms : r # m /\ from'[r] = from[r] /\ to'[r] = to[r]
    BY <1>2, <1>5 DEF RoomInv, MessageTypeOK
  <1>7. \A n \in Messages : room'[n] # None =>
            /\ room'[n] \in rooms'
            /\ {from'[n], to'[n]} \subseteq {from'[room'[n]], to'[room'[n]]}
    <2>. TAKE n \in Messages
    <2>. HAVE room'[n] # None
    <2>1. CASE n = m
      <3>1. room'[m] \in rooms /\ {talk[1], talk[2]} \subseteq Participants(room'[m])
        BY <1>5, <2>1
      <3>. QED BY <1>2, <1>5, <1>6, <2>1, <3>1 DEF Participants
    <2>2. CASE n # m
      <3>1. room[n] \in rooms /\ Participants(n) \subseteq Participants(room[n])
        BY <1>5, <2>2 DEF RoomInv
      <3>2. room'[n] = room[n] /\ from'[n] = from[n] /\ to'[n] = to[n]
        BY <1>5, <2>2
      <3>. QED BY <1>2, <1>6, <3>1, <3>2 DEF Participants
    <2>. QED BY <2>1, <2>2
  <1>8. \A r \in Messages : last'[r] # None => room'[last'[r]] = r
    BY <1>2, <1>5 DEF RoomInv, MessageTypeOK
  <1>9. \A n \in Messages :
          /\ send'[n] = "none" => n \notin rooms'
          /\ send'[n] \in {"none", "make", "store"} => status'[n] = "none"
          /\ send'[n] \in {"none", "make"} => room'[n] = None
          /\ send'[n] \in {"store", "check", "mark", "last", "done"} \/ status'[n] # "none"
                => room'[n] # None
    <2>. TAKE n \in Messages
    <2>1. CASE n = m
      BY <1>2, <1>5, <2>1 DEF RoomInv, MessageTypeOK
    <2>2. CASE n # m
      BY <1>2, <1>5, <2>2 DEF RoomInv
    <2>. QED BY <2>1, <2>2
  <1>. QED BY <1>4, <1>7, <1>8, <1>9 DEF RoomInv, Participants

\* The other steps of a message, and of who reads it.
LEMMA MessageKeeps ==
  ASSUME RoomInv, UNCHANGED <<from, to, rooms, room, last>>,
         send' \in [Messages -> SendSteps], status' \in [Messages -> Statuses],
         \A m \in Messages :
            /\ send'[m] = "none" => send[m] = "none"
            /\ send'[m] \in {"none", "make", "store"} => status'[m] = "none"
            /\ send'[m] \in {"none", "make"} => send[m] \in {"none", "make"}
            /\ send'[m] \in {"store", "check", "mark", "last", "done"} \/ status'[m] # "none"
                  => send[m] \in {"store", "check", "mark", "last", "done"} \/ status[m] # "none"
  PROVE  RoomInv'
  BY DEF RoomInv, MessageTypeOK, Participants

LEMMA SendKeeps ==
  ASSUME RoomInv, NEW m \in Messages,
         Store(m) \/ CheckReceiver(m) \/ MarkDelivered(m) \/ FailSend(m)
  PROVE  RoomInv'
  <1>1. send \in [Messages -> SendSteps] /\ status \in [Messages -> Statuses]
    BY DEF RoomInv, MessageTypeOK
  <1>2. UNCHANGED <<from, to, rooms, room, last>>
    BY DEF Store, CheckReceiver, MarkDelivered, FailSend
  <1>3. /\ send' \in [Messages -> SendSteps] /\ status' \in [Messages -> Statuses]
        /\ \A n \in Messages : n # m => send'[n] = send[n] /\ status'[n] = status[n]
        /\ send[m] \in {"store", "check", "mark"} \/ status'[m] = status[m]
        /\ send'[m] \in {"check", "mark", "last", "cut"}
        /\ send[m] \in {"store", "check", "mark"} \/ send'[m] = "cut"
    BY <1>1 DEF Store, CheckReceiver, MarkDelivered, FailSend, SendSteps, Statuses
  <1>. QED BY <1>1, <1>2, <1>3, MessageKeeps DEF RoomInv

LEMMA MakeRoomKeeps ==
  ASSUME RoomInv, NEW m \in Messages, MakeRoom(m)
  PROVE  RoomInv'
  <1>1. /\ send[m] = "make" /\ room[m] = None /\ status[m] = "none"
        /\ UNCHANGED <<from, to, status, last>>
        /\ rooms' = rooms \cup {m} /\ room' = [room EXCEPT ![m] = m]
        /\ send' = [send EXCEPT ![m] = "store"]
    BY DEF MakeRoom, RoomInv
  <1>2. /\ room'[m] = m /\ send'[m] = "store"
        /\ \A n \in Messages : n # m => room'[n] = room[n] /\ send'[n] = send[n]
    BY <1>1 DEF RoomInv, MessageTypeOK
  <1>3. MessageTypeOK'
    BY <1>1 DEF RoomInv, MessageTypeOK, SendSteps
  <1>4. \A n \in Messages : room'[n] # None =>
            room'[n] \in rooms' /\ {from[n], to[n]} \subseteq {from[room'[n]], to[room'[n]]}
    BY <1>1, <1>2 DEF RoomInv, Participants
  <1>5. \A r \in Messages : last'[r] # None => room'[last'[r]] = r
    <2>. TAKE r \in Messages
    <2>. HAVE last'[r] # None
    <2>1. last[r] \in Messages /\ last'[r] = last[r] /\ room[last[r]] = r
      BY <1>1 DEF RoomInv, MessageTypeOK
    <2>2. last[r] # m
      BY <1>1, <2>1, ChatAssumption
    <2>. QED BY <1>2, <2>1, <2>2
  <1>6. m # None
    BY ChatAssumption
  <1>7. \A n \in Messages :
          /\ send'[n] = "none" => n \notin rooms'
          /\ send'[n] \in {"none", "make", "store"} => status'[n] = "none"
          /\ send'[n] \in {"none", "make"} => room'[n] = None
          /\ send'[n] \in {"store", "check", "mark", "last", "done"} \/ status'[n] # "none"
                => room'[n] # None
    <2>. TAKE n \in Messages
    <2>1. CASE n = m
      BY <1>1, <1>2, <1>6, <2>1
    <2>2. CASE n # m
      BY <1>1, <1>2, <2>2 DEF RoomInv
    <2>. QED BY <2>1, <2>2
  <1>8. \A n \in Messages : room'[n] # None =>
            /\ room'[n] \in rooms'
            /\ {from'[n], to'[n]} \subseteq {from'[room'[n]], to'[room'[n]]}
    BY <1>1, <1>4
  <1>. QED BY <1>3, <1>5, <1>7, <1>8 DEF RoomInv, Participants

LEMMA SetLastKeeps ==
  ASSUME RoomInv, NEW m \in Messages, SetLast(m)
  PROVE  RoomInv'
  <1>1. /\ send[m] = "last" /\ room[m] \in Messages
        /\ UNCHANGED <<from, to, status, rooms, room>>
        /\ last' = [last EXCEPT ![room[m]] = m] /\ send' = [send EXCEPT ![m] = "done"]
    BY DEF SetLast, RoomInv, MessageTypeOK
  <1>2. MessageTypeOK'
    BY <1>1 DEF RoomInv, MessageTypeOK, SendSteps
  <1>3. \A r \in Messages : last'[r] # None => room'[last'[r]] = r
    <2>1. last'[room[m]] = m /\ \A r \in Messages : r # room[m] => last'[r] = last[r]
      BY <1>1 DEF RoomInv, MessageTypeOK
    <2>. QED BY <1>1, <2>1 DEF RoomInv
  <1>4. send'[m] = "done" /\ \A n \in Messages : n # m => send'[n] = send[n]
    BY <1>1 DEF RoomInv, MessageTypeOK
  <1>. QED BY <1>1, <1>2, <1>3, <1>4 DEF RoomInv, Participants

LEMMA ReadKeeps ==
  ASSUME RoomInv, NEW u \in Users,
         (\E r \in Messages : MarkRoomRead(u, r)) \/ (\E m \in Messages : MarkOneRead(u, m))
  PROVE  RoomInv'
  <1>1. send \in [Messages -> SendSteps] /\ status \in [Messages -> Statuses]
    BY DEF RoomInv, MessageTypeOK
  <1>2. /\ UNCHANGED <<from, to, send, rooms, room, last>>
        /\ status' \in [Messages -> Statuses]
        /\ \A m \in Messages : status'[m] # status[m] => status[m] # "none"
    BY <1>1 DEF MarkRoomRead, MarkOneRead, Statuses
  <1>. QED BY <1>1, <1>2, MessageKeeps DEF RoomInv

LEMMA FlushKeeps ==
  ASSUME RoomInv, NEW s \in Sockets, Flush(s) \/ Reject(s)
  PROVE  RoomInv'
  <1>1. send \in [Messages -> SendSteps] /\ status \in [Messages -> Statuses]
    BY DEF RoomInv, MessageTypeOK
  <1>2. /\ UNCHANGED <<from, to, rooms, room, last>>
        /\ status' \in [Messages -> Statuses] /\ send' \in [Messages -> SendSteps]
        /\ \A m \in Messages : status'[m] # status[m] => status[m] # "none"
        /\ \A m \in Messages : send'[m] # send[m] => send'[m] = "cut"
    BY <1>1 DEF Flush, Reject, Statuses, SendSteps
  <1>3. \A m \in Messages : send'[m] # "cut" => send'[m] = send[m]
    BY <1>2
  <1>4. \A m \in Messages : status'[m] # "none" => status[m] # "none"
    BY <1>2
  <1>5. \A m \in Messages : status[m] = "none" => status'[m] = "none"
    BY <1>2
  <1>. QED BY <1>1, <1>2, <1>3, <1>4, <1>5, MessageKeeps DEF RoomInv

LEMMA RoomInvNext ==
  ASSUME RoomInv, [Next]_vars
  PROVE  RoomInv'
  <1>1. CASE UNCHANGED messageVars
    BY <1>1 DEF messageVars, RoomInv, MessageTypeOK, Participants
  <1>2. ASSUME NEW m \in Messages, SendStep(m) PROVE RoomInv'
    BY <1>2, FindRoomKeeps, MakeRoomKeeps, SendKeeps, SetLastKeeps DEF SendStep
  <1>3. ASSUME NEW s \in Sockets, SocketStep(s) PROVE RoomInv'
    BY <1>1, <1>3, FlushKeeps DEF SocketStep, Connect, StatusOn, Drop, StatusOff
  <1>4. ASSUME NEW u \in Users, UserStep(u) PROVE RoomInv'
    BY <1>1, <1>4, ReadKeeps DEF UserStep, TidyRead, TidyWrite
  <1>5. CASE Restart \/ UNCHANGED vars
    BY <1>1, <1>5 DEF Restart, vars
  <1>. QED BY <1>2, <1>3, <1>4, <1>5 DEF Next

\* Messages lie in rooms that both their participants take part in, and the last
\* message a room shows is one of its own (chat.service.ts, createMessage).
THEOREM RoomsFit == Spec => []RoomFits
  <1>1. RoomInv => RoomFits
    <2>. SUFFICES ASSUME RoomInv, NEW m \in Messages
                  PROVE  /\ status[m] # "none" =>
                              room[m] \in rooms /\ Participants(m) \subseteq Participants(room[m])
                         /\ last[m] # None => Participants(last[m]) \subseteq Participants(m)
      BY DEF RoomFits
    <2>1. status[m] # "none" => room[m] # None
      BY DEF RoomInv
    <2>2. ASSUME last[m] # None PROVE Participants(last[m]) \subseteq Participants(m)
      <3>1. last[m] \in Messages /\ room[last[m]] = m
        BY <2>2 DEF RoomInv, MessageTypeOK
      <3>2. room[last[m]] # None
        BY <3>1, ChatAssumption
      <3>. QED BY <3>1, <3>2 DEF RoomInv
    <2>. QED BY <2>1, <2>2 DEF RoomInv
  <1>. QED BY <1>1, RoomInvInit, RoomInvNext, PTL DEF Spec

\* Only the late DELIVERED of a message's own createMessage takes back a READ.
THEOREM ReadStays == Spec => ReadIsFinal
  <1>1. ASSUME RoomInv, [Next]_vars
        PROVE  \A m \in Messages : status[m] = "READ" => status'[m] = "READ" \/ send[m] = "mark"
    <2>. USE DEF RoomInv, MessageTypeOK
    <2>1. ASSUME NEW m \in Messages, SendStep(m)
          PROVE  \A n \in Messages : status[n] = "READ" => status'[n] = "READ" \/ send[n] = "mark"
      <3>1. CASE Store(m)
        <4>1. status[m] = "none" /\ status' = [status EXCEPT ![m] = "SENT"]
          <5>1. send[m] = "store" /\ status' = [status EXCEPT ![m] = "SENT"]
            BY <3>1 DEF Store
          <5>2. send[m] = "store" => status[m] = "none"
            BY <1>1
          <5>. QED BY <5>1, <5>2
        <4>. QED BY <4>1
      <3>2. CASE MarkDelivered(m)
        <4>1. send[m] = "mark" /\ status' = [status EXCEPT ![m] = "DELIVERED"]
          BY <3>2 DEF MarkDelivered
        <4>. QED BY <4>1
      <3>3. Store(m) \/ MarkDelivered(m) \/ UNCHANGED status
        BY <2>1 DEF SendStep, FindRoom, MakeRoom, CheckReceiver, SetLast, FailSend
      <3>. QED BY <3>1, <3>2, <3>3
    <2>2. ASSUME NEW s \in Sockets, SocketStep(s)
          PROVE  \A n \in Messages : status[n] = "READ" => status'[n] = "READ"
      <3>1. Flush(s) \/ UNCHANGED status
        BY <2>2 DEF SocketStep, Connect, StatusOn, Drop, StatusOff, Reject, messageVars
      <3>2. CASE Flush(s)
        BY <3>2 DEF Flush
      <3>. QED BY <3>1, <3>2
    <2>3. ASSUME NEW u \in Users, UserStep(u)
          PROVE  \A n \in Messages : status[n] = "READ" => status'[n] = "READ"
      <3>1. \/ \E r \in Messages : MarkRoomRead(u, r)
            \/ \E m \in Messages : MarkOneRead(u, m)
            \/ UNCHANGED status
        BY <2>3 DEF UserStep, TidyRead, TidyWrite, messageVars
      <3>2. ASSUME NEW r \in Messages, MarkRoomRead(u, r)
            PROVE  \A n \in Messages : status[n] = "READ" => status'[n] = "READ"
        BY <3>2 DEF MarkRoomRead
      <3>3. ASSUME NEW m \in Messages, MarkOneRead(u, m)
            PROVE  \A n \in Messages : status[n] = "READ" => status'[n] = "READ"
        BY <3>3, <1>1 DEF MarkOneRead
      <3>. QED BY <3>1, <3>2, <3>3
    <2>4. CASE Restart \/ UNCHANGED vars
      BY <2>4 DEF Restart, vars, messageVars
    <2>. QED BY <1>1, <2>1, <2>2, <2>3, <2>4 DEF Next
  <1>. QED BY <1>1, RoomInvInit, RoomInvNext, PTL DEF Spec, ReadIsFinal

-------------------------------------------------------------------------------
(* Presence *)

Busy(s) == join[s] \in {"status", "flush"} \/ leave[s] = "status"
OnLine(u) == \E s \in conn : Owner[s] = u

\* Of a user who is not muddled one handler runs, and knows the connections.
PresenceInv ==
    /\ PresenceTypeOK
    /\ \A s, t \in Sockets :
          Owner[s] = Owner[t] /\ Owner[s] \notin muddled /\ Busy(s) /\ Busy(t) => s = t
    /\ \A s \in Sockets : Owner[s] \notin muddled =>
          /\ join[s] \in {"status", "flush"} => s \in conn /\ leave[s] = "idle"
          /\ join[s] = "flush" => presence[Owner[s]]
          /\ leave[s] = "status" => ~OnLine(Owner[s])
    /\ \A u \in Users \ muddled :
          (\A s \in Sockets : Owner[s] = u => ~Busy(s)) => (presence[u] <=> OnLine(u))

LEMMA SettledIsIdle ==
  ASSUME PresenceTypeOK, NEW u
  PROVE  Settled(u) <=> \A s \in Sockets : Owner[s] = u => ~Busy(s)
  BY DEF PresenceTypeOK, Settled, SocketsOf, Busy

LEMMA PresenceInvInit == Init => PresenceInv
  BY DEF Init, PresenceInv, PresenceTypeOK, Busy, OnLine

LEMMA ConnectKeeps ==
  ASSUME PresenceInv, NEW s \in Sockets, Connect(s)
  PROVE  PresenceInv'
  <1>. DEFINE o == Owner[s]
  <1>1. /\ join' = [join EXCEPT ![s] = "status"] /\ conn' = conn \cup {s}
        /\ UNCHANGED <<up, presence, leave>> /\ PresenceTypeOK
        /\ o \in Users
    BY ChatAssumption DEF Connect, PresenceInv
  <1>2. /\ join'[s] = "status"
        /\ \A t \in Sockets : t # s => join'[t] = join[t]
    BY <1>1 DEF PresenceTypeOK
  <1>3. /\ o \notin muddled' => \A t \in Sockets : Owner[t] = o => ~Busy(t)
        /\ muddled' \in {muddled \ {o}, muddled \cup {o}}
    BY <1>1, SettledIsIdle DEF Connect, Muddle
  <1>4. PresenceTypeOK'
    BY <1>1, <1>3 DEF PresenceTypeOK
  <1>. HIDE DEF o
  <1>5. \A t \in Sockets : t # s => (Busy(t)' <=> Busy(t))
    BY <1>1, <1>2 DEF Busy
  <1>6. \A u \in Users : u # o => (OnLine(u)' <=> OnLine(u)) /\ (u \in muddled' <=> u \in muddled)
    BY <1>1, <1>3 DEF OnLine, o
  <1>7. \A t, v \in Sockets :
          Owner[t] = Owner[v] /\ Owner[t] \notin muddled' /\ Busy(t)' /\ Busy(v)' => t = v
    BY <1>3, <1>5, <1>6, ChatAssumption DEF PresenceInv, o
  <1>8. \A t \in Sockets : Owner[t] \notin muddled' =>
          /\ join'[t] \in {"status", "flush"} => t \in conn' /\ leave'[t] = "idle"
          /\ join'[t] = "flush" => presence'[Owner[t]]
          /\ leave'[t] = "status" => ~OnLine(Owner[t])'
    <2>. TAKE t \in Sockets
    <2>. HAVE Owner[t] \notin muddled'
    <2>1. CASE t = s
      BY <1>1, <1>2, <1>3, <2>1 DEF Busy, PresenceTypeOK, o
    <2>2. CASE t # s /\ Owner[t] = o
      BY <1>1, <1>2, <1>3, <2>2 DEF Busy, PresenceTypeOK
    <2>3. CASE t # s /\ Owner[t] # o
      BY <1>1, <1>2, <1>6, <2>3, ChatAssumption DEF PresenceInv
    <2>. QED BY <2>1, <2>2, <2>3
  <1>9. \A u \in Users \ muddled' :
          (\A t \in Sockets : Owner[t] = u => ~Busy(t)') => (presence'[u] <=> OnLine(u)')
    <2>1. Busy(s)'
      BY <1>2 DEF Busy
    <2>2. ASSUME NEW u \in Users \ muddled', u # o,
                 \A t \in Sockets : Owner[t] = u => ~Busy(t)'
          PROVE  presence'[u] <=> OnLine(u)'
      <3>1. \A t \in Sockets : Owner[t] = u => ~Busy(t)
        BY <1>5, <2>2 DEF o
      <3>. QED BY <1>1, <1>6, <2>2, <3>1 DEF PresenceInv
    <2>. QED BY <2>1, <2>2 DEF o
  <1>. QED BY <1>4, <1>7, <1>8, <1>9 DEF PresenceInv

LEMMA StatusOnKeeps ==
  ASSUME PresenceInv, NEW s \in Sockets, StatusOn(s) \/ Flush(s)
  PROVE  PresenceInv'
  <1>1. /\ PresenceTypeOK /\ UNCHANGED <<up, conn, leave, muddled>>
        /\ \/ /\ join[s] = "status" /\ join' = [join EXCEPT ![s] = "flush"]
              /\ presence' = [presence EXCEPT ![Owner[s]] = TRUE]
           \/ /\ join[s] = "flush" /\ join' = [join EXCEPT ![s] = "idle"]
              /\ UNCHANGED presence
        /\ Owner[s] \in Users
    BY ChatAssumption DEF StatusOn, Flush, PresenceInv
  <1>2. /\ \A t \in Sockets : t # s => join'[t] = join[t]
        /\ \A u \in Users : u # Owner[s] => (presence'[u] <=> presence[u])
        /\ join'[s] = "flush" => presence'[Owner[s]]
        /\ join'[s] \in {"flush", "idle"} /\ join[s] \in {"status", "flush"}
        /\ join'[s] = "idle" => presence' = presence /\ join[s] = "flush"
    BY <1>1 DEF PresenceTypeOK
  <1>3. PresenceTypeOK'
    BY <1>1 DEF PresenceTypeOK
  <1>4. \A t \in Sockets : Busy(t)' => Busy(t)
    BY <1>1, <1>2 DEF Busy
  <1>5. \A t \in Sockets : t # s => (Busy(t)' <=> Busy(t))
    BY <1>1, <1>2 DEF Busy
  <1>6. \A u \in Users : OnLine(u)' <=> OnLine(u)
    BY <1>1 DEF OnLine
  <1>7. \A t \in Sockets : Owner[t] \notin muddled' =>
          /\ join'[t] \in {"status", "flush"} => t \in conn' /\ leave'[t] = "idle"
          /\ join'[t] = "flush" => presence'[Owner[t]]
          /\ leave'[t] = "status" => ~OnLine(Owner[t])'
    <2>. TAKE t \in Sockets
    <2>. HAVE Owner[t] \notin muddled'
    <2>1. CASE t = s
      BY <1>1, <1>2, <1>6, <2>1 DEF PresenceInv
    <2>2. CASE t # s /\ Owner[t] # Owner[s]
      BY <1>1, <1>2, <1>6, <2>2, ChatAssumption DEF PresenceInv
    <2>3. CASE t # s /\ Owner[t] = Owner[s]
      <3>1. ~Busy(t)
        BY <1>1, <1>2, <2>3 DEF PresenceInv, Busy
      <3>. QED BY <1>1, <1>2, <2>3, <3>1 DEF Busy
    <2>. QED BY <2>1, <2>2, <2>3
  <1>8. \A u \in Users \ muddled' :
          (\A t \in Sockets : Owner[t] = u => ~Busy(t)') => (presence'[u] <=> OnLine(u)')
    <2>. SUFFICES ASSUME NEW u \in Users \ muddled', \A t \in Sockets : Owner[t] = u => ~Busy(t)'
                  PROVE  presence'[u] <=> OnLine(u)'
      OBVIOUS
    <2>1. CASE u = Owner[s]
      <3>1. join[s] = "flush" /\ presence' = presence
        BY <1>2, <2>1 DEF Busy
      <3>2. presence[u] /\ s \in conn
        BY <1>1, <2>1, <3>1 DEF PresenceInv
      <3>. QED BY <1>1, <2>1, <3>1, <3>2 DEF OnLine
    <2>2. CASE u # Owner[s]
      <3>1. \A t \in Sockets : Owner[t] = u => ~Busy(t)
        BY <1>5, <2>2
      <3>2. presence[u] <=> OnLine(u)
        BY <1>1, <3>1 DEF PresenceInv
      <3>. QED BY <1>2, <1>6, <2>2, <3>2
    <2>. QED BY <2>1, <2>2
  <1>. QED BY <1>1, <1>3, <1>4, <1>7, <1>8 DEF PresenceInv

LEMMA DropKeepsPresence ==
  ASSUME PresenceInv, NEW s \in Sockets, Drop(s)
  PROVE  PresenceInv'
  <1>. DEFINE o == Owner[s]
  <1>1. /\ leave' = [leave EXCEPT ![s] = "status"] /\ conn' = conn \ {s}
        /\ UNCHANGED <<up, presence, join>> /\ PresenceTypeOK
        /\ o \in Users
    BY ChatAssumption DEF Drop, PresenceInv
  <1>2. /\ leave'[s] = "status"
        /\ \A t \in Sockets : t # s => leave'[t] = leave[t]
    BY <1>1 DEF PresenceTypeOK
  <1>3. /\ o \notin muddled' => /\ \A t \in Sockets : Owner[t] = o => ~Busy(t)
                               /\ \A t \in conn : Owner[t] = o => t = s
        /\ muddled' \in {muddled \ {o}, muddled \cup {o}}
    BY <1>1, SettledIsIdle DEF Drop, Muddle, SocketsOf, PresenceTypeOK
  <1>4. PresenceTypeOK'
    BY <1>1, <1>3 DEF PresenceTypeOK
  <1>. HIDE DEF o
  <1>5. \A t \in Sockets : t # s => (Busy(t)' <=> Busy(t))
    BY <1>1, <1>2 DEF Busy
  <1>6. \A u \in Users : u # o => (OnLine(u)' <=> OnLine(u)) /\ (u \in muddled' <=> u \in muddled)
    BY <1>1, <1>3 DEF OnLine, o
  <1>7. \A t, v \in Sockets :
          Owner[t] = Owner[v] /\ Owner[t] \notin muddled' /\ Busy(t)' /\ Busy(v)' => t = v
    BY <1>3, <1>5, <1>6, ChatAssumption DEF PresenceInv, o
  <1>8. \A t \in Sockets : Owner[t] \notin muddled' =>
          /\ join'[t] \in {"status", "flush"} => t \in conn' /\ leave'[t] = "idle"
          /\ join'[t] = "flush" => presence'[Owner[t]]
          /\ leave'[t] = "status" => ~OnLine(Owner[t])'
    <2>. TAKE t \in Sockets
    <2>. HAVE Owner[t] \notin muddled'
    <2>1. CASE Owner[t] = o
      BY <1>1, <1>2, <1>3, <2>1 DEF Busy, PresenceTypeOK, OnLine, o
    <2>2. CASE Owner[t] # o
      <3>1. t # s /\ Owner[t] \in Users
        BY <2>2, ChatAssumption DEF o
      <3>. QED BY <1>1, <1>2, <1>6, <2>2, <3>1 DEF PresenceInv
    <2>. QED BY <2>1, <2>2
  <1>9. \A u \in Users \ muddled' :
          (\A t \in Sockets : Owner[t] = u => ~Busy(t)') => (presence'[u] <=> OnLine(u)')
    <2>1. Busy(s)'
      BY <1>2 DEF Busy
    <2>2. ASSUME NEW u \in Users \ muddled', u # o,
                 \A t \in Sockets : Owner[t] = u => ~Busy(t)'
          PROVE  presence'[u] <=> OnLine(u)'
      <3>1. \A t \in Sockets : Owner[t] = u => ~Busy(t)
        BY <1>5, <2>2 DEF o
      <3>. QED BY <1>1, <1>6, <2>2, <3>1 DEF PresenceInv
    <2>. QED BY <2>1, <2>2 DEF o
  <1>. QED BY <1>4, <1>7, <1>8, <1>9 DEF PresenceInv

LEMMA StatusOffKeeps ==
  ASSUME PresenceInv, NEW s \in Sockets, StatusOff(s)
  PROVE  PresenceInv'
  <1>1. /\ PresenceTypeOK /\ UNCHANGED <<up, conn, join, muddled>>
        /\ leave[s] = "status" /\ leave' = [leave EXCEPT ![s] = "idle"]
        /\ presence' = [presence EXCEPT ![Owner[s]] = FALSE]
        /\ Owner[s] \in Users
    BY ChatAssumption DEF StatusOff, PresenceInv
  <1>2. /\ leave'[s] = "idle" /\ \A t \in Sockets : t # s => leave'[t] = leave[t]
        /\ \A u \in Users : u # Owner[s] => (presence'[u] <=> presence[u])
        /\ ~presence'[Owner[s]]
    BY <1>1 DEF PresenceTypeOK
  <1>3. PresenceTypeOK'
    BY <1>1 DEF PresenceTypeOK
  <1>4. \A t \in Sockets : Busy(t)' => Busy(t)
    BY <1>1, <1>2 DEF Busy
  <1>5. \A t \in Sockets : t # s => (Busy(t)' <=> Busy(t))
    BY <1>1, <1>2 DEF Busy
  <1>6. \A u \in Users : OnLine(u)' <=> OnLine(u)
    BY <1>1 DEF OnLine
  <1>7. Owner[s] \notin muddled =>
          /\ ~OnLine(Owner[s])
          /\ \A t \in Sockets : Owner[t] = Owner[s] => join[t] \notin {"status", "flush"}
    BY <1>1 DEF PresenceInv, Busy
  <1>8. \A t \in Sockets : Owner[t] \notin muddled' =>
          /\ join'[t] \in {"status", "flush"} => t \in conn' /\ leave'[t] = "idle"
          /\ join'[t] = "flush" => presence'[Owner[t]]
          /\ leave'[t] = "status" => ~OnLine(Owner[t])'
    <2>. TAKE t \in Sockets
    <2>. HAVE Owner[t] \notin muddled'
    <2>1. CASE Owner[t] = Owner[s]
      BY <1>1, <1>2, <1>6, <1>7, <2>1 DEF PresenceInv
    <2>2. CASE Owner[t] # Owner[s]
      BY <1>1, <1>2, <1>6, <2>2, ChatAssumption DEF PresenceInv
    <2>. QED BY <2>1, <2>2
  <1>9. \A u \in Users \ muddled' :
          (\A t \in Sockets : Owner[t] = u => ~Busy(t)') => (presence'[u] <=> OnLine(u)')
    <2>. SUFFICES ASSUME NEW u \in Users \ muddled', \A t \in Sockets : Owner[t] = u => ~Busy(t)'
                  PROVE  presence'[u] <=> OnLine(u)'
      OBVIOUS
    <2>1. CASE u = Owner[s]
      BY <1>1, <1>2, <1>6, <1>7, <2>1
    <2>2. CASE u # Owner[s]
      <3>1. \A t \in Sockets : Owner[t] = u => ~Busy(t)
        BY <1>5, <2>2
      <3>2. presence[u] <=> OnLine(u)
        BY <1>1, <3>1 DEF PresenceInv
      <3>. QED BY <1>2, <1>6, <2>2, <3>2
    <2>. QED BY <2>1, <2>2
  <1>. QED BY <1>1, <1>3, <1>4, <1>8, <1>9 DEF PresenceInv

LEMMA PresenceInvNext ==
  ASSUME PresenceInv, [Next]_vars
  PROVE  PresenceInv'
  <1>1. CASE UNCHANGED presenceVars /\ up' \in BOOLEAN
    BY <1>1 DEF presenceVars, PresenceInv, PresenceTypeOK, Busy, OnLine
  <1>2. ASSUME NEW s \in Sockets, Reject(s) PROVE PresenceInv'
    <2>1. PresenceTypeOK'
      BY <1>2 DEF Reject, PresenceInv, PresenceTypeOK
    <2>2. \A t \in Sockets : Owner[t] \in muddled'
      BY <1>2, ChatAssumption DEF Reject
    <2>3. Users \ muddled' = {}
      BY <1>2 DEF Reject
    <2>. QED BY <2>1, <2>2, <2>3 DEF PresenceInv
  <1>3. ASSUME NEW s \in Sockets, SocketStep(s) PROVE PresenceInv'
    BY <1>2, <1>3, ConnectKeeps, StatusOnKeeps, DropKeepsPresence, StatusOffKeeps DEF SocketStep
  <1>4. ASSUME NEW m \in Messages, SendStep(m) PROVE PresenceInv'
    <2>1. UNCHANGED <<up, presenceVars>>
      BY <1>4 DEF SendStep, FindRoom, MakeRoom, Store, CheckReceiver, MarkDelivered, SetLast,
                  FailSend
    <2>. QED BY <1>1, <2>1 DEF PresenceInv, PresenceTypeOK
  <1>5. ASSUME NEW u \in Users, UserStep(u) PROVE PresenceInv'
    <2>1. UNCHANGED <<up, presenceVars>>
      BY <1>5 DEF UserStep, MarkRoomRead, MarkOneRead, TidyRead, TidyWrite
    <2>. QED BY <1>1, <2>1 DEF PresenceInv, PresenceTypeOK
  <1>6. CASE Restart \/ UNCHANGED vars
    BY <1>1, <1>6 DEF Restart, vars, PresenceInv, PresenceTypeOK
  <1>. QED BY <1>3, <1>4, <1>5, <1>6 DEF Next

\* Connects and disconnects that do not overlap leave a user online exactly
\* when connected (chat.service.ts, handleConnection and handleDisconnection).
THEOREM PresenceFollowsConnection == Spec => []PresenceIsConnection
  <1>1. PresenceInv => PresenceIsConnection
    <2>. SUFFICES ASSUME PresenceInv, NEW u \in Users, u \notin muddled, Settled(u)
                  PROVE  presence[u] <=> conn \cap SocketsOf(u) # {}
      BY DEF PresenceIsConnection
    <2>1. presence[u] <=> OnLine(u)
      BY SettledIsIdle DEF PresenceInv
    <2>. QED BY <2>1 DEF OnLine, SocketsOf, PresenceInv, PresenceTypeOK
  <1>. QED BY <1>1, PresenceInvInit, PresenceInvNext, PTL DEF Spec

-------------------------------------------------------------------------------
(* Deliveries *)

Joining(u) == \E s \in Sockets : Owner[s] = u /\ join[s] # "idle"

\* A message past its last look at the receiver's status is not left SENT
\* with an online receiver, unless a connect handler is still to deliver it.
DeliveryInv ==
    \A m \in Messages :
        send[m] \in {"last", "done"} /\ presence[to[m]] /\ ~Joining(to[m])
            => status[m] # "SENT"

AddressInv == \A m \in Messages : send[m] # "none" => to[m] \in Users

LEMMA AddressInvInit == Init => AddressInv
  BY DEF Init, AddressInv

LEMMA AddressInvNext ==
  ASSUME RoomInv, AddressInv, [Next]_vars
  PROVE  AddressInv'
  <1>. USE DEF AddressInv, RoomInv, MessageTypeOK
  <1>1. CASE UNCHANGED to /\ \A m \in Messages : send[m] = "none" => send'[m] = "none"
    BY <1>1
  <1>2. ASSUME NEW m \in Messages, SendStep(m) PROVE AddressInv'
    <2>1. ASSUME NEW talk \in Talks[m], FindRoom(m, talk) PROVE AddressInv'
      <3>1. talk \in Users \X Users
        BY ChatAssumption
      <3>2. to' = [to EXCEPT ![m] = talk[2]]
            /\ \A n \in Messages : n # m => send'[n] = send[n]
        BY <2>1 DEF FindRoom
      <3>. QED BY <3>1, <3>2
    <2>2. CASE UNCHANGED to /\ send[m] # "none" /\ \A n \in Messages : n # m => send'[n] = send[n]
      BY <2>2
    <2>. QED BY <1>2, <2>1, <2>2 DEF SendStep, MakeRoom, Store, CheckReceiver, MarkDelivered,
                                     SetLast, FailSend, InProgress
  <1>3. ASSUME NEW s \in Sockets, SocketStep(s)
        PROVE  UNCHANGED to /\ \A m \in Messages : send[m] = "none" => send'[m] = "none"
    BY <1>3 DEF SocketStep, Connect, StatusOn, Flush, Drop, StatusOff, Reject, InProgress,
                messageVars
  <1>4. ASSUME NEW u \in Users, UserStep(u) PROVE UNCHANGED <<to, send>>
    BY <1>4 DEF UserStep, MarkRoomRead, MarkOneRead, TidyRead, TidyWrite, messageVars
  <1>5. CASE Restart \/ UNCHANGED vars
    BY <1>5 DEF Restart, vars, messageVars
  <1>. QED BY <1>1, <1>2, <1>3, <1>4, <1>5 DEF Next

LEMMA DeliveryInvInit == Init => DeliveryInv
  BY DEF Init, DeliveryInv

LEMMA DeliveryInvNext ==
  ASSUME RoomInv, AddressInv, PresenceInv, DeliveryInv, [Next]_vars
  PROVE  DeliveryInv'
  <1>0. /\ MessageTypeOK /\ PresenceTypeOK
    BY DEF RoomInv, PresenceInv
  <1>. USE <1>0 DEF MessageTypeOK, PresenceTypeOK
  <1>1. CASE UNCHANGED <<to, send, status, presence, join>>
    BY <1>1 DEF DeliveryInv, Joining
  <1>2. ASSUME NEW m \in Messages, SendStep(m) PROVE DeliveryInv'
    <2>1. /\ UNCHANGED <<presence, join>>
          /\ send[m] # "none" => UNCHANGED to
          /\ \A n \in Messages : n # m => to'[n] = to[n] /\ send'[n] = send[n]
                                          /\ status'[n] = status[n]
      BY <1>2 DEF SendStep, FindRoom, MakeRoom, Store, CheckReceiver, MarkDelivered, SetLast,
                  FailSend, presenceVars
    <2>2. \A u : Joining(u)' <=> Joining(u)
      BY <2>1 DEF Joining
    <2>3. send'[m] \in {"last", "done"} =>
            /\ to'[m] = to[m]
            /\ \/ status'[m] = "DELIVERED" \/ ~presence[to[m]]
               \/ send[m] = "last" /\ status'[m] = status[m]
      <3>1. send'[m] \notin {"last", "done"} \/ CheckReceiver(m) \/ MarkDelivered(m) \/ SetLast(m)
        BY <1>2 DEF SendStep, FindRoom, MakeRoom, Store, FailSend
      <3>. QED BY <3>1 DEF CheckReceiver, MarkDelivered, SetLast
    <2>. QED BY <2>1, <2>2, <2>3 DEF DeliveryInv
  <1>3. ASSUME NEW s \in Sockets, Flush(s) PROVE DeliveryInv'
    <2>1. /\ UNCHANGED <<to, send, presence>> /\ join' = [join EXCEPT ![s] = "idle"]
          /\ status' = [m \in Messages |-> IF to[m] = Owner[s] /\ status[m] = "SENT"
                                            THEN "DELIVERED" ELSE status[m]]
      BY <1>3 DEF Flush
    <2>2. \A u : u # Owner[s] => (Joining(u)' <=> Joining(u))
      BY <2>1 DEF Joining
    <2>3. \A m \in Messages : to[m] = Owner[s] => status'[m] # "SENT"
      BY <2>1
    <2>4. \A m \in Messages : to[m] # Owner[s] => status'[m] = status[m]
      BY <2>1
    <2>. QED BY <2>1, <2>2, <2>3, <2>4 DEF DeliveryInv
  <1>4. ASSUME NEW s \in Sockets, Connect(s) \/ StatusOn(s) PROVE DeliveryInv'
    <2>1. /\ UNCHANGED <<to, send, status>>
          /\ join' \in {[join EXCEPT ![s] = "status"], [join EXCEPT ![s] = "flush"]}
          /\ \A u \in Users : u # Owner[s] => presence'[u] = presence[u]
          /\ presence' \in {presence, [presence EXCEPT ![Owner[s]] = TRUE]}
      BY <1>4 DEF Connect, StatusOn, messageVars
    <2>2. Joining(Owner[s])' /\ \A u : Joining(u) => Joining(u)'
      BY <2>1 DEF Joining
    <2>. QED BY <2>1, <2>2 DEF DeliveryInv, AddressInv
  <1>5. ASSUME NEW s \in Sockets, StatusOff(s) PROVE DeliveryInv'
    <2>1. /\ UNCHANGED <<to, send, status, join>>
          /\ presence' = [presence EXCEPT ![Owner[s]] = FALSE] /\ Owner[s] \in Users
      BY <1>5, ChatAssumption DEF StatusOff, messageVars
    <2>2. \A u \in Users : presence'[u] => presence[u]
      BY <2>1
    <2>3. \A u : Joining(u)' <=> Joining(u)
      BY <2>1 DEF Joining
    <2>. QED BY <2>1, <2>2, <2>3 DEF DeliveryInv, AddressInv
  <1>6. ASSUME NEW s \in Sockets, Reject(s) PROVE DeliveryInv'
    <2>1. /\ UNCHANGED <<presence, to, status>>
          /\ \A t \in Sockets : join'[t] = "idle" <=> join[t] = "idle"
          /\ \A m \in Messages : send'[m] = send[m] \/ send'[m] = "cut"
      BY <1>6 DEF Reject
    <2>2. \A u : Joining(u)' <=> Joining(u)
      BY <2>1 DEF Joining
    <2>. QED BY <2>1, <2>2 DEF DeliveryInv
  <1>7. ASSUME NEW s \in Sockets, Drop(s) PROVE DeliveryInv'
    BY <1>1, <1>7 DEF Drop, messageVars
  <1>8. ASSUME NEW u \in Users, UserStep(u) PROVE DeliveryInv'
    <2>1. /\ UNCHANGED <<to, send, presence, join>>
          /\ \A m \in Messages : status'[m] = status[m] \/ status'[m] = "READ"
      BY <1>8 DEF UserStep, MarkRoomRead, MarkOneRead, TidyRead, TidyWrite, presenceVars,
                  messageVars
    <2>2. \A v : Joining(v)' <=> Joining(v)
      BY <2>1 DEF Joining
    <2>. QED BY <2>1, <2>2 DEF DeliveryInv
  <1>9. CASE Restart \/ UNCHANGED vars
    BY <1>1, <1>9 DEF Restart, vars, presenceVars, messageVars
  <1>. QED BY <1>2, <1>3, <1>4, <1>5, <1>6, <1>7, <1>8, <1>9 DEF Next, SocketStep

\* Nothing waits for a user who is shown online (chat.service.ts: createMessage
\* stores before it looks, handleConnection shows before it delivers).
THEOREM NothingIsLeftSent == Spec => []NoneLeftSent
  <1>1. DeliveryInv => NoneLeftSent
    BY DEF DeliveryInv, NoneLeftSent, Joining, JoinPending, SocketsOf
  <1>. QED BY <1>1, RoomInvInit, RoomInvNext, AddressInvInit, AddressInvNext,
              PresenceInvInit, PresenceInvNext, DeliveryInvInit, DeliveryInvNext, PTL DEF Spec

-------------------------------------------------------------------------------
(* Archived rooms *)

\* NewList of a list: with u, or without.
Tidied(list, u, kind) == IF kind = "archive" THEN list \cup {u} ELSE list \ {u}

\* An archive request of a room not crossed writes what it was asked.
ArchiveInv ==
    /\ ArchiveTypeOK
    /\ \A r \in Messages \ crossed : archived[r] = asked[r]
    /\ \A u \in Users : tidy[u] # Idle /\ tidy[u].room \notin crossed =>
          tidy[u].list = Tidied(archived[tidy[u].room], u, tidy[u].kind)

LEMMA ArchiveInvInit == Init => ArchiveInv
  BY DEF Init, ArchiveInv, ArchiveTypeOK, Requests

LEMMA TidyReadKeeps ==
  ASSUME ArchiveInv, NEW u \in Users, NEW r \in Messages, NEW kind \in {"archive", "unarchive"},
         TidyRead(u, r, kind)
  PROVE  ArchiveInv'
  <1>. DEFINE new == [kind |-> kind, room |-> r, list |-> NewList(u, r, kind)]
  <1>1. /\ tidy' = [tidy EXCEPT ![u] = new] /\ UNCHANGED <<archived, asked, crossed>>
        /\ ArchiveTypeOK
    BY DEF TidyRead, ArchiveInv
  <1>2. NewList(u, r, kind) \subseteq Users
    BY <1>1 DEF NewList, ArchiveTypeOK
  <1>3. new \in Requests /\ new.room = r /\ new.kind = kind /\ new.list = NewList(u, r, kind)
    BY <1>2 DEF Requests
  <1>. HIDE DEF new
  <1>4. /\ tidy'[u] = new /\ \A v \in Users : v # u => tidy'[v] = tidy[v]
        /\ ArchiveTypeOK'
    BY <1>1, <1>3 DEF ArchiveTypeOK
  <1>5. new.list = Tidied(archived[r], u, kind)
    BY <1>3 DEF NewList, Tidied
  <1>6. ASSUME NEW v \in Users, tidy'[v] # Idle, tidy'[v].room \notin crossed'
        PROVE  tidy'[v].list = Tidied(archived'[tidy'[v].room], v, tidy'[v].kind)
    <2>1. CASE v = u
      BY <1>1, <1>3, <1>4, <1>5, <2>1
    <2>2. CASE v # u
      BY <1>1, <1>4, <1>6, <2>2 DEF ArchiveInv
    <2>. QED BY <2>1, <2>2
  <1>. QED BY <1>1, <1>4, <1>6 DEF ArchiveInv

LEMMA TidyWriteKeeps ==
  ASSUME ArchiveInv, NEW u \in Users, TidyWrite(u)
  PROVE  ArchiveInv'
  <1>. DEFINE r == tidy[u].room
              lapped == \E v \in Users \ {u} : tidy[v] # Idle /\ tidy[v].room = r
  <1>1. /\ tidy[u] \in [kind: {"archive", "unarchive"}, room: Messages, list: SUBSET Users]
        /\ ArchiveTypeOK
    BY DEF TidyWrite, ArchiveInv, ArchiveTypeOK, Requests
  <1>2. r \in Messages /\ tidy[u].list \subseteq Users /\ tidy[u] # Idle
    BY <1>1 DEF TidyWrite
  <1>3. /\ archived' = [archived EXCEPT ![r] = tidy[u].list]
        /\ crossed' = IF lapped THEN crossed \cup {r} ELSE crossed
        /\ asked' = [asked EXCEPT ![r] =
              IF r \in crossed' THEN {}
              ELSE IF tidy[u].kind = "archive" THEN asked[r] \cup {u} ELSE asked[r] \ {u}]
        /\ tidy' = [tidy EXCEPT ![u] = Idle]
    BY DEF TidyWrite
  <1>4. /\ archived' \in [Messages -> SUBSET Users] /\ asked' \in [Messages -> SUBSET Users]
        /\ crossed' \subseteq Messages
    BY <1>1, <1>2, <1>3 DEF ArchiveTypeOK
  <1>5. tidy' \in [Users -> Requests]
    BY <1>1, <1>3 DEF ArchiveTypeOK, Requests
  <1>6. r \notin crossed' => /\ tidy[u].list = Tidied(archived[r], u, tidy[u].kind)
                             /\ archived[r] = asked[r]
    BY <1>2, <1>3 DEF ArchiveInv
  <1>. HIDE DEF lapped
  <1>7. r \notin crossed' => archived'[r] = asked'[r]
    BY <1>1, <1>2, <1>3, <1>6 DEF Tidied, ArchiveTypeOK
  <1>8. /\ \A x \in Messages : x # r => archived'[x] = archived[x] /\ asked'[x] = asked[x]
        /\ \A x \in Messages \ crossed' : x \notin crossed
    BY <1>1, <1>2, <1>3 DEF ArchiveTypeOK
  <1>9. \A x \in Messages \ crossed' : archived'[x] = asked'[x]
    BY <1>7, <1>8 DEF ArchiveInv
  <1>10. ASSUME NEW v \in Users, tidy'[v] # Idle, tidy'[v].room \notin crossed'
         PROVE  tidy'[v].list = Tidied(archived'[tidy'[v].room], v, tidy'[v].kind)
    <2>1. v # u /\ tidy'[v] = tidy[v] /\ tidy[v] # Idle
      BY <1>1, <1>3, <1>10 DEF ArchiveTypeOK
    <2>2. tidy[v].room \in Messages
      BY <1>1, <2>1 DEF ArchiveTypeOK, Requests
    <2>3. tidy[v].room # r
      BY <1>2, <1>3, <1>10, <2>1 DEF lapped
    <2>4. tidy[v].list = Tidied(archived[tidy[v].room], v, tidy[v].kind)
      BY <1>3, <1>8, <1>10, <2>1, <2>2 DEF ArchiveInv
    <2>. QED BY <1>8, <2>1, <2>2, <2>3, <2>4
  <1>. QED BY <1>4, <1>5, <1>9, <1>10 DEF ArchiveInv, ArchiveTypeOK

LEMMA ArchiveInvNext ==
  ASSUME ArchiveInv, [Next]_vars
  PROVE  ArchiveInv'
  <1>1. CASE UNCHANGED archiveVars
    BY <1>1 DEF archiveVars, ArchiveInv, ArchiveTypeOK
  <1>2. ASSUME NEW s \in Sockets, Reject(s) PROVE ArchiveInv'
    <2>1. /\ tidy' = [u \in Users |-> Idle] /\ UNCHANGED <<archived, asked, crossed>>
      BY <1>2 DEF Reject
    <2>. QED BY <2>1 DEF ArchiveInv, ArchiveTypeOK, Requests
  <1>3. ASSUME NEW u \in Users, UserStep(u) PROVE ArchiveInv'
    BY <1>1, <1>3, TidyReadKeeps, TidyWriteKeeps DEF UserStep, MarkRoomRead, MarkOneRead
  <1>4. \/ UNCHANGED archiveVars \/ (\E s \in Sockets : Reject(s))
        \/ \E u \in Users : UserStep(u)
    BY DEF Next, vars, SocketStep, Connect, StatusOn, Flush, Drop, StatusOff, SendStep, FindRoom,
           MakeRoom, Store, CheckReceiver, MarkDelivered, SetLast, FailSend, Restart
  <1>. QED BY <1>1, <1>2, <1>3, <1>4

\* As long as the archive requests of a room do not overlap, nobody's is lost
\* (chat.service.ts, archiveChatByChat and archiveMultipleRooms).
THEOREM ArchivesAreAsAsked == Spec => []ArchivedAsAsked
  <1>1. ArchiveInv /\ RoomInv => ArchivedAsAsked
    BY DEF ArchiveInv, RoomInv, MessageTypeOK, ArchivedAsAsked
  <1>. QED BY <1>1, ArchiveInvInit, ArchiveInvNext, RoomInvInit, RoomInvNext, PTL DEF Spec

\* Every variable keeps its type.
THEOREM ChatTypeCorrect == Spec => []TypeOK
  <1>1. RoomInv /\ PresenceInv /\ ArchiveInv => TypeOK
    BY DEF RoomInv, MessageTypeOK, PresenceInv, PresenceTypeOK, ArchiveInv, ArchiveTypeOK, TypeOK
  <1>. QED BY <1>1, RoomInvInit, RoomInvNext, PresenceInvInit, PresenceInvNext,
              ArchiveInvInit, ArchiveInvNext, PTL DEF Spec

===============================================================================
