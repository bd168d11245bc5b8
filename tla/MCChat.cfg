\* Conversations, one of them with a guest and one of a user with himself; overlapping connects, sends,
\* reads and archive requests; handlers fail and the process restarts.
SPECIFICATION Spec
CONSTANTS
    a = a  b = b  c = c  m1 = m1  m2 = m2  s1 = s1  None = None
    Users = {a, b, c}
    Guests = {c}
    Messages = {m1, m2}
    Talks <- Talking
    Sockets = {s1}
    Owner <- Owners
    Tidies <- Tidying
    Faults = {"fail"}
INVARIANTS NoneLeftSent PresenceIsConnection RoomFits ArchivedAsAsked
PROPERTIES ReadIsFinal
