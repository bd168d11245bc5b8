\* Arrivals with one e-mail at once or one after the other; calls fail, users
\* are deactivated and verified.
SPECIFICATION Spec
CONSTANTS
    s1 = s1  s2 = s2  o1 = o1  o2 = o2  e1 = e1  e2 = e2  n1 = n1  n2 = n2  x1 = x1
    Signups = {s1, s2}
    OAuths = {o1, o2}
    Emails = {e1, e2}
    EmailOf <- EmailsOf
    NameOf <- NamesOf
    Asking = {s2}
    Resends = {x1}
    None = None
    Faults = {"fail"}
INVARIANTS OneUserPerEmail  VerifiedByMail
\* Each request is sent once: when all have ended the system stops.
CHECK_DEADLOCK FALSE
