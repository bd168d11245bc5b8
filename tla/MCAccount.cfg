\* A user registered or come by OAuth: two sessions with refreshes and logouts,
\* two reset tokens, two resets with one of them or with none, a change of password, deactivation;
\* writes fail and the process restarts.
SPECIFICATION Spec
CONSTANTS
    l1 = l1  l2 = l2  f1 = f1  f2 = f2  q1 = q1  q2 = q2  c1 = c1
    Sessions = {l1, l2}
    Forgots = {f1, f2}
    Resets = {q1, q2}
    Changes = {c1}
    None = None  Missing = Missing
    Faults = {"fail"}
INVARIANTS EndedStaysEnded ResetOnce StopsOnlyIfContested 
\* A deactivated user can do nothing more, and each request is sent once.
CHECK_DEADLOCK FALSE
