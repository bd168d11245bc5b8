\* A user who chooses a type twice, follows two lists of brands, subscribes and
\* leaves, in any order and at once; calls fail and the brand process restarts.
SPECIFICATION Spec
CONSTANTS
    u1 = u1  b1 = b1  b2 = b2  p1 = p1  p2 = p2  j1 = j1  j2 = j2  f1 = f1  f2 = f2
    Users = {u1}
    Brands = {b1, b2}
    Picks = {p1, p2}
    Joins = {j1, j2}
    Follows = {f1, f2}
    BrandsOf <- Lists
    None = None
    Faults = {"fail"}
INVARIANTS BusinessHasBrand SubscribedAsAsked
\* Each request is sent once: when all have ended the system stops.
CHECK_DEADLOCK FALSE
