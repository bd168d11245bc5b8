\* Two members, one sub task, starts of the same work apart, with failures.
SPECIFICATION ApartSpec
CONSTANTS
    t1 = t1  t2 = t2  m1 = m1  m2 = m2  h1 = h1  h2 = h2
    Tasks = {t1}
    Members = {m1, m2}
    Handlers = {h1, h2}
    MaxSubmissions = 2
    Faults = {"fail"}
INVARIANT OneTrackerPerClaim
PROPERTY ImplementsClaimLife
SYMMETRY Alike
