\* Overlapping requests, a database that does not fail, calls that are settled.
SPECIFICATION FairSpec
CONSTANTS
    t1 = t1  t2 = t2  m1 = m1  m2 = m2  h1 = h1  h2 = h2
    Tasks = {t1, t2}
    Members = {m1}
    Handlers = {h1, h2}
    MaxSubmissions = 2
    Faults = {}
INVARIANTS HandedInIsStored TrackersPerRequest
PROPERTIES StopsOnlyForStray HandedInIsMarked
