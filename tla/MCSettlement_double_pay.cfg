\* The code violates this: see findings in PROJECT.json.
SPECIFICATION Spec
CONSTANTS
    b1 = b1  b2 = b2  m1 = m1  m2 = m2  c1 = c1  c2 = c2
    t1 = t1  t2 = t2  h1 = h1  h2 = h2
    Brands = {b1}
    Members = {m1}
    Campaigns = {c1, c2}
    SubTasks = {t1, t2}
    Handlers = {h1, h2}
    Owner <- OneBrand
    CampaignOf <- TwoTasks
    NoBalance = {}
    InitialBalance <- Balances
    Amounts = {10}
    Rewards = {5, 6}
    TopUps <- NoTopUps
    MaxAmount = 13
    MaxEntries = 2
    Faults = {}
INVARIANTS PaidOnce
