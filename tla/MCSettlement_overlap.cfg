\* One brand, two requests at a time, failures and retries, nothing lost; one
\* member has no wallet entry in the reward currency.
SPECIFICATION FairSpec
CONSTANTS
    b1 = b1  b2 = b2  m1 = m1  m2 = m2  c1 = c1  c2 = c2
    t1 = t1  t2 = t2  h1 = h1  h2 = h2
    Brands = {b1}
    Members = {m1, m2}
    Campaigns = {c1, c2}
    SubTasks = {t1}
    Handlers = {h1, h2}
    Owner <- OneBrand
    CampaignOf <- OneTask
    NoBalance = {m2}
    InitialBalance <- Balances
    Amounts = {10}
    Rewards = {5}
    TopUps <- NoTopUps
    MaxAmount = 13
    MaxEntries = 2
    Faults = {"fail", "retry"}
INVARIANTS MoneyConserved PaidIsReviewed PaidOncePerRequest
PROPERTIES LedgerCatchesUp
