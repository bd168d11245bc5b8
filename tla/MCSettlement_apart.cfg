\* Two brands and two handlers that may review any submission; one member has no
\* wallet entry in the reward currency.  Requests that concern different
\* campaigns, submissions or wallets overlap.  This is ApartSpec, written as Spec
\* under its action constraint, so that TLC tells its actions apart.
SPECIFICATION Spec
ACTION_CONSTRAINT StaysApart
CONSTANTS
    b1 = b1  b2 = b2  m1 = m1  m2 = m2  c1 = c1  c2 = c2
    t1 = t1  t2 = t2  h1 = h1  h2 = h2
    Brands = {b1, b2}
    Members = {m1}
    Campaigns = {c1, c2}
    SubTasks = {t1, t2}
    Handlers = {h1, h2}
    Owner <- TwoBrands
    CampaignOf <- TwoTasks
    NoBalance = {}
    InitialBalance <- Balances
    Amounts = {10, 40}
    Rewards = {5, 11}
    TopUps <- BothTopUps
    MaxAmount = 20
    MaxEntries = 1
    Faults = {"fail", "lose"}
INVARIANTS PaidAtMostOnce WalletSolvent
PROPERTIES PaidFromFunds ReviewIsFinal ImplementsEscrow
