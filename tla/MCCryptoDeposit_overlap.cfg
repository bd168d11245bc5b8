\* One invoice with two notices handled at a time, faults that do not go on for ever.
SPECIFICATION FairSpec
CONSTANTS
    u1 = u1  u2 = u2  i1 = i1  i2 = i2  h1 = h1  h2 = h2
    Users = {u1}
    Invoices = {i1}
    Payer <- OneInvoice
    Handlers = {h1, h2}
    Part = 3
    Full = 7
    Amounts = {3, 7}
    Faults = {"fail", "retry"}
INVARIANTS FlaggedIsCredited CreditedOncePerRequest
PROPERTIES FinishedIsCredited
