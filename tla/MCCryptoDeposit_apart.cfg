\* Two invoices, the notices of each handled one at a time.
SPECIFICATION ApartSpec
CONSTANTS
    u1 = u1  u2 = u2  i1 = i1  i2 = i2  h1 = h1  h2 = h2
    Users = {u1, u2}
    Invoices = {i1, i2}
    Payer <- OnePayer
    Handlers = {h1, h2}
    Part = 7
    Full = 7
    Amounts <- SomeAmounts
    Faults = {"fail", "retry"}
INVARIANTS CreditedAtMostOnce OneEntryPerInvoice
PROPERTIES ImplementsDeposit
SYMMETRY Alike
