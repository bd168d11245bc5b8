\* Two transfers with right and wrong PINs at once, a gift, a withdrawal and
\* the verification of a card payment; any of them may be cut off.
SPECIFICATION Spec
CONSTANTS
    p = p  q = q  t1 = t1  t2 = t2  g1 = g1  w1 = w1  v1 = v1  brand = brand  member = member
    Guarded = {t1, t2}
    Pins = {p, q}
    NoPin = NoPin
    PinTries = 3
    Gifts = {g1}
    Withdrawals = {w1}
    Verifies = {v1}
    Wallets = {brand, member}
    WalletOf <- Payers
    ReceiverOf <- Receivers
INVARIANTS GuessesBounded LockIsEarned DebitIsCovered CardIsCharged PaymentIsEntered
\* Requests are sent once each: when all have ended the system stops.
CHECK_DEADLOCK FALSE
