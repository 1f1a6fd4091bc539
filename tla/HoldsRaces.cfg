\* Two holds that do not fit together, a credit, and a user who spends meanwhile.
CONSTANTS
    u1 = u1   u2 = u2   t1 = t1   w1 = w1
    h1 = h1   h2 = h2   c1 = c1   s1 = s1   s2 = s2
    Nothing = Nothing
    Users = {u1, u2}
    Transfers = {t1}
    Requests = {}
    Withdrawals = {w1}
    From <- Payers
    To <- Payees
    Amount <- Paise
    Opening <- OpeningTwo
    MaxTopups = 1
    Holds = {h1, h2}
    Credits = {c1}
    Wallet <- TheWallet
    Value <- Values
    Spendable = {u1, u2}
    Sessions = {s1, s2}
SPECIFICATION Spec
SYMMETRY Interchangeable
INVARIANTS
    TypeOK
    NoOverdraft
    CreditedOnce
    NeverHeldTwice
PROPERTIES
    NeverReopened
CHECK_DEADLOCK FALSE
