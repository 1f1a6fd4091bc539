\* One hold, captured and released at once.
CONSTANTS
    u1 = u1   u2 = u2   t1 = t1   w1 = w1
    h1 = h1   h2 = h2   c1 = c1   s1 = s1   s2 = s2
    Nothing = Nothing
    Users = {u1, u2}
    Transfers = {}
    Requests = {}
    Withdrawals = {}
    From <- Payers
    To <- Payees
    Amount <- Paise
    Opening <- OpeningTwo
    MaxTopups = 0
    Holds = {h1}
    Credits = {}
    Wallet <- TheWallet
    Value <- Values
    Spendable = {u1, u2}
    Sessions = {s1, s2}
SPECIFICATION Spec
PROPERTIES
    CapturesOnlyActive
CHECK_DEADLOCK FALSE
