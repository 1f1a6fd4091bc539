\* The wallet-reconciliation job against duplicated success events.
CONSTANTS
    u1 = u1   a1 = a1   o1 = o1   o2 = o2
    s1 = s1   s2 = s2   s3 = s3
    m1 = m1   m2 = m2   m3 = m3
    NoOrder = NoOrder
    Users = {u1}
    Accounts = {a1}
    Orders = {o1}
    Sessions = {s1}
    Msgs = {m1, m2}
    Frozen = {}
    Owner <- OneOwner
    Source <- OneSource
    Amount <- UnitAmounts
    OpeningFunds <- FundsForOne
    MaxOtpAttempts = 1
    MaxRetries = 1
    MaxCopies = 2
    Faults = {}
SPECIFICATION Spec
INVARIANTS
    WalletMatchesLedger
CHECK_DEADLOCK FALSE
