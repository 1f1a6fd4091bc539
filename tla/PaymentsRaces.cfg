\* A transfer, a request and a withdrawal that compete for the same paise.
CONSTANTS
    u1 = u1   u2 = u2   t1 = t1   t2 = t2   r1 = r1   w1 = w1
    k1 = k1   k2 = k2   s1 = s1   s2 = s2
    Nothing = Nothing
    Users = {u1, u2}
    CanSend = {u1, u2}
    CanReceive = {u1, u2}
    Transfers = {t1, t2}
    Requests = {r1}
    Withdrawals = {w1}
    From <- Payers
    To <- Payees
    Amount <- Paise
    Opening <- OneEach
    Keys = {k1, k2}
    Sessions = {s1, s2}
    MaxTopups = 1
SPECIFICATION Spec
SYMMETRY Interchangeable
INVARIANTS
    TypeOK
    NoOverdraft
    WalletMatchesLedger
    Conserved
    MovedOnce
PROPERTIES
    PaymentsAreAtomic
    ShownBalanceHolds
CHECK_DEADLOCK FALSE
