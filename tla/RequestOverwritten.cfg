\* One payment request, paid and cancelled at once.
CONSTANTS
    u1 = u1   u2 = u2   t1 = t1   t2 = t2   r1 = r1   w1 = w1
    k1 = k1   k2 = k2   s1 = s1   s2 = s2
    Nothing = Nothing
    Users = {u1, u2}
    CanSend = {u1, u2}
    CanReceive = {u1, u2}
    Transfers = {}
    Requests = {r1}
    Withdrawals = {}
    From <- Payers
    To <- Payees
    Amount <- Paise
    Opening <- OneEach
    Keys = {}
    Sessions = {s1, s2}
    MaxTopups = 0
SPECIFICATION Spec
INVARIANTS
    PaidStaysApproved
CHECK_DEADLOCK FALSE
