\* Small instances of every component; see README.md on the bounds.
CONSTANTS
    Publishers = {p1, p2}
    PublishAttempts = 2
    FailureThreshold = 3
    SuccessThreshold = 2
    Requesters = {r1}
    Guessers = {g1, g2}
    MaxRequests = 1
    OtpAttempts = 2
    Readers = {d1, d2}
    Writers = {w1}
    MaxWrites = 1
    BankAccounts = {a1, a2}
    Tokens = {t1, t2}
    LinkRequests = {q1, q2}
    MaxTries = 2
    Callers = {c1, c2}
    Nobody = Nobody
    Phones = {h1, h2}
    MaxSessions = 2
    NoDevice = NoDevice
    Owners = {o1}
    PartnerUsers = {u1, u2}
    Visits = {v1, v2}
    Codes = {k1, k2}
    NoCode = NoCode
    HttpRequests = {"first", "again", "untidy", "foreign"}
    HeaderKey <- OneKey
    Whose <- TwoUsers
    Body <- AsSent
    Parsed <- Trimmed
    NoRecord = NoRecord
    Sockets = {n1, n2}
    NoSocket = NoSocket
    ReconnectAttempts = 2
    MaxFetches = 1
    MaxTimers = 2
SPECIFICATION FairSpec
INVARIANTS
    TypeOK
    LockHolds
    HasDefault
    PendingKycHasPin
    DisclosedWasLinked
    ReplaysOwnSuccess
    NeverForgotten
    NoSessionLost
PROPERTIES
    PublishKeepsPromise
    BreakerRecovers
    LimitsLift
    CachesCatchUp
CHECK_DEADLOCK FALSE
