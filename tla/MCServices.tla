----------------------------- MODULE MCServices -----------------------------
(***************************************************************************)
(* The components that move no money, checked side by side: a behaviour is *)
(* one of the component that "focus" names, while the others rest in their *)
(* initial states.  They share no state, so that nothing is lost.          *)
(***************************************************************************)
EXTENDS Integers, Sequences, FiniteSets

CONSTANTS
    Publishers, PublishAttempts, FailureThreshold, SuccessThreshold,
    Requesters, Guessers, MaxRequests, OtpAttempts,      \* Otp
    Readers, Writers, MaxWrites,                         \* ReadCache
    BankAccounts, Tokens, LinkRequests, MaxTries,        \* BankLink
    Callers, Nobody,                                     \* Accounts
    Phones, MaxSessions, NoDevice,                        \* Sessions
    PartnerUsers, Owners, Visits, Codes, NoCode,
    HttpRequests, HeaderKey, Whose, Body, Parsed, NoRecord,   \* Idempotency
    Sockets, NoSocket, ReconnectAttempts, MaxFetches, MaxTimers

\* A session for every user of the partner with every owner's address.
Onboardings == PartnerUsers \X Owners
ForUser == [o \in Onboardings |-> o[1]]
Email == [o \in Onboardings |-> o[2]]

\* All requests carry one key: two are alike, one has blanks that validate trims,
\* and one is another user's.
OneKey == [r \in HttpRequests |-> "key"]
TwoUsers == [r \in HttpRequests |-> IF r = "foreign" THEN "they" ELSE "I"]
AsSent == [r \in HttpRequests |-> IF r = "untidy" THEN " rent " ELSE "rent"]
Trimmed == [b \in {" rent ", "rent"} |-> "rent"]

\* One request at a time from each device.
DeviceOf == [c \in Phones |-> c]

VARIABLES
    focus,
    circuit, failures, successes, resetDue, broker, channel,
    stage, attempt, handed, outcome,
    requests, requestsTtl, attempts, attemptsTtl, locked, spamLocked, cooldown,
    code, asking, guessing,
    version, cached, reading, dropping,
    drawn, session, links, request,
    hasPin, wallet, kyc, active, codes, paused, userRow, op,
    onboarding, overdue, usable, partnerLinks, visit, drawnCodes, everLinked, disclosed,
    record, serving, storing, answer,
    auth, fetching, state, outdated, ws, token, reconnectAttempts, timers,
    registered, excused,
    issuedTo, fresh, refresh, listed, revoked, doing, raced

Publisher == INSTANCE Publisher WITH Calls <- Publishers, MaxAttempts <- PublishAttempts
Otp == INSTANCE Otp WITH MaxAttempts <- OtpAttempts
ReadCache == INSTANCE ReadCache
BankLink == INSTANCE BankLink WITH Accounts <- BankAccounts, Requests <- LinkRequests
Accounts == INSTANCE Accounts
Connect == INSTANCE Connect WITH Sessions <- Onboardings
Sessions == INSTANCE Sessions WITH Clients <- Phones
Idempotency == INSTANCE Idempotency WITH Requests <- HttpRequests
Realtime == INSTANCE Realtime WITH MaxAttempts <- ReconnectAttempts

ASSUME ServicesAssumption ==
    /\ Publisher!PublisherAssumption /\ Otp!OtpAssumption /\ ReadCache!CacheAssumption
    /\ BankLink!LinkAssumption /\ Accounts!AccountsAssumption
    /\ Connect!ConnectAssumption /\ Idempotency!IdempotencyAssumption
    /\ Realtime!RealtimeAssumption /\ Sessions!SessionsAssumption
-----------------------------------------------------------------------------
publishing ==
    <<circuit, failures, successes, resetDue, broker, channel, stage, attempt,
      handed, outcome>>
otp ==
    <<requests, requestsTtl, attempts, attemptsTtl, locked, spamLocked, cooldown,
      code, asking, guessing>>
caches == <<version, cached, reading, dropping>>
linking == <<drawn, session, links, request>>
account == <<hasPin, wallet, kyc, active, codes, paused, userRow, op>>
connecting ==
    <<onboarding, overdue, usable, partnerLinks, visit, drawnCodes, everLinked, disclosed>>
idempotency == <<record, serving, storing, answer>>
realtime ==
    <<auth, fetching, state, outdated, ws, token, reconnectAttempts, timers,
      registered, excused>>
signedIn == <<issuedTo, fresh, refresh, listed, revoked, raced, doing>>

vars == <<focus, publishing, otp, caches, linking, account, connecting,
          idempotency, realtime, signedIn>>

Init ==
    /\ focus \in {"publishing", "otp", "caches", "linking", "account",
                  "connecting", "idempotency", "realtime", "signedIn"}
    /\ Publisher!Init /\ Otp!Init /\ ReadCache!Init /\ BankLink!Init
    /\ Accounts!Init /\ Connect!Init /\ Idempotency!Init /\ Realtime!Init
    /\ Sessions!Init

Next ==
    /\ UNCHANGED focus
    /\ \/ focus = "publishing" /\ Publisher!Next
       \/ focus # "publishing" /\ UNCHANGED publishing
    /\ \/ focus = "otp" /\ Otp!Next
       \/ focus # "otp" /\ UNCHANGED otp
    /\ \/ focus = "caches" /\ ReadCache!Next
       \/ focus # "caches" /\ UNCHANGED caches
    /\ \/ focus = "linking" /\ BankLink!Next
       \/ focus # "linking" /\ UNCHANGED linking
    /\ \/ focus = "account" /\ Accounts!Next
       \/ focus # "account" /\ UNCHANGED account
    /\ \/ focus = "connecting" /\ Connect!Next
       \/ focus # "connecting" /\ UNCHANGED connecting
    /\ \/ focus = "idempotency" /\ Idempotency!Next
       \/ focus # "idempotency" /\ UNCHANGED idempotency
    /\ \/ focus = "realtime" /\ Realtime!Next
       \/ focus # "realtime" /\ UNCHANGED realtime
    /\ \/ focus = "signedIn" /\ Sessions!Next
       \/ focus # "signedIn" /\ UNCHANGED signedIn

Spec == Init /\ [][Next]_vars

\* The fairness each component states for itself.
FairSpec ==
    /\ Spec
    /\ \A p \in Publishers :
          /\ WF_publishing(focus = "publishing" /\ Publisher!Call(p))
          /\ WF_publishing(focus = "publishing" /\ Publisher!CallStep(p))
    /\ WF_publishing(focus = "publishing" /\ Publisher!LinkStep)
    /\ WF_publishing(focus = "publishing" /\ Publisher!ResetTimeout)
    /\ \A r \in Requesters : WF_otp(focus = "otp" /\ Otp!AskStep(r))
    /\ \A g \in Guessers : WF_otp(focus = "otp" /\ Otp!GuessStep(g))
    /\ WF_otp(focus = "otp" /\ Otp!RequestsExpire)
    /\ WF_otp(focus = "otp" /\ Otp!AttemptsExpire)
    /\ WF_otp(focus = "otp" /\ Otp!LockExpires)
    /\ WF_otp(focus = "otp" /\ Otp!SpamLockExpires)
    /\ \A w \in Writers : WF_caches(focus = "caches" /\ ReadCache!DropStep(w))
    /\ \A r \in Readers : WF_caches(focus = "caches" /\ ReadCache!ReadStep(r))
    /\ \A k \in {"balance", "analytics", "dashboard"} :
          WF_caches(focus = "caches" /\ ReadCache!Expire(k))
-----------------------------------------------------------------------------
TypeOK ==
    /\ Publisher!TypeOK /\ Otp!TypeOK /\ ReadCache!TypeOK
    /\ BankLink!TypeOK /\ Accounts!TypeOK /\ Connect!TypeOK /\ Idempotency!TypeOK
    /\ Realtime!TypeOK /\ Sessions!TypeOK

\* The properties of the components, stated and explained in their modules.
PublishKeepsPromise == Publisher!PublishKeepsPromise
BreakerRecovers == Publisher!BreakerRecovers
LockHolds == Otp!LockHolds
LimitsLift == Otp!LimitsLift
CachesCatchUp == ReadCache!CachesCatchUp
HasDefault == BankLink!HasDefault
PendingKycHasPin == Accounts!PendingKycHasPin
DisclosedWasLinked == Connect!DisclosedWasLinked
ReplaysOwnSuccess == Idempotency!ReplaysOwnSuccess
NeverForgotten == Realtime!NeverForgotten
NoSessionLost == Sessions!NoSessionLost
=============================================================================
