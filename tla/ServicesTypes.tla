---------------------------- MODULE ServicesTypes ----------------------------
(***************************************************************************)
(* The components that MCServices puts side by side are well typed, each   *)
(* for any number of concurrent requests and any limits, and so is their   *)
(* composition: a step of it is a step of one component, while the others  *)
(* rest.  The inductive invariants of Publisher, Otp, Accounts and Sessions*)
(* say more than their types; ServicesProofs goes on from them.            *)
(***************************************************************************)
EXTENDS MCServices, TLAPS

(***************************************************************************)
(* Publisher.  CopiesInv says why no more copies are handed over than      *)
(* Delivery allows: each attempt hands over at most one, at its very end.  *)
(***************************************************************************)
CopiesInv ==
    \A p \in Publishers :
        /\ handed[p] <= attempt[p]
        /\ stage[p] \in {"attempt", "awaiting"} => handed[p] < attempt[p]
        /\ stage[p] = "backoff" => attempt[p] < PublishAttempts

PubInv == Publisher!TypeOK /\ CopiesInv

\* The invariant holds before anything was published.
LEMMA PublisherInit == Publisher!Init => PubInv
<1> SUFFICES ASSUME Publisher!Init PROVE PubInv
  OBVIOUS
<1>1. Publisher!ResetOK
  BY DEF Publisher!Init, Publisher!ResetOK
<1> QED
  BY <1>1, ServicesAssumption DEF Publisher!PublisherAssumption, Publisher!Init, PubInv,
     Publisher!TypeOK, CopiesInv

\* Whoever moves the breaker on from OPEN, or opens it anew, starts the timeout.
LEMMA ResetStep == Publisher!ResetOK /\ [Publisher!Next]_publishing => Publisher!ResetOK'
<1> SUFFICES ASSUME Publisher!ResetOK, [Publisher!Next]_publishing PROVE Publisher!ResetOK'
  OBVIOUS
<1> USE DEF Publisher!ResetOK
<1>1. ASSUME NEW p \in Publishers, Publisher!Begin(p) PROVE Publisher!ResetOK'
  BY <1>1 DEF Publisher!Begin, Publisher!breaker
<1>2. CASE Publisher!CountSuccess
  BY <1>2 DEF Publisher!CountSuccess
<1>3. CASE Publisher!CountFailure
  BY <1>3 DEF Publisher!CountFailure, Publisher!ToOpen
<1>4. CASE Publisher!ResetTimeout
  BY <1>4 DEF Publisher!ResetTimeout
<1>5. CASE UNCHANGED Publisher!breaker
  BY <1>5 DEF Publisher!breaker
<1>6. ASSUME NEW p \in Publishers, Publisher!Call(p) \/ Publisher!CallStep(p)
      PROVE  \/ Publisher!Begin(p) \/ Publisher!CountSuccess \/ Publisher!CountFailure
             \/ UNCHANGED Publisher!breaker
  BY <1>6 DEF Publisher!Call, Publisher!CallStep, Publisher!Refuse, Publisher!AwaitChannel,
     Publisher!WriteOk, Publisher!WriteFull, Publisher!Retry, Publisher!Wake, Publisher!GiveUp
<1>7. Publisher!LinkStep \/ Publisher!LinkLost \/ UNCHANGED publishing
      \/ (\E b \in {"up", "down", "slow"} : Publisher!BrokerTurns(b)) => UNCHANGED Publisher!breaker
  BY DEF Publisher!LinkStep, Publisher!ChannelOpens, Publisher!ChannelFails, Publisher!LinkLost,
     Publisher!BrokerTurns, publishing, Publisher!breaker
<1> QED
  BY <1>1, <1>2, <1>3, <1>4, <1>5, <1>6, <1>7 DEF Publisher!Next

BreakerOK ==
    /\ circuit \in {"CLOSED", "OPEN", "HALF_OPEN"}
    /\ failures \in Nat /\ successes \in 0 .. SuccessThreshold - 1
    /\ circuit = "CLOSED" => failures < FailureThreshold

\* The breaker's own bookkeeping: a success or a failure, counted in whatever
\* state the breaker has reached meanwhile, leaves it consistent.
LEMMA BreakerCounts ==
  ASSUME BreakerOK, Publisher!CountSuccess \/ Publisher!CountFailure
  PROVE  BreakerOK'
<1>1. CASE Publisher!CountSuccess
  BY <1>1, ServicesAssumption DEF Publisher!PublisherAssumption, BreakerOK, Publisher!CountSuccess
<1>2. CASE Publisher!CountFailure
  BY <1>2, ServicesAssumption DEF Publisher!PublisherAssumption, BreakerOK,
     Publisher!CountFailure, Publisher!ToOpen
<1> QED
  BY <1>1, <1>2

\* What one call does leaves every call consistent, and the breaker with it.
LEMMA CallKeeps ==
  ASSUME PubInv, Publisher!ResetOK', NEW p \in Publishers,
         Publisher!Call(p) \/ Publisher!CallStep(p)
  PROVE  PubInv'
<1> USE ServicesAssumption DEF PubInv, Publisher!TypeOK, CopiesInv, Publisher!PublisherAssumption
<1>1. CASE Publisher!Refuse(p)
  BY <1>1 DEF Publisher!Refuse, Publisher!breaker
<1>2. CASE Publisher!Begin(p)
  BY <1>2 DEF Publisher!Begin, Publisher!breaker
<1>3. CASE Publisher!AwaitChannel(p)
  BY <1>3 DEF Publisher!AwaitChannel, Publisher!breaker
<1>4. CASE Publisher!WriteOk(p)
  <2>1. BreakerOK'
    BY <1>4, BreakerCounts DEF Publisher!WriteOk, BreakerOK
  <2> QED
    BY <1>4, <2>1 DEF Publisher!WriteOk, BreakerOK
<1>5. CASE Publisher!WriteFull(p)
  BY <1>5 DEF Publisher!WriteFull, Publisher!breaker
<1>6. CASE Publisher!Retry(p)
  BY <1>6 DEF Publisher!Retry, Publisher!breaker
<1>7. CASE Publisher!Wake(p)
  BY <1>7 DEF Publisher!Wake, Publisher!breaker
<1>8. CASE Publisher!GiveUp(p)
  <2>1. BreakerOK'
    BY <1>8, BreakerCounts DEF Publisher!GiveUp, BreakerOK
  <2> QED
    BY <1>8, <2>1 DEF Publisher!GiveUp, BreakerOK
<1> QED
  BY <1>1, <1>2, <1>3, <1>4, <1>5, <1>6, <1>7, <1>8 DEF Publisher!Call, Publisher!CallStep

\* The channel, the broker and the clock take no attempt from anyone.
LEMMA LinkKeeps ==
  ASSUME PubInv, Publisher!ResetOK',
         \/ Publisher!LinkStep \/ Publisher!LinkLost \/ Publisher!ResetTimeout
         \/ UNCHANGED publishing
         \/ \E b \in {"up", "down", "slow"} : Publisher!BrokerTurns(b)
  PROVE  PubInv'
<1> USE ServicesAssumption DEF PubInv, Publisher!TypeOK, CopiesInv, Publisher!PublisherAssumption
<1>1. CASE Publisher!ChannelOpens
  BY <1>1 DEF Publisher!ChannelOpens, Publisher!breaker
<1>2. CASE Publisher!ChannelFails
  BY <1>2 DEF Publisher!ChannelFails, Publisher!breaker
<1>3. CASE Publisher!LinkLost \/ Publisher!ResetTimeout
  BY <1>3 DEF Publisher!LinkLost, Publisher!ResetTimeout, Publisher!breaker, Publisher!calls
<1>4. CASE \E b \in {"up", "down", "slow"} : Publisher!BrokerTurns(b)
  BY <1>4 DEF Publisher!BrokerTurns, Publisher!breaker, Publisher!calls
<1>5. CASE UNCHANGED publishing
  BY <1>5 DEF publishing, Publisher!breaker, Publisher!calls
<1> QED
  BY <1>1, <1>2, <1>3, <1>4, <1>5 DEF Publisher!LinkStep

\* The inductive invariant holds in every behaviour.
LEMMA PublisherInvariant == Publisher!Spec => []PubInv
<1>1. PubInv /\ [Publisher!Next]_(Publisher!pubVars) => PubInv'
  <2>1. UNCHANGED Publisher!pubVars => UNCHANGED publishing
    BY DEF publishing, Publisher!pubVars, Publisher!breaker, Publisher!calls
  <2> QED
    BY <2>1, ResetStep, CallKeeps, LinkKeeps DEF Publisher!Next, PubInv, Publisher!TypeOK
<1> QED
  BY <1>1, PublisherInit, PTL DEF Publisher!Spec
(***************************************************************************)
(* Otp.  LockInv is LockHolds in an inductive form: a guesser that only    *)
(* sets the expiry is no witness unless the first wrong guess is already   *)
(* one too many.                                                           *)
(***************************************************************************)
LockInv ==
    attempts >= OtpAttempts =>
        \/ locked = TRUE
        \/ \E g \in Guessers : \/ guessing[g] = "lock"
                               \/ guessing[g] = "expire" /\ OtpAttempts = 1

OtpInv == Otp!TypeOK /\ LockInv

\* Nothing was counted yet.
LEMMA OtpInit == Otp!Init => OtpInv
<1>1. Otp!Init => Otp!FlagsOK
  BY Zenon DEF Otp!Init, Otp!FlagsOK
<1> QED
  BY <1>1, ServicesAssumption DEF Otp!OtpAssumption, Otp!Init, OtpInv, Otp!TypeOK, LockInv

\* A key exists, has an expiry, or not.
LEMMA OtpFlags == Otp!FlagsOK /\ [Otp!Next]_otp => Otp!FlagsOK'
<1> SUFFICES ASSUME Otp!FlagsOK, [Otp!Next]_otp PROVE Otp!FlagsOK'
  OBVIOUS
<1> USE DEF Otp!FlagsOK, Otp!limits
<1>0. (requests > 0) \in BOOLEAN /\ (attempts > 0) \in BOOLEAN
  OBVIOUS
<1>1. ASSUME NEW r \in Requesters, Otp!AskForCode(r) \/ Otp!AskStep(r) PROVE Otp!FlagsOK'
  BY <1>0, <1>1, Zenon DEF Otp!AskForCode, Otp!AskStep, Otp!CountRequest, Otp!ExpireRequests,
     Otp!LockSpam,
     Otp!CoolDown, Otp!StoreCode, Otp!RequestFails
<1>2. ASSUME NEW g \in Guessers, Otp!Guess(g) \/ Otp!GuessStep(g) PROVE Otp!FlagsOK'
  BY <1>0, <1>2, Zenon DEF Otp!Guess, Otp!GuessStep, Otp!ReadCode, Otp!WrongGuess,
     Otp!CountFailure, Otp!ExpireAttempts,
     Otp!LockOut, Otp!DropCode, Otp!RightGuess, Otp!ClearTracking
<1>3. CASE Otp!RequestsExpire \/ Otp!AttemptsExpire \/ Otp!LockExpires
  BY <1>3, Zenon DEF Otp!RequestsExpire, Otp!AttemptsExpire, Otp!LockExpires
<1>4. CASE Otp!SpamLockExpires \/ Otp!CooldownExpires \/ Otp!CodeExpires \/ UNCHANGED otp
  BY <1>4, Zenon DEF Otp!SpamLockExpires, Otp!CooldownExpires, Otp!CodeExpires, otp
<1> QED
  BY <1>1, <1>2, <1>3, <1>4 DEF Otp!Next

\* Asking for a code counts no guess and lifts no lock.
LEMMA AskKeeps ==
  ASSUME OtpInv, Otp!FlagsOK', NEW r \in Requesters, Otp!AskForCode(r) \/ Otp!AskStep(r)
  PROVE  OtpInv'
<1> USE DEF OtpInv, Otp!TypeOK, LockInv, Otp!Asks
<1>1. CASE Otp!AskForCode(r)
  BY <1>1 DEF Otp!AskForCode, Otp!limits
<1>2. CASE Otp!CountRequest(r)
  BY <1>2 DEF Otp!CountRequest
<1>3. CASE Otp!ExpireRequests(r)
  BY <1>3 DEF Otp!ExpireRequests
<1>4. CASE Otp!LockSpam(r)
  BY <1>4 DEF Otp!LockSpam
<1>5. CASE Otp!CoolDown(r)
  BY <1>5 DEF Otp!CoolDown
<1>6. CASE Otp!StoreCode(r) \/ Otp!RequestFails(r)
  BY <1>6 DEF Otp!StoreCode, Otp!RequestFails, Otp!limits
<1> QED
  BY <1>1, <1>2, <1>3, <1>4, <1>5, <1>6 DEF Otp!AskStep

\* The guess that reaches the limit goes on to lock; the right one, which lifts
\* the lock, resets the counter in the same call.
LEMMA GuessKeeps ==
  ASSUME OtpInv, Otp!FlagsOK', NEW g \in Guessers, Otp!Guess(g) \/ Otp!GuessStep(g)
  PROVE  OtpInv'
<1> USE ServicesAssumption DEF Otp!OtpAssumption, OtpInv, Otp!TypeOK, LockInv, Otp!Guesses
<1>1. CASE Otp!Guess(g) \/ Otp!ReadCode(g) \/ Otp!WrongGuess(g)
  BY <1>1 DEF Otp!Guess, Otp!ReadCode, Otp!WrongGuess, Otp!limits
<1>2. CASE Otp!CountFailure(g)
  BY <1>2 DEF Otp!CountFailure
<1>3. CASE Otp!ExpireAttempts(g)
  BY <1>3 DEF Otp!ExpireAttempts
<1>4. CASE Otp!LockOut(g)
  BY <1>4 DEF Otp!LockOut
<1>5. CASE Otp!DropCode(g) \/ Otp!RightGuess(g)
  BY <1>5 DEF Otp!DropCode, Otp!RightGuess, Otp!limits
<1>6. CASE Otp!ClearTracking(g)
  BY <1>6 DEF Otp!ClearTracking
<1> QED
  BY <1>1, <1>2, <1>3, <1>4, <1>5, <1>6 DEF Otp!GuessStep

\* The lock outlasts the window of the guesses that led to it.
LEMMA ExpiryKeeps ==
  ASSUME OtpInv, Otp!FlagsOK',
         \/ Otp!RequestsExpire \/ Otp!AttemptsExpire \/ Otp!LockExpires
         \/ Otp!SpamLockExpires \/ Otp!CooldownExpires \/ Otp!CodeExpires
         \/ UNCHANGED otp
  PROVE  OtpInv'
<1> USE ServicesAssumption DEF Otp!OtpAssumption, OtpInv, Otp!TypeOK, LockInv
<1>1. CASE Otp!RequestsExpire
  BY <1>1 DEF Otp!RequestsExpire
<1>2. CASE Otp!AttemptsExpire
  BY <1>2 DEF Otp!AttemptsExpire
<1>3. CASE Otp!LockExpires
  BY <1>3 DEF Otp!LockExpires
<1>4. CASE Otp!SpamLockExpires
  BY <1>4 DEF Otp!SpamLockExpires
<1>5. CASE Otp!CooldownExpires
  BY <1>5 DEF Otp!CooldownExpires
<1>6. CASE Otp!CodeExpires \/ UNCHANGED otp
  BY <1>6 DEF Otp!CodeExpires, otp, Otp!limits
<1> QED
  BY <1>1, <1>2, <1>3, <1>4, <1>5, <1>6

\* The inductive invariant holds in every behaviour.
LEMMA OtpInvariant == Otp!Spec => []OtpInv
<1>1. OtpInv /\ [Otp!Next]_(Otp!otpVars) => OtpInv'
  BY OtpFlags, AskKeeps, GuessKeeps, ExpiryKeeps DEF Otp!Next, OtpInv, Otp!TypeOK, otp,
     Otp!otpVars, Otp!limits
<1> QED
  BY <1>1, OtpInit, PTL DEF Otp!Spec

(***************************************************************************)
(* ReadCache.  What is read, kept and cached is a version there has been.  *)
(***************************************************************************)
Versions == ReadCache!None .. version

\* There is one version, and nothing is cached.
LEMMA CacheInit == ReadCache!Init => ReadCache!TypeOK
  BY ServicesAssumption DEF ReadCache!CacheAssumption, ReadCache!Init, ReadCache!TypeOK,
     ReadCache!Nothing, ReadCache!Reads, ReadCache!None, ReadCache!Keys, ReadCache!Parts

\* The older of two versions is one of them.
LEMMA OlderVersion ==
  ASSUME version \in Nat, NEW m \in Versions, NEW n \in Versions
  PROVE  ReadCache!Older(m, n) \in Versions
  BY DEF ReadCache!Older

\* What a reader does leaves it with the versions it has, or with a newer one.
LEMMA ReaderKeeps ==
  ASSUME ReadCache!TypeOK, NEW r \in Readers,
         \/ ReadCache!MissDashboard(r) \/ ReadCache!ReadStep(r)
         \/ \E k \in ReadCache!Parts : ReadCache!MissPart(r, k)
  PROVE  ReadCache!TypeOK'
<1> DEFINE Good(read) == read \in ReadCache!Reads /\ {read.loaded, read.oldest} \subseteq Versions
<1>0. /\ version \in 0 .. MaxWrites /\ version \in Nat
      /\ cached \in [ReadCache!Keys -> Versions] /\ reading \in [Readers -> ReadCache!Reads]
      /\ dropping \in [Writers -> {"idle", "first", "scan"}]
      /\ \A q \in Readers : Good(reading[q])
  BY ServicesAssumption DEF ReadCache!CacheAssumption, ReadCache!TypeOK, Versions
<1>1. ReadCache!None \in Versions /\ version \in Versions /\ Versions \subseteq Int
  BY <1>0 DEF Versions, ReadCache!None
<1>2. Good(ReadCache!Nothing)
  BY <1>1 DEF ReadCache!Nothing, ReadCache!Reads
<1>3. ASSUME NEW read, Good(read), reading' = [reading EXCEPT ![r] = read],
             cached' \in [ReadCache!Keys -> Versions], UNCHANGED <<version, dropping>>
      PROVE  ReadCache!TypeOK'
  <2> HIDE DEF Versions
  <2>1. reading' \in [Readers -> ReadCache!Reads]
    BY <1>0, <1>3
  <2>2. \A q \in Readers : {reading'[q].loaded, reading'[q].oldest} \subseteq Versions
    BY <1>0, <1>3
  <2> QED
    BY <1>0, <1>3, <2>1, <2>2 DEF ReadCache!TypeOK, Versions
<1> DEFINE old == reading[r]
<1>4. Good(old)
  BY <1>0
<1>5. ASSUME NEW k \in ReadCache!Parts, ReadCache!MissPart(r, k) PROVE ReadCache!TypeOK'
  <2>1. Good([ReadCache!Nothing EXCEPT !.for = k, !.key = k])
    BY <1>1 DEF ReadCache!Nothing, ReadCache!Reads, ReadCache!Keys
  <2> QED
    BY <1>0, <1>3, <1>5, <2>1 DEF ReadCache!MissPart
<1>6. CASE ReadCache!MissDashboard(r)
  <2>1. Good([ReadCache!Nothing EXCEPT !.for = "dashboard", !.missing = ReadCache!Parts])
    BY <1>1 DEF ReadCache!Nothing, ReadCache!Reads, ReadCache!Keys
  <2> QED
    BY <1>0, <1>3, <1>6, <2>1 DEF ReadCache!MissDashboard
<1>7. ASSUME NEW k \in ReadCache!Parts, ReadCache!HitPart(r, k) PROVE ReadCache!TypeOK'
  <2> DEFINE new == [old EXCEPT !.missing = @ \ {k}, !.oldest = ReadCache!Older(@, cached[k])]
  <2>1. cached[k] \in Versions /\ ReadCache!Older(old.oldest, cached[k]) \in Versions
    BY <1>0, <1>4, OlderVersion DEF ReadCache!Keys
  <2>2. Good(new)
    BY <1>1, <1>4, <2>1 DEF ReadCache!Reads
  <2>3. reading' = [reading EXCEPT ![r] = new]
    BY <1>0, <1>7 DEF ReadCache!HitPart
  <2> HIDE DEF new
  <2> QED
    BY <1>0, <1>3, <1>7, <2>2, <2>3 DEF ReadCache!HitPart
<1>8. ASSUME NEW k \in ReadCache!Parts, ReadCache!NeedPart(r, k) PROVE ReadCache!TypeOK'
  <2>1. Good([old EXCEPT !.key = k])
    BY <1>4 DEF ReadCache!Reads
  <2> QED
    BY <1>0, <1>3, <1>8, <2>1 DEF ReadCache!NeedPart
<1>9. CASE ReadCache!Load(r)
  <2>1. Good([old EXCEPT !.loaded = version])
    BY <1>1, <1>4 DEF ReadCache!Reads
  <2> QED
    BY <1>0, <1>3, <1>9, <2>1 DEF ReadCache!Load
<1>10. CASE ReadCache!StorePart(r)
  <2> DEFINE new == [old EXCEPT !.missing = @ \ {old.key}, !.key = "none",
                        !.loaded = ReadCache!None, !.oldest = ReadCache!Older(@, old.loaded)]
  <2>1. cached' \in [ReadCache!Keys -> Versions] /\ UNCHANGED <<version, dropping>>
    BY <1>0, <1>4, <1>10 DEF ReadCache!StorePart
  <2>2. ReadCache!Older(old.oldest, old.loaded) \in Versions
    BY <1>0, <1>4, OlderVersion
  <2>3. Good(new)
    BY <1>1, <1>4, <2>2 DEF ReadCache!Reads
  <2>4. reading' \in {[reading EXCEPT ![r] = new], [reading EXCEPT ![r] = ReadCache!Nothing]}
    BY <1>0, <1>10 DEF ReadCache!StorePart
  <2> HIDE DEF new
  <2> QED
    BY <1>2, <1>3, <2>1, <2>3, <2>4
<1>11. CASE ReadCache!StoreDashboard(r)
  <2>1. cached' \in [ReadCache!Keys -> Versions]
    BY <1>0, <1>4, <1>11 DEF ReadCache!StoreDashboard
  <2> QED
    BY <1>2, <1>3, <1>11, <2>1 DEF ReadCache!StoreDashboard
<1> QED
  BY <1>5, <1>6, <1>7, <1>8, <1>9, <1>10, <1>11 DEF ReadCache!ReadStep

\* Versions only grow, and what is deleted or expires is none.
LEMMA CacheTypes == ReadCache!TypeOK /\ [ReadCache!Next]_(ReadCache!cacheVars) => ReadCache!TypeOK'
<1> SUFFICES ASSUME ReadCache!TypeOK, [ReadCache!Next]_(ReadCache!cacheVars) PROVE ReadCache!TypeOK'
  OBVIOUS
<1> USE ServicesAssumption DEF ReadCache!CacheAssumption, ReadCache!TypeOK, ReadCache!None
<1>1. ASSUME NEW w \in Writers, ReadCache!Write(w) PROVE ReadCache!TypeOK'
  BY <1>1 DEF ReadCache!Write
<1>2. ASSUME NEW w \in Writers, ReadCache!DropStep(w) PROVE ReadCache!TypeOK'
  BY <1>2 DEF ReadCache!DropStep, ReadCache!DropFirst, ReadCache!DropScanned, ReadCache!DropFails
<1>3. ASSUME NEW k \in ReadCache!Keys, ReadCache!Expire(k) PROVE ReadCache!TypeOK'
  BY <1>3 DEF ReadCache!Expire
<1>4. CASE UNCHANGED ReadCache!cacheVars
  BY <1>4 DEF ReadCache!cacheVars
<1> QED
  BY <1>1, <1>2, <1>3, <1>4, ReaderKeeps DEF ReadCache!Next

\* So it is in every behaviour.
LEMMA CacheTyped == ReadCache!Spec => []ReadCache!TypeOK
  BY CacheInit, CacheTypes, PTL DEF ReadCache!Spec

(***************************************************************************)
(* BankLink.  A request that is under way has read a session.              *)
(***************************************************************************)
Busy == [at : BankLink!Steps, token : Tokens, seen : BankLink!Sessions, first : BOOLEAN]

\* No account is linked yet.
LEMMA LinkInit == BankLink!Init => BankLink!TypeOK
  BY DEF BankLink!Init, BankLink!TypeOK, BankLink!Idle

\* A request that is under way holds a session of a token.
LEMMA Underway ==
  ASSUME BankLink!TypeOK, NEW q \in LinkRequests, request[q].at # "idle"
  PROVE  request[q] \in Busy
  BY DEF BankLink!TypeOK, BankLink!Idle, Busy

\* Sessions written back are sessions.
LEMMA StoredSessions ==
  ASSUME NEW s \in BankLink!Sessions
  PROVE  /\ [step |-> "PENDING_OTP", account |-> s.account, tries |-> 0] \in BankLink!Sessions
         /\ [s EXCEPT !.tries = BankLink!OneMore(@)] \in BankLink!Sessions
<1>1. MaxTries \in Nat \ {0}
  BY ServicesAssumption DEF BankLink!LinkAssumption
<1>2. s.tries \in 0 .. MaxTries /\ BankLink!OneMore(s.tries) \in 0 .. MaxTries
  BY <1>1 DEF BankLink!Sessions, BankLink!OneMore
<1>3. [step |-> "PENDING_OTP", account |-> s.account, tries |-> 0] \in BankLink!Sessions
  BY <1>1 DEF BankLink!Sessions
<1>4. [s EXCEPT !.tries = BankLink!OneMore(s.tries)] \in BankLink!Sessions
  BY <1>2 DEF BankLink!Sessions
<1> QED
  BY <1>3, <1>4

\* Sessions, links and requests stay well typed, and no account is linked twice.
LEMMA LinkTypes == BankLink!TypeOK /\ [BankLink!Next]_linking => BankLink!TypeOK'
<1> SUFFICES ASSUME BankLink!TypeOK, [BankLink!Next]_linking PROVE BankLink!TypeOK'
  OBVIOUS
<1> DEFINE Requested == request \in [LinkRequests -> {BankLink!Idle} \cup Busy]
           Stored == session \in [Tokens -> BankLink!Sessions \cup {BankLink!NoSession}]
           Rows == /\ links \subseteq [account : BankAccounts, isDefault : BOOLEAN]
                   /\ \A l, m \in links : l.account = m.account => l = m
<1>0. Requested /\ Stored /\ Rows
  BY DEF BankLink!TypeOK, Busy
<1>1. Requested'
  <2>1. ASSUME NEW q \in LinkRequests, NEW t \in Tokens, BankLink!VerifyPin(q, t) \/ BankLink!ConfirmBankLink(q, t)
        PROVE  Requested'
    <3>1. session[t] \in BankLink!Sessions
      <4>1. session[t].step # "NONE"
        BY <2>1 DEF BankLink!VerifyPin, BankLink!ConfirmBankLink
      <4>2. session[t] \in BankLink!Sessions \cup {BankLink!NoSession}
        BY <1>0
      <4> QED
        BY <4>1, <4>2 DEF BankLink!NoSession
    <3>2. ASSUME NEW at \in BankLink!Steps, NEW first \in BOOLEAN
          PROVE  [at |-> at, token |-> t, seen |-> session[t], first |-> first] \in Busy
      BY <3>1 DEF Busy
    <3>3. BankLink!Busy("pin", t, FALSE) \in Busy /\ BankLink!Busy("otp", t, FALSE) \in Busy
      BY <3>2 DEF BankLink!Busy, BankLink!Steps
    <3> QED
      BY <1>0, <2>1, <3>3 DEF BankLink!VerifyPin, BankLink!ConfirmBankLink
  <2>2. ASSUME NEW q \in LinkRequests, NEW at \in BankLink!Steps, request[q].at # "idle", BankLink!Moves(q, at)
        PROVE  Requested'
    <3>1. request[q] \in Busy
      BY <2>2, Underway
    <3>2. [request[q] EXCEPT !.at = at] \in Busy
      BY <3>1 DEF Busy
    <3> QED
      BY <1>0, <2>2, <3>2 DEF BankLink!Moves
  <2>3. ASSUME NEW q \in LinkRequests, BankLink!Ends(q) PROVE Requested'
    BY <1>0, <2>3 DEF BankLink!Ends
  <2>4. ASSUME NEW q \in LinkRequests, BankLink!CountLinks(q) PROVE Requested'
    <3>1. request[q] \in Busy
      BY <2>4, Underway DEF BankLink!CountLinks
    <3>2. (links = {}) \in BOOLEAN
      OBVIOUS
    <3>3. \A first \in BOOLEAN : [request[q] EXCEPT !.at = "create", !.first = first] \in Busy
      BY <3>1 DEF Busy, BankLink!Steps
    <3> QED
      BY <1>0, <2>4, <3>2, <3>3 DEF BankLink!CountLinks
  <2>5. CASE UNCHANGED request
    BY <1>0, <2>5
  <2>6. \/ \E q \in LinkRequests, t \in Tokens : BankLink!VerifyPin(q, t) \/ BankLink!ConfirmBankLink(q, t)
        \/ \E q \in LinkRequests : \/ request[q].at # "idle" /\ BankLink!Moves(q, "drop")
                                  \/ BankLink!Ends(q) \/ BankLink!CountLinks(q)
        \/ UNCHANGED request
    BY DEF BankLink!Next, linking, BankLink!InitiateBankLink, BankLink!SendOtp, BankLink!PinFails,
       BankLink!WrongOtp, BankLink!CreateLink, BankLink!CreateFails, BankLink!DropSession,
       BankLink!SessionExpires
  <2> QED
    BY <2>1, <2>2, <2>3, <2>4, <2>5, <2>6 DEF BankLink!Steps
<1>2. Stored'
  <2>1. ASSUME NEW t \in Tokens, NEW a \in BankAccounts, BankLink!InitiateBankLink(t, a) PROVE Stored'
    <3>1. [step |-> "PENDING_PIN", account |-> a, tries |-> 0] \in BankLink!Sessions
      BY ServicesAssumption DEF BankLink!Sessions, BankLink!LinkAssumption
    <3> QED
      BY <1>0, <2>1, <3>1 DEF BankLink!InitiateBankLink, BankLink!Stores
  <2>2. ASSUME NEW q \in LinkRequests, BankLink!SendOtp(q) \/ BankLink!WrongOtp(q) PROVE Stored'
    <3>1. request[q] \in Busy
      BY <2>2, Underway DEF BankLink!SendOtp, BankLink!WrongOtp
    <3>2. request[q].seen \in BankLink!Sessions
      BY <3>1 DEF Busy
    <3> QED
      BY <1>0, <2>2, <3>2, StoredSessions DEF BankLink!SendOtp, BankLink!WrongOtp, BankLink!Stores
  <2>3. ASSUME NEW t, BankLink!Stores(t, BankLink!NoSession) PROVE Stored'
    BY <1>0, <2>3 DEF BankLink!Stores
  <2>4. CASE UNCHANGED session
    BY <1>0, <2>4
  <2> QED
    BY <2>1, <2>2, <2>3, <2>4 DEF BankLink!Next, linking, BankLink!VerifyPin,
       BankLink!ConfirmBankLink,
       BankLink!PinFails, BankLink!CountLinks, BankLink!CreateLink, BankLink!CreateFails,
       BankLink!DropSession, BankLink!SessionExpires
<1>3. Rows'
  <2>1. ASSUME NEW q \in LinkRequests, BankLink!CreateLink(q) PROVE Rows'
    <3>1. request[q] \in Busy
      BY <2>1, Underway DEF BankLink!CreateLink
    <3>2. [account |-> request[q].seen.account, isDefault |-> request[q].first]
            \in [account : BankAccounts, isDefault : BOOLEAN]
      BY <3>1 DEF Busy, BankLink!Sessions
    <3> QED
      BY <1>0, <2>1, <3>2 DEF BankLink!CreateLink, BankLink!Linked
  <2>2. CASE UNCHANGED links
    BY <1>0, <2>2
  <2> QED
    BY <2>1, <2>2 DEF BankLink!Next, linking, BankLink!InitiateBankLink, BankLink!VerifyPin,
       BankLink!ConfirmBankLink, BankLink!SendOtp, BankLink!PinFails, BankLink!WrongOtp,
       BankLink!CountLinks, BankLink!CreateFails, BankLink!DropSession, BankLink!SessionExpires
<1>4. drawn' \subseteq Tokens
  BY DEF BankLink!TypeOK, BankLink!Next, linking, BankLink!InitiateBankLink, BankLink!VerifyPin,
     BankLink!ConfirmBankLink, BankLink!SendOtp, BankLink!PinFails, BankLink!WrongOtp,
     BankLink!CountLinks, BankLink!CreateLink, BankLink!CreateFails, BankLink!DropSession,
     BankLink!SessionExpires
<1> QED
  BY <1>1, <1>2, <1>3, <1>4 DEF BankLink!TypeOK, Busy

\* So it is in every behaviour.
LEMMA LinkTyped == BankLink!Spec => []BankLink!TypeOK
<1>1. BankLink!TypeOK /\ [BankLink!Next]_(BankLink!linkVars) => BankLink!TypeOK'
  BY LinkTypes DEF linking, BankLink!linkVars
<1> QED
  BY <1>1, LinkInit, PTL DEF BankLink!Spec

(***************************************************************************)
(* Accounts.  What a request is for goes with what it does, and the row of *)
(* the user is locked by the transaction that has updated it.              *)
(***************************************************************************)
OpsInv ==
    /\ wallet \in [status : Accounts!WalletStatus, frozen : BOOLEAN]
    /\ op \in [Callers -> [at : Accounts!Steps,
                           for : Accounts!Kinds \cup Accounts!Uses \cup {"change", "none"},
                           seen : Accounts!WalletStatus]]
    /\ \A q \in Callers :
          /\ op[q].at \in {"update", "wallet", "commit"} => op[q].for \in Accounts!Kinds
          /\ op[q].at = "code" => op[q].for \in Accounts!Uses

\* No request is under way.
LEMMA OpsInit == Accounts!Init => OpsInv
  BY DEF Accounts!Init, OpsInv, Accounts!WalletStatus, Accounts!Steps, Accounts!Kinds,
     Accounts!Uses, Accounts!Idle

\* The status a transaction writes is one, and PENDING_KYC only with a PIN.
LEMMA StatusWritten ==
  ASSUME OpsInv, NEW q \in Callers, Accounts!CommitAccount(q)
  PROVE  /\ Accounts!StatusAfter(q) \in Accounts!WalletStatus
         /\ Accounts!StatusAfter(q) = "PENDING_KYC" => op[q].for \in {"set", "reset"}
<1>1. op[q].for \in {"set", "reset", "remove", "delete"} /\ wallet.status \in Accounts!WalletStatus
  BY DEF OpsInv, Accounts!CommitAccount, Accounts!Kinds
<1> QED
  BY <1>1 DEF Accounts!StatusAfter, Accounts!WalletStatus

\* A request starts with a step and a purpose that go together.
LEMMA StartKeeps ==
  ASSUME OpsInv, NEW q \in Callers, NEW at \in {"code", "update", "change"},
         NEW for \in Accounts!Kinds \cup Accounts!Uses \cup {"change"},
         at = "update" => for \in Accounts!Kinds, at = "code" => for \in Accounts!Uses,
         Accounts!Starts(q, at, for), wallet' = wallet
  PROVE  OpsInv'
<1> DEFINE new == [at |-> at, for |-> for, seen |-> "PENDING_PIN"]
<1>1. op' = [op EXCEPT ![q] = new]
  BY DEF Accounts!Starts, Accounts!Idle
<1>2. new \in [at : Accounts!Steps, for : Accounts!Kinds \cup Accounts!Uses \cup {"change", "none"},
               seen : Accounts!WalletStatus]
  BY DEF Accounts!Steps, Accounts!WalletStatus
<1> HIDE DEF new
<1>3. /\ new.at \in {"update", "wallet", "commit"} => new.for \in Accounts!Kinds
      /\ new.at = "code" => new.for \in Accounts!Uses
  BY DEF new
<1> QED
  BY <1>1, <1>2, <1>3 DEF OpsInv

\* The steps of a request follow each other, and a transaction has its kind.
LEMMA OpsKeeps == OpsInv /\ [Accounts!Next]_account => OpsInv'
<1> SUFFICES ASSUME OpsInv, [Accounts!Next]_account PROVE OpsInv'
  OBVIOUS
<1> USE DEF OpsInv, Accounts!Steps, Accounts!Kinds,
     Accounts!Uses, Accounts!Idle, Accounts!Moves, Accounts!Ends,
     Accounts!rows, Accounts!users
<1>0. {"PENDING_PIN", "ACTIVE"} \subseteq Accounts!WalletStatus
  BY DEF Accounts!WalletStatus
<1>1. ASSUME NEW q \in Callers, NEW use \in Accounts!Uses,
             Accounts!RequestCode(q, use) \/ Accounts!ResendCode(q, use)
      PROVE  OpsInv'
  <2>1. Accounts!Starts(q, "code", use) /\ wallet' = wallet
    BY <1>1, Zenon DEF Accounts!RequestCode, Accounts!ResendCode
  <2> QED
    BY <2>1, StartKeeps
<1>2. ASSUME NEW q \in Callers, Accounts!StoreCode(q) \/ Accounts!Cleanup(q) \/ Accounts!RequestStops(q)
      PROVE  OpsInv'
  BY <1>0, <1>2 DEF Accounts!StoreCode, Accounts!Cleanup, Accounts!RequestStops
<1>3. ASSUME NEW q \in Callers, \/ Accounts!SetPin(q) \/ Accounts!ResetPin(q)
                                \/ Accounts!RemovePin(q) \/ Accounts!DeleteAccount(q)
      PROVE  OpsInv'
  <2>1. (\E kind \in Accounts!Kinds : Accounts!Starts(q, "update", kind)) /\ wallet' = wallet
    BY <1>3, Zenon DEF Accounts!SetPin, Accounts!ResetPin, Accounts!RemovePin,
       Accounts!DeleteAccount
  <2> QED
    BY <2>1, StartKeeps
<1>4. ASSUME NEW q \in Callers, Accounts!UpdateUser(q) \/ Accounts!ReadWallet(q) \/ Accounts!AbortAccount(q)
      PROVE  OpsInv'
  BY <1>0, <1>4 DEF Accounts!UpdateUser, Accounts!ReadWallet, Accounts!AbortAccount
<1>5. ASSUME NEW q \in Callers, Accounts!ChangePin(q) PROVE OpsInv'
  <2>1. Accounts!Starts(q, "change", "change") /\ wallet' = wallet
    BY <1>5, Zenon DEF Accounts!ChangePin
  <2> QED
    BY <2>1, StartKeeps
<1>9. ASSUME NEW q \in Callers, Accounts!WritePin(q) \/ Accounts!PauseChanges(q) PROVE OpsInv'
  BY <1>0, <1>9 DEF Accounts!WritePin, Accounts!PauseChanges
<1>6. ASSUME NEW q \in Callers, Accounts!CommitAccount(q) PROVE OpsInv'
  <2>1. Accounts!StatusAfter(q) \in Accounts!WalletStatus
    BY <1>6, StatusWritten
  <2>2. wallet' \in [status : Accounts!WalletStatus, frozen : BOOLEAN]
    BY <1>6, <2>1 DEF Accounts!CommitAccount
  <2>3. op' \in {[op EXCEPT ![q] = Accounts!Idle], [op EXCEPT ![q] = [@ EXCEPT !.at = "cleanup"]]}
    BY <1>6 DEF Accounts!CommitAccount
  <2> QED
    BY <1>0, <2>2, <2>3
<1>7. CASE Accounts!SubmitKyc
  BY <1>0, <1>7 DEF Accounts!SubmitKyc
<1>8. CASE (\E use \in Accounts!Uses : Accounts!CodeGoes(use)) \/ Accounts!PauseEnds \/ UNCHANGED account
  BY <1>8 DEF Accounts!CodeGoes, Accounts!PauseEnds, account
<1> QED
  BY <1>1, <1>2, <1>3, <1>4, <1>5, <1>6, <1>7, <1>8, <1>9 DEF Accounts!Next, Accounts!PinStep

\* The flags of the rows are flags.
FlagsInv == {hasPin, kyc, active, paused} \subseteq BOOLEAN

LEMMA FlagsKeep == FlagsInv /\ [Accounts!Next]_(Accounts!accountVars) => FlagsInv'
<1> SUFFICES ASSUME FlagsInv, [Accounts!Next]_(Accounts!accountVars) PROVE FlagsInv'
  OBVIOUS
<1> USE DEF FlagsInv, Accounts!rows, Accounts!users
<1>1. ASSUME NEW q \in Callers, NEW use \in Accounts!Uses,
             Accounts!RequestCode(q, use) \/ Accounts!ResendCode(q, use)
      PROVE  FlagsInv'
  BY <1>1, Zenon DEF Accounts!RequestCode, Accounts!ResendCode
<1>2. ASSUME NEW q \in Callers, Accounts!PinStep(q), ~Accounts!CommitAccount(q) PROVE FlagsInv'
  BY <1>2, Zenon DEF Accounts!PinStep, Accounts!StoreCode, Accounts!Cleanup,
     Accounts!RequestStops,
     Accounts!SetPin, Accounts!ResetPin, Accounts!RemovePin, Accounts!DeleteAccount,
     Accounts!UpdateUser, Accounts!ReadWallet, Accounts!AbortAccount,
     Accounts!ChangePin, Accounts!WritePin, Accounts!PauseChanges
<1>3. ASSUME NEW q \in Callers, Accounts!CommitAccount(q) PROVE FlagsInv'
  <2>1. hasPin' \in BOOLEAN /\ active' \in BOOLEAN /\ kyc' = kyc /\ paused' = paused
    BY <1>3, Zenon DEF Accounts!CommitAccount
  <2> QED
    BY <2>1, Zenon
<1>4. CASE (\E use \in Accounts!Uses : Accounts!CodeGoes(use)) \/ Accounts!PauseEnds
           \/ Accounts!SubmitKyc \/ UNCHANGED Accounts!accountVars
  BY <1>4, Zenon DEF Accounts!CodeGoes, Accounts!PauseEnds, Accounts!SubmitKyc,
     Accounts!accountVars
<1> QED
  BY <1>1, <1>2, <1>3, <1>4, Zenon DEF Accounts!Next

\* The user's row is locked from its update to the end of the transaction.
RowInv ==
    /\ codes \subseteq Accounts!Uses /\ userRow \in Callers \cup {Nobody}
    /\ \A q \in Callers : op[q].at \in {"wallet", "commit"} <=> userRow = q

LEMMA RowKeeps == OpsInv /\ RowInv /\ [Accounts!Next]_(Accounts!accountVars) => RowInv'
<1> SUFFICES ASSUME OpsInv, RowInv, [Accounts!Next]_(Accounts!accountVars) PROVE RowInv'
  OBVIOUS
<1> USE ServicesAssumption DEF Accounts!AccountsAssumption, OpsInv, RowInv, Accounts!Uses,
     Accounts!Idle, Accounts!Moves, Accounts!Starts, Accounts!Ends
<1>0. ASSUME NEW q \in Callers, {op[q].at, op'[q].at} \cap {"wallet", "commit"} = {},
             \A p \in Callers : p # q => op'[p] = op[p],
             codes' \subseteq Accounts!Uses, userRow' = userRow
      PROVE  RowInv'
  BY <1>0
<1>1. ASSUME NEW q \in Callers, NEW use \in Accounts!Uses,
             Accounts!RequestCode(q, use) \/ Accounts!ResendCode(q, use)
      PROVE  RowInv'
  <2>1. /\ {op[q].at, op'[q].at} \cap {"wallet", "commit"} = {}
        /\ \A p \in Callers : p # q => op'[p] = op[p]
    BY <1>1 DEF Accounts!RequestCode, Accounts!ResendCode
  <2> QED
    BY <1>0, <1>1, <2>1 DEF Accounts!RequestCode, Accounts!ResendCode
<1>2. ASSUME NEW q \in Callers, Accounts!StoreCode(q) \/ Accounts!Cleanup(q)
                               \/ Accounts!RequestStops(q)
      PROVE  RowInv'
  <2>1. /\ {op[q].at, op'[q].at} \cap {"wallet", "commit"} = {}
        /\ \A p \in Callers : p # q => op'[p] = op[p]
    BY <1>2 DEF Accounts!StoreCode, Accounts!Cleanup, Accounts!RequestStops
  <2> QED
    BY <1>0, <1>2, <2>1 DEF Accounts!StoreCode, Accounts!Cleanup, Accounts!RequestStops
<1>3. ASSUME NEW q \in Callers, \/ Accounts!SetPin(q) \/ Accounts!ResetPin(q)
                                \/ Accounts!RemovePin(q) \/ Accounts!DeleteAccount(q)
      PROVE  RowInv'
  <2>1. /\ {op[q].at, op'[q].at} \cap {"wallet", "commit"} = {}
        /\ \A p \in Callers : p # q => op'[p] = op[p]
    BY <1>3 DEF Accounts!SetPin, Accounts!ResetPin, Accounts!RemovePin, Accounts!DeleteAccount
  <2> QED
    BY <1>0, <1>3, <2>1 DEF Accounts!SetPin, Accounts!ResetPin, Accounts!RemovePin,
       Accounts!DeleteAccount
<1>4. ASSUME NEW q \in Callers, Accounts!UpdateUser(q) \/ Accounts!ReadWallet(q) PROVE RowInv'
  BY <1>4 DEF Accounts!UpdateUser, Accounts!ReadWallet
<1>5. ASSUME NEW q \in Callers, Accounts!AbortAccount(q) PROVE RowInv'
  BY <1>5 DEF Accounts!AbortAccount
<1>6. ASSUME NEW q \in Callers, Accounts!CommitAccount(q) PROVE RowInv'
  <2>1. \E new : new.at \notin {"wallet", "commit"} /\ op' = [op EXCEPT ![q] = new]
    <3>1. [op[q] EXCEPT !.at = "cleanup"].at = "cleanup"
      OBVIOUS
    <3> QED
      BY <1>6, <3>1 DEF Accounts!CommitAccount
  <2> QED
    BY <1>6, <2>1 DEF Accounts!CommitAccount
<1>7. ASSUME NEW q \in Callers, Accounts!ChangePin(q) \/ Accounts!WritePin(q)
                               \/ Accounts!PauseChanges(q)
      PROVE  RowInv'
  BY <1>7 DEF Accounts!ChangePin, Accounts!WritePin, Accounts!PauseChanges
<1>8. CASE (\E use \in Accounts!Uses : Accounts!CodeGoes(use)) \/ Accounts!PauseEnds
           \/ Accounts!SubmitKyc \/ UNCHANGED Accounts!accountVars
  BY <1>8 DEF Accounts!CodeGoes, Accounts!PauseEnds, Accounts!SubmitKyc, Accounts!accountVars
<1> QED
  BY <1>1, <1>2, <1>3, <1>4, <1>5, <1>6, <1>7, <1>8 DEF Accounts!Next, Accounts!PinStep

\* So it is in every behaviour.
LEMMA AccountTyped == Accounts!Spec => [](Accounts!TypeOK /\ OpsInv)
<1>1. Accounts!Init => OpsInv /\ FlagsInv /\ RowInv
  <2>1. Accounts!Init => FlagsInv
    BY Zenon DEF Accounts!Init, FlagsInv
  <2>2. Accounts!Init => RowInv
    BY ServicesAssumption DEF Accounts!AccountsAssumption, Accounts!Init, RowInv, Accounts!Idle
  <2> QED
    BY <2>1, <2>2, OpsInit
<1>2. OpsInv /\ FlagsInv /\ RowInv /\ [Accounts!Next]_(Accounts!accountVars)
        => (OpsInv /\ FlagsInv /\ RowInv)'
  BY OpsKeeps, FlagsKeep, RowKeeps DEF account, Accounts!accountVars
<1>3. OpsInv /\ FlagsInv /\ RowInv => Accounts!TypeOK
  BY Zenon DEF OpsInv, FlagsInv, RowInv, Accounts!TypeOK
<1> QED
  BY <1>1, <1>2, <1>3, PTL DEF Accounts!Spec

(***************************************************************************)
(* Connect.  Codes, links and requests are of the users and sessions there *)
(* are.                                                                    *)
(***************************************************************************)
\* Nobody is linked.
LEMMA ConnectInit == Connect!Init => Connect!TypeOK
  BY DEF Connect!Init, Connect!TypeOK, Connect!SessionStatus, Connect!Away

\* What a session links are users.
LEMMA LinkIsPair == ASSUME NEW s \in Onboardings PROVE Connect!LinkOf(s) \in Connect!Pairs
  BY ServicesAssumption DEF Connect!ConnectAssumption, Connect!LinkOf, Connect!Pairs

\* Sessions, links and requests stay well typed.
LEMMA ConnectTypes == Connect!TypeOK /\ [Connect!Next]_(Connect!connectVars) => Connect!TypeOK'
<1> SUFFICES ASSUME Connect!TypeOK, [Connect!Next]_(Connect!connectVars) PROVE Connect!TypeOK'
  OBVIOUS
<1> USE DEF Connect!TypeOK, Connect!SessionStatus, Connect!Away, Connect!Busy, Connect!Starts,
     Connect!Ends
<1>1. ASSUME NEW s \in Onboardings, Connect!CreateOnboardingSession(s) \/ Connect!TimePasses(s)
      PROVE  Connect!TypeOK'
  BY <1>1 DEF Connect!CreateOnboardingSession, Connect!TimePasses
<1>2. ASSUME NEW q \in Visits, NEW s \in Onboardings,
             \/ Connect!FindOverdue(q, s) \/ Connect!CompleteOnboarding(q, s)
             \/ Connect!ExchangeToken(q, s)
      PROVE  Connect!TypeOK'
  BY <1>2 DEF Connect!FindOverdue, Connect!CompleteOnboarding, Connect!ExchangeToken
<1>3. ASSUME NEW q \in Visits, Connect!WriteExpired(q) PROVE Connect!TypeOK'
  BY <1>3 DEF Connect!WriteExpired
<1>4. ASSUME NEW q \in Visits, Connect!ClearCode(q) PROVE Connect!TypeOK'
  <2>1. visit[q].session \in Onboardings
    BY <1>4 DEF Connect!ClearCode
  <2>2. Connect!LinkOf(visit[q].session) \in Connect!Pairs
    BY <2>1, LinkIsPair
  <2> QED
    BY <1>4, <2>1, <2>2 DEF Connect!ClearCode
<1>5. ASSUME NEW q \in Visits, Connect!ReadUser(q) \/ Connect!VisitFails(q) PROVE Connect!TypeOK'
  BY <1>5 DEF Connect!ReadUser, Connect!VisitFails
<1>6. ASSUME NEW q \in Visits, NEW c \in Codes, Connect!LinkWallet(q, c) PROVE Connect!TypeOK'
  <2>1. visit[q].session \in Onboardings
    BY <1>6 DEF Connect!LinkWallet
  <2>2. Connect!LinkOf(visit[q].session) \in Connect!Pairs
    BY <2>1, LinkIsPair
  <2> QED
    BY <1>6, <2>1, <2>2 DEF Connect!LinkWallet
<1>7. CASE (\E o \in Owners : Connect!WalletTurns(o)) \/ UNCHANGED Connect!connectVars
  BY <1>7 DEF Connect!WalletTurns, Connect!connectVars
<1> QED
  BY <1>1, <1>2, <1>3, <1>4, <1>5, <1>6, <1>7 DEF Connect!Next

\* So it is in every behaviour.
LEMMA ConnectTyped == Connect!Spec => []Connect!TypeOK
  BY ConnectInit, ConnectTypes, PTL DEF Connect!Spec

(***************************************************************************)
(* Idempotency.                                                            *)
(***************************************************************************)
\* Nothing is stored.
LEMMA IdemInit == Idempotency!Init => Idempotency!TypeOK
  BY DEF Idempotency!Init, Idempotency!TypeOK

\* A record is of a request, and so is the answer replayed from it.
LEMMA IdemTypes ==
  Idempotency!TypeOK /\ [Idempotency!Next]_(Idempotency!idemVars) => Idempotency!TypeOK'
<1> SUFFICES ASSUME Idempotency!TypeOK, [Idempotency!Next]_(Idempotency!idemVars)
             PROVE  Idempotency!TypeOK'
  OBVIOUS
<1> USE DEF Idempotency!TypeOK
<1>1. ASSUME NEW r \in HttpRequests, Idempotency!Replay(r) PROVE Idempotency!TypeOK'
  <2>1. HeaderKey[r] \in Idempotency!Keys
    BY DEF Idempotency!Keys
  <2>2. PICK f \in HttpRequests : record[HeaderKey[r]] = Idempotency!Record(f)
    BY <1>1, <2>1 DEF Idempotency!Replay, Idempotency!IsDuplicate
  <2>3. answer' = [answer EXCEPT ![r] = f]
    BY <1>1, <2>2 DEF Idempotency!Replay, Idempotency!Record
  <2> QED
    BY <1>1, <2>3 DEF Idempotency!Replay
<1>2. ASSUME NEW r \in HttpRequests,
             Idempotency!PassOn(r) \/ Idempotency!Answer(r) \/ Idempotency!Refuse(r)
      PROVE  Idempotency!TypeOK'
  BY <1>2 DEF Idempotency!PassOn, Idempotency!Answer, Idempotency!Refuse
<1>3. ASSUME NEW r \in HttpRequests, Idempotency!Store(r) \/ Idempotency!StoreFails(r)
      PROVE  Idempotency!TypeOK'
  BY <1>3 DEF Idempotency!Store, Idempotency!StoreFails
<1>4. ASSUME NEW k \in Idempotency!Keys, Idempotency!RecordExpires(k) PROVE Idempotency!TypeOK'
  BY <1>4 DEF Idempotency!RecordExpires
<1>5. CASE UNCHANGED Idempotency!idemVars
  BY <1>5 DEF Idempotency!idemVars
<1> QED
  BY <1>1, <1>2, <1>3, <1>4, <1>5 DEF Idempotency!Next

\* So it is in every behaviour.
LEMMA IdemTyped == Idempotency!Spec => []Idempotency!TypeOK
  BY IdemInit, IdemTypes, PTL DEF Idempotency!Spec

(***************************************************************************)
(* Realtime.  The bounds on timers and requests under way are guards.      *)
(***************************************************************************)
\* The user is not known yet.
LEMMA RtInit == Realtime!Init => Realtime!TypeOK
<1>1. Realtime!Init => excused \in BOOLEAN
  BY Zenon DEF Realtime!Init
<1> QED
  BY <1>1, ServicesAssumption DEF Realtime!RealtimeAssumption, Realtime!Init, Realtime!TypeOK

\* Connecting leaves the tab with a socket that the server has not registered.
LEMMA ConnectGives ==
  ASSUME Realtime!TypeOK, NEW t \in {"none", "valid", "expired"}, Realtime!Connect(t)
  PROVE  /\ state' \in [Sockets -> {"none", "connecting", "open", "ended", "refused"}]
         /\ outdated' \subseteq Sockets /\ ws' \in Sockets \cup {NoSocket}
         /\ token' \in {"none", "valid", "expired"}
         /\ \A n \in registered : state'[n] # "connecting"
         /\ \E n \in Sockets : state'[n] # "none"
  BY DEF Realtime!TypeOK, Realtime!Connect, Realtime!Connected

\* What happened to the requests for a token, or to one, is an excuse, or none.
LEMMA ExcusedTypes ==
  excused \in BOOLEAN /\ [Realtime!Next]_(Realtime!rtVars) => excused' \in BOOLEAN
  BY Zenon DEF Realtime!Next, Realtime!rtVars, Realtime!AuthLoads, Realtime!AuthIn,
     Realtime!AuthOut,
     Realtime!TokenArrives, Realtime!TokenFails, Realtime!TokenExpires, Realtime!ReconnectTimer,
     Realtime!Opens, Realtime!Lost, Realtime!Deregister, Realtime!OnClose, Realtime!OnRefused

\* Sockets, requests, timers and attempts stay well typed.
LEMMA RtTypes == Realtime!TypeOK /\ [Realtime!Next]_(Realtime!rtVars) => Realtime!TypeOK'
<1> SUFFICES ASSUME Realtime!TypeOK, [Realtime!Next]_(Realtime!rtVars) PROVE Realtime!TypeOK'
  OBVIOUS
<1> DEFINE Others == /\ auth \in {"loading", "in", "out"} /\ fetching \in 0 .. MaxFetches
                     /\ state \in [Sockets -> {"none", "connecting", "open", "ended", "refused"}]
                     /\ outdated \subseteq Sockets /\ registered \subseteq Sockets
                     /\ ws \in Sockets \cup {NoSocket} /\ token \in {"none", "valid", "expired"}
                     /\ reconnectAttempts \in 0 .. ReconnectAttempts /\ timers \in 0 .. MaxTimers
                     /\ \A n \in registered : state[n] # "connecting"
<1> USE ServicesAssumption DEF Realtime!RealtimeAssumption, Realtime!clientVars
<1>0. Others /\ excused' \in BOOLEAN
  BY ExcusedTypes DEF Realtime!TypeOK
<1>1. ASSUME Realtime!AuthLoads \/ Realtime!AuthIn PROVE Others'
  BY <1>0, <1>1 DEF Realtime!AuthLoads, Realtime!AuthIn
<1>2. ASSUME Realtime!AuthOut PROVE Others'
  BY <1>0, <1>2 DEF Realtime!AuthOut, Realtime!Disconnect
<1>3. ASSUME Realtime!TokenArrives \/ Realtime!ReconnectTimer PROVE Others'
  <2>1. \E t \in {"none", "valid", "expired"} : Realtime!Connect(t)
    BY <1>0, <1>3 DEF Realtime!TokenArrives, Realtime!ReconnectTimer
  <2> QED
    BY <1>0, <1>3, <2>1, ConnectGives DEF Realtime!TokenArrives, Realtime!ReconnectTimer
<1>4. ASSUME Realtime!TokenFails PROVE Others'
  BY <1>0, <1>4 DEF Realtime!TokenFails
<1>5. ASSUME Realtime!TokenExpires PROVE Others'
  BY <1>0, <1>5 DEF Realtime!TokenExpires
<1>6. ASSUME NEW n \in Sockets, Realtime!Opens(n) \/ Realtime!Lost(n) \/ Realtime!Deregister(n)
      PROVE  Others'
  BY <1>0, <1>6 DEF Realtime!Opens, Realtime!Lost, Realtime!Deregister
<1>7. ASSUME NEW n \in Sockets, Realtime!OnClose(n) \/ Realtime!OnRefused(n) PROVE Others'
  BY <1>0, <1>7 DEF Realtime!OnClose, Realtime!OnRefused, Realtime!Released,
     Realtime!AttemptReconnect
<1>8. ASSUME UNCHANGED Realtime!rtVars PROVE Others'
  BY <1>0, <1>8 DEF Realtime!rtVars
<1>9. Others'
  BY <1>1, <1>2, <1>3, <1>4, <1>5, <1>6, <1>7, <1>8 DEF Realtime!Next
<1> QED
  BY <1>0, <1>9 DEF Realtime!TypeOK

\* So it is in every behaviour.
LEMMA RtTyped == Realtime!Spec => []Realtime!TypeOK
  BY RtInit, RtTypes, PTL DEF Realtime!Spec

(***************************************************************************)
(* Sessions.  Whatever a request has read was issued, so that nothing is   *)
(* blacklisted that was not.                                               *)
(***************************************************************************)
Issued == {s \in Sessions!SessionIds : issuedTo[s] # NoDevice}

Request == [at : Sessions!Stops, way : Sessions!Ways, seen : SUBSET Issued]

SeenInv == \A p \in Phones : doing[p].seen \subseteq Issued

\* Nothing is issued yet.
LEMMA SessionInit == Sessions!Init => Sessions!TypeOK /\ SeenInv
  BY DEF Sessions!Init, Sessions!TypeOK, SeenInv, Sessions!Resting, Sessions!Stops, Sessions!Ways

\* A step of one request that issues nothing.
LEMMA RequestTypes ==
  ASSUME Sessions!TypeOK, SeenInv, NEW p \in Phones, NEW new \in Request,
         doing' = [doing EXCEPT ![p] = new], UNCHANGED issuedTo,
         UNION {fresh', refresh', listed', revoked', raced'} \subseteq Issued
  PROVE  (Sessions!TypeOK /\ SeenInv)'
<1>1. new \in [at : Sessions!Stops, way : Sessions!Ways, seen : SUBSET Sessions!SessionIds]
      /\ new.seen \subseteq Issued
  BY DEF Request, Issued
<1>2. doing' \in [Phones -> [at : Sessions!Stops, way : Sessions!Ways,
                             seen : SUBSET Sessions!SessionIds]]
  BY <1>1 DEF Sessions!TypeOK
<1>3. \A q \in Phones : doing'[q].seen \subseteq Issued
  BY <1>1 DEF Sessions!TypeOK, SeenInv
<1>4. Issued' = Issued
  BY DEF Issued, Sessions!SessionIds
<1> QED
  BY <1>2, <1>3, <1>4 DEF Sessions!TypeOK, SeenInv, Issued

\* Issuing leaves what was issued before.
LEMMA IssueTypes ==
  ASSUME Sessions!TypeOK, SeenInv, NEW p \in Phones, Sessions!IssueTokens(p)
  PROVE  (Sessions!TypeOK /\ SeenInv)'
<1>1. DeviceOf[p] \in Sessions!Devices /\ DeviceOf[p] # NoDevice
  BY ServicesAssumption DEF Sessions!SessionsAssumption, Sessions!Devices
<1>2. PICK s \in Sessions!SessionIds :
         /\ issuedTo' = [issuedTo EXCEPT ![s] = DeviceOf[p]]
         /\ fresh' = fresh \cup {s} /\ refresh' = refresh \cup {s} /\ listed' = listed \cup {s}
         /\ raced' \subseteq raced \cup {s} /\ revoked' = revoked
         /\ doing' = [doing EXCEPT ![p] = Sessions!Resting]
  BY DEF Sessions!IssueTokens, Sessions!Ends
<1>3. issuedTo' \in [Sessions!SessionIds -> Sessions!Devices \cup {NoDevice}]
  BY <1>1, <1>2 DEF Sessions!TypeOK
<1>4. Issued \cup {s} \subseteq Issued'
  BY <1>1, <1>2 DEF Sessions!TypeOK, Issued, Sessions!SessionIds
<1>5. UNION {fresh', refresh', listed', revoked', raced'} \subseteq Issued'
  BY <1>2, <1>4 DEF Sessions!TypeOK, Issued
<1>6. Sessions!Resting \in [at : Sessions!Stops, way : Sessions!Ways, seen : SUBSET Sessions!SessionIds]
  BY DEF Sessions!Resting, Sessions!Stops, Sessions!Ways
<1>7. doing' \in [Phones -> [at : Sessions!Stops, way : Sessions!Ways,
                             seen : SUBSET Sessions!SessionIds]]
  BY <1>2, <1>6 DEF Sessions!TypeOK
<1>8. \A q \in Phones : doing'[q].seen \subseteq Issued
  BY <1>2 DEF Sessions!TypeOK, SeenInv, Sessions!Resting
<1> QED
  BY <1>3, <1>4, <1>5, <1>7, <1>8 DEF Sessions!TypeOK, SeenInv, Issued

\* Sessions are told apart, and those that were read had been issued.
LEMMA SessionTypes ==
  Sessions!TypeOK /\ SeenInv /\ [Sessions!Next]_(Sessions!sessionVars) => (Sessions!TypeOK /\ SeenInv)'
<1> SUFFICES ASSUME Sessions!TypeOK, SeenInv, [Sessions!Next]_(Sessions!sessionVars)
             PROVE  (Sessions!TypeOK /\ SeenInv)'
  OBVIOUS
<1>0. UNION {fresh, refresh, listed, revoked, raced} \subseteq Issued
  BY DEF Sessions!TypeOK, Issued
<1>1. ASSUME NEW p \in Phones, Sessions!TokenStep(p), ~Sessions!IssueTokens(p)
      PROVE  (Sessions!TypeOK /\ SeenInv)'
  <2> DEFINE was == doing[p]
  <2>1. was \in Request
    BY DEF Sessions!TypeOK, SeenInv, Request
  <2>2. \E new \in Request : doing' = [doing EXCEPT ![p] = new]
    <3>1. ASSUME NEW to \in Sessions!Stops, NEW seen \in SUBSET Issued
          PROVE  [was EXCEPT !.at = to, !.seen = seen] \in Request
                 /\ [was EXCEPT !.at = to] \in Request
      BY <2>1 DEF Request
    <3>2. Sessions!Resting \in Request
      BY DEF Request, Sessions!Resting, Sessions!Stops, Sessions!Ways
    <3>3. CASE \/ Sessions!Login(p) \/ Sessions!DeleteAccount(p)
               \/ Sessions!RotateTokens(p) \/ Sessions!LogOut(p)
      BY <1>0, <3>3 DEF Sessions!Login, Sessions!DeleteAccount, Sessions!RotateTokens,
         Sessions!LogOut, Sessions!Starts, Sessions!Stops, Sessions!Ways, Request
    <3>4. CASE Sessions!ListSessions(p)
      BY <1>0, <3>1, <3>4 DEF Sessions!ListSessions, Sessions!Stops
    <3>0. ASSUME NEW from, NEW to, Sessions!Moves(p, from, to)
          PROVE  doing' = [doing EXCEPT ![p] = [was EXCEPT !.at = to, !.seen = {}]]
      <4>1. doing' = [[doing EXCEPT ![p].at = to] EXCEPT ![p].seen = {}]
        BY <3>0, Zenon DEF Sessions!Moves
      <4> QED
        BY <4>1 DEF Sessions!TypeOK
    <3>5. CASE Sessions!RevokeSessions(p) \/ Sessions!SpendToken(p)
      BY <3>0, <3>1, <3>5 DEF Sessions!RevokeSessions, Sessions!SpendToken, Sessions!Stops
    <3>6. CASE Sessions!ClearSessions(p)
      BY <3>0, <3>1, <3>2, <3>6 DEF Sessions!ClearSessions, Sessions!Ends, Sessions!Stops
    <3>7. CASE Sessions!BanSession(p) \/ Sessions!RequestFails(p)
      BY <3>2, <3>7 DEF Sessions!BanSession, Sessions!RequestFails, Sessions!Ends
    <3>8. CASE Sessions!DropRefresh(p)
      BY <3>1, <3>8 DEF Sessions!DropRefresh, Sessions!Stops
    <3> QED
      BY <1>1, <3>3, <3>4, <3>5, <3>6, <3>7, <3>8 DEF Sessions!TokenStep
  <2>3. UNCHANGED issuedTo /\ UNION {fresh', refresh', listed', revoked', raced'} \subseteq Issued
    BY <1>0, <1>1, <2>1 DEF Request, Sessions!TokenStep, Sessions!tokens, Sessions!Login,
       Sessions!DeleteAccount,
       Sessions!ListSessions, Sessions!RevokeSessions, Sessions!ClearSessions, Sessions!RotateTokens,
       Sessions!SpendToken, Sessions!LogOut, Sessions!DropRefresh, Sessions!BanSession,
       Sessions!RequestFails
  <2> QED
    BY <2>2, <2>3, RequestTypes
<1>2. ASSUME UNCHANGED <<issuedTo, doing>>,
             UNION {fresh', refresh', listed', revoked', raced'} \subseteq Issued
      PROVE  (Sessions!TypeOK /\ SeenInv)'
  BY <1>2 DEF Sessions!TypeOK, SeenInv, Issued, Sessions!SessionIds
<1>3. ASSUME \/ \E s \in Sessions!SessionIds : \/ Sessions!AccessExpires(s)
                                              \/ Sessions!BlacklistExpires(s)
                                              \/ Sessions!RefreshExpires(s)
             \/ Sessions!ListExpires \/ UNCHANGED Sessions!sessionVars
      PROVE  (Sessions!TypeOK /\ SeenInv)'
  BY <1>0, <1>2, <1>3 DEF Sessions!AccessExpires, Sessions!BlacklistExpires,
     Sessions!RefreshExpires,
     Sessions!ListExpires, Sessions!sessionVars, Sessions!tokens
<1> QED
  BY <1>1, <1>3, IssueTypes DEF Sessions!Next

\* So it is in every behaviour.
LEMMA SessionTyped == Sessions!Spec => []Sessions!TypeOK
<1>1. Sessions!TypeOK /\ SeenInv => Sessions!TypeOK
  OBVIOUS
<1> QED
  BY <1>1, SessionInit, SessionTypes, PTL DEF Sessions!Spec

-----------------------------------------------------------------------------
\* A behaviour of the composition is one of every component.
LEMMA Parts ==
  Spec => /\ Publisher!Spec /\ Otp!Spec /\ ReadCache!Spec /\ BankLink!Spec
          /\ Accounts!Spec /\ Connect!Spec /\ Idempotency!Spec /\ Realtime!Spec
          /\ Sessions!Spec
<1>1. Init => /\ Publisher!Init /\ Otp!Init /\ ReadCache!Init /\ BankLink!Init
              /\ Accounts!Init /\ Connect!Init /\ Idempotency!Init /\ Realtime!Init
              /\ Sessions!Init
  BY Zenon DEF Init
<1>2. [Next]_vars => [Publisher!Next]_(Publisher!pubVars)
  BY DEF Next, vars, publishing, Publisher!pubVars, Publisher!breaker, Publisher!calls
<1>3. [Next]_vars => [Otp!Next]_(Otp!otpVars)
  BY DEF Next, vars, otp, Otp!otpVars, Otp!limits
<1>4. [Next]_vars => [ReadCache!Next]_(ReadCache!cacheVars)
  BY DEF Next, vars, caches, ReadCache!cacheVars
<1>5. [Next]_vars => [BankLink!Next]_(BankLink!linkVars)
  BY DEF Next, vars, linking, BankLink!linkVars
<1>6. [Next]_vars => [Accounts!Next]_(Accounts!accountVars)
  BY DEF Next, vars, account, Accounts!accountVars
<1>7. [Next]_vars => [Connect!Next]_(Connect!connectVars)
  BY DEF Next, vars, connecting, Connect!connectVars
<1>8. [Next]_vars => [Idempotency!Next]_(Idempotency!idemVars)
  BY DEF Next, vars, idempotency, Idempotency!idemVars
<1>9. [Next]_vars => [Realtime!Next]_(Realtime!rtVars)
  BY DEF Next, vars, realtime, Realtime!rtVars, Realtime!clientVars
<1>10. [Next]_vars => [Sessions!Next]_(Sessions!sessionVars)
  BY DEF Next, vars, signedIn, Sessions!sessionVars, Sessions!tokens
<1> QED
  BY <1>1, <1>2, <1>3, <1>4, <1>5, <1>6, <1>7, <1>8, <1>9, <1>10, PTL
     DEF Spec, Publisher!Spec, Otp!Spec, ReadCache!Spec, BankLink!Spec, Accounts!Spec,
         Connect!Spec, Idempotency!Spec, Realtime!Spec, Sessions!Spec

\* Whatever races with whatever in any component: the breaker's counts, the codes
\* and their limits, cached versions, link sessions, the status of the wallet and
\* the lock on the user's row, partner links, stored answers, sockets and timers,
\* and sessions and blacklist keep their types. In particular a closed breaker is
\* below its threshold, at most one transaction holds the user's row, no account
\* is linked twice, and nothing is blacklisted that was not issued.
THEOREM TypeCorrect == Spec => []TypeOK
<1>1. PubInv => Publisher!TypeOK
  BY DEF PubInv
<1>2. OtpInv => Otp!TypeOK
  BY DEF OtpInv
<1> QED
  BY <1>1, <1>2, Parts, PublisherInvariant, OtpInvariant, CacheTyped, LinkTyped, AccountTyped,
     ConnectTyped, IdemTyped, RtTyped, SessionTyped, PTL DEF TypeOK
=============================================================================
