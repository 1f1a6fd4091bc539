--------------------------- MODULE ServicesProofs ---------------------------
(***************************************************************************)
(* What the components that MCServices puts side by side promise, each for *)
(* any number of concurrent requests; ServicesTypes has their types.  What *)
(* is said of ReadCache is liveness, and not proved.                       *)
(***************************************************************************)
EXTENDS ServicesTypes

(***************************************************************************)
(* Publisher implements Delivery.                                          *)
(***************************************************************************)
Told == [p \in Publishers |-> IF stage[p] = "idle" THEN outcome[p] ELSE "pending"]

\* Every step of one call is a step of Delivery, or changes nothing it shows.
LEMMA CallPromises ==
  ASSUME PubInv, NEW p \in Publishers, Publisher!Call(p) \/ Publisher!CallStep(p)
  PROVE  [Publisher!Promise!Next]_<<handed, Told>>
<1> USE ServicesAssumption DEF PubInv, Publisher!TypeOK, CopiesInv, Publisher!PublisherAssumption
<1>1. CASE Publisher!Refuse(p)
  <2>1. Told' = [Told EXCEPT ![p] = "failed"]
    BY <1>1 DEF Publisher!Refuse, Told
  <2>2. Publisher!Promise!Refuse(p)
    BY <1>1, <2>1 DEF Publisher!Refuse, Told, Publisher!Promise!Refuse
  <2> QED
    BY <2>2 DEF Publisher!Promise!Next
<1>2. CASE Publisher!Begin(p)
  <2>1. Told' = [Told EXCEPT ![p] = "pending"]
    BY <1>2 DEF Publisher!Begin, Told
  <2>2. Publisher!Promise!Ask(p)
    BY <1>2, <2>1 DEF Publisher!Begin, Told, Publisher!Promise!Ask
  <2> QED
    BY <2>2 DEF Publisher!Promise!Next
<1>3. CASE Publisher!WriteOk(p)
  <2>1. Told' = [Told EXCEPT ![p] = "sent"]
    BY <1>3 DEF Publisher!WriteOk, Told
  <2>2. Publisher!Promise!HandOver(p)
    BY <1>3, <2>1 DEF Publisher!WriteOk, Told, Publisher!Promise!HandOver
  <2> QED
    BY <2>2 DEF Publisher!Promise!Next
<1>4. CASE Publisher!WriteFull(p)
  <2>1. Told' = Told
    BY <1>4 DEF Publisher!WriteFull, Told
  <2>2. Publisher!Promise!HandOver(p)
    BY <1>4, <2>1 DEF Publisher!WriteFull, Told, Publisher!Promise!HandOver
  <2> QED
    BY <2>2 DEF Publisher!Promise!Next
<1>5. CASE Publisher!GiveUp(p)
  <2>1. Told' = [Told EXCEPT ![p] = "failed"]
    BY <1>5 DEF Publisher!GiveUp, Told
  <2>2. Publisher!Promise!GiveUp(p)
    BY <1>5, <2>1 DEF Publisher!GiveUp, Told, Publisher!Promise!GiveUp
  <2> QED
    BY <2>2 DEF Publisher!Promise!Next
<1>6. CASE Publisher!AwaitChannel(p) \/ Publisher!Retry(p) \/ Publisher!Wake(p)
  BY <1>6 DEF Publisher!AwaitChannel, Publisher!Retry, Publisher!Wake, Told
<1> QED
  BY <1>1, <1>2, <1>3, <1>4, <1>5, <1>6 DEF Publisher!Call, Publisher!CallStep

\* publishMessage, with its retries inside the breaker, implements Delivery,
\* whatever the broker, the channel and the other callers do meanwhile.
THEOREM KeepsPromise == Publisher!Spec => PublishKeepsPromise
<1>1. Publisher!Init => Publisher!Promise!Init
  BY DEF Publisher!Init, Publisher!Promise!Init
<1>2. ASSUME PubInv, [Publisher!Next]_(Publisher!pubVars)
      PROVE  [Publisher!Promise!Next]_<<handed, Told>>
  <2>1. ASSUME NEW p \in Publishers, Publisher!Call(p) \/ Publisher!CallStep(p)
        PROVE  [Publisher!Promise!Next]_<<handed, Told>>
    BY <1>2, <2>1, CallPromises
  <2>2. CASE Publisher!LinkStep
    BY <2>2 DEF Publisher!LinkStep, Publisher!ChannelOpens, Publisher!ChannelFails, Told
  <2>3. CASE Publisher!LinkLost \/ Publisher!ResetTimeout \/ UNCHANGED Publisher!pubVars
             \/ \E b \in {"up", "down", "slow"} : Publisher!BrokerTurns(b)
    BY <2>3 DEF Publisher!LinkLost, Publisher!ResetTimeout, Publisher!BrokerTurns,
       Publisher!pubVars, Publisher!calls, Told
  <2> QED
    BY <1>2, <2>1, <2>2, <2>3 DEF Publisher!Next
<1> QED
  BY <1>1, <1>2, PublisherInvariant, PTL DEF Publisher!Spec, PublishKeepsPromise,
     Publisher!PublishKeepsPromise, Publisher!Promise!Spec, Told

(***************************************************************************)
(* Otp                                                                     *)
(***************************************************************************)
\* However many guesses race with each other, with the expiry of the counter and
\* of the lock, and with a right guess: the counter of trackOtpFailure at its
\* limit means that the address is locked, or about to be.
THEOREM LockedOut == Otp!Spec => []LockHolds
<1>1. LockInv => LockHolds
  BY DEF LockInv, LockHolds, Otp!LockHolds
<1> QED
  BY <1>1, OtpInvariant, PTL DEF OtpInv

(***************************************************************************)
(* Accounts                                                                *)
(***************************************************************************)
PinInv == wallet.status = "PENDING_KYC" => hasPin = TRUE

\* Only four statements touch the PIN or the status of the wallet: the end of a
\* transaction, the change of a PIN, and the approval of KYC.
LEMMA PinKeeps == OpsInv /\ PinInv /\ [Accounts!Next]_account => PinInv'
<1> SUFFICES ASSUME OpsInv, PinInv, [Accounts!Next]_account PROVE PinInv'
  OBVIOUS
<1>1. ASSUME NEW q \in Callers, Accounts!CommitAccount(q) PROVE PinInv'
  <2>1. CASE op[q].for \in {"set", "reset"}
    <3>1. hasPin' = TRUE
      BY <1>1, <2>1, Zenon DEF Accounts!CommitAccount
    <3> QED
      BY <3>1 DEF PinInv
  <2>2. CASE op[q].for \notin {"set", "reset"}
    <3>1. wallet'.status # "PENDING_KYC"
      BY <1>1, <2>2, StatusWritten DEF Accounts!CommitAccount
    <3> QED
      BY <3>1 DEF PinInv
  <2> QED
    BY <2>1, <2>2
<1>2. ASSUME NEW q \in Callers, Accounts!WritePin(q) PROVE PinInv'
  BY <1>2, Zenon DEF Accounts!WritePin, PinInv
<1>3. CASE Accounts!SubmitKyc
  <2>1. wallet'.status = "ACTIVE"
    BY <1>3 DEF Accounts!SubmitKyc
  <2> QED
    BY <2>1 DEF PinInv
<1>4. CASE UNCHANGED <<hasPin, wallet>>
  BY <1>4 DEF PinInv
<1>5. \/ (\E q \in Callers : Accounts!CommitAccount(q) \/ Accounts!WritePin(q))
      \/ Accounts!SubmitKyc \/ UNCHANGED <<hasPin, wallet>>
  <2> USE DEF Accounts!rows, Accounts!users
  <2>1. ASSUME NEW q \in Callers, NEW use \in Accounts!Uses,
               Accounts!RequestCode(q, use) \/ Accounts!ResendCode(q, use)
        PROVE  UNCHANGED <<hasPin, wallet>>
    BY <2>1, Zenon DEF Accounts!RequestCode, Accounts!ResendCode
  <2>2. ASSUME NEW q \in Callers, Accounts!PinStep(q), ~Accounts!CommitAccount(q), ~Accounts!WritePin(q)
        PROVE  UNCHANGED <<hasPin, wallet>>
    BY <2>2, Zenon DEF Accounts!PinStep, Accounts!StoreCode, Accounts!Cleanup, Accounts!RequestStops,
       Accounts!SetPin, Accounts!ResetPin, Accounts!RemovePin, Accounts!DeleteAccount,
       Accounts!UpdateUser, Accounts!ReadWallet, Accounts!AbortAccount,
       Accounts!ChangePin, Accounts!PauseChanges
  <2>3. (\E use \in Accounts!Uses : Accounts!CodeGoes(use)) \/ Accounts!PauseEnds \/ UNCHANGED account
        => UNCHANGED <<hasPin, wallet>>
    BY Zenon DEF Accounts!CodeGoes, Accounts!PauseEnds, account
  <2> QED
    BY <2>1, <2>2, <2>3 DEF Accounts!Next
<1> QED
  BY <1>1, <1>2, <1>3, <1>4, <1>5

\* Setting, resetting, removing and changing a PIN, deleting the account and
\* submitting KYC race at will (pin.service, account.service, kyc.service): a
\* wallet that waits for KYC has a PIN.
THEOREM PinIsKept == Accounts!Spec => []PendingKycHasPin
<1>1. Accounts!Init => PinInv
  BY DEF Accounts!Init, PinInv
<1>2. OpsInv /\ PinInv /\ [Accounts!Next]_(Accounts!accountVars) => PinInv'
  BY PinKeeps DEF account, Accounts!accountVars
<1>3. PinInv => PendingKycHasPin
  BY DEF PinInv, PendingKycHasPin, Accounts!PendingKycHasPin
<1> QED
  BY <1>1, <1>2, <1>3, AccountTyped, PTL DEF Accounts!Spec

(***************************************************************************)
(* BankLink.  Linked accounts are never unlinked: while there is none,     *)
(* whoever counted them has counted none.                                  *)
(***************************************************************************)
FirstInv ==
    /\ \A q \in LinkRequests :
          request[q].at = "create" /\ links = {} => request[q].first = TRUE
    /\ links # {} => \E l \in links : l.isDefault = TRUE

\* Only the first account is created by a request that counted none.
LEMMA FirstKeeps == BankLink!TypeOK /\ FirstInv /\ [BankLink!Next]_linking => FirstInv'
<1> SUFFICES ASSUME BankLink!TypeOK, FirstInv, [BankLink!Next]_linking PROVE FirstInv'
  OBVIOUS
<1> USE DEF FirstInv
<1>0. request \in [LinkRequests -> {BankLink!Idle} \cup Busy]
  BY DEF BankLink!TypeOK, Busy
<1>1. ASSUME NEW q \in LinkRequests, BankLink!CountLinks(q) PROVE FirstInv'
  <2>1. request[q] \in Busy
    BY <1>1, Underway DEF BankLink!CountLinks
  <2>2. request'[q].first = (links = {}) /\ UNCHANGED links
    BY <1>0, <1>1, <2>1 DEF BankLink!CountLinks, Busy
  <2>3. \A p \in LinkRequests \ {q} : request'[p] = request[p]
    BY <1>0, <1>1 DEF BankLink!CountLinks
  <2> QED
    BY <2>2, <2>3
<1>2. ASSUME NEW q \in LinkRequests, BankLink!CreateLink(q) PROVE FirstInv'
  <2> DEFINE new == [account |-> request[q].seen.account, isDefault |-> request[q].first]
  <2>1. CASE links = {}
    <3>1. request[q].first = TRUE
      BY <1>2, <2>1 DEF BankLink!CreateLink
    <3>2. new.isDefault = request[q].first /\ links' = links \cup {new}
      BY <1>2 DEF BankLink!CreateLink
    <3> HIDE DEF new
    <3> QED
      BY <2>1, <3>1, <3>2
  <2>2. CASE links # {}
    BY <1>2, <2>2 DEF BankLink!CreateLink
  <2> QED
    BY <2>1, <2>2
<1>3. ASSUME NEW q \in LinkRequests, UNCHANGED links,
             \A p \in LinkRequests : p # q => request'[p] = request[p],
             request'[q].at # "create"
      PROVE  FirstInv'
  BY <1>3
<1>4. CASE UNCHANGED <<links, request>>
  BY <1>4
<1>5. ASSUME NEW q \in LinkRequests, BankLink!Moves(q, "drop"), request[q].at # "idle"
      PROVE  request'[q].at # "create" /\ \A p \in LinkRequests : p # q => request'[p] = request[p]
  <2>1. request[q] \in Busy
    BY <1>5, Underway
  <2>2. [request[q] EXCEPT !.at = "drop"].at = "drop"
    BY <2>1 DEF Busy
  <2> QED
    BY <1>0, <1>5, <2>2 DEF BankLink!Moves
<1>6. ASSUME NEW q \in LinkRequests, BankLink!Ends(q)
      PROVE  request'[q].at # "create" /\ \A p \in LinkRequests : p # q => request'[p] = request[p]
  BY <1>0, <1>6 DEF BankLink!Ends, BankLink!Idle
<1>7. ASSUME NEW q \in LinkRequests, NEW t \in Tokens, BankLink!VerifyPin(q, t) \/ BankLink!ConfirmBankLink(q, t)
      PROVE  request'[q].at # "create" /\ \A p \in LinkRequests : p # q => request'[p] = request[p]
  BY <1>0, <1>7 DEF BankLink!VerifyPin, BankLink!ConfirmBankLink, BankLink!Busy
<1>8. \/ \E q \in LinkRequests : BankLink!CountLinks(q) \/ BankLink!CreateLink(q)
      \/ /\ UNCHANGED links
         /\ \E q \in LinkRequests :
               \/ BankLink!Moves(q, "drop") /\ request[q].at # "idle"
               \/ BankLink!Ends(q)
               \/ \E t \in Tokens : BankLink!VerifyPin(q, t) \/ BankLink!ConfirmBankLink(q, t)
      \/ UNCHANGED <<links, request>>
  BY DEF BankLink!Next, linking, BankLink!InitiateBankLink, BankLink!VerifyPin,
     BankLink!ConfirmBankLink, BankLink!SendOtp, BankLink!PinFails, BankLink!WrongOtp,
     BankLink!CreateFails, BankLink!DropSession, BankLink!SessionExpires
<1> QED
  BY <1>1, <1>2, <1>3, <1>4, <1>5, <1>6, <1>7, <1>8

\* Several confirmBankLink calls may count the links before any of them creates
\* one: whichever is first, a user with linked accounts has a default one.
THEOREM DefaultExists == BankLink!Spec => []HasDefault
<1>1. BankLink!Init => FirstInv
  BY DEF BankLink!Init, FirstInv, BankLink!Idle
<1>2. BankLink!TypeOK /\ FirstInv /\ [BankLink!Next]_(BankLink!linkVars) => FirstInv'
  BY FirstKeeps DEF linking, BankLink!linkVars
<1>3. FirstInv => HasDefault
  BY DEF FirstInv, HasDefault, BankLink!HasDefault
<1> QED
  BY <1>1, <1>2, <1>3, LinkTyped, PTL DEF BankLink!Spec

(***************************************************************************)
(* Connect.  A session that is or was completed stands for a link that was *)
(* made, whatever becomes of its status and its code.                      *)
(***************************************************************************)
MadeInv ==
    /\ \A s \in Onboardings : onboarding[s].status = "COMPLETED" => Connect!LinkOf(s) \in everLinked
    /\ \A q \in Visits : visit[q].at = "clear" => Connect!LinkOf(visit[q].session) \in everLinked
    /\ disclosed \subseteq everLinked

UniqueInv == \A l, m \in partnerLinks : (l.user = m.user \/ l.owner = m.owner) => l = m

\* What an exchange discloses was made by the transaction that completed it.
LEMMA MadeKeeps == Connect!TypeOK /\ MadeInv /\ [Connect!Next]_connecting => MadeInv'
<1> SUFFICES ASSUME Connect!TypeOK, MadeInv, [Connect!Next]_connecting PROVE MadeInv'
  OBVIOUS
<1> USE DEF Connect!TypeOK, MadeInv, Connect!SessionStatus, Connect!Away, Connect!Busy,
     Connect!Starts, Connect!Ends
<1>1. ASSUME NEW s \in Onboardings, Connect!CreateOnboardingSession(s) \/ Connect!TimePasses(s)
      PROVE  MadeInv'
  BY <1>1 DEF Connect!CreateOnboardingSession, Connect!TimePasses
<1>2. ASSUME NEW q \in Visits, NEW s \in Onboardings,
             \/ Connect!FindOverdue(q, s) \/ Connect!CompleteOnboarding(q, s) \/ Connect!ExchangeToken(q, s)
      PROVE  MadeInv'
  <2>1. CASE Connect!FindOverdue(q, s) \/ Connect!CompleteOnboarding(q, s)
    BY <2>1 DEF Connect!FindOverdue, Connect!CompleteOnboarding
  <2>2. CASE Connect!ExchangeToken(q, s)
    BY <2>2 DEF Connect!ExchangeToken
  <2> QED
    BY <1>2, <2>1, <2>2
<1>3. ASSUME NEW q \in Visits, Connect!WriteExpired(q) \/ Connect!ClearCode(q) PROVE MadeInv'
  <2>1. visit[q].session \in Onboardings /\ visit' = [visit EXCEPT ![q] = Connect!Away]
    BY <1>3 DEF Connect!WriteExpired, Connect!ClearCode
  <2>2. CASE Connect!WriteExpired(q)
    BY <2>1, <2>2 DEF Connect!WriteExpired
  <2>3. CASE Connect!ClearCode(q)
    <3>1. Connect!LinkOf(visit[q].session) \in everLinked
      BY <2>3 DEF Connect!ClearCode
    <3>2. \A s \in Onboardings : onboarding'[s].status = onboarding[s].status
      BY <2>1, <2>3 DEF Connect!ClearCode
    <3> QED
      BY <2>1, <2>3, <3>1, <3>2 DEF Connect!ClearCode
  <2> QED
    BY <1>3, <2>2, <2>3
<1>4. ASSUME NEW q \in Visits, Connect!ReadUser(q) \/ Connect!VisitFails(q) PROVE MadeInv'
  BY <1>4 DEF Connect!ReadUser, Connect!VisitFails
<1>5. ASSUME NEW q \in Visits, NEW c \in Codes, Connect!LinkWallet(q, c) PROVE MadeInv'
  BY <1>5 DEF Connect!LinkWallet
<1>6. CASE (\E o \in Owners : Connect!WalletTurns(o)) \/ UNCHANGED connecting
  BY <1>6 DEF Connect!WalletTurns, connecting
<1> QED
  BY <1>1, <1>2, <1>3, <1>4, <1>5, <1>6 DEF Connect!Next

\* The upsert replaces the link of its partner's user, and the unique index on
\* the owner refuses any other.
LEMMA UniqueKeeps == UniqueInv /\ [Connect!Next]_connecting => UniqueInv'
<1> SUFFICES ASSUME UniqueInv, [Connect!Next]_connecting PROVE UniqueInv'
  OBVIOUS
<1> USE DEF UniqueInv
<1>1. ASSUME NEW q \in Visits, NEW c \in Codes, Connect!LinkWallet(q, c) PROVE UniqueInv'
  <2> DEFINE l == Connect!LinkOf(visit[q].session)
  <2>1. /\ partnerLinks' = {m \in partnerLinks : m.user # l.user} \cup {l}
        /\ \A m \in partnerLinks : m.owner = l.owner => m.user = l.user
    BY <1>1 DEF Connect!LinkWallet, Connect!Linkable
  <2> HIDE DEF l
  <2> QED
    BY <2>1
<1>2. (\E q \in Visits, c \in Codes : Connect!LinkWallet(q, c)) \/ UNCHANGED partnerLinks
  BY DEF Connect!Next, connecting, Connect!CreateOnboardingSession, Connect!TimePasses,
     Connect!FindOverdue, Connect!CompleteOnboarding, Connect!ExchangeToken, Connect!WriteExpired,
     Connect!ReadUser, Connect!VisitFails, Connect!ClearCode, Connect!WalletTurns
<1> QED
  BY <1>1, <1>2

\* However completions, expiries and exchanges of connect.service interleave: a
\* partner learns only of wallets that were linked to the user it asked for,
\* and no two of its users share one.
THEOREM ToldOnlyLinked == Connect!Spec => []DisclosedWasLinked
<1>1. Connect!Init => MadeInv /\ UniqueInv
  BY DEF Connect!Init, MadeInv, UniqueInv, Connect!Away
<1>2. Connect!TypeOK /\ MadeInv /\ UniqueInv /\ [Connect!Next]_(Connect!connectVars)
        => (MadeInv /\ UniqueInv)'
  BY MadeKeeps, UniqueKeeps DEF connecting, Connect!connectVars
<1>3. MadeInv /\ UniqueInv => DisclosedWasLinked
  BY DEF MadeInv, UniqueInv, DisclosedWasLinked, Connect!DisclosedWasLinked
<1> QED
  BY <1>1, <1>2, <1>3, ConnectTyped, PTL DEF Connect!Spec

(***************************************************************************)
(* Idempotency.  A record, and an answer whose storing is under way, is of *)
(* a request whose handler succeeded, and this never changes.              *)
(***************************************************************************)
StoredInv ==
    /\ \A r \in storing : r \in HttpRequests /\ serving[r] = "answered"
    /\ \A k \in Idempotency!Keys :
          \/ record[k] = NoRecord
          \/ \E r \in HttpRequests : serving[r] = "answered" /\ record[k] = Idempotency!Record(r)

IdemInv == StoredInv /\ ReplaysOwnSuccess

\* A request's key is one.
LEMMA KeyOf == ASSUME NEW r \in HttpRequests PROVE HeaderKey[r] \in Idempotency!Keys
  BY DEF Idempotency!Keys

\* What is stored is a success; what is replayed was stored.
LEMMA IdemKeeps ==
  Idempotency!TypeOK /\ Idempotency!TypeOK' /\ IdemInv /\ [Idempotency!Next]_idempotency => IdemInv'
<1> SUFFICES ASSUME Idempotency!TypeOK, Idempotency!TypeOK', IdemInv,
                    [Idempotency!Next]_idempotency
             PROVE  IdemInv'
  OBVIOUS
<1> USE DEF Idempotency!TypeOK, IdemInv, StoredInv, ReplaysOwnSuccess, Idempotency!ReplaysOwnSuccess
<1>1. ASSUME NEW r \in HttpRequests, Idempotency!Replay(r) PROVE IdemInv'
  <2>1. PICK f \in HttpRequests : serving[f] = "answered" /\ record[HeaderKey[r]] = Idempotency!Record(f)
    BY <1>1, KeyOf DEF Idempotency!Replay, Idempotency!IsDuplicate
  <2>2. /\ Whose[f] = Whose[r] /\ Idempotency!Validated(f) = Body[r]
        /\ answer' = [answer EXCEPT ![r] = f]
    BY <1>1, <2>1 DEF Idempotency!Replay, Idempotency!IsDuplicate, Idempotency!Record
  <2>3. Idempotency!Validated(f) = Idempotency!Validated(r)
    <3>1. Idempotency!Validated(r) = Parsed[Idempotency!Validated(f)]
      BY <2>2 DEF Idempotency!Validated
    <3> QED
      BY <3>1, ServicesAssumption DEF Idempotency!IdempotencyAssumption
  <2> QED
    BY <1>1, <2>1, <2>2, <2>3 DEF Idempotency!Replay
<1>2. ASSUME NEW r \in HttpRequests, Idempotency!PassOn(r) \/ Idempotency!Answer(r) \/ Idempotency!Refuse(r)
      PROVE  IdemInv'
  <2>1. /\ serving[r] \notin {"answered", "replayed"} /\ record' = record /\ answer' = answer
        /\ \E to \in {"checked", "answered", "refused"} : serving' = [serving EXCEPT ![r] = to]
    BY <1>2 DEF Idempotency!PassOn, Idempotency!Answer, Idempotency!Refuse
  <2>0. storing' = storing \/ (storing' = storing \cup {r} /\ serving' = [serving EXCEPT ![r] = "answered"])
    BY <1>2 DEF Idempotency!PassOn, Idempotency!Answer, Idempotency!Refuse
  <2>2. PICK to \in {"checked", "answered", "refused"} : serving' = [serving EXCEPT ![r] = to]
    BY <2>1
  <2>3. \A p \in HttpRequests : /\ serving[p] = "answered" => serving'[p] = "answered"
                               /\ serving'[p] = "replayed" => serving[p] = "replayed"
    BY <2>1, <2>2
  <2>5. StoredInv'
    BY <2>0, <2>1, <2>3
  <2>6. ReplaysOwnSuccess'
    BY <2>1, <2>3
  <2> QED
    BY <2>5, <2>6
<1>3. ASSUME NEW r \in HttpRequests, Idempotency!Store(r) PROVE IdemInv'
  BY <1>3, KeyOf DEF Idempotency!Store
<1>4. ASSUME NEW r \in HttpRequests, Idempotency!StoreFails(r) PROVE IdemInv'
  BY <1>4 DEF Idempotency!StoreFails
<1>5. ASSUME NEW k \in Idempotency!Keys, Idempotency!RecordExpires(k) PROVE IdemInv'
  BY <1>5 DEF Idempotency!RecordExpires
<1>6. CASE UNCHANGED idempotency
  BY <1>6 DEF idempotency
<1> QED
  BY <1>1, <1>2, <1>3, <1>4, <1>5, <1>6 DEF Idempotency!Next

\* Although the Redis key says neither whose it is nor what was asked
\* (checkIdempotency), the body looked up is the raw one and the body stored the
\* validated one, and answers are stored late and in any order: a client whose
\* request is replayed gets a success of its own user and path, for a body that asked
\* the handler for the same.
THEOREM OwnReplay == Idempotency!Spec => []ReplaysOwnSuccess
<1>1. Idempotency!Init => IdemInv
  BY DEF Idempotency!Init, IdemInv, StoredInv, ReplaysOwnSuccess, Idempotency!ReplaysOwnSuccess
<1>2. Idempotency!TypeOK /\ Idempotency!TypeOK' /\ IdemInv /\ [Idempotency!Next]_(Idempotency!idemVars)
        => IdemInv'
  BY IdemKeeps DEF idempotency, Idempotency!idemVars
<1>3. IdemInv => ReplaysOwnSuccess
  BY DEF IdemInv
<1> QED
  BY <1>1, <1>2, <1>3, IdemTyped, PTL DEF Idempotency!Spec

(***************************************************************************)
(* Realtime.  An attempt to connect ends in a socket, a timer, or the end  *)
(* of all attempts.                                                        *)
(***************************************************************************)
\* NeverForgotten, as the provers read it.
HeardInv ==
    auth = "in" =>
        \/ \E n \in Sockets : state[n] # "none"
        \/ timers > 0 \/ fetching > 0
        \/ reconnectAttempts = ReconnectAttempts \/ excused = TRUE

\* Whatever ends an attempt starts the next, or is an excuse.
LEMMA HeardKeeps == Realtime!TypeOK /\ HeardInv /\ [Realtime!Next]_realtime => HeardInv'
<1> SUFFICES ASSUME Realtime!TypeOK, HeardInv, [Realtime!Next]_realtime PROVE HeardInv'
  OBVIOUS
<1> USE ServicesAssumption DEF Realtime!RealtimeAssumption, HeardInv, Realtime!clientVars
<1>0. /\ fetching \in Nat /\ timers \in Nat /\ ws \in Sockets \cup {NoSocket}
      /\ state \in [Sockets -> {"none", "connecting", "open", "ended", "refused"}]
      /\ token \in {"none", "valid", "expired"} /\ reconnectAttempts \in 0 .. ReconnectAttempts
  BY DEF Realtime!TypeOK
<1>1. CASE Realtime!AuthLoads \/ Realtime!AuthOut
  BY <1>0, <1>1 DEF Realtime!AuthLoads, Realtime!AuthOut
<1>2. CASE Realtime!AuthIn
  BY <1>0, <1>2 DEF Realtime!AuthIn, Realtime!Connected
<1>3. CASE Realtime!TokenArrives \/ Realtime!ReconnectTimer
  BY <1>0, <1>3, ConnectGives DEF Realtime!TokenArrives, Realtime!ReconnectTimer
<1>4. CASE Realtime!TokenFails
  BY <1>0, <1>4 DEF Realtime!TokenFails
<1>5. CASE Realtime!TokenExpires
  BY <1>0, <1>5 DEF Realtime!TokenExpires
<1>6. ASSUME NEW n \in Sockets, Realtime!Opens(n) \/ Realtime!Lost(n) PROVE HeardInv'
  BY <1>0, <1>6 DEF Realtime!Opens, Realtime!Lost, Realtime!Live
<1>7. ASSUME NEW n \in Sockets, Realtime!Deregister(n) PROVE HeardInv'
  BY <1>0, <1>7 DEF Realtime!Deregister
<1>8. ASSUME NEW n \in Sockets, Realtime!OnClose(n) PROVE HeardInv'
  BY <1>0, <1>8 DEF Realtime!OnClose, Realtime!AttemptReconnect
<1>9. ASSUME NEW n \in Sockets, Realtime!OnRefused(n) PROVE HeardInv'
  BY <1>0, <1>9 DEF Realtime!OnRefused
<1>10. CASE UNCHANGED realtime
  BY <1>0, <1>10 DEF realtime
<1> QED
  BY <1>1, <1>2, <1>3, <1>4, <1>5, <1>6, <1>7, <1>8, <1>9, <1>10 DEF Realtime!Next

\* A tab of a logged-in user without a connection is about to get one, has used
\* up its attempts or could not authenticate (WebSocketClient, AuthProvider),
\* for any number of attempts, sockets and timers.
THEOREM TabIsHeard == Realtime!Spec => []NeverForgotten
<1>1. Realtime!Init => HeardInv
  BY DEF Realtime!Init, HeardInv
<1>2. Realtime!TypeOK /\ HeardInv /\ [Realtime!Next]_(Realtime!rtVars) => HeardInv'
  BY HeardKeeps DEF realtime, Realtime!rtVars, Realtime!clientVars
<1>3. HeardInv => NeverForgotten
  BY DEF HeardInv, NeverForgotten, Realtime!NeverForgotten
<1> QED
  BY <1>1, <1>2, <1>3, RtTyped, PTL DEF Realtime!Spec

(***************************************************************************)
(* Sessions.  A revocation that has read the set blacklists what it read,  *)
(* and once it has, what it will clear away is blacklisted, or was added   *)
(* in its midst.                                                           *)
(***************************************************************************)
ClearInv ==
    \A p \in Phones :
        /\ doing[p].at = "revoke" => fresh \cap listed \subseteq doing[p].seen \cup raced
        /\ doing[p].at = "clear" => fresh \cap listed \subseteq revoked \cup raced

SessionInv == ClearInv /\ fresh \subseteq listed \cup revoked \cup raced

\* A step that only takes sessions from "fresh", adds some to "revoked", and brings
\* nobody into a revocation, changes nothing.
LEMMA SessionStays ==
  ASSUME SessionInv, fresh' \subseteq fresh, listed' = listed, raced' = raced,
         fresh' \cap revoked \subseteq revoked',
         \A p \in Phones : doing'[p].at \in {"revoke", "clear"} =>
             /\ doing'[p].at = doing[p].at
             /\ doing'[p].seen = doing[p].seen
  PROVE  SessionInv'
<1>1. ClearInv'
  BY SMTT(30) DEF SessionInv, ClearInv
<1> QED
  BY <1>1 DEF SessionInv

\* A revocation may stop anywhere, and overlap with any other.
LEMMA SessionKeeps == Sessions!TypeOK /\ SessionInv /\ [Sessions!Next]_signedIn => SessionInv'
<1> SUFFICES ASSUME Sessions!TypeOK, SessionInv, [Sessions!Next]_signedIn PROVE SessionInv'
  OBVIOUS
<1> USE DEF Sessions!TypeOK, Sessions!tokens, Sessions!Resting, Sessions!Starts, Sessions!Moves,
     Sessions!Ends, Sessions!Stops, Sessions!Ways
<1>1. ASSUME NEW p \in Phones, Sessions!TokenStep(p) PROVE SessionInv'
  <2>1. CASE Sessions!Login(p) \/ Sessions!DeleteAccount(p) \/ Sessions!RequestFails(p)
    BY <2>1, SessionStays DEF Sessions!Login, Sessions!DeleteAccount,
       Sessions!RequestFails, SessionInv
  <2>2. CASE Sessions!ListSessions(p)
    BY <2>2 DEF Sessions!ListSessions, SessionInv, ClearInv
  <2>3. CASE Sessions!RevokeSessions(p)
    <3>1. fresh \cap listed \subseteq revoked' \cup raced
      BY <2>3 DEF Sessions!RevokeSessions, SessionInv, ClearInv
    <3>2. ASSUME NEW q \in Phones, q # p
          PROVE  doing'[q] = doing[q]
      BY <2>3, <3>2 DEF Sessions!RevokeSessions, SessionInv
    <3>3. doing'[p].at = "clear" /\ revoked \subseteq revoked'
      BY <2>3 DEF Sessions!RevokeSessions, SessionInv
    <3>4. ClearInv'
      BY <2>3, <3>1, <3>2, <3>3 DEF Sessions!RevokeSessions, SessionInv, ClearInv
    <3> QED
      BY <2>3, <3>3, <3>4 DEF Sessions!RevokeSessions, SessionInv
  <2>4. CASE Sessions!ClearSessions(p)
    BY <2>4 DEF Sessions!ClearSessions, SessionInv, ClearInv
  <2>5. CASE Sessions!IssueTokens(p)
    BY <2>5 DEF Sessions!IssueTokens, Sessions!Revoking, SessionInv, ClearInv
  <2>6. CASE Sessions!RotateTokens(p) \/ Sessions!SpendToken(p)
    BY <2>6, SessionStays DEF Sessions!RotateTokens, Sessions!SpendToken, SessionInv
  <2>7. CASE Sessions!LogOut(p) \/ Sessions!DropRefresh(p) \/ Sessions!BanSession(p)
    BY <2>7, SessionStays DEF Sessions!LogOut, Sessions!DropRefresh, Sessions!BanSession, SessionInv
  <2> QED
    BY <1>1, <2>1, <2>2, <2>3, <2>4, <2>5, <2>6, <2>7 DEF Sessions!TokenStep
<1>2. ASSUME NEW s \in Sessions!SessionIds, \/ Sessions!AccessExpires(s)
                                           \/ Sessions!BlacklistExpires(s)
                                           \/ Sessions!RefreshExpires(s)
      PROVE SessionInv'
  BY <1>2, SessionStays DEF Sessions!AccessExpires, Sessions!BlacklistExpires,
     Sessions!RefreshExpires, SessionInv
<1>3. CASE Sessions!ListExpires
  BY <1>3 DEF Sessions!ListExpires, SessionInv, ClearInv
<1>4. CASE UNCHANGED signedIn
  BY <1>4 DEF signedIn, SessionInv, ClearInv
<1> QED
  BY <1>1, <1>2, <1>3, <1>4 DEF Sessions!Next

\* However many logins, rotations, logouts and deletions of a user run at once, and
\* whatever fails: a session that is good is blacklisted, or in the set that the
\* next revokeAllUserSessions reads, or was issued in the midst of an earlier one.
THEOREM NoneLost == Sessions!Spec => []NoSessionLost
<1>1. Sessions!Init => SessionInv
  BY DEF Sessions!Init, SessionInv, ClearInv, Sessions!Resting
<1>2. Sessions!TypeOK /\ SessionInv /\ [Sessions!Next]_(Sessions!sessionVars) => SessionInv'
  BY SessionKeeps DEF signedIn, Sessions!sessionVars, Sessions!tokens
<1>3. SessionInv => NoSessionLost
  BY DEF SessionInv, NoSessionLost, Sessions!NoSessionLost
<1> QED
  BY <1>1, <1>2, <1>3, SessionTyped, PTL DEF Sessions!Spec

(***************************************************************************)
(* The composition                                                         *)
(***************************************************************************)
\* All of it holds of the components side by side, as the run Services has them:
\* publishing, codes, bank and partner links, PIN and KYC, the idempotency
\* middleware, the client's connection and its sessions.
THEOREM SideBySide ==
  Spec => /\ PublishKeepsPromise
          /\ [](/\ LockHolds /\ HasDefault /\ PendingKycHasPin /\ DisclosedWasLinked
                /\ ReplaysOwnSuccess /\ NeverForgotten /\ NoSessionLost)
BY Parts, KeepsPromise, LockedOut, DefaultExists, PinIsKept, ToldOnlyLinked, OwnReplay,
   TabIsHeard, NoneLost, PTL
=============================================================================
