------------------------------- MODULE Topup -------------------------------
(***************************************************************************)
(* A wallet top-up, from the order to the credit.  Three services take     *)
(* part and share nothing but a database, Redis and RabbitMQ:              *)
(*                                                                         *)
(*   wallet-service  initiateTopup, verifyPinAndSendOTP, confirmTopupOTP   *)
(*   bank-service    debitAccount, called once over HTTP, unawaited        *)
(*   worker-service  creditWallet / handleFailedDebit, on queue messages   *)
(*                                                                         *)
(* Every awaited database or Redis call is a step of its own, so requests, *)
(* bank calls and message handlers interleave as they do at run time.  A   *)
(* session is one HTTP request of the user together with the bank call it  *)
(* leaves behind; a message carries the state of the handler working on    *)
(* it (the consumer sets no prefetch: any number run at once).             *)
(***************************************************************************)
EXTENDS Integers, FiniteSets, FiniteSetsExt

CONSTANTS
    Users,          \* wallet owners
    Accounts,       \* bank accounts
    Orders,         \* the payment orders that may be created
    Owner,          \* Owner[o]: the user who creates o
    Source,         \* Source[o]: the linked account o draws on
    Amount,         \* Amount[o], in paise
    OpeningFunds,   \* OpeningFunds[a]: bank balance before any top-up
    Frozen,         \* the accounts with isFrozen set
    Sessions,       \* HTTP requests in flight at a time
    Msgs,           \* message copies ever published
    NoOrder,        \* the order of a session or message not in use
    MaxOtpAttempts, \* 5 in the code
    MaxRetries,     \* DEFAULT_MAX_RETRIES, 4 in the code
    MaxCopies,      \* maxAttempts of retryWithBackoff, 4 in the code
    Faults          \* which of the fault classes below can strike

FaultClasses == {"crash",    \* a process dies; an HTTP call never arrives
                 "publish",  \* publishMessage throws
                 "store",    \* a database or Redis call throws
                 "script"}   \* an operator runs fix-stale-orders

ASSUME OrderAssumption ==
    /\ Owner \in [Orders -> Users]
    /\ Source \in [Orders -> Accounts]
    /\ Amount \in [Orders -> Nat \ {0}]
    /\ OpeningFunds \in [Accounts -> Nat]
    /\ NoOrder \notin Orders

ASSUME BoundAssumption ==
    /\ MaxOtpAttempts \in Nat \ {0}
    /\ MaxRetries \in Nat
    /\ MaxCopies \in Nat \ {0}
    /\ Faults \subseteq FaultClasses

VARIABLES
    order,    \* payment_orders.status; "none" before the row exists
    linked,   \* payment_orders.ledgerId is set
    ledger,   \* status of ledger entry TOPUP_<order>; "none" before it exists
    otp,      \* attempts in Redis key OTP_TOPUP(order); NoOtp if absent
    funds,    \* bank_accounts.balance
    fundsVer, \* bank_accounts.version
    balance,  \* wallets.balance
    version,  \* wallets.version
    at,       \* at[s]: the await session s is about to make
    on,       \* on[s]: the order it is about
    seen,     \* seen[s]: OTP attempts, then bank version, as it read them
    place,    \* place[m]: where message m is
    kind,     \* kind[m]: BANK_DEBIT_SUCCESS or BANK_DEBIT_FAILED
    about,    \* about[m]: its referenceId
    tries,    \* tries[m]: its x-retry-count
    readBal,  \* readBal[m], readVer[m]: the wallet as the handler's
    readVer,  \* transaction read it
    stale,    \* orders fix-stale-orders has read and not yet updated
    debits,   \* history: times the bank was debited for an order
    credits,  \* history: times the wallet was credited for an order
    credited  \* history: paise credited to a user's wallet

shop == <<order, linked, ledger, otp>>
bank == <<funds, fundsVer, debits>>
wallet == <<balance, version, credits, credited>>
sess == <<at, on, seen>>
msg == <<place, kind, about, tries, readBal, readVer>>
vars == <<shop, bank, wallet, sess, msg, stale>>
-----------------------------------------------------------------------------
NoOtp == -1

OrderStatus == {"none", "INITIATED", "PENDING", "PROCESSING", "SUCCESS", "FAILED"}
LedgerStatus == {"none", "PENDING", "SUCCESS", "FAILED"}

Stages == {"idle", "pinOk", "otpStored",                              \* verify-pin
           "confirming", "otpRead", "exhausted", "outOfAttempts",     \* confirm
           "accepted", "ledgered",
           "calling", "accountRead", "debited", "rejecting", "failing"} \* debit

\* "queued" in RabbitMQ; "found", "read", "committed" in a handler; "backoff"
\* in a setTimeout of the worker; "dlq", "acked" and "lost" are final.
Places == {"unsent", "queued", "found", "read", "committed", "backoff",
           "dlq", "acked", "lost"}

Init ==
    /\ order = [o \in Orders |-> "none"]
    /\ linked = [o \in Orders |-> FALSE]
    /\ ledger = [o \in Orders |-> "none"]
    /\ otp = [o \in Orders |-> NoOtp]
    /\ funds = OpeningFunds
    /\ fundsVer = [a \in Accounts |-> 0]
    /\ balance = [u \in Users |-> 0]
    /\ version = [u \in Users |-> 0]
    /\ at = [s \in Sessions |-> "idle"]
    /\ on = [s \in Sessions |-> NoOrder]
    /\ seen = [s \in Sessions |-> 0]
    /\ place = [m \in Msgs |-> "unsent"]
    /\ kind = [m \in Msgs |-> "none"]
    /\ about = [m \in Msgs |-> NoOrder]
    /\ tries = [m \in Msgs |-> 0]
    /\ readBal = [m \in Msgs |-> 0]
    /\ readVer = [m \in Msgs |-> 0]
    /\ stale = {}
    /\ debits = [o \in Orders |-> 0]
    /\ credits = [o \in Orders |-> 0]
    /\ credited = [u \in Users |-> 0]
-----------------------------------------------------------------------------
(* wallet-service: creating the order and sending the OTP *)

Goto(s, stage) ==
    /\ at' = [at EXCEPT ![s] = stage]
    /\ UNCHANGED <<on, seen>>

Noting(s, stage, value) ==
    /\ at' = [at EXCEPT ![s] = stage]
    /\ seen' = [seen EXCEPT ![s] = value]
    /\ UNCHANGED on

Begin(s, o, stage) ==
    /\ at[s] = "idle"
    /\ at' = [at EXCEPT ![s] = stage]
    /\ on' = [on EXCEPT ![s] = o]
    /\ UNCHANGED seen

End(s) ==
    /\ at' = [at EXCEPT ![s] = "idle"]
    /\ on' = [on EXCEPT ![s] = NoOrder]
    /\ seen' = [seen EXCEPT ![s] = 0]

\* The checks on the wallet, the linked account and the PIN are made once,
\* here; nothing later in the flow repeats the ones on the wallet.
InitiateTopup(o) ==
    /\ order[o] = "none"
    /\ order' = [order EXCEPT ![o] = "INITIATED"]
    /\ UNCHANGED <<linked, ledger, otp, bank, wallet, sess, msg, stale>>

\* verifyPinAndSendOTP reads the order, then checks the PIN.
VerifyPin(s, o) ==
    /\ order[o] = "INITIATED"
    /\ Begin(s, o, "pinOk")
    /\ UNCHANGED <<shop, bank, wallet, msg, stale>>

StoreOtp(s) ==
    /\ at[s] = "pinOk"
    /\ otp' = [otp EXCEPT ![on[s]] = 0]
    /\ Goto(s, "otpStored")
    /\ UNCHANGED <<order, linked, ledger, bank, wallet, msg, stale>>

\* The e-mail cannot be published: the request throws, the OTP stays behind.
EmailOtpFails(s) ==
    /\ "publish" \in Faults
    /\ at[s] = "otpStored"
    /\ End(s)
    /\ UNCHANGED <<shop, bank, wallet, msg, stale>>

\* The e-mail went out; the update does not look at the status again.
MarkPending(s) ==
    /\ at[s] = "otpStored"
    /\ order' = [order EXCEPT ![on[s]] = "PENDING"]
    /\ End(s)
    /\ UNCHANGED <<linked, ledger, otp, bank, wallet, msg, stale>>

\* The TTL of the Redis key runs out.
OtpExpires(o) ==
    /\ otp[o] # NoOtp
    /\ otp' = [otp EXCEPT ![o] = NoOtp]
    /\ UNCHANGED <<order, linked, ledger, bank, wallet, sess, msg, stale>>
-----------------------------------------------------------------------------
(* wallet-service: confirming with the OTP *)

ConfirmTopup(s, o) ==
    /\ order[o] = "PENDING"
    /\ Begin(s, o, "confirming")
    /\ UNCHANGED <<shop, bank, wallet, msg, stale>>

OtpMissing(s) ==
    /\ at[s] = "confirming"
    /\ otp[on[s]] = NoOtp
    /\ End(s)
    /\ UNCHANGED <<shop, bank, wallet, msg, stale>>

ReadOtp(s) ==
    LET o == on[s]
    IN  /\ at[s] = "confirming"
        /\ otp[o] # NoOtp
        /\ Noting(s, IF otp[o] >= MaxOtpAttempts THEN "exhausted" ELSE "otpRead", otp[o])
        /\ UNCHANGED <<shop, bank, wallet, msg, stale>>

DropOtp(s) ==
    /\ at[s] = "exhausted"
    /\ otp' = [otp EXCEPT ![on[s]] = NoOtp]
    /\ Goto(s, "outOfAttempts")
    /\ UNCHANGED <<order, linked, ledger, bank, wallet, msg, stale>>

FailExhausted(s) ==
    /\ at[s] = "outOfAttempts"
    /\ order' = [order EXCEPT ![on[s]] = "FAILED"]
    /\ End(s)
    /\ UNCHANGED <<linked, ledger, otp, bank, wallet, msg, stale>>

\* setex with the attempts read earlier plus one, whatever the key holds now.
WrongOtp(s) ==
    /\ at[s] = "otpRead"
    /\ otp' = [otp EXCEPT ![on[s]] = seen[s] + 1]
    /\ End(s)
    /\ UNCHANGED <<order, linked, ledger, bank, wallet, msg, stale>>

AcceptOtp(s) ==
    /\ at[s] = "otpRead"
    /\ otp' = [otp EXCEPT ![on[s]] = NoOtp]
    /\ Goto(s, "accepted")
    /\ UNCHANGED <<order, linked, ledger, bank, wallet, msg, stale>>

\* referenceId TOPUP_<order> is unique.  (Mutant: a fresh id per attempt.)
ReferenceNotUnique(o) == TRUE
ReferenceFree(o) == ledger[o] = "none"

\* ledgerEntry.create; a second one throws and the request ends there.
CreateLedger(s) ==
    /\ at[s] = "accepted"
    /\ \/ /\ ReferenceFree(on[s])
          /\ ledger' = [ledger EXCEPT ![on[s]] = "PENDING"]
          /\ Goto(s, "ledgered")
       \/ /\ ~ReferenceFree(on[s])
          /\ End(s)
          /\ UNCHANGED ledger
    /\ UNCHANGED <<order, linked, otp, bank, wallet, msg, stale>>

\* The request answers "PROCESSING" and leaves callBankDebitAsync running.
MarkProcessing(s) ==
    /\ at[s] = "ledgered"
    /\ order' = [order EXCEPT ![on[s]] = "PROCESSING"]
    /\ linked' = [linked EXCEPT ![on[s]] = TRUE]
    /\ Goto(s, "calling")
    /\ UNCHANGED <<ledger, otp, bank, wallet, msg, stale>>
-----------------------------------------------------------------------------
(* bank-service: debitAccount *)

\* publishMessage leaves a set C of copies in the queue: channel.publish can
\* buffer a message and still return false, and every false is retried.
Publish(what, o, C) ==
    /\ \A m \in C : place[m] = "unsent"
    /\ Cardinality(C) <= MaxCopies
    /\ place' = [m \in Msgs |-> IF m \in C THEN "queued" ELSE place[m]]
    /\ kind' = [m \in Msgs |-> IF m \in C THEN what ELSE kind[m]]
    /\ about' = [m \in Msgs |-> IF m \in C THEN o ELSE about[m]]
    /\ UNCHANGED <<tries, readBal, readVer>>

CanDebit(o) == Source[o] \notin Frozen /\ funds[Source[o]] >= Amount[o]

BankReadAccount(s) ==
    /\ at[s] = "calling"
    /\ Noting(s, IF CanDebit(on[s]) THEN "accountRead" ELSE "rejecting", fundsVer[Source[on[s]]])
    /\ UNCHANGED <<shop, bank, wallet, msg, stale>>

\* The version in the where clause of updateMany.  (Mutant: no such clause.)
AccountUnchecked(s) == TRUE
AccountUnchanged(s) == fundsVer[Source[on[s]]] = seen[s]

\* Where debitAccount goes when updateMany counts 0.  (Mutant: count ignored.)
CountIgnored == "debited"
OnConflict == "rejecting"

BankDebit(s) ==
    LET o == on[s]
        a == Source[o]
    IN  /\ at[s] = "accountRead"
        /\ \/ /\ AccountUnchanged(s)
              /\ funds' = [funds EXCEPT ![a] = @ - Amount[o]]
              /\ fundsVer' = [fundsVer EXCEPT ![a] = @ + 1]
              /\ debits' = [debits EXCEPT ![o] = @ + 1]
              /\ Goto(s, "debited")
           \/ /\ ~AccountUnchanged(s)
              /\ Goto(s, OnConflict)
              /\ UNCHANGED bank
        /\ UNCHANGED <<shop, wallet, msg, stale>>

PublishSuccess(s, C) ==
    /\ at[s] = "debited"
    /\ Publish("success", on[s], C)
    /\ \/ /\ C # {}
          /\ End(s)
       \/ /\ "publish" \in Faults      \* the throw lands in the catch block
          /\ Goto(s, "failing")
    /\ UNCHANGED <<shop, bank, wallet, stale>>

PublishRejected(s, C) ==
    /\ at[s] = "rejecting"
    /\ Publish("failed", on[s], C)
    /\ \/ /\ C # {}
          /\ End(s)
       \/ /\ "publish" \in Faults
          /\ Goto(s, "failing")
    /\ UNCHANGED <<shop, bank, wallet, stale>>

\* The catch block: INTERNAL_ERROR is published, whatever was done before.
PublishInternalError(s, C) ==
    /\ at[s] = "failing"
    /\ C # {} \/ "publish" \in Faults
    /\ Publish("failed", on[s], C)
    /\ End(s)
    /\ UNCHANGED <<shop, bank, wallet, stale>>

\* A query throws before anything is written: the catch block again.
BankQueryThrows(s) ==
    /\ "store" \in Faults
    /\ at[s] \in {"calling", "accountRead"}
    /\ Goto(s, "failing")
    /\ UNCHANGED <<shop, bank, wallet, msg, stale>>

\* The process running a request dies (a query of the request that throws ends
\* it just as well), or the HTTP call is never answered:
\* fetch is not retried and its error is only logged.
SessionDies(s) ==
    /\ "crash" \in Faults
    /\ at[s] # "idle"
    /\ End(s)
    /\ UNCHANGED <<shop, bank, wallet, msg, stale>>
-----------------------------------------------------------------------------
(* worker-service: consumeQueue around creditWallet and handleFailedDebit *)

Move(m, to) ==
    /\ place' = [place EXCEPT ![m] = to]
    /\ UNCHANGED <<kind, about, tries, readBal, readVer>>

\* The handler's transaction is over, committed or rolled back.
Leave(m, to) ==
    /\ place' = [place EXCEPT ![m] = to]
    /\ readBal' = [readBal EXCEPT ![m] = 0]
    /\ readVer' = [readVer EXCEPT ![m] = 0]
    /\ UNCHANGED <<kind, about>>

\* Mutants of Retry: one retry too many; the error swallowed, as in the other
\* consumer.
RetryOnceMore(m) ==
    \/ tries[m] <= MaxRetries /\ Leave(m, "backoff") /\ tries' = [tries EXCEPT ![m] = @ + 1]
    \/ tries[m] > MaxRetries /\ Leave(m, "dlq") /\ UNCHANGED tries
RetrySwallowed(m) == Leave(m, "acked") /\ UNCHANGED tries

\* The catch of consumeQueue: schedule a retry and acknowledge, or dead-letter.
Retry(m) ==
    \/ tries[m] < MaxRetries /\ Leave(m, "backoff") /\ tries' = [tries EXCEPT ![m] = @ + 1]
    \/ tries[m] >= MaxRetries /\ Leave(m, "dlq") /\ UNCHANGED tries

\* creditWallet looks for the order before it opens its transaction.
FindProcessing(m) ==
    LET o == about[m]
    IN  /\ place[m] = "queued" /\ kind[m] = "success"
        /\ IF order[o] = "PROCESSING" /\ linked[o]
           THEN Move(m, "found")
           ELSE Retry(m)
        /\ UNCHANGED <<shop, bank, wallet, sess, stale>>

\* The transaction (READ COMMITTED) reads the wallet ...
ReadWallet(m) ==
    LET u == Owner[about[m]]
    IN  /\ place[m] = "found" /\ kind[m] = "success"
        /\ place' = [place EXCEPT ![m] = "read"]
        /\ readBal' = [readBal EXCEPT ![m] = balance[u]]
        /\ readVer' = [readVer EXCEPT ![m] = version[u]]
        /\ UNCHANGED <<shop, bank, wallet, sess, kind, about, tries, stale>>

\* The version in the where clause of wallet.update.  (Mutant: by userId only.)
WalletUnchecked(m) == TRUE
WalletUnchanged(m) == version[Owner[about[m]]] = readVer[m]

\* ... and writes ledger, wallet and order together, if the version still holds.
CommitCredit(m) ==
    LET o == about[m]
        u == Owner[o]
    IN  /\ place[m] = "read"
        /\ WalletUnchanged(m)
        /\ ledger' = [ledger EXCEPT ![o] = "SUCCESS"]
        /\ balance' = [balance EXCEPT ![u] = readBal[m] + Amount[o]]
        /\ version' = [version EXCEPT ![u] = @ + 1]
        /\ order' = [order EXCEPT ![o] = "SUCCESS"]
        /\ credits' = [credits EXCEPT ![o] = @ + 1]
        /\ credited' = [credited EXCEPT ![u] = @ + Amount[o]]
        /\ Leave(m, "committed")
        /\ UNCHANGED <<linked, otp, bank, sess, tries, stale>>

CreditConflict(m) ==
    /\ place[m] = "read"
    /\ ~WalletUnchanged(m)
    /\ Retry(m)
    /\ UNCHANGED <<shop, bank, wallet, sess, stale>>

\* handleFailedDebit returns when there is nothing to fail: the message is acked.
FindFailable(m) ==
    LET o == about[m]
    IN  /\ place[m] = "queued" /\ kind[m] = "failed"
        /\ Move(m, IF order[o] \in {"PROCESSING", "PENDING"} /\ linked[o]
                   THEN "found" ELSE "acked")
        /\ UNCHANGED <<shop, bank, wallet, sess, stale>>

\* Mutant: the order is left for a later statement.
FailLedgerOnly(m) ==
    /\ place[m] = "found" /\ kind[m] = "failed"
    /\ ledger' = [ledger EXCEPT ![about[m]] = "FAILED"]
    /\ Move(m, "committed")
    /\ UNCHANGED <<order, linked, otp, bank, wallet, sess, stale>>

CommitFailure(m) ==
    LET o == about[m]
    IN  /\ place[m] = "found" /\ kind[m] = "failed"
        /\ ledger' = [ledger EXCEPT ![o] = "FAILED"]
        /\ order' = [order EXCEPT ![o] = "FAILED"]
        /\ Move(m, "committed")
        /\ UNCHANGED <<linked, otp, bank, wallet, sess, stale>>

Ack(m) ==
    /\ place[m] = "committed"
    /\ Move(m, "acked")
    /\ UNCHANGED <<shop, bank, wallet, sess, stale>>

InHandler(m) == place[m] \in {"found", "read", "committed"}

\* A database or Redis call throws (the cache invalidation after the commit
\* included): the success consumer rethrows, the failure consumer swallows.
HandlerThrows(m) ==
    /\ "store" \in Faults
    /\ InHandler(m)
    /\ IF kind[m] = "success" THEN Retry(m) ELSE Move(m, "acked")
    /\ UNCHANGED <<shop, bank, wallet, sess, stale>>

\* The setTimeout fires and sends the message to its queue again.
Requeue(m) ==
    /\ place[m] = "backoff"
    /\ Move(m, "queued")
    /\ UNCHANGED <<shop, bank, wallet, sess, stale>>

\* Unacknowledged messages are redelivered; one that waits in a setTimeout has
\* been acknowledged already and is gone.
WorkerCrash ==
    /\ "crash" \in Faults
    /\ \E m \in Msgs : InHandler(m) \/ place[m] = "backoff"
    /\ place' = [m \in Msgs |-> IF InHandler(m) THEN "queued"
                               ELSE IF place[m] = "backoff" THEN "lost"
                               ELSE place[m]]
    /\ readBal' = [m \in Msgs |-> 0]
    /\ readVer' = [m \in Msgs |-> 0]
    /\ UNCHANGED <<kind, about, tries>>
    /\ UNCHANGED <<shop, bank, wallet, sess, stale>>
-----------------------------------------------------------------------------
(* The script fix-stale-orders: findMany, then one update per order found *)

FindStale(o) ==
    /\ "script" \in Faults
    /\ order[o] \in {"PENDING", "PROCESSING"}
    /\ stale' = stale \cup {o}
    /\ UNCHANGED <<shop, bank, wallet, sess, msg>>

FailStale(o) ==
    /\ o \in stale
    /\ order' = [order EXCEPT ![o] = "FAILED"]
    /\ stale' = stale \ {o}
    /\ UNCHANGED <<linked, ledger, otp, bank, wallet, sess, msg>>
-----------------------------------------------------------------------------
OrderStep(o) == InitiateTopup(o) \/ OtpExpires(o) \/ FindStale(o) \/ FailStale(o)

RequestStep(s) ==
    \/ \E o \in Orders : VerifyPin(s, o) \/ ConfirmTopup(s, o)
    \/ StoreOtp(s) \/ EmailOtpFails(s) \/ MarkPending(s)
    \/ OtpMissing(s) \/ ReadOtp(s) \/ DropOtp(s) \/ FailExhausted(s)
    \/ WrongOtp(s) \/ AcceptOtp(s)
    \/ CreateLedger(s) \/ MarkProcessing(s)

BankStep(s) ==
    \/ BankReadAccount(s) \/ BankDebit(s) \/ BankQueryThrows(s)
    \/ \E C \in SUBSET Msgs :
          PublishSuccess(s, C) \/ PublishRejected(s, C) \/ PublishInternalError(s, C)

HandlerStep(m) ==
    \/ FindProcessing(m) \/ ReadWallet(m) \/ CommitCredit(m) \/ CreditConflict(m)
    \/ FindFailable(m) \/ CommitFailure(m) \/ Ack(m) \/ Requeue(m)

Next ==
    \/ \E o \in Orders : OrderStep(o)
    \/ \E s \in Sessions : RequestStep(s) \/ BankStep(s) \/ SessionDies(s)
    \/ \E m \in Msgs : HandlerStep(m) \/ HandlerThrows(m)
    \/ WorkerCrash

Spec == Init /\ [][Next]_vars

\* A service that runs keeps going with what it has begun: a request (but the
\* user may or may not send one, with a right or a wrong OTP), a bank call, a
\* message.  Used with Faults = {} only.
Fairness ==
    /\ \A s \in Sessions :
          /\ WF_vars(StoreOtp(s) \/ MarkPending(s) \/ OtpMissing(s) \/ ReadOtp(s)
                      \/ DropOtp(s) \/ FailExhausted(s) \/ WrongOtp(s) \/ AcceptOtp(s)
                      \/ CreateLedger(s) \/ MarkProcessing(s))
          /\ WF_vars(BankStep(s))
    /\ \A m \in Msgs : WF_vars(HandlerStep(m))

FairSpec == Spec /\ Fairness
-----------------------------------------------------------------------------
(* Properties *)

TypeOK ==
    /\ order \in [Orders -> OrderStatus]
    /\ linked \in [Orders -> BOOLEAN]
    /\ ledger \in [Orders -> LedgerStatus]
    /\ otp \in [Orders -> NoOtp..MaxOtpAttempts]
    /\ funds \in [Accounts -> Int] /\ fundsVer \in [Accounts -> Nat]
    /\ balance \in [Users -> Nat] /\ version \in [Users -> Nat]
    /\ at \in [Sessions -> Stages] /\ seen \in [Sessions -> Nat]
    /\ on \in [Sessions -> Orders \cup {NoOrder}]
    /\ \A s \in Sessions : at[s] # "idle" => on[s] \in Orders
    /\ \A s \in Sessions : at[s] = "otpRead" => seen[s] < MaxOtpAttempts
    /\ place \in [Msgs -> Places] /\ kind \in [Msgs -> {"none", "success", "failed"}]
    /\ about \in [Msgs -> Orders \cup {NoOrder}]
    /\ \A m \in Msgs : place[m] # "unsent" => about[m] \in Orders /\ kind[m] # "none"
    /\ tries \in [Msgs -> 0..MaxRetries]
    /\ readBal \in [Msgs -> Nat] /\ readVer \in [Msgs -> Nat]
    /\ stale \subseteq Orders
    /\ debits \in [Orders -> Nat] /\ credits \in [Orders -> Nat]
    /\ credited \in [Users -> Nat]

\* However many times an order is verified and confirmed, concurrently or
\* again after its status was thrown back, the bank is debited for it at most
\* once: the unique referenceId of the ledger entry is the only thing that
\* makes confirmTopupOTP safe to repeat.
DebitedOnce == \A o \in Orders : debits[o] <= 1

\* debitAccount takes only money that is there, whatever calls run at once:
\* the balance it checked is the balance it decrements, by the version.
NoOverdraft == \A a \in Accounts : funds[a] >= 0

\* creditWallet writes an absolute balance computed from an earlier read; no
\* credit that runs at the same time is lost, since the version is checked.
NoLostCredit == \A u \in Users : balance[u] = credited[u]

\* A wallet is credited, and a ledger entry is SUCCESS, only for an order the
\* bank has been debited for.
CreditedOnlyIfDebited ==
    \A o \in Orders :
        (credits[o] > 0 \/ ledger[o] = "SUCCESS" \/ order[o] = "SUCCESS") => debits[o] = 1

\* What the bank-reconciliation job verifies: a SUCCESS order has its ledger
\* entry and the entry is SUCCESS.  Every interleaving of late requests,
\* failure events, duplicates and the stale-order script keeps it.
SuccessOrderReconciles ==
    \A o \in Orders : order[o] = "SUCCESS" => linked[o] /\ ledger[o] = "SUCCESS"

\* A success event is acknowledged for good only after the wallet was credited:
\* it may be dead-lettered or die in a backoff timer, but not be dropped.
AckedMeansCredited ==
    \A m \in Msgs :
        kind[m] = "success" /\ place[m] \in {"committed", "acked"} => credits[about[m]] > 0

\* Money the bank has taken for an order reaches the wallet, or the event that
\* says so ends in the dead-letter queue, where requeueDlqMessages finds it.
DebitSettles ==
    \A o \in Orders :
        debits[o] = 1 ~> \/ credits[o] > 0
                         \/ \E m \in Msgs : about[m] = o /\ place[m] = "dlq"

\* What confirmTopupOTP answers: "Payment is being processed. You will be
\* notified once completed."
ProcessingSettles ==
    \A o \in Orders : order[o] = "PROCESSING" ~> order[o] \in {"SUCCESS", "FAILED"}

\* The saga implements Settlement: every step of every service takes an order's
\* amount from the bank once, gives it to the wallet, or touches no money.
Promise == INSTANCE Settlement
MoneySettles == Promise!Spec

SumOf(f, S) == MapThenSumSet(LAMBDA x : f[x], S)

\* The wallet-reconciliation job: a wallet's balance is the sum of the user's
\* SUCCESS ledger entries ("100% Match").
BookOf(u) == {o \in Orders : Owner[o] = u /\ ledger[o] = "SUCCESS"}
WalletMatchesLedger ==
    \A u \in Users : balance[u] = SumOf(Amount, BookOf(u))
-----------------------------------------------------------------------------
(* Why the safety properties hold: an invariant that every step preserves. *)

\* The request that created the ledger entry owns the only debit of its order
\* until it has made it.
Paying(s) == at[s] \in {"ledgered", "calling", "accountRead"}
DebitInv ==
    /\ \A s \in Sessions : Paying(s) => ledger[on[s]] # "none" /\ debits[on[s]] = 0
    /\ \A s, t \in Sessions : Paying(s) /\ Paying(t) /\ on[s] = on[t] => s = t
    /\ \A o \in Orders : ledger[o] = "none" => debits[o] = 0
    /\ DebitedOnce

\* A version that still matches stands for the row that was read with it.
FundsInv ==
    /\ \A s \in Sessions : at[s] = "accountRead" =>
          /\ seen[s] <= fundsVer[Source[on[s]]]
          /\ AccountUnchanged(s) => CanDebit(on[s])
    /\ NoOverdraft
StampInv ==
    /\ \A m \in Msgs : place[m] = "read" =>
          /\ readVer[m] <= version[Owner[about[m]]]
          /\ WalletUnchanged(m) => readBal[m] = balance[Owner[about[m]]]
    /\ NoLostCredit

\* A success event exists only because the bank was debited.
CreditInv ==
    /\ \A s \in Sessions : at[s] = "debited" => debits[on[s]] = 1
    /\ \A m \in Msgs : place[m] # "unsent" /\ kind[m] = "success" => debits[about[m]] = 1
    /\ \A m \in Msgs : place[m] = "read" => kind[m] = "success"
    /\ CreditedOnlyIfDebited

\* A handler that found its order found it linked, and links are never cut.
ReconInv ==
    /\ \A m \in Msgs : place[m] \in {"found", "read"} => linked[about[m]]
    /\ SuccessOrderReconciles

IInv == DebitInv /\ FundsInv /\ StampInv /\ CreditInv /\ ReconInv /\ AckedMeansCredited
=============================================================================
