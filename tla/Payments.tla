------------------------------ MODULE Payments ------------------------------
(***************************************************************************)
(* The wallet-service operations that move money out of a user's wallet:   *)
(* P2P transfers (validate, then confirm), payment requests (pay, decline, *)
(* cancel, expire) and withdrawals to the linked bank account.             *)
(*                                                                         *)
(* Money moves in SERIALIZABLE transactions: a session takes a snapshot,   *)
(* computes absolute balances from it, and commits only if no row it       *)
(* writes was changed since (PostgreSQL aborts the second updater).        *)
(* Everything around the transaction -- the status a request was read in,  *)
(* the pending transfer in Redis, the Redis lock and its TTL -- is read    *)
(* and written by separate calls, and those interleave.                    *)
(***************************************************************************)
EXTENDS Integers, FiniteSets, FiniteSetsExt

CONSTANTS
    Users,
    CanSend,      \* wallets ACTIVE and not frozen
    CanReceive,   \* wallets ACTIVE or PENDING_KYC, and not frozen
    Transfers,    \* transferIds that validateP2PTransfer may hand out
    Requests,     \* payment requests that may be created
    Withdrawals,  \* POST /withdraw calls
    From,         \* From[p]: who pays
    To,           \* To[p]: who is paid (a withdrawal: the same user's bank)
    Amount,       \* Amount[p], in paise
    Opening,      \* Opening[u]: balance to start with
    Keys,         \* Idempotency-Key headers sent with confirmations
    Sessions,     \* HTTP requests in flight at a time
    Nothing,      \* no payment, no lock holder
    MaxTopups     \* bound on the top-ups credited meanwhile

Payments == Transfers \cup Requests \cup Withdrawals

ASSUME PaymentAssumption ==
    /\ IsFiniteSet(Users)
    /\ CanSend \subseteq Users /\ CanReceive \subseteq Users
    /\ From \in [Payments -> Users]
    /\ To \in [Payments -> Users]
    /\ Amount \in [Payments -> Nat \ {0}]
    /\ Opening \in [Users -> Nat]
    /\ Transfers \cap Requests = {} /\ Transfers \cap Withdrawals = {}
    /\ Requests \cap Withdrawals = {} /\ Keys \cap Requests = {}
    /\ Nothing \notin Payments \cup Sessions \cup Keys
    /\ MaxTopups \in Nat

VARIABLES
    balance,  \* wallets.balance
    version,  \* wallets.version
    bank,     \* what withdrawals have added to bank_accounts.balance
    booked,   \* sum of the user's SUCCESS ledger entries
    used,     \* p2p_transfers.idempotencyKey, unique
    pending,  \* pending[t]: senderVersion in PENDING_TRANSFER(t), or Absent
    status,   \* payment_requests.status; "none" before the row exists
    edits,    \* row version of the payment request, kept by the database
    overdue,  \* requests past their expiresAt
    lock,     \* lock[r]: who holds the Redis lock on resource r
    at,       \* at[s]: the await session s is about to make
    doing,    \* doing[s]: the payment it is about
    key,      \* key[s]: its Idempotency-Key
    want,     \* want[s]: senderVersion of the pending transfer
    sawBal,   \* sawBal[s], sawVer[s], sawEdits[s]: the snapshot of its
    sawVer,   \* transaction
    sawEdits,
    shown,    \* history: the newBalance shown when t was validated
    moved,    \* history: times payment p moved money
    topups    \* history: top-ups credited

wallets == <<balance, version, bank, booked, used, moved>>
requests == <<status, edits, overdue>>
sess == <<at, doing, key, want, sawBal, sawVer, sawEdits>>
vars == <<wallets, requests, sess, pending, lock, shown, topups>>
-----------------------------------------------------------------------------
Absent == -1

RequestStatus == {"none", "PENDING", "APPROVED", "REJECTED", "EXPIRED"}

Stages == {"idle", "validated",                       \* validate
           "checked", "locked", "begin", "inTx",      \* the transaction
           "committed", "failed", "cleanup",          \* and after it
           "answering", "expiring"}                   \* requests

\* withLock(`transfer:${sender}:${recipient}`) or (`request:pay:${id}`).
Resource(p) == IF p \in Transfers THEN <<From[p], To[p]>> ELSE <<p>>
Resources == {Resource(p) : p \in Transfers \cup Requests}

Init ==
    /\ balance = Opening
    /\ version = [u \in Users |-> 0]
    /\ bank = [u \in Users |-> 0]
    /\ booked = [u \in Users |-> 0]
    /\ used = {}
    /\ pending = [t \in Transfers |-> Absent]
    /\ status = [r \in Requests |-> "none"]
    /\ edits = [r \in Requests |-> 0]
    /\ overdue = {}
    /\ lock = [r \in Resources |-> Nothing]
    /\ at = [s \in Sessions |-> "idle"]
    /\ doing = [s \in Sessions |-> Nothing]
    /\ key = [s \in Sessions |-> Nothing]
    /\ want = [s \in Sessions |-> 0]
    /\ sawBal = [s \in Sessions |-> Opening]
    /\ sawVer = [s \in Sessions |-> [u \in Users |-> 0]]
    /\ sawEdits = [s \in Sessions |-> [r \in Requests |-> 0]]
    /\ shown = [t \in Transfers |-> Absent]
    /\ moved = [p \in Payments |-> 0]
    /\ topups = 0
-----------------------------------------------------------------------------
Goto(s, stage) ==
    /\ at' = [at EXCEPT ![s] = stage]
    /\ UNCHANGED <<doing, key, want, sawBal, sawVer, sawEdits>>

Begin(s, p, k, v, stage) ==
    /\ at[s] = "idle"
    /\ at' = [at EXCEPT ![s] = stage]
    /\ doing' = [doing EXCEPT ![s] = p]
    /\ key' = [key EXCEPT ![s] = k]
    /\ want' = [want EXCEPT ![s] = v]
    /\ UNCHANGED <<sawBal, sawVer, sawEdits>>

Forget(s) ==
    /\ key' = [key EXCEPT ![s] = Nothing]
    /\ want' = [want EXCEPT ![s] = 0]
    /\ sawBal' = [sawBal EXCEPT ![s] = Opening]
    /\ sawVer' = [sawVer EXCEPT ![s] = [u \in Users |-> 0]]
    /\ sawEdits' = [sawEdits EXCEPT ![s] = [r \in Requests |-> 0]]

\* The transaction is over.
LeaveTx(s, stage) ==
    /\ at' = [at EXCEPT ![s] = stage]
    /\ UNCHANGED doing
    /\ Forget(s)

End(s) ==
    /\ at' = [at EXCEPT ![s] = "idle"]
    /\ doing' = [doing EXCEPT ![s] = Nothing]
    /\ Forget(s)
-----------------------------------------------------------------------------
(* P2P transfers *)

\* CANNOT_SEND_TO_SELF.  (Mutant: not refused.)
SelfAllowed(p) == TRUE
NotToSelf(p) == From[p] # To[p]

\* validateP2PTransfer reads sender and recipient ...
ValidateTransfer(s, t) ==
    /\ shown[t] = Absent                        \* transferId is fresh
    /\ From[t] \in CanSend /\ To[t] \in CanReceive
    /\ NotToSelf(t)
    /\ balance[From[t]] >= Amount[t]
    /\ Begin(s, t, Nothing, version[From[t]], "validated")
    /\ shown' = [shown EXCEPT ![t] = balance[From[t]] - Amount[t]]
    /\ UNCHANGED <<wallets, requests, pending, lock, topups>>

\* ... and stores the pending transfer with the version it read, for 300 s.
StorePending(s) ==
    /\ at[s] = "validated"
    /\ pending' = [pending EXCEPT ![doing[s]] = want[s]]
    /\ End(s)
    /\ UNCHANGED <<wallets, requests, lock, shown, topups>>

PendingExpires(t) ==
    /\ pending[t] # Absent
    /\ pending' = [pending EXCEPT ![t] = Absent]
    /\ UNCHANGED <<wallets, requests, sess, lock, shown, topups>>

\* confirmP2PTransfer: the pending transfer is read, and the PIN checked.
ConfirmTransfer(s, t, k) ==
    /\ pending[t] # Absent
    /\ Begin(s, t, k, pending[t], "checked")
    /\ UNCHANGED <<wallets, requests, pending, lock, shown, topups>>

DelPending(s) ==
    /\ at[s] = "cleanup"
    /\ pending' = [pending EXCEPT ![doing[s]] = Absent]
    /\ End(s)
    /\ UNCHANGED <<wallets, requests, lock, shown, topups>>
-----------------------------------------------------------------------------
(* Payment requests *)

CreateRequest(r) ==
    /\ status[r] = "none"
    /\ From[r] \in CanReceive                   \* recipient.canReceive
    /\ NotToSelf(r)
    /\ status' = [status EXCEPT ![r] = "PENDING"]
    /\ UNCHANGED <<edits, overdue, wallets, sess, pending, lock, shown, topups>>

TimePasses(r) ==
    /\ status[r] # "none"
    /\ overdue' = overdue \cup {r}
    /\ UNCHANGED <<status, edits, wallets, sess, pending, lock, shown, topups>>

\* payRequest reads the request, and the PIN if it is to be paid.
PayRequest(s, r) ==
    /\ status[r] = "PENDING"
    /\ Begin(s, r, r, 0, IF r \in overdue THEN "expiring" ELSE "checked")
    /\ UNCHANGED <<wallets, requests, pending, lock, shown, topups>>

\* getRequestDetails reads it too, and expires what it finds overdue.
ViewRequest(s, r) ==
    /\ status[r] = "PENDING" /\ r \in overdue
    /\ Begin(s, r, Nothing, 0, "expiring")
    /\ UNCHANGED <<wallets, requests, pending, lock, shown, topups>>

\* declineRequest and cancelRequest read it ...
AnswerRequest(s, r) ==
    /\ status[r] = "PENDING"
    /\ Begin(s, r, Nothing, 0, "answering")
    /\ UNCHANGED <<wallets, requests, pending, lock, shown, topups>>

\* (Mutant: the status cancelRequest answers with, which is not in the enum.)
OverwriteAsAnswered(r, to) ==
    /\ status' = [status EXCEPT ![r] = IF to = "REJECTED" THEN "CANCELLED" ELSE to]
    /\ edits' = [edits EXCEPT ![r] = @ + 1]
    /\ UNCHANGED overdue

Overwrite(r, to) ==
    /\ status' = [status EXCEPT ![r] = to]
    /\ edits' = [edits EXCEPT ![r] = @ + 1]
    /\ UNCHANGED overdue

\* ... and write by id alone, as expireRequestIfNeeded does.
WriteAnswer(s) ==
    /\ \/ at[s] = "answering" /\ Overwrite(doing[s], "REJECTED")
       \/ at[s] = "expiring" /\ Overwrite(doing[s], "EXPIRED")
    /\ End(s)
    /\ UNCHANGED <<wallets, pending, lock, shown, topups>>

\* The expiry job's updateMany states the status in its where clause.
ExpireOverdue ==
    LET due == {r \in overdue : status[r] = "PENDING"}
    IN  /\ due # {}
        /\ status' = [r \in Requests |-> IF r \in due THEN "EXPIRED" ELSE status[r]]
        /\ edits' = [r \in Requests |-> IF r \in due THEN edits[r] + 1 ELSE edits[r]]
        /\ UNCHANGED <<overdue, wallets, sess, pending, lock, shown, topups>>
-----------------------------------------------------------------------------
(* The Redis lock *)

\* A withdrawal takes no lock: its PIN is checked and its transaction begins.
Withdraw(s, w) ==
    /\ Begin(s, w, Nothing, 0, "begin")
    /\ UNCHANGED <<wallets, requests, pending, lock, shown, topups>>

AcquireLock(s) ==
    /\ at[s] = "checked"
    /\ lock[Resource(doing[s])] = Nothing
    /\ lock' = [lock EXCEPT ![Resource(doing[s])] = s]
    /\ Goto(s, "locked")
    /\ UNCHANGED <<wallets, requests, pending, shown, topups>>

\* 50 attempts 100 ms apart have failed.
LockTimesOut(s) ==
    /\ at[s] = "checked"
    /\ lock[Resource(doing[s])] # Nothing
    /\ End(s)
    /\ UNCHANGED <<wallets, requests, pending, lock, shown, topups>>

\* The TTL is 10 s, whatever its holder is still doing.
LockExpires(r) ==
    /\ lock[r] # Nothing
    /\ lock' = [lock EXCEPT ![r] = Nothing]
    /\ UNCHANGED <<wallets, requests, sess, pending, shown, topups>>

\* The finally of withLock deletes the key only if it still is the session's.
ReleaseLock(s) ==
    LET r == Resource(doing[s])
    IN  /\ at[s] \in {"committed", "failed"} /\ doing[s] \notin Withdrawals
        /\ lock' = IF lock[r] = s THEN [lock EXCEPT ![r] = Nothing] ELSE lock
        /\ IF at[s] = "committed" /\ doing[s] \in Transfers THEN Goto(s, "cleanup") ELSE End(s)
        /\ UNCHANGED <<wallets, requests, pending, shown, topups>>

WithdrawalDone(s) ==
    /\ at[s] \in {"committed", "failed"} /\ doing[s] \in Withdrawals
    /\ End(s)
    /\ UNCHANGED <<wallets, requests, pending, lock, shown, topups>>
-----------------------------------------------------------------------------
(* The transactions: executeTransfer, executeRequestPayment, withdrawal *)

\* The first queries fix the snapshot.
Snapshot(s) ==
    /\ at[s] \in {"locked", "begin"}
    /\ at' = [at EXCEPT ![s] = "inTx"]
    /\ sawBal' = [sawBal EXCEPT ![s] = balance]
    /\ sawVer' = [sawVer EXCEPT ![s] = version]
    /\ sawEdits' = [sawEdits EXCEPT ![s] = edits]
    /\ UNCHANGED <<doing, key, want>>
    /\ UNCHANGED <<wallets, requests, pending, lock, shown, topups>>

\* BALANCE_CHANGED.  (Mutant: the wallet is not compared with the validation.)
VersionIgnored(s) == TRUE
VersionAsValidated(s) ==
    doing[s] \in Transfers => sawVer[s][From[doing[s]]] = want[s]

\* (Mutant: the balance was checked at validation only.)
AllowedAsValidated(s) ==
    LET p == doing[s]
    IN  /\ VersionIgnored(s)
        /\ From[p] \in CanSend
        /\ p \notin Withdrawals => To[p] \in CanReceive

Allowed(s) ==
    LET p == doing[s]
    IN  /\ VersionAsValidated(s)
        /\ From[p] \in CanSend
        /\ sawBal[s][From[p]] >= Amount[p]
        /\ p \notin Withdrawals => To[p] \in CanReceive

\* SERIALIZABLE: no row the transaction writes has changed since its snapshot.
\* (Mutant: the default isolation level.)
ReadCommitted(s) == TRUE
RowsUnchanged(s) ==
    LET p == doing[s]
    IN  /\ \A u \in {From[p], To[p]} : version[u] = sawVer[s][u]
        /\ p \in Requests => edits[p] = sawEdits[s][p]

\* p2p_transfers.idempotencyKey is unique: a confirmation's header, or
\* `req_pay_${requestId}`.  (Mutant: no unique index.)
KeyNotUnique(s) == TRUE
KeyUnused(s) == doing[s] \notin Withdrawals => key[s] \notin used

MoveMoney(s) ==
    LET p == doing[s]
        f == From[p]
        u == To[p]
        left == sawBal[s][f] - Amount[p]
    IN  /\ moved' = [moved EXCEPT ![p] = @ + 1]
        /\ IF p \in Withdrawals
           THEN /\ balance' = [balance EXCEPT ![f] = left]
                /\ version' = [version EXCEPT ![f] = @ + 1]
                /\ bank' = [bank EXCEPT ![f] = @ + Amount[p]]
                /\ booked' = [booked EXCEPT ![f] = @ - Amount[p]]
                /\ UNCHANGED used
           ELSE /\ balance' = [balance EXCEPT ![f] = left, ![u] = sawBal[s][u] + Amount[p]]
                /\ version' = [version EXCEPT ![f] = @ + 1, ![u] = @ + 1]
                /\ booked' = [booked EXCEPT ![f] = @ - Amount[p], ![u] = @ + Amount[p]]
                /\ used' = used \cup {key[s]}
                /\ UNCHANGED bank

Commit(s) ==
    /\ at[s] = "inTx" /\ Allowed(s) /\ RowsUnchanged(s) /\ KeyUnused(s)
    /\ MoveMoney(s)
    /\ IF doing[s] \in Requests THEN Overwrite(doing[s], "APPROVED") ELSE UNCHANGED requests
    /\ LeaveTx(s, "committed")
    /\ UNCHANGED <<pending, lock, shown, topups>>

\* Refused, aborted by the database, or out of the 10 s it may take.
Abort(s) ==
    /\ at[s] = "inTx"
    /\ LeaveTx(s, "failed")
    /\ UNCHANGED <<wallets, requests, pending, lock, shown, topups>>
-----------------------------------------------------------------------------
\* The process dies: its transaction rolls back, its lock stays until the TTL.
SessionDies(s) ==
    /\ at[s] # "idle"
    /\ End(s)
    /\ UNCHANGED <<wallets, requests, pending, lock, shown, topups>>

\* The worker credits a top-up meanwhile, by the version it read (see Topup).
CreditTopup(u) ==
    /\ topups < MaxTopups
    /\ balance' = [balance EXCEPT ![u] = @ + 1]
    /\ version' = [version EXCEPT ![u] = @ + 1]
    /\ booked' = [booked EXCEPT ![u] = @ + 1]
    /\ topups' = topups + 1
    /\ UNCHANGED <<bank, used, moved, requests, sess, pending, lock, shown>>

TransferStep(s) ==
    \/ \E t \in Transfers : ValidateTransfer(s, t) \/ \E k \in Keys : ConfirmTransfer(s, t, k)
    \/ StorePending(s) \/ DelPending(s)

RequestStep(s) ==
    \/ \E r \in Requests : PayRequest(s, r) \/ ViewRequest(s, r) \/ AnswerRequest(s, r)
    \/ WriteAnswer(s)

LockStep(s) == AcquireLock(s) \/ LockTimesOut(s) \/ ReleaseLock(s)

TxStep(s) ==
    \/ \E w \in Withdrawals : Withdraw(s, w)
    \/ Snapshot(s) \/ Commit(s) \/ Abort(s) \/ WithdrawalDone(s)

Next ==
    \/ \E s \in Sessions :
          TransferStep(s) \/ RequestStep(s) \/ LockStep(s) \/ TxStep(s) \/ SessionDies(s)
    \/ \E t \in Transfers : PendingExpires(t)
    \/ \E r \in Requests : CreateRequest(r) \/ TimePasses(r)
    \/ \E r \in Resources : LockExpires(r)
    \/ \E u \in Users : CreditTopup(u)
    \/ ExpireOverdue

Spec == Init /\ [][Next]_vars
-----------------------------------------------------------------------------
(* Properties *)

StoresOK ==
    /\ balance \in [Users -> Int] /\ version \in [Users -> Nat]
    /\ bank \in [Users -> Nat] /\ booked \in [Users -> Int]
    /\ used \subseteq Keys \cup Requests
    /\ pending \in [Transfers -> Nat \cup {Absent}]
    /\ status \in [Requests -> RequestStatus] /\ edits \in [Requests -> Nat]
    /\ overdue \subseteq Requests
    /\ lock \in [Resources -> Sessions \cup {Nothing}]
    /\ shown \in [Transfers -> Nat \cup {Absent}]
    /\ moved \in [Payments -> Nat] /\ topups \in Nat

SessionsOK ==
    /\ at \in [Sessions -> Stages]
    /\ doing \in [Sessions -> Payments \cup {Nothing}]
    /\ key \in [Sessions -> Keys \cup Requests \cup {Nothing}]
    /\ want \in [Sessions -> Nat]
    /\ sawBal \in [Sessions -> [Users -> Int]]
    /\ sawVer \in [Sessions -> [Users -> Nat]]
    /\ sawEdits \in [Sessions -> [Requests -> Nat]]
    /\ \A s \in Sessions :
          /\ at[s] # "idle" => doing[s] \in Payments
          /\ at[s] \in {"validated", "cleanup"} => doing[s] \in Transfers
          /\ at[s] \in {"answering", "expiring"} => doing[s] \in Requests
          /\ at[s] \in {"checked", "locked"} => doing[s] \in Transfers \cup Requests
          /\ at[s] = "begin" => doing[s] \in Withdrawals
          /\ at[s] \in {"checked", "locked", "inTx"} /\ doing[s] \notin Withdrawals =>
                key[s] # Nothing

TypeOK == StoresOK /\ SessionsOK

\* Nobody spends money that is not there, though transfers, request payments
\* and withdrawals check the balance in transactions of their own.
NoOverdraft == \A u \in Users : balance[u] >= 0

\* A wallet holds what its ledger entries say, although every transaction
\* writes an absolute balance it computed from its snapshot.
WalletMatchesLedger == \A u \in Users : balance[u] = Opening[u] + booked[u]

SumOf(f) == MapThenSumSet(LAMBDA u : f[u], Users)

\* Money is neither made nor lost: wallets and banks hold what was there at the
\* start and what top-ups brought.
Conserved == SumOf(balance) + SumOf(bank) = SumOf(Opening) + topups

\* A validated transfer and an accepted request move money at most once, with
\* one idempotency key or several, with the lock or after its TTL.
MovedOnce == \A p \in Transfers \cup Requests : moved[p] <= 1

\* The payer of a transfer is left with the newBalance validation showed: had
\* anything changed the wallet since, the confirmation would be refused.
ShownBalanceHolds ==
    [][\A t \in Transfers : moved'[t] > moved[t] => balance'[From[t]] = shown[t]]_vars

\* Every payment is one atomic move of money, made at most once, although it
\* is read, checked, locked and written in many steps.
Promise == INSTANCE AtomicPayments
PaymentsAreAtomic == Promise!Spec

\* cancelRequest: "Can only cancel PENDING requests"; declineRequest and
\* expireRequestIfNeeded check the same.
PaidStaysApproved == \A r \in Requests : moved[r] > 0 => status[r] = "APPROVED"
-----------------------------------------------------------------------------
(* Why they hold: an invariant that every step preserves. *)

\* A version that still matches stands for the balance that was read with it.
SnapshotInv ==
    \A s \in Sessions : at[s] = "inTx" =>
        \A u \in Users :
            /\ sawVer[s][u] <= version[u]
            /\ sawVer[s][u] = version[u] => sawBal[s][u] = balance[u]

\* Nobody pays oneself.
DistinctInv ==
    /\ \A t \in Transfers : pending[t] # Absent => NotToSelf(t)
    /\ \A r \in Requests : status[r] # "none" => NotToSelf(r)
    /\ \A s \in Sessions : doing[s] \in Transfers \cup Requests => NotToSelf(doing[s])

\* Whoever can still pay a request does it under the request's own key, and
\* money moved for it only by taking that key.
KeyInv ==
    /\ \A s \in Sessions : at[s] \in {"checked", "locked", "inTx"} /\ doing[s] \in Requests =>
          key[s] = doing[s]
    /\ \A r \in Requests : moved[r] <= 1 /\ (moved[r] > 0 => r \in used)

\* A senderVersion v validated for t is still what validation saw, or it is
\* behind the wallet; once money has moved it is behind.
Validated(t, v) ==
    /\ v <= version[From[t]]
    /\ v = version[From[t]] => moved[t] = 0 /\ shown[t] = balance[From[t]] - Amount[t]
Confirmable(s) == at[s] \in {"validated", "checked", "locked", "inTx"}
ValidatedInv ==
    /\ \A t \in Transfers : shown[t] = Absent => pending[t] = Absent /\ moved[t] = 0
    /\ \A s \in Sessions : doing[s] \in Transfers => shown[doing[s]] # Absent
    /\ \A t \in Transfers : pending[t] # Absent => Validated(t, pending[t])
    /\ \A s \in Sessions : doing[s] \in Transfers /\ Confirmable(s) => Validated(doing[s], want[s])
    /\ \A t \in Transfers : moved[t] <= 1

IInv ==
    /\ SnapshotInv /\ DistinctInv /\ KeyInv /\ ValidatedInv
    /\ NoOverdraft /\ WalletMatchesLedger
=============================================================================
