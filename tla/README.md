# walletX: a TLA+ verification of the wallet

walletX is a digital wallet made of small TypeScript services: a user tops the
wallet up from a linked bank account, sends money to other users, asks others
for money, withdraws to the bank, and lets partners hold and capture money.
The services share PostgreSQL (through Prisma), Redis and RabbitMQ, and nothing
else. This directory holds a TLA+ model of the parts where money moves and of the
parts that guard them (publishing, one-time codes, caches, idempotency, accounts,
links to banks and partners, the client's connection), the TLC runs that check it,
and the proofs that TLAPS checks.

Paths below are relative to the repository root; in `PROJECT.json` they carry
the prefix `src/`.

## 1. Inventory

### 1.1 Components

| Component | State it keeps | Operations |
|---|---|---|
| wallet-service, top-ups (`apps/wallet-service/src/services/topup.service.ts`) | `payment_orders`, `ledger_entries`, Redis `OTP_TOPUP` | `initiateTopup`, `verifyPinAndSendOTP`, `confirmTopupOTP`, `callBankDebitAsync`, `getTopupStatus` |
| bank-service, debits (`apps/bank-service/src/services/debit.service.ts`) | `bank_accounts.balance`, `.version` | `debitAccount` |
| bank-service, linking (`.../account.service.ts`) | `linked_accounts`, Redis link sessions | initiate, verify, confirm, create an account, listings |
| worker-service, bank-debit consumers (`processors/wallet.processor.ts`, `consumers/`) | `wallets`, `ledger_entries`, `payment_orders` | `creditWallet`, `handleFailedDebit` |
| worker-service, outbox (`services/outbox.service.ts`) | `outbox_events` | claim, publish, mark published, mark failed |
| worker-service, jobs (`jobs/`, `fix-stale.ts`) | `payment_requests`, `payment_orders` | expiry, the two reconciliations, analytics refresh, fix-stale |
| wallet-service, transfers (`transfer.service.ts`) | `wallets`, `p2p_transfers`, `ledger_entries`, Redis `PENDING_TRANSFER` and locks | `validateP2PTransfer`, `confirmP2PTransfer`, `executeTransfer` |
| wallet-service, requests (`request.service.ts`) | `payment_requests` and the above | create, details, pay, decline, cancel, listings |
| wallet-service, withdrawals and reads (`wallet.service.ts`, `ledger.service.ts`) | `wallets`, `bank_accounts`, Redis read caches | `withdrawToBankAccount`, balance, history, analytics |
| wallet-service, connect (`connect.service.ts`) | `wallet_holds`, partner links, onboarding sessions | onboarding, `exchangeToken`, `createHold`, `captureHold`, `releaseHold`, `creditWallet` |
| wallet-service, KYC (`kyc.service.ts`) | `kyc_profiles`, `wallets.status` | submit, which approves at once |
| auth-service (`apps/auth-service`) | users, devices, refresh tokens, PIN, Redis sessions and OTPs | register, login, tokens, devices, PIN, password, account |
| realtime-service (`apps/realtime-service`) | a map of sockets in memory | connect, deliver, disconnect |
| api-gateway | none of its own | proxy, rate limits, JWT check |
| `packages/rabbitmq` | queues, retry headers, a circuit breaker | publish, consume, retry, dead-letter |
| `packages/redis` | locks, idempotency records, OTPs, caches | `withLock`, `checkIdempotency`, `cacheGetOrSet`, invalidation |
| `packages/libs` | breaker state | `retryWithBackoff`, `CircuitBreaker`, `Currency` |
| user-ui | the WebSocket client, the election among tabs, pages | connect, reconnect, elect; presentation |
| merchant-service, config, schemas, types, ui | stubs, configuration | |

### 1.2 How they interact

* **Top-up.** The user calls wallet-service three times (initiate, verify PIN,
  confirm OTP). The third call leaves `callBankDebitAsync` behind, unawaited: an
  HTTP call to bank-service, which debits the account and publishes
  `BANK_DEBIT_SUCCESS` or `BANK_DEBIT_FAILED`. worker-service consumes these and
  credits the wallet or fails the order. Nothing ties the three databases' rows
  together but the order id.
* **Transfers, requests, withdrawals.** One service, but each call makes its
  reads, its Redis lock, its `SERIALIZABLE` transaction and its cleanup as
  separate awaits, and they compete for the same `wallets` rows with each other,
  with the worker's credits, and with partners' captures.
* **Outbox.** Each money movement inserts an event in its own transaction;
  the worker publishes it; realtime-service pushes it to the sockets of the
  browser, which reconnects when it loses one.
* **Wallet status.** pin.service and account.service (auth-service) and
  kyc.service (wallet-service) write one column in transactions of their own;
  partner connect, transfers and withdrawals look at it.
* **Redis** holds what has to expire: OTPs, pending transfers, locks, idempotency
  records, caches. Nothing waits for it to expire, and nothing extends it.

### 1.3 What is hard here, and what makes each part correct

| Part | Hard | Correct when |
|---|---|---|
| top-up | late requests that write a status read earlier; an unawaited HTTP call; duplicated events; retries kept in a timer; crashes between all of these | the bank is debited once; a wallet is credited only for a debit; no credit is lost; an order and its ledger entry do not disagree; an event is not dropped before its credit |
| bank debit | check of the balance, decrement later | no account is overdrawn |
| transfers, requests, withdrawals | absolute balances computed from a snapshot; a lock whose TTL can end first; a status read outside the transaction | each payment is one atomic move, at most once; the wallet agrees with the ledger; nothing is overdrawn; what was paid stays paid |
| outbox | claim, publish and mark are three steps; a crash between any two | no two dispatchers work on one event; what is marked published was published; nobody but a dispatcher that did not learn of its own mark undoes one; every event ends published for good unless its claim dies |
| holds | reads outside transactions; `READ COMMITTED` with absolute balances | no paisa is held twice; captured money was there; keys make one hold and one credit; a hold is captured or released, once (it is not: section 6) |
| idempotency middleware | check before, store after, one Redis key for all users and paths | what is replayed is a success of the same user and path, for a body that validates to the same (not: a repeated request is executed once, or recognised) |
| read caches | fill races invalidation | when writes stop, what is cached becomes what is stored |
| publishing | a breaker and a channel shared by calls in flight; a full buffer | a caller told *sent* had it handed over; no message is handed over more often than it is tried; the breaker closes again |
| OTP limits | counters, locks and their expiries are separate Redis calls | at the limit the address is locked; no limit lasts for ever |
| PIN, KYC, deletion | several transactions write one status by what they read | a wallet that waits for KYC has a PIN |
| bank linking | a Redis session is read, and rewritten or deleted later | an account is linked once; a user with accounts has a default one |
| partner connect | checks before transactions, codes cleared by id | a partner is told only of wallets linked to its user; links are one to one |
| sessions | revocation is a read, a blacklisting and a deletion; logins and rotations run beside it, and each may die halfway | a good session is blacklisted, or where the next revocation finds it (not, in the code: a session issued in the midst of one) |
| client connection | timers and token requests that nobody cancels | a logged-in tab without a connection is about to get one, unless it has run out of attempts or of tokens |
| tabs | crossing messages, timers left over, tabs that vanish | no tab waits for ever; one tab ends up connected |

The hazards are listed with their lines in `PROJECT.json` under `hazards`; those
that no property covers say why.

## 2. Plan

| # | Module | Of | State |
|---|---|---|---|
| 1 | `Topup`, `Settlement`, `TopupProofs` | the top-up saga over three services, its abstract promise, proofs | done |
| 2 | `Payments`, `AtomicPayments`, `PaymentsProofs` | transfers, requests, withdrawals, their abstract promise, proofs | done |
| 3 | `Holds`, `HoldsProofs` | partner holds and credits beside all other wallet writers (composed with `AtomicPayments`) | done |
| 4 | `Outbox`, `OutboxProofs` | the dispatcher: claims, publishing, marking, dying workers | done |
| 5 | `Publisher`, `Delivery` | breaker, retries and the shared channel under concurrent calls, their abstract promise (proofs: 9) | done |
| 6 | `Otp` | limits of one-time codes (proofs: 9) | done |
| 7 | `ReadCache` | read-through caches and their invalidation | done |
| 8 | `BankLink`, `Connect`, `Accounts`, `Idempotency`, `Realtime` | linking, onboarding, PIN/KYC/deletion, the middleware, the client's connection | done |
| 9 | `MCServices`, `ServicesTypes`, `ServicesProofs` | 5 to 8 and 11 side by side; the proofs of their types and of what they promise | done |
| 10 | `Tabs`, `TabsProofs` | the election among browser tabs | done |
| 11 | `Sessions` | issuing, rotating and revoking sessions (checked in `MCServices`, proved in `ServicesProofs`) | done |
| 12 | trusted devices | the table and its cache | not written: see section 7 |

`SumTheorems` holds the lemmas about sums over finite sets that 2 and 3 rest on. Every
safety property that a run finds to hold is proved (section 5); what is left to TLC
is liveness.

## 3. Modules and code

One TLA+ step is one awaited database, Redis or broker call together with the
synchronous code up to the next await; a database transaction is the steps at
which it reads and the step at which it commits. A *session* is one HTTP
request, and its place in the code is `at[s]`; local variables that the code
reads before an await and uses after it are state (`seen`, `sawBal`, `want`...).
Variables called history record what happened for the properties; no guard
reads them. Definitions marked "(Mutant: ...)" stand next to what they would
replace: each is a plausible bug under which a property fails.

### 3.1 `Topup` and `Settlement`

| State | Code |
|---|---|
| `order`, `linked` | `payment_orders.status`, `.ledgerId` set or not |
| `ledger` | the status of the `ledger_entries` row with the unique `referenceId` of the order |
| `otp` | attempts in the Redis record `OTP_TOPUP(order)`, `NoOtp` when absent |
| `funds`, `fundsVer`; `balance`, `version` | `bank_accounts` and `wallets`, balance and version |
| `at`, `on`, `seen` | the requests of wallet-service and the bank call each leaves behind |
| `place`, `kind`, `about`, `tries`, `readBal`, `readVer` | the copies of bank-debit events, where each is (queue, handler, backoff timer, dead-letter queue) and what its handler has read |
| `stale` | orders that the stale-order script has listed and not yet updated |

| Actions | Code |
|---|---|
| `InitiateTopup` | `initiateTopup` |
| `VerifyPin`, `StoreOtp`, `EmailOtpFails`, `MarkPending` | the awaits of `verifyPinAndSendOTP` |
| `ConfirmTopup`, `OtpMissing`, `ReadOtp`, `DropOtp`, `FailExhausted`, `WrongOtp`, `AcceptOtp`, `CreateLedger`, `MarkProcessing` | the awaits of `confirmTopupOTP` |
| `BankReadAccount`, `BankDebit`, `PublishSuccess`, `PublishRejected`, `PublishInternalError`, `BankQueryThrows` | `debitAccount`, started unawaited by `callBankDebitAsync` |
| `FindProcessing`, `ReadWallet`, `CommitCredit`, `CreditConflict` | `creditWallet` of the worker |
| `FindFailable`, `CommitFailure` | `handleFailedDebit` |
| `Ack`, `Retry`, `HandlerThrows`, `Requeue`, `WorkerCrash` | `consumeQueue`: retries with backoff, dead-lettering, redelivery |
| `Publish` | `publishMessage`: one copy, or several when a publish returned false |
| `FindStale`, `FailStale` | `fix-stale.ts` |
| `OtpExpires`, `SessionDies` | Redis TTL; a process that dies, an HTTP call that never arrives |

`Settlement` is what the saga promises with all of that left out: the bank
gives an order's amount once, out of money it has, and only then is the wallet
credited. `MoneySettles` says that `Topup` implements it under the identity
mapping of `funds`, `balance`, `debits`, `credits`. It promises *at least* and
not exactly one credit: see the first finding.

### 3.2 `Payments` and `AtomicPayments`

| State | Code |
|---|---|
| `balance`, `version`, `booked` | `wallets`, and the sum of the user's SUCCESS ledger entries |
| `bank` | what withdrawals added to `bank_accounts.balance` |
| `used` | `p2p_transfers.idempotencyKey`, unique |
| `pending` | the version stored in Redis `PENDING_TRANSFER(t)` |
| `status`, `edits`, `overdue` | `payment_requests`; the row version PostgreSQL keeps; `expiresAt` passed |
| `lock` | the Redis locks of `withLock` |
| `at`, `doing`, `key`, `want`, `sawBal`, `sawVer`, `sawEdits` | the requests in flight and the snapshot of each transaction |

| Actions | Code |
|---|---|
| `ValidateTransfer`, `StorePending`, `ConfirmTransfer`, `DelPending` | `validateP2PTransfer`, `confirmP2PTransfer` |
| `CreateRequest`, `PayRequest`, `ViewRequest`, `AnswerRequest`, `WriteAnswer`, `ExpireOverdue` | `request.service.ts`; the expiry job |
| `Withdraw`, `WithdrawalDone` | `withdrawToBankAccount` |
| `AcquireLock`, `LockTimesOut`, `ReleaseLock`, `LockExpires` | `withLock` |
| `Snapshot`, `Commit` (`MoveMoney`), `Abort` | the `SERIALIZABLE` transactions of `executeTransfer`, `executeRequestPayment` and the withdrawal |
| `CreditTopup` | the worker's credit, by version (`Topup!CommitCredit`) |
| `PendingExpires`, `TimePasses`, `SessionDies` | TTL, clock, a process that dies |

A commit is allowed only if no row the transaction writes was changed since its
snapshot (`RowsUnchanged`): this is what PostgreSQL does at `SERIALIZABLE`, and
all the isolation the module takes from it. Aborts the database may add are in
`Abort`. `AtomicPayments` has no snapshots, versions, locks or keys: each
payment happens at one moment, out of the balances of that moment, and a
transfer or request pays once. `PaymentsAreAtomic` says that `Payments`
implements it.

### 3.3 `Holds`, composed with `AtomicPayments`

| State | Code |
|---|---|
| `balance`, `bank`, `moved`, `topups` | the variables of `AtomicPayments`, instantiated as `Wallets` |
| `status` | `wallet_holds.status` of the row with a partner's idempotency key |
| `booked` | credits whose ledger entry `WXC:<partner>:<key>` exists |
| `at`, `on`, `sawBal`, `sawRows`, `sawHeld` | requests of partners and what their transactions read |

`CreateHold`, `SnapshotHold`, `CommitHold` are `createHold`; `CaptureHold`,
`ReadForCapture`, `CommitCapture` are `captureHold`; `ReleaseHold`,
`WriteRelease` are `releaseHold`; `PartnerCredit`, `ReadForCredit`,
`CommitCredit` are `creditWallet` of `connect.service.ts`. `UserStep` is any
step of `AtomicPayments`: since `Payments` is proved to implement it, the users'
own payments may enter as single steps, which is what makes the composition
small enough to check. (A payment's commit conflicts with any write of the
wallet row since its snapshot, the partners' too, so it still acts on the
balance of its moment; a partner's write does not, and uses `sawBal`.) A hold is
created at `SERIALIZABLE`: the commit requires that no other hold of the wallet
was *added* since the snapshot. Captures and releases are not serializable
transactions and do not abort it.

### 3.4 `Outbox`

`status` is `outbox_events.status`; `due` the FAILED rows whose `available_at`
has passed; `batch[w]`, `at[w]`, `now[w]` what a dispatcher has claimed and
where in the loop of `processOutboxBatch` it is; `sent` what reached the
exchange. `Enqueue` is `enqueueOutboxEventTx`; `Claim` the one `UPDATE ... FOR
UPDATE SKIP LOCKED` statement; `Take`, `PublishOk`, `PublishFails`,
`MarkPublished`, `MarkThrows`, `MarkFailed` the loop; `TickFails` an exception
that ends the loop; `WorkerStops` SIGTERM or a crash; `BecomeDue` the delay of
`computeRetryAt`. A statement that throws, or whose worker dies, may have been executed
and only its answer lost: `ClaimLost`, and `MayWrite` in `MarkThrows`, `TickFails` and
`WorkerStops` (it takes effect then or never: a statement that PostgreSQL executes
after its worker has gone on is not modelled). So a row that was marked PUBLISHED can
be written FAILED by the catch and be sent again. `unsure`, a history variable, holds
the events whose mark threw since they were last claimed; `ReopenedOnlyIfUnsure` says
that no other mark is ever undone, and `EventsSettle` that the event is PUBLISHED for
good in the end, or left PROCESSING with no worker. A claim may take any set of claimable rows up to the limit:
the order by `created_at` is not the order of commits, and locked rows are
skipped.

### 3.5 `Publisher` and `Delivery`

One process that publishes. `circuit`, `failures`, `successes` are the fields of
`CircuitBreaker` and `resetDue` says whether `resetTimeoutMs` have passed since
`openedAt`; `channel` is the shared channel of `connection.ts` or its promise;
`stage[p]`, `attempt[p]` are where a call of `publishMessage` is. `Begin` and
`Refuse` are the entry of `execute`; `AwaitChannel`, `WriteOk`, `WriteFull`
one attempt; `Retry`, `Wake`, `GiveUp` the loop of `retryWithBackoff`;
`CountSuccess` and `CountFailure` the end of `execute`; `ChannelOpens`,
`ChannelFails`, `LinkLost` the connection; `BrokerTurns` and `ResetTimeout` the
environment. `Delivery` is what a caller may rely on: at most so many copies,
none after the answer, and *sent* only if one was handed over. A caller told
*failed* may have been heard all the same. `Topup!Publish` and
`Outbox!PublishFails` use exactly this promise.

### 3.6 `Otp`

The five keys of `otp.ts` for one address (`requests`, `attempts` with their
expiries, `locked`, `spamLocked`, `cooldown`) and the code, under concurrent
requests (`asking`) and guesses (`guessing`), as `login.service.ts` calls them.
`INCR` and `EXPIRE` are two steps, the locks a third. A lock outlives the window
of the counter that led to it (`RedisTTL`: 30 and 10 minutes), which is in the
guards of `LockExpires` and `SpamLockExpires`. Registration, PIN reset, password
reset and account deletion use the same functions with another scope.

### 3.7 `ReadCache`

The cached answers for balance, analytics and dashboard, each represented by the
version of the oldest data it was computed from; readers (`reading`) that miss,
load, and store later; a dashboard put together from parts that are cached
themselves; writers that commit and then delete keys in two calls, or fail to
(`DropFails`: a crash, or the string given to `invalidateWalletReadCaches` at
`connect.service.ts:578`).

### 3.8 `BankLink`, `Accounts`, `Connect`

`BankLink`: `session[t]` is the record `BANK_LINK_SESSION(t)`, `links` the linked
accounts; `request[q].seen` is the copy of the session a request has read and
later writes back. `Accounts`: `hasPin`, `wallet`, `kyc`, `active` are columns,
`codes` and `paused` Redis keys, `op[q]` a request and what its transaction has
read; `userRow` is the row lock that the first update of each transaction takes,
which is what orders `setWalletPin`, `resetPinWithOtp`, `removeWalletPin` and
`deleteAccountWithOtp` at READ COMMITTED. `Connect`: `onboarding` the sessions with
their codes, `partnerLinks` the links with their two unique keys, `visit[q]` a
request; `everLinked` and `disclosed` are history. `Holds` starts from the links
that `Connect` makes (`EnsureSpendable`).

### 3.9 `Idempotency`

`record[k]` is the Redis value under the client's key, with the user, path and
body it was stored for. The check, the handler and the unawaited store of its answer
are separate steps of each request. On every route the middleware runs before
`validate`, which replaces `req.body` by what the schema makes of it (trimmed, unknown
keys stripped, keys in its order): `Body[r]` is what was sent and is looked up,
`Validated(r)` what the handler had and is stored. An identical repeat of a body that
`validate` changes is therefore no duplicate and is executed again, and an answer can
be replayed to a request with another text; `ReplaysOwnSuccess` says that this request
asked the handler for the same. It needs that validating twice changes nothing
(`IdempotencyAssumption`), which holds of the three schemas in use: they trim, strip and
order, and otherwise only refuse. The modules of money movements do not rely on the
middleware: they model repeated requests as if it were not there.

### 3.10 `Realtime`

One tab (`auth-context.tsx`, `lib/websocket/client.ts`) and the sockets the server
has registered for its user. `state[n]` is a socket from `connecting` to its close
event, `ws` the one the client holds, `timers` the reconnect timers that run,
`fetching` the token requests under way. The server looks at the token after the
handshake, so that `onopen` runs for a socket that is then closed with 1008.
Sending events has no state of its own and is left out.

### 3.11 `Tabs`

`BroadcastLeader.ts` in several tabs, with `WsProvider`'s reaction to it. Time is
discrete (500 ms); a step of time waits for messages that are under way and
timers that are due. `elections[t]` holds every election timer that runs,
because `startElection` never clears one. At this commit no layout mounts
`WsProvider` (`app/layout.tsx:140` mounts only `AuthProvider`, which connects every
tab), so the module is about code that is ready but not in use.

### 3.12 `Sessions`

`fresh`, `refresh`, `listed` and `revoked` are the access tokens that have not
expired, the keys `REFRESH_TOKEN`, the set `TOKEN_USER` and the keys
`BLACKLIST_ACCESS`. A login or an account deletion goes through the three awaits of
`revokeAllUserSessions` (`ListSessions`, `RevokeSessions`, `ClearSessions`), and a login
then through `IssueTokens`; a rotation reads the refresh token and deletes it in two
steps (`RotateTokens`, `SpendToken`), so that two of them can spend one token, as in
the code; `LogOut` revokes one session. Any step may be the last one of its request.
`raced` is history: the sessions issued while some other request was between
`ListSessions` and `ClearSessions`. Those the code may lose, and `NoSessionLost` says
that it loses no other. The access token lives for 15 minutes from its issue and the
blacklist entry for 15 minutes from the revocation, which is why `BlacklistExpires`
waits for `AccessExpires`.

### 3.13 `MCServices`

The components of 3.5 to 3.10 and 3.12 share no state, so a behaviour of all of them
together is an interleaving of behaviours of each, and a property of one holds
in it exactly if it holds of that one alone. `MCServices` therefore lets `focus`,
chosen at the start, name the component that moves while the others rest in
their initial states: all are checked in one run without multiplying their states.
`ServicesTypes` proves their types as instantiated there, each from the
specification of its own module, and `ServicesProofs` what they promise; the lemma
`Parts` (a behaviour of `MCServices` is a behaviour of every component) carries both
over to the composition.

## 4. Runs

`tlc -config <cfg> <module>` for each line; distinct states are those TLC finds
with the symmetry of the cfg.

| Run | Instance | States | Shows |
|---|---|---|---|
| `TopupDuplicates` | 1 order, 2 sessions, 3 message copies, every fault | 0.34 M | `TypeOK`, `DebitedOnce`, `NoLostCredit`, `SuccessOrderReconciles`, `AckedMeansCredited`, refinement `MoneySettles` |
| `TopupConcurrent` | 2 orders of one wallet on one account that can pay for one at a time, 2 sessions, 2 messages, store and publish faults | 1.8 M | `NoOverdraft`, `CreditedOnlyIfDebited` |
| `TopupLiveness` | 1 order, 2 sessions, 2 messages, no faults, fairness | 11 k | `DebitSettles` |
| `PaymentsRaces` | 2 wallets with 1 paisa each; a transfer, a transfer to oneself, a request, a withdrawal, 1 top-up; 2 keys, 2 sessions | 1.2 M | `TypeOK`, `NoOverdraft`, `WalletMatchesLedger`, `Conserved`, `MovedOnce`, `ShownBalanceHolds`, refinement `PaymentsAreAtomic` |
| `HoldsRaces` | a wallet of 2 paise; holds of 2 and 1, a credit, a transfer, a withdrawal, a top-up of 1; 2 partner sessions | 0.55 M | `TypeOK`, `NoOverdraft`, `CreditedOnce`, `NeverHeldTwice`, `NeverReopened` |
| `OutboxDispatch` | 3 events, 2 dispatchers, batches of up to 2, every fault, fairness | 22 k | `TypeOK`, `ClaimedOnce`, `ReopenedOnlyIfUnsure`, `EventsSettle` |
| `Services` | see below | 0.45 M | `TypeOK`, `LockHolds`, `HasDefault`, `PendingKycHasPin`, `DisclosedWasLinked`, `ReplaysOwnSuccess`, `NeverForgotten`, `NoSessionLost`, refinement `PublishKeepsPromise`, liveness `BreakerRecovers`, `LimitsLift`, `CachesCatchUp` |
| `TabsElect` | 3 tabs, election 0.5 s, heartbeat 2 s, failover 5 s, fairness | 83 k | `TypeOK`, `NeverStranded`, `ConnectionSettles` |
| `TopupReconciliation` | 1 order, 1 session, 2 copies | | violates `WalletMatchesLedger` |
| `TopupPromise` | 1 order, 2 sessions, fairness | | violates `ProcessingSettles` |
| `RequestOverwritten` | 1 request, 2 sessions | | violates `PaidStaysApproved` |
| `HoldsTwice` | 1 hold, 2 sessions | | violates `CapturesOnlyActive` |

**Bounds and why they suffice.**

* *Sessions, workers: 2.* Every hazard listed for these services is a race of
  two requests, or of a request and a handler. What a third could add, the
  proofs cover: they hold for any number.
* *Messages: 2 or 3.* A success event can be duplicated (`MaxCopies = 2`; the
  code may send 4) and a failure event sent beside both copies, as happens when
  publishing throws after a debit.
* *`MaxOtpAttempts = 1`, `MaxRetries = 1`* (5 and 4 in the code): the counter
  reaches its limit, the limit is passed, and a retry is made and exhausted.
* *Amounts.* In `TopupConcurrent` the account holds 2 and the orders ask for 1
  and 2, so each can be paid and both cannot. In `PaymentsRaces` every payment
  takes the only paisa. In `HoldsRaces` each hold fits and both together do not.
* *Top-ups: 1, versions and row versions* are bounded by the number of payments
  that can be made, not by a constraint. No run uses a state constraint.
* *Idempotency keys: 2*, so that a transfer is confirmed twice with one key and
  with two.
* *`Limit = 2` of 3 events*, so that batches are full and an event waits.
* *`Services`*: 2 callers of `publishMessage`, 2 attempts, breaker thresholds 3 and 2
  (4, 5 and 2 in the code), so that a call admitted before the breaker opened
  fails after it, and two successes close it; 1 requester and 2 guessers with
  limits 1 and 2 (2 and 5), so that each limit is met, passed and lifted while
  another guess is under way; 2 readers, 1 writer and 1 write, so that a stale
  store follows an invalidation and a stale dashboard follows that; 2 link
  tokens, accounts and requests, 2 wrong codes (5); 2 concurrent account requests
  of any kind; 2 partner users who both claim 1 owner, 2 visits, 2 codes; 4 requests
  under one key: two alike, one whose body `validate` trims to theirs, and one of another
  user; 2 sockets, 2 reconnect
  attempts (5), 1 token request and 2 timers at a time; 2 devices with a
  request each, and 2 sessions, so that one is issued while the other is revoked.
  `MaxSessions`, `Sockets`, `MaxFetches`,
  `MaxTimers`, `MaxWrites`, `MaxRequests` and `Codes` bound the instance by guards.
* *`TabsElect`*: the delays of the code in steps of 500 ms; 3 tabs, so that a
  third stands while two elect. Tabs are opened once each, so the run has
  finitely many openings, and time is counted by timers only.

**Symmetry.** Sessions, messages and keys are interchangeable: no definition
orders them or names one. Runs with fairness use no symmetry; nor does `TabsElect`,
whose tabs are ordered by id.

**Deadlock.** `CHECK_DEADLOCK FALSE` everywhere: the orders, payments and events
of an instance are finite, and a state in which all of them are finished and
nothing is in flight is where the system may stop.

**Fairness.** `Topup!Fairness`, used with `Faults = {}`: a request that has begun
goes on to its next await, a bank call and a message handler likewise (weak
fairness of the continuations of each); the user need not send anything, an
OTP may be wrong, and no TTL need expire. `Outbox!Fairness`: the tick repeats
every 5 s and its loop goes on (weak fairness of a worker's steps), `available_at`
passes, and a dispatcher that tries again and again publishes and marks in the
end (strong fairness of `PublishOk` and `MarkPublished`: a broker and a database
that are down come back). Stopping and failing are never fair. Without the
strong fairness an event might fail for ever, which is what the code does when
the broker never recovers. `Publisher!FairSpec`: callers keep calling, calls go on,
connecting ends, time passes; the broker need never be up, and `BreakerRecovers`
is about behaviours in which it stays up. `Otp!FairSpec` and `ReadCache!FairSpec`:
Redis and PostgreSQL answer, and keys that have an expiry expire; nobody need ask,
guess, read or write, and codes and the cooldown, on which nothing waits, need not
go. `Tabs!FairSpec`: the browser delivers messages, fires timers and lets time
pass (one weak fairness of their union); users need not open or close tabs.
`MCServices!FairSpec` is the conjunction of the first three, each while its
component is in focus.

## 5. Proofs

Each theorem is proved for all values of the constants that satisfy the named
assumptions of its module (`OrderAssumption`, `BoundAssumption`;
`PaymentAssumption`; `UserAssumption`, `CallAssumption`; `OutboxAssumption`;
`TabsAssumption`; `ServicesAssumption`, the conjunction of those of the components):
typing of the parameters, non-negative opening balances, positive amounts,
distinctness of identifiers, and, where money is added up over them, that users,
payments, holds and credits are finite sets. In particular any number of users, orders,
sessions, messages, workers, and any set of faults.

| Module | Proved |
|---|---|
| `TopupProofs` | `TypeOK`, `DebitedOnce`, `NoOverdraft`, `NoLostCredit`, `CreditedOnlyIfDebited`, `SuccessOrderReconciles`, `AckedMeansCredited`, refinement `MoneySettles` |
| `PaymentsProofs` | `TypeOK`, `NoOverdraft`, `WalletMatchesLedger`, `MovedOnce`, `ShownBalanceHolds`, refinement `PaymentsAreAtomic`, `Conserved` |
| `HoldsProofs` | `TypeOK`, `NoOverdraft`, `CreditedOnce`, `NeverReopened`, `NeverHeldTwice` |
| `OutboxProofs` | `TypeOK`, `ClaimedOnce`, `MarkedWasSent`, `ReopenedOnlyIfUnsure` |
| `TabsProofs` | `TypeOK`, `NeverStranded` |
| `ServicesTypes` | `TypeOK` of each of the nine components, and of `MCServices` |
| `ServicesProofs` | refinement `PublishKeepsPromise`, `LockHolds`, `PendingKycHasPin`, `HasDefault`, `DisclosedWasLinked`, `ReplaysOwnSuccess`, `NeverForgotten`, `NoSessionLost`; each of its component, and all of them of `MCServices` (`SideBySide`) |
| `SumTheorems` | lemmas only: a sum over a finite set is an integer; it changes by what one term changes by; it may be split, added, and compared term by term |

The arguments:

* **`Topup`.** `DebitedOnce` is not inductive: nothing in the bank's tables stops a
  second debit. `DebitInv` adds who may still debit: only the session that
  created the ledger entry, and no debit exists before the entry does. `FundsInv`
  and `StampInv` say that a version that still matches stands for the row read
  with it (balance of the account, balance of the wallet). `CreditInv` traces a
  success event back to its debit, `ReconInv` says that a handler past its
  check has found the order linked. The refinement follows from `DebitInv`,
  `FundsInv`, `StampInv` and `CreditInv`.
* **`Payments`.** `SnapshotInv` is the same fact for snapshots; with
  `DistinctInv` (nobody pays oneself) it makes `CommitEffect`: a commit moves the
  amount out of the balances *of this moment*. `KeyInv` (a request is paid only
  under its own key) and `ValidatedInv` (a validated version is what validation
  saw, or behind the wallet, and behind once money has moved) give `MovedOnce`.
  The proof never mentions the Redis lock: the versions and the unique key are
  what make payments safe, the lock only saves aborts. `Conserved` is proved through
  the refinement: a step of `AtomicPayments` takes an amount from one term of the sum
  of balances and gives it to another, or to the bank.
* **`Holds`.** Balances are overwritten with values computed from earlier reads,
  so the invariant is that what a transaction has read was not negative either;
  a capture subtracts at most that. The steps of users are those of
  `AtomicPayments`. `NeverHeldTwice` speaks of one balance, and is not inductive: a
  capture may next write the balance it has read, which is another. `HoldInv`
  therefore speaks of all balances that are *live*, the wallet's and those that
  transactions under way have read: any two of them are at most as far apart as what
  has moved elsewhere (`LiveClose`), each of them with it covers what is held
  (`LiveCovers`); and of the holds a `createHold` has read, those that are active now
  were active then (`HeldSeen`), so that it adds up at least what is held. A commit
  changes `Elsewhere` by as much as the balance it writes differs from the one it read.
* **Sums.** `SumTheorems` is about `MapThenSumSet` of the community modules, by which
  `Payments` and `Holds` add: a function recursive over the subsets of a set. As induction over data takes an operator as a
  parameter, which the provers cannot instantiate, its lemmas take a smallest subset
  for which they fail instead: strict inclusion on the subsets of a finite set is
  well-founded (`FS_StrictSubsetOrderingWellFounded`), so there would be one
  (`WFMin`), and removing an element from it gives a smaller one.
* **`Outbox`.** `BatchInv`: an event in a batch is PROCESSING, or it is PUBLISHED, its
  mark threw, and its worker is about to mark it FAILED (`InHand`); what is due is
  FAILED; what is being marked was sent. Batches are then disjoint, as a claim selects
  neither, and only that worker can undo the mark.
* **`Publisher`.** `CopiesInv`: a message has at most as many copies as attempts
  (`handed[p] <= attempt[p]`), fewer while an attempt has yet to write, and a call
  that backs off has attempts left. Each step is then a step of `Delivery` or a
  stutter, whatever the breaker does.
* **`Otp`.** `LockInv`: with the counter at its limit the address is locked, or a
  guesser stands right before setting the lock. A guesser that only sets the
  expiry is no witness, unless one wrong guess is already the limit
  (`MaxAttempts = 1`): then it goes on to the lock.
* **`Tabs`.** `QuietInv`: a tab whose page is not there leads nobody and has no
  timer, so that it starts from nothing when it opens; with the typing and
  `NeverStranded` itself this is inductive. It needs the election timers to be a
  set that `startElection` adds to, as in the code, which keeps no handle of them
  and can clear none.
* **Types in `ServicesTypes`.** Several need more than themselves. A closed breaker is
  below its threshold only because each count is compared in the step that makes it.
  What `Sessions` blacklists was issued because what a revocation read was
  (`SeenInv`). `Accounts!TypeOK` says that the user's row has at most one holder,
  which takes `RowInv`: a transaction beyond its first update is the one that
  holds it.
* **`Accounts`.** `OpsInv`: a transaction under way is of one of the four kinds.
  `PinInv`: PENDING_KYC implies a PIN. `PENDING_KYC` is written only by the commits
  that set the PIN, and those that take the PIN away write `PENDING_PIN`. The proof
  does not use the lock of the user's row: as one commit writes both the PIN and
  the status, their order does not matter here.
* **`BankLink`, `Connect`, `Idempotency`, `Realtime`.** `FirstInv`: while no account is
  linked, every request about to create one counted none, and once some are linked
  one of them is the default; links are never removed. `MadeInv`: a completed
  session's link, that of a visit about to clear its code, and every link
  disclosed, were made; `UniqueInv`: the two unique keys make links one to one.
  `StoredInv`: a stored record is the answer of a request that succeeded, and what
  is about to be stored will be one; the raw body that matches it is then a validated
  one, which validates to itself. `HeardInv` is `NeverForgotten` as the provers
  read it, and inductive with the typing.
* **`Sessions`.** `ClearInv`: a revocation that has read the set will blacklist every
  good session in it, but for those that were added since (`raced`); one that has
  blacklisted them has done so. What it then clears is therefore accounted for.

Only model-checked: liveness (`DebitSettles`, `EventsSettle`, `BreakerRecovers`,
`LimitsLift`, `CachesCatchUp`, `ConnectionSettles`), which needs fairness and `ENABLED`;
and the four violations of section 6, which are not theorems. `MarkedWasSent` is the
safety half of `EventsSettle`.

## 6. Findings

1. *A duplicated success event can credit a wallet twice.* `creditWallet` checks
   PROCESSING before its transaction (`wallet.processor.ts:47`); two copies
   handled together pass it, and the second reads the version the first left.
   Run `TopupReconciliation`.
2. *A late verify-pin request strands a paid order.* `verifyPinAndSendOTP` writes
   PENDING by id after two awaits (`topup.service.ts:206`); an order confirmed
   meanwhile leaves PROCESSING, and its success event is dead-lettered. Run
   `TopupPromise`.
3. *A paid request can end REJECTED.* `cancelRequest`, `declineRequest` and
   `expireRequestIfNeeded` write by id what they read as PENDING
   (`request.service.ts:550`). Run `RequestOverwritten`.
4. *A hold can be captured after it was released, or twice.* `captureHold` looks
   at the status outside its transaction (`connect.service.ts:514`). Run
   `HoldsTwice`.

Weaker facts are left as they are, because the repository promises nothing else:

* a debit whose success event cannot be published is neither credited nor given
  back (`DebitSettles` is checked without faults), and an event whose dispatcher
  dies stays PROCESSING for good (`EventsSettle` says so);
* two confirmations that both count no links make two default accounts, and a
  wrong code can write back a link session that was deleted meanwhile;
* a connect code can be exchanged twice by concurrent requests, and EXPIRED can
  be written over COMPLETED;
* `submitKyc` activates a wallet whatever its status, without a PIN or CLOSED; a
  wallet whose PIN is removed after KYC and set again waits for a KYC that
  cannot be submitted twice;
* concurrent repeats of a request with one idempotency key all reach the handler, and
  so does every repeat of a body that `validate` changes (a withdrawal whose note ends
  in a blank is made again);
* a PUBLISHED outbox event is written FAILED and sent again when its update was
  executed and the answer lost (`outbox.service.ts:111`);
* the client may connect after a logout, may hold two sockets, and is deaf once
  its attempts are used up or its token, which lasts 15 minutes, has expired.

## 7. Not modelled

* **Trusted devices** (`device.service.ts`): the table, its cache in Redis for a day,
  and the comparison of subnets. They decide whether a login needs a code, which
  `Sessions` leaves to the environment.
* **Passwords and registration**: bcrypt and unique e-mail addresses; their codes
  are limited as `Otp` models.
* **Deliberately left out**: listings and analytics, which only read; e-mails,
  whose two providers have breakers like `Publisher`'s; the api-gateway, a proxy;
  the sending of events to sockets; merchant-service, a stub; the pages of
  user-ui (about half of the repository's lines), which show and ask for what
  the services decide; schemas, configuration and generated clients;
  `requeueDlqMessages`, which nothing calls.
* **Crashes between two Redis calls of the OTP limits**: such a crash leaves a
  counter without an expiry, or at its limit without a lock, and `LimitsLift` or
  `LockHolds` would not hold; they are checked for processes that live.
* **Abstracted**: amounts are small integers (paise are `BigInt` and do not
  overflow); ids, names and payloads are model values; input validation and the
  checks of PINs refuse a request before it changes anything and are left out;
  the time between two steps is arbitrary, so a TTL or timeout may strike at any
  step (but see `Otp` and `Tabs` for delays that are compared with each other).
