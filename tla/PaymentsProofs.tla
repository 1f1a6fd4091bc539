--------------------------- MODULE PaymentsProofs ---------------------------
(* Transfers, request payments and withdrawals are atomic, for any wallets,   *)
(* payments and sessions.                                                     *)
EXTENDS Payments, SumTheorems, TLAPS

\* Every step keeps the state within its types.
LEMMA TypeStep == ASSUME TypeOK, [Next]_vars PROVE TypeOK'
<1> USE PaymentAssumption DEF RequestStatus, Stages, Absent, Payments
<1> USE DEF TypeOK, wallets, requests, sess
<1>0. StoresOK /\ SessionsOK
  OBVIOUS
\* What a session does to its own variables.
<1>a. ASSUME NEW s \in Sessions, End(s) PROVE SessionsOK'
  BY <1>a DEF SessionsOK, End, Forget
<1>b. ASSUME NEW s \in Sessions, NEW p \in Payments, NEW v \in Nat,
             NEW k \in Keys \cup Requests \cup {Nothing}, NEW stage \in Stages,
             Begin(s, p, k, v, stage),
             \/ stage \in {"answering", "expiring"} /\ p \in Requests
             \/ stage = "checked" /\ p \in Transfers \cup Requests /\ k # Nothing
             \/ stage = "begin" /\ p \in Withdrawals
             \/ stage = "validated" /\ p \in Transfers
      PROVE  SessionsOK'
  BY <1>b DEF SessionsOK, Begin
<1>c. ASSUME NEW s \in Sessions, NEW stage \in {"committed", "failed"}, at[s] # "idle",
             LeaveTx(s, stage)
      PROVE  SessionsOK'
  BY <1>c DEF SessionsOK, LeaveTx, Forget
<1>d. ASSUME NEW s \in Sessions, NEW stage \in {"cleanup", "locked"}, Goto(s, stage),
             \/ stage = "cleanup" /\ doing[s] \in Transfers
             \/ stage = "locked" /\ at[s] = "checked"
      PROVE  SessionsOK'
  BY <1>d DEF SessionsOK, Goto
\* Steps that only change what the services store.
<1>e. ASSUME UNCHANGED sess PROVE SessionsOK'
  BY <1>e DEF SessionsOK
<1>1. ASSUME NEW s \in Sessions, TransferStep(s) PROVE TypeOK'
  <2>1. ASSUME NEW t \in Transfers, ValidateTransfer(s, t) PROVE TypeOK'
    <3>1. version[From[t]] \in Nat /\ balance[From[t]] - Amount[t] \in Nat
      BY <2>1 DEF ValidateTransfer, StoresOK
    <3>2. QED
      BY <1>b, <2>1, <3>1 DEF ValidateTransfer, StoresOK
  <2>2. ASSUME NEW t \in Transfers, NEW k \in Keys, ConfirmTransfer(s, t, k) PROVE TypeOK'
    BY <1>b, <2>2 DEF ConfirmTransfer, StoresOK
  <2>3. CASE StorePending(s)
    BY <1>a, <2>3 DEF StorePending, StoresOK, SessionsOK
  <2>4. CASE DelPending(s)
    BY <1>a, <2>4 DEF DelPending, StoresOK
  <2>5. QED
    BY <1>1, <2>1, <2>2, <2>3, <2>4 DEF TransferStep
<1>2. ASSUME NEW s \in Sessions, RequestStep(s) PROVE TypeOK'
  <2>1. ASSUME NEW r \in Requests, PayRequest(s, r) PROVE TypeOK'
    BY <1>b, <2>1 DEF PayRequest, StoresOK
  <2>2. ASSUME NEW r \in Requests, ViewRequest(s, r) \/ AnswerRequest(s, r) PROVE TypeOK'
    BY <1>b, <2>2 DEF ViewRequest, AnswerRequest, StoresOK
  <2>3. CASE WriteAnswer(s)
    <3>0. doing[s] \in Requests
      BY <2>3 DEF WriteAnswer, SessionsOK
    <3>1. PICK to \in {"REJECTED", "EXPIRED"} : Overwrite(doing[s], to)
      BY <2>3 DEF WriteAnswer
    <3>2. status' \in [Requests -> RequestStatus] /\ edits' \in [Requests -> Nat]
      BY <3>0, <3>1 DEF Overwrite, StoresOK
    <3>3. QED
      BY <1>a, <2>3, <3>1, <3>2 DEF WriteAnswer, Overwrite, StoresOK
  <2>4. QED
    BY <1>2, <2>1, <2>2, <2>3 DEF RequestStep
<1>3. ASSUME NEW s \in Sessions, LockStep(s) PROVE TypeOK'
  <2>1. CASE AcquireLock(s)
    BY <1>d, <2>1 DEF AcquireLock, StoresOK
  <2>2. CASE LockTimesOut(s)
    BY <1>a, <2>2 DEF LockTimesOut, StoresOK
  <2>3. CASE ReleaseLock(s)
    BY <1>a, <1>d, <2>3 DEF ReleaseLock, StoresOK
  <2>4. QED
    BY <1>3, <2>1, <2>2, <2>3 DEF LockStep
<1>4. ASSUME NEW s \in Sessions, TxStep(s) PROVE TypeOK'
  <2>1. ASSUME NEW w \in Withdrawals, Withdraw(s, w) PROVE TypeOK'
    BY <1>b, <2>1 DEF Withdraw, StoresOK
  <2>2. CASE Snapshot(s)
    BY <2>2 DEF Snapshot, StoresOK, SessionsOK
  <2>3. CASE Commit(s)
    <3>1. doing[s] \in Payments /\ (doing[s] \notin Withdrawals => key[s] \in Keys \cup Requests)
      BY <2>3 DEF Commit, SessionsOK
    <3>2. /\ balance' \in [Users -> Int] /\ version' \in [Users -> Nat]
          /\ bank' \in [Users -> Nat] /\ booked' \in [Users -> Int]
          /\ used' \subseteq Keys \cup Requests /\ moved' \in [Payments -> Nat]
      <4>0. sawBal[s] \in [Users -> Int]
        BY DEF SessionsOK
      <4>1. MoveMoney(s)
        BY <2>3 DEF Commit
      <4>2. CASE doing[s] \in Withdrawals
        BY <3>1, <4>0, <4>1, <4>2 DEF MoveMoney, StoresOK
      <4>3. CASE doing[s] \notin Withdrawals
        BY <3>1, <4>0, <4>1, <4>3, SMTT(60) DEF MoveMoney, StoresOK
      <4>4. QED
        BY <4>2, <4>3
    <3>3. /\ status' \in [Requests -> RequestStatus] /\ edits' \in [Requests -> Nat]
          /\ UNCHANGED overdue
      BY <2>3 DEF Commit, Overwrite, StoresOK
    <3>4. SessionsOK'
      BY <1>c, <2>3 DEF Commit
    <3>5. QED
      BY <2>3, <3>2, <3>3, <3>4 DEF Commit, StoresOK
  <2>4. CASE Abort(s)
    BY <1>c, <2>4 DEF Abort, StoresOK
  <2>5. CASE WithdrawalDone(s)
    BY <1>a, <2>5 DEF WithdrawalDone, StoresOK
  <2>6. QED
    BY <1>4, <2>1, <2>2, <2>3, <2>4, <2>5 DEF TxStep
<1>5. ASSUME NEW s \in Sessions, SessionDies(s) PROVE TypeOK'
  BY <1>a, <1>5 DEF SessionDies, StoresOK
<1>6. ASSUME NEW t \in Transfers, PendingExpires(t) PROVE TypeOK'
  BY <1>e, <1>6 DEF PendingExpires, StoresOK
<1>7. ASSUME NEW r \in Requests, CreateRequest(r) \/ TimePasses(r) PROVE TypeOK'
  BY <1>e, <1>7 DEF CreateRequest, TimePasses, StoresOK
<1>8. ASSUME NEW r \in Resources, LockExpires(r) PROVE TypeOK'
  BY <1>e, <1>8 DEF LockExpires, StoresOK
<1>9. ASSUME NEW u \in Users, CreditTopup(u) PROVE TypeOK'
  BY <1>e, <1>9 DEF CreditTopup, StoresOK
<1>10. CASE ExpireOverdue
  BY <1>e, <1>10 DEF ExpireOverdue, StoresOK
<1>11. CASE UNCHANGED vars
  BY <1>e, <1>11 DEF vars, StoresOK
<1>12. QED
  BY <1>1, <1>2, <1>3, <1>4, <1>5, <1>6, <1>7, <1>8, <1>9, <1>10, <1>11 DEF Next

\* The state stays within its types.
THEOREM TypeCorrect == Spec => []TypeOK
<1>1. Init => TypeOK
  BY PaymentAssumption DEF Init, TypeOK, StoresOK, SessionsOK, RequestStatus, Stages, Absent
<1>2. QED
  BY <1>1, TypeStep, PTL DEF Spec
-----------------------------------------------------------------------------
(* What a step can do to the wallets *)

\* Wallets change by a commit or by a credited top-up, and by nothing else.
LEMMA WalletFrame ==
    ASSUME [Next]_vars
    PROVE  \/ UNCHANGED wallets /\ UNCHANGED topups
           \/ \E s \in Sessions : Commit(s)
           \/ \E u \in Users : CreditTopup(u)
<1>1. ASSUME NEW s \in Sessions, TransferStep(s) \/ RequestStep(s) \/ LockStep(s) \/ SessionDies(s)
      PROVE  UNCHANGED wallets /\ UNCHANGED topups
  BY <1>1 DEF TransferStep, RequestStep, LockStep, SessionDies, ValidateTransfer, ConfirmTransfer,
      StorePending, DelPending, PayRequest, ViewRequest, AnswerRequest, WriteAnswer, AcquireLock,
      LockTimesOut, ReleaseLock
<1>2. ASSUME NEW s \in Sessions, TxStep(s), ~Commit(s)
      PROVE  UNCHANGED wallets /\ UNCHANGED topups
  BY <1>2 DEF TxStep, Withdraw, Snapshot, Abort, WithdrawalDone
<1>3. QED
  BY <1>1, <1>2 DEF Next, PendingExpires, CreateRequest, TimePasses, LockExpires, ExpireOverdue, vars

\* A session changes by its own steps only.
Same(s) ==
    /\ at'[s] = at[s] /\ doing'[s] = doing[s] /\ key'[s] = key[s] /\ want'[s] = want[s]
    /\ sawBal'[s] = sawBal[s] /\ sawVer'[s] = sawVer[s]
Started(s) ==
    \/ \E t \in Transfers : ValidateTransfer(s, t) \/ \E k \in Keys : ConfirmTransfer(s, t, k)
    \/ \E r \in Requests : PayRequest(s, r) \/ ViewRequest(s, r) \/ AnswerRequest(s, r)
    \/ \E w \in Withdrawals : Withdraw(s, w)
Left(s) ==
    \/ at'[s] = "idle" /\ doing'[s] = Nothing
    \/ at'[s] \in {"committed", "failed", "cleanup"} /\ doing'[s] = doing[s]

\* A step of the system leaves a session as it is, starts it, moves it on within
\* its transaction, or ends it.
LEMMA SessionFrame ==
    ASSUME TypeOK, [Next]_vars, NEW s \in Sessions
    PROVE  Same(s) \/ Started(s) \/ Left(s) \/ AcquireLock(s) \/ Snapshot(s)
<1> USE DEF TypeOK, SessionsOK, sess, Begin, Goto, Forget, End, LeaveTx, Same, Started, Left
<1>1. ASSUME NEW x \in Sessions, TransferStep(x) PROVE Same(s) \/ Started(s) \/ Left(s)
  <2>1. ASSUME NEW t \in Transfers, ValidateTransfer(x, t) PROVE Same(s) \/ Started(s)
    BY <2>1 DEF ValidateTransfer
  <2>2. ASSUME NEW t \in Transfers, NEW k \in Keys, ConfirmTransfer(x, t, k)
        PROVE  Same(s) \/ Started(s)
    BY <2>2 DEF ConfirmTransfer
  <2>3. CASE StorePending(x)
    BY <2>3 DEF StorePending
  <2>4. CASE DelPending(x)
    BY <2>4 DEF DelPending
  <2>5. QED
    BY <1>1, <2>1, <2>2, <2>3, <2>4 DEF TransferStep
<1>2. ASSUME NEW x \in Sessions, RequestStep(x) PROVE Same(s) \/ Started(s) \/ Left(s)
  <2>1. ASSUME NEW r \in Requests, PayRequest(x, r) \/ ViewRequest(x, r) \/ AnswerRequest(x, r)
        PROVE  Same(s) \/ Started(s)
    <3>1. CASE PayRequest(x, r)
      BY <3>1 DEF PayRequest
    <3>2. CASE ViewRequest(x, r)
      BY <3>2 DEF ViewRequest
    <3>3. CASE AnswerRequest(x, r)
      BY <3>3 DEF AnswerRequest
    <3>4. QED
      BY <2>1, <3>1, <3>2, <3>3
  <2>2. CASE WriteAnswer(x)
    BY <2>2 DEF WriteAnswer
  <2>3. QED
    BY <1>2, <2>1, <2>2 DEF RequestStep
<1>3. ASSUME NEW x \in Sessions, LockStep(x) PROVE Same(s) \/ Left(s) \/ AcquireLock(s)
  BY <1>3 DEF LockStep, AcquireLock, LockTimesOut, ReleaseLock
<1>4. ASSUME NEW x \in Sessions, TxStep(x) PROVE Same(s) \/ Started(s) \/ Left(s) \/ Snapshot(s)
  BY <1>4 DEF TxStep, Withdraw, Snapshot, Commit, Abort, WithdrawalDone
<1>5. ASSUME NEW x \in Sessions, SessionDies(x) PROVE Same(s) \/ Left(s)
  BY <1>5 DEF SessionDies
<1>6. CASE UNCHANGED sess
  BY <1>6
<1>7. QED
  BY <1>1, <1>2, <1>3, <1>4, <1>5, <1>6
  DEF Next, PendingExpires, CreateRequest, TimePasses, LockExpires, ExpireOverdue, CreditTopup, vars
-----------------------------------------------------------------------------
\* Nobody pays oneself.
LEMMA DistinctInvariant == Spec => []DistinctInv
<1> USE DEF DistinctInv, NotToSelf
<1>1. Init => DistinctInv
  BY PaymentAssumption DEF Init, Payments
<1>2. TypeOK /\ DistinctInv /\ [Next]_vars => DistinctInv'
  <2> SUFFICES ASSUME TypeOK, DistinctInv, [Next]_vars PROVE DistinctInv'
    OBVIOUS
  <2>1. ASSUME NEW t \in Transfers, pending'[t] # Absent PROVE From[t] # To[t]
    <3>1. pending[t] # Absent \/ \E s \in Sessions : at[s] = "validated" /\ doing[s] = t
      BY <2>1 DEF TypeOK, StoresOK, Next, TransferStep, ValidateTransfer, ConfirmTransfer,
          StorePending, DelPending, RequestStep, PayRequest, ViewRequest, AnswerRequest, WriteAnswer,
          LockStep, AcquireLock, LockTimesOut, ReleaseLock, TxStep, Withdraw, Snapshot, Commit,
          Abort, WithdrawalDone, SessionDies, PendingExpires, CreateRequest, TimePasses, LockExpires,
          ExpireOverdue, CreditTopup, vars
    <3>2. QED
      BY <3>1
  <2>2. ASSUME NEW r \in Requests, status'[r] # "none" PROVE From[r] # To[r]
    <3>1. status[r] # "none" \/ CreateRequest(r)
          \/ \E s \in Sessions : doing[s] = r
      BY <2>2 DEF TypeOK, StoresOK, Overwrite, requests, Next, TransferStep, ValidateTransfer,
          ConfirmTransfer, StorePending, DelPending, RequestStep, PayRequest, ViewRequest,
          AnswerRequest, WriteAnswer, LockStep, AcquireLock, LockTimesOut, ReleaseLock, TxStep,
          Withdraw, Snapshot, Commit, Abort, WithdrawalDone, SessionDies, PendingExpires,
          CreateRequest, TimePasses, LockExpires, ExpireOverdue, CreditTopup, vars
    <3>2. QED
      BY <3>1 DEF CreateRequest
  <2>3. ASSUME NEW s \in Sessions, doing'[s] \in Transfers \cup Requests
        PROVE  From[doing'[s]] # To[doing'[s]]
    <3>1. CASE Started(s)
      BY <2>3, <3>1, PaymentAssumption DEF Started, ValidateTransfer, ConfirmTransfer, PayRequest,
          ViewRequest, AnswerRequest, Withdraw, Begin, TypeOK, SessionsOK
    <3>2. CASE doing'[s] = doing[s]
      BY <2>3, <3>2
    <3>3. QED
      BY <2>3, <3>1, <3>2, SessionFrame, PaymentAssumption DEF Same, Left, AcquireLock, Snapshot,
          Goto, Payments
  <2>4. QED
    BY <2>1, <2>2, <2>3
<1>3. QED
  BY <1>1, <1>2, TypeCorrect, PTL DEF Spec
-----------------------------------------------------------------------------
(* What a commit does to the wallets, given that its snapshot is sound *)

\* Versions only grow, and a wallet whose version stays keeps its balance.
Advances ==
    \A u \in Users :
        /\ version[u] <= version'[u]
        /\ version'[u] = version[u] => balance'[u] = balance[u]

\* A commit moves Amount[p] of the balances of this moment, from a payer who has
\* it: the snapshot was the present, for the rows the transaction writes.
LEMMA CommitEffect ==
    ASSUME TypeOK, DistinctInv, SnapshotInv, NEW s \in Sessions, Commit(s),
           NEW p, p = doing[s], NEW f, f = From[p], NEW u, u = To[p]
    PROVE  /\ p \in Payments /\ f \in Users /\ u \in Users /\ Amount[p] \in Nat
           /\ balance[f] >= Amount[p] /\ version'[f] = version[f] + 1
           /\ moved' = [moved EXCEPT ![p] = @ + 1]
           /\ p \in Withdrawals =>
                 /\ balance' = [balance EXCEPT ![f] = @ - Amount[p]]
                 /\ bank' = [bank EXCEPT ![f] = @ + Amount[p]]
                 /\ booked' = [booked EXCEPT ![f] = @ - Amount[p]]
                 /\ UNCHANGED used
           /\ p \notin Withdrawals =>
                 /\ f # u /\ UNCHANGED bank /\ used' = used \cup {key[s]} /\ key[s] \notin used
                 /\ balance' = [balance EXCEPT ![f] = @ - Amount[p], ![u] = @ + Amount[p]]
                 /\ booked' = [booked EXCEPT ![f] = @ - Amount[p], ![u] = @ + Amount[p]]
           /\ Advances /\ UNCHANGED topups
<1>1. p \in Payments /\ f \in Users /\ u \in Users /\ Amount[p] \in Nat
  BY PaymentAssumption DEF Commit, TypeOK, SessionsOK
<1>2. sawBal[s][f] = balance[f] /\ sawBal[s][u] = balance[u]
  BY <1>1 DEF Commit, RowsUnchanged, SnapshotInv
<1>3. balance[f] >= Amount[p] /\ MoveMoney(s) /\ UNCHANGED topups
  BY <1>2 DEF Commit, Allowed
<1>4. CASE p \in Withdrawals
  BY <1>1, <1>2, <1>3, <1>4 DEF MoveMoney, Advances, TypeOK, StoresOK
<1>5. CASE p \notin Withdrawals
  <2>1. f # u /\ key[s] \notin used
    BY <1>1, <1>5 DEF DistinctInv, NotToSelf, Payments, Commit, KeyUnused
  <2>2. /\ balance' = [balance EXCEPT ![f] = balance[f] - Amount[p], ![u] = balance[u] + Amount[p]]
        /\ version' = [version EXCEPT ![f] = @ + 1, ![u] = @ + 1]
        /\ booked' = [booked EXCEPT ![f] = @ - Amount[p], ![u] = @ + Amount[p]]
        /\ used' = used \cup {key[s]} /\ UNCHANGED bank
        /\ moved' = [moved EXCEPT ![p] = @ + 1]
    BY <1>2, <1>3, <1>5 DEF MoveMoney
  <2>3. version'[f] = version[f] + 1 /\ Advances
    BY <1>1, <2>1, <2>2 DEF Advances, TypeOK, StoresOK
  <2>4. [balance EXCEPT ![f] = balance[f] - Amount[p], ![u] = balance[u] + Amount[p]]
         = [balance EXCEPT ![f] = @ - Amount[p], ![u] = @ + Amount[p]]
    BY <1>1, <2>1 DEF TypeOK, StoresOK
  <2>5. QED
    BY <1>1, <1>3, <1>5, <2>1, <2>2, <2>3, <2>4
<1>6. QED
  BY <1>4, <1>5

\* No step changes a balance and leaves its version.
LEMMA StepAdvances ==
    ASSUME TypeOK, DistinctInv, SnapshotInv, [Next]_vars PROVE Advances
<1>1. ASSUME NEW s \in Sessions, Commit(s) PROVE Advances
  BY <1>1, CommitEffect
<1>2. ASSUME NEW u \in Users, CreditTopup(u) PROVE Advances
  BY <1>2 DEF CreditTopup, Advances, TypeOK, StoresOK
<1>3. CASE UNCHANGED wallets
  BY <1>3 DEF wallets, Advances, TypeOK, StoresOK
<1>4. QED
  BY <1>1, <1>2, <1>3, WalletFrame

\* A version read in a snapshot that still matches stands for the balance read.
LEMMA SnapshotInvariant == Spec => []SnapshotInv
<1>1. Init => SnapshotInv
  BY DEF Init, SnapshotInv
<1>2. TypeOK /\ DistinctInv /\ SnapshotInv /\ [Next]_vars => SnapshotInv'
  <2> SUFFICES ASSUME TypeOK, DistinctInv, SnapshotInv, [Next]_vars,
                      NEW s \in Sessions, at'[s] = "inTx", NEW u \in Users
               PROVE  /\ sawVer'[s][u] <= version'[u]
                      /\ sawVer'[s][u] = version'[u] => sawBal'[s][u] = balance'[u]
    BY DEF SnapshotInv
  <2>1. Advances
    BY StepAdvances
  <2>2. version[u] \in Nat /\ sawVer[s][u] \in Nat /\ version'[u] \in Nat
    <3>1. TypeOK'
      BY TypeStep
    <3>2. QED
      BY <3>1 DEF TypeOK, StoresOK, SessionsOK
  <2>3. CASE Snapshot(s)
    BY <2>2, <2>3 DEF Snapshot, TypeOK, SessionsOK, wallets
  <2>4. CASE at[s] = "inTx" /\ sawBal'[s] = sawBal[s] /\ sawVer'[s] = sawVer[s]
    BY <2>1, <2>2, <2>4 DEF SnapshotInv, Advances
  <2>5. QED
    <3>1. ~Started(s)
      BY DEF Started, ValidateTransfer, ConfirmTransfer, PayRequest, ViewRequest, AnswerRequest,
          Withdraw, Begin, TypeOK, SessionsOK
    <3>2. ~Left(s)
      BY DEF Left
    <3>3. ~AcquireLock(s)
      BY DEF AcquireLock, Goto, TypeOK, SessionsOK
    <3>4. Same(s) \/ Snapshot(s)
      BY <3>1, <3>2, <3>3, SessionFrame
    <3>5. QED
      BY <2>3, <2>4, <3>4 DEF Same
<1>3. QED
  BY <1>1, <1>2, TypeCorrect, DistinctInvariant, PTL DEF Spec

-----------------------------------------------------------------------------
(* The wallets *)

\* Balances are never negative and always agree with the ledger: a commit takes
\* what is there, and writes the balance and the ledger entry of one amount.
LEMMA WalletInvariant == Spec => [](NoOverdraft /\ WalletMatchesLedger)
<1>1. Init => NoOverdraft /\ WalletMatchesLedger
  BY PaymentAssumption DEF Init, NoOverdraft, WalletMatchesLedger
<1>2. TypeOK /\ DistinctInv /\ SnapshotInv /\ NoOverdraft /\ WalletMatchesLedger /\ [Next]_vars
        => (NoOverdraft /\ WalletMatchesLedger)'
  <2> SUFFICES ASSUME TypeOK, DistinctInv, SnapshotInv, NoOverdraft, WalletMatchesLedger,
                      [Next]_vars, NEW v \in Users
               PROVE  balance'[v] >= 0 /\ balance'[v] = Opening[v] + booked'[v]
    BY DEF NoOverdraft, WalletMatchesLedger
  <2>0. /\ balance \in [Users -> Int] /\ booked \in [Users -> Int] /\ Opening[v] \in Nat
        /\ balance[v] >= 0 /\ balance[v] = Opening[v] + booked[v]
    BY PaymentAssumption DEF TypeOK, StoresOK, NoOverdraft, WalletMatchesLedger
  <2>1. ASSUME NEW s \in Sessions, Commit(s)
        PROVE  balance'[v] >= 0 /\ balance'[v] = Opening[v] + booked'[v]
    <3> DEFINE p == doing[s]
    <3>1. /\ p \in Payments /\ From[p] \in Users /\ To[p] \in Users /\ Amount[p] \in Nat
          /\ balance[From[p]] >= Amount[p]
      BY <2>1, CommitEffect
    <3>2. CASE p \in Withdrawals
      <4>1. /\ balance' = [balance EXCEPT ![From[p]] = @ - Amount[p]]
            /\ booked' = [booked EXCEPT ![From[p]] = @ - Amount[p]]
        BY <2>1, <3>2, CommitEffect
      <4>2. QED
        BY <2>0, <3>1, <4>1
    <3>3. CASE p \notin Withdrawals
      <4>1. /\ balance' = [balance EXCEPT ![From[p]] = @ - Amount[p], ![To[p]] = @ + Amount[p]]
            /\ booked' = [booked EXCEPT ![From[p]] = @ - Amount[p], ![To[p]] = @ + Amount[p]]
            /\ From[p] # To[p]
        BY <2>1, <3>3, CommitEffect
      <4>2. QED
        BY <2>0, <3>1, <4>1
    <3>4. QED
      BY <3>2, <3>3
  <2>2. ASSUME NEW u \in Users, CreditTopup(u)
        PROVE  balance'[v] >= 0 /\ balance'[v] = Opening[v] + booked'[v]
    BY <2>0, <2>2 DEF CreditTopup
  <2>3. CASE UNCHANGED wallets
    BY <2>0, <2>3 DEF wallets
  <2>4. QED
    BY <2>1, <2>2, <2>3, WalletFrame
<1>3. QED
  BY <1>1, <1>2, TypeCorrect, DistinctInvariant, SnapshotInvariant, PTL DEF Spec

\* Nobody spends money that is not there: the balance of the snapshot a payment
\* was checked against is the balance of the moment it commits.
THEOREM NeverOverdrawn == Spec => []NoOverdraft
BY WalletInvariant, PTL

\* A wallet always holds what its SUCCESS ledger entries add up to, whatever
\* transfers, request payments, withdrawals and credits overlap.
THEOREM LedgerAgrees == Spec => []WalletMatchesLedger
BY WalletInvariant, PTL
-----------------------------------------------------------------------------
(* Requests: the unique key *)

\* A request is paid under its own key, which is used up when money moves.
LEMMA KeyInvariant == Spec => []KeyInv
<1>1. Init => KeyInv
  BY PaymentAssumption DEF Init, KeyInv, Payments
<1>2. TypeOK /\ DistinctInv /\ SnapshotInv /\ KeyInv /\ [Next]_vars => KeyInv'
  <2> SUFFICES ASSUME TypeOK, DistinctInv, SnapshotInv, KeyInv, [Next]_vars PROVE KeyInv'
    OBVIOUS
  <2>1. ASSUME NEW s \in Sessions, at'[s] \in {"checked", "locked", "inTx"},
               doing'[s] \in Requests
        PROVE  key'[s] = doing'[s]
    <3>1. CASE Started(s)
      BY <2>1, <3>1, PaymentAssumption DEF Started, ValidateTransfer, ConfirmTransfer, PayRequest,
          ViewRequest, AnswerRequest, Withdraw, Begin, TypeOK, SessionsOK
    <3>2. CASE Same(s)
      BY <2>1, <3>2 DEF Same, KeyInv
    <3>3. CASE AcquireLock(s)
      BY <2>1, <3>3 DEF AcquireLock, Goto, KeyInv
    <3>4. CASE Snapshot(s)
      BY <2>1, <3>4, PaymentAssumption DEF Snapshot, KeyInv, TypeOK, SessionsOK
    <3>5. QED
      BY <2>1, <3>1, <3>2, <3>3, <3>4, SessionFrame DEF Left
  <2>2. ASSUME NEW r \in Requests PROVE moved'[r] <= 1 /\ (moved'[r] > 0 => r \in used')
    <3>0. moved \in [Payments -> Nat] /\ moved[r] <= 1 /\ (moved[r] > 0 => r \in used)
          /\ r \in Payments
      BY DEF TypeOK, StoresOK, KeyInv, Payments
    <3>1. ASSUME NEW s \in Sessions, Commit(s)
          PROVE  moved'[r] <= 1 /\ (moved'[r] > 0 => r \in used')
      <4> DEFINE p == doing[s]
      <4>1. moved' = [moved EXCEPT ![p] = @ + 1]
            /\ (p \in Withdrawals => UNCHANGED used)
            /\ (p \notin Withdrawals => used' = used \cup {key[s]} /\ key[s] \notin used)
        BY <3>1, CommitEffect
      <4>2. p = r => key[s] = r /\ p \notin Withdrawals
        BY <3>1, PaymentAssumption DEF Commit, KeyInv
      <4>3. QED
        BY <3>0, <4>1, <4>2
    <3>2. QED
      BY <3>0, <3>1, WalletFrame DEF CreditTopup, wallets
  <2>3. QED
    BY <2>1, <2>2 DEF KeyInv
<1>3. QED
  BY <1>1, <1>2, TypeCorrect, DistinctInvariant, SnapshotInvariant, PTL DEF Spec
-----------------------------------------------------------------------------
(* Transfers: the version the validation read *)

\* Who was shown a balance stays shown it, and only validation shows one.
LEMMA ShownFrame ==
    ASSUME TypeOK, [Next]_vars, NEW t \in Transfers
    PROVE  \/ shown'[t] = shown[t]
           \/ /\ shown[t] = Absent /\ shown'[t] # Absent /\ UNCHANGED <<pending, wallets>>
              /\ \E s \in Sessions : ValidateTransfer(s, t)
<1>1. ASSUME NEW s \in Sessions, NEW x \in Transfers, ValidateTransfer(s, x)
      PROVE  \/ shown'[t] = shown[t]
             \/ /\ shown[t] = Absent /\ shown'[t] # Absent /\ UNCHANGED <<pending, wallets>>
                /\ \E z \in Sessions : ValidateTransfer(z, t)
  <2>1. balance[From[x]] - Amount[x] # Absent
    <3>1. x \in Payments
      BY DEF Payments
    <3>2. From[x] \in Users /\ Amount[x] \in Nat
      BY <3>1, PaymentAssumption
    <3>3. balance[From[x]] \in Int /\ balance[From[x]] >= Amount[x]
      BY <1>1, <3>2 DEF ValidateTransfer, TypeOK, StoresOK
    <3>4. QED
      BY <3>2, <3>3 DEF Absent
  <2>2. QED
    BY <1>1, <2>1 DEF ValidateTransfer, TypeOK, StoresOK
<1>2. ASSUME ~\E s \in Sessions, x \in Transfers : ValidateTransfer(s, x)
      PROVE  UNCHANGED shown
  BY <1>2 DEF Next, TransferStep, ConfirmTransfer, StorePending, DelPending, RequestStep,
      PayRequest, ViewRequest, AnswerRequest, WriteAnswer, LockStep, AcquireLock, LockTimesOut,
      ReleaseLock, TxStep, Withdraw, Snapshot, Commit, Abort, WithdrawalDone, SessionDies,
      PendingExpires, CreateRequest, TimePasses, LockExpires, ExpireOverdue, CreditTopup, vars
<1>3. QED
  BY <1>1, <1>2

\* A pending transfer appears only as its validation stores it.
LEMMA PendingFrame ==
    ASSUME TypeOK, [Next]_vars, NEW t \in Transfers, pending'[t] # Absent
    PROVE  \/ pending'[t] = pending[t]
           \/ \E s \in Sessions : /\ at[s] = "validated" /\ doing[s] = t
                                  /\ pending'[t] = want[s]
BY DEF Next, TransferStep, ValidateTransfer, ConfirmTransfer, StorePending, DelPending, RequestStep,
    PayRequest, ViewRequest, AnswerRequest, WriteAnswer, LockStep, AcquireLock, LockTimesOut,
    ReleaseLock, TxStep, Withdraw, Snapshot, Commit, Abort, WithdrawalDone, SessionDies,
    PendingExpires, CreateRequest, TimePasses, LockExpires, ExpireOverdue, CreditTopup, vars,
    TypeOK, StoresOK

\* A commit of t moves the payer's version; nothing else moves money for t.
LEMMA MovedFrame ==
    ASSUME TypeOK, DistinctInv, SnapshotInv, [Next]_vars, NEW p \in Payments
    PROVE  \/ moved'[p] = moved[p]
           \/ \E s \in Sessions : /\ Commit(s) /\ doing[s] = p
                                  /\ moved'[p] = moved[p] + 1
                                  /\ version'[From[p]] = version[From[p]] + 1
<1>1. ASSUME NEW s \in Sessions, Commit(s), doing[s] = p
      PROVE  moved'[p] = moved[p] + 1 /\ version'[From[p]] = version[From[p]] + 1
  <2>1. moved' = [moved EXCEPT ![p] = @ + 1] /\ version'[From[p]] = version[From[p]] + 1
    BY <1>1, CommitEffect
  <2>2. QED
    BY <2>1 DEF TypeOK, StoresOK
<1>2. ASSUME NEW s \in Sessions, Commit(s), doing[s] # p
      PROVE  moved'[p] = moved[p]
  BY <1>2 DEF Commit, MoveMoney, TypeOK, StoresOK
<1>3. QED
  BY <1>1, <1>2, WalletFrame DEF wallets, CreditTopup

\* What was validated stays so, or falls behind.
LEMMA ValidatedStays ==
    ASSUME TypeOK, DistinctInv, SnapshotInv, [Next]_vars,
           NEW t \in Transfers, NEW v \in Nat, Validated(t, v), shown[t] # Absent
    PROVE  Validated(t, v)'
<1>0. From[t] \in Users /\ t \in Payments
  BY PaymentAssumption DEF Payments
<1>1. version[From[t]] <= version'[From[t]]
      /\ (version'[From[t]] = version[From[t]] => balance'[From[t]] = balance[From[t]])
  <2>1. Advances
    BY StepAdvances
  <2>2. QED
    BY <1>0, <2>1 DEF Advances
<1>2. version[From[t]] \in Nat /\ version'[From[t]] \in Nat
  <2>1. TypeOK'
    BY TypeStep
  <2>2. QED
    BY <1>0, <2>1 DEF TypeOK, StoresOK
<1>3. shown'[t] = shown[t]
  BY ShownFrame
<1>4. v <= version'[From[t]]
  BY <1>1, <1>2 DEF Validated
<1>5. ASSUME v = version'[From[t]]
      PROVE  moved'[t] = 0 /\ shown'[t] = balance'[From[t]] - Amount[t]
  <2>1. version[From[t]] = v /\ version'[From[t]] = version[From[t]]
    BY <1>1, <1>2, <1>5 DEF Validated
  <2>2. moved[t] = 0 /\ shown[t] = balance[From[t]] - Amount[t]
    BY <2>1 DEF Validated
  <2>3. moved'[t] = moved[t]
    BY <1>0, <1>2, <2>1, MovedFrame
  <2>4. QED
    BY <1>1, <1>3, <2>1, <2>2, <2>3
<1>6. QED
  BY <1>4, <1>5 DEF Validated

\* Whoever commits a transfer finds the wallet as validation left it.
LEMMA PaidAsValidated ==
    ASSUME TypeOK, ValidatedInv, NEW s \in Sessions, Commit(s), doing[s] \in Transfers,
           NEW t, t = doing[s]
    PROVE  moved[t] = 0 /\ shown[t] = balance[From[t]] - Amount[t]
<1>1. Validated(t, want[s])
  BY DEF ValidatedInv, Confirmable, Commit
<1>2. want[s] = version[From[t]]
  BY DEF Commit, Allowed, VersionAsValidated, RowsUnchanged
<1>3. QED
  BY <1>1, <1>2 DEF Validated

\* Whoever holds a validated version holds what validation saw or is behind.
LEMMA ValidatedInvariant == Spec => []ValidatedInv
<1>1. Init => ValidatedInv
  BY PaymentAssumption DEF Init, ValidatedInv, Payments
<1>2. TypeOK /\ DistinctInv /\ SnapshotInv /\ ValidatedInv /\ [Next]_vars => ValidatedInv'
  <2> SUFFICES ASSUME TypeOK, DistinctInv, SnapshotInv, ValidatedInv, [Next]_vars
               PROVE  ValidatedInv'
    OBVIOUS
  <2>0. /\ \A t \in Transfers : shown[t] # Absent => shown'[t] = shown[t] /\ shown'[t] # Absent
        /\ \A t \in Transfers : t \in Payments
    BY ShownFrame DEF Payments
  <2>1. ASSUME NEW t \in Transfers, shown'[t] = Absent PROVE pending'[t] = Absent /\ moved'[t] = 0
    <3>1. shown[t] = Absent
      BY <2>0, <2>1
    <3>2. pending[t] = Absent /\ moved[t] = 0 /\ \A s \in Sessions : doing[s] # t
      BY <3>1 DEF ValidatedInv
    <3>3. pending'[t] = Absent
      BY <3>2, PendingFrame
    <3>4. moved'[t] = 0
      BY <2>0, <3>2, MovedFrame
    <3>5. QED
      BY <3>3, <3>4
  <2>2. ASSUME NEW s \in Sessions, doing'[s] \in Transfers PROVE shown'[doing'[s]] # Absent
    <3>1. ASSUME NEW t \in Transfers, ValidateTransfer(s, t) PROVE shown'[doing'[s]] # Absent
      <4>1. doing'[s] = t
        BY <3>1 DEF ValidateTransfer, Begin, TypeOK, SessionsOK
      <4>2. shown[t] = Absent /\ shown' # shown
        <5>1. shown'[t] = balance[From[t]] - Amount[t] /\ balance[From[t]] >= Amount[t]
          BY <3>1 DEF ValidateTransfer, TypeOK, StoresOK
        <5>2. From[t] \in Users /\ Amount[t] \in Nat /\ balance[From[t]] \in Int
          BY <2>0, PaymentAssumption DEF TypeOK, StoresOK
        <5>3. QED
          BY <3>1, <5>1, <5>2 DEF ValidateTransfer, Absent
      <4>3. shown'[t] # shown[t]
        BY <3>1, <4>2 DEF ValidateTransfer, TypeOK, StoresOK
      <4>4. QED
        BY <4>1, <4>2, <4>3
    <3>2. ASSUME NEW t \in Transfers, NEW k \in Keys, ConfirmTransfer(s, t, k)
          PROVE  shown'[doing'[s]] # Absent
      BY <2>0, <3>2 DEF ConfirmTransfer, Begin, TypeOK, SessionsOK, ValidatedInv
    <3>3. CASE doing'[s] = doing[s]
      BY <2>0, <2>2, <3>3 DEF ValidatedInv
    <3>4. CASE \/ \E r \in Requests : PayRequest(s, r) \/ ViewRequest(s, r) \/ AnswerRequest(s, r)
               \/ \E w \in Withdrawals : Withdraw(s, w)
      BY <2>2, <3>4, PaymentAssumption DEF PayRequest, ViewRequest, AnswerRequest, Withdraw, Begin,
          TypeOK, SessionsOK
    <3>5. QED
      BY <2>2, <3>1, <3>2, <3>3, <3>4, SessionFrame, PaymentAssumption
      DEF Started, Same, Left, AcquireLock, Snapshot, Goto, Payments
  <2>3. ASSUME NEW t \in Transfers, pending'[t] # Absent PROVE Validated(t, pending[t])'
    <3>1. PICK v \in Nat : pending'[t] = v /\ Validated(t, v) /\ shown[t] # Absent
      <4>1. CASE pending'[t] = pending[t]
        BY <2>3, <4>1 DEF ValidatedInv, TypeOK, StoresOK
      <4>2. CASE \E s \in Sessions : at[s] = "validated" /\ doing[s] = t /\ pending'[t] = want[s]
        BY <4>2 DEF ValidatedInv, Confirmable, TypeOK, SessionsOK
      <4>3. QED
        BY <2>3, <4>1, <4>2, PendingFrame
    <3>2. Validated(t, v)'
      BY <3>1, ValidatedStays
    <3>3. QED
      BY <3>1, <3>2 DEF Validated
  <2>4. ASSUME NEW s \in Sessions, doing'[s] \in Transfers, Confirmable(s)'
        PROVE  Validated(doing[s], want[s])'
    <3>1. ASSUME NEW t \in Transfers, NEW v \in Nat, doing'[s] = t, want'[s] = v,
                 Validated(t, v), shown[t] # Absent
          PROVE  Validated(doing[s], want[s])'
      <4>1. Validated(t, v)'
        BY <3>1, ValidatedStays
      <4>2. QED
        BY <3>1, <4>1 DEF Validated
    <3>2. ASSUME doing'[s] = doing[s], want'[s] = want[s], Confirmable(s)
          PROVE  Validated(doing[s], want[s])'
      BY <2>4, <3>1, <3>2 DEF ValidatedInv, TypeOK, SessionsOK
    <3>3. ASSUME NEW t \in Transfers, ValidateTransfer(s, t)
          PROVE  Validated(doing[s], want[s])'
      <4>1. doing'[s] = t /\ want'[s] = version[From[t]]
        BY <3>3 DEF ValidateTransfer, Begin, TypeOK, SessionsOK
      <4>2. /\ moved'[t] = 0 /\ version' = version /\ balance' = balance
            /\ shown'[t] = balance[From[t]] - Amount[t]
        BY <3>3 DEF ValidateTransfer, ValidatedInv, wallets, TypeOK, StoresOK
      <4>3. version[From[t]] \in Nat
        BY <2>0, PaymentAssumption DEF TypeOK, StoresOK
      <4>4. QED
        BY <4>1, <4>2, <4>3 DEF Validated
    <3>4. ASSUME NEW t \in Transfers, NEW k \in Keys, ConfirmTransfer(s, t, k)
          PROVE  Validated(doing[s], want[s])'
      <4>1. doing'[s] = t /\ want'[s] = pending[t] /\ pending[t] # Absent
        BY <3>4 DEF ConfirmTransfer, Begin, TypeOK, SessionsOK
      <4>2. pending[t] \in Nat /\ Validated(t, pending[t]) /\ shown[t] # Absent
        BY <4>1 DEF ValidatedInv, TypeOK, StoresOK
      <4>3. QED
        BY <3>1, <4>1, <4>2
    <3>5. CASE Same(s)
      BY <2>4, <3>2, <3>5 DEF Same, Confirmable
    <3>6. CASE AcquireLock(s)
      BY <3>2, <3>6 DEF AcquireLock, Goto, Confirmable
    <3>7. CASE Snapshot(s)
      BY <2>4, <3>2, <3>7, PaymentAssumption DEF Snapshot, Confirmable, TypeOK, SessionsOK
    <3>8. CASE Started(s)
      <4>1. ~(\/ \E r \in Requests : PayRequest(s, r) \/ ViewRequest(s, r) \/ AnswerRequest(s, r)
              \/ \E w \in Withdrawals : Withdraw(s, w))
        BY <2>4, PaymentAssumption DEF PayRequest, ViewRequest, AnswerRequest, Withdraw, Begin,
            TypeOK, SessionsOK
      <4>2. QED
        BY <3>3, <3>4, <3>8, <4>1 DEF Started
    <3>9. ~Left(s)
      BY <2>4 DEF Left, Confirmable
    <3>10. QED
      BY <3>5, <3>6, <3>7, <3>8, <3>9, SessionFrame
  <2>5. ASSUME NEW t \in Transfers PROVE moved'[t] <= 1
    <3>1. moved[t] <= 1 /\ moved[t] \in Nat /\ From[t] \in Users
      BY <2>0, PaymentAssumption DEF ValidatedInv, TypeOK, StoresOK
    <3>2. ASSUME NEW s \in Sessions, Commit(s), doing[s] = t PROVE moved[t] = 0
      BY <3>1, <3>2, PaidAsValidated
    <3>3. QED
      BY <2>0, <3>1, <3>2, MovedFrame
  <2>6. QED
    <3>1. \A t \in Transfers : shown'[t] = Absent => pending'[t] = Absent /\ moved'[t] = 0
      BY <2>1
    <3>2. \A s \in Sessions : doing'[s] \in Transfers => shown'[doing'[s]] # Absent
      BY <2>2
    <3>3. (\A t \in Transfers : pending[t] # Absent => Validated(t, pending[t]))'
      BY <2>3
    <3>4. (\A s \in Sessions :
              doing[s] \in Transfers /\ Confirmable(s) => Validated(doing[s], want[s]))'
      BY <2>4
    <3>5. QED
      BY <2>5, <3>1, <3>2, <3>3, <3>4 DEF ValidatedInv
<1>3. QED
  BY <1>1, <1>2, TypeCorrect, DistinctInvariant, SnapshotInvariant, PTL DEF Spec

\* A validated transfer and an accepted request move money at most once: the
\* wallet's version stops the transfer's second confirmation, the unique
\* idempotency key the request's second payment -- not the Redis lock.
THEOREM PaidOnce == Spec => []MovedOnce
<1>1. KeyInv /\ ValidatedInv => MovedOnce
  BY DEF KeyInv, ValidatedInv, MovedOnce
<1>2. QED
  BY <1>1, KeyInvariant, ValidatedInvariant, PTL

\* The payer of a transfer is left with the newBalance that validation showed.
THEOREM AsShown == Spec => ShownBalanceHolds
<1>1. TypeOK /\ DistinctInv /\ SnapshotInv /\ ValidatedInv /\ [Next]_vars
        => [\A t \in Transfers : moved'[t] > moved[t] => balance'[From[t]] = shown[t]]_vars
  <2> SUFFICES ASSUME TypeOK, DistinctInv, SnapshotInv, ValidatedInv, [Next]_vars,
                      NEW t \in Transfers, moved'[t] > moved[t]
               PROVE  balance'[From[t]] = shown[t]
    OBVIOUS
  <2>1. t \in Payments /\ t \notin Withdrawals /\ moved[t] \in Nat
    BY PaymentAssumption DEF TypeOK, StoresOK, Payments
  <2>2. PICK s \in Sessions : Commit(s) /\ doing[s] = t
    BY <2>1, MovedFrame
  <2>3. shown[t] = balance[From[t]] - Amount[t]
    BY <2>2, PaidAsValidated
  <2>4. /\ From[t] \in Users /\ From[t] # To[t]
        /\ balance' = [balance EXCEPT ![From[t]] = @ - Amount[t], ![To[t]] = @ + Amount[t]]
    BY <2>1, <2>2, CommitEffect
  <2>5. QED
    BY <2>3, <2>4 DEF TypeOK, StoresOK
<1>2. QED
  BY <1>1, TypeCorrect, DistinctInvariant, SnapshotInvariant, ValidatedInvariant, PTL
  DEF Spec, ShownBalanceHolds
-----------------------------------------------------------------------------
\* Every payment is one atomic move of money: each commit is a step of
\* AtomicPayments, and everything before and after it changes no money.
THEOREM Atomic == Spec => PaymentsAreAtomic
<1> USE DEF Promise!money, Promise!Payments
<1>1. Init => Promise!Init
  BY DEF Init, Promise!Init, Payments
<1>2. TypeOK /\ DistinctInv /\ SnapshotInv /\ KeyInv /\ ValidatedInv /\ [Next]_vars
        => [Promise!Next]_(Promise!money)
  <2> SUFFICES ASSUME TypeOK, DistinctInv, SnapshotInv, KeyInv, ValidatedInv, [Next]_vars
               PROVE  Promise!Next \/ UNCHANGED <<balance, bank, moved, topups>>
    BY DEF Promise!money
  <2>1. ASSUME NEW s \in Sessions, Commit(s) PROVE Promise!Next
    <3> DEFINE p == doing[s]
    <3>1. /\ p \in Payments /\ balance[From[p]] >= Amount[p] /\ UNCHANGED topups
          /\ moved' = [moved EXCEPT ![p] = @ + 1]
      BY <2>1, CommitEffect
    <3>2. CASE p \in Withdrawals
      <4>1. /\ balance' = [balance EXCEPT ![From[p]] = @ - Amount[p]]
            /\ bank' = [bank EXCEPT ![From[p]] = @ + Amount[p]]
        BY <2>1, <3>2, CommitEffect
      <4>2. Promise!Cash(p)
        BY <3>1, <4>1 DEF Promise!Cash, Promise!Covered
      <4>3. QED
        BY <3>2, <4>2 DEF Promise!Next
    <3>3. CASE p \notin Withdrawals
      <4>1. /\ balance' = [balance EXCEPT ![From[p]] = @ - Amount[p], ![To[p]] = @ + Amount[p]]
            /\ From[p] # To[p] /\ UNCHANGED bank /\ key[s] \notin used
        BY <2>1, <3>3, CommitEffect
      <4>3. moved[p] = 0
        <5>1. CASE p \in Transfers
          BY <2>1, <5>1, PaidAsValidated
        <5>2. CASE p \in Requests
          BY <2>1, <4>1, <5>2 DEF Commit, KeyInv, TypeOK, StoresOK, Payments
        <5>3. QED
          BY <3>1, <3>3, <5>1, <5>2 DEF Payments
      <4>4. moved' = [moved EXCEPT ![p] = 1]
        BY <3>1, <4>3
      <4>5. Promise!Pay(p)
        BY <3>1, <4>1, <4>3, <4>4 DEF Promise!Pay, Promise!Covered
      <4>6. QED
        BY <3>1, <3>3, <4>5 DEF Promise!Next, Payments
    <3>4. QED
      BY <3>2, <3>3
  <2>2. ASSUME NEW u \in Users, CreditTopup(u) PROVE Promise!Next
    BY <2>2 DEF CreditTopup, Promise!Next, Promise!Credit
  <2>3. QED
    BY <2>1, <2>2, WalletFrame DEF wallets
<1>3. QED
  BY <1>1, <1>2, TypeCorrect, DistinctInvariant, SnapshotInvariant, KeyInvariant,
     ValidatedInvariant, PTL DEF Spec, PaymentsAreAtomic, Promise!Spec
-----------------------------------------------------------------------------
\* What is added up in Payments is the sum SumTheorems is about.
LEMMA SumsAlike == \A f : SumOf(f) = SumOn(f, Users)
BY DEF SumOf, SumOn

\* Money is neither made nor lost, however many wallets there are: that payments
\* are atomic is all it takes.
THEOREM MoneyConserved == Spec => []Conserved
<1>1. Init => Conserved
  <2> SUFFICES ASSUME Init PROVE Conserved
    OBVIOUS
  <2> DEFINE none == [u \in Users |-> 0]
  <2>1. SumOn(none, Users) = 0
    BY PaymentAssumption, SumZero
  <2>2. QED
    BY <2>1 DEF Init, Conserved, SumOf, SumOn
<1>2. TypeOK /\ Conserved /\ [Promise!Next]_(Promise!money) => Conserved'
  <2> SUFFICES ASSUME TypeOK, Conserved, [Promise!Next]_(Promise!money) PROVE Conserved'
    OBVIOUS
  <2> USE DEF Conserved
  <2>0. /\ balance \in [Users -> Int] /\ bank \in [Users -> Int] /\ topups \in Nat
        /\ Opening \in [Users -> Int]
    BY PaymentAssumption DEF TypeOK, StoresOK
  <2>1. /\ IsFiniteSet(Users) /\ Integral(balance, Users) /\ Integral(bank, Users)
        /\ SumOn(balance, Users) \in Int /\ SumOn(bank, Users) \in Int
        /\ SumOn(Opening, Users) \in Int
    <3>1. Integral(balance, Users) /\ Integral(bank, Users) /\ Integral(Opening, Users)
      BY <2>0 DEF Integral
    <3>2. QED
      BY <3>1, PaymentAssumption, SumType
  <2>2. ASSUME NEW p \in Transfers \cup Requests, Promise!Pay(p) PROVE Conserved'
    <3>1. From[p] \in Users /\ To[p] \in Users /\ From[p] # To[p] /\ Amount[p] \in Int
      BY <2>2, PaymentAssumption DEF Payments, Promise!Pay
    <3>2. /\ balance'[From[p]] = balance[From[p]] - Amount[p]
          /\ balance'[To[p]] = balance[To[p]] + Amount[p]
          /\ \A u \in Users : u \notin {From[p], To[p]} => balance'[u] = balance[u]
          /\ UNCHANGED <<bank, topups>>
      BY <2>0, <2>2, <3>1 DEF Promise!Pay
    <3>3. SumOn(balance', Users) = SumOn(balance, Users)
      BY <2>1, <3>1, <3>2, SumExchange
    <3>4. QED
      BY <3>2, <3>3, SumsAlike
  <2>3. ASSUME NEW w \in Withdrawals, Promise!Cash(w) PROVE Conserved'
    <3>1. From[w] \in Users /\ Amount[w] \in Int /\ -Amount[w] \in Int
      BY PaymentAssumption DEF Payments
    <3>2. /\ balance'[From[w]] = balance[From[w]] + (-Amount[w])
          /\ bank'[From[w]] = bank[From[w]] + Amount[w] /\ UNCHANGED topups
          /\ \A u \in Users : u # From[w] => balance'[u] = balance[u] /\ bank'[u] = bank[u]
      BY <2>0, <2>3, <3>1 DEF Promise!Cash
    <3>3. /\ SumOn(balance', Users) = SumOn(balance, Users) + (-Amount[w])
          /\ SumOn(bank', Users) = SumOn(bank, Users) + Amount[w]
      BY <2>1, <3>1, <3>2, SumGain
    <3>4. QED
      BY <2>1, <3>1, <3>2, <3>3, SumsAlike
  <2>4. ASSUME NEW u \in Users, Promise!Credit(u) PROVE Conserved'
    <3>1. /\ balance'[u] = balance[u] + 1 /\ UNCHANGED bank /\ topups' = topups + 1
          /\ \A v \in Users : v # u => balance'[v] = balance[v]
      BY <2>0, <2>4 DEF Promise!Credit
    <3>2. SumOn(balance', Users) = SumOn(balance, Users) + 1
      BY <2>1, <3>1, SumGain
    <3>3. QED
      BY <2>0, <2>1, <3>1, <3>2, SumsAlike
  <2>5. CASE UNCHANGED Promise!money
    BY <2>5 DEF Promise!money
  <2>6. QED
    BY <2>2, <2>3, <2>4, <2>5 DEF Promise!Next
<1>3. QED
  BY <1>1, <1>2, TypeCorrect, Atomic, PTL DEF Spec, PaymentsAreAtomic, Promise!Spec
=============================================================================
