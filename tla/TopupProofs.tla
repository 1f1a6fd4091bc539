---------------------------- MODULE TopupProofs ----------------------------
(* The safety of the top-up saga, for any orders, sessions and messages. *)
EXTENDS Topup, TLAPS

\* The state stays within its types: in particular a message is retried at
\* most MaxRetries times and an OTP record counts at most MaxOtpAttempts.
THEOREM TypeCorrect == Spec => []TypeOK
<1> USE OrderAssumption, BoundAssumption
    DEF OrderStatus, LedgerStatus, NoOtp, Stages, Places
<1>1. Init => TypeOK
  BY DEF Init, TypeOK
<1>2. TypeOK /\ [Next]_vars => TypeOK'
  <2> SUFFICES ASSUME TypeOK, [Next]_vars PROVE TypeOK'
    OBVIOUS
  <2> USE DEF TypeOK, shop, bank, wallet, sess, msg
  <2>1. ASSUME NEW o \in Orders, OrderStep(o) PROVE TypeOK'
    BY <2>1 DEF OrderStep, InitiateTopup, OtpExpires, FindStale, FailStale
  <2>2. ASSUME NEW s \in Sessions, RequestStep(s) PROVE TypeOK'
    <3> USE DEF Begin, Goto, Noting, End
    <3>1. ASSUME NEW o \in Orders, VerifyPin(s, o) \/ ConfirmTopup(s, o) PROVE TypeOK'
      BY <3>1, SMTT(60) DEF VerifyPin, ConfirmTopup
    <3>2. CASE StoreOtp(s)
      BY <3>2 DEF StoreOtp
    <3>3. CASE EmailOtpFails(s)
      BY <3>3 DEF EmailOtpFails
    <3>4. CASE MarkPending(s)
      BY <3>4 DEF MarkPending
    <3>5. CASE OtpMissing(s)
      BY <3>5 DEF OtpMissing
    <3>6. CASE ReadOtp(s)
      BY <3>6 DEF ReadOtp
    <3>7. CASE DropOtp(s)
      BY <3>7 DEF DropOtp
    <3>8. CASE FailExhausted(s)
      BY <3>8 DEF FailExhausted
    <3>9. CASE WrongOtp(s)
      BY <3>9 DEF WrongOtp
    <3>10. CASE AcceptOtp(s)
      BY <3>10 DEF AcceptOtp
    <3>11. CASE CreateLedger(s)
      <4>1. on[s] \in Orders
        BY <3>11 DEF CreateLedger
      <4>2. CASE ReferenceFree(on[s])
        BY <3>11, <4>1, <4>2 DEF CreateLedger
      <4>3. CASE ~ReferenceFree(on[s])
        BY <3>11, <4>1, <4>3, SMTT(60) DEF CreateLedger
      <4>4. QED
        BY <4>2, <4>3
    <3>12. CASE MarkProcessing(s)
      BY <3>12 DEF MarkProcessing
    <3>13. QED
      BY <2>2, <3>1, <3>2, <3>3, <3>4, <3>5, <3>6, <3>7, <3>8, <3>9, <3>10, <3>11, <3>12 DEF RequestStep
  <2>3. ASSUME NEW s \in Sessions, BankStep(s) PROVE TypeOK'
    <3> USE DEF Goto, Noting, End
    <3>1. CASE BankReadAccount(s)
      BY <3>1 DEF BankReadAccount
    <3>2. CASE BankDebit(s)
      <4>1. on[s] \in Orders /\ Source[on[s]] \in Accounts /\ Amount[on[s]] \in Nat
        BY <3>2 DEF BankDebit
      <4>2. CASE AccountUnchanged(s)
        BY <3>2, <4>1, <4>2, SMTT(60) DEF BankDebit
      <4>3. CASE ~AccountUnchanged(s)
        BY <3>2, <4>1, <4>3 DEF BankDebit, OnConflict
      <4>4. QED
        BY <4>2, <4>3
    <3>3. CASE BankQueryThrows(s)
      BY <3>3 DEF BankQueryThrows
    <3>4. ASSUME NEW C \in SUBSET Msgs,
                 PublishSuccess(s, C) \/ PublishRejected(s, C) \/ PublishInternalError(s, C)
          PROVE  TypeOK'
      <4>1. at[s] # "idle" /\ on[s] \in Orders
        BY <3>4 DEF PublishSuccess, PublishRejected, PublishInternalError
      <4>2. /\ \E what \in {"success", "failed"} : Publish(what, on[s], C)
            /\ Goto(s, "failing") \/ End(s)
            /\ UNCHANGED <<shop, bank, wallet, stale>>
        BY <3>4 DEF PublishSuccess, PublishRejected, PublishInternalError
      <4>3. /\ place' \in [Msgs -> Places] /\ kind' \in [Msgs -> {"none", "success", "failed"}]
            /\ about' \in [Msgs -> Orders \cup {NoOrder}]
            /\ \A m \in Msgs : place'[m] # "unsent" => about'[m] \in Orders /\ kind'[m] # "none"
            /\ UNCHANGED <<tries, readBal, readVer>>
        BY <4>1, <4>2 DEF Publish
      <4>4. QED
        BY <4>1, <4>2, <4>3, SMTT(60)
    <3>5. QED
      BY <2>3, <3>1, <3>2, <3>3, <3>4 DEF BankStep
  <2>4. ASSUME NEW s \in Sessions, SessionDies(s) PROVE TypeOK'
    BY <2>4 DEF SessionDies, End
  <2>5. ASSUME NEW m \in Msgs, HandlerStep(m) \/ HandlerThrows(m) PROVE TypeOK'
    <3> USE DEF Move, Leave, Retry
    <3>1. CASE FindProcessing(m)
      BY <3>1, SMTT(60) DEF FindProcessing
    <3>2. CASE ReadWallet(m)
      BY <3>2 DEF ReadWallet
    <3>3. CASE CommitCredit(m)
      BY <3>3 DEF CommitCredit
    <3>4. CASE CreditConflict(m)
      BY <3>4, SMTT(60) DEF CreditConflict
    <3>5. CASE FindFailable(m)
      BY <3>5 DEF FindFailable
    <3>6. CASE CommitFailure(m)
      BY <3>6 DEF CommitFailure
    <3>7. CASE Ack(m)
      BY <3>7 DEF Ack
    <3>8. CASE Requeue(m)
      BY <3>8 DEF Requeue
    <3>9. CASE HandlerThrows(m)
      BY <3>9, SMTT(60) DEF HandlerThrows, InHandler
    <3>10. QED
      BY <2>5, <3>1, <3>2, <3>3, <3>4, <3>5, <3>6, <3>7, <3>8, <3>9 DEF HandlerStep
  <2>6. CASE WorkerCrash
    BY <2>6 DEF WorkerCrash, InHandler
  <2>7. CASE UNCHANGED vars
    BY <2>7 DEF vars
  <2>8. QED
    BY <2>1, <2>2, <2>3, <2>4, <2>5, <2>6, <2>7 DEF Next
<1>3. QED
  BY <1>1, <1>2, PTL DEF Spec

-----------------------------------------------------------------------------
\* Whoever creates the ledger entry of an order owns its one debit.
LEMMA DebitInvariant == Spec => []DebitInv
<1> USE OrderAssumption, BoundAssumption DEF DebitInv, Paying, DebitedOnce
<1>1. Init => DebitInv
  BY DEF Init
<1>2. TypeOK /\ DebitInv /\ [Next]_vars => DebitInv'
  <2> SUFFICES ASSUME TypeOK, DebitInv, [Next]_vars PROVE DebitInv'
    OBVIOUS
  <2> USE DEF TypeOK, shop, bank, wallet, sess, msg
  \* A session that is not paying and does not begin to.
  <2>1. ASSUME NEW s \in Sessions, ~Paying(s)', UNCHANGED <<ledger, debits>>,
               \A t \in Sessions \ {s} : at'[t] = at[t] /\ on'[t] = on[t]
        PROVE  DebitInv'
    <3>1. \A t \in Sessions : Paying(t)' => Paying(t) /\ t # s /\ on'[t] = on[t]
      BY <2>1
    <3>2. QED
      BY <2>1, <3>1
  <2>2. ASSUME NEW o \in Orders, OrderStep(o) PROVE DebitInv'
    BY <2>2 DEF OrderStep, InitiateTopup, OtpExpires, FindStale, FailStale
  <2>3. ASSUME NEW s \in Sessions, RequestStep(s) PROVE DebitInv'
    <3>1. CASE CreateLedger(s)
      <4>1. on[s] \in Orders /\ ~Paying(s)
        BY <3>1 DEF CreateLedger
      <4>2. CASE ReferenceFree(on[s])
        BY <3>1, <4>1, <4>2 DEF CreateLedger, Goto, ReferenceFree
      <4>3. CASE ~ReferenceFree(on[s])
        <5>1. /\ at' = [at EXCEPT ![s] = "idle"] /\ on' = [on EXCEPT ![s] = NoOrder]
              /\ UNCHANGED <<ledger, debits>>
          BY <3>1, <4>3 DEF CreateLedger, End
        <5>2. ~Paying(s)' /\ \A t \in Sessions \ {s} : at'[t] = at[t] /\ on'[t] = on[t]
          BY <5>1
        <5>3. QED
          BY <2>1, <5>1, <5>2
      <4>4. QED
        BY <4>2, <4>3
    <3>2. CASE MarkProcessing(s)
      BY <3>2 DEF MarkProcessing, Goto
    <3>3. CASE ~CreateLedger(s) /\ ~MarkProcessing(s)
      <4>1. /\ ~Paying(s)' /\ UNCHANGED <<ledger, debits>>
            /\ \A t \in Sessions \ {s} : at'[t] = at[t] /\ on'[t] = on[t]
        BY <2>3, <3>3 DEF RequestStep, VerifyPin, ConfirmTopup, StoreOtp, EmailOtpFails,
            MarkPending, OtpMissing, ReadOtp, DropOtp, FailExhausted, WrongOtp, AcceptOtp,
            Begin, Goto, Noting, End
      <4>2. QED
        BY <2>1, <4>1
    <3>4. QED
      BY <3>1, <3>2, <3>3
  <2>4. ASSUME NEW s \in Sessions, BankStep(s) PROVE DebitInv'
    <3>1. CASE BankReadAccount(s)
      BY <3>1 DEF BankReadAccount, Noting
    <3>2. CASE BankDebit(s)
      <4>1. on[s] \in Orders /\ Paying(s)
        BY <3>2 DEF BankDebit
      <4>2. CASE AccountUnchanged(s)
        <5>1. /\ debits' = [debits EXCEPT ![on[s]] = @ + 1] /\ debits[on[s]] = 0
              /\ at' = [at EXCEPT ![s] = "debited"] /\ UNCHANGED <<on, ledger>>
          BY <3>2, <4>1, <4>2 DEF BankDebit, Goto
        <5>2. \A t \in Sessions : Paying(t)' => Paying(t) /\ t # s /\ on[t] # on[s]
          BY <4>1, <5>1
        <5>3. debits'[on[s]] = 1 /\ \A o \in Orders \ {on[s]} : debits'[o] = debits[o]
          BY <4>1, <5>1
        <5>4. QED
          BY <4>1, <5>1, <5>2, <5>3
      <4>3. CASE ~AccountUnchanged(s)
        BY <2>1, <3>2, <4>3 DEF BankDebit, Goto, OnConflict
      <4>4. QED
        BY <4>2, <4>3
    <3>3. CASE BankQueryThrows(s)
      BY <2>1, <3>3 DEF BankQueryThrows, Goto
    <3>4. ASSUME NEW C \in SUBSET Msgs,
                 PublishSuccess(s, C) \/ PublishRejected(s, C) \/ PublishInternalError(s, C)
          PROVE  DebitInv'
      <4>1. /\ ~Paying(s)' /\ UNCHANGED <<ledger, debits>>
            /\ \A t \in Sessions \ {s} : at'[t] = at[t] /\ on'[t] = on[t]
        BY <3>4 DEF PublishSuccess, PublishRejected, PublishInternalError, Goto, End
      <4>2. QED
        BY <2>1, <4>1
    <3>5. QED
      BY <2>4, <3>1, <3>2, <3>3, <3>4 DEF BankStep
  <2>5. ASSUME NEW s \in Sessions, SessionDies(s) PROVE DebitInv'
    BY <2>1, <2>5 DEF SessionDies, End
  <2>6. ASSUME NEW m \in Msgs, HandlerStep(m) \/ HandlerThrows(m) PROVE DebitInv'
    <3>1. UNCHANGED <<at, on, debits>>
      BY <2>6 DEF HandlerStep, FindProcessing, ReadWallet, CommitCredit, CreditConflict,
          FindFailable, CommitFailure, Ack, Requeue, HandlerThrows
    <3>2. \A o \in Orders : ledger'[o] = ledger[o] \/ ledger'[o] # "none"
      BY <2>6 DEF HandlerStep, FindProcessing, ReadWallet, CommitCredit, CreditConflict,
          FindFailable, CommitFailure, Ack, Requeue, HandlerThrows
    <3>3. QED
      BY <3>1, <3>2
  <2>7. CASE WorkerCrash \/ UNCHANGED vars
    BY <2>7 DEF WorkerCrash, vars
  <2>8. QED
    BY <2>2, <2>3, <2>4, <2>5, <2>6, <2>7 DEF Next
<1>3. DebitInv => DebitedOnce
  OBVIOUS
<1>4. QED
  BY <1>1, <1>2, <1>3, TypeCorrect, PTL DEF Spec

\* The bank is debited at most once for an order, however often it is verified
\* and confirmed.
THEOREM DebitedAtMostOnce == Spec => []DebitedOnce
BY DebitInvariant, PTL DEF DebitInv
-----------------------------------------------------------------------------
(* What each service leaves alone *)

\* The requests of wallet-service touch neither money nor messages.
LEMMA RequestFrame ==
    ASSUME NEW s \in Sessions, RequestStep(s) \/ SessionDies(s)
    PROVE  UNCHANGED <<bank, wallet, msg, stale>>
BY DEF RequestStep, SessionDies, VerifyPin, ConfirmTopup, StoreOtp, EmailOtpFails, MarkPending,
    OtpMissing, ReadOtp, DropOtp, FailExhausted, WrongOtp, AcceptOtp, CreateLedger, MarkProcessing

\* A bank call writes to the bank's tables or publishes messages, not both.
LEMMA BankFrame ==
    ASSUME NEW s \in Sessions, BankStep(s)
    PROVE  /\ UNCHANGED <<shop, wallet, stale>>
           /\ \/ UNCHANGED msg
              \/ /\ UNCHANGED bank
                 /\ \E C \in SUBSET Msgs :
                       \/ at[s] = "debited" /\ Publish("success", on[s], C)
                       \/ at[s] \in {"rejecting", "failing"} /\ Publish("failed", on[s], C)
BY DEF BankStep, BankReadAccount, BankDebit, BankQueryThrows, PublishSuccess, PublishRejected,
    PublishInternalError, Goto, Noting, msg

\* A handler writes the wallet, the order and the ledger when it commits only.
LEMMA HandlerFrame ==
    ASSUME NEW m \in Msgs, HandlerStep(m) \/ HandlerThrows(m)
    PROVE  /\ UNCHANGED <<linked, otp, bank, sess, stale, kind, about>>
           /\ UNCHANGED <<wallet, shop>> \/ CommitCredit(m) \/ CommitFailure(m)
BY DEF HandlerStep, HandlerThrows, FindProcessing, ReadWallet, CommitCredit, CreditConflict,
    FindFailable, CommitFailure, Ack, Requeue, Move, Leave, Retry, shop
-----------------------------------------------------------------------------
\* A SUCCESS order has a ledger entry and the entry is SUCCESS, under every
\* interleaving of late requests, duplicates, failure events and the script.
THEOREM SuccessReconciles == Spec => []SuccessOrderReconciles
<1> USE DEF ReconInv, SuccessOrderReconciles
<1>1. Init => ReconInv
  BY DEF Init
<1>2. TypeOK /\ ReconInv /\ [Next]_vars => ReconInv'
  <2> SUFFICES ASSUME TypeOK, ReconInv, [Next]_vars PROVE ReconInv'
    OBVIOUS
  <2> USE DEF TypeOK, shop, bank, wallet, sess, msg
  <2>1. ASSUME NEW o \in Orders, OrderStep(o) PROVE ReconInv'
    BY <2>1 DEF OrderStep, InitiateTopup, OtpExpires, FindStale, FailStale
  <2>2. ASSUME NEW s \in Sessions, RequestStep(s) \/ SessionDies(s) PROVE ReconInv'
    <3>1. UNCHANGED <<place, about>>
      BY <2>2, RequestFrame
    <3>2. \A o \in Orders :
            /\ linked[o] => linked'[o]
            /\ order'[o] = "SUCCESS" => order[o] = "SUCCESS"
            /\ ledger[o] # "none" => ledger'[o] = ledger[o]
      BY <2>2 DEF RequestStep, SessionDies, VerifyPin, ConfirmTopup, StoreOtp, EmailOtpFails,
          MarkPending, OtpMissing, ReadOtp, DropOtp, FailExhausted, WrongOtp, AcceptOtp,
          CreateLedger, MarkProcessing, ReferenceFree
    <3>3. QED
      BY <3>1, <3>2
  <2>3. ASSUME NEW s \in Sessions, BankStep(s) PROVE ReconInv'
    BY <2>3, BankFrame DEF Publish
  <2>4. ASSUME NEW m \in Msgs, HandlerStep(m) \/ HandlerThrows(m) PROVE ReconInv'
    <3>1. CASE CommitCredit(m)
      BY <3>1 DEF CommitCredit, Leave
    <3>2. CASE CommitFailure(m)
      BY <3>2 DEF CommitFailure, Move
    <3>3. CASE UNCHANGED <<wallet, shop>>
      <4>1. \A n \in Msgs : place'[n] \in {"found", "read"} =>
               place[n] \in {"found", "read"} \/ linked[about[n]]
        BY <2>4, <3>3 DEF HandlerStep, HandlerThrows, FindProcessing, ReadWallet, CommitCredit,
            CreditConflict, FindFailable, CommitFailure, Ack, Requeue, Move, Leave, Retry
      <4>2. QED
        BY <2>4, <3>3, <4>1, HandlerFrame
    <3>4. QED
      BY <2>4, <3>1, <3>2, <3>3, HandlerFrame
  <2>5. CASE WorkerCrash
    BY <2>5 DEF WorkerCrash, InHandler
  <2>6. CASE UNCHANGED vars
    BY <2>6 DEF vars
  <2>7. QED
    BY <2>1, <2>2, <2>3, <2>4, <2>5, <2>6 DEF Next
<1>3. ReconInv => SuccessOrderReconciles
  OBVIOUS
<1>4. QED
  BY <1>1, <1>2, <1>3, TypeCorrect, PTL DEF Spec
-----------------------------------------------------------------------------
\* The bank never gives more than an account holds: a debit goes through only
\* on the version, hence the balance, that was checked.
LEMMA FundsInvariant == Spec => []FundsInv
<1> USE OrderAssumption DEF FundsInv, NoOverdraft, AccountUnchanged, CanDebit
<1>1. Init => FundsInv
  BY DEF Init
<1>2. TypeOK /\ FundsInv /\ [Next]_vars => FundsInv'
  <2> SUFFICES ASSUME TypeOK, FundsInv, [Next]_vars PROVE FundsInv'
    OBVIOUS
  <2> USE DEF TypeOK, shop, bank, wallet, sess, msg
  \* The bank's tables stay, and no session arrives at its check.
  <2>1. ASSUME UNCHANGED bank,
               \A s \in Sessions : at'[s] = "accountRead" =>
                  at[s] = "accountRead" /\ on'[s] = on[s] /\ seen'[s] = seen[s]
        PROVE  FundsInv'
    BY <2>1
  <2>2. ASSUME NEW o \in Orders, OrderStep(o) PROVE FundsInv'
    BY <2>1, <2>2 DEF OrderStep, InitiateTopup, OtpExpires, FindStale, FailStale
  <2>3. ASSUME NEW s \in Sessions, RequestStep(s) \/ SessionDies(s) PROVE FundsInv'
    <3>1. UNCHANGED bank
      BY <2>3, RequestFrame
    <3>2. \A t \in Sessions : at'[t] = "accountRead" =>
             at[t] = "accountRead" /\ on'[t] = on[t] /\ seen'[t] = seen[t]
      BY <2>3 DEF RequestStep, SessionDies, VerifyPin, ConfirmTopup, StoreOtp, EmailOtpFails,
          MarkPending, OtpMissing, ReadOtp, DropOtp, FailExhausted, WrongOtp, AcceptOtp,
          CreateLedger, MarkProcessing, Begin, Goto, Noting, End
    <3>3. QED
      BY <2>1, <3>1, <3>2
  <2>4. ASSUME NEW s \in Sessions, BankStep(s) PROVE FundsInv'
    <3>1. CASE BankReadAccount(s)
      <4>1. on[s] \in Orders /\ Source[on[s]] \in Accounts
        BY <3>1 DEF BankReadAccount
      <4>2. QED
        BY <3>1, <4>1, SMTT(60) DEF BankReadAccount, Noting
    <3>2. CASE BankDebit(s)
      <4> DEFINE a == Source[on[s]]
      <4>1. on[s] \in Orders /\ a \in Accounts /\ at[s] = "accountRead"
        BY <3>2 DEF BankDebit
      <4>2. CASE AccountUnchanged(s)
        <5>1. /\ funds' = [funds EXCEPT ![a] = @ - Amount[on[s]]]
              /\ fundsVer' = [fundsVer EXCEPT ![a] = @ + 1]
              /\ at' = [at EXCEPT ![s] = "debited"] /\ UNCHANGED <<on, seen>>
          BY <3>2, <4>2 DEF BankDebit, Goto
        <5>2. funds[a] >= Amount[on[s]]
          BY <4>1, <4>2
        <5>3. \A b \in Accounts : funds'[b] >= 0
          BY <4>1, <5>1, <5>2
        \* Whoever else has read this account finds its version gone.
        <5>4. ASSUME NEW t \in Sessions, at'[t] = "accountRead"
              PROVE  /\ seen'[t] <= fundsVer'[Source[on'[t]]]
                     /\ AccountUnchanged(t)' => CanDebit(on[t])'
          <6>1. /\ at[t] = "accountRead" /\ on[t] \in Orders /\ Source[on[t]] \in Accounts
                /\ on'[t] = on[t] /\ seen'[t] = seen[t] /\ seen[t] \in Nat
                /\ seen[t] <= fundsVer[Source[on[t]]]
            BY <4>1, <5>1, <5>4
          <6>2. CASE Source[on[t]] = a
            BY <4>1, <5>1, <6>1, <6>2
          <6>3. CASE Source[on[t]] # a
            BY <4>1, <5>1, <6>1, <6>3
          <6>4. QED
            BY <6>2, <6>3
        <5>5. QED
          BY <5>3, <5>4
      <4>3. CASE ~AccountUnchanged(s)
        BY <2>1, <3>2, <4>3 DEF BankDebit, Goto, OnConflict
      <4>4. QED
        BY <4>2, <4>3
    <3>3. CASE BankQueryThrows(s)
      BY <2>1, <3>3 DEF BankQueryThrows, Goto
    <3>4. ASSUME NEW C \in SUBSET Msgs,
                 PublishSuccess(s, C) \/ PublishRejected(s, C) \/ PublishInternalError(s, C)
          PROVE  FundsInv'
      BY <2>1, <3>4 DEF PublishSuccess, PublishRejected, PublishInternalError, Goto, End
    <3>5. QED
      BY <2>4, <3>1, <3>2, <3>3, <3>4 DEF BankStep
  <2>5. ASSUME NEW m \in Msgs, HandlerStep(m) \/ HandlerThrows(m) PROVE FundsInv'
    BY <2>1, <2>5, HandlerFrame
  <2>6. CASE WorkerCrash \/ UNCHANGED vars
    BY <2>1, <2>6 DEF WorkerCrash, vars
  <2>7. QED
    BY <2>2, <2>3, <2>4, <2>5, <2>6 DEF Next
<1>3. QED
  BY <1>1, <1>2, TypeCorrect, PTL DEF Spec

\* debitAccount takes only money that is there.
THEOREM NeverOverdrawn == Spec => []NoOverdraft
<1>1. FundsInv => NoOverdraft
  BY DEF FundsInv
<1>2. QED
  BY <1>1, FundsInvariant, PTL
-----------------------------------------------------------------------------
\* No credit is lost, however many handlers write absolute balances at once.
LEMMA StampInvariant == Spec => []StampInv
<1> USE OrderAssumption DEF StampInv, NoLostCredit, WalletUnchanged
<1>1. Init => StampInv
  BY DEF Init
<1>2. TypeOK /\ StampInv /\ [Next]_vars => StampInv'
  <2> SUFFICES ASSUME TypeOK, StampInv, [Next]_vars PROVE StampInv'
    OBVIOUS
  <2> USE DEF TypeOK, shop, bank, wallet, sess, msg
  \* The wallets stay, and no handler arrives at its commit.
  <2>1. ASSUME UNCHANGED wallet,
               \A m \in Msgs : place'[m] = "read" =>
                  /\ place[m] = "read" /\ about'[m] = about[m]
                  /\ readBal'[m] = readBal[m] /\ readVer'[m] = readVer[m]
        PROVE  StampInv'
    BY <2>1
  <2>2. ASSUME NEW o \in Orders, OrderStep(o) PROVE StampInv'
    BY <2>1, <2>2 DEF OrderStep, InitiateTopup, OtpExpires, FindStale, FailStale
  <2>3. ASSUME NEW s \in Sessions, RequestStep(s) \/ SessionDies(s) PROVE StampInv'
    BY <2>1, <2>3, RequestFrame
  <2>4. ASSUME NEW s \in Sessions, BankStep(s) PROVE StampInv'
    BY <2>1, <2>4, BankFrame DEF Publish
  <2>5. ASSUME NEW m \in Msgs, HandlerStep(m) \/ HandlerThrows(m) PROVE StampInv'
    <3>1. CASE ReadWallet(m)
      <4>1. about[m] \in Orders /\ Owner[about[m]] \in Users
        BY <3>1 DEF ReadWallet
      <4>2. QED
        BY <3>1, <4>1, SMTT(60) DEF ReadWallet
    <3>2. CASE CommitCredit(m)
      <4> DEFINE u == Owner[about[m]]
      <4>1. about[m] \in Orders /\ u \in Users /\ readBal[m] = balance[u]
        BY <3>2 DEF CommitCredit
      <4>2. /\ balance' = [balance EXCEPT ![u] = readBal[m] + Amount[about[m]]]
            /\ version' = [version EXCEPT ![u] = @ + 1]
            /\ credited' = [credited EXCEPT ![u] = @ + Amount[about[m]]]
            /\ place' = [place EXCEPT ![m] = "committed"] /\ UNCHANGED about
            /\ readBal' = [readBal EXCEPT ![m] = 0] /\ readVer' = [readVer EXCEPT ![m] = 0]
        BY <3>2 DEF CommitCredit, Leave
      <4>3. \A v \in Users : balance'[v] = credited'[v]
        BY <4>1, <4>2
      <4>4. ASSUME NEW n \in Msgs, place'[n] = "read"
            PROVE  /\ readVer'[n] <= version'[Owner[about'[n]]]
                   /\ WalletUnchanged(n)' => readBal'[n] = balance'[Owner[about'[n]]]
        <5>1. /\ n # m /\ place[n] = "read" /\ about[n] \in Orders /\ Owner[about[n]] \in Users
              /\ readVer'[n] = readVer[n] /\ readBal'[n] = readBal[n] /\ about'[n] = about[n]
              /\ readVer[n] \in Nat /\ readVer[n] <= version[Owner[about[n]]]
          BY <4>2, <4>4
        <5>2. CASE Owner[about[n]] = u
          BY <4>1, <4>2, <5>1, <5>2
        <5>3. CASE Owner[about[n]] # u
          BY <4>1, <4>2, <5>1, <5>3
        <5>4. QED
          BY <5>2, <5>3
      <4>5. QED
        BY <4>3, <4>4
    <3>3. CASE ~ReadWallet(m) /\ ~CommitCredit(m)
      <4>1. /\ UNCHANGED wallet
            /\ \A n \in Msgs : place'[n] = "read" =>
                  /\ place[n] = "read" /\ about'[n] = about[n]
                  /\ readBal'[n] = readBal[n] /\ readVer'[n] = readVer[n]
        BY <2>5, <3>3, SMTT(60) DEF HandlerStep, HandlerThrows, FindProcessing, CreditConflict,
            FindFailable, CommitFailure, Ack, Requeue, Move, Leave, Retry
      <4>2. QED
        BY <2>1, <4>1
    <3>4. QED
      BY <3>1, <3>2, <3>3
  <2>6. CASE WorkerCrash
    BY <2>1, <2>6 DEF WorkerCrash, InHandler
  <2>7. CASE UNCHANGED vars
    BY <2>1, <2>7 DEF vars
  <2>8. QED
    BY <2>2, <2>3, <2>4, <2>5, <2>6, <2>7 DEF Next
<1>3. QED
  BY <1>1, <1>2, TypeCorrect, PTL DEF Spec

\* A wallet's balance is the sum of the credits creditWallet committed.
THEOREM CreditsNotLost == Spec => []NoLostCredit
<1>1. StampInv => NoLostCredit
  BY DEF StampInv
<1>2. QED
  BY <1>1, StampInvariant, PTL
-----------------------------------------------------------------------------
\* A success event, and all that comes of it, exists only after a debit.
LEMMA CreditInvariant == Spec => []CreditInv
<1> USE DEF CreditInv, CreditedOnlyIfDebited
<1>1. Init => CreditInv
  BY DEF Init
<1>2. TypeOK /\ DebitInv /\ CreditInv /\ [Next]_vars => CreditInv'
  <2> SUFFICES ASSUME TypeOK, DebitInv, CreditInv, [Next]_vars PROVE CreditInv'
    OBVIOUS
  <2> USE DEF TypeOK, shop, bank, wallet, sess, msg
  <2>1. ASSUME NEW o \in Orders, OrderStep(o) PROVE CreditInv'
    BY <2>1 DEF OrderStep, InitiateTopup, OtpExpires, FindStale, FailStale
  <2>2. ASSUME NEW s \in Sessions, RequestStep(s) \/ SessionDies(s) PROVE CreditInv'
    <3>1. UNCHANGED <<bank, wallet, msg>>
      BY <2>2, RequestFrame
    <3>2. /\ \A t \in Sessions : at'[t] = "debited" => at[t] = "debited" /\ on'[t] = on[t]
          /\ \A o \in Orders : /\ order'[o] = "SUCCESS" => order[o] = "SUCCESS"
                               /\ ledger'[o] = "SUCCESS" => ledger[o] = "SUCCESS"
      BY <2>2 DEF RequestStep, SessionDies, VerifyPin, ConfirmTopup, StoreOtp, EmailOtpFails,
          MarkPending, OtpMissing, ReadOtp, DropOtp, FailExhausted, WrongOtp, AcceptOtp,
          CreateLedger, MarkProcessing, Begin, Goto, Noting, End
    <3>3. QED
      BY <3>1, <3>2
  <2>3. ASSUME NEW s \in Sessions, BankStep(s) PROVE CreditInv'
    <3>1. CASE BankDebit(s) /\ AccountUnchanged(s)
      <4>1. on[s] \in Orders /\ debits[on[s]] = 0
        BY <3>1 DEF BankDebit, DebitInv, Paying
      <4>2. /\ debits' = [debits EXCEPT ![on[s]] = @ + 1] /\ UNCHANGED <<shop, wallet, msg>>
            /\ at' = [at EXCEPT ![s] = "debited"] /\ UNCHANGED <<on, seen>>
        BY <3>1 DEF BankDebit, Goto
      <4>3. \A o \in Orders : debits[o] = 1 => debits'[o] = 1
        BY <4>1, <4>2
      <4>4. debits'[on[s]] = 1
        BY <4>1, <4>2
      <4>5. QED
        BY <4>2, <4>3, <4>4
    <3>2. CASE ~(BankDebit(s) /\ AccountUnchanged(s))
      <4>1. /\ UNCHANGED <<debits, wallet, order, ledger>>
            /\ \A t \in Sessions : at'[t] = "debited" => at[t] = "debited" /\ on'[t] = on[t]
        BY <2>3, <3>2 DEF BankStep, BankReadAccount, BankDebit, BankQueryThrows, PublishSuccess,
            PublishRejected, PublishInternalError, Goto, Noting, End, OnConflict
      <4>2. \A m \in Msgs :
               /\ place'[m] # "unsent" /\ kind'[m] = "success" => debits[about'[m]] = 1
               /\ place'[m] = "read" => kind'[m] = "success"
        BY <2>3, BankFrame DEF Publish
      <4>3. QED
        BY <4>1, <4>2
    <3>3. QED
      BY <3>1, <3>2
  <2>4. ASSUME NEW m \in Msgs, HandlerStep(m) \/ HandlerThrows(m) PROVE CreditInv'
    <3>1. UNCHANGED <<kind, about, debits, at, on>>
      BY <2>4, HandlerFrame
    <3>2. \A n \in Msgs : /\ place'[n] # "unsent" => place[n] # "unsent"
                          /\ place'[n] = "read" => kind[n] = "success"
      BY <2>4, SMTT(60) DEF HandlerStep, HandlerThrows, InHandler, FindProcessing, ReadWallet,
          CommitCredit, CreditConflict, FindFailable, CommitFailure, Ack, Requeue, Move, Leave, Retry
    <3>3. CASE CommitCredit(m)
      <4>1. about[m] \in Orders /\ debits[about[m]] = 1
        BY <3>3 DEF CommitCredit
      <4>2. QED
        BY <3>1, <3>2, <3>3, <4>1 DEF CommitCredit
    <3>4. CASE CommitFailure(m)
      BY <3>1, <3>2, <3>4 DEF CommitFailure
    <3>5. CASE UNCHANGED <<wallet, shop>>
      BY <3>1, <3>2, <3>5
    <3>6. QED
      BY <2>4, <3>3, <3>4, <3>5, HandlerFrame
  <2>5. CASE WorkerCrash
    BY <2>5 DEF WorkerCrash, InHandler
  <2>6. CASE UNCHANGED vars
    BY <2>6 DEF vars
  <2>7. QED
    BY <2>1, <2>2, <2>3, <2>4, <2>5, <2>6 DEF Next
<1>3. QED
  BY <1>1, <1>2, TypeCorrect, DebitInvariant, PTL DEF Spec

\* No wallet is credited, and no ledger entry or order made SUCCESS, for money
\* the bank has not given.
THEOREM CreditsAreDebited == Spec => []CreditedOnlyIfDebited
<1>1. CreditInv => CreditedOnlyIfDebited
  BY DEF CreditInv
<1>2. QED
  BY <1>1, CreditInvariant, PTL

\* A success event that was acknowledged for good has credited the wallet.
THEOREM AckedCredited == Spec => []AckedMeansCredited
<1> USE DEF AckedMeansCredited
<1>1. Init => AckedMeansCredited
  BY DEF Init
<1>2. TypeOK /\ AckedMeansCredited /\ [Next]_vars => AckedMeansCredited'
  <2> SUFFICES ASSUME TypeOK, AckedMeansCredited, [Next]_vars PROVE AckedMeansCredited'
    OBVIOUS
  <2> USE DEF TypeOK, shop, bank, wallet, sess, msg
  <2>1. ASSUME NEW o \in Orders, OrderStep(o) PROVE AckedMeansCredited'
    BY <2>1 DEF OrderStep, InitiateTopup, OtpExpires, FindStale, FailStale
  <2>2. ASSUME NEW s \in Sessions, RequestStep(s) \/ SessionDies(s) PROVE AckedMeansCredited'
    BY <2>2, RequestFrame
  <2>3. ASSUME NEW s \in Sessions, BankStep(s) PROVE AckedMeansCredited'
    BY <2>3, BankFrame DEF Publish
  <2>4. ASSUME NEW m \in Msgs, HandlerStep(m) \/ HandlerThrows(m) PROVE AckedMeansCredited'
    <3>1. UNCHANGED <<kind, about>>
      BY <2>4, HandlerFrame
    <3>2. CASE CommitCredit(m)
      <4>1. about[m] \in Orders
        BY <3>2 DEF CommitCredit
      <4>2. QED
        BY <3>1, <3>2, <4>1 DEF CommitCredit, Leave
    <3>3. CASE ~CommitCredit(m)
      <4>1. UNCHANGED credits
        BY <2>4, <3>3, HandlerFrame DEF CommitFailure
      <4>2. \A n \in Msgs : kind[n] = "success" /\ place'[n] \in {"committed", "acked"} =>
               place[n] \in {"committed", "acked"}
        BY <2>4, <3>3, SMTT(60) DEF HandlerStep, HandlerThrows, FindProcessing, ReadWallet,
            CreditConflict, FindFailable, CommitFailure, Ack, Requeue, Move, Leave, Retry
      <4>3. QED
        BY <3>1, <4>1, <4>2
    <3>4. QED
      BY <3>2, <3>3
  <2>5. CASE WorkerCrash
    BY <2>5 DEF WorkerCrash, InHandler
  <2>6. CASE UNCHANGED vars
    BY <2>6 DEF vars
  <2>7. QED
    BY <2>1, <2>2, <2>3, <2>4, <2>5, <2>6 DEF Next
<1>3. QED
  BY <1>1, <1>2, TypeCorrect, PTL DEF Spec
-----------------------------------------------------------------------------
\* The saga implements Settlement: the only steps that move money take an
\* order's amount from the bank once, or give it to the wallet after that.
THEOREM SagaSettles == Spec => MoneySettles
<1> USE DEF Promise!parties
<1>1. Init => Promise!Init
  BY DEF Init, Promise!Init
<1>2. TypeOK /\ DebitInv /\ FundsInv /\ StampInv /\ CreditInv /\ [Next]_vars
        => [Promise!Next]_Promise!parties
  <2> SUFFICES ASSUME TypeOK, DebitInv, FundsInv, StampInv, CreditInv, [Next]_vars
               PROVE  [Promise!Next]_Promise!parties
    OBVIOUS
  <2> USE DEF TypeOK, shop, bank, wallet, sess, msg
  <2>1. ASSUME NEW o \in Orders, OrderStep(o) PROVE UNCHANGED Promise!parties
    BY <2>1 DEF OrderStep, InitiateTopup, OtpExpires, FindStale, FailStale
  <2>2. ASSUME NEW s \in Sessions, RequestStep(s) \/ SessionDies(s)
        PROVE  UNCHANGED Promise!parties
    BY <2>2, RequestFrame
  <2>3. ASSUME NEW s \in Sessions, BankStep(s) PROVE [Promise!Next]_Promise!parties
    <3>1. CASE BankDebit(s) /\ AccountUnchanged(s)
      <4>1. on[s] \in Orders /\ debits[on[s]] = 0 /\ funds[Source[on[s]]] >= Amount[on[s]]
        BY <3>1 DEF BankDebit, DebitInv, Paying, FundsInv, CanDebit
      <4>2. Promise!Take(on[s])
        BY <3>1, <4>1 DEF BankDebit, Promise!Take
      <4>3. QED
        BY <4>1, <4>2 DEF Promise!Next
    <3>2. CASE ~(BankDebit(s) /\ AccountUnchanged(s))
      BY <2>3, <3>2, BankFrame DEF BankStep, BankReadAccount, BankDebit, BankQueryThrows,
          PublishSuccess, PublishRejected, PublishInternalError
    <3>3. QED
      BY <3>1, <3>2
  <2>4. ASSUME NEW m \in Msgs, HandlerStep(m) \/ HandlerThrows(m)
        PROVE  [Promise!Next]_Promise!parties
    <3>1. CASE CommitCredit(m)
      <4>1. about[m] \in Orders /\ debits[about[m]] = 1
        BY <3>1 DEF CommitCredit, CreditInv
      <4>2. readBal[m] = balance[Owner[about[m]]]
        BY <3>1 DEF CommitCredit, StampInv
      <4>3. Promise!Give(about[m])
        BY <3>1, <4>1, <4>2, OrderAssumption DEF CommitCredit, Promise!Give
      <4>4. QED
        BY <4>1, <4>3 DEF Promise!Next
    <3>2. CASE ~CommitCredit(m)
      BY <2>4, <3>2, HandlerFrame DEF CommitFailure
    <3>3. QED
      BY <3>1, <3>2
  <2>5. CASE WorkerCrash \/ UNCHANGED vars
    BY <2>5 DEF WorkerCrash, vars
  <2>6. QED
    BY <2>1, <2>2, <2>3, <2>4, <2>5 DEF Next
<1>3. QED
  BY <1>1, <1>2, TypeCorrect, DebitInvariant, FundsInvariant, StampInvariant, CreditInvariant, PTL
  DEF Spec, MoneySettles, Promise!Spec
=============================================================================
