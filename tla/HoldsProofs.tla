---------------------------- MODULE HoldsProofs ----------------------------
(***************************************************************************)
(* Proofs about Holds, for every number of wallets, holds, credits and     *)
(* partner requests, and whatever the users' own payments do meanwhile.    *)
(***************************************************************************)
EXTENDS Holds, SumTheorems, TLAPS

\* What a user's payment or a top-up does to the money: everything keeps its
\* type, and no wallet falls below zero that was not there already.
LEMMA UserStepMoney ==
    ASSUME TypeOK, UserStep
    PROVE  /\ balance' \in [Users -> Int] /\ bank' \in [Users -> Nat]
           /\ moved' \in [Payable -> Nat] /\ topups' \in Nat
           /\ NoOverdraft => NoOverdraft'
           /\ UNCHANGED <<status, booked, sess, history>>
<1> USE UserAssumption DEF TypeOK, Payable, NoOverdraft
<1> DEFINE Money == /\ balance' \in [Users -> Int] /\ bank' \in [Users -> Nat]
                    /\ moved' \in [Payable -> Nat] /\ topups' \in Nat
                    /\ NoOverdraft => NoOverdraft'
<1>1. ASSUME NEW p \in Transfers \cup Requests, Wallets!Pay(p) PROVE Money
  <2>1. From[p] \in Users /\ To[p] \in Users /\ From[p] # To[p] /\ Amount[p] \in Nat
        /\ balance[From[p]] >= Amount[p]
    BY <1>1 DEF Wallets!Pay, Wallets!Covered
  <2>2. /\ balance' = [balance EXCEPT ![From[p]] = @ - Amount[p], ![To[p]] = @ + Amount[p]]
        /\ moved' = [moved EXCEPT ![p] = 1] /\ UNCHANGED <<bank, topups>>
    BY <1>1 DEF Wallets!Pay
  <2>3. QED
    BY <2>1, <2>2
<1>2. ASSUME NEW w \in Withdrawals, Wallets!Cash(w) PROVE Money
  BY <1>2 DEF Wallets!Cash, Wallets!Covered
<1>3. ASSUME NEW u \in Users, Wallets!Credit(u) PROVE Money
  BY <1>3 DEF Wallets!Credit
<1>4. QED
  BY <1>1, <1>2, <1>3 DEF UserStep, Wallets!Next

\* Every step of a partner's request keeps the state within its types.
LEMMA TypeStep == ASSUME TypeOK, [Next]_vars PROVE TypeOK'
<1> USE CallAssumption DEF Calls, Stages, HoldStatus, others, sess, history
<1>1. ASSUME NEW s \in Sessions, PartnerStep(s) PROVE TypeOK'
  <2> USE DEF TypeOK, money, Begin, End, ReadBalance
  <2>1. ASSUME NEW h \in Holds, CreateHold(s, h) \/ CaptureHold(s, h) \/ ReleaseHold(s, h)
        PROVE  TypeOK'
    BY <2>1 DEF CreateHold, CaptureHold, ReleaseHold
  <2>2. ASSUME NEW c \in Credits, PartnerCredit(s, c) PROVE TypeOK'
    BY <2>2 DEF PartnerCredit
  <2>3. CASE SnapshotHold(s)
    <3>1. Wallet[on[s]] \in Users
      BY <2>3 DEF SnapshotHold
    <3>2. Rows(Wallet[on[s]]) \in SUBSET Holds /\ Active(Wallet[on[s]]) \in SUBSET Holds
      BY DEF Rows, Active
    <3>3. QED
      BY <2>3, <3>1, <3>2 DEF SnapshotHold
  <2>4. CASE CommitHold(s)
    BY <2>4 DEF CommitHold
  <2>5. CASE ReadForCapture(s)
    BY <2>5 DEF ReadForCapture
  <2>6. CASE CommitCapture(s)
    <3>1. on[s] \in Holds /\ Wallet[on[s]] \in Users /\ sawBal[s] - Value[on[s]] \in Int
      BY <2>6 DEF CommitCapture
    <3>2. QED
      BY <2>6, <3>1 DEF CommitCapture
  <2>7. CASE WriteRelease(s)
    BY <2>7 DEF WriteRelease
  <2>8. CASE ReadForCredit(s)
    BY <2>8 DEF ReadForCredit
  <2>9. CASE CommitCredit(s)
    <3>1. on[s] \in Credits /\ Wallet[on[s]] \in Users /\ sawBal[s] + Value[on[s]] \in Int
      BY <2>9 DEF CommitCredit
    <3>2. QED
      BY <2>9, <3>1 DEF CommitCredit
  <2>10. CASE SessionFails(s)
    BY <2>10 DEF SessionFails
  <2>11. QED
    BY <1>1, <2>1, <2>2, <2>3, <2>4, <2>5, <2>6, <2>7, <2>8, <2>9, <2>10 DEF PartnerStep
<1>2. CASE UserStep
  BY <1>2, UserStepMoney DEF TypeOK
<1>3. CASE UNCHANGED vars
  BY <1>3 DEF vars, money, TypeOK
<1>4. QED
  BY <1>1, <1>2, <1>3 DEF Next

\* Every state is well typed.
THEOREM TypeCorrect == Spec => []TypeOK
<1>1. Init => TypeOK
  BY UserAssumption, CallAssumption
  DEF Init, Wallets!Init, Wallets!Payments, TypeOK, Payable, Calls, Stages, HoldStatus
<1>2. QED
  BY <1>1, TypeStep, PTL DEF Spec
-----------------------------------------------------------------------------
\* No wallet falls below zero.  A capture or a credit writes a balance computed
\* from one that some committed state held, so the invariant is that whatever a
\* transaction has read was not negative either.
THEOREM NeverOverdrawn == Spec => []NoOverdraft
<1> DEFINE SawCovered == \A s \in Sessions : sawBal[s] >= 0
           Inv == NoOverdraft /\ SawCovered
<1> USE UserAssumption, CallAssumption DEF Calls, TypeOK, NoOverdraft
<1>1. Init => Inv
  BY DEF Init, Wallets!Init
<1>2. TypeOK /\ Inv /\ [Next]_vars => Inv'
  <2> SUFFICES ASSUME TypeOK, Inv, [Next]_vars PROVE Inv'
    OBVIOUS
  <2>1. ASSUME NEW s \in Sessions, PartnerStep(s) PROVE Inv'
    <3>1. CASE UNCHANGED balance
      <4>1. sawBal' = sawBal \/ sawBal' = [sawBal EXCEPT ![s] = 0]
            \/ \E u \in Users : sawBal' = [sawBal EXCEPT ![s] = balance[u]]
        BY <2>1, <3>1 DEF PartnerStep, CreateHold, CaptureHold, ReleaseHold, PartnerCredit,
            SnapshotHold, CommitHold, ReadForCapture, WriteRelease, ReadForCredit, SessionFails,
            Begin, End, ReadBalance, CommitCapture, CommitCredit
      <4>2. QED
        BY <3>1, <4>1
    <3>2. CASE CommitCapture(s)
      BY <3>2 DEF CommitCapture, Sufficient, End
    <3>3. CASE CommitCredit(s)
      BY <3>3 DEF CommitCredit, End
    <3>4. QED
      BY <2>1, <3>1, <3>2, <3>3 DEF PartnerStep, CreateHold, CaptureHold, ReleaseHold,
          PartnerCredit, SnapshotHold, CommitHold, ReadForCapture, WriteRelease,
          ReadForCredit, SessionFails, money
  <2>2. CASE UserStep
    BY <2>2, UserStepMoney DEF sess
  <2>3. CASE UNCHANGED vars
    BY <2>3 DEF vars, money, sess
  <2>4. QED
    BY <2>1, <2>2, <2>3 DEF Next
<1>3. QED
  BY <1>1, <1>2, TypeCorrect, PTL DEF Spec
-----------------------------------------------------------------------------
\* A partner's credit is made at most once: it reaches the wallet only together
\* with its ledger entry, whose reference is unique.
THEOREM CreditsOnce == Spec => []CreditedOnce
<1> DEFINE Inv == \A c \in Credits : gifts[c] <= 1 /\ (gifts[c] > 0 => c \in booked)
<1> USE CallAssumption DEF Calls, TypeOK
<1>1. Init => Inv
  BY DEF Init
<1>2. TypeOK /\ Inv /\ [Next]_vars => Inv'
  <2> SUFFICES ASSUME TypeOK, Inv, [Next]_vars PROVE Inv'
    OBVIOUS
  <2>1. ASSUME NEW s \in Sessions, CommitCredit(s) PROVE Inv'
    BY <2>1 DEF CommitCredit, ReferenceFree
  <2>2. CASE UNCHANGED <<gifts, booked>>
    BY <2>2
  <2>3. QED
    BY <2>1, <2>2, UserStepMoney DEF Next, PartnerStep, CreateHold, CaptureHold, ReleaseHold,
        PartnerCredit, SnapshotHold, CommitHold, ReadForCapture, CommitCapture, WriteRelease,
        ReadForCredit, SessionFails, vars, history
<1>3. Inv => CreditedOnce
  BY DEF CreditedOnce
<1>4. QED
  BY <1>1, <1>2, <1>3, TypeCorrect, PTL DEF Spec
-----------------------------------------------------------------------------
\* A captured or released hold is never active again: a hold becomes active only
\* where its key was unused.
THEOREM StaysClosed == Spec => NeverReopened
<1>1. TypeOK /\ [Next]_vars =>
        \A h \in Holds : status[h] \in {"CAPTURED", "RELEASED"} => status'[h] # "ACTIVE"
  <2> SUFFICES ASSUME TypeOK, [Next]_vars, NEW h \in Holds,
                      status[h] \in {"CAPTURED", "RELEASED"}
               PROVE  status'[h] # "ACTIVE"
    OBVIOUS
  <2> USE DEF TypeOK
  <2>1. ASSUME NEW s \in Sessions, CommitHold(s) PROVE status'[h] # "ACTIVE"
    BY <2>1 DEF CommitHold, KeyFree
  <2>2. ASSUME NEW s \in Sessions, CommitCapture(s) \/ WriteRelease(s)
        PROVE  status'[h] # "ACTIVE"
    BY <2>2 DEF CommitCapture, WriteRelease
  <2>3. CASE UNCHANGED status
    BY <2>3
  <2>4. QED
    BY <2>1, <2>2, <2>3, UserStepMoney DEF Next, PartnerStep, CreateHold, CaptureHold,
        ReleaseHold, PartnerCredit, SnapshotHold, ReadForCapture, ReadForCredit,
        CommitCredit, SessionFails, vars
<1>2. QED
  BY <1>1, TypeCorrect, PTL DEF Spec, NeverReopened
-----------------------------------------------------------------------------
(* Two holds of the same money *)

LEMMA SumsAlike == \A f, S : SumOf(f, S) = SumOn(f, S)
BY DEF SumOf, SumOn

\* One more of x adds x's value to a total, if x is one of those counted.
LEMMA TotalGain ==
    ASSUME NEW S, IsFiniteSet(S), NEW f, NEW e, NEW g,
           \A y \in S : f[y] \in Nat /\ g[y] \in Nat,
           NEW x, x \in S => e[x] = f[x] + 1, \A y \in S : y # x => e[y] = f[y]
    PROVE  /\ x \in S => Total(e, g, S) = Total(f, g, S) + g[x]
           /\ x \notin S => Total(e, g, S) = Total(f, g, S)
<1> DEFINE F == [y \in S |-> f[y] * g[y]]
           E == [y \in S |-> e[y] * g[y]]
<1>0. Total(f, g, S) = SumOn(F, S) /\ Total(e, g, S) = SumOn(E, S)
  BY SumsAlike DEF Total
<1>1. Integral(F, S) /\ \A y \in S : y # x => E[y] = F[y]
  BY DEF Integral
<1>2. ASSUME x \in S PROVE E[x] = F[x] + g[x] /\ g[x] \in Int
  BY <1>2
<1> HIDE DEF E, F
<1>3. CASE x \in S
  BY <1>0, <1>1, <1>2, <1>3, SumGain
<1>4. CASE x \notin S
  BY <1>0, <1>1, <1>4, SumSame
<1>5. QED
  BY <1>3, <1>4

LEMMA TotalType ==
    ASSUME NEW S, IsFiniteSet(S), NEW f, NEW g, \A y \in S : f[y] \in Nat /\ g[y] \in Nat
    PROVE  Total(f, g, S) \in Nat
<1> DEFINE F == [y \in S |-> f[y] * g[y]]
<1>1. Total(f, g, S) = SumOn(F, S)
  BY SumsAlike DEF Total
<1>2. Integral(F, S) /\ \A y \in S : F[y] \in Nat
  BY DEF Integral
<1> HIDE DEF F
<1>3. SumOn(F, {}) <= SumOn(F, S) /\ SumOn(F, {}) = 0 /\ SumOn(F, S) \in Int
  BY <1>2, SumSubset, SumEmpty, SumType
<1>4. QED
  BY <1>1, <1>3
Paid(u) == {p \in Payable : u \in {From[p], To[p]}}
HeldOn(u) == {h \in Holds : Wallet[h] = u}
GivenTo(u) == {c \in Credits : Wallet[c] = u}

\* What has moved elsewhere, part by part.
LEMMA ElsewhereParts ==
    ASSUME TypeOK, NEW u \in Users
    PROVE  /\ Elsewhere(u) = Total(moved, Amount, Paid(u)) + topups
                               + Total(captures, Value, HeldOn(u)) + Total(gifts, Value, GivenTo(u))
           /\ Total(moved, Amount, Paid(u)) \in Nat /\ topups \in Nat
           /\ Total(captures, Value, HeldOn(u)) \in Nat
           /\ Total(gifts, Value, GivenTo(u)) \in Nat
           /\ IsFiniteSet(Paid(u)) /\ IsFiniteSet(HeldOn(u)) /\ IsFiniteSet(GivenTo(u))
           /\ \A p \in Paid(u) : moved[p] \in Nat /\ Amount[p] \in Nat
           /\ \A h \in HeldOn(u) : captures[h] \in Nat /\ Value[h] \in Nat
           /\ \A c \in GivenTo(u) : gifts[c] \in Nat /\ Value[c] \in Nat
<1>1. /\ Paid(u) \in SUBSET Payable /\ HeldOn(u) \in SUBSET Calls /\ GivenTo(u) \in SUBSET Calls
      /\ IsFiniteSet(Payable) /\ IsFiniteSet(Calls)
  BY UserAssumption, CallAssumption DEF Paid, HeldOn, GivenTo, Calls
<1>2. IsFiniteSet(Paid(u)) /\ IsFiniteSet(HeldOn(u)) /\ IsFiniteSet(GivenTo(u))
  BY <1>1, FS_Subset
<1>3. /\ \A p \in Paid(u) : moved[p] \in Nat /\ Amount[p] \in Nat
      /\ \A h \in HeldOn(u) : captures[h] \in Nat /\ Value[h] \in Nat
      /\ \A c \in GivenTo(u) : gifts[c] \in Nat /\ Value[c] \in Nat
  BY UserAssumption, CallAssumption DEF TypeOK, Paid, HeldOn, GivenTo, Calls
<1>4. /\ Total(moved, Amount, Paid(u)) \in Nat /\ Total(captures, Value, HeldOn(u)) \in Nat
      /\ Total(gifts, Value, GivenTo(u)) \in Nat
  BY <1>2, <1>3, TotalType
<1>5. QED
  BY <1>2, <1>3, <1>4 DEF TypeOK, Elsewhere, Paid, HeldOn, GivenTo

\* A user's payment or a top-up counts at least for what it does to the balance.
LEMMA UserStepCounts ==
    ASSUME TypeOK, UserStep, NEW u \in Users
    PROVE  \E n \in Nat : /\ Elsewhere(u)' = Elsewhere(u) + n
                          /\ balance'[u] - balance[u] <= n /\ balance[u] - balance'[u] <= n
<1> DEFINE M == Total(moved, Amount, Paid(u))
           Counts(n) == /\ Elsewhere(u)' = Elsewhere(u) + n
                        /\ balance'[u] - balance[u] <= n /\ balance[u] - balance'[u] <= n
<1>0. balance \in [Users -> Int] /\ moved \in [Payable -> Nat] /\ topups \in Nat
  BY DEF TypeOK
<1>1. Elsewhere(u)' = Total(moved', Amount, Paid(u)) + topups'
                       + Total(captures, Value, HeldOn(u)) + Total(gifts, Value, GivenTo(u))
  BY DEF UserStep, history, Elsewhere, Paid, HeldOn, GivenTo
<1>2. ASSUME NEW p \in Payable, moved'[p] = moved[p] + 1,
             \A q \in Payable : q # p => moved'[q] = moved[q], topups' = topups
      PROVE  \/ p \in Paid(u) /\ Elsewhere(u)' = Elsewhere(u) + Amount[p]
             \/ p \notin Paid(u) /\ Elsewhere(u)' = Elsewhere(u)
  <2>1. \A q \in Paid(u) : q # p => moved'[q] = moved[q]
    BY <1>2 DEF Paid
  <2>2. /\ p \in Paid(u) => Total(moved', Amount, Paid(u)) = M + Amount[p]
        /\ p \notin Paid(u) => Total(moved', Amount, Paid(u)) = M
    BY <1>2, <2>1, ElsewhereParts, TotalGain
  <2>3. Amount[p] \in Nat
    BY UserAssumption DEF Payable
  <2>4. QED
    BY <1>1, <1>2, <2>2, <2>3, ElsewhereParts
<1>3. ASSUME NEW p \in Transfers \cup Requests, Wallets!Pay(p) PROVE \E n \in Nat : Counts(n)
  <2>1. p \in Payable /\ From[p] \in Users /\ To[p] \in Users /\ Amount[p] \in Nat
    BY UserAssumption DEF Payable
  <2>2. /\ moved'[p] = moved[p] + 1 /\ topups' = topups
        /\ \A q \in Payable : q # p => moved'[q] = moved[q]
    BY <1>0, <1>3, <2>1 DEF Wallets!Pay
  <2>3. CASE p \in Paid(u)
    <3>1. balance'[u] = balance[u] - Amount[p] \/ balance'[u] = balance[u] + Amount[p]
      BY <1>0, <1>3, <2>1, <2>3 DEF Wallets!Pay, Paid
    <3>2. Elsewhere(u)' = Elsewhere(u) + Amount[p]
      BY <1>2, <2>1, <2>2, <2>3
    <3>3. Counts(Amount[p])
      BY <1>0, <2>1, <3>1, <3>2
    <3>4. QED
      BY <2>1, <3>3
  <2>4. CASE p \notin Paid(u)
    <3>1. balance'[u] = balance[u]
      BY <1>0, <1>3, <2>1, <2>4 DEF Wallets!Pay, Paid
    <3>2. Elsewhere(u)' = Elsewhere(u) /\ Elsewhere(u) \in Nat
      BY <1>2, <2>1, <2>2, <2>4, ElsewhereParts
    <3>3. Counts(0)
      BY <1>0, <3>1, <3>2
    <3>4. QED
      BY <3>3
  <2>5. QED
    BY <2>3, <2>4
<1>4. ASSUME NEW w \in Withdrawals, Wallets!Cash(w) PROVE \E n \in Nat : Counts(n)
  <2>1. w \in Payable /\ From[w] \in Users /\ Amount[w] \in Nat
    BY UserAssumption DEF Payable
  <2>2. /\ moved'[w] = moved[w] + 1 /\ topups' = topups
        /\ \A q \in Payable : q # w => moved'[q] = moved[q]
    BY <1>0, <1>4, <2>1 DEF Wallets!Cash
  <2>3. CASE w \in Paid(u)
    <3>1. balance'[u] = balance[u] - Amount[w] \/ balance'[u] = balance[u]
      BY <1>0, <1>4, <2>1 DEF Wallets!Cash
    <3>2. Elsewhere(u)' = Elsewhere(u) + Amount[w]
      BY <1>2, <2>1, <2>2, <2>3
    <3>3. Counts(Amount[w])
      BY <1>0, <2>1, <3>1, <3>2
    <3>4. QED
      BY <2>1, <3>3
  <2>4. CASE w \notin Paid(u)
    <3>1. balance'[u] = balance[u]
      BY <1>0, <1>4, <2>1, <2>4 DEF Wallets!Cash, Paid
    <3>2. Elsewhere(u)' = Elsewhere(u) /\ Elsewhere(u) \in Nat
      BY <1>2, <2>1, <2>2, <2>4, ElsewhereParts
    <3>3. Counts(0)
      BY <1>0, <3>1, <3>2
    <3>4. QED
      BY <3>3
  <2>5. QED
    BY <2>3, <2>4
<1>5. ASSUME NEW v \in Users, Wallets!Credit(v) PROVE Counts(1)
  <2>1. moved' = moved /\ topups' = topups + 1
    BY <1>5 DEF Wallets!Credit
  <2>2. Elsewhere(u)' = Elsewhere(u) + 1
    BY <1>1, <2>1, ElsewhereParts
  <2>3. balance'[u] = balance[u] + 1 \/ balance'[u] = balance[u]
    BY <1>0, <1>5 DEF Wallets!Credit
  <2>4. QED
    BY <1>0, <2>2, <2>3
<1>6. QED
  BY <1>3, <1>4, <1>5 DEF UserStep, Wallets!Next
\* A capture or a credit counts for what it does to the balance it has read.
LEMMA WriteCounts ==
    ASSUME TypeOK, NEW s \in Sessions, CommitCapture(s) \/ CommitCredit(s), NEW u \in Users
    PROVE  /\ Wallet[on[s]] # u => balance'[u] = balance[u] /\ Elsewhere(u)' = Elsewhere(u)
           /\ Wallet[on[s]] = u =>
                 /\ Elsewhere(u)' = Elsewhere(u) + Value[on[s]] /\ Value[on[s]] \in Nat
                 /\ \/ balance'[u] = sawBal[s] - Value[on[s]]
                    \/ balance'[u] = sawBal[s] + Value[on[s]]
<1> DEFINE x == on[s]
<1>0. /\ x \in Calls /\ Wallet[x] \in Users /\ Value[x] \in Nat
      /\ balance \in [Users -> Int]
  BY CallAssumption DEF TypeOK, CommitCapture, CommitCredit, Calls
<1>1. CASE CommitCapture(s)
  <2>1. x \in Holds /\ (Wallet[x] = u <=> x \in HeldOn(u))
    BY <1>1 DEF TypeOK, CommitCapture, HeldOn
  <2>2. captures'[x] = captures[x] + 1 /\ \A h \in HeldOn(u) : h # x => captures'[h] = captures[h]
    BY <1>1, <2>1 DEF TypeOK, CommitCapture, HeldOn
  <2>3. Elsewhere(u)' = Total(moved, Amount, Paid(u)) + topups
                         + Total(captures', Value, HeldOn(u)) + Total(gifts, Value, GivenTo(u))
    BY <1>1 DEF CommitCapture, others, Elsewhere, Paid, HeldOn, GivenTo
  <2>4. /\ x \in HeldOn(u) =>
              Total(captures', Value, HeldOn(u)) = Total(captures, Value, HeldOn(u)) + Value[x]
        /\ x \notin HeldOn(u) =>
              Total(captures', Value, HeldOn(u)) = Total(captures, Value, HeldOn(u))
    BY <2>2, ElsewhereParts, TotalGain
  <2>5. /\ x \in HeldOn(u) => Elsewhere(u)' = Elsewhere(u) + Value[x]
        /\ x \notin HeldOn(u) => Elsewhere(u)' = Elsewhere(u)
    BY <1>0, <2>3, <2>4, ElsewhereParts
  <2>6. balance' = [balance EXCEPT ![Wallet[x]] = sawBal[s] - Value[x]]
    BY <1>1 DEF CommitCapture
  <2>7. QED
    BY <1>0, <2>1, <2>5, <2>6
<1>2. CASE CommitCredit(s)
  <2>1. x \in Credits /\ (Wallet[x] = u <=> x \in GivenTo(u))
    BY <1>2 DEF TypeOK, CommitCredit, GivenTo
  <2>2. gifts'[x] = gifts[x] + 1 /\ \A c \in GivenTo(u) : c # x => gifts'[c] = gifts[c]
    BY <1>2, <2>1 DEF TypeOK, CommitCredit, GivenTo
  <2>3. Elsewhere(u)' = Total(moved, Amount, Paid(u)) + topups
                         + Total(captures, Value, HeldOn(u)) + Total(gifts', Value, GivenTo(u))
    BY <1>2 DEF CommitCredit, others, Elsewhere, Paid, HeldOn, GivenTo
  <2>4. /\ x \in GivenTo(u) =>
              Total(gifts', Value, GivenTo(u)) = Total(gifts, Value, GivenTo(u)) + Value[x]
        /\ x \notin GivenTo(u) =>
              Total(gifts', Value, GivenTo(u)) = Total(gifts, Value, GivenTo(u))
    BY <2>2, ElsewhereParts, TotalGain
  <2>5. /\ x \in GivenTo(u) => Elsewhere(u)' = Elsewhere(u) + Value[x]
        /\ x \notin GivenTo(u) => Elsewhere(u)' = Elsewhere(u)
    BY <1>0, <2>3, <2>4, ElsewhereParts
  <2>6. balance' = [balance EXCEPT ![Wallet[x]] = sawBal[s] + Value[x]]
    BY <1>2 DEF CommitCredit
  <2>7. QED
    BY <1>0, <2>1, <2>5, <2>6
<1>3. QED
  BY <1>1, <1>2

\* A partner's request that commits no capture and no credit moves no money.
LEMMA PartnerFrame ==
    ASSUME NEW s \in Sessions, PartnerStep(s), ~CommitCapture(s), ~CommitCredit(s)
    PROVE  UNCHANGED <<money, history>>
BY DEF PartnerStep, CreateHold, CaptureHold, ReleaseHold, PartnerCredit, SnapshotHold, CommitHold,
    ReadForCapture, WriteRelease, ReadForCredit, SessionFails

\* A session reads the balance as it is, or keeps what it has read.
LEMMA ReadsOnly ==
    ASSUME TypeOK, [Next]_vars, NEW s \in Sessions,
           at'[s] \in {"inCreate", "inCapture", "inCredit"}
    PROVE  /\ on'[s] = on[s] /\ Wallet[on[s]] \in Users
           /\ \/ at[s] = at'[s] /\ sawBal'[s] = sawBal[s]
              \/ sawBal'[s] = balance[Wallet[on[s]]]
<1> USE DEF TypeOK, Begin, End, ReadBalance
<1>1. ASSUME NEW x \in Sessions, PartnerStep(x)
      PROVE  /\ on'[s] = on[s]
             /\ \/ at[s] = at'[s] /\ sawBal'[s] = sawBal[s]
                \/ /\ sawBal'[s] = balance[Wallet[on[s]]]
                   /\ at[s] \in {"creating", "capturing", "crediting"}
  <2>1. ASSUME NEW h \in Holds, CreateHold(x, h) \/ CaptureHold(x, h) \/ ReleaseHold(x, h)
        PROVE  on'[s] = on[s] /\ at[s] = at'[s] /\ sawBal'[s] = sawBal[s]
    BY <2>1 DEF CreateHold, CaptureHold, ReleaseHold
  <2>2. ASSUME NEW c \in Credits, PartnerCredit(x, c)
        PROVE  on'[s] = on[s] /\ at[s] = at'[s] /\ sawBal'[s] = sawBal[s]
    BY <2>2 DEF PartnerCredit
  <2>3. CASE SnapshotHold(x) \/ ReadForCapture(x) \/ ReadForCredit(x)
    BY <2>3 DEF SnapshotHold, ReadForCapture, ReadForCredit
  <2>4. CASE CommitHold(x) \/ CommitCapture(x) \/ WriteRelease(x) \/ CommitCredit(x)
             \/ SessionFails(x)
    BY <2>4 DEF CommitHold, CommitCapture, WriteRelease, CommitCredit, SessionFails
  <2>5. QED
    BY <1>1, <2>1, <2>2, <2>3, <2>4 DEF PartnerStep
<1>2. ASSUME UNCHANGED sess PROVE on'[s] = on[s] /\ at[s] = at'[s] /\ sawBal'[s] = sawBal[s]
  BY <1>2 DEF sess
<1>3. UNCHANGED sess \/ \E x \in Sessions : PartnerStep(x)
  BY DEF Next, UserStep, vars
<1>4. on'[s] = on[s] /\ \/ at[s] = at'[s] /\ sawBal'[s] = sawBal[s]
                        \/ /\ sawBal'[s] = balance[Wallet[on[s]]]
                           /\ at[s] \in {"creating", "capturing", "crediting"}
  BY <1>1, <1>2, <1>3
<1>5. Wallet[on[s]] \in Users
  BY <1>4, CallAssumption DEF Calls
<1>6. QED
  BY <1>4, <1>5

\* Whatever a step makes of the balance comes from a live one, and what moves it
\* away from that one counts as much; no other balance comes alive.
LEMMA LiveStep ==
    ASSUME TypeOK, [Next]_vars, NEW u \in Users
    PROVE  /\ \E n \in Nat, v \in Live(u) :
                 /\ Elsewhere(u)' = Elsewhere(u) + n
                 /\ balance'[u] - v <= n /\ v - balance'[u] <= n
           /\ Live(u)' \subseteq Live(u) \cup {balance'[u]}
<1> DEFINE Counts(n, v) == /\ Elsewhere(u)' = Elsewhere(u) + n
                           /\ balance'[u] - v <= n /\ v - balance'[u] <= n
<1>0. balance[u] \in Live(u) /\ balance[u] \in Int /\ Elsewhere(u) \in Nat
  BY ElsewhereParts DEF Live, TypeOK
<1>1. \E n \in Nat, v \in Live(u) : Counts(n, v)
  <2>1. CASE UserStep
    BY <1>0, <2>1, UserStepCounts
  <2>2. ASSUME NEW s \in Sessions, CommitCapture(s) \/ CommitCredit(s)
        PROVE  \E n \in Nat, v \in Live(u) : Counts(n, v)
    <3>1. CASE Wallet[on[s]] = u
      <4>1. sawBal[s] \in Live(u) /\ sawBal[s] \in Int
        BY <2>2, <3>1 DEF CommitCapture, CommitCredit, Live, TypeOK
      <4>2. Counts(Value[on[s]], sawBal[s]) /\ Value[on[s]] \in Nat
        BY <2>2, <3>1, <4>1, WriteCounts
      <4>3. QED
        BY <4>1, <4>2
    <3>2. CASE Wallet[on[s]] # u
      <4>1. Counts(0, balance[u])
        BY <1>0, <2>2, <3>2, WriteCounts
      <4>2. QED
        BY <1>0, <4>1
    <3>3. QED
      BY <3>1, <3>2
  <2>3. CASE UNCHANGED <<money, history>>
    <3>1. Elsewhere(u)' = Elsewhere(u) /\ balance'[u] = balance[u]
      BY <2>3 DEF money, history, Elsewhere
    <3>2. Counts(0, balance[u])
      BY <1>0, <3>1
    <3>3. QED
      BY <1>0, <3>2
  <2>4. QED
    BY <2>1, <2>2, <2>3, PartnerFrame DEF Next, vars
<1>2. Live(u)' \subseteq Live(u) \cup {balance'[u]}
  BY ReadsOnly DEF Live
<1>3. QED
  BY <1>1, <1>2
\* A hold becomes active only by a createHold that finds none with its key.
LEMMA StatusFrame ==
    ASSUME TypeOK, [Next]_vars, NEW h \in Holds
    PROVE  /\ status[h] # "none" => status'[h] # "none"
           /\ status'[h] = "ACTIVE" =>
                 \/ status[h] = "ACTIVE"
                 \/ status[h] = "none" /\ \E s \in Sessions : CommitHold(s) /\ on[s] = h
<1> USE DEF TypeOK
<1>1. ASSUME NEW s \in Sessions, CommitHold(s)
      PROVE  \/ status'[h] = status[h]
             \/ on[s] = h /\ status[h] = "none" /\ status'[h] = "ACTIVE"
  BY <1>1 DEF CommitHold, KeyFree
<1>2. ASSUME NEW s \in Sessions, CommitCapture(s) \/ WriteRelease(s)
      PROVE  status'[h] = status[h] \/ status'[h] \in {"CAPTURED", "RELEASED"}
  BY <1>2 DEF CommitCapture, WriteRelease
<1>3. ASSUME ~\E s \in Sessions : CommitHold(s) \/ CommitCapture(s) \/ WriteRelease(s)
      PROVE  UNCHANGED status
  BY <1>3 DEF Next, UserStep, PartnerStep, CreateHold, CaptureHold, ReleaseHold, PartnerCredit,
      SnapshotHold, ReadForCapture, ReadForCredit, CommitCredit, SessionFails, vars
<1>4. QED
  BY <1>1, <1>2, <1>3

\* What a createHold has seen of the holds is what its snapshot showed.
LEMMA SeenFrame ==
    ASSUME TypeOK, [Next]_vars, NEW s \in Sessions, at'[s] = "inCreate"
    PROVE  \/ at[s] = "inCreate" /\ sawRows'[s] = sawRows[s] /\ sawHeld'[s] = sawHeld[s]
           \/ UNCHANGED status /\ \E u \in Users : sawRows'[s] = Rows(u) /\ sawHeld'[s] = Active(u)
<1> USE DEF TypeOK, Begin, End, ReadBalance
<1> DEFINE Kept == at[s] = "inCreate" /\ sawRows'[s] = sawRows[s] /\ sawHeld'[s] = sawHeld[s]
<1>1. ASSUME NEW x \in Sessions, PartnerStep(x), ~SnapshotHold(x) PROVE Kept
  BY <1>1 DEF PartnerStep, CreateHold, CaptureHold, ReleaseHold, PartnerCredit, CommitHold,
      ReadForCapture, CommitCapture, WriteRelease, ReadForCredit, CommitCredit, SessionFails
<1>2. ASSUME NEW x \in Sessions, SnapshotHold(x), x # s PROVE Kept
  BY <1>2 DEF SnapshotHold
<1>3. ASSUME SnapshotHold(s)
      PROVE  UNCHANGED status /\ \E u \in Users : sawRows'[s] = Rows(u) /\ sawHeld'[s] = Active(u)
  <2>1. Wallet[on[s]] \in Users
    BY <1>3, CallAssumption DEF SnapshotHold, Calls
  <2>2. sawRows'[s] = Rows(Wallet[on[s]]) /\ sawHeld'[s] = Active(Wallet[on[s]])
    BY <1>3 DEF SnapshotHold
  <2>3. QED
    BY <1>3, <2>1, <2>2 DEF SnapshotHold
<1>4. CASE UNCHANGED sess
  BY <1>4 DEF sess
<1>5. QED
  BY <1>1, <1>2, <1>3, <1>4 DEF Next, UserStep, vars

\* The holds of a wallet are finitely many, and so their values can be added up.
LEMMA ActiveSum ==
    ASSUME NEW S \in SUBSET Holds
    PROVE  /\ IsFiniteSet(S) /\ SumOf(Value, S) \in Int
           /\ \A x \in S : Value[x] \in Nat
           /\ \A R \in SUBSET S : SumOf(Value, R) <= SumOf(Value, S)
<1>1. IsFiniteSet(S) /\ Integral(Value, S) /\ \A x \in S : Value[x] \in Nat
  <2>1. S \in SUBSET Calls
    BY DEF Calls
  <2>2. QED
    BY <2>1, CallAssumption, FS_Subset DEF Integral
<1>2. SumOn(Value, S) \in Int /\ \A R \in SUBSET S : SumOn(Value, R) <= SumOn(Value, S)
  BY <1>1, SumType, SumSubset
<1>3. QED
  BY <1>1, <1>2, SumsAlike

\* A createHold adds a hold that fits in the balance it has read beside all holds
\* that are active when it commits; every other step leaves no more held.
LEMMA HeldStep ==
    ASSUME TypeOK, HoldInv, [Next]_vars, NEW u \in Users
    PROVE  \/ SumOf(Value, Active(u)') <= SumOf(Value, Active(u))
           \/ /\ balance'[u] = balance[u]
              /\ \E v \in Live(u) : SumOf(Value, Active(u)') <= v
<1>1. Active(u) \in SUBSET Holds /\ Active(u)' \in SUBSET Holds
  BY DEF Active, Rows
<1>2. CASE \E s \in Sessions : CommitHold(s) /\ Wallet[on[s]] = u
  <2>1. PICK s \in Sessions : CommitHold(s) /\ Wallet[on[s]] = u
    BY <1>2
  <2> DEFINE h == on[s]
  <2>2. /\ h \in Holds /\ status[h] = "none" /\ h \notin Active(u)
        /\ status' = [status EXCEPT ![h] = "ACTIVE"]
        /\ sawHeld[s] \in SUBSET Holds /\ sawBal[s] \in Int
    BY <2>1 DEF CommitHold, KeyFree, TypeOK, Active, Rows
  <2>3. Active(u)' = Active(u) \cup {h}
    BY <2>1, <2>2 DEF Active, Rows, TypeOK
  <2>4. SumOf(Value, Active(u) \cup {h}) = SumOf(Value, Active(u)) + Value[h]
    <3>1. Integral(Value, Active(u) \cup {h}) /\ IsFiniteSet(Active(u))
      BY <1>1, <2>2, ActiveSum, CallAssumption DEF Integral, Calls
    <3> HIDE DEF h
    <3>2. QED
      BY <2>2, <3>1, SumAdd, SumsAlike
  <2>5. Active(u) \in SUBSET sawHeld[s]
    <3>1. Active(u) \subseteq sawRows[s]
      BY <2>1 DEF CommitHold, Serializable, Active
    <3>2. \A x \in sawRows[s] : status[x] = "ACTIVE" => x \in sawHeld[s]
      BY <2>1 DEF HoldInv, HeldSeen, CommitHold
    <3>3. QED
      BY <3>1, <3>2 DEF Active
  <2>6. SumOf(Value, Active(u)) <= SumOf(Value, sawHeld[s])
    BY <2>2, <2>5, ActiveSum
  <2>7. /\ SumOf(Value, sawHeld[s]) \in Int /\ SumOf(Value, Active(u)) \in Int
        /\ Value[h] \in Int
    BY <1>1, <2>2, ActiveSum, CallAssumption DEF Calls
  <2>8. sawBal[s] - SumOf(Value, sawHeld[s]) >= Value[h]
    BY <2>1 DEF CommitHold
  <2>9. SumOf(Value, Active(u) \cup {h}) <= sawBal[s]
    <3> HIDE DEF h
    <3>1. QED
      BY <2>2, <2>4, <2>6, <2>7, <2>8
  <2>10. sawBal[s] \in Live(u) /\ balance' = balance
    BY <2>1 DEF Live, CommitHold, money
  <2>11. QED
    BY <2>3, <2>9, <2>10
<1>3. CASE ~\E s \in Sessions : CommitHold(s) /\ Wallet[on[s]] = u
  <2>1. Active(u)' \in SUBSET Active(u)
    BY <1>3, StatusFrame DEF Active, Rows
  <2>2. QED
    BY <1>1, <2>1, ActiveSum
<1>4. QED
  BY <1>2, <1>3

\* Two createHold calls never hold the same paise, whatever captures, credits and
\* payments write meanwhile.  The balances that may still be computed from are
\* never further apart than what moved elsewhere, so that a hold one of them
\* covers is covered by every other.
THEOREM HeldOnce == Spec => []NeverHeldTwice
<1>1. Init => HoldInv
  <2> SUFFICES ASSUME Init PROVE HoldInv
    OBVIOUS
  <2>0. TypeOK
    BY UserAssumption, CallAssumption
    DEF Init, Wallets!Init, Wallets!Payments, TypeOK, Payable, Calls, Stages, HoldStatus
  <2>1. ASSUME NEW u \in Users PROVE LiveClose(u) /\ LiveCovers(u)
    <3>1. Live(u) = {balance[u]} /\ Active(u) = {} /\ balance[u] \in Nat
      BY UserAssumption DEF Init, Wallets!Init, Live, Active, Rows
    <3>2. SumOf(Value, Active(u)) = 0
      BY <3>1, SumEmpty, SumsAlike
    <3>3. Elsewhere(u) \in Nat
      BY <2>0, ElsewhereParts
    <3>4. QED
      BY <3>1, <3>2, <3>3 DEF LiveClose, LiveCovers
  <2>2. \A s \in Sessions : HeldSeen(s)
    BY DEF Init, HeldSeen
  <2>3. QED
    BY <2>1, <2>2 DEF HoldInv
<1>2. TypeOK /\ HoldInv /\ [Next]_vars => HoldInv'
  <2> SUFFICES ASSUME TypeOK, HoldInv, [Next]_vars PROVE HoldInv'
    OBVIOUS
  <2>1. ASSUME NEW u \in Users PROVE LiveClose(u)' /\ LiveCovers(u)'
    <3> DEFINE E == Elsewhere(u)
               b == balance'[u]
               A == SumOf(Value, Active(u))
               B == SumOf(Value, Active(u)')
    <3>0. /\ \A v, w \in Live(u) : v - w <= E
          /\ \A v \in Live(u) : A <= v + E
      BY DEF HoldInv, LiveClose, LiveCovers
    <3>1. PICK n \in Nat, l \in Live(u) :
              Elsewhere(u)' = E + n /\ b - l <= n /\ l - b <= n
      BY LiveStep
    <3>2. Live(u)' \subseteq Live(u) \cup {b}
      BY LiveStep
    <3>3. (\A v \in Live(u) : v \in Int) /\ balance[u] \in Live(u)
      BY DEF Live, TypeOK
    <3>4. b \in Int
      BY TypeStep DEF TypeOK
    <3>5. E \in Nat
      BY ElsewhereParts
    <3>6. A \in Int /\ B \in Int
      <4>1. Active(u) \in SUBSET Holds /\ Active(u)' \in SUBSET Holds
        BY DEF Active, Rows
      <4>2. QED
        BY <4>1, ActiveSum
    <3>7. B <= A \/ (b = balance[u] /\ \E v \in Live(u) : B <= v)
      BY HeldStep
    <3> HIDE DEF E, b, A, B
    <3>8. \A v, w \in Live(u) \cup {b} : v - w <= E + n
      BY <3>0, <3>1, <3>3, <3>4, <3>5
    <3>9. \A v \in Live(u) \cup {b} : B <= v + (E + n)
      <4>1. CASE B <= A
        BY <3>0, <3>1, <3>3, <3>4, <3>5, <3>6, <4>1
      <4>2. ASSUME b = balance[u], NEW w \in Live(u), B <= w
            PROVE  \A v \in Live(u) \cup {b} : B <= v + (E + n)
        BY <3>0, <3>1, <3>3, <3>4, <3>5, <3>6, <4>2
      <4>3. QED
        BY <3>7, <4>1, <4>2
    <3>10. LiveClose(u)'
      BY <3>1, <3>2, <3>8 DEF LiveClose
    <3>11. LiveCovers(u)'
      BY <3>1, <3>2, <3>9 DEF LiveCovers, B
    <3>12. QED
      BY <3>10, <3>11
  <2>2. ASSUME NEW s \in Sessions PROVE HeldSeen(s)'
    <3>1. SUFFICES ASSUME at'[s] = "inCreate", NEW h \in sawRows'[s]
                   PROVE  status'[h] # "none" /\ (status'[h] = "ACTIVE" => h \in sawHeld'[s])
      BY DEF HeldSeen
    <3>2. CASE at[s] = "inCreate" /\ sawRows'[s] = sawRows[s] /\ sawHeld'[s] = sawHeld[s]
      <4>1. h \in Holds /\ status[h] # "none" /\ (status[h] = "ACTIVE" => h \in sawHeld[s])
        BY <3>2 DEF HoldInv, HeldSeen, TypeOK
      <4>2. QED
        BY <3>2, <4>1, StatusFrame
    <3>3. ASSUME UNCHANGED status, NEW u \in Users, sawRows'[s] = Rows(u), sawHeld'[s] = Active(u)
          PROVE  status'[h] # "none" /\ (status'[h] = "ACTIVE" => h \in sawHeld'[s])
      BY <3>3 DEF Rows, Active
    <3>4. QED
      BY <3>1, <3>2, <3>3, SeenFrame
  <2>3. QED
    BY <2>1, <2>2 DEF HoldInv
<1>3. TypeOK /\ HoldInv => NeverHeldTwice
  BY DEF HoldInv, LiveCovers, Live, NeverHeldTwice
<1>4. QED
  BY <1>1, <1>2, <1>3, TypeCorrect, PTL DEF Spec
=============================================================================
