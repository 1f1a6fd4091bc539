-------------------------------- MODULE Holds --------------------------------
(***************************************************************************)
(* Partners of wallet-service: a partner holds money in a linked wallet,   *)
(* captures or releases the hold, and credits the wallet.                  *)
(*                                                                         *)
(* createHold runs in a SERIALIZABLE transaction; captureHold and the      *)
(* partner's creditWallet run at READ COMMITTED and write an absolute      *)
(* balance without looking at the version; releaseHold is one update.  The *)
(* status of a hold is looked at before the transaction and never in it.   *)
(*                                                                         *)
(* Users' own payments and top-ups change the same wallets.  They enter    *)
(* through AtomicPayments, which Payments is shown to implement: seen from *)
(* here, each is one step.                                                 *)
(***************************************************************************)
EXTENDS Integers, FiniteSets, FiniteSetsExt

CONSTANTS
    Users, Transfers, Requests, Withdrawals,   \* see AtomicPayments
    From, To, Amount, Opening, MaxTopups,
    Holds,      \* one for each partner and idempotency key: the pair is unique
    Credits,    \* likewise, for the partner's credits
    Wallet,     \* Wallet[x]: the user whose wallet a hold or a credit is about
    Value,      \* Value[x], in paise
    Spendable,  \* wallets linked to the partner, ACTIVE and not frozen
    Sessions,   \* HTTP requests of partners in flight at a time
    Nothing     \* what an idle session is about

Calls == Holds \cup Credits
Payable == Transfers \cup Requests \cup Withdrawals

ASSUME UserAssumption ==
    /\ From \in [Payable -> Users] /\ To \in [Payable -> Users]
    /\ Amount \in [Payable -> Nat \ {0}]
    /\ Opening \in [Users -> Nat]
    /\ MaxTopups \in Nat
    /\ IsFiniteSet(Payable)

ASSUME CallAssumption ==
    /\ IsFiniteSet(Calls)
    /\ Wallet \in [Calls -> Users]
    /\ Value \in [Calls -> Nat \ {0}]
    /\ Holds \cap Credits = {} /\ Nothing \notin Calls
    /\ Spendable \subseteq Users

VARIABLES
    balance,  \* wallets.balance
    bank,     \* AtomicPayments: what withdrawals brought to the bank,
    moved,    \* times a payment was made,
    topups,   \* and top-ups credited
    status,   \* wallet_holds.status; "none" before the row exists
    booked,   \* credits whose ledger entry WXC:<partner>:<key> exists
    at,       \* at[s]: the await session s is about to make
    on,       \* on[s]: the hold or credit it is about
    sawBal,   \* sawBal[s]: the balance its transaction read,
    sawRows,  \* sawRows[s]: the holds of the wallet that there were,
    sawHeld,  \* sawHeld[s]: and those of them that were active
    captures, \* history: times a hold was captured
    gifts     \* history: times a credit reached the wallet

money == <<balance, bank, moved, topups>>
others == <<bank, moved, topups>>
sess == <<at, on, sawBal, sawRows, sawHeld>>
history == <<captures, gifts>>
vars == <<money, status, booked, sess, history>>
-----------------------------------------------------------------------------
HoldStatus == {"none", "ACTIVE", "CAPTURED", "RELEASED"}

Stages == {"idle", "creating", "inCreate", "capturing", "inCapture",
           "releasing", "crediting", "inCredit"}

Wallets == INSTANCE AtomicPayments

Init ==
    /\ Wallets!Init
    /\ status = [h \in Holds |-> "none"]
    /\ booked = {}
    /\ at = [s \in Sessions |-> "idle"]
    /\ on = [s \in Sessions |-> Nothing]
    /\ sawBal = [s \in Sessions |-> 0]
    /\ sawRows = [s \in Sessions |-> {}]
    /\ sawHeld = [s \in Sessions |-> {}]
    /\ captures = [h \in Holds |-> 0]
    /\ gifts = [c \in Credits |-> 0]

Begin(s, x, stage) ==
    /\ at[s] = "idle"
    /\ at' = [at EXCEPT ![s] = stage]
    /\ on' = [on EXCEPT ![s] = x]
    /\ UNCHANGED <<sawBal, sawRows, sawHeld>>

End(s) ==
    /\ at' = [at EXCEPT ![s] = "idle"]
    /\ on' = [on EXCEPT ![s] = Nothing]
    /\ sawBal' = [sawBal EXCEPT ![s] = 0]
    /\ sawRows' = [sawRows EXCEPT ![s] = {}]
    /\ sawHeld' = [sawHeld EXCEPT ![s] = {}]

\* A READ COMMITTED transaction reads the wallet.
ReadBalance(s, stage) ==
    /\ at' = [at EXCEPT ![s] = stage]
    /\ sawBal' = [sawBal EXCEPT ![s] = balance[Wallet[on[s]]]]
    /\ UNCHANGED <<on, sawRows, sawHeld>>

SumOf(f, S) == MapThenSumSet(LAMBDA x : f[x], S)
Rows(u) == {h \in Holds : Wallet[h] = u /\ status[h] # "none"}
Active(u) == {h \in Rows(u) : status[h] = "ACTIVE"}
-----------------------------------------------------------------------------
(* createHold *)

\* The wallet is linked to the partner, ACTIVE and not frozen.
EnsureSpendable(x) == Wallet[x] \in Spendable

\* A hold that exists is returned as it is; otherwise the transaction begins.
CreateHold(s, h) ==
    /\ EnsureSpendable(h)
    /\ status[h] = "none"
    /\ Begin(s, h, "creating")
    /\ UNCHANGED <<money, status, booked, history>>

SnapshotHold(s) ==
    LET u == Wallet[on[s]]
    IN  /\ at[s] = "creating"
        /\ at' = [at EXCEPT ![s] = "inCreate"]
        /\ sawBal' = [sawBal EXCEPT ![s] = balance[u]]
        /\ sawRows' = [sawRows EXCEPT ![s] = Rows(u)]
        /\ sawHeld' = [sawHeld EXCEPT ![s] = Active(u)]
        /\ UNCHANGED <<on, money, status, booked, history>>

\* SERIALIZABLE: of two transactions that each add a row the other's total
\* missed, one is aborted.  Captures and releases are no serializable
\* transactions and transfers read no holds: what they write need not abort it
\* (it may: SessionFails).  (Mutant: the default isolation level.)
ReadCommitted(s) == TRUE
Serializable(s) == Rows(Wallet[on[s]]) = sawRows[s]

\* partnerId and idempotencyKey are unique.  (Mutant: not.)
KeyNotUnique(h) == TRUE
KeyFree(h) == status[h] = "none"

CommitHold(s) ==
    /\ at[s] = "inCreate"
    /\ sawBal[s] - SumOf(Value, sawHeld[s]) >= Value[on[s]]
    /\ Serializable(s) /\ KeyFree(on[s])
    /\ status' = [status EXCEPT ![on[s]] = "ACTIVE"]
    /\ End(s)
    /\ UNCHANGED <<money, booked, history>>
-----------------------------------------------------------------------------
(* captureHold and releaseHold *)

CaptureHold(s, h) ==
    /\ status[h] = "ACTIVE"
    /\ Begin(s, h, "capturing")
    /\ UNCHANGED <<money, status, booked, history>>

ReadForCapture(s) ==
    /\ at[s] = "capturing"
    /\ ReadBalance(s, "inCapture")
    /\ UNCHANGED <<money, status, booked, history>>

\* INSUFFICIENT_BALANCE.  (Mutant: held money is taken to be there.)
HoldTrusted(s) == TRUE
Sufficient(s) == sawBal[s] >= Value[on[s]]

\* The wallet and the hold are written by id, whatever they are by now.
CommitCapture(s) ==
    LET h == on[s]
    IN  /\ at[s] = "inCapture" /\ Sufficient(s)
        /\ balance' = [balance EXCEPT ![Wallet[h]] = sawBal[s] - Value[h]]
        /\ status' = [status EXCEPT ![h] = "CAPTURED"]
        /\ captures' = [captures EXCEPT ![h] = @ + 1]
        /\ End(s)
        /\ UNCHANGED <<others, booked, gifts>>

ReleaseHold(s, h) ==
    /\ status[h] = "ACTIVE"
    /\ Begin(s, h, "releasing")
    /\ UNCHANGED <<money, status, booked, history>>

\* (Mutant: a status that is not in the enum.)
WriteCancelled(s) ==
    /\ at[s] = "releasing"
    /\ status' = [status EXCEPT ![on[s]] = "CANCELLED"]
    /\ End(s)
    /\ UNCHANGED <<money, booked, history>>

WriteRelease(s) ==
    /\ at[s] = "releasing"
    /\ status' = [status EXCEPT ![on[s]] = "RELEASED"]
    /\ End(s)
    /\ UNCHANGED <<money, booked, history>>
-----------------------------------------------------------------------------
(* creditWallet *)

\* A credit that is booked is answered from its ledger entry.
PartnerCredit(s, c) ==
    /\ EnsureSpendable(c)
    /\ c \notin booked
    /\ Begin(s, c, "crediting")
    /\ UNCHANGED <<money, status, booked, history>>

ReadForCredit(s) ==
    /\ at[s] = "crediting"
    /\ ReadBalance(s, "inCredit")
    /\ UNCHANGED <<money, status, booked, history>>

\* ledger_entries.referenceId is unique.  (Mutant: not.)
ReferenceNotUnique(c) == TRUE
ReferenceFree(c) == c \notin booked

CommitCredit(s) ==
    LET c == on[s]
    IN  /\ at[s] = "inCredit" /\ ReferenceFree(c)
        /\ balance' = [balance EXCEPT ![Wallet[c]] = sawBal[s] + Value[c]]
        /\ booked' = booked \cup {c}
        /\ gifts' = [gifts EXCEPT ![c] = @ + 1]
        /\ End(s)
        /\ UNCHANGED <<others, status, captures>>
-----------------------------------------------------------------------------
\* Refused, aborted by the database, or its process died: nothing is written.
\* (What throws after the commit, the cache invalidation, changes nothing here.)
SessionFails(s) ==
    /\ at[s] # "idle"
    /\ End(s)
    /\ UNCHANGED <<money, status, booked, history>>

PartnerStep(s) ==
    \/ \E h \in Holds : CreateHold(s, h) \/ CaptureHold(s, h) \/ ReleaseHold(s, h)
    \/ \E c \in Credits : PartnerCredit(s, c)
    \/ SnapshotHold(s) \/ CommitHold(s)
    \/ ReadForCapture(s) \/ CommitCapture(s) \/ WriteRelease(s)
    \/ ReadForCredit(s) \/ CommitCredit(s)
    \/ SessionFails(s)

\* Payments and top-ups: they conflict on the wallet's row or on its version
\* with whatever was committed meanwhile, and so see what partners wrote.
UserStep ==
    /\ Wallets!Next
    /\ UNCHANGED <<status, booked, sess, history>>

Next == (\E s \in Sessions : PartnerStep(s)) \/ UserStep

Spec == Init /\ [][Next]_vars
-----------------------------------------------------------------------------
(* Properties *)

TypeOK ==
    /\ balance \in [Users -> Int] /\ bank \in [Users -> Nat]
    /\ moved \in [Payable -> Nat] /\ topups \in Nat
    /\ status \in [Holds -> HoldStatus] /\ booked \subseteq Credits
    /\ at \in [Sessions -> Stages] /\ on \in [Sessions -> Calls \cup {Nothing}]
    /\ sawBal \in [Sessions -> Int]
    /\ sawRows \in [Sessions -> SUBSET Holds] /\ sawHeld \in [Sessions -> SUBSET Holds]
    /\ captures \in [Holds -> Nat] /\ gifts \in [Credits -> Nat]
    /\ \A s \in Sessions :
          /\ at[s] \in {"creating", "inCreate", "capturing", "inCapture", "releasing"} =>
                on[s] \in Holds
          /\ at[s] \in {"crediting", "inCredit"} => on[s] \in Credits

\* Captures and partner credits overwrite balances that users' payments change
\* at the same time, and holds may be spent before they are captured; still no
\* wallet falls below zero.
NoOverdraft == \A u \in Users : balance[u] >= 0

\* A partner's credit reaches the wallet once per idempotency key, however
\* often and however concurrently it is sent.
CreditedOnce == \A c \in Credits : gifts[c] <= 1

\* An idempotency key makes one hold: a createHold that runs while an earlier
\* one with the key was made, and captured or released, does not reopen it.
NeverReopened ==
    [][\A h \in Holds : status[h] \in {"CAPTURED", "RELEASED"} => status'[h] # "ACTIVE"]_vars

\* Two createHold calls never hold the same paise: what the active holds of a
\* wallet exceed its balance by is money that something else moved.
Total(f, g, S) == SumOf([x \in S |-> f[x] * g[x]], S)
Elsewhere(u) ==
    LET mine == {p \in Payable : u \in {From[p], To[p]}}
    IN  Total(moved, Amount, mine) + topups
          + Total(captures, Value, {h \in Holds : Wallet[h] = u})
          + Total(gifts, Value, {c \in Credits : Wallet[c] = u})
NeverHeldTwice ==
    \A u \in Users : SumOf(Value, Active(u)) <= balance[u] + Elsewhere(u)

\* captureHold refuses a hold that is not active: "HOLD_NOT_ACTIVE".
CapturesOnlyActive ==
    [][\A h \in Holds : captures'[h] > captures[h] => status[h] = "ACTIVE"]_vars
-----------------------------------------------------------------------------
(* Why NeverHeldTwice holds: an invariant that every step preserves. *)

\* What the wallet's balance is or may be computed from: the balance, and what
\* transactions that are under way have read of it.
Live(u) ==
    LET reads == {s \in Sessions : /\ at[s] \in {"inCreate", "inCapture", "inCredit"}
                                   /\ Wallet[on[s]] = u}
    IN  {balance[u]} \cup {sawBal[s] : s \in reads}

\* They are no further apart than what has moved elsewhere, and each of them
\* with it covers what is held.  Stale as it is, what a createHold has seen of
\* the wallet's holds lacks none that is active.
LiveClose(u) == \A v, w \in Live(u) : v - w <= Elsewhere(u)
LiveCovers(u) == \A v \in Live(u) : SumOf(Value, Active(u)) <= v + Elsewhere(u)
HeldSeen(s) ==
    at[s] = "inCreate" =>
        \A h \in sawRows[s] : status[h] # "none" /\ (status[h] = "ACTIVE" => h \in sawHeld[s])
HoldInv ==
    /\ \A u \in Users : LiveClose(u) /\ LiveCovers(u)
    /\ \A s \in Sessions : HeldSeen(s)
=============================================================================
