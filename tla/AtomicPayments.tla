--------------------------- MODULE AtomicPayments ---------------------------
(***************************************************************************)
(* What transfers, request payments and withdrawals promise: each one      *)
(* happens at a single moment, out of the balances of that moment, and a   *)
(* transfer or a request pays once.  There are no snapshots, no versions,  *)
(* no locks and no idempotency keys in it.                                 *)
(***************************************************************************)
EXTENDS Integers

CONSTANTS Users, Transfers, Requests, Withdrawals, From, To, Amount, Opening, MaxTopups

VARIABLES balance, bank, moved, topups

money == <<balance, bank, moved, topups>>

Payments == Transfers \cup Requests \cup Withdrawals

Init ==
    /\ balance = Opening
    /\ bank = [u \in Users |-> 0]
    /\ moved = [p \in Payments |-> 0]
    /\ topups = 0

Covered(p) == balance[From[p]] >= Amount[p]

\* From one wallet to another, once.
Pay(p) ==
    /\ moved[p] = 0 /\ Covered(p) /\ From[p] # To[p]
    /\ balance' = [balance EXCEPT ![From[p]] = @ - Amount[p], ![To[p]] = @ + Amount[p]]
    /\ moved' = [moved EXCEPT ![p] = 1]
    /\ UNCHANGED <<bank, topups>>

\* To the bank account: as often as it is asked for.
Cash(w) ==
    /\ Covered(w)
    /\ balance' = [balance EXCEPT ![From[w]] = @ - Amount[w]]
    /\ bank' = [bank EXCEPT ![From[w]] = @ + Amount[w]]
    /\ moved' = [moved EXCEPT ![w] = @ + 1]
    /\ UNCHANGED topups

Credit(u) ==
    /\ topups < MaxTopups
    /\ balance' = [balance EXCEPT ![u] = @ + 1]
    /\ topups' = topups + 1
    /\ UNCHANGED <<bank, moved>>

Next ==
    \/ \E p \in Transfers \cup Requests : Pay(p)
    \/ \E w \in Withdrawals : Cash(w)
    \/ \E u \in Users : Credit(u)

Spec == Init /\ [][Next]_money
=============================================================================
