----------------------------- MODULE Settlement -----------------------------
(***************************************************************************)
(* What a top-up promises, with no requests, messages or versions in it:   *)
(* the bank gives up the amount of an order once, out of money it has, and *)
(* only then is the wallet credited with exactly that amount.  It does not *)
(* promise that the wallet is credited once: success events are delivered  *)
(* at least once, and two copies handled together credit twice.            *)
(***************************************************************************)
EXTENDS Integers

CONSTANTS Users, Accounts, Orders, Owner, Source, Amount, OpeningFunds

VARIABLES funds, balance, debits, credits

parties == <<funds, balance, debits, credits>>

Init ==
    /\ funds = OpeningFunds
    /\ balance = [u \in Users |-> 0]
    /\ debits = [o \in Orders |-> 0]
    /\ credits = [o \in Orders |-> 0]

Take(o) ==
    /\ debits[o] = 0
    /\ funds[Source[o]] >= Amount[o]
    /\ debits' = [debits EXCEPT ![o] = 1]
    /\ funds' = [funds EXCEPT ![Source[o]] = @ - Amount[o]]
    /\ UNCHANGED <<balance, credits>>

Give(o) ==
    /\ debits[o] = 1
    /\ credits' = [credits EXCEPT ![o] = @ + 1]
    /\ balance' = [balance EXCEPT ![Owner[o]] = @ + Amount[o]]
    /\ UNCHANGED <<funds, debits>>

Next == \E o \in Orders : Take(o) \/ Give(o)

Spec == Init /\ [][Next]_parties
=============================================================================
