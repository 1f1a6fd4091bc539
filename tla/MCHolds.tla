------------------------------ MODULE MCHolds ------------------------------
(* Constants for checking Holds with TLC. *)
EXTENDS Holds, TLC

CONSTANTS u1, u2, t1, w1, h1, h2, c1, s1, s2

Payers == [p \in Payable |-> u1]
Payees == [p \in Payable |-> IF p = t1 THEN u2 ELSE u1]
Paise == [p \in Payable |-> 1]
OpeningTwo == [u \in Users |-> IF u = u1 THEN 2 ELSE 0]
TheWallet == [x \in Calls |-> u1]
\* Either hold fits in the wallet, both together do not.
Values == [x \in Calls |-> IF x = h1 THEN 2 ELSE 1]

Interchangeable == Permutations(Sessions)
=============================================================================
