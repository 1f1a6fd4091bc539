----------------------------- MODULE MCPayments -----------------------------
(* Constants for checking Payments with TLC. *)
EXTENDS Payments, TLC

CONSTANTS u1, u2, t1, t2, r1, w1, k1, k2, s1, s2

\* t2 is a transfer to oneself.
Payers == [p \in Payments |-> IF p = t2 THEN u2 ELSE u1]
Payees == [p \in Payments |-> IF p \in {t1, t2, r1} THEN u2 ELSE u1]
Paise == [p \in Payments |-> 1]
OneEach == [u \in Users |-> 1]

Interchangeable == Permutations(Sessions) \cup Permutations(Keys)
=============================================================================
