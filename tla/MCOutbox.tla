------------------------------ MODULE MCOutbox ------------------------------
(* Constants for checking Outbox with TLC. *)
EXTENDS Outbox

CONSTANTS e1, e2, e3, w1, w2
=============================================================================
