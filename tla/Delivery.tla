------------------------------ MODULE Delivery ------------------------------
(***************************************************************************)
(* What a call of publishMessage promises to its caller: the message is    *)
(* handed to the broker's channel at most Most times and only before the   *)
(* caller is answered; a caller told that it was sent had it handed over;  *)
(* one told that it failed may still have had.                             *)
(***************************************************************************)
EXTENDS Naturals

CONSTANTS
    Calls, \* callers that publish, each one message at a time
    Most   \* copies of one message

VARIABLES
    copies, \* copies[p]: how often p's message was handed over
    told    \* told[p]: "pending", or what p was last told

Init ==
    /\ copies = [p \in Calls |-> 0]
    /\ told = [p \in Calls |-> "failed"]

Ask(p) ==
    /\ told[p] # "pending"
    /\ told' = [told EXCEPT ![p] = "pending"]
    /\ copies' = [copies EXCEPT ![p] = 0]

\* The publisher takes no calls for now.
Refuse(p) ==
    /\ told[p] # "pending"
    /\ told' = [told EXCEPT ![p] = "failed"]
    /\ copies' = [copies EXCEPT ![p] = 0]

HandOver(p) ==
    /\ told[p] = "pending"
    /\ copies[p] < Most
    /\ copies' = [copies EXCEPT ![p] = @ + 1]
    /\ \/ told' = [told EXCEPT ![p] = "sent"]
       \/ UNCHANGED told

GiveUp(p) ==
    /\ told[p] = "pending"
    /\ told' = [told EXCEPT ![p] = "failed"]
    /\ UNCHANGED copies

Next == \E p \in Calls : Ask(p) \/ Refuse(p) \/ HandOver(p) \/ GiveUp(p)

Spec == Init /\ [][Next]_<<copies, told>>
=============================================================================
