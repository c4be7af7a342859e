------------------------------ MODULE Delivery ------------------------------
(***************************************************************************)
(* What an encrypted conversation promises the application: a message that *)
(* was sent is handed over at most once, however often and in whatever     *)
(* order the network brings it.                                            *)
(***************************************************************************)
EXTENDS Naturals

CONSTANT Id          \* messages

VARIABLES
    sent,            \* messages given to the network
    got              \* how often each was handed to the application

Init == sent = {} /\ got = [i \in Id |-> 0]

Send(i) == i \notin sent /\ sent' = sent \cup {i} /\ UNCHANGED got

Deliver(i) ==
    /\ i \in sent /\ got[i] = 0
    /\ got' = [got EXCEPT ![i] = 1]
    /\ UNCHANGED sent

Next == \E i \in Id : Send(i) \/ Deliver(i)

Spec == Init /\ [][Next]_<<sent, got>>
=============================================================================
