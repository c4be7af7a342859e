----------------------------- MODULE MCAccounts -----------------------------
(***************************************************************************)
(* Threads are interchangeable: the first call, and a rotation if there is *)
(* one, are taken to be First's.  Two rotations at once are left out, for  *)
(* the number of their states.                                             *)
(***************************************************************************)
EXTENDS Accounts

CONSTANT First

MCNext ==
    /\ Next
    /\ calls = 0 => call'[First] # Idle
    /\ \A t \in Thread \ {First} : call'[t].op # "rotate"
MCSpec == Init /\ [][MCNext]_vars /\ \A t \in Thread : WF_vars(ThreadStep(t))
=============================================================================
