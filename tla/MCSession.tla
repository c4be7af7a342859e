----------------------------- MODULE MCSession -----------------------------
(***************************************************************************)
(* Three instances of Session over the same variables; a behaviour keeps   *)
(* to one of them from its first state.  In the "crash" one the devices    *)
(* crash; in "limits" three sessions meet a record with place for two; in  *)
(* "room" the record has the code's room (five chains, forty archived      *)
(* states) and messages must arrive.  The last two have a message less.    *)
(***************************************************************************)
EXTENDS Session

VARIABLE instance

Limits == INSTANCE Session WITH MaxCrash <- 0, MaxInit <- MaxInit + 1, OneTime <- 3
Room == INSTANCE Session
            WITH MaxCrash <- 0, MaxChains <- 5, MaxArchived <- 40

MCInit ==
    \/ instance = "limits" /\ Limits!Init
    \/ instance \in {"crash", "room"} /\ Init

MCNext ==
    /\ \/ instance = "crash" /\ Next
       \/ instance = "limits" /\ Limits!Next /\ nextId' <= MaxMsg
       \/ instance = "room" /\ Room!Next /\ nextId' <= MaxMsg
    /\ UNCHANGED instance

\* Where messages must arrive, threads finish what they began, and the server
\* keeps offering what was not decrypted yet.
Fairly(A) == instance = "room" /\ A /\ UNCHANGED instance

MCSpec ==
    /\ MCInit /\ [][MCNext]_<<vars, instance>>
    /\ \A s \in Side :
          /\ WF_<<vars, instance>>(Fairly(\E t \in Thread : Room!ThreadStep(s, t)))
          /\ WF_<<vars, instance>>(Fairly(Room!DecryptNew(s)))

\* A record keeps to its limits on states and chains, whichever they are.
WithinLimits ==
    CASE instance = "crash" -> TypeOK
      [] instance = "limits" -> Limits!TypeOK
      [] instance = "room" -> Room!TypeOK

\* Whatever is sent can be opened when it comes, where the record has room for
\* every session: skipped keys are kept, and a message of an older session finds
\* its archived state, also when both sides set up sessions at the same time.
RoomyArrives ==
    []<>(instance = "room" => \A m \in network : got[m.id] = 1)
=============================================================================
