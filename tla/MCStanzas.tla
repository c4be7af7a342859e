----------------------------- MODULE MCStanzas -----------------------------
(***************************************************************************)
(* What goes down the stack of protocol layers: a behaviour is one of      *)
(* Outbox, the layer on top of them, or one of Wire, the layers            *)
(* themselves, from its first state; the variables of the other do not     *)
(* change.  Of the numbers, new is one that WhatsApp has under another     *)
(* jid, moved.                                                             *)
(***************************************************************************)
EXTENDS Outbox

CONSTANTS new, moved, Depth

VARIABLES instance, task, phase, rest, wire, node, below, rose, fell, kept

Stack == INSTANCE Wire WITH sent <- below

ASSUME OutboxAssumption /\ Stack!WireAssumption

JidOf(n) == IF n = new THEN moved ELSE n

layers == <<task, phase, rest, wire, node, below, rose, fell, kept>>
all == <<vars, layers, instance>>

\* The variables that do not change have one of their initial values.
MCInit ==
    /\ instance \in {"outbox", "wire"}
    /\ Init /\ Stack!Init
    /\ instance = "outbox" => task = CHOOSE t \in Stack!ServerSends : TRUE
    /\ instance = "wire" => earlier = 0

MCNext ==
    /\ \/ instance = "outbox" /\ Next /\ UNCHANGED layers
       \/ instance = "wire" /\ Stack!Next /\ UNCHANGED vars
    /\ UNCHANGED instance

MCSpec == MCInit /\ [][MCNext]_all

\* Whatever attributes an entity is given, what reads it gets the same.
Survives == Stack!Survives

\* A send gives back every lock it took, whatever the entity holds.
LocksReturned == Stack!LocksReturned

\* Each stanza, up or down, is handled by one of the layers it is offered to.
HandledOnce == Stack!HandledOnce
=============================================================================
