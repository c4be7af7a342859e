----------------------------- MODULE MCSending -----------------------------
(***************************************************************************)
(* The layer that encrypts sends messages to groups, GroupKeys, and to     *)
(* contacts, Retries: of those two, a behaviour has the one its instance   *)
(* names, for they share only the room in the queue of sent messages.      *)
(***************************************************************************)
EXTENDS GroupKeys

CONSTANTS Device, MaxSent, MaxBad, MaxErrors, Room, MaxRetries

VARIABLES
    nextSent, queue, calls, gen, works, gone, bad, inbox, ignored, toDevice,
    has, pending, waits, retries, opened, gaveUp, errors, failed,
    instance   \* "groups" or "contacts"

Contacts ==
    INSTANCE Retries
        WITH MaxMsg <- MaxSent, QueueSize <- Room, nextId <- nextSent,
             sentQueue <- queue, network <- toDevice, got <- opened

ASSUME ContactsAssumption == Contacts!RetriesAssumption

contacts ==
    <<nextSent, queue, calls, gen, works, gone, bad, inbox, ignored, toDevice,
      has, pending, waits, retries, opened, gaveUp, errors, failed>>
all == <<vars, contacts, instance>>

MCInit == Init /\ Contacts!Init /\ instance \in {"groups", "contacts"}

MCNext ==
    /\ UNCHANGED instance
    /\ \/ instance = "groups" /\ Next /\ UNCHANGED contacts
       \/ instance = "contacts" /\ Contacts!Next /\ UNCHANGED vars

MCSpec == MCInit /\ [][MCNext]_all /\ Contacts!Fairness

\* A request for a retry finds its message.
RetryServed == Contacts!RetryServed

\* A message that was sent is decrypted or given up, or a question of it failed.
Settles == Contacts!Settles
=============================================================================
