------------------------------ MODULE PreKeys ------------------------------
(***************************************************************************)
(* The one-time prekeys of an account: AxolotlControlLayer, the part of    *)
(* AxolotlManager and SqlPreKeyStore it uses, and the login that depends   *)
(* on them.  Keys the server does not have make the next login passive     *)
(* (no messages are delivered); a passive login uploads them, and the      *)
(* upload's result drops the connection to log in again, actively.         *)
(*                                                                         *)
(* A loss is handled on the thread in YowStack.loop as one detached        *)
(* continuation, which runs control.on_disconnected and then               *)
(* SendLayer.onDisconnected.  Each may call connect, which returns only    *)
(* when the connection it opened is gone; `at' says which one is waiting.  *)
(*                                                                         *)
(* The server and the peers are external.  Each key carries the generation *)
(* that made it, so that a later key with the same id can be told apart.   *)
(***************************************************************************)
EXTENDS Naturals, Sequences, FiniteSets, FiniteSetsExt

CONSTANTS
    Batch,         \* AxolotlManager.COUNT_GEN_PREKEYS
    Threshold,     \* AxolotlManager.THRESHOLD_REGEN
    MaxGen,        \* bound: generations of prekeys in one behaviour
    MaxLosses      \* bound: connections the network loses, and crashes

ASSUME PreKeysAssumption ==
    /\ Batch \in Nat \ {0} /\ Threshold \in 1..Batch
    /\ MaxGen \in Nat \ {0} /\ MaxLosses \in Nat

MaxId == Batch * MaxGen
Key   == [id : 1..MaxId, gen : 1..MaxGen]
Upload == [kind : {"upload"}, keys : SUBSET Key, reboot : BOOLEAN]

VARIABLES
    store,     \* the prekeys table
    sent,      \* those with sent_to_server
    gens,      \* generations made so far
    unsent,    \* AxolotlControlLayer._unsent_prekeys
    passive,   \* PROP_PASSIVE
    reboot,    \* AxolotlControlLayer._reboot_connection
    connected, \* YowNetworkLayer.connected
    login,     \* the login of this connection: "none", "passive", "active"
    at,        \* who waits for the running connect: "loop", "control", "app"
    queue,     \* detached DISCONNECTED continuations
    losses,    \* losses and crashes so far
    outbox,    \* uploads on the wire
    inbox,     \* server messages on the wire
    stock,     \* keys the server can hand out
    issued,    \* keys handed to a peer whose first message has not been read
    known      \* every key the server has ever stored

localVars  == <<store, sent, gens, unsent, passive, reboot>>
netVars    == <<connected, login, at, queue, losses>>
wireVars   == <<outbox, inbox>>
serverVars == <<stock, issued, known>>
vars == <<localVars, netVars, wireVars, serverVars>>

\* What the variables hold.
TypeOK ==
    /\ store \subseteq Key /\ sent \subseteq store /\ gens \in 0..MaxGen
    /\ unsent \subseteq Key
    /\ passive \in BOOLEAN /\ reboot \in BOOLEAN /\ connected \in BOOLEAN
    /\ login \in {"none", "passive", "active"}
    /\ at \in {"loop", "control", "app"}
    /\ queue \in Nat /\ losses \in 0..MaxLosses
    /\ \A i \in DOMAIN outbox : outbox[i] \in Upload
    /\ \A i \in DOMAIN inbox :
          inbox[i].kind \in {"success", "result", "error", "count", "pkmsg"}
    /\ stock \subseteq known /\ issued \subseteq known /\ known \subseteq Key

-----------------------------------------------------------------------------
(* AxolotlManager and its store.                                           *)

\* Mutant of MaxPreKeyId: the rows are counted.
CountPreKeys(keys) == Cardinality(keys)

\* select max(prekey_id): 0 for an empty table.
MaxPreKeyId(keys) == IF keys = {} THEN 0 ELSE Max({k.id : k \in keys})

\* The first n of a new generation, stored row by row, each row committed.
Generated(n) ==
    {[id |-> MaxPreKeyId(store) + i, gen |-> gens + 1] : i \in 1..n}

\* The keys level_prekeys(force) adds, and the table after it.
Levelled(force) ==
    IF force \/ Cardinality(store) < Threshold THEN Generated(Batch) ELSE {}

\* set_prekeys_as_sent: an update of the rows with these ids, whichever key
\* they hold.
MarkedSent(keys) == sent \cup {k \in store : \E j \in keys : j.id = k.id}

-----------------------------------------------------------------------------
Init ==
    /\ store = {} /\ sent = {} /\ gens = 0
    /\ unsent = {} /\ passive = FALSE /\ reboot = FALSE
    /\ connected = FALSE /\ login = "none" /\ at = "loop"
    /\ queue = 1           \* the first connect needs no loss before it
    /\ losses = 0
    /\ outbox = <<>> /\ inbox = <<>>
    /\ stock = {} /\ issued = {} /\ known = {}

\* on_connected, and the login that follows it with PROP_PASSIVE.
OnConnected(flag) ==
    LET new == Levelled(FALSE) IN
    /\ store' = store \cup new
    /\ gens' = IF new = {} THEN gens ELSE gens + 1
    /\ unsent' = unsent \cup ((store \cup new) \ sent)
    /\ passive' = (flag \/ unsent' # {})
    /\ connected' = TRUE
    /\ inbox' = <<[kind |-> "success"]>>
    /\ UNCHANGED <<sent, login, losses, outbox, serverVars>>

\* Mutant of Reboot: PROP_PASSIVE is not reset.
RebootPassive ==
    /\ ~connected /\ at = "loop" /\ queue > 0 /\ reboot
    /\ queue' = queue - 1 /\ reboot' = FALSE /\ at' = "control"
    /\ OnConnected(passive)

\* YowStack.loop runs a continuation.  control.on_disconnected connects only
\* after a reboot was asked for ...
Reboot ==
    /\ ~connected /\ at = "loop" /\ queue > 0 /\ reboot
    /\ queue' = queue - 1 /\ reboot' = FALSE /\ at' = "control"
    /\ OnConnected(FALSE)

\* ... and SendLayer.onDisconnected always does, in that same continuation,
\* once the connection of the reboot is gone.
Reconnect ==
    /\ ~connected
    /\ \/ at = "control" /\ UNCHANGED queue
       \/ at = "loop" /\ queue > 0 /\ ~reboot /\ queue' = queue - 1
    /\ at' = "app" /\ UNCHANGED reboot
    /\ OnConnected(passive)

\* The continuation has returned.
Return ==
    /\ ~connected /\ at = "app"
    /\ at' = "loop"
    /\ UNCHANGED <<localVars, connected, login, queue, losses, wireVars,
                   serverVars>>

\* The socket closes: what is on the wire is lost, the event is queued.
Close ==
    /\ connected' = FALSE /\ login' = "none" /\ queue' = queue + 1
    /\ outbox' = <<>> /\ inbox' = <<>>
    /\ UNCHANGED at

Lose ==
    /\ connected /\ losses < MaxLosses /\ losses' = losses + 1
    /\ Close
    /\ UNCHANGED <<localVars, serverVars>>

\* The process dies, also between two rows of a generation it is storing, and
\* is started again.
Crash ==
    /\ losses < MaxLosses /\ losses' = losses + 1
    /\ \E n \in 0..(Batch - 1) :
          /\ n > 0 => gens + 1 < MaxGen
          /\ store' = store \cup Generated(n)
          /\ gens' = IF n = 0 THEN gens ELSE gens + 1
    /\ unsent' = {} /\ passive' = FALSE /\ reboot' = FALSE
    /\ connected' = FALSE /\ login' = "none" /\ queue' = 1 /\ at' = "loop"
    /\ outbox' = <<>> /\ inbox' = <<>>
    /\ UNCHANGED <<sent, serverVars>>

-----------------------------------------------------------------------------
(* Messages the control layer handles, in the order the server sent them.  *)

Receives(kind) == connected /\ inbox # <<>> /\ Head(inbox).kind = kind

FlushKeys(keys, rebooting) ==
    outbox' = Append(outbox, [kind |-> "upload", keys |-> keys,
                              reboot |-> rebooting])

\* Mutant of OnAuthed: the keys are marked when they are sent off.
OnAuthedMarks ==
    /\ Receives("success") /\ inbox' = Tail(inbox)
    /\ login' = IF passive THEN "passive" ELSE "active"
    /\ IF passive /\ unsent # {}
       THEN FlushKeys(unsent, TRUE) /\ unsent' = {} /\ sent' = MarkedSent(unsent)
       ELSE UNCHANGED <<outbox, unsent, sent>>
    /\ UNCHANGED <<store, gens, passive, reboot, connected, at, queue,
                   losses, serverVars>>

\* Mutant of OnAuthed: the list is emptied, nothing is uploaded.
OnAuthedForgets ==
    /\ Receives("success") /\ inbox' = Tail(inbox)
    /\ login' = IF passive THEN "passive" ELSE "active"
    /\ unsent' = {}
    /\ UNCHANGED <<store, sent, gens, passive, reboot, connected, at, queue,
                   losses, outbox, serverVars>>

\* onAuthed: a passive login uploads what on_connected loaded.
OnAuthed ==
    /\ Receives("success") /\ inbox' = Tail(inbox)
    /\ login' = IF passive THEN "passive" ELSE "active"
    /\ IF passive /\ unsent # {}
       THEN FlushKeys(unsent, TRUE) /\ unsent' = {}
       ELSE UNCHANGED <<outbox, unsent>>
    /\ UNCHANGED <<store, sent, gens, passive, reboot, connected, at, queue,
                   losses, serverVars>>

\* Mutant of OnRequestKeys: the new generation replaces the table.
OnRequestKeysReplaces ==
    /\ Receives("count") /\ inbox' = Tail(inbox)
    /\ store' = Levelled(TRUE) /\ gens' = gens + 1 /\ sent' = {}
    /\ FlushKeys(Levelled(TRUE), FALSE)
    /\ UNCHANGED <<unsent, passive, reboot, netVars, serverVars>>

\* onRequestKeysEncryptNotification: a new generation, uploaded at once.
OnRequestKeys ==
    /\ Receives("count") /\ inbox' = Tail(inbox)
    /\ store' = store \cup Levelled(TRUE) /\ gens' = gens + 1
    /\ FlushKeys(Levelled(TRUE), FALSE)
    /\ UNCHANGED <<sent, unsent, passive, reboot, netVars, serverVars>>

\* on_keys_flushed: a reboot closes the connection after the flag is set.
OnKeysFlushed ==
    /\ Receives("result")
    /\ sent' = MarkedSent(Head(inbox).keys)
    /\ IF Head(inbox).reboot
       THEN reboot' = TRUE /\ Close
       ELSE /\ inbox' = Tail(inbox)
            /\ UNCHANGED <<reboot, connected, login, at, queue, outbox>>
    /\ UNCHANGED <<store, gens, unsent, passive, losses, serverVars>>

\* onSentKeysError only logs.
OnSentKeysError ==
    /\ Receives("error") /\ inbox' = Tail(inbox)
    /\ UNCHANGED <<localVars, netVars, outbox, serverVars>>

\* Mutant of OnPreKeyMessage: the row goes, its sent flag stays.
OnPreKeyMessageFlag ==
    /\ Receives("pkmsg") /\ inbox' = Tail(inbox)
    /\ LET k == Head(inbox).key IN
       store' = store \ {k} /\ issued' = issued \ {k}
    /\ UNCHANGED <<sent, gens, unsent, passive, reboot, netVars, outbox, stock,
                   known>>

\* decrypt_pkmsg by key id: a key that is not the one the peer used fails.
OnPreKeyMessage ==
    /\ Receives("pkmsg") /\ inbox' = Tail(inbox)
    /\ LET k == Head(inbox).key IN
       /\ store' = store \ {k} /\ sent' = sent \ {k}
       /\ issued' = issued \ {k}
    /\ UNCHANGED <<gens, unsent, passive, reboot, netVars, outbox, stock, known>>

-----------------------------------------------------------------------------
(* The server and the peers (external).                                    *)

\* An upload is stored before its result is sent.  A public key the server
\* has had before is not stocked again.
ServerUpload ==
    /\ outbox # <<>> /\ outbox' = Tail(outbox)
    /\ LET u == Head(outbox) IN
       \/ /\ stock' = {k \in stock : \A j \in u.keys : j.id # k.id}
                      \cup (u.keys \ (known \ stock))
          /\ known' = known \cup u.keys
          /\ inbox' = Append(inbox, [kind |-> "result", keys |-> u.keys,
                                     reboot |-> u.reboot])
       \/ /\ inbox' = Append(inbox, [kind |-> "error"])
          /\ UNCHANGED <<stock, known>>
    /\ UNCHANGED <<localVars, netVars, issued>>

ServerAsks ==
    /\ login # "none"
    /\ gens < MaxGen /\ \A i \in DOMAIN inbox : inbox[i].kind # "count"
    /\ inbox' = Append(inbox, [kind |-> "count"])
    /\ UNCHANGED <<localVars, netVars, outbox, serverVars>>

\* A peer fetches a bundle.  The bound on generations is kept here: enough
\* keys remain for level_prekeys not to need a generation beyond MaxGen.
HandOut ==
    /\ gens < MaxGen \/ Cardinality(store \ issued) > Threshold
    /\ \E k \in stock : stock' = stock \ {k} /\ issued' = issued \cup {k}
    /\ UNCHANGED <<localVars, netVars, wireVars, known>>

\* ... and its first message reaches the account, by an active login.
Deliver ==
    /\ login = "active"
    /\ \E k \in issued :
          /\ \A i \in DOMAIN inbox : inbox[i] # [kind |-> "pkmsg", key |-> k]
          /\ inbox' = Append(inbox, [kind |-> "pkmsg", key |-> k])
    /\ UNCHANGED <<localVars, netVars, outbox, serverVars>>

-----------------------------------------------------------------------------
Handle ==
    \/ OnAuthed \/ OnRequestKeys \/ OnKeysFlushed \/ OnSentKeysError
    \/ OnPreKeyMessage

Next ==
    \/ Reboot \/ Reconnect \/ Return \/ Handle
    \/ Lose \/ Crash
    \/ ServerUpload \/ ServerAsks \/ HandOut \/ Deliver

Spec == Init /\ [][Next]_vars

\* The bot's thread runs and the server answers uploads; nothing else has to
\* happen.
FairSpec ==
    /\ Spec
    /\ WF_vars(Reboot) /\ WF_vars(Reconnect) /\ WF_vars(Return)
    /\ WF_vars(Handle) /\ WF_vars(ServerUpload)

-----------------------------------------------------------------------------
(* Properties.                                                             *)

\* Ids are taken above the largest one in the table, so the id of a removed
\* key is used again; but never beside the old key.
UniqueIds == TypeOK /\ \A j, k \in store : j.id = k.id => j = k

\* Every key a peer can hold and has not used is still in the table: no
\* generation, restart or repeated upload takes it away or replaces it.
ServerKeysUsable == stock \cup issued \subseteq store

\* A key is only marked as sent when the server has stored it, whatever was
\* lost on the way: a key marked too early is never uploaded again.
SentWasStored == sent \subseteq known

\* A server that accepts every upload, and asks for keys on active logins.
Accommodating ==
    \A i \in DOMAIN inbox :
        inbox[i].kind # "error" /\ (inbox[i].kind = "count" => login # "passive")

\* Keys do not stay on this side: once the link holds, such a server gets them.
UploadsKeys ==
    []Accommodating => ((store \ sent # {}) ~> (store \subseteq sent))

\* ... and a passive login is only a detour: the account comes to log in
\* actively.
BecomesActive == []Accommodating => []<>(login = "active")
=============================================================================
