------------------------------ MODULE Commands ------------------------------
(***************************************************************************)
(* Commands of the bot.  A caller's thread runs callDirect, which sends a  *)
(* request and enters its id in cmdEventMap, then waits in getCmdResult;   *)
(* Net, the network thread, hears the answer, finds the layer that passes  *)
(* it up and the callback or handler it belongs to, and sets the result.   *)
(*                                                                         *)
(* Between them lie iqRegistry, the map, which no lock protects, and the   *)
(* lock that toLower of the topmost layer holds while a stanza goes down.  *)
(* A call is named by its number, and so is its request.                   *)
(***************************************************************************)
EXTENDS Naturals, FiniteSets

CONSTANTS
    Commands,   \* names of commands called, out of Known
    MaxCalls,   \* bound: calls
    MaxLosses,  \* bound: connections lost
    MaxRaises   \* bound: exceptions in the layers below

Call == 1..MaxCalls
JustWait == 0               \* the key under which "JUSTWAIT" is entered
Nobody == MaxCalls + 1      \* the lock is free, or held by one of Call, or ...
Net == MaxCalls + 2
Lost == MaxCalls + 3        \* ... by a thread that left it

-----------------------------------------------------------------------------
(* The commands: how each sends its request and what becomes of an answer. *)

\* Sent with _sendIq and callbacks, under the name of their request's answer.
Registered ==
    [sync |-> "usync", join |-> "group", trust |-> "none", setname |-> "verified_name",
     create |-> "group", getinvite |-> "invite", leave |-> "leave",
     getavatar |-> "picture url", info |-> "group", list |-> "groups", add |-> "add",
     sendmedia |-> "media_conn"]

\* Sent with toLower alone.
Lowered ==
    [set2fa |-> "none", setavatar |-> "picture", promote |-> "promote",
     demote |-> "demote", remove |-> "remove", seticon |-> "picture",
     mdremove |-> "none", getemail |-> "email", verifyemail |-> "verify_email",
     verifycode |-> "none", approve |-> "membership_requests_action"]

\* No answer of theirs is looked at: messages, and a name that needs no server.
Unanswered == {"send", "revoke", "edit", "ownname"}

Known == DOMAIN Registered \cup DOMAIN Lowered \cup Unanswered
ASSUME CommandsAssumption ==
    Commands \subseteq Known /\ {MaxCalls, MaxLosses, MaxRaises} \subseteq Nat

\* What callDirect gets from the command's function: a request's id, nothing,
\* or the word that tells the caller just to wait.
Returned(k) ==
    CASE k \in {"send", "sendmedia", "revoke", "edit"} -> "JUSTWAIT"
      [] k = "approve" -> "None"
      [] OTHER -> "id"

Tag(k) == IF k \in DOMAIN Registered THEN Registered[k] ELSE Lowered[k]

\* recvIq of the iq layer: the class it passes up, if any, for a first child.
\* Results for groups and contacts are left to their layers.
IqLayer(tag) ==
    CASE tag \in {"none", "verified_name", "media_conn"} -> {"ResultIq"}
      [] tag \in {"email", "verify_email", "picture url"} -> {"other"}
      [] tag = "picture" -> {"SetPicture"}
      [] OTHER -> {}

\* recvIq of the groups layer: a result, or a class derived from it.
GroupsLayer(tag) ==
    IF tag \in {"groups", "group", "add", "remove", "promote", "demote", "leave",
                "invite", "membership_requests_action"}
    THEN {"ResultIq"} ELSE {}

\* recvIq of the contacts layer.
ContactsLayer(tag) == IF tag = "usync" THEN {"other"} ELSE {}

\* The media layer keeps a registry of its own and passes the answer up again.
MediaLayer(tag) == IF tag = "media_conn" THEN {"ResultIq"} ELSE {}

Layer == {"iq", "contacts", "groups", "media"}      \* in the order they are asked
PassedUp(l, tag) ==
    CASE l = "iq" -> IqLayer(tag) [] l = "contacts" -> ContactsLayer(tag)
      [] l = "groups" -> GroupsLayer(tag) [] l = "media" -> MediaLayer(tag)
\* Errors go up from the iq layer alone (and the media layer for its own).
ErrorUp(l, k) == l = "iq" \/ (l = "media" /\ k = "sendmedia")

\* The success callbacks that set a result, the error callbacks that set one,
\* and onIq for what no callback took.
OnSuccess(k) == k \in DOMAIN Registered /\ k # "sendmedia"
OnError(k) == k \in {"getavatar", "info", "list", "add"}
OnIq(class) == class \in {"ResultIq", "SetPicture"}

-----------------------------------------------------------------------------
VARIABLES
    connected, losses, raises,
    cmd,            \* the command of each call
    at,             \* where each caller is
    registry,       \* calls in iqRegistry of the topmost layer
    lock,           \* who holds the lock of its toLower
    wire,           \* <<call, type>>: answers under way to Net
    entry,          \* cmdEventMap: what stands under each key
    orphan,         \* calls waiting for an event that was replaced in the map
    net,            \* what Net is doing: a record, "call" 0 when nothing
    answer,         \* what each caller got
    heard,          \* <<call, type>>: results and errors that Net has dealt with
    raced           \* calls for which Net and callDirect looked into the map
                    \* before either wrote, or whose error came before the entry

caller == <<cmd, at>>
map == <<entry, orphan>>
history == <<heard, raced>>
link == <<connected, losses, raises>>
vars == <<link, caller, registry, lock, wire, map, net, answer, history>>

Idle == [call |-> 0, type |-> "none", layers |-> {}, found |-> FALSE, at |-> "idle"]

Init ==
    /\ connected = TRUE /\ losses = 0 /\ raises = 0
    /\ cmd \in [Call -> {CHOOSE k \in Commands : TRUE}]
    /\ at = [c \in Call |-> "idle"] /\ answer = [c \in Call |-> "none"]
    /\ registry = {} /\ lock = Nobody /\ wire = {} /\ net = Idle
    /\ entry = [c \in {JustWait} \cup Call |-> "none"] /\ orphan = {}
    /\ heard = {} /\ raced = {}

Goto(c, place) == at' = [at EXCEPT ![c] = place]
Key(c) == IF Returned(cmd[c]) = "JUSTWAIT" THEN JustWait ELSE c

-----------------------------------------------------------------------------
(* The caller: callDirect and _run_command.                                *)

\* The command's function: _sendIq registers the request, setSelfName of a
\* private account sets its result itself, and then toLower.
Run(c, k) ==
    /\ at[c] = "idle" /\ \A b \in Call : b < c => at[b] # "idle"
    /\ cmd' = [cmd EXCEPT ![c] = k]
    /\ registry' = IF k \in DOMAIN Registered THEN registry \cup {c} ELSE registry
    /\ entry' = IF k = "ownname" THEN [entry EXCEPT ![c] = "result"] ELSE entry
    /\ Goto(c, IF k = "ownname" THEN "check" ELSE "lower")
    /\ UNCHANGED <<link, lock, wire, orphan, net, answer, history>>

TakeLock(c) ==
    /\ at[c] = "lower" /\ lock = Nobody /\ lock' = c /\ Goto(c, "send")
    /\ UNCHANGED <<link, cmd, registry, wire, map, net, answer, history>>

\* Mutant of Send: without a connection the lock is not released.
SendKeepsLock(c) ==
    /\ at[c] = "send" /\ lock' = IF connected THEN Nobody ELSE c
    /\ \E type \in {"result", "error"} :
          wire' = IF connected /\ cmd[c] \notin Unanswered
                  THEN wire \cup {<<c, type>>} ELSE wire
    /\ Goto(c, "check")
    /\ UNCHANGED <<link, cmd, registry, map, net, answer, history>>

\* The request goes down through every layer, out when there is a connection.
Send(c) ==
    /\ at[c] = "send" /\ lock' = Nobody
    /\ \E type \in {"result", "error"} :
          wire' = IF connected /\ cmd[c] \notin Unanswered
                  THEN wire \cup {<<c, type>>} ELSE wire
    /\ Goto(c, "check")
    /\ UNCHANGED <<link, cmd, registry, map, net, answer, history>>

\* A layer below raises: the lock is not released.
SendRaises(c) ==
    /\ at[c] = "send" /\ raises < MaxRaises /\ raises' = raises + 1
    /\ lock' = Lost /\ Goto(c, "end") /\ answer' = [answer EXCEPT ![c] = "raised"]
    /\ UNCHANGED <<connected, losses, cmd, registry, wire, map, net, history>>

\* Mutant of Check: the entry is made in any case.
CheckNothing(c) ==
    /\ at[c] = "check" /\ Goto(c, "enter")
    /\ raced' = IF net.call = c /\ net.at = "set" THEN raced \cup {c} ELSE raced
    /\ UNCHANGED <<link, cmd, registry, lock, wire, map, net, answer, heard>>

\* callDirect: "if cmdId not in cmdEventMap" ...
Check(c) ==
    /\ at[c] = "check"
    /\ Goto(c, IF entry[Key(c)] = "none" THEN "enter" ELSE "fetch")
    /\ raced' = IF net.call = c /\ net.at = "set" THEN raced \cup {c} ELSE raced
    /\ UNCHANGED <<link, cmd, registry, lock, wire, map, net, answer, heard>>

\* ... and the entry, in place of whatever was set in between.
Enter(c) ==
    /\ at[c] = "enter" /\ Goto(c, "fetch")
    /\ entry' = [entry EXCEPT ![Key(c)] = "open"]
    /\ UNCHANGED <<link, cmd, registry, lock, wire, orphan, net, answer, history>>

\* Without an id to wait for the call is over, else getCmdResult takes the
\* entry's event and waits for it.
Fetch(c) ==
    /\ at[c] = "fetch"
    /\ IF Returned(cmd[c]) = "id"
       THEN Goto(c, "wait") /\ UNCHANGED answer
       ELSE Goto(c, "end") /\ answer' = [answer EXCEPT ![c] = "returned"]
    /\ UNCHANGED <<link, cmd, registry, lock, wire, map, net, history>>

Set(c) == c \notin orphan /\ entry[c] \in {"result", "error"}

\* The event is set: the entry is deleted.
Get(c) ==
    /\ at[c] = "wait" /\ Set(c)
    /\ answer' = [answer EXCEPT ![c] = entry[c]] /\ Goto(c, "end")
    /\ entry' = [entry EXCEPT ![c] = "none"]
    /\ UNCHANGED <<link, cmd, registry, lock, wire, orphan, net, history>>

\* It is not: the entry stays.
Timeout(c) ==
    /\ at[c] = "wait" /\ ~Set(c)
    /\ answer' = [answer EXCEPT ![c] = "timeout"] /\ Goto(c, "end")
    /\ UNCHANGED <<link, cmd, registry, lock, wire, map, net, history>>

CallStep(c) ==
    \/ TakeLock(c) \/ Send(c) \/ SendRaises(c) \/ Check(c) \/ Enter(c)
    \/ Fetch(c) \/ Get(c) \/ Timeout(c)

-----------------------------------------------------------------------------
(* Net.                                                                    *)

\* The layers that pass this answer up.
Passing(k, type) ==
    {l \in Layer : IF type = "error" THEN ErrorUp(l, k) ELSE PassedUp(l, Tag(k)) # {}}

Hear(c, type) ==
    /\ net.at = "idle" /\ <<c, type>> \in wire /\ wire' = wire \ {<<c, type>>}
    /\ net' = [Idle EXCEPT !.call = c, !.type = type, !.at = "up",
                           !.layers = Passing(cmd[c], type)]
    /\ UNCHANGED <<link, caller, registry, lock, map, answer, history>>

\* Net is done with one layer's answer, and perhaps with all.
NextLayer(ls) == IF ls = {} THEN Idle ELSE [net EXCEPT !.layers = ls, !.at = "up"]
Done(c, ls) == heard' = IF ls = {} THEN heard \cup {<<c, net.type>>} ELSE heard

\* processIqRegistry of the topmost layer, or onIq: is there a result to set?
Sets(c, l) ==
    IF c \in registry
    THEN IF net.type = "result" THEN OnSuccess(cmd[c]) ELSE OnError(cmd[c])
    ELSE net.type = "error" \/ \E class \in PassedUp(l, Tag(cmd[c])) : OnIq(class)

\* The iq layer is asked before the others.  A registered request is taken out
\* by the first answer that comes up.
Dispatch(l) ==
    LET c == net.call IN
    /\ net.at = "up" /\ l \in net.layers /\ ("iq" \in net.layers => l = "iq")
    /\ registry' = registry \ {c}
    /\ LET rest == net.layers \ {l} IN
       IF Sets(c, l)
       THEN net' = [net EXCEPT !.layers = rest, !.at = "check"] /\ UNCHANGED heard
       ELSE net' = NextLayer(rest) /\ Done(c, rest)
    /\ UNCHANGED <<link, caller, lock, wire, map, answer, raced>>

\* setCmdResult and setCmdError: "if cmdId in cmdEventMap" ...
NetCheck ==
    LET c == net.call IN
    /\ net.at = "check"
    /\ net' = [net EXCEPT !.found = entry[c] # "none", !.at = "set"]
    /\ raced' = IF at[c] = "enter" \/ (net.type = "error" /\ entry[c] = "none")
                THEN raced \cup {c} ELSE raced
    /\ UNCHANGED <<link, caller, registry, lock, wire, map, answer, heard>>

\* ... and the setting: of the entry found, or a result as an entry of its own
\* in place of one made meanwhile.  An error without an entry is dropped.
NetSet ==
    LET c == net.call IN
    /\ net.at = "set"
    /\ entry' = IF net.found \/ net.type = "result"
                THEN [entry EXCEPT ![c] = net.type] ELSE entry
    /\ orphan' = IF ~net.found /\ net.type = "result" /\ at[c] = "wait"
                 THEN orphan \cup {c} ELSE orphan
    /\ net' = NextLayer(net.layers) /\ Done(c, net.layers)
    /\ UNCHANGED <<link, caller, registry, lock, wire, answer, raced>>

\* A stanza that Net must acknowledge needs the lock as well; what matters is
\* that it never gets it.
NetAck ==
    /\ net.at = "idle" /\ lock = Lost
    /\ net' = [Idle EXCEPT !.at = "blocked"]
    /\ UNCHANGED <<link, caller, registry, lock, wire, map, answer, history>>

Disconnect ==
    /\ net.at = "idle" /\ connected /\ losses < MaxLosses /\ losses' = losses + 1
    /\ connected' = FALSE /\ wire' = {}
    /\ UNCHANGED <<raises, caller, registry, lock, map, net, answer, history>>

Reconnect ==
    /\ net.at = "idle" /\ ~connected /\ connected' = TRUE
    /\ UNCHANGED <<losses, raises, caller, registry, lock, wire, map, net, answer, history>>

NetStep == (\E l \in Layer : Dispatch(l)) \/ NetCheck \/ NetSet

Next ==
    \/ \E c \in Call :
          \/ \E k \in Commands : Run(c, k)
          \/ CallStep(c)
          \/ \E type \in {"result", "error"} : Hear(c, type)
    \/ NetStep \/ NetAck \/ Disconnect \/ Reconnect

Spec == Init /\ [][Next]_vars

\* Threads run on, and a wait ends at its timeout.
FairSpec == Spec /\ WF_vars(NetStep) /\ \A c \in Call : WF_vars(CallStep(c))

-----------------------------------------------------------------------------
(* Properties.                                                             *)

\* Does an answer of this type set anything for the command?
Tells(k, type) ==
    IF k \in DOMAIN Registered THEN IF type = "result" THEN OnSuccess(k) ELSE OnError(k)
    ELSE type = "error" \/ k \notin {"getemail", "verifyemail"}

\* What a command's answer says gets into the caller's entry, in time or late,
\* through registry and layers, with two exceptions: both threads looked for the
\* entry before either made it, or an error came before it was made.
ResultNotLost ==
    \A c \in Call : \A type \in {"result", "error"} :
        <<c, type>> \in heard /\ Tells(cmd[c], type) =>
            (answer[c] = "timeout" /\ entry[c] = "open" => c \in raced)

\* Every call comes to an end, whatever is lost, as long as no exception has
\* left the lock behind.
CallsEnd == \A c \in Call : (at[c] # "idle") ~> (at[c] = "end" \/ lock = Lost)
=============================================================================
