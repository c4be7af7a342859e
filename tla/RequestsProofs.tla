---------------------------- MODULE RequestsProofs ----------------------------
(***************************************************************************)
(* Proofs about the waits for answers, for any commands, calls, pings and  *)
(* connections: what an answer says gets into its caller's entry but for   *)
(* the two races of the map, and a ping thread ends only a connection that *)
(* does not answer its pings.                                              *)
(***************************************************************************)
EXTENDS MCRequests, FiniteSetTheorems, TLAPS

Type == {"result", "error"}
Unsent == {"idle", "lower", "send"}
Places == Unsent \cup {"check", "enter", "fetch", "wait", "end"}
Activity ==
    [call : {0} \cup Call, type : Type \cup {"none"}, layers : SUBSET Layer,
     found : BOOLEAN, at : {"idle", "up", "check", "set", "blocked"}]

Busy == net.at \in {"up", "check", "set"}
CallTypes ==
    /\ cmd \in [Call -> Commands \cup {CHOOSE k \in Commands : TRUE}]
    /\ at \in [Call -> Places]
    /\ answer \in [Call -> Type \cup {"none", "raised", "returned", "timeout"}]
    /\ registry \subseteq Call /\ wire \subseteq Call \X Type
    /\ entry \in [{JustWait} \cup Call -> Type \cup {"none", "open"}]
    /\ net \in Activity /\ (Busy => net.call \in Call /\ net.type \in Type)
    /\ heard \subseteq Call \X Type

Heard(c) == \E type \in Type : <<c, type>> \in heard
Coming(c) == \E type \in Type : <<c, type>> \in wire

\* A call has one answer at most, and only once it was sent: under way, or in Net's
\* hands, or heard.
OneAnswer ==
    /\ \A c \in Call : at[c] # "idle" => cmd[c] \in Commands
    /\ ~Busy => net.call = 0
    /\ \A c \in Call : Heard(c) \/ Coming(c) \/ net.call = c =>
          at[c] \notin Unsent /\ cmd[c] \notin Unanswered
    /\ \A c \in Call : \A s, t \in Type : <<c, s>> \in wire /\ <<c, t>> \in wire => s = t
    /\ \A c \in Call : Coming(c) => ~Heard(c) /\ net.call # c
    /\ Busy => ~Heard(net.call)

\* A registered request stands in the registry until an answer that says something
\* was dispatched.
Kept ==
    /\ \A c \in registry : cmd[c] \in DOMAIN Registered /\ at[c] # "idle"
    /\ \A c \in Call :
          /\ cmd[c] \in DOMAIN Registered
          /\ \/ at[c] \in {"lower", "send"} \/ Coming(c)
             \/ net.call = c /\ net.at = "up" /\ Tells(cmd[c], net.type)
          => c \in registry

\* One layer passes such an answer up, and nothing is left to do after it.
Routed ==
    \A c \in Call : net.call = c /\ Tells(cmd[c], net.type) =>
        /\ net.at = "up" => net.layers = Passing(cmd[c], net.type)
        /\ net.at \in {"check", "set"} => net.layers = {}

\* The two races of the map are on record before Net sets the result.
RacesKnown ==
    net.at = "set" =>
        /\ at[net.call] = "enter" => net.call \in raced
        /\ ~net.found /\ net.type = "error" => net.call \in raced

\* What was heard stands in the entry until the caller gets it.
Told(c) == \E type \in Type : <<c, type>> \in heard /\ Tells(cmd[c], type)
ToldInMap ==
    \A c \in Call : Told(c) =>
        \/ c \in raced
        \/ entry[c] \in Type /\ at[c] # "enter"
        \/ at[c] = "end" /\ answer[c] # "timeout"

CallInv == CallTypes /\ OneAnswer /\ Kept /\ Routed /\ RacesKnown /\ ToldInMap

-----------------------------------------------------------------------------
(* Answers.                                                                *)

LEMMA OnePasses ==
    ASSUME NEW k \in Known \ Unanswered, NEW type \in Type, Tells(k, type)
    PROVE  \E l \in Layer :
              /\ Passing(k, type) = {l}
              /\ k \notin DOMAIN Registered /\ type = "result" =>
                    \E class \in PassedUp(l, Tag(k)) : OnIq(class)
<1> USE DEF Layer, Type
<1>1. CASE type = "error"
  <2>1. k # "sendmedia"
        BY <1>1 DEF Tells, Registered, OnError
  <2>2. \A l \in Layer : ErrorUp(l, k) <=> l = "iq"
        BY <2>1 DEF ErrorUp
  <2>3. Passing(k, type) = {"iq"}
        BY <1>1, <2>2 DEF Passing
  <2>4. QED
        BY <1>1, <2>3
<1>2. CASE type = "result"
  <2> USE DEF PassedUp, IqLayer, GroupsLayer, ContactsLayer, MediaLayer, OnIq
  <2>1. CASE Tag(k) \in {"group", "groups", "invite", "leave", "add", "promote", "demote",
                         "remove", "membership_requests_action"}
        BY <1>2, <2>1 DEF Passing
  <2>2. CASE Tag(k) \in {"none", "verified_name", "picture"}
        BY <1>2, <2>2 DEF Passing
  <2>3. CASE Tag(k) \in {"usync", "picture url"} /\ k \in DOMAIN Registered
        BY <1>2, <2>3 DEF Passing
  <2>4. k \in DOMAIN Registered => k # "sendmedia"
        BY <1>2 DEF Tells, OnSuccess
  <2>5. ASSUME k \in DOMAIN Registered
        PROVE  Tag(k) \in {"group", "groups", "invite", "leave", "add", "none",
                           "verified_name", "usync", "picture url"}
    <3>1. Tag(k) = Registered[k]
          BY <2>5 DEF Tag
    <3>2. k \in {"sync", "join", "trust", "setname", "create", "getinvite", "leave",
                 "getavatar", "info", "list", "add"}
          BY <2>4, <2>5 DEF Registered
    <3>3. /\ Registered["join"] = "group" /\ Registered["create"] = "group"
          /\ Registered["info"] = "group"
          /\ Registered["sync"] = "usync" /\ Registered["trust"] = "none"
          /\ Registered["setname"] = "verified_name" /\ Registered["getinvite"] = "invite"
          /\ Registered["leave"] = "leave" /\ Registered["getavatar"] = "picture url"
          /\ Registered["list"] = "groups" /\ Registered["add"] = "add"
          BY DEF Registered
    <3>4. QED
          BY <3>1, <3>2, <3>3, ZenonT(30)
  <2>6. k \notin DOMAIN Registered =>
            k \in DOMAIN Lowered /\ k # "getemail" /\ k # "verifyemail"
        BY <1>2 DEF Tells, Known
  <2>7. k \notin DOMAIN Registered =>
            Tag(k) \in {"none", "picture", "promote", "demote", "remove",
                        "membership_requests_action"}
        BY <2>6 DEF Tag, Lowered
  <2>8. QED
        BY <2>1, <2>2, <2>3, <2>5, <2>7
<1>3. QED
      BY <1>1, <1>2 DEF Type

-----------------------------------------------------------------------------
(* What Net does with an answer in its hands.                              *)

\* Net keeps the answer, at the point and with the layers left ...
Keeps(point, layers) ==
    /\ net'.at = point /\ net'.layers = layers
    /\ net'.call = net.call /\ net'.type = net.type /\ heard' = heard

\* ... or is done with it.
IsDone ==
    /\ net'.at = "idle" /\ net'.call = 0 /\ heard' = heard \cup {<<net.call, net.type>>}

LEMMA DispatchEffect ==
    ASSUME CallTypes, NEW l \in Layer, Dispatch(l)
    PROVE  /\ net.at = "up" /\ l \in net.layers /\ net.call \in Call /\ net.type \in Type
           /\ net' \in Activity
           /\ \/ Sets(net.call, l) /\ Keeps("check", net.layers \ {l})
              \/ ~Sets(net.call, l) /\ net.layers # {l} /\ Keeps("up", net.layers \ {l})
              \/ ~Sets(net.call, l) /\ net.layers = {l} /\ IsDone
<1>1. net.at = "up" /\ l \in net.layers /\ net.call \in Call /\ net.type \in Type
      BY DEF Dispatch, CallTypes, Busy
<1>2. CASE Sets(net.call, l)
  <2>1. net' = [net EXCEPT !.layers = net.layers \ {l}, !.at = "check"] /\ heard' = heard
        BY <1>2 DEF Dispatch
  <2>2. QED
        BY <1>1, <1>2, <2>1 DEF Keeps, CallTypes, Activity
<1>3. CASE ~Sets(net.call, l)
  <2>1. net' = NextLayer(net.layers \ {l}) /\ Done(net.call, net.layers \ {l})
        BY <1>3 DEF Dispatch
  <2>2. CASE net.layers = {l}
    <3>1. net' = Idle /\ heard' = heard \cup {<<net.call, net.type>>}
          BY <2>1, <2>2 DEF NextLayer, Done
    <3>2. QED
          BY <1>1, <1>3, <2>2, <3>1 DEF IsDone, Activity, Idle
  <2>3. CASE net.layers # {l}
    <3>1. net.layers \ {l} # {}
          BY <1>1, <2>3
    <3>2. net' = [net EXCEPT !.layers = net.layers \ {l}, !.at = "up"] /\ heard' = heard
          BY <2>1, <3>1 DEF NextLayer, Done
    <3>3. QED
          BY <1>1, <1>3, <2>3, <3>2 DEF Keeps, CallTypes, Activity
  <2>4. QED
        BY <2>2, <2>3
<1>4. QED
      BY <1>2, <1>3

LEMMA DispatchRest ==
    ASSUME NEW l \in Layer, Dispatch(l)
    PROVE  /\ UNCHANGED <<cmd, at, answer, wire, entry, orphan, raced>>
           /\ registry' = registry \ {net.call}
  BY DEF Dispatch, caller, map

LEMMA SetEffect ==
    ASSUME CallTypes, NetSet
    PROVE  /\ net.at = "set" /\ net.call \in Call /\ net.type \in Type
           /\ net' \in Activity
           /\ \/ net.layers # {} /\ Keeps("up", net.layers)
              \/ net.layers = {} /\ IsDone
<1>1. net.at = "set" /\ net.call \in Call /\ net.type \in Type
      BY DEF NetSet, CallTypes, Busy
<1>2. net' = NextLayer(net.layers) /\ Done(net.call, net.layers)
      BY DEF NetSet
<1>3. CASE net.layers = {}
  <2>1. net' = Idle /\ heard' = heard \cup {<<net.call, net.type>>}
        BY <1>2, <1>3 DEF NextLayer, Done
  <2>2. QED
        BY <1>1, <1>3, <2>1 DEF IsDone, Activity, Idle
<1>4. CASE net.layers # {}
  <2>1. net' = [net EXCEPT !.layers = net.layers, !.at = "up"] /\ heard' = heard
        BY <1>2, <1>4 DEF NextLayer, Done
  <2>2. QED
        BY <1>1, <1>4, <2>1 DEF Keeps, CallTypes, Activity
<1>5. QED
      BY <1>3, <1>4

LEMMA CheckEffect ==
    ASSUME CallTypes, NetCheck
    PROVE  /\ net.at = "check" /\ net.call \in Call /\ net.type \in Type
           /\ net' \in Activity
           /\ Keeps("set", net.layers) /\ net'.found = (entry[net.call] # "none")
  BY DEF NetCheck, Keeps, CallTypes, Activity, Busy

-----------------------------------------------------------------------------
(* The types.                                                              *)

LEMMA CallTypesStep == CallTypes /\ [Next]_vars => CallTypes'
<1> SUFFICES ASSUME CallTypes, [Next]_vars PROVE CallTypes'
    OBVIOUS
<1> USE DEF CallTypes, Places, Unsent, Goto, Busy, link, caller, map, history
<1>1. ASSUME NEW c \in Call, NEW k \in Commands, Run(c, k)
      PROVE CallTypes'
      BY <1>1 DEF Run, Type
<1>2. ASSUME NEW c \in Call, TakeLock(c)
      PROVE CallTypes'
      BY <1>2 DEF TakeLock
<1>3. ASSUME NEW c \in Call, Send(c)
      PROVE CallTypes'
      BY <1>3 DEF Send, Type
<1>4. ASSUME NEW c \in Call, SendRaises(c)
      PROVE CallTypes'
      BY <1>4 DEF SendRaises
<1>5. ASSUME NEW c \in Call, Check(c)
      PROVE CallTypes'
      BY <1>5 DEF Check
<1>6. ASSUME NEW c \in Call, Enter(c)
      PROVE CallTypes'
  <2>1. Key(c) \in {JustWait} \cup Call
        BY DEF Key
  <2>2. QED
        BY <1>6, <2>1 DEF Enter
<1>7. ASSUME NEW c \in Call, Fetch(c)
      PROVE CallTypes'
      BY <1>7 DEF Fetch
<1>8. ASSUME NEW c \in Call, Get(c)
      PROVE CallTypes'
      BY <1>8 DEF Get, Set, Type
<1>9. ASSUME NEW c \in Call, Timeout(c)
      PROVE CallTypes'
      BY <1>9 DEF Timeout
<1>10. ASSUME NEW c \in Call, NEW type \in Type, Hear(c, type)
       PROVE CallTypes'
  <2>1. Passing(cmd[c], type) \subseteq Layer
        BY DEF Passing
  <2>2. net' \in Activity
        BY <1>10, <2>1 DEF Hear, Idle, Activity, Type
  <2>3. net'.call = c /\ net'.type = type
        BY <1>10 DEF Hear, Idle
  <2>4. QED
        BY <1>10, <2>2, <2>3 DEF Hear
<1>11. ASSUME NEW l \in Layer, Dispatch(l)
       PROVE CallTypes'
  <2>1. UNCHANGED <<cmd, at, answer, wire, entry, raced>> /\ registry' \subseteq Call
        BY <1>11, DispatchRest
  <2>2. CASE IsDone
    <3>1. net.call \in Call /\ net.type \in Type /\ net' \in Activity
          BY <1>11, DispatchEffect
    <3>2. QED
          BY <2>1, <2>2, <3>1 DEF IsDone
  <2>3. ASSUME NEW point, Keeps(point, net.layers \ {l})
        PROVE CallTypes'
        BY <1>11, <2>1, <2>3, DispatchEffect DEF Keeps
  <2>4. QED
        BY <1>11, <2>2, <2>3, DispatchEffect
<1>12. ASSUME NetCheck
       PROVE CallTypes'
       BY <1>12, CheckEffect DEF NetCheck, Keeps
<1>13. ASSUME NetSet
       PROVE CallTypes'
  <2>1. entry' \in [{JustWait} \cup Call -> Type \cup {"none", "open"}]
        BY <1>13, SetEffect DEF NetSet
  <2>2. QED
        BY <1>13, <2>1, SetEffect DEF NetSet, Keeps, IsDone
<1>14. ASSUME NetAck
       PROVE CallTypes'
       BY <1>14 DEF NetAck, Idle, Activity, Busy
<1>15. ASSUME Disconnect
       PROVE CallTypes'
       BY <1>15 DEF Disconnect
<1>16. ASSUME Reconnect
       PROVE CallTypes'
       BY <1>16 DEF Reconnect
<1>17. ASSUME UNCHANGED vars
       PROVE CallTypes'
       BY <1>17 DEF vars
<1>18. QED
       BY <1>1, <1>2, <1>3, <1>4, <1>5, <1>6, <1>7, <1>8, <1>9, <1>10, <1>11, <1>12, <1>13, <1>14,
          <1>15, <1>16, <1>17 DEF Next, CallStep, NetStep, Type

-----------------------------------------------------------------------------
(* One answer per call.                                                    *)

LEMMA OneAnswerStep == CallTypes /\ OneAnswer /\ [Next]_vars => OneAnswer'
<1> SUFFICES ASSUME CallTypes, OneAnswer, [Next]_vars PROVE OneAnswer'
    OBVIOUS
<1>0. 0 \notin Call
      BY CommandsAssumption DEF Call
<1> USE DEF CallTypes, OneAnswer, Heard, Coming, Busy, Unsent, Places, Goto, link, caller, map,
            history
<1>1. ASSUME NEW c \in Call, NEW k \in Commands, Run(c, k)
      PROVE OneAnswer'
      BY <1>1 DEF Run
<1>2. ASSUME NEW c \in Call, TakeLock(c)
      PROVE OneAnswer'
      BY <1>2 DEF TakeLock
<1>3. ASSUME NEW c \in Call, Send(c)
      PROVE OneAnswer'
      BY <1>3 DEF Send
<1>4. ASSUME NEW c \in Call, SendRaises(c)
      PROVE OneAnswer'
      BY <1>4 DEF SendRaises
<1>5. ASSUME NEW c \in Call, Check(c)
      PROVE OneAnswer'
      BY <1>5 DEF Check
<1>6. ASSUME NEW c \in Call, Enter(c)
      PROVE OneAnswer'
      BY <1>6 DEF Enter
<1>7. ASSUME NEW c \in Call, Fetch(c)
      PROVE OneAnswer'
      BY <1>7 DEF Fetch
<1>8. ASSUME NEW c \in Call, Get(c)
      PROVE OneAnswer'
      BY <1>8 DEF Get
<1>9. ASSUME NEW c \in Call, Timeout(c)
      PROVE OneAnswer'
      BY <1>9 DEF Timeout
<1>10. ASSUME NEW c \in Call, NEW type \in Type, Hear(c, type)
       PROVE OneAnswer'
       BY <1>10 DEF Hear, Idle
<1>11. ASSUME NEW l \in Layer, Dispatch(l)
       PROVE OneAnswer'
  <2>1. UNCHANGED <<cmd, at, wire>>
        BY <1>11 DEF Dispatch
  <2>2. CASE IsDone
        BY <1>0, <1>11, <2>1, <2>2, DispatchEffect DEF IsDone
  <2>3. CASE \E point \in {"up", "check"} : Keeps(point, net.layers \ {l})
        BY <1>11, <2>1, <2>3, DispatchEffect DEF Keeps
  <2>4. QED
        BY <1>11, <2>2, <2>3, DispatchEffect
<1>12. ASSUME NetCheck
       PROVE OneAnswer'
       BY <1>12, CheckEffect DEF NetCheck, Keeps
<1>13. ASSUME NetSet
       PROVE OneAnswer'
       BY <1>0, <1>13, SetEffect DEF NetSet, Keeps, IsDone
<1>14. ASSUME NetAck
       PROVE OneAnswer'
       BY <1>14, <1>0 DEF NetAck, Idle
<1>15. ASSUME Disconnect
       PROVE OneAnswer'
       BY <1>15 DEF Disconnect
<1>16. ASSUME Reconnect
       PROVE OneAnswer'
       BY <1>16 DEF Reconnect
<1>17. ASSUME UNCHANGED vars
       PROVE OneAnswer'
       BY <1>17 DEF vars
<1>18. QED
       BY <1>1, <1>2, <1>3, <1>4, <1>5, <1>6, <1>7, <1>8, <1>9, <1>10, <1>11, <1>12, <1>13, <1>14,
          <1>15, <1>16, <1>17 DEF Next, CallStep, NetStep, Type

-----------------------------------------------------------------------------
(* The registry, and the way up.                                           *)

LEMMA TellsIsSet ==
    ASSUME CallTypes, OneAnswer, Kept, Routed,
           NEW l \in Layer, Dispatch(l), Tells(cmd[net.call], net.type)
    PROVE  net.layers = {l} /\ Sets(net.call, l)
<1> DEFINE k == cmd[net.call]
<1>1. net.at = "up" /\ l \in net.layers /\ net.call \in Call /\ net.type \in Type
      BY DispatchEffect
<1>2. k \in Known \ Unanswered
      BY <1>1, CommandsAssumption DEF OneAnswer, Unsent
<1>3. net.layers = Passing(k, net.type)
      BY <1>1 DEF Routed
<1>4. /\ net.layers = {l}
      /\ k \notin DOMAIN Registered /\ net.type = "result" =>
            \E class \in PassedUp(l, Tag(k)) : OnIq(class)
      BY <1>1, <1>2, <1>3, OnePasses
<1>5. net.call \in registry <=> k \in DOMAIN Registered
      BY <1>1 DEF Kept
<1>6. Sets(net.call, l)
      BY <1>1, <1>4, <1>5 DEF Sets, Tells, Type
<1>7. QED
      BY <1>4, <1>6

LEMMA KeptStep ==
    CallTypes /\ OneAnswer /\ Kept /\ Routed /\ [Next]_vars => Kept'
<1> SUFFICES ASSUME CallTypes, OneAnswer, Kept, Routed, [Next]_vars
             PROVE  Kept'
    OBVIOUS
<1>0. 0 \notin Call
      BY CommandsAssumption DEF Call
<1> USE DEF CallTypes, OneAnswer, Kept, Coming, Unsent, Places, Goto, link, caller, map, history
<1>1. ASSUME NEW c \in Call, NEW k \in Commands, Run(c, k)
      PROVE Kept'
      BY <1>1 DEF Run
<1>2. ASSUME NEW c \in Call, TakeLock(c)
      PROVE Kept'
      BY <1>2 DEF TakeLock
<1>3. ASSUME NEW c \in Call, Send(c)
      PROVE Kept'
      BY <1>3 DEF Send
<1>4. ASSUME NEW c \in Call, SendRaises(c)
      PROVE Kept'
      BY <1>4 DEF SendRaises
<1>5. ASSUME NEW c \in Call, Check(c)
      PROVE Kept'
      BY <1>5 DEF Check
<1>6. ASSUME NEW c \in Call, Enter(c)
      PROVE Kept'
      BY <1>6 DEF Enter
<1>7. ASSUME NEW c \in Call, Fetch(c)
      PROVE Kept'
  <2>1. at[c] = "fetch" /\ at'[c] \in {"wait", "end"}
        BY <1>7 DEF Fetch
  <2>2. \A b \in Call \ {c} : at'[b] = at[b]
        BY <1>7 DEF Fetch
  <2>3. UNCHANGED <<cmd, registry, wire, net>>
        BY <1>7 DEF Fetch
  <2>4. QED
        BY <2>1, <2>2, <2>3
<1>8. ASSUME NEW c \in Call, Get(c)
      PROVE Kept'
      BY <1>8 DEF Get
<1>9. ASSUME NEW c \in Call, Timeout(c)
      PROVE Kept'
      BY <1>9 DEF Timeout
<1>10. ASSUME NEW c \in Call, NEW type \in Type, Hear(c, type)
       PROVE Kept'
       BY <1>10 DEF Hear, Idle
<1>11. ASSUME NEW l \in Layer, Dispatch(l)
       PROVE Kept'
  <2>1. UNCHANGED <<cmd, at, wire>> /\ registry' = registry \ {net.call}
        BY <1>11 DEF Dispatch
  <2>2. ~(net'.call = net.call /\ net'.at = "up" /\ Tells(cmd[net.call], net'.type))
        BY <1>11, TellsIsSet, DispatchEffect DEF Keeps, IsDone
  <2>3. QED
        BY <1>11, <2>1, <2>2, DispatchEffect DEF Keeps, IsDone
<1>12. ASSUME NetCheck
       PROVE Kept'
       BY <1>12, CheckEffect DEF NetCheck, Keeps
<1>13. ASSUME NetSet
       PROVE Kept'
       BY <1>0, <1>13, SetEffect DEF NetSet, Keeps, IsDone, Routed
<1>14. ASSUME NetAck
       PROVE Kept'
       BY <1>14, <1>0 DEF NetAck, Idle
<1>15. ASSUME Disconnect
       PROVE Kept'
       BY <1>15 DEF Disconnect
<1>16. ASSUME Reconnect
       PROVE Kept'
       BY <1>16 DEF Reconnect
<1>17. ASSUME UNCHANGED vars
       PROVE Kept'
       BY <1>17 DEF vars
<1>18. QED
       BY <1>1, <1>2, <1>3, <1>4, <1>5, <1>6, <1>7, <1>8, <1>9, <1>10, <1>11, <1>12, <1>13, <1>14,
          <1>15, <1>16, <1>17 DEF Next, CallStep, NetStep, Type

LEMMA RoutedStep ==
    CallTypes /\ OneAnswer /\ Kept /\ Routed /\ [Next]_vars => Routed'
<1> SUFFICES ASSUME CallTypes, OneAnswer, Kept, Routed, [Next]_vars
             PROVE  Routed'
    OBVIOUS
<1>0. 0 \notin Call
      BY CommandsAssumption DEF Call
<1> USE DEF OneAnswer, Routed, CallTypes, Unsent, Places, Goto, link, caller, map, history
<1>1. ASSUME NEW c \in Call, NEW k \in Commands, Run(c, k)
      PROVE Routed'
      BY <1>1 DEF Run
<1>2. ASSUME NEW c \in Call, TakeLock(c)
      PROVE Routed'
      BY <1>2 DEF TakeLock
<1>3. ASSUME NEW c \in Call, Send(c)
      PROVE Routed'
      BY <1>3 DEF Send
<1>4. ASSUME NEW c \in Call, SendRaises(c)
      PROVE Routed'
      BY <1>4 DEF SendRaises
<1>5. ASSUME NEW c \in Call, Check(c)
      PROVE Routed'
      BY <1>5 DEF Check
<1>6. ASSUME NEW c \in Call, Enter(c)
      PROVE Routed'
      BY <1>6 DEF Enter
<1>7. ASSUME NEW c \in Call, Fetch(c)
      PROVE Routed'
      BY <1>7 DEF Fetch
<1>8. ASSUME NEW c \in Call, Get(c)
      PROVE Routed'
      BY <1>8 DEF Get
<1>9. ASSUME NEW c \in Call, Timeout(c)
      PROVE Routed'
      BY <1>9 DEF Timeout
<1>10. ASSUME NEW c \in Call, NEW type \in Type, Hear(c, type)
       PROVE Routed'
  <2>1. net'.call = c /\ net'.at = "up" /\ net'.type = type /\ cmd' = cmd
        BY <1>10 DEF Hear, Idle
  <2>2. net'.layers = Passing(cmd[c], type)
        BY <1>10 DEF Hear, Idle
  <2>3. QED
        BY <2>1, <2>2
<1>11. ASSUME NEW l \in Layer, Dispatch(l)
       PROVE Routed'
  <2>1. UNCHANGED cmd
        BY <1>11 DEF Dispatch
  <2>2. CASE IsDone
        BY <1>0, <2>1, <2>2 DEF IsDone
  <2>3. CASE ~IsDone /\ Tells(cmd[net.call], net.type)
    <3>1. net.layers = {l} /\ Keeps("check", net.layers \ {l})
          BY <1>11, <2>3, TellsIsSet, DispatchEffect
    <3>2. QED
          BY <2>1, <3>1 DEF Keeps
  <2>4. CASE ~IsDone /\ ~Tells(cmd[net.call], net.type)
        BY <1>11, <2>1, <2>4, DispatchEffect DEF Keeps
  <2>5. QED
        BY <2>2, <2>3, <2>4
<1>12. ASSUME NetCheck
       PROVE Routed'
       BY <1>12, CheckEffect DEF NetCheck, Keeps
<1>13. ASSUME NetSet
       PROVE Routed'
       BY <1>0, <1>13, SetEffect DEF NetSet, Keeps, IsDone
<1>14. ASSUME NetAck
       PROVE Routed'
       BY <1>14 DEF NetAck, Idle
<1>15. ASSUME Disconnect
       PROVE Routed'
       BY <1>15 DEF Disconnect
<1>16. ASSUME Reconnect
       PROVE Routed'
       BY <1>16 DEF Reconnect
<1>17. ASSUME UNCHANGED vars
       PROVE Routed'
       BY <1>17 DEF vars
<1>18. QED
       BY <1>1, <1>2, <1>3, <1>4, <1>5, <1>6, <1>7, <1>8, <1>9, <1>10, <1>11, <1>12, <1>13, <1>14,
          <1>15, <1>16, <1>17 DEF Next, CallStep, NetStep, Type

-----------------------------------------------------------------------------
(* The map.                                                                *)

LEMMA RacesStep ==
    CallTypes /\ OneAnswer /\ RacesKnown /\ [Next]_vars => RacesKnown'
<1> SUFFICES ASSUME CallTypes, OneAnswer, RacesKnown, [Next]_vars
             PROVE  RacesKnown'
    OBVIOUS
<1>0. 0 \notin Call
      BY CommandsAssumption DEF Call
<1> USE DEF OneAnswer, RacesKnown, Busy, CallTypes, Unsent, Places, Goto, link, caller, map, history
<1>1. ASSUME NEW c \in Call, NEW k \in Commands, Run(c, k)
      PROVE RacesKnown'
      BY <1>1 DEF Run
<1>2. ASSUME NEW c \in Call, TakeLock(c)
      PROVE RacesKnown'
      BY <1>2 DEF TakeLock
<1>3. ASSUME NEW c \in Call, Send(c)
      PROVE RacesKnown'
      BY <1>3 DEF Send
<1>4. ASSUME NEW c \in Call, SendRaises(c)
      PROVE RacesKnown'
      BY <1>4 DEF SendRaises
<1>5. ASSUME NEW c \in Call, Check(c)
      PROVE RacesKnown'
      BY <1>5 DEF Check
<1>6. ASSUME NEW c \in Call, Enter(c)
      PROVE RacesKnown'
      BY <1>6 DEF Enter
<1>7. ASSUME NEW c \in Call, Fetch(c)
      PROVE RacesKnown'
      BY <1>7 DEF Fetch
<1>8. ASSUME NEW c \in Call, Get(c)
      PROVE RacesKnown'
      BY <1>8 DEF Get
<1>9. ASSUME NEW c \in Call, Timeout(c)
      PROVE RacesKnown'
      BY <1>9 DEF Timeout
<1>10. ASSUME NEW c \in Call, NEW type \in Type, Hear(c, type)
       PROVE RacesKnown'
       BY <1>10 DEF Hear, Idle
<1>11. ASSUME NEW l \in Layer, Dispatch(l)
       PROVE RacesKnown'
       BY <1>11, DispatchEffect DEF Keeps, IsDone
<1>12. ASSUME NetCheck
       PROVE RacesKnown'
  <2>1. /\ at' = at /\ net'.call = net.call /\ net'.type = net.type
        /\ net'.found = (entry[net.call] # "none")
        BY <1>12, CheckEffect DEF NetCheck, Keeps
  <2>2. at[net.call] = "enter" \/ (net.type = "error" /\ entry[net.call] = "none")
            => raced' = raced \cup {net.call}
        BY <1>12 DEF NetCheck
  <2>3. QED
        BY <2>1, <2>2
<1>13. ASSUME NetSet
       PROVE RacesKnown'
       BY <1>13, SetEffect DEF Keeps, IsDone
<1>14. ASSUME NetAck
       PROVE RacesKnown'
       BY <1>14 DEF NetAck, Idle
<1>15. ASSUME Disconnect
       PROVE RacesKnown'
       BY <1>15 DEF Disconnect
<1>16. ASSUME Reconnect
       PROVE RacesKnown'
       BY <1>16 DEF Reconnect
<1>17. ASSUME UNCHANGED vars
       PROVE RacesKnown'
       BY <1>17 DEF vars
<1>18. QED
       BY <1>1, <1>2, <1>3, <1>4, <1>5, <1>6, <1>7, <1>8, <1>9, <1>10, <1>11, <1>12, <1>13, <1>14,
          <1>15, <1>16, <1>17 DEF Next, CallStep, NetStep, Type

LEMMA ToldStep ==
    CallTypes /\ OneAnswer /\ Kept /\ Routed /\ RacesKnown /\ ToldInMap /\ [Next]_vars => ToldInMap'
<1> SUFFICES ASSUME CallTypes, OneAnswer, Kept, Routed, RacesKnown, ToldInMap, [Next]_vars
             PROVE  ToldInMap'
    OBVIOUS
<1>0. 0 \notin Call
      BY CommandsAssumption DEF Call
<1>a. \A c \in Call : Told(c) => at[c] \notin Unsent /\ cmd[c] \notin Unanswered
      BY DEF Told, OneAnswer, Heard
<1> USE DEF ToldInMap, Told, CallTypes, Unsent, Places, Goto, link, caller, map, history
<1>1. ASSUME NEW c \in Call, NEW k \in Commands, Run(c, k)
      PROVE ToldInMap'
  <2>1. at[c] = "idle" /\ \A type \in Type : <<c, type>> \notin heard
        BY <1>1 DEF Run, OneAnswer, Heard
  <2>2. \A b \in Call \ {c} : cmd'[b] = cmd[b] /\ at'[b] = at[b] /\ entry'[b] = entry[b]
        BY <1>1 DEF Run
  <2>3. UNCHANGED <<answer, heard, raced>>
        BY <1>1 DEF Run
  <2>4. QED
        BY <2>1, <2>2, <2>3
<1>2. ASSUME NEW c \in Call, TakeLock(c)
      PROVE ToldInMap'
      BY <1>2 DEF TakeLock
<1>3. ASSUME NEW c \in Call, Send(c)
      PROVE ToldInMap'
      BY <1>3 DEF Send
<1>4. ASSUME NEW c \in Call, SendRaises(c)
      PROVE ToldInMap'
      BY <1>4 DEF SendRaises
<1>5. ASSUME NEW c \in Call, Check(c)
      PROVE ToldInMap'
  <2>1. Told(c) => Key(c) = c
        BY <1>a DEF Key, Returned, Unanswered, Tells, OnSuccess, OnError,
                    Registered
  <2>2. QED
        BY <1>5, <2>1 DEF Check, Type
<1>6. ASSUME NEW c \in Call, Enter(c)
      PROVE ToldInMap'
  <2>1. Key(c) \in {0, c}
        BY DEF Key, JustWait
  <2>2. \A b \in Call \ {c} : entry'[b] = entry[b] /\ at'[b] = at[b]
        BY <1>0, <1>6, <2>1 DEF Enter
  <2>3. QED
        BY <1>6, <2>2 DEF Enter
<1>7. ASSUME NEW c \in Call, Fetch(c)
      PROVE ToldInMap'
      BY <1>7 DEF Fetch
<1>8. ASSUME NEW c \in Call, Get(c)
      PROVE ToldInMap'
      BY <1>8 DEF Get, Set, Type
<1>9. ASSUME NEW c \in Call, Timeout(c)
      PROVE ToldInMap'
      BY <1>9 DEF Timeout
<1>10. ASSUME NEW c \in Call, NEW type \in Type, Hear(c, type)
       PROVE ToldInMap'
       BY <1>10 DEF Hear
<1>11. ASSUME NEW l \in Layer, Dispatch(l)
       PROVE ToldInMap'
  <2>1. UNCHANGED <<cmd, at, answer, entry, raced>>
        BY <1>11, DispatchRest
  <2>2. CASE heard' = heard
        BY <2>1, <2>2
  <2>3. CASE heard' # heard
    <3>1. ~Sets(net.call, l) /\ IsDone /\ net.call \in Call /\ net.type \in Type
          BY <1>11, <2>3, DispatchEffect DEF Keeps
    <3>2. ~Tells(cmd[net.call], net.type)
          BY <1>11, <3>1, TellsIsSet
    <3>3. \A c \in Call : Told(c)' => Told(c)
          BY <2>1, <3>1, <3>2 DEF IsDone
    <3>4. QED
          BY <2>1, <3>3
  <2>4. QED
        BY <2>2, <2>3
<1>12. ASSUME NetCheck
       PROVE ToldInMap'
       BY <1>12 DEF NetCheck
<1>13. ASSUME NetSet
       PROVE ToldInMap'
  <2> DEFINE n == net.call
  <2>1. UNCHANGED <<cmd, at, answer, raced>> /\ n \in Call /\ net.type \in Type
        BY <1>13, SetEffect DEF NetSet
  <2>2. \A c \in Call : entry'[c] = entry[c] \/ (c = n /\ entry'[c] = net.type)
        BY <1>13, <2>1 DEF NetSet
  <2>3. \A c \in Call : Told(c)' => Told(c) \/ c = n
        BY <1>13, <2>1, SetEffect DEF Keeps, IsDone
  <2>4. \/ entry'[n] = net.type
        \/ ~net.found /\ net.type = "error"
        BY <1>13, <2>1 DEF NetSet, Type
  <2>5. n \in raced \/ (entry'[n] \in Type /\ at[n] # "enter")
        BY <1>13, <2>1, <2>4, SetEffect DEF RacesKnown
  <2>6. QED
        BY <2>1, <2>2, <2>3, <2>5
<1>14. ASSUME NetAck
       PROVE ToldInMap'
       BY <1>14 DEF NetAck, Idle
<1>15. ASSUME Disconnect
       PROVE ToldInMap'
       BY <1>15 DEF Disconnect
<1>16. ASSUME Reconnect
       PROVE ToldInMap'
       BY <1>16 DEF Reconnect
<1>17. ASSUME UNCHANGED vars
       PROVE ToldInMap'
       BY <1>17 DEF vars
<1>18. QED
       BY <1>1, <1>2, <1>3, <1>4, <1>5, <1>6, <1>7, <1>8, <1>9, <1>10, <1>11, <1>12, <1>13, <1>14,
          <1>15, <1>16, <1>17 DEF Next, CallStep, NetStep, Type

-----------------------------------------------------------------------------
(* The theorems about the commands.                                        *)

\* Whatever the two threads and the connection do, an answer is in one place, in a
\* registry that knows its call, and on its way into the caller's entry.
THEOREM AnswersInPlace == Spec => []CallInv
<1>1. Init => CallInv
  <2> SUFFICES ASSUME Init PROVE CallInv
      OBVIOUS
  <2> USE DEF Init, Idle, Heard, Coming, Busy
  <2>1. CallTypes
        BY DEF CallTypes, Places, Unsent, Activity
  <2>2. OneAnswer
        BY CommandsAssumption DEF OneAnswer, Call
  <2>3. Kept
        BY CommandsAssumption DEF Kept, Call
  <2>4. Routed /\ RacesKnown /\ ToldInMap
        BY DEF Routed, RacesKnown, ToldInMap, Told
  <2>5. QED
        BY <2>1, <2>2, <2>3, <2>4 DEF CallInv
<1>2. CallInv /\ [Next]_vars => CallInv'
      BY CallTypesStep, OneAnswerStep, KeptStep, RoutedStep, RacesStep, ToldStep DEF CallInv
<1>3. QED
      BY <1>1, <1>2, PTL DEF Spec

\* callDirect, getCmdResult and the registry: for any commands and calls, a caller
\* whose wait timed out has its answer in the map, unless the two threads looked for
\* the entry before either made it, or an error came before the entry did.
THEOREM AnswersNotLost == Spec => []ResultNotLost
<1>1. CallInv => ResultNotLost
  <2> SUFFICES ASSUME CallInv, NEW c \in Call, NEW type \in Type, <<c, type>> \in heard,
                      Tells(cmd[c], type), answer[c] = "timeout", entry[c] = "open"
               PROVE  c \in raced
      BY DEF ResultNotLost, Type
  <2>1. Told(c)
        BY DEF Told
  <2>2. QED
        BY <2>1 DEF CallInv, ToldInMap, Type
<1>2. QED
      BY <1>1, AnswersInPlace, PTL

-----------------------------------------------------------------------------
(* The keep-alive: loop threads and ping threads, as long as the peer ends *)
(* no connection.                                                          *)

Pinger == 1..MaxConn
PingLoop == {MaxConn + 1, MaxConn + 2}
Actor == Pinger \cup PingLoop
PingPlaces ==
    {"idle", "connect", "none", "sleep", "register", "send", "check", "recheck", "stop", "forget",
     "clear", "drop", "end"}

PingTypes ==
    /\ conn \in 0..MaxConn /\ made \in 0..MaxConn
    /\ up \in BOOLEAN /\ authed \in BOOLEAN /\ gone \in 0..1
    /\ server \in PingLoop
    /\ pingThread \in Nat /\ stopped \subseteq 1..made
    /\ nextPing \in Nat \ {0} /\ pingQueue \subseteq 1..(nextPing - 1)
    /\ pingQueue \subseteq 1..MaxPing
    /\ sentOn \in [1..MaxPing -> Nat] /\ ping \in [Pinger -> Nat]
    /\ place \in [Pinger \cup PingLoop -> PingPlaces]

\* A connection has one ping thread, from its login to its end.
OnePerConnection ==
    /\ authed => up /\ made >= 1
    /\ gone > 0 => ~up
    /\ (up /\ ~authed) => made + 1 = conn
    /\ ~(up /\ ~authed) => made = conn
    /\ \A a \in PingLoop :
          /\ place[a] \in {"idle", "check", "connect"}
          /\ place[a] # "idle" => ~up /\ gone = 0
          /\ \A b \in PingLoop : place[a] # "idle" /\ place[b] # "idle" => a = b
    /\ ~authed => pingThread = 0

\* A thread that was stopped neither registers nor sends.
Others ==
    \A t \in Pinger :
        /\ t > made => place[t] = "none"
        /\ t < made \/ (t = made /\ ~authed) =>
              t \in stopped /\ place[t] \in {"send", "sleep", "end"}

\* The thread of a connection that is logged in: stopped by itself alone, and
\* before that it sleeps only after its ping was sent.
Works(t) == place[t] \in {"sleep", "register", "send"}
OfConnection(t) ==
    /\ Works(t) \/ place[t] \in {"check", "recheck", "stop", "forget", "clear", "drop"}
    /\ pingThread = (IF place[t] \in {"clear", "drop"} THEN 0 ELSE t)
    /\ t \in stopped <=> place[t] \in {"forget", "clear", "drop"}
    /\ Works(t) => Cardinality(pingQueue) < Limit
    /\ place[t] = "send" => ping[t] \in 1..MaxPing
    /\ \A p \in pingQueue :
          \/ sentOn[p] = conn \/ (place[t] = "send" /\ p = ping[t])
          \/ ~Works(t)

Calm ==
    /\ PingTypes /\ OnePerConnection /\ Others
    /\ authed => OfConnection(made)

PingInv == ends \in Nat /\ (ends = 0 => Calm)

\* Ping counts with the same operator.
LEMMA SameCardinality == \A S : KeepAlive!Cardinality(S) = Cardinality(S)
  BY DEF KeepAlive!Cardinality, Cardinality

LEMMA PingBounds == MaxConn \in Nat /\ MaxPing \in Nat /\ Limit \in Nat \ {0}
  BY PingsAssumption DEF KeepAlive!PingAssumption

\* Only the thread of a connection that is logged in does more than send or sleep.
LEMMA OnlyOne ==
    ASSUME Calm, NEW a \in Actor,
           \/ place[a] \in {"register", "recheck", "stop", "forget", "clear", "drop"}
           \/ place[a] = "check" /\ a \notin PingLoop
           \/ place[a] \in {"sleep", "send"} /\ a \notin stopped
    PROVE  a = made /\ authed /\ a \in Pinger /\ a \notin PingLoop /\ OfConnection(a)
<1>1. a \notin PingLoop /\ a \in Pinger
      BY PingBounds DEF Calm, OnePerConnection, Actor
<1>2. a = made /\ authed
      BY <1>1, PingBounds DEF Calm, Others, Pinger, PingTypes, OnePerConnection
<1>3. QED
      BY <1>1, <1>2 DEF Calm

LEMMA PingTypesStep ==
    ASSUME Calm, ends = 0, ends' = 0, [KeepAlive!Next]_(KeepAlive!vars)
    PROVE  PingTypes'
<1>0. PingTypes /\ OnePerConnection
      BY DEF Calm
<1> USE DEF PingTypes, OnePerConnection, Pinger, PingLoop, PingPlaces,
            Actor, KeepAlive!Goto, KeepAlive!peer, KeepAlive!link, KeepAlive!table,
            KeepAlive!Loop, KeepAlive!None
<1>1. ASSUME NEW a \in PingLoop, KeepAlive!Connect(a)
      PROVE  PingTypes'
  <2>1. place[a] = "connect" /\ ~up /\ gone = 0 /\ ~authed
        BY <1>0, <1>1 DEF KeepAlive!Connect
  <2>2. /\ conn < MaxConn /\ conn' = conn + 1 /\ up' = TRUE /\ server' = a
        /\ UNCHANGED <<authed, gone, pingThread, made, stopped, pingQueue, sentOn, nextPing, ping>>
        BY <1>1, <2>1 DEF KeepAlive!Connect
  <2>3. place' = [place EXCEPT ![a] = "idle"]
        BY <1>1 DEF KeepAlive!Connect
  <2>4. place' \in [Pinger \cup PingLoop -> PingPlaces]
        BY <1>0, <2>3
  <2>5. conn' \in 0..MaxConn
        BY <1>0, <2>2, PingBounds
  <2>6. server' \in PingLoop
        BY <1>1, <2>2
  <2>7. up' \in BOOLEAN /\ authed' \in BOOLEAN
        BY <1>0, <2>2
  <2>8. /\ made' \in 0..MaxConn /\ gone' \in 0..1
        /\ pingThread' \in Nat /\ stopped' \subseteq 1..made'
        /\ nextPing' \in Nat \ {0} /\ pingQueue' \subseteq 1..(nextPing' - 1)
        /\ pingQueue' \subseteq 1..MaxPing
        /\ sentOn' \in [1..MaxPing -> Nat] /\ ping' \in [Pinger -> Nat]
        BY <1>0, <2>2
  <2>9. QED
        BY <2>4, <2>5, <2>6, <2>7, <2>8
<1>2. ASSUME KeepAlive!OnAuthed
      PROVE  PingTypes'
  <2>1. made' = made + 1 /\ made' \in 0..MaxConn /\ pingThread = 0
        BY <1>0, <1>2, PingBounds DEF KeepAlive!OnAuthed
  <2>2. place' = [place EXCEPT ![made'] = "sleep"] /\ pingThread' = made' /\ pingQueue' = {}
        BY <1>2, <2>1 DEF KeepAlive!OnAuthed
  <2>3. QED
        BY <1>0, <1>2, <2>1, <2>2, PingBounds DEF KeepAlive!OnAuthed
<1>3. ASSUME KeepAlive!PeerSilent
      PROVE  PingTypes'
      BY <1>3, <1>0, PingBounds DEF KeepAlive!PeerSilent
<1>4. ASSUME NEW a \in PingLoop, KeepAlive!OnDisconnected(a)
      PROVE  PingTypes'
      BY <1>4, <1>0, PingBounds DEF KeepAlive!OnDisconnected
<1>5. ASSUME NEW q \in 1..MaxPing, KeepAlive!OnPong(q)
      PROVE  PingTypes'
      BY <1>5, <1>0, PingBounds DEF KeepAlive!OnPong
<1>6. ASSUME NEW t \in Pinger, KeepAlive!Wake(t)
      PROVE  PingTypes'
      BY <1>6, <1>0, PingBounds DEF KeepAlive!Wake
<1>7. ASSUME NEW t \in Pinger, KeepAlive!Register(t)
      PROVE  PingTypes'
  <2>1. /\ nextPing <= MaxPing /\ nextPing' = nextPing + 1
        /\ ping' = [ping EXCEPT ![t] = nextPing]
        /\ pingQueue' = pingQueue \cup {nextPing}
        /\ UNCHANGED <<conn, up, authed, gone, server, pingThread, made, stopped, sentOn>>
        BY <1>7 DEF KeepAlive!Register
  <2>2. place' \in [Pinger \cup PingLoop -> PingPlaces]
        BY <1>0, <1>7 DEF KeepAlive!Register
  <2>3. /\ nextPing' \in Nat \ {0} /\ pingQueue' \subseteq 1..(nextPing' - 1)
        /\ pingQueue' \subseteq 1..MaxPing /\ ping' \in [Pinger -> Nat]
        BY <1>0, <2>1, PingBounds
  <2>4. QED
        BY <1>0, <2>1, <2>2, <2>3
<1>8. ASSUME NEW t \in Pinger, KeepAlive!Drop(t)
      PROVE  PingTypes'
  <2>1. t \in Actor /\ place[t] = "drop"
        BY <1>8 DEF KeepAlive!Drop, Actor
  <2>2. authed
        BY <2>1, OnlyOne
  <2>3. gone = 0
        BY <1>0, <2>2
  <2>4. gone' = 1 /\ up' = FALSE /\ authed' = FALSE
        BY <1>8, <2>3 DEF KeepAlive!Drop, KeepAlive!Close
  <2>5. place' \in [Pinger \cup PingLoop -> PingPlaces]
        BY <1>0, <1>8 DEF KeepAlive!Drop
  <2>6. UNCHANGED <<conn, server, made, pingThread, stopped, pingQueue, sentOn,
                    nextPing, ping>>
        BY <1>8 DEF KeepAlive!Drop
  <2>7. gone' \in 0..1
        BY <2>4
  <2>8. up' \in BOOLEAN /\ authed' \in BOOLEAN
        BY <2>4, Zenon
  <2>9. /\ conn' \in 0..MaxConn /\ made' \in 0..MaxConn /\ server' \in PingLoop
        /\ pingThread' \in Nat /\ stopped' \subseteq 1..made'
        /\ nextPing' \in Nat \ {0} /\ pingQueue' \subseteq 1..(nextPing' - 1)
        /\ pingQueue' \subseteq 1..MaxPing
        /\ sentOn' \in [1..MaxPing -> Nat] /\ ping' \in [Pinger -> Nat]
        BY <1>0, <2>6
  <2>10. QED
        BY <2>5, <2>7, <2>8, <2>9
<1>9. ASSUME NEW t \in Pinger, KeepAlive!Send(t)
      PROVE  PingTypes'
  <2>1. t \notin stopped => ping[t] \in 1..MaxPing
        BY <1>9, OnlyOne DEF KeepAlive!Send, OfConnection
  <2>2. sentOn' \in [1..MaxPing -> Nat]
        BY <1>0, <1>9, <2>1 DEF KeepAlive!Send
  <2>3. QED
        BY <1>0, <1>9, <2>2 DEF KeepAlive!Send
<1>10. ASSUME NEW a \in Actor, KeepAlive!StopCheck(a)
       PROVE  PingTypes'
      BY <1>10, <1>0, PingBounds DEF KeepAlive!StopCheck, KeepAlive!Done
<1>11. ASSUME NEW a \in Actor, KeepAlive!StopRecheck(a)
       PROVE  PingTypes'
      BY <1>11, <1>0, PingBounds DEF KeepAlive!StopRecheck
<1>12. ASSUME NEW a \in Actor, KeepAlive!StopSet(a)
       PROVE  PingTypes'
  <2>1. a = made /\ pingThread = a /\ made \in Pinger
        BY <1>12, OnlyOne DEF KeepAlive!StopSet, OfConnection
  <2>2. stopped' \subseteq stopped \cup {made} /\ made \in 1..made
        BY <1>0, <1>12, <2>1, PingBounds DEF KeepAlive!StopSet
  <2>3. QED
        BY <1>0, <1>12, <2>2 DEF KeepAlive!StopSet
<1>13. ASSUME NEW a \in Actor, KeepAlive!StopForget(a)
       PROVE  PingTypes'
      BY <1>13, <1>0, PingBounds DEF KeepAlive!StopForget
<1>14. ASSUME NEW a \in Actor, KeepAlive!StopClear(a)
       PROVE  PingTypes'
      BY <1>14, <1>0, PingBounds DEF KeepAlive!StopClear, KeepAlive!Done
<1>15. ASSUME UNCHANGED KeepAlive!vars
       PROVE  PingTypes'
      BY <1>15, <1>0, PingBounds DEF KeepAlive!vars
<1>16. ~KeepAlive!PeerLoss
       BY DEF KeepAlive!PeerLoss
<1>17. QED
       BY <1>1, <1>2, <1>3, <1>4, <1>5, <1>6, <1>7, <1>8, <1>9, <1>10, <1>11, <1>12, <1>13, <1>14,
          <1>15, <1>16
       DEF KeepAlive!Next, KeepAlive!LoopStep, KeepAlive!PingStep, KeepAlive!Stopping,
           KeepAlive!Pinger, KeepAlive!Loop, Pinger, Actor, PingLoop

LEMMA OnePerStep ==
    ASSUME Calm, ends = 0, ends' = 0, [KeepAlive!Next]_(KeepAlive!vars)
    PROVE  OnePerConnection'
<1>0. PingTypes /\ OnePerConnection
      BY DEF Calm
<1>a. \A a \in PingLoop : a \notin Pinger
      BY PingBounds DEF Pinger, PingLoop
<1> USE DEF PingTypes, OnePerConnection, Pinger, PingLoop, PingPlaces,
            Actor, KeepAlive!Goto, KeepAlive!peer, KeepAlive!link, KeepAlive!table,
            KeepAlive!Loop, KeepAlive!None
<1>1. ASSUME NEW a \in PingLoop, KeepAlive!Connect(a)
      PROVE  OnePerConnection'
  <2>1. place[a] = "connect" /\ ~up /\ gone = 0 /\ ~authed
        BY <1>0, <1>1 DEF KeepAlive!Connect
  <2>2. /\ conn < MaxConn /\ conn' = conn + 1 /\ up' = TRUE /\ server' = a
        /\ UNCHANGED <<authed, gone, pingThread, made, stopped, pingQueue, sentOn, nextPing, ping>>
        BY <1>1, <2>1 DEF KeepAlive!Connect
  <2>3. place' = [place EXCEPT ![a] = "idle"]
        BY <1>1 DEF KeepAlive!Connect
  <2>4. QED
        BY <1>0, <1>a, <2>1, <2>2, <2>3, PingBounds
<1>2. ASSUME KeepAlive!OnAuthed
      PROVE  OnePerConnection'
      BY <1>2, <1>0, <1>a, PingBounds DEF KeepAlive!OnAuthed
<1>3. ASSUME KeepAlive!PeerSilent
      PROVE  OnePerConnection'
      BY <1>3, <1>0, <1>a, PingBounds DEF KeepAlive!PeerSilent
<1>4. ASSUME NEW a \in PingLoop, KeepAlive!OnDisconnected(a)
      PROVE  OnePerConnection'
      BY <1>4, <1>0, <1>a, PingBounds DEF KeepAlive!OnDisconnected
<1>5. ASSUME NEW q \in 1..MaxPing, KeepAlive!OnPong(q)
      PROVE  OnePerConnection'
      BY <1>5, <1>0, <1>a, PingBounds DEF KeepAlive!OnPong
<1>6. ASSUME NEW t \in Pinger, KeepAlive!Wake(t)
      PROVE  OnePerConnection'
      BY <1>6, <1>0, <1>a, PingBounds DEF KeepAlive!Wake
<1>7. ASSUME NEW t \in Pinger, KeepAlive!Register(t)
      PROVE  OnePerConnection'
      BY <1>7, <1>0, <1>a, PingBounds DEF KeepAlive!Register
<1>8. ASSUME NEW t \in Pinger, KeepAlive!Drop(t)
      PROVE  OnePerConnection'
  <2>1. t = made /\ authed /\ OfConnection(t)
        BY <1>8, OnlyOne DEF KeepAlive!Drop, Actor
  <2>2. pingThread = 0 /\ t \in stopped
        BY <1>8, <2>1 DEF KeepAlive!Drop, OfConnection
  <2>3. /\ ~up' /\ ~authed' /\ gone' = 1 /\ pingThread' = 0
        /\ UNCHANGED <<made, conn, stopped>>
        BY <1>0, <1>8, <2>1, <2>2 DEF KeepAlive!Drop, KeepAlive!Close
  <2>4. place' = [place EXCEPT ![t] = "send"]
        BY <1>8 DEF KeepAlive!Drop
  <2>5. QED
        BY <1>0, <1>a, <2>1, <2>2, <2>3, <2>4, PingBounds
<1>9. ASSUME NEW t \in Pinger, KeepAlive!Send(t)
      PROVE  OnePerConnection'
      BY <1>9, <1>0, <1>a, PingBounds DEF KeepAlive!Send
<1>10. ASSUME NEW a \in Actor, KeepAlive!StopCheck(a)
       PROVE  OnePerConnection'
      BY <1>10, <1>0, <1>a, PingBounds DEF KeepAlive!StopCheck, KeepAlive!Done
<1>11. ASSUME NEW a \in Actor, KeepAlive!StopRecheck(a)
       PROVE  OnePerConnection'
      BY <1>11, <1>0, <1>a, PingBounds DEF KeepAlive!StopRecheck
<1>12. ASSUME NEW a \in Actor, KeepAlive!StopSet(a)
       PROVE  OnePerConnection'
      BY <1>12, <1>0, <1>a, PingBounds DEF KeepAlive!StopSet
<1>13. ASSUME NEW a \in Actor, KeepAlive!StopForget(a)
       PROVE  OnePerConnection'
      BY <1>13, <1>0, <1>a, PingBounds DEF KeepAlive!StopForget
<1>14. ASSUME NEW a \in Actor, KeepAlive!StopClear(a)
       PROVE  OnePerConnection'
      BY <1>14, <1>0, <1>a, PingBounds DEF KeepAlive!StopClear, KeepAlive!Done
<1>15. ASSUME UNCHANGED KeepAlive!vars
       PROVE  OnePerConnection'
      BY <1>15, <1>0, <1>a, PingBounds DEF KeepAlive!vars
<1>16. ~KeepAlive!PeerLoss
       BY DEF KeepAlive!PeerLoss
<1>17. QED
       BY <1>1, <1>2, <1>3, <1>4, <1>5, <1>6, <1>7, <1>8, <1>9, <1>10, <1>11, <1>12, <1>13, <1>14,
          <1>15, <1>16
       DEF KeepAlive!Next, KeepAlive!LoopStep, KeepAlive!PingStep, KeepAlive!Stopping,
           KeepAlive!Pinger, KeepAlive!Loop, Pinger, Actor, PingLoop

LEMMA OthersStep ==
    ASSUME Calm, ends = 0, ends' = 0, [KeepAlive!Next]_(KeepAlive!vars)
    PROVE  Others'
<1>0. PingTypes /\ OnePerConnection /\ Others
      BY DEF Calm
<1>a. \A a \in PingLoop : a \notin Pinger
      BY PingBounds DEF Pinger, PingLoop
<1> USE DEF PingTypes, OnePerConnection, Others, Pinger, PingLoop, PingPlaces,
            Actor, KeepAlive!Goto, KeepAlive!peer, KeepAlive!link, KeepAlive!table,
            KeepAlive!Loop, KeepAlive!None
<1>1. ASSUME NEW a \in PingLoop, KeepAlive!Connect(a)
      PROVE  Others'
      BY <1>1, <1>0, <1>a, PingBounds DEF KeepAlive!Connect
<1>2. ASSUME KeepAlive!OnAuthed
      PROVE  Others'
  <2>1. made' = made + 1 /\ made' \in Pinger /\ pingThread = 0 /\ authed' /\ stopped' = stopped
        BY <1>0, <1>2, PingBounds DEF KeepAlive!OnAuthed
  <2>2. place' = [place EXCEPT ![made'] = "sleep"] /\ ~authed
        BY <1>2, <2>1 DEF KeepAlive!OnAuthed
  <2>3. QED
        BY <1>0, <2>1, <2>2, PingBounds
<1>3. ASSUME KeepAlive!PeerSilent
      PROVE  Others'
      BY <1>3, <1>0, <1>a, PingBounds DEF KeepAlive!PeerSilent
<1>4. ASSUME NEW a \in PingLoop, KeepAlive!OnDisconnected(a)
      PROVE  Others'
      BY <1>4, <1>0, <1>a, PingBounds DEF KeepAlive!OnDisconnected
<1>5. ASSUME NEW q \in 1..MaxPing, KeepAlive!OnPong(q)
      PROVE  Others'
      BY <1>5, <1>0, <1>a, PingBounds DEF KeepAlive!OnPong
<1>6. ASSUME NEW t \in Pinger, KeepAlive!Wake(t)
      PROVE  Others'
      BY <1>6, <1>0, <1>a, PingBounds DEF KeepAlive!Wake
<1>7. ASSUME NEW t \in Pinger, KeepAlive!Register(t)
      PROVE  Others'
      BY <1>7, <1>0, <1>a, PingBounds DEF KeepAlive!Register
<1>8. ASSUME NEW t \in Pinger, KeepAlive!Drop(t)
      PROVE  Others'
  <2>1. t = made /\ authed /\ OfConnection(t)
        BY <1>8, OnlyOne DEF KeepAlive!Drop, Actor
  <2>2. pingThread = 0 /\ t \in stopped
        BY <1>8, <2>1 DEF KeepAlive!Drop, OfConnection
  <2>3. /\ ~up' /\ ~authed' /\ gone' = 1 /\ pingThread' = 0
        /\ UNCHANGED <<made, conn, stopped>>
        BY <1>0, <1>8, <2>1, <2>2 DEF KeepAlive!Drop, KeepAlive!Close
  <2>4. place' = [place EXCEPT ![t] = "send"]
        BY <1>8 DEF KeepAlive!Drop
  <2>5. QED
        BY <1>0, <1>a, <2>1, <2>2, <2>3, <2>4, PingBounds
<1>9. ASSUME NEW t \in Pinger, KeepAlive!Send(t)
      PROVE  Others'
      BY <1>9, <1>0, <1>a, PingBounds DEF KeepAlive!Send
<1>10. ASSUME NEW a \in Actor, KeepAlive!StopCheck(a)
       PROVE  Others'
      BY <1>10, <1>0, <1>a, PingBounds DEF KeepAlive!StopCheck, KeepAlive!Done
<1>11. ASSUME NEW a \in Actor, KeepAlive!StopRecheck(a)
       PROVE  Others'
      BY <1>11, <1>0, <1>a, PingBounds DEF KeepAlive!StopRecheck
<1>12. ASSUME NEW a \in Actor, KeepAlive!StopSet(a)
       PROVE  Others'
      BY <1>12, <1>0, <1>a, PingBounds DEF KeepAlive!StopSet
<1>13. ASSUME NEW a \in Actor, KeepAlive!StopForget(a)
       PROVE  Others'
      BY <1>13, <1>0, <1>a, PingBounds DEF KeepAlive!StopForget
<1>14. ASSUME NEW a \in Actor, KeepAlive!StopClear(a)
       PROVE  Others'
      BY <1>14, <1>0, <1>a, PingBounds DEF KeepAlive!StopClear, KeepAlive!Done
<1>15. ASSUME UNCHANGED KeepAlive!vars
       PROVE  Others'
      BY <1>15, <1>0, <1>a, PingBounds DEF KeepAlive!vars
<1>16. ~KeepAlive!PeerLoss
       BY DEF KeepAlive!PeerLoss
<1>17. QED
       BY <1>1, <1>2, <1>3, <1>4, <1>5, <1>6, <1>7, <1>8, <1>9, <1>10, <1>11, <1>12, <1>13, <1>14,
          <1>15, <1>16
       DEF KeepAlive!Next, KeepAlive!LoopStep, KeepAlive!PingStep, KeepAlive!Stopping,
           KeepAlive!Pinger, KeepAlive!Loop, Pinger, Actor, PingLoop

LEMMA ConnectionStep ==
    ASSUME Calm, ends = 0, ends' = 0, [KeepAlive!Next]_(KeepAlive!vars)
    PROVE  (authed => OfConnection(made))'
<1>0. PingTypes /\ OnePerConnection /\ (authed => OfConnection(made))
      BY DEF Calm
<1>a. \A a \in PingLoop : a \notin Pinger
      BY PingBounds DEF Pinger, PingLoop
<1> USE DEF PingTypes, OnePerConnection, OfConnection, Works, Pinger, PingLoop, PingPlaces,
            Actor, KeepAlive!Goto, KeepAlive!peer, KeepAlive!link, KeepAlive!table,
            KeepAlive!Loop, KeepAlive!None
<1>1. ASSUME NEW a \in PingLoop, KeepAlive!Connect(a)
      PROVE  (authed => OfConnection(made))'
      BY <1>1, <1>0, <1>a, PingBounds DEF KeepAlive!Connect
<1>2. ASSUME KeepAlive!OnAuthed
      PROVE  (authed => OfConnection(made))'
  <2>1. made' = made + 1 /\ made' \in Pinger /\ stopped' = stopped
        BY <1>0, <1>2, PingBounds DEF KeepAlive!OnAuthed
  <2>2. place'[made'] = "sleep" /\ pingThread' = made' /\ pingQueue' = {}
        BY <1>0, <1>2, <2>1, PingBounds DEF KeepAlive!OnAuthed
  <2>3. Cardinality({}) = 0
        BY FS_EmptySet
  <2>4. QED
        BY <1>0, <2>1, <2>2, <2>3, PingBounds
<1>3. ASSUME KeepAlive!PeerSilent
      PROVE  (authed => OfConnection(made))'
      BY <1>3, <1>0, <1>a, PingBounds DEF KeepAlive!PeerSilent
<1>4. ASSUME NEW a \in PingLoop, KeepAlive!OnDisconnected(a)
      PROVE  (authed => OfConnection(made))'
      BY <1>4, <1>0, <1>a, PingBounds DEF KeepAlive!OnDisconnected
<1>5. ASSUME NEW q \in 1..MaxPing, KeepAlive!OnPong(q)
      PROVE  (authed => OfConnection(made))'
  <2>1. UNCHANGED <<conn, authed, pingThread, made, stopped, place, ping>>
        BY <1>5 DEF KeepAlive!OnPong
  <2>2. CASE q \in pingQueue
    <3>1. pingQueue' = {} /\ Cardinality({}) = 0
          BY <1>5, <2>2, FS_EmptySet DEF KeepAlive!OnPong
    <3>2. QED
          BY <1>0, <2>1, <3>1, PingBounds
  <2>3. CASE q \notin pingQueue
    <3>1. pingQueue' = pingQueue /\ \A p \in pingQueue : sentOn'[p] = sentOn[p]
          BY <1>0, <1>5, <2>3 DEF KeepAlive!OnPong
    <3>2. QED
          BY <1>0, <2>1, <3>1
  <2>4. QED
        BY <2>2, <2>3
<1>6. ASSUME NEW t \in Pinger, KeepAlive!Wake(t)
      PROVE  (authed => OfConnection(made))'
  <2>1. UNCHANGED <<conn, authed, pingThread, made, stopped, pingQueue, sentOn, ping>>
        BY <1>6 DEF KeepAlive!Wake
  <2>2. CASE t = made /\ authed
    <3>1. place'[t] = "register"
          BY <1>0, <1>6, <2>2 DEF KeepAlive!Wake
    <3>2. QED
          BY <1>0, <1>6, <2>1, <2>2, <3>1 DEF KeepAlive!Wake
  <2>3. CASE t # made
    <3>1. place'[made] = place[made]
          BY <1>0, <1>6, <2>3 DEF KeepAlive!Wake
    <3>2. QED
          BY <1>0, <2>1, <3>1
  <2>4. QED
        BY <1>0, <2>1, <2>2, <2>3
<1>7. ASSUME NEW t \in Pinger, KeepAlive!Register(t)
      PROVE  (authed => OfConnection(made))'
  <2>1. t = made /\ authed /\ OfConnection(t) /\ t \notin PingLoop
        BY <1>7, OnlyOne DEF KeepAlive!Register, Actor
  <2>2. UNCHANGED <<conn, authed, made, sentOn, pingThread, stopped>>
        BY <1>7 DEF KeepAlive!Register
  <2>3. /\ nextPing \in 1..MaxPing /\ ping'[t] = nextPing
        /\ pingQueue' = pingQueue \cup {nextPing} /\ place[t] = "register"
        BY <1>0, <1>7, PingBounds DEF KeepAlive!Register
  <2>4. Cardinality(pingQueue') \in Nat
    <3>1. IsFiniteSet(1..MaxPing)
          BY PingBounds, FS_Interval
    <3>2. pingQueue' \subseteq 1..MaxPing
          BY <1>0, <2>3
    <3>3. IsFiniteSet(pingQueue')
          BY <3>1, <3>2, FS_Subset
    <3>4. QED
          BY <3>3, FS_CardinalityType
  <2>5. place'[t] = IF Cardinality(pingQueue') >= Limit THEN "check" ELSE "send"
        BY <1>0, <1>7, SameCardinality DEF KeepAlive!Register
  <2>6. QED
        BY <1>0, <2>1, <2>2, <2>3, <2>4, <2>5, PingBounds
<1>8. ASSUME NEW t \in Pinger, KeepAlive!Drop(t)
      PROVE  (authed => OfConnection(made))'
      BY <1>8, <1>0, <1>a, PingBounds DEF KeepAlive!Drop, KeepAlive!Close
<1>9. ASSUME NEW t \in Pinger, KeepAlive!Send(t)
      PROVE  (authed => OfConnection(made))'
  <2>1. /\ place[t] = "send" /\ place' = [place EXCEPT ![t] = "sleep"]
        /\ sentOn' = IF t \in stopped \/ ~up THEN sentOn ELSE [sentOn EXCEPT ![ping[t]] = conn]
        /\ UNCHANGED <<conn, up, authed, made, pingThread, stopped, pingQueue, ping>>
        BY <1>9 DEF KeepAlive!Send
  <2>2. CASE t = made /\ authed
    <3>1. OfConnection(t) /\ up /\ t \notin stopped /\ ping[t] \in 1..MaxPing
          BY <1>0, <2>1, <2>2
    <3>2. place'[t] = "sleep" /\ sentOn' = [sentOn EXCEPT ![ping[t]] = conn]
          BY <1>0, <2>1, <3>1
    <3>3. \A p \in pingQueue : sentOn'[p] = conn
          BY <1>0, <2>1, <3>1, <3>2
    <3>4. QED
          BY <2>1, <2>2, <3>1, <3>2, <3>3
  <2>3. CASE t # made /\ authed
    <3>1. t \in stopped
          BY <1>9, <2>1, <2>3, OnlyOne DEF Actor
    <3>2. sentOn' = sentOn /\ place'[made] = place[made]
          BY <2>1, <2>3, <3>1
    <3>3. QED
          BY <1>0, <2>1, <3>2
  <2>4. QED
        BY <2>1, <2>2, <2>3
<1>10. ASSUME NEW a \in Actor, KeepAlive!StopCheck(a)
       PROVE  (authed => OfConnection(made))'
  <2>1. UNCHANGED <<conn, authed, pingThread, made, stopped, pingQueue, sentOn, ping>>
        BY <1>10 DEF KeepAlive!StopCheck
  <2>2. CASE a \in PingLoop
    <3>1. place'[made] = place[made] \/ ~authed
          BY <1>0, <1>10, <1>a, <2>2 DEF KeepAlive!StopCheck, KeepAlive!Done
    <3>2. QED
          BY <1>0, <2>1, <3>1
  <2>3. CASE a \notin PingLoop
    <3>1. a = made /\ authed /\ OfConnection(a) /\ a \in Pinger /\ place[a] = "check"
          BY <1>10, <2>3, OnlyOne DEF KeepAlive!StopCheck
    <3>2. pingThread # 0
          BY <3>1, PingBounds
    <3>3. place'[a] = "recheck"
          BY <1>0, <1>10, <3>1, <3>2 DEF KeepAlive!StopCheck
    <3>4. QED
          BY <1>0, <2>1, <3>1, <3>3
  <2>4. QED
        BY <2>2, <2>3
<1>11. ASSUME NEW a \in Actor, KeepAlive!StopRecheck(a)
       PROVE  (authed => OfConnection(made))'
  <2>1. a = made /\ authed /\ OfConnection(a) /\ a \notin PingLoop /\ a \in Pinger
        BY <1>11, OnlyOne DEF KeepAlive!StopRecheck
  <2>2. UNCHANGED <<conn, authed, made, sentOn, ping, pingThread, stopped, pingQueue>>
        BY <1>11 DEF KeepAlive!StopRecheck
  <2>3. place[a] = "recheck" /\ place'[a] = "stop"
        BY <1>0, <1>11, <2>1, PingBounds DEF KeepAlive!StopRecheck, KeepAlive!Done
  <2>4. QED
        BY <1>0, <2>1, <2>2, <2>3, PingBounds
<1>12. ASSUME NEW a \in Actor, KeepAlive!StopSet(a)
       PROVE  (authed => OfConnection(made))'
  <2>1. a = made /\ authed /\ OfConnection(a) /\ a \notin PingLoop /\ a \in Pinger
        BY <1>12, OnlyOne DEF KeepAlive!StopSet
  <2>2. UNCHANGED <<conn, authed, made, sentOn, ping, pingThread, pingQueue>>
        BY <1>12 DEF KeepAlive!StopSet
  <2>3. place[a] = "stop" /\ place'[a] = "forget" /\ stopped' = stopped \cup {a}
    <3>1. place[a] = "stop" /\ pingThread = a /\ a # 0
          BY <1>12, <2>1, PingBounds DEF KeepAlive!StopSet
    <3>2. QED
          BY <1>0, <1>12, <3>1 DEF KeepAlive!StopSet
  <2>4. QED
        BY <1>0, <2>1, <2>2, <2>3, PingBounds
<1>13. ASSUME NEW a \in Actor, KeepAlive!StopForget(a)
       PROVE  (authed => OfConnection(made))'
  <2>1. a = made /\ authed /\ OfConnection(a) /\ a \notin PingLoop /\ a \in Pinger
        BY <1>13, OnlyOne DEF KeepAlive!StopForget
  <2>2. UNCHANGED <<conn, authed, made, sentOn, ping, stopped, pingQueue>>
        BY <1>13 DEF KeepAlive!StopForget
  <2>3. place[a] = "forget" /\ place'[a] = "clear" /\ pingThread' = 0
        BY <1>0, <1>13, <2>1, PingBounds DEF KeepAlive!StopForget, KeepAlive!Done
  <2>4. QED
        BY <1>0, <2>1, <2>2, <2>3, PingBounds
<1>14. ASSUME NEW a \in Actor, KeepAlive!StopClear(a)
       PROVE  (authed => OfConnection(made))'
  <2>1. a = made /\ authed /\ OfConnection(a) /\ a \notin PingLoop /\ a \in Pinger
        BY <1>14, OnlyOne DEF KeepAlive!StopClear
  <2>2. UNCHANGED <<conn, authed, made, sentOn, ping, pingThread, stopped>>
        BY <1>14 DEF KeepAlive!StopClear
  <2>3. place[a] = "clear" /\ place'[a] = "drop"
        BY <1>0, <1>14, <2>1, PingBounds DEF KeepAlive!StopClear, KeepAlive!Done
  <2>4. QED
        BY <1>0, <2>1, <2>2, <2>3, PingBounds
<1>15. ASSUME UNCHANGED KeepAlive!vars
       PROVE  (authed => OfConnection(made))'
      BY <1>15, <1>0, <1>a, PingBounds DEF KeepAlive!vars
<1>16. ~KeepAlive!PeerLoss
       BY DEF KeepAlive!PeerLoss
<1>17. QED
       BY <1>1, <1>2, <1>3, <1>4, <1>5, <1>6, <1>7, <1>8, <1>9, <1>10, <1>11, <1>12, <1>13, <1>14,
          <1>15, <1>16
       DEF KeepAlive!Next, KeepAlive!LoopStep, KeepAlive!PingStep, KeepAlive!Stopping,
           KeepAlive!Pinger, KeepAlive!Loop, Pinger, Actor, PingLoop

LEMMA PingInvStep == PingInv /\ [KeepAlive!Next]_(KeepAlive!vars) => PingInv'
<1> SUFFICES ASSUME PingInv, [KeepAlive!Next]_(KeepAlive!vars) PROVE PingInv'
    OBVIOUS
<1>1. ends' = ends \/ ends' = ends + 1
      BY DEF KeepAlive!Next, KeepAlive!LoopStep, KeepAlive!PingStep, KeepAlive!Stopping,
             KeepAlive!vars, KeepAlive!peer, KeepAlive!Connect, KeepAlive!OnAuthed,
             KeepAlive!PeerLoss, KeepAlive!PeerSilent, KeepAlive!OnDisconnected,
             KeepAlive!OnPong, KeepAlive!Wake, KeepAlive!Register, KeepAlive!Drop,
             KeepAlive!Send, KeepAlive!StopCheck, KeepAlive!StopRecheck, KeepAlive!StopSet,
             KeepAlive!StopForget, KeepAlive!StopClear
<1>2. ends' = 0 => ends = 0
      BY <1>1 DEF PingInv
<1>3. ends' = 0 => Calm'
  <2> SUFFICES ASSUME ends' = 0 PROVE Calm'
      OBVIOUS
  <2>1. Calm /\ ends = 0
        BY <1>2 DEF PingInv
  <2>2. PingTypes' /\ OnePerConnection' /\ Others' /\ (authed => OfConnection(made))'
        BY <2>1, PingTypesStep, OnePerStep, OthersStep, ConnectionStep
  <2>3. QED
        BY <2>2 DEF Calm
<1>4. QED
      BY <1>1, <1>3 DEF PingInv

-----------------------------------------------------------------------------
(* The theorems about the keep-alive.                                      *)

\* As long as the peer ends no connection, a connection has one ping thread, which
\* nobody but itself stops, and registers a ping only after it sent the one before.
THEOREM OnePingThread == KeepAlive!Spec => []PingInv
<1>1. KeepAlive!Init => PingInv
  <2> SUFFICES ASSUME KeepAlive!Init PROVE PingInv
      OBVIOUS
  <2>1. PingTypes
    <3>1. place \in [Pinger \cup PingLoop -> PingPlaces]
          BY DEF KeepAlive!Init, Pinger, PingLoop, PingPlaces, KeepAlive!Actor,
                 KeepAlive!Pinger, KeepAlive!Loop
    <3>2. sentOn \in [1..MaxPing -> Nat] /\ ping \in [Pinger -> Nat]
          BY DEF KeepAlive!Init, Pinger, KeepAlive!Pinger
    <3>3. /\ conn = 0 /\ made = 0 /\ pingThread = 0 /\ nextPing = 1
          /\ stopped = {} /\ pingQueue = {} /\ up = FALSE /\ authed = FALSE /\ gone = 0
          /\ server = MaxConn + 1
          BY DEF KeepAlive!Init, KeepAlive!None
    <3>4. 0 \in 0..MaxConn /\ 1 \in Nat \ {0} /\ 0 \in Nat
          BY PingBounds
    <3>5. conn \in 0..MaxConn /\ made \in 0..MaxConn /\ gone \in 0..1 /\ server \in PingLoop
          BY <3>3, <3>4 DEF PingLoop
    <3>6. up \in BOOLEAN /\ authed \in BOOLEAN
          BY <3>3
    <3>7. QED
          BY <3>1, <3>2, <3>3, <3>4, <3>5, <3>6 DEF PingTypes
  <2>2. OnePerConnection /\ Others
        BY PingBounds DEF KeepAlive!Init, OnePerConnection, Others, Pinger, PingLoop,
                          KeepAlive!Actor, KeepAlive!Pinger, KeepAlive!Loop, KeepAlive!None
  <2>3. QED
        BY <2>1, <2>2 DEF KeepAlive!Init, PingInv, Calm
<1>2. QED
      BY <1>1, PingInvStep, PTL DEF KeepAlive!Spec

\* waitPong: for any number of connections, pings and pings allowed without an answer,
\* a ping thread ends a connection only when all pings sent on it before are without
\* one, as long as connections end in no other way.
THEOREM PingsDropSilent == KeepAlive!Spec => DropsSilent
<1> DEFINE Drops ==
        \A t \in KeepAlive!Pinger :
            ends = 0 /\ KeepAlive!Register(t) /\ place'[t] = "check" =>
                KeepAlive!Cardinality({p \in pingQueue : sentOn[p] = conn}) = Limit - 1
<1>1. PingInv /\ [KeepAlive!Next]_(KeepAlive!vars) => [Drops]_(KeepAlive!vars)
  <2> SUFFICES ASSUME PingInv, NEW t \in Pinger, ends = 0, KeepAlive!Register(t),
                      place'[t] = "check"
               PROVE  Cardinality({p \in pingQueue : sentOn[p] = conn}) = Limit - 1
      BY SameCardinality DEF KeepAlive!Pinger, Pinger
  <2> DEFINE S == pingQueue
  <2>1. Calm /\ PingTypes
        BY DEF PingInv, Calm
  <2>2. /\ OfConnection(t) /\ place[t] = "register"
        BY <2>1, OnlyOne DEF KeepAlive!Register, Actor
  <2>3. {p \in S : sentOn[p] = conn} = S
        BY <2>2 DEF OfConnection, Works
  <2>4. IsFiniteSet(S)
    <3>1. IsFiniteSet(1..MaxPing)
          BY PingBounds, FS_Interval
    <3>2. QED
          BY <2>1, <3>1, FS_Subset DEF PingTypes
  <2>5. Cardinality(S) \in Nat /\ Cardinality(S) < Limit
        BY <2>2, <2>4, FS_CardinalityType DEF OfConnection, Works
  <2>6. nextPing \notin S
        BY <2>1 DEF PingTypes
  <2>7. Cardinality(S \cup {nextPing}) = Cardinality(S) + 1
        BY <2>4, <2>6, FS_AddElement
  <2>8. ~(Cardinality(S \cup {nextPing}) < Limit)
    <3>1. place'[t] = IF Cardinality(S \cup {nextPing}) >= Limit THEN "check" ELSE "send"
          BY <2>1, SameCardinality DEF KeepAlive!Register, KeepAlive!Goto, PingTypes
    <3>2. QED
          BY <2>5, <2>7, <3>1, PingBounds
  <2>9. QED
        BY <2>3, <2>5, <2>7, <2>8, PingBounds
<1>2. QED
      BY <1>1, OnePingThread, PTL DEF KeepAlive!Spec, DropsSilent, KeepAlive!DropsSilent

=============================================================================
