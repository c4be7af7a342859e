----------------------------- MODULE MCRequests -----------------------------
(***************************************************************************)
(* Requests and the waits for their answers: a behaviour is one of         *)
(* Commands, which the application calls, or one of Ping, the requests     *)
(* that keep a connection, from its first state; the variables of the      *)
(* other do not change.                                                    *)
(***************************************************************************)
EXTENDS Commands

CONSTANTS MaxConn, MaxPing, MaxEnds, Limit

VARIABLES
    instance,
    conn, up, authed, gone, server, twice, ends, silent, pingThread, made, stopped,
    pingQueue, sentOn, nextPing, place, ping

KeepAlive ==
    INSTANCE Ping
        WITH MaxLoss <- MaxEnds, losses <- ends, queue <- pingQueue, at <- place

ASSUME PingsAssumption == KeepAlive!PingAssumption

pings ==
    <<conn, up, authed, gone, server, twice, ends, silent, pingThread, made, stopped,
      pingQueue, sentOn, nextPing, place, ping>>
all == <<vars, pings, instance>>

MCInit == Init /\ KeepAlive!Init /\ instance \in {"commands", "pings"}

MCNext ==
    /\ \/ instance = "commands" /\ Next /\ UNCHANGED pings
       \/ instance = "pings" /\ KeepAlive!Next /\ UNCHANGED vars
    /\ UNCHANGED instance

OfCommands(A) == instance = "commands" /\ A /\ UNCHANGED <<pings, instance>>
OfPings(A) == instance = "pings" /\ A /\ UNCHANGED <<vars, instance>>

\* The fairness of the two.
MCSpec ==
    /\ MCInit /\ [][MCNext]_all
    /\ WF_all(OfCommands(NetStep))
    /\ \A c \in Call : WF_all(OfCommands(CallStep(c)))
    /\ \A a \in KeepAlive!Loop : WF_all(OfPings(KeepAlive!LoopStep(a)))
    /\ \A t \in KeepAlive!Pinger : WF_all(OfPings(KeepAlive!PingStep(t)))

\* A ping thread ends only a connection that does not answer its pings.
DropsSilent == KeepAlive!DropsSilent

\* A connection whose peer has fallen silent is ended, where no DISCONNECT came
\* upon one that had ended.
SilenceEnds == KeepAlive!SilenceEnds
=============================================================================
