-------------------------------- MODULE Ping --------------------------------
(***************************************************************************)
(* The keep-alive of a connection (YowIqProtocolLayer): a ping thread per  *)
(* login registers a ping, ends the connection when it is the third        *)
(* without an answer, and sends it otherwise.  Whoever ends a connection,  *)
(* and the loop thread that handles the end, runs stop_thread, whose steps *)
(* no lock holds together.                                                 *)
(*                                                                         *)
(* A DISCONNECT is announced also where the connection has ended already:  *)
(* then one more DISCONNECTED waits, and a loop thread of another account  *)
(* may handle it against the next connection.  Creating a connection and   *)
(* being connected are one step here; StackLoop has them apart.            *)
(***************************************************************************)
EXTENDS Naturals, FiniteSets

CONSTANTS
    MaxConn,    \* bound: connections
    MaxPing,    \* bound: pings
    MaxLoss,    \* bound: connections the peer ends
    Limit       \* pings without an answer that end a connection (3)

\* Assumed of the constants where the module is instantiated.
PingAssumption ==
    {MaxConn, MaxPing} \subseteq Nat \ {0} /\ MaxLoss \in Nat /\ Limit \in Nat \ {0}

None == 0
Pinger == 1..MaxConn          \* ping threads, numbered as they are made
Loop == {MaxConn + 1, MaxConn + 2} \* the loop threads of two accounts
Actor == Pinger \cup Loop

VARIABLES
    conn,        \* number of the connection
    up, authed,  \* is it open, and logged in?
    gone,        \* DISCONNECTEDs that wait for a loop thread
    server,      \* the loop thread that made the connection
    twice,       \* a DISCONNECT found the connection ended (history)
    losses,
    silent,      \* the peer does not answer any more
    pingThread,  \* _pingThread
    made,        \* ping threads made so far
    stopped,     \* ping threads whose _stop is set
    queue,       \* _pingQueue: pings registered
    sentOn,      \* per ping, the connection it was sent on
    nextPing,
    at,          \* where each thread is
    ping         \* per ping thread, the ping it is about to send

peer == <<silent, losses>>
link == <<conn, up, authed, gone, server, twice>>
table == <<pingThread, made, stopped, queue>>
vars == <<peer, link, table, sentOn, nextPing, at, ping>>

Init ==
    /\ conn = 0 /\ up = FALSE /\ authed = FALSE /\ gone = 0
    /\ server = MaxConn + 1 /\ twice = FALSE
    /\ losses = 0 /\ silent = FALSE
    /\ pingThread = None /\ made = 0 /\ stopped = {} /\ queue = {}
    /\ sentOn = [p \in 1..MaxPing |-> 0] /\ nextPing = 1
    /\ at = [a \in Actor |-> IF a = server THEN "connect"
                           ELSE IF a \in Loop THEN "idle" ELSE "none"]
    /\ ping = [t \in Pinger |-> 0]

Goto(a, place) == at' = [at EXCEPT ![a] = place]

-----------------------------------------------------------------------------
(* The connection and the loop threads.                                    *)

\* The CONNECT that ends the handling of DISCONNECTED, or begins YowBot.run;
\* ignored when connected.
Connect(a) ==
    /\ at[a] = "connect"
    /\ IF up
       THEN UNCHANGED <<conn, up, silent, server>>
       ELSE /\ conn < MaxConn /\ conn' = conn + 1
            /\ up' = TRUE /\ silent' = FALSE /\ server' = a
    /\ Goto(a, "idle")
    /\ UNCHANGED <<authed, gone, twice, losses, table, sentOn, nextPing, ping>>

\* EVENT_AUTHED: a thread is started unless there is one.
OnAuthed ==
    /\ at[server] = "idle" /\ up /\ ~authed /\ authed' = TRUE
    /\ IF pingThread = None
       THEN /\ made' = made + 1 /\ pingThread' = made'
            /\ queue' = {} /\ Goto(made', "sleep")
       ELSE UNCHANGED <<made, pingThread, queue, at>>
    /\ UNCHANGED <<peer, conn, up, gone, server, twice, stopped, sentOn, nextPing, ping>>

\* The socket closes, and one more DISCONNECTED is queued.
Close == up' = FALSE /\ authed' = FALSE /\ gone' = gone + 1

PeerLoss ==
    /\ up /\ losses < MaxLoss /\ losses' = losses + 1
    /\ Close
    /\ UNCHANGED <<conn, server, twice, silent, table, sentOn, nextPing, at, ping>>

PeerSilent ==
    /\ up /\ ~silent /\ silent' = TRUE
    /\ UNCHANGED <<losses, link, table, sentOn, nextPing, at, ping>>

\* A loop thread takes a DISCONNECTED, unless it is inside the connection.
OnDisconnected(a) ==
    /\ at[a] = "idle" /\ ~(up /\ server = a)
    /\ gone > 0 /\ gone' = gone - 1
    /\ Goto(a, "check")
    /\ UNCHANGED <<peer, conn, up, authed, server, twice, table, sentOn, nextPing, ping>>

\* Mutant of OnPong: an answer takes only its own ping out.
OnPongOne(p) ==
    /\ at[server] = "idle" /\ up /\ ~silent /\ sentOn[p] = conn
    /\ sentOn' = [sentOn EXCEPT ![p] = 0]
    /\ queue' = IF p + 1 \in queue THEN queue ELSE queue \ {p}
    /\ UNCHANGED <<peer, link, pingThread, made, stopped, nextPing, at, ping>>

\* gotPong: an answer to a registered ping clears the queue.
OnPong(p) ==
    /\ at[server] = "idle" /\ up /\ ~silent /\ sentOn[p] = conn
    /\ sentOn' = [sentOn EXCEPT ![p] = 0]
    /\ queue' = IF p \in queue THEN {} ELSE queue
    /\ UNCHANGED <<peer, link, pingThread, made, stopped, nextPing, at, ping>>

-----------------------------------------------------------------------------
(* A ping thread.                                                          *)

Wake(t) ==
    /\ at[t] = "sleep"
    /\ Goto(t, IF t \in stopped THEN "end" ELSE "register")
    /\ UNCHANGED <<peer, link, table, sentOn, nextPing, ping>>

\* waitPong, under its lock.
Register(t) ==
    /\ at[t] = "register" /\ nextPing <= MaxPing
    /\ nextPing' = nextPing + 1 /\ ping' = [ping EXCEPT ![t] = nextPing]
    /\ queue' = queue \cup {nextPing}
    /\ Goto(t, IF Cardinality(queue') >= Limit THEN "check" ELSE "send")
    /\ UNCHANGED <<peer, link, pingThread, made, stopped, sentOn>>

\* The DISCONNECT has come down to the network layer, which closes whatever
\* connection there is: DISCONNECTING is assigned also to a connection that has
\* ended, so that its end is announced again.
Drop(t) ==
    /\ at[t] = "drop"
    /\ Close
    /\ twice' = (twice \/ ~up)
    /\ Goto(t, "send")
    /\ UNCHANGED <<peer, conn, server, table, sentOn, nextPing, ping>>

Send(t) ==
    /\ at[t] = "send"
    /\ sentOn' = IF t \in stopped \/ ~up THEN sentOn
                 ELSE [sentOn EXCEPT ![ping[t]] = conn]
    /\ Goto(t, "sleep")
    /\ UNCHANGED <<peer, link, table, nextPing, ping>>

-----------------------------------------------------------------------------
(* stop_thread, run by a ping thread that ends the connection, before it   *)
(* does, and by the loop thread that handles DISCONNECTED: the layers      *)
(* above take it next, and SendLayer asks for a CONNECT.                   *)

Done(a) == Goto(a, IF a \in Loop THEN "connect" ELSE "drop")

StopCheck(a) ==
    /\ at[a] = "check"
    /\ IF pingThread = None THEN Done(a) ELSE Goto(a, "recheck")
    /\ UNCHANGED <<peer, link, table, sentOn, nextPing, ping>>

StopRecheck(a) ==
    /\ at[a] = "recheck"
    /\ Goto(a, IF pingThread = None THEN "clear" ELSE "stop")
    /\ UNCHANGED <<peer, link, table, sentOn, nextPing, ping>>

\* The thread may have been forgotten since: the exception leaves the event
\* undelivered and ends the thread that raised it.
StopSet(a) ==
    /\ at[a] = "stop"
    /\ IF pingThread = None
       THEN Goto(a, "end") /\ UNCHANGED stopped
       ELSE Goto(a, "forget") /\ stopped' = stopped \cup {pingThread}
    /\ UNCHANGED <<peer, link, pingThread, made, queue, sentOn, nextPing, ping>>

\* Mutant of StopForget: the thread stays in its place.
StopKeep(a) ==
    /\ at[a] = "forget"
    /\ Goto(a, "clear")
    /\ UNCHANGED <<peer, link, table, sentOn, nextPing, ping>>

StopForget(a) ==
    /\ at[a] = "forget" /\ pingThread' = None
    /\ Goto(a, "clear")
    /\ UNCHANGED <<peer, link, made, stopped, queue, sentOn, nextPing, ping>>

StopClear(a) ==
    /\ at[a] = "clear" /\ queue' = {}
    /\ Done(a)
    /\ UNCHANGED <<peer, link, pingThread, made, stopped, sentOn, nextPing, ping>>

Stopping(a) ==
    StopCheck(a) \/ StopRecheck(a) \/ StopSet(a) \/ StopForget(a) \/ StopClear(a)

LoopStep(a) == Connect(a) \/ OnDisconnected(a) \/ Stopping(a)
PingStep(t) == Wake(t) \/ Register(t) \/ Drop(t) \/ Send(t) \/ Stopping(t)

Next ==
    \/ \E a \in Loop : LoopStep(a)
    \/ OnAuthed \/ PeerLoss \/ PeerSilent
    \/ \E p \in 1..MaxPing : OnPong(p)
    \/ \E t \in Pinger : PingStep(t)

Spec == Init /\ [][Next]_vars

-----------------------------------------------------------------------------
(* Properties.                                                             *)

\* A ping thread ends a connection only when the pings sent on it before this
\* one are without an answer, as long as no connection ends but in this way.
DropsSilent ==
    [][\A t \in Pinger :
          losses = 0 /\ Register(t) /\ at'[t] = "check" =>
              Cardinality({p \in queue : sentOn[p] = conn}) = Limit - 1]_vars

\* A connection whose peer has fallen silent is ended, as long as there are
\* pings left to send and no DISCONNECT ever came upon an ended connection: the
\* second DISCONNECTED of one that did stops the thread of the next connection,
\* whose silence nobody notices.
SilenceEnds ==
    []~twice => ((up /\ authed /\ silent) ~> (~up \/ nextPing > MaxPing))
=============================================================================
