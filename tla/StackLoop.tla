----------------------------- MODULE StackLoop -----------------------------
(***************************************************************************)
(* The bot threads of several accounts and the queue of detached           *)
(* callbacks they drain.  YowStack.__detachedQueue is a class attribute:   *)
(* every stack puts its DISCONNECTED continuation in the same queue, and   *)
(* every bot thread takes the oldest one, whoever it belongs to.           *)
(*                                                                         *)
(* Thread t is the one that YowBot.runAsThread starts for stack t.  A      *)
(* thread that runs a stack's reconnect stays inside asyncore.loop for as  *)
(* long as that connection lives, then goes back to YowStack.loop.         *)
(*                                                                         *)
(* A connection ends by its own thread, which sees the peer close or asks  *)
(* for a DISCONNECT while it handles a node, or by the DISCONNECT of       *)
(* another thread: the ping thread, the handshake's, the QR thread or the  *)
(* application.  Whoever ends it closes the socket, looks at the state of  *)
(* the network layer and queues the event, in this order.                  *)
(***************************************************************************)
EXTENDS Naturals, Sequences, FiniteSets

CONSTANTS
    Stack,       \* the accounts' stacks, and their threads
    Quitters,    \* stacks whose application calls YowBot.quit (once)
    MaxLosses,   \* bound: connections the peer ends in one behaviour
    MaxDrops,    \* bound: DISCONNECTs in one behaviour, those of quit apart
    MaxFailures  \* bound: stacks whose connect raises

ASSUME StackAssumption ==
    /\ IsFiniteSet(Stack)
    /\ Quitters \subseteq Stack
    /\ MaxLosses \in Nat /\ MaxDrops \in Nat /\ MaxFailures \in Nat

VARIABLES
    queue,      \* YowStack.__detachedQueue: owners of the queued continuations
    pc,         \* where each thread is
    serving,    \* the stack each thread works for
    open,       \* the socket of the thread's dispatcher is open
    nested,     \* the thread connects from within AxolotlControlLayer.on_disconnected
    dispatcher, \* YowNetworkLayer._dispatcher: the thread that made the newest
    down,       \* YowNetworkLayer.state is STATE_DISCONNECTED
    connected,  \* YowNetworkLayer.connected
    reboot,     \* AxolotlControlLayer._reboot_connection
    quit,       \* SendLayer.userQuit
    refused,    \* SendLayer.detect40x
    closing,    \* other threads that closed the socket and not yet tested the state
    telling,    \* other threads that tested it and not yet queued the event
    failed,     \* stacks whose connect raised
    late,       \* stacks one of whose connections was ended twice (history)
    losses, drops

network == <<dispatcher, down, connected>>
flags == <<reboot, quit, refused, failed>>
others == <<closing, telling>>
bounds == <<losses, drops>>
vars == <<queue, pc, serving, open, nested, network, flags, others, late, bounds>>

Label == {"start", "connect", "serve", "closing", "telling", "loop", "handle",
          "upper", "delay", "ended"}

TypeOK ==
    /\ queue \in Seq(Stack)
    /\ pc \in [Stack -> Label]
    /\ serving \in [Stack -> Stack] /\ dispatcher \in [Stack -> Stack]
    /\ open \in [Stack -> BOOLEAN] /\ nested \in [Stack -> BOOLEAN]
    /\ down \in [Stack -> BOOLEAN] /\ connected \in [Stack -> BOOLEAN]
    /\ reboot \in SUBSET Stack /\ quit \in SUBSET Stack /\ refused \in SUBSET Stack
    /\ closing \in [Stack -> Nat] /\ telling \in [Stack -> Nat]
    /\ failed \in SUBSET Stack /\ late \in SUBSET Stack
    /\ losses \in Nat /\ drops \in Nat

Init ==
    /\ queue = <<>>
    /\ pc = [t \in Stack |-> "start"]
    /\ serving = [t \in Stack |-> t] /\ dispatcher = [s \in Stack |-> s]
    /\ open = [t \in Stack |-> FALSE] /\ nested = [t \in Stack |-> FALSE]
    /\ down = [s \in Stack |-> TRUE] /\ connected = [s \in Stack |-> FALSE]
    /\ reboot = {} /\ quit = {} /\ refused = {}
    /\ closing = [s \in Stack |-> 0] /\ telling = [s \in Stack |-> 0]
    /\ failed = {} /\ late = {}
    /\ losses = 0 /\ drops = 0

Goto(t, label) == pc' = [pc EXCEPT ![t] = label]

\* The dispatcher that destroyConnection closes is the newest of the stack.
Holds(t, s) == serving[t] = s /\ dispatcher[s] = t /\ open[t]

-----------------------------------------------------------------------------
(* Connecting.                                                             *)

\* createConnection: a new dispatcher, whose connect runs asyncore.loop ...
Connects(t, s) ==
    /\ dispatcher' = [dispatcher EXCEPT ![s] = t]
    /\ down' = [down EXCEPT ![s] = FALSE]
    /\ open' = [open EXCEPT ![t] = TRUE]
    /\ Goto(t, "connect")
    /\ UNCHANGED <<quit, failed>>

\* ... or raises: YowBot.run ends the thread, for an OSError after it has quit
\* the thread's own account, whichever stack was being connected.
ConnectRaises(t, s) ==
    /\ Cardinality(failed) < MaxFailures
    /\ dispatcher' = [dispatcher EXCEPT ![s] = t]
    /\ down' = [down EXCEPT ![s] = FALSE]
    /\ failed' = failed \cup {s}
    /\ quit' \in {quit, quit \cup {t}}
    /\ Goto(t, "ended")
    /\ UNCHANGED open

Connecting(t, s) == Connects(t, s) \/ ConnectRaises(t, s)

\* YowBot.run: the first CONNECT, before the loop.
Start(t) ==
    /\ pc[t] = "start"
    /\ Connecting(t, serving[t])
    /\ UNCHANGED <<queue, serving, nested, connected, reboot, refused, others, late, bounds>>

\* handle_connect.  A connection closed meanwhile passes for connected.
Connected(t) ==
    LET s == serving[t] IN
    /\ pc[t] = "connect"
    /\ down' = [down EXCEPT ![s] = FALSE]
    /\ connected' = [connected EXCEPT ![s] = TRUE]
    /\ late' = IF open[t] THEN late ELSE late \cup {s}
    /\ Goto(t, "serve")
    /\ UNCHANGED <<queue, serving, open, nested, dispatcher, flags, others, bounds>>

-----------------------------------------------------------------------------
(* Ending a connection.                                                    *)

\* The thread comes back from asyncore.loop: to YowStack.loop, or to the event
\* that a nested connect interrupted, whose connection announced its own end.
Leave(t) ==
    /\ Goto(t, IF nested[t] THEN "upper" ELSE "loop")
    /\ nested' = [nested EXCEPT ![t] = FALSE]
    /\ late' = IF nested[t] THEN late \cup {serving[t]} ELSE late

\* Back from the handler of a node, the thread goes on while its socket is open.
Resume(t) ==
    IF open[t] THEN Goto(t, "serve") /\ UNCHANGED <<nested, late>> ELSE Leave(t)

\* asyncore.loop ends because another thread closed the socket.
SocketGone(t) ==
    /\ pc[t] \in {"connect", "serve"} /\ ~open[t]
    /\ Leave(t)
    /\ UNCHANGED <<queue, serving, open, network, flags, others, bounds>>

\* handle_close on the serving thread: the peer closed, or a read found the
\* socket closed by another thread, which announces the loss as well.
HandleClose(t) ==
    /\ pc[t] \in {"connect", "serve"}
    /\ open[t] => losses < MaxLosses
    /\ losses' = IF open[t] THEN losses + 1 ELSE losses
    /\ late' = IF open[t] THEN late ELSE late \cup {serving[t]}
    /\ open' = [open EXCEPT ![t] = FALSE]
    /\ Goto(t, "closing")
    /\ UNCHANGED <<queue, serving, nested, network, flags, others, drops>>

\* destroyConnection: DISCONNECTING, also where nothing is connected any more,
\* then the newest dispatcher closes.
Destroy(s) ==
    /\ down' = [down EXCEPT ![s] = FALSE]
    /\ open' = [t \in Stack |-> open[t] /\ ~Holds(t, s)]
    /\ late' = IF \E t \in Stack : Holds(t, s) THEN late ELSE late \cup {s}
    /\ UNCHANGED <<dispatcher, connected>>

\* The serving thread asks for the DISCONNECT: a refused login, a 503, or
\* uploaded keys that want a reboot of the connection.
SelfDrop(t) ==
    LET s == serving[t] IN
    /\ pc[t] = "serve"
    /\ drops < MaxDrops /\ drops' = drops + 1
    /\ \/ refused' = refused \cup {s} /\ UNCHANGED reboot
       \/ reboot' = reboot \cup {s} /\ UNCHANGED refused
       \/ UNCHANGED <<refused, reboot>>
    /\ Destroy(s)
    /\ Goto(t, "closing")
    /\ UNCHANGED <<queue, serving, nested, quit, failed, others, losses>>

\* onDisconnected on the serving thread: the test of the state ...
Test(t) ==
    /\ pc[t] = "closing"
    /\ IF down[serving[t]]
       THEN Resume(t)
       ELSE Goto(t, "telling") /\ UNCHANGED <<nested, late>>
    /\ UNCHANGED <<queue, serving, open, network, flags, others, bounds>>

\* Mutant of Announce: both branches of the close announce the loss.
AnnounceTwice(s) ==
    /\ down' = [down EXCEPT ![s] = TRUE]
    /\ connected' = [connected EXCEPT ![s] = FALSE]
    /\ queue' = queue \o <<s, s>>
    /\ UNCHANGED dispatcher

\* Mutant of Announce: the event is emitted at once instead of queued.
AnnounceNothing(s) ==
    /\ down' = [down EXCEPT ![s] = TRUE]
    /\ connected' = [connected EXCEPT ![s] = FALSE]
    /\ UNCHANGED <<queue, dispatcher>>

\* ... then its assignment, and the event detached to the queue.
Announce(s) ==
    /\ down' = [down EXCEPT ![s] = TRUE]
    /\ connected' = [connected EXCEPT ![s] = FALSE]
    /\ queue' = Append(queue, s)
    /\ UNCHANGED dispatcher

Tell(t) ==
    /\ pc[t] = "telling"
    /\ Announce(serving[t])
    /\ Resume(t)
    /\ UNCHANGED <<serving, open, flags, others, bounds>>

\* Another thread's DISCONNECT, at any time after the first connect: waitPong
\* with three pings unanswered, a failed handshake, the QR thread.
DropClose(s) ==
    /\ pc[s] # "start"
    /\ drops < MaxDrops /\ drops' = drops + 1
    /\ Destroy(s)
    /\ closing' = [closing EXCEPT ![s] = @ + 1]
    /\ UNCHANGED <<queue, pc, serving, nested, flags, telling, losses>>

\* YowBot.disconnect on an application thread: userQuit comes first.
QuitClose(s) ==
    /\ s \in Quitters \ quit /\ pc[s] # "start"
    /\ quit' = quit \cup {s}
    /\ Destroy(s)
    /\ closing' = [closing EXCEPT ![s] = @ + 1]
    /\ UNCHANGED <<queue, pc, serving, nested, reboot, refused, failed, telling, bounds>>

DropTest(s) ==
    /\ closing[s] > 0
    /\ closing' = [closing EXCEPT ![s] = @ - 1]
    /\ telling' = [telling EXCEPT ![s] = IF down[s] THEN @ ELSE @ + 1]
    /\ UNCHANGED <<queue, pc, serving, open, nested, network, flags, late, bounds>>

DropTell(s) ==
    /\ telling[s] > 0
    /\ telling' = [telling EXCEPT ![s] = @ - 1]
    /\ Announce(s)
    /\ UNCHANGED <<pc, serving, open, nested, flags, closing, late, bounds>>

-----------------------------------------------------------------------------
(* Continuing.                                                             *)

\* Mutant of Take: an empty queue is taken for a callback of no stack.
TakeNothing(t) ==
    /\ pc[t] = "loop"
    /\ serving' = [serving EXCEPT ![t] = IF queue = <<>> THEN "none" ELSE Head(queue)]
    /\ queue' = IF queue = <<>> THEN queue ELSE Tail(queue)
    /\ Goto(t, "handle")
    /\ UNCHANGED <<open, nested, network, flags, others, late, bounds>>

\* YowStack.loop: get(False) ...
Take(t) ==
    /\ pc[t] = "loop" /\ queue # <<>>
    /\ serving' = [serving EXCEPT ![t] = Head(queue)]
    /\ queue' = Tail(queue)
    /\ Goto(t, "handle")
    /\ UNCHANGED <<open, nested, network, flags, others, late, bounds>>

\* ... and Queue.Empty ends the loop, and with it the thread.
LoopEmpty(t) ==
    /\ pc[t] = "loop" /\ queue = <<>>
    /\ Goto(t, "ended")
    /\ UNCHANGED <<queue, serving, open, nested, network, flags, others, late, bounds>>

\* AxolotlControlLayer.on_disconnected: a reboot connects here and now, and
\* asks nobody whether the stack is connected.
Reboot(t) ==
    LET s == serving[t] IN
    /\ pc[t] = "handle" /\ s \in reboot
    /\ reboot' = reboot \ {s}
    /\ nested' = [nested EXCEPT ![t] = TRUE]
    /\ Connecting(t, s)
    /\ UNCHANGED <<queue, serving, connected, refused, others, late, bounds>>

\* Mutant of OnDisconnected: the event is handled, nothing reconnects.
OnDisconnectedOnly(t) ==
    LET s == serving[t] IN
    /\ pc[t] = "upper" \/ (pc[t] = "handle" /\ s \notin reboot)
    /\ Goto(t, IF s \in quit \cup refused THEN "ended" ELSE "loop")
    /\ UNCHANGED <<queue, serving, open, nested, network, flags, others, late, bounds>>

\* SendLayer.onDisconnected: Utils.exit ends the thread that runs it; the
\* other branch sleeps a second before it reconnects.
OnDisconnected(t) ==
    LET s == serving[t] IN
    /\ pc[t] = "upper" \/ (pc[t] = "handle" /\ s \notin reboot)
    /\ Goto(t, IF s \in quit \cup refused THEN "ended" ELSE "delay")
    /\ UNCHANGED <<queue, serving, open, nested, network, flags, others, late, bounds>>

\* The CONNECT after the sleep; the network layer ignores it when connected.
Reconnect(t) ==
    LET s == serving[t] IN
    /\ pc[t] = "delay"
    /\ IF connected[s]
       THEN Goto(t, "loop") /\ UNCHANGED <<open, dispatcher, down, quit, failed>>
       ELSE Connecting(t, s)
    /\ UNCHANGED <<queue, serving, nested, connected, reboot, refused, others, late, bounds>>

ThreadStep(t) ==
    \/ Start(t) \/ SocketGone(t) \/ Test(t) \/ Tell(t) \/ Take(t) \/ LoopEmpty(t)
    \/ Reboot(t) \/ OnDisconnected(t) \/ Reconnect(t)

Environment(t) ==
    \/ Connected(t) \/ HandleClose(t) \/ SelfDrop(t) \/ DropClose(t) \/ QuitClose(t)

OtherStep(s) == DropTest(s) \/ DropTell(s)

Next == \E t \in Stack : ThreadStep(t) \/ Environment(t) \/ OtherStep(t)

Spec == Init /\ [][Next]_vars

\* Threads run; a drop that began is carried through; no loss is required.
FairSpec ==
    Spec /\ \A t \in Stack : WF_vars(ThreadStep(t)) /\ WF_vars(OtherStep(t))

-----------------------------------------------------------------------------
\* The thread works for the stack: it has its connection, announces the end of
\* it, or runs its continuation.
Has(t, s) ==
    /\ serving[t] = s
    /\ \/ pc[t] \in {"start", "closing", "telling", "handle", "upper", "delay"}
       \/ open[t]

Pending(s) == closing[s] + telling[s] > 0

\* A stack's connection is opened, run and closed by one thread at a time,
\* whichever took its continuation: two would both call its layers.  Only a
\* second end of one connection breaks this: a DISCONNECT of what is already
\* closed, a read of a socket closed by another thread, or a rebooted
\* connection whose interrupted event goes on.
OneThreadPerStack ==
    \A s \in Stack \ late, t, u \in Stack : Has(t, s) /\ Has(u, s) => t = u

\* A loss is queued once, and not while a thread still works for the stack or
\* is about to announce its loss: one loss is answered by one reconnect, where
\* no connection is ended twice.
QueuedOnce ==
    \A i \in 1..Len(queue) : queue[i] \notin late =>
        /\ \A j \in 1..Len(queue) : queue[j] = queue[i] => j = i
        /\ \A t \in Stack : ~Has(t, queue[i])
        /\ ~Pending(queue[i])

\* No account was quit or refused, no connect raised, no connection ended twice.
Calm == quit = {} /\ refused = {} /\ failed = {} /\ late = {}

\* A thread is about to find the queue empty, and to end for good.
Searching == queue = <<>> /\ \E t \in Stack : pc[t] = "loop"

\* A thread ends only while another one has closed a socket and not yet queued
\* the continuation: that is the one way to have fewer threads than stacks.
NoOrphan == Calm /\ Searching => \E s \in Stack : Pending(s)

Live(s) == \E t \in Stack : serving[t] = s /\ open[t]

\* A lost connection is opened again, by whichever thread, as long as all is
\* calm and no thread looks at the queue in the window that NoOrphan names.
Reconnects ==
    [](Calm /\ ~(Searching /\ \E s \in Stack : Pending(s)))
        => \A s \in Stack : ~Live(s) ~> Live(s)

\* "Nao ha compartilhamento de estado entre contas"
\* (docs/MULTIPLE_ACCOUNTS.md:154): the quit of one account does not keep
\* another from opening its connection again.
QuitHarmsNobody == \A s \in Stack \ Quitters : ~Live(s) ~> Live(s)
=============================================================================
