-------------------------- MODULE NoiseConnection --------------------------
(***************************************************************************)
(* One bot's connection: YowNetworkLayer, YowNoiseLayer, the WANoise-      *)
(* Protocol state machine and the handshake worker threads that            *)
(* YowNoiseLayer.on_auth starts, one for each connection.                  *)
(*                                                                         *)
(* The threads are Net (the thread inside asyncore.loop / YowStack.loop),  *)
(* the workers, and Pinger (the ping thread, which drops the connection    *)
(* from outside Net).  They share the protocol machine, the incoming       *)
(* segment queue and _flush_lock; all of these outlive a connection.       *)
(*                                                                         *)
(* A segment is one frame from the server: [for |-> w, n |-> k], readable  *)
(* only with the keys of worker w's handshake; k = 0 is the server hello,  *)
(* k >= 1 the k-th transport frame (the cipher's nonce).  The queues of    *)
(* BlockingQueueSegmentedStream hand a segment to the thread that took it  *)
(* from the incoming queue, so they have no state of their own here.       *)
(***************************************************************************)
EXTENDS Naturals, Sequences

CONSTANTS
    MaxConn,        \* bound: connections opened in one behaviour
    MaxData,        \* bound: transport frames the server sends per handshake
    UnsettledDrops, \* may the link drop before the handshake has finished?
    PingDrops,      \* may the ping thread drop the connection (once)?
    UpperRaises     \* may a layer above raise while it handles a frame?

ASSUME NoiseAssumption ==
    /\ MaxConn \in Nat \ {0}
    /\ MaxData \in Nat
    /\ UnsettledDrops \in BOOLEAN
    /\ PingDrops \in BOOLEAN
    /\ UpperRaises \in BOOLEAN

Worker  == 1..MaxConn        \* the worker that connection w's EVENT_AUTH starts
None    == 0                 \* no socket, no transport, no server hello
Net     == MaxConn + 1
Pinger  == MaxConn + 2
Free    == 0                 \* _flush_lock is not held
Thread  == Worker \cup {Net, Pinger}
Segment == [for : Worker, n : 0..MaxData]
NoSegment == [for |-> None, n |-> 0]

VARIABLES
    conn,       \* connections opened so far
    sock,       \* the connection whose socket is open, or None
    state,      \* YowNetworkLayer.state
    connected,  \* YowNetworkLayer.connected
    pending,    \* detached DISCONNECTED continuations queued for Net
    mstate,     \* state of the protocol's machine
    transport,  \* WANoiseProtocol._transport: the worker whose keys it has
    incoming,   \* YowNoiseLayer._incoming_segments_queue
    lock,       \* holder of YowNoiseLayer._flush_lock
    pc,         \* where each thread is
    using,      \* transport a thread evaluated before it called recv
    held,       \* segment a thread has decrypted and not yet handed up
    rn,         \* frames decrypted so far with each handshake's keys
    lastUp,     \* last frame of each handshake handed to the layer above
    server      \* the remote end of the open connection

netVars   == <<conn, sock, state, connected, pending>>
flushVars == <<lock, using, held, rn, lastUp>>
vars == <<netVars, mstate, transport, incoming, flushVars, pc, server>>

InFlush == {"loop", "recv", "take", "deliver"}
PC == InFlush \cup
      {"none", "reset", "drop", "start", "hello", "wait", "install", "finish",
       "fail", "report", "closing", "acquire", "done", "dead",
       "idle", "connect", "auth", "poll", "check", "drain", "stopped"}

ServerState == [hello : Worker \cup {None}, answered : BOOLEAN,
                ready : BOOLEAN, sent : 0..MaxData]
NoServer == [hello |-> None, answered |-> FALSE, ready |-> FALSE, sent |-> 0]

TypeOK ==
    /\ conn \in 0..MaxConn
    /\ sock \in 0..MaxConn
    /\ state \in {"disconnected", "connected", "disconnecting"}
    /\ connected \in BOOLEAN
    /\ pending \in Nat
    /\ mstate \in {"init", "handshake", "transport", "error"}
    /\ transport \in Worker \cup {None}
    /\ incoming \in Seq(Segment)
    /\ lock \in Thread \cup {Free}
    /\ pc \in [Thread -> PC]
    /\ using \in [Thread -> Worker \cup {None}]
    /\ held \in [Thread -> Segment \cup {NoSegment}]
    /\ rn \in [Worker -> 0..MaxData]
    /\ lastUp \in [Worker -> 0..MaxData]
    /\ server \in ServerState

Init ==
    /\ conn = 0 /\ sock = None /\ state = "disconnected"
    /\ connected = FALSE /\ pending = 0
    /\ mstate = "init" /\ transport = None /\ incoming = <<>>
    /\ lock = Free
    /\ pc = [t \in Thread |-> IF t = Net THEN "connect"
                            ELSE IF t = Pinger THEN "idle" ELSE "none"]
    /\ using = [t \in Thread |-> None]
    /\ held = [t \in Thread |-> NoSegment]
    /\ rn = [w \in Worker |-> 0] /\ lastUp = [w \in Worker |-> 0]
    /\ server = NoServer

Goto(t, label) == pc' = [pc EXCEPT ![t] = label]

-----------------------------------------------------------------------------
(* Network layer.                                                          *)

\* onDisconnected: one detached continuation unless already DISCONNECTED.
OnDisconnected ==
    /\ pending' = IF state # "disconnected" THEN pending + 1 ELSE pending
    /\ connected' = IF state # "disconnected" THEN FALSE ELSE connected
    /\ state' = "disconnected"

\* handle_close on the thread that runs the socket's loop.
HandleClose == sock' = None /\ OnDisconnected /\ UNCHANGED conn

Settled == mstate = "transport" /\ \A w \in Worker : pc[w] \in {"none", "done"}

\* The peer closes: recv returns no data and the dispatcher closes.
PeerClose ==
    /\ pc[Net] = "poll" /\ sock # None
    /\ UnsettledDrops \/ Settled
    /\ HandleClose
    /\ UNCHANGED <<mstate, transport, incoming, flushVars, pc, server>>

\* destroyConnection from another thread, up to the closing of the socket.
DestroyConnection(t) ==
    /\ state' = "disconnecting" /\ sock' = None
    /\ Goto(t, "closing")
    /\ UNCHANGED <<conn, connected, pending, mstate, transport, incoming,
                   flushVars, server>>

PingTimeout ==
    /\ PingDrops /\ pc[Pinger] = "idle" /\ conn > 0
    /\ DestroyConnection(Pinger)

\* The rest of destroyConnection: the DISCONNECTED event is queued.
EnqueueDisconnected(t) ==
    /\ pc[t] = "closing"
    /\ OnDisconnected
    /\ Goto(t, "done")
    /\ UNCHANGED <<conn, sock, mstate, transport, incoming, flushVars, server>>

\* createConnection succeeds and reports onConnected, or fails at once.
Connect ==
    /\ pc[Net] = "connect" /\ conn < MaxConn
    /\ ~connected
    /\ conn' = conn + 1
    /\ \/ /\ sock' = conn + 1 /\ state' = "connected" /\ connected' = TRUE
          /\ Goto(Net, "auth")
          /\ UNCHANGED pending
       \/ /\ UnsettledDrops
          /\ sock' = None /\ state' = "disconnected" /\ connected' = FALSE
          /\ pending' = pending + 1
          /\ Goto(Net, "poll")
    /\ server' = NoServer
    /\ UNCHANGED <<mstate, transport, incoming, flushVars>>

\* onConnectLayerEvent while still connected: the event is ignored.
ConnectIgnored ==
    /\ pc[Net] = "connect" /\ connected
    /\ Goto(Net, "drain")
    /\ UNCHANGED <<netVars, mstate, transport, incoming, flushVars, server>>

\* asyncore.loop returns once the socket is gone; YowStack.loop then takes a
\* continuation, or returns for good when it finds the queue empty.
LoopEnds ==
    /\ pc[Net] = "poll" /\ sock = None
    /\ Goto(Net, "drain")
    /\ UNCHANGED <<netVars, mstate, transport, incoming, flushVars, server>>

\* Mutant of Drain: an empty queue does not end the loop.
DrainAlways ==
    /\ pc[Net] = "drain" /\ pending' = pending - 1 /\ Goto(Net, "reset")
    /\ UNCHANGED <<conn, sock, state, connected, mstate, transport, incoming,
                   flushVars, server>>

Drain ==
    /\ pc[Net] = "drain"
    /\ \/ pending > 0 /\ pending' = pending - 1 /\ Goto(Net, "reset")
       \/ pending = 0 /\ pending' = pending /\ Goto(Net, "stopped")
    /\ UNCHANGED <<conn, sock, state, connected, mstate, transport, incoming,
                   flushVars, server>>

-----------------------------------------------------------------------------
(* WANoiseProtocol.reset, run by Net in on_disconnected and by a worker    *)
(* when it starts: the machine first, then the transport.                  *)

\* Mutant of ResetMachine: the transport goes, the machine stays.
ResetTransportOnly(t) ==
    /\ pc[t] = "reset" /\ Goto(t, "drop")
    /\ UNCHANGED <<netVars, mstate, transport, incoming, flushVars, server>>

ResetMachine(t) ==
    /\ pc[t] = "reset"
    /\ mstate' = "init"
    /\ Goto(t, "drop")
    /\ UNCHANGED <<netVars, transport, incoming, flushVars, server>>

DropTransport(t) ==
    /\ pc[t] = "drop"
    /\ transport' = None
    /\ Goto(t, IF t = Net THEN "connect" ELSE "start")
    /\ UNCHANGED <<netVars, mstate, incoming, flushVars, server>>

-----------------------------------------------------------------------------
(* EVENT_AUTH and the handshake worker.                                    *)

OnAuth ==
    /\ pc[Net] = "auth"
    /\ pc' = IF mstate = "handshake"
             THEN [pc EXCEPT ![Net] = "poll"]
             ELSE [pc EXCEPT ![Net] = "poll", ![conn] = "reset"]
    /\ UNCHANGED <<netVars, mstate, transport, incoming, flushVars, server>>

\* machine.start(); any other state raises MachineError, which ends the thread.
WorkerStart(w) ==
    /\ pc[w] = "start"
    /\ \/ /\ mstate \in {"init", "error"}
          /\ mstate' = "handshake" /\ Goto(w, "hello")
       \/ /\ mstate \notin {"init", "error"}
          /\ mstate' = mstate /\ Goto(w, "dead")
    /\ UNCHANGED <<netVars, transport, incoming, flushVars, server>>

\* The client hello goes out on whatever connection is open now.
WorkerHello(w) ==
    /\ pc[w] = "hello"
    /\ server' = IF connected /\ sock # None /\ server.hello = None
                 THEN [server EXCEPT !.hello = w] ELSE server
    /\ Goto(w, "wait")
    /\ UNCHANGED <<netVars, mstate, transport, incoming, flushVars>>

\* The worker blocks on the incoming queue.  Its own server hello completes
\* the handshake (with a client finish when the server fell back to XX); any
\* other segment fails to parse or to decrypt.
WorkerReceive(w) ==
    /\ pc[w] = "wait" /\ incoming # <<>>
    /\ incoming' = Tail(incoming)
    /\ \/ /\ Head(incoming) = [for |-> w, n |-> 0]
          /\ server' = IF connected /\ sock # None /\ server.hello = w
                       THEN [server EXCEPT !.ready = TRUE] ELSE server
          /\ Goto(w, "install")
       \/ /\ Head(incoming) # [for |-> w, n |-> 0]
          /\ Goto(w, "fail")
          /\ UNCHANGED server
    /\ UNCHANGED <<netVars, mstate, transport, flushVars>>

InstallTransport(w) ==
    /\ pc[w] = "install"
    /\ transport' = w
    /\ Goto(w, "finish")
    /\ UNCHANGED <<netVars, mstate, incoming, flushVars, server>>

\* Mutant of WorkerFinish: entering TRANSPORT flushes nothing.
WorkerFinishQuietly(w) ==
    /\ pc[w] = "finish" /\ mstate = "handshake"
    /\ mstate' = "transport" /\ Goto(w, "done")
    /\ UNCHANGED <<netVars, transport, incoming, flushVars, server>>

\* machine.finish(); entering TRANSPORT flushes what arrived meanwhile.
WorkerFinish(w) ==
    /\ pc[w] = "finish"
    /\ \/ /\ mstate = "handshake"
          /\ mstate' = "transport" /\ Goto(w, "acquire")
       \/ /\ mstate = "init"
          /\ mstate' = "error" /\ Goto(w, "done")
       \/ /\ mstate \in {"transport", "error"}
          /\ mstate' = mstate /\ Goto(w, "dead")
    /\ UNCHANGED <<netVars, transport, incoming, flushVars, server>>

\* machine.fail(); from any other state MachineError replaces the failure.
WorkerFail(w) ==
    /\ pc[w] = "fail"
    /\ \/ /\ mstate \in {"handshake", "transport"}
          /\ mstate' = "error" /\ Goto(w, "report")
       \/ /\ mstate \notin {"handshake", "transport"}
          /\ mstate' = mstate /\ Goto(w, "dead")
    /\ UNCHANGED <<netVars, transport, incoming, flushVars, server>>

\* on_handshake_finished(e): the "failure" node sent up makes the
\* authentication layer disconnect whatever connection is open now.
WorkerReport(w) == pc[w] = "report" /\ DestroyConnection(w)

-----------------------------------------------------------------------------
(* Incoming segments.                                                      *)

\* YowNoiseLayer.receive puts a segment of the server in the queue: the
\* answer to the first client hello (IK, or XX which waits for the client
\* finish), then transport frames.
NetReceive ==
    /\ pc[Net] = "poll" /\ sock # None /\ server.hello # None
    /\ \/ /\ ~server.answered
          /\ \E ik \in BOOLEAN :
                server' = [server EXCEPT !.answered = TRUE, !.ready = ik]
          /\ incoming' = Append(incoming, [for |-> server.hello, n |-> 0])
       \/ /\ server.ready /\ server.sent < MaxData
          /\ server' = [server EXCEPT !.sent = @ + 1]
          /\ incoming' = Append(incoming, [for |-> server.hello,
                                           n |-> server.sent + 1])
    /\ Goto(Net, "check")
    /\ UNCHANGED <<netVars, mstate, transport, flushVars>>

\* Mutant of NetCheck: the test of the machine's state is inverted.
NetCheckInverted ==
    /\ pc[Net] = "check"
    /\ Goto(Net, IF mstate = "handshake" THEN "acquire" ELSE "poll")
    /\ UNCHANGED <<netVars, mstate, transport, incoming, flushVars, server>>

\* ... and flushes the queue unless a handshake is reading from it.
NetCheck ==
    /\ pc[Net] = "check"
    /\ Goto(Net, IF mstate = "handshake" THEN "poll" ELSE "acquire")
    /\ UNCHANGED <<netVars, mstate, transport, incoming, flushVars, server>>

\* Mutant of FlushAcquire: no lock.
FlushUnlocked(t) ==
    /\ pc[t] = "acquire"
    /\ lock' = t
    /\ Goto(t, "loop")
    /\ UNCHANGED <<netVars, mstate, transport, incoming, using, held, rn,
                   lastUp, server>>

FlushAcquire(t) ==
    /\ pc[t] = "acquire" /\ lock = Free
    /\ lock' = t
    /\ Goto(t, "loop")
    /\ UNCHANGED <<netVars, mstate, transport, incoming, using, held, rn,
                   lastUp, server>>

\* Mutant of FlushLoop: the lock is not released.
FlushLoopKeepsLock(t) ==
    /\ pc[t] = "loop"
    /\ Goto(t, IF incoming # <<>> THEN "recv"
               ELSE IF t = Net THEN "poll" ELSE "done")
    /\ UNCHANGED <<netVars, mstate, transport, incoming, flushVars, server>>

FlushLoop(t) ==
    /\ pc[t] = "loop"
    /\ \/ /\ incoming # <<>> /\ Goto(t, "recv") /\ UNCHANGED lock
       \/ /\ incoming = <<>> /\ lock' = Free
          /\ Goto(t, IF t = Net THEN "poll" ELSE "done")
    /\ UNCHANGED <<netVars, mstate, transport, incoming, using, held, rn,
                   lastUp, server>>

\* An exception leaves the flush without releasing the lock: a worker dies of
\* it, Net's dispatcher closes the socket and goes on.
Raise(t) ==
    \/ t = Net /\ HandleClose /\ Goto(Net, "poll")
    \/ t # Net /\ Goto(t, "dead") /\ UNCHANGED netVars

\* machine.receive() and the evaluation of _transport.
FlushRecv(t) ==
    /\ pc[t] = "recv"
    /\ \/ /\ mstate = "transport" /\ transport # None
          /\ using' = [using EXCEPT ![t] = transport]
          /\ Goto(t, "take") /\ UNCHANGED netVars
       \/ /\ mstate # "transport" \/ transport = None
          /\ Raise(t) /\ UNCHANGED using
    /\ UNCHANGED <<mstate, transport, incoming, lock, held, rn, lastUp, server>>

Readable(w, s) == s.for = w /\ s.n = rn[w] + 1

\* transport.recv: blocks for a segment, then decrypts it.
FlushTake(t) ==
    /\ pc[t] = "take" /\ incoming # <<>>
    /\ incoming' = Tail(incoming)
    /\ LET s == Head(incoming) w == using[t] IN
       \/ /\ Readable(w, s)
          /\ held' = [held EXCEPT ![t] = s]
          /\ rn' = [rn EXCEPT ![w] = s.n]
          /\ Goto(t, "deliver") /\ UNCHANGED netVars
       \/ /\ ~Readable(w, s)
          /\ Raise(t) /\ UNCHANGED <<held, rn>>
    /\ UNCHANGED <<mstate, transport, lock, using, lastUp, server>>

\* toUpper of the plaintext.
FlushDeliver(t) ==
    /\ pc[t] = "deliver"
    /\ lastUp' = [lastUp EXCEPT ![held[t].for] = held[t].n]
    /\ held' = [held EXCEPT ![t] = NoSegment]
    /\ \/ Goto(t, "loop") /\ UNCHANGED netVars
       \/ UpperRaises /\ Raise(t)
    /\ UNCHANGED <<mstate, transport, incoming, lock, using, rn, server>>

-----------------------------------------------------------------------------
WorkerStep(w) ==
    \/ ResetMachine(w) \/ DropTransport(w) \/ WorkerStart(w) \/ WorkerHello(w)
    \/ WorkerReceive(w) \/ InstallTransport(w) \/ WorkerFinish(w)
    \/ WorkerFail(w) \/ WorkerReport(w)

FlushStep(t) ==
    FlushAcquire(t) \/ FlushLoop(t) \/ FlushRecv(t) \/ FlushTake(t)
    \/ FlushDeliver(t)

NetStep ==
    \/ Connect \/ ConnectIgnored \/ LoopEnds \/ Drain
    \/ ResetMachine(Net) \/ DropTransport(Net) \/ OnAuth
    \/ NetReceive \/ NetCheck

Next ==
    \/ NetStep \/ FlushStep(Net)
    \/ \E w \in Worker : WorkerStep(w) \/ FlushStep(w) \/ EnqueueDisconnected(w)
    \/ PingTimeout \/ EnqueueDisconnected(Pinger)
    \/ PeerClose

Spec == Init /\ [][Next]_vars

-----------------------------------------------------------------------------
(* Properties.                                                             *)

\* _flush_incoming_buffer runs in two threads; only the holder of _flush_lock
\* is between its acquire and its release.
FlushExclusive ==
    \A t \in Thread : pc[t] \in InFlush => lock = t

\* Whatever thread flushes, a layer above sees the frames of one handshake in
\* the order the server sent them: none twice, none skipped, none overtaken.
InOrder == [][\A w \in Worker : lastUp'[w] \in {lastUp[w], lastUp[w] + 1}]_vars

\* Why: a frame is counted in rn and not yet in lastUp only while the thread
\* that decrypted it stands at "deliver", and that thread has the lock.
Handing(t, w) ==
    /\ pc[t] = "deliver" /\ held[t] = [for |-> w, n |-> rn[w]]
    /\ rn[w] = lastUp[w] + 1
InOrderInv ==
    /\ FlushExclusive
    /\ \A w \in Worker : rn[w] = lastUp[w] \/ \E t \in Thread : Handing(t, w)
    /\ \A t \in Thread : pc[t] = "deliver" => \E w \in Worker : Handing(t, w)

\* ... and a connection's worker has not run before its EVENT_AUTH.
Unstarted ==
    /\ \A w \in Worker : w > conn => pc[w] = "none"
    /\ pc[Net] = "auth" => conn \in Worker /\ pc[conn] = "none"

\* The hand-over of the queue from the handshake to Net loses no wakeup: in
\* TRANSPORT with every thread back in its loop no frame waits in the queue.
Quiet == lock = Free /\ pc[Net] = "poll" /\ \A w \in Worker : pc[w] \in {"none", "done"}
NoStrandedFrame == Quiet /\ mstate = "transport" => incoming = <<>>

\* A thread that left the flush does not keep _flush_lock with it.
LockReturned == \A t \in Thread : lock = t => pc[t] \in InFlush
=============================================================================
