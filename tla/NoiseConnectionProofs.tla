----------------------- MODULE NoiseConnectionProofs -----------------------
(***************************************************************************)
(* Proofs about NoiseConnection, for every number of connections and of    *)
(* frames and whatever drops, fails or raises: type correctness, the       *)
(* mutual exclusion of _flush_incoming_buffer, and the order of the frames *)
(* it hands up.  Then, where the link drops only between exchanges, that   *)
(* no frame is left waiting and the lock always comes back.                *)
(***************************************************************************)
EXTENDS MCNoise, TLAPS

\* The threads are different: Net and Pinger are no workers, and none is 0.
LEMMA Threads ==
    /\ Net \notin Worker /\ Pinger \notin Worker /\ Net # Pinger
    /\ 0 \notin Thread /\ Worker \subseteq Thread
    /\ Net \in Thread /\ Pinger \in Thread
    /\ MaxConn \in Nat \ {0} /\ MaxData \in Nat
  BY NoiseAssumption DEF Net, Pinger, Worker, Thread

-----------------------------------------------------------------------------
(* Type correctness: one lemma per group of variables that actions share.  *)

NetType ==
    /\ conn \in 0..MaxConn /\ sock \in 0..MaxConn
    /\ state \in {"disconnected", "connected", "disconnecting"}
    /\ connected \in BOOLEAN /\ pending \in Nat

\* A thread's pc only takes the labels of PC.
LEMMA GotoType ==
    ASSUME TypeOK, NEW t \in Thread, NEW l \in PC, Goto(t, l)
    PROVE  pc' \in [Thread -> PC]
  BY DEF TypeOK, Goto

LEMMA Labels ==
    {"none", "reset", "drop", "start", "hello", "wait", "install", "finish",
     "fail", "report", "closing", "acquire", "done", "dead", "idle", "connect",
     "auth", "poll", "check", "drain", "stopped", "loop", "recv", "take",
     "deliver"} \subseteq PC
  BY DEF PC, InFlush

\* onDisconnected keeps the network layer's variables in their types.
LEMMA OnDisconnectedType ==
    ASSUME TypeOK, OnDisconnected
    PROVE  /\ state' \in {"disconnected", "connected", "disconnecting"}
           /\ connected' \in BOOLEAN /\ pending' \in Nat
  <1>1. pending' \in Nat
        BY DEF TypeOK, OnDisconnected
  <1>2. connected' \in BOOLEAN
        BY DEF TypeOK, OnDisconnected
  <1>3. QED BY <1>1, <1>2 DEF OnDisconnected

\* An exception out of the flush changes nothing but pc and the network layer.
LEMMA RaiseType ==
    ASSUME TypeOK, NEW t \in Thread, Raise(t)
    PROVE  pc' \in [Thread -> PC] /\ NetType'
  <1>1. CASE t = Net /\ HandleClose /\ Goto(Net, "poll")
        BY <1>1, GotoType, Labels, OnDisconnectedType, Threads
           DEF HandleClose, NetType, TypeOK, None
  <1>2. CASE t # Net /\ Goto(t, "dead") /\ UNCHANGED netVars
        BY <1>2, GotoType, Labels DEF NetType, TypeOK, netVars
  <1>3. QED BY <1>1, <1>2 DEF Raise

\* The server's state after each change an action makes to it.
LEMMA NoServerType == NoServer \in ServerState
  BY Threads DEF NoServer, ServerState

LEMMA ServerType ==
    ASSUME NEW s \in ServerState, NEW b \in BOOLEAN, NEW n \in 0..MaxData,
           NEW w \in Worker
    PROVE  /\ [s EXCEPT !.answered = TRUE, !.ready = b] \in ServerState
           /\ [s EXCEPT !.ready = TRUE] \in ServerState
           /\ [s EXCEPT !.sent = n] \in ServerState
           /\ [s EXCEPT !.hello = w] \in ServerState
  BY DEF ServerState

\* A segment the server sends in answer to a client hello.
LEMMA ReceiveType ==
    ASSUME TypeOK, NetReceive
    PROVE  server' \in ServerState /\ incoming' \in Seq(Segment)
<1>1. server \in ServerState /\ server.hello \in Worker
      BY DEF TypeOK, NetReceive, ServerState
<1>2. ASSUME NEW n \in 0..MaxData
      PROVE  Append(incoming, [for |-> server.hello, n |-> n]) \in Seq(Segment)
      BY <1>1 DEF TypeOK, Segment
<1>3. CASE /\ \E ik \in BOOLEAN :
                 server' = [server EXCEPT !.answered = TRUE, !.ready = ik]
           /\ incoming' = Append(incoming, [for |-> server.hello, n |-> 0])
      <2>1. 0 \in 0..MaxData
            BY Threads
      <2>2. QED BY <1>1, <1>2, <1>3, <2>1, ServerType
<1>4. CASE /\ server.sent < MaxData
           /\ server' = [server EXCEPT !.sent = @ + 1]
           /\ incoming' = Append(incoming, [for |-> server.hello,
                                            n |-> server.sent + 1])
      <2>1. server.sent + 1 \in 0..MaxData
            BY <1>1, <1>4, Threads DEF ServerState
      <2>2. server' = [server EXCEPT !.sent = server.sent + 1]
            BY <1>4
      <2>3. QED BY <1>1, <1>2, <1>4, <2>1, <2>2, ServerType
<1>5. QED BY <1>3, <1>4 DEF NetReceive

LEMMA TypeInit == Init => TypeOK
<1> SUFFICES ASSUME Init PROVE TypeOK
    OBVIOUS
<1>1. pc \in [Thread -> PC]
      BY Labels DEF Init
<1>2. held \in [Thread -> Segment \cup {NoSegment}] /\ using \in [Thread -> Worker \cup {None}]
      BY DEF Init
<1>3. rn \in [Worker -> 0..MaxData] /\ lastUp \in [Worker -> 0..MaxData]
      BY Threads DEF Init
<1>4. server \in ServerState
      BY Threads, NoServerType DEF Init
<1>5. NetType
      <2>1. conn \in 0..MaxConn /\ sock \in 0..MaxConn
            BY Threads DEF Init, None
      <2>2. QED BY <2>1 DEF Init, NetType
<1>6. QED BY <1>1, <1>2, <1>3, <1>4, <1>5 DEF Init, TypeOK, NetType

LEMMA TypeNet ==
    ASSUME TypeOK, NetStep
    PROVE  TypeOK'
<1> USE Threads, Labels
<1>1. CASE Connect
      <2> USE <1>1 DEF Connect
      <2>1. conn' \in 0..MaxConn /\ sock' \in 0..MaxConn
            BY DEF TypeOK, None
      <2>2. pending' \in Nat
            BY DEF TypeOK
      <2>3. state' \in {"disconnected", "connected", "disconnecting"} /\ connected' \in BOOLEAN
            OBVIOUS
      <2>4. pc' \in [Thread -> PC]
            BY GotoType
      <2>5. server' \in ServerState
            BY NoServerType
      <2>6. QED BY <2>1, <2>2, <2>3, <2>4, <2>5 DEF TypeOK, flushVars
<1>2. CASE ConnectIgnored
      BY <1>2, GotoType DEF ConnectIgnored, TypeOK, netVars, flushVars
<1>3. CASE LoopEnds
      BY <1>3, GotoType DEF LoopEnds, TypeOK, netVars, flushVars
<1>4. CASE Drain
      <2>1. pending' \in Nat
            BY <1>4 DEF Drain, TypeOK
      <2>2. pc' \in [Thread -> PC]
            BY <1>4, GotoType DEF Drain
      <2>3. QED BY <1>4, <2>1, <2>2 DEF Drain, TypeOK, flushVars
<1>5. CASE ResetMachine(Net)
      BY <1>5, GotoType DEF ResetMachine, TypeOK, netVars, flushVars
<1>6. CASE DropTransport(Net)
      BY <1>6, GotoType DEF DropTransport, TypeOK, netVars, flushVars
<1>7. CASE OnAuth
      <2>1. pc' \in [Thread -> PC]
            BY <1>7 DEF OnAuth, TypeOK
      <2>2. QED BY <1>7, <2>1 DEF OnAuth, TypeOK, netVars, flushVars
<1>8. CASE NetReceive
      BY <1>8, ReceiveType, GotoType DEF NetReceive, TypeOK, netVars, flushVars
<1>9. CASE NetCheck
      BY <1>9, GotoType DEF NetCheck, TypeOK, netVars, flushVars
<1>10. QED
      BY <1>1, <1>2, <1>3, <1>4, <1>5, <1>6, <1>7, <1>8, <1>9 DEF NetStep

LEMMA TypeFlush ==
    ASSUME TypeOK, NEW t \in Thread, FlushStep(t)
    PROVE  TypeOK'
<1> USE Labels
<1>1. CASE FlushAcquire(t)
      BY <1>1, GotoType DEF FlushAcquire, TypeOK, netVars
<1>2. CASE FlushLoop(t)
      BY <1>2, GotoType DEF FlushLoop, TypeOK, netVars
<1>3. CASE FlushRecv(t)
      <2>1. pc' \in [Thread -> PC] /\ NetType'
            BY <1>3, GotoType, RaiseType DEF FlushRecv, TypeOK, NetType, netVars
      <2>2. using' \in [Thread -> Worker \cup {None}]
            BY <1>3 DEF FlushRecv, TypeOK
      <2>3. QED BY <1>3, <2>1, <2>2 DEF FlushRecv, TypeOK, NetType
<1>4. CASE FlushTake(t)
      <2> DEFINE s == Head(incoming)
      <2>1. s \in Segment /\ Tail(incoming) \in Seq(Segment)
            BY <1>4 DEF FlushTake, TypeOK
      <2>2. pc' \in [Thread -> PC] /\ NetType'
            BY <1>4, GotoType, RaiseType DEF FlushTake, TypeOK, NetType, netVars
      <2>3. held' \in [Thread -> Segment \cup {NoSegment}]
            BY <1>4, <2>1 DEF FlushTake, TypeOK
      <2>4. rn' \in [Worker -> 0..MaxData]
            BY <1>4, <2>1 DEF FlushTake, TypeOK, Segment
      <2>5. QED BY <1>4, <2>1, <2>2, <2>3, <2>4 DEF FlushTake, TypeOK, NetType
<1>5. CASE FlushDeliver(t)
      <2>1. pc' \in [Thread -> PC] /\ NetType'
            BY <1>5, GotoType, RaiseType DEF FlushDeliver, TypeOK, NetType, netVars
      <2>2. held[t].n \in 0..MaxData
            BY Threads DEF TypeOK, Segment, NoSegment
      <2>3. lastUp' \in [Worker -> 0..MaxData]
            BY <1>5, <2>2 DEF FlushDeliver, TypeOK
      <2>4. held' \in [Thread -> Segment \cup {NoSegment}]
            BY <1>5 DEF FlushDeliver, TypeOK
      <2>5. QED BY <1>5, <2>1, <2>3, <2>4 DEF FlushDeliver, TypeOK, NetType
<1>6. QED BY <1>1, <1>2, <1>3, <1>4, <1>5 DEF FlushStep

\* destroyConnection from a thread other than Net.
LEMMA DestroyType ==
    ASSUME TypeOK, NEW t \in Thread, DestroyConnection(t)
    PROVE  TypeOK'
<1>1. sock' \in 0..MaxConn
      BY Threads DEF DestroyConnection, None
<1>2. QED BY <1>1, GotoType, Labels DEF DestroyConnection, TypeOK, flushVars

LEMMA TypeWorker ==
    ASSUME TypeOK, NEW w \in Worker, WorkerStep(w)
    PROVE  TypeOK'
<1> USE Labels, Threads
<1>1. CASE ResetMachine(w) \/ DropTransport(w)
      BY <1>1, GotoType DEF ResetMachine, DropTransport, TypeOK, netVars, flushVars
<1>2. CASE WorkerStart(w)
      BY <1>2, GotoType DEF WorkerStart, TypeOK, netVars, flushVars
<1>3. CASE WorkerHello(w)
      <2>1. server' \in ServerState
            BY <1>3, ServerType DEF WorkerHello, TypeOK
      <2>2. QED BY <1>3, <2>1, GotoType DEF WorkerHello, TypeOK, netVars, flushVars
<1>4. CASE WorkerReceive(w)
      <2>1. server' \in ServerState
            BY <1>4, ServerType DEF WorkerReceive, TypeOK
      <2>2. incoming' \in Seq(Segment)
            BY <1>4 DEF WorkerReceive, TypeOK
      <2>3. pc' \in [Thread -> PC]
            BY <1>4, GotoType DEF WorkerReceive
      <2>4. QED BY <1>4, <2>1, <2>2, <2>3 DEF WorkerReceive, TypeOK, netVars, flushVars
<1>5. CASE InstallTransport(w)
      BY <1>5, GotoType DEF InstallTransport, TypeOK, netVars, flushVars
<1>6. CASE WorkerFinish(w)
      BY <1>6, GotoType DEF WorkerFinish, TypeOK, netVars, flushVars
<1>7. CASE WorkerFail(w)
      BY <1>7, GotoType DEF WorkerFail, TypeOK, netVars, flushVars
<1>8. CASE WorkerReport(w)
      BY <1>8, DestroyType DEF WorkerReport
<1>9. QED
      BY <1>1, <1>2, <1>3, <1>4, <1>5, <1>6, <1>7, <1>8 DEF WorkerStep

LEMMA TypeStep == TypeOK /\ [Next]_vars => TypeOK'
<1> SUFFICES ASSUME TypeOK, [Next]_vars PROVE TypeOK'
    OBVIOUS
<1>1. ASSUME NEW t \in Thread, EnqueueDisconnected(t)
      PROVE  TypeOK'
      BY <1>1, OnDisconnectedType, GotoType, Labels
         DEF EnqueueDisconnected, TypeOK, flushVars
<1>2. CASE PeerClose
      <2>1. sock' \in 0..MaxConn
            BY <1>2, Threads DEF PeerClose, HandleClose, None
      <2>2. QED BY <1>2, <2>1, OnDisconnectedType
                DEF PeerClose, HandleClose, TypeOK, flushVars
<1>3. CASE PingTimeout
      BY <1>3, DestroyType, Threads DEF PingTimeout
<1>4. CASE UNCHANGED vars
      BY <1>4 DEF vars, netVars, flushVars, TypeOK
<1>5. QED
      BY <1>1, <1>2, <1>3, <1>4, TypeNet, TypeFlush, TypeWorker, Threads DEF Next

\* Every variable keeps its type, whatever fails and in whatever order.
THEOREM TypeCorrect == Spec => []TypeOK
  BY TypeInit, TypeStep, PTL DEF Spec

-----------------------------------------------------------------------------
(* The flush: exclusion and order.                                         *)

IInv == TypeOK /\ Unstarted /\ InOrderInv

\* What every step of a thread outside the flush comes to.
Move(t) ==
    \E l \in PC \ (InFlush \cup {"none", "auth"}) :
        /\ pc[t] \notin InFlush /\ pc[t] # "none"
        /\ Goto(t, l)
        /\ conn' = conn /\ UNCHANGED flushVars

LEMMA NetMoves ==
    ASSUME TypeOK, NetStep
    PROVE  Connect \/ OnAuth \/ Move(Net)
<1> USE Labels DEF Move, InFlush, netVars
<1>1. CASE ConnectIgnored \/ LoopEnds \/ NetCheck
      BY <1>1 DEF ConnectIgnored, LoopEnds, NetCheck
<1>2. CASE Drain
      BY <1>2 DEF Drain
<1>3. CASE ResetMachine(Net) \/ DropTransport(Net)
      BY <1>3 DEF ResetMachine, DropTransport
<1>4. CASE NetReceive
      BY <1>4 DEF NetReceive
<1>5. QED BY <1>1, <1>2, <1>3, <1>4 DEF NetStep

LEMMA WorkerMoves ==
    ASSUME TypeOK, NEW w \in Worker, WorkerStep(w)
    PROVE  Move(w)
<1> USE Labels, Threads DEF Move, InFlush, netVars
<1>1. CASE ResetMachine(w) \/ DropTransport(w)
      BY <1>1 DEF ResetMachine, DropTransport
<1>2. CASE WorkerStart(w) \/ WorkerHello(w)
      BY <1>2 DEF WorkerStart, WorkerHello
<1>3. CASE WorkerReceive(w) \/ InstallTransport(w)
      BY <1>3 DEF WorkerReceive, InstallTransport
<1>4. CASE WorkerFinish(w) \/ WorkerFail(w)
      BY <1>4 DEF WorkerFinish, WorkerFail
<1>5. CASE WorkerReport(w)
      BY <1>5 DEF WorkerReport, DestroyConnection
<1>6. QED BY <1>1, <1>2, <1>3, <1>4, <1>5 DEF WorkerStep

LEMMA OtherMoves ==
    ASSUME TypeOK
    PROVE  /\ \A t \in Thread : EnqueueDisconnected(t) => Move(t)
           /\ PingTimeout => Move(Pinger)
  BY Labels DEF EnqueueDisconnected, OnDisconnected, PingTimeout,
                DestroyConnection, Move, InFlush

\* A move changes nothing that the invariant speaks of.
LEMMA MoveStep ==
    ASSUME IInv, TypeOK', NEW t \in Thread, Move(t)
    PROVE  Unstarted' /\ InOrderInv'
<1> PICK l \in PC \ (InFlush \cup {"none", "auth"}) :
        /\ pc[t] \notin InFlush /\ pc[t] # "none"
        /\ Goto(t, l) /\ conn' = conn /\ UNCHANGED flushVars
    BY DEF Move
<1>1. \A u \in Thread : pc'[u] = IF u = t THEN l ELSE pc[u]
      BY DEF Goto, IInv, TypeOK
<1>2. UNCHANGED <<lock, held, rn, lastUp>>
      BY DEF flushVars
<1>3. Unstarted'
      BY <1>1, Threads DEF Unstarted, IInv
<1>4. \A u \in Thread : pc'[u] \in InFlush <=> pc[u] \in InFlush
      BY <1>1
<1>5. FlushExclusive'
      BY <1>2, <1>4 DEF IInv, InOrderInv, FlushExclusive
<1>6. \A u \in Thread, w \in Worker : Handing(u, w)' <=> Handing(u, w)
      BY <1>1, <1>2 DEF Handing, InFlush
<1>7. \A u \in Thread : pc'[u] = "deliver" => pc[u] = "deliver"
      BY <1>1 DEF InFlush
<1>8. QED BY <1>2, <1>3, <1>5, <1>6, <1>7 DEF IInv, InOrderInv

LEMMA ConnectStep ==
    ASSUME IInv, TypeOK', Connect
    PROVE  Unstarted' /\ InOrderInv'
<1>1. PICK l \in {"auth", "poll"} : Goto(Net, l)
      BY DEF Connect
<1>2. \A u \in Thread : pc'[u] = IF u = Net THEN l ELSE pc[u]
      BY <1>1 DEF Goto, IInv, TypeOK
<1>3. UNCHANGED <<lock, held, rn, lastUp>> /\ conn' = conn + 1 /\ pc[Net] = "connect"
      BY DEF flushVars, Connect
<1>4. conn \in Nat /\ conn' \in Worker
      BY <1>3, Threads DEF IInv, TypeOK, Connect, Worker
<1>5. Unstarted'
      BY <1>2, <1>3, <1>4, Threads DEF Unstarted, IInv, Worker
<1>6. FlushExclusive'
      BY <1>2, <1>3 DEF IInv, InOrderInv, FlushExclusive, InFlush
<1>7. \A u \in Thread, w \in Worker : Handing(u, w)' <=> Handing(u, w)
      BY <1>2, <1>3 DEF Handing
<1>8. \A u \in Thread : pc'[u] = "deliver" => pc[u] = "deliver"
      BY <1>2
<1>9. QED BY <1>3, <1>5, <1>6, <1>7, <1>8 DEF IInv, InOrderInv

\* The worker that EVENT_AUTH starts was not in the flush: it had not run.
LEMMA OnAuthStep ==
    ASSUME IInv, TypeOK', OnAuth
    PROVE  Unstarted' /\ InOrderInv'
<1>1. pc[Net] = "auth" /\ conn \in Worker /\ pc[conn] = "none" /\ conn # Net
      BY Threads DEF OnAuth, IInv, Unstarted
<1>2. PICK l \in {"none", "reset"} : pc' = [pc EXCEPT ![Net] = "poll", ![conn] = l]
      <2>1. CASE mstate = "handshake"
            <3>1. [pc EXCEPT ![Net] = "poll"] = [pc EXCEPT ![Net] = "poll", ![conn] = "none"]
                  BY <1>1, Threads DEF IInv, TypeOK
            <3>2. QED BY <2>1, <3>1 DEF OnAuth
      <2>2. QED BY <2>1 DEF OnAuth
<1>3. \A u \in Thread : pc'[u] = IF u = Net THEN "poll" ELSE IF u = conn THEN l ELSE pc[u]
      BY <1>1, <1>2, Threads DEF IInv, TypeOK
<1>4. UNCHANGED <<lock, held, rn, lastUp>> /\ conn' = conn
      BY DEF OnAuth, flushVars, netVars
<1>5. Unstarted'
      <2>1. \A w \in Worker : w > conn => w # conn /\ w # Net
            BY <1>1, Threads DEF Worker
      <2>2. pc'[Net] = "poll"
            BY <1>3, Threads
      <2>3. QED BY <1>3, <1>4, <2>1, <2>2, Threads DEF Unstarted, IInv
<1>6. FlushExclusive'
      BY <1>3, <1>4 DEF IInv, InOrderInv, FlushExclusive, InFlush
<1>7. \A u \in Thread, w \in Worker : Handing(u, w)' <=> Handing(u, w)
      BY <1>1, <1>3, <1>4 DEF Handing
<1>8. \A u \in Thread : pc'[u] = "deliver" => pc[u] = "deliver"
      BY <1>3
<1>9. QED BY <1>4, <1>5, <1>6, <1>7, <1>8 DEF IInv, InOrderInv

\* A flush step runs with the lock, so that no other thread is in the flush;
\* it moves its own thread and leaves conn alone.
LEMMA FlushMoves ==
    ASSUME IInv, NEW t \in Thread, FlushStep(t)
    PROVE  /\ pc[t] # "none" /\ conn' = conn
           /\ \E l \in PC \ {"none", "auth"} :
                 \A u \in Thread : pc'[u] = IF u = t THEN l ELSE pc[u]
           /\ \A u \in Thread \ {t} : pc[u] \notin InFlush
<1> USE Labels DEF IInv, TypeOK, netVars, Goto
<1>1. \A u \in Thread \ {t} : pc[u] \notin InFlush
      <2>1. CASE FlushAcquire(t)
            BY <2>1, Threads DEF FlushAcquire, InOrderInv, FlushExclusive, Free
      <2>2. CASE ~FlushAcquire(t)
            <3>1. pc[t] \in InFlush
                  BY <2>2 DEF FlushStep, FlushLoop, FlushRecv, FlushTake,
                              FlushDeliver, InFlush
            <3>2. QED BY <3>1 DEF InOrderInv, FlushExclusive
      <2>3. QED BY <2>1, <2>2
<1>2. ASSUME Raise(t)
      PROVE  /\ conn' = conn
             /\ \E l \in PC \ {"none", "auth"} : Goto(t, l)
      BY <1>2 DEF Raise, HandleClose
<1>3. /\ conn' = conn /\ pc[t] # "none"
      /\ \E l \in PC \ {"none", "auth"} : Goto(t, l)
      <2>1. CASE FlushAcquire(t)
            BY <2>1 DEF FlushAcquire
      <2>2. CASE FlushLoop(t)
            BY <2>2 DEF FlushLoop
      <2>3. CASE FlushRecv(t)
            BY <1>2, <2>3 DEF FlushRecv
      <2>4. CASE FlushTake(t)
            BY <1>2, <2>4 DEF FlushTake
      <2>5. CASE FlushDeliver(t)
            BY <1>2, <2>5 DEF FlushDeliver
      <2>6. QED BY <2>1, <2>2, <2>3, <2>4, <2>5 DEF FlushStep
<1>4. QED BY <1>1, <1>3

\* While the flush is free of frames in hand, all that was decrypted is up.
LEMMA AllUp ==
    ASSUME IInv, NEW t \in Thread, pc[t] # "deliver",
           \A u \in Thread \ {t} : pc[u] \notin InFlush
    PROVE  /\ rn = lastUp
           /\ \A u \in Thread : pc[u] # "deliver"
<1>1. \A u \in Thread : pc[u] # "deliver"
      BY DEF InFlush
<1>2. \A w \in Worker : rn[w] = lastUp[w]
      BY <1>1 DEF IInv, InOrderInv, Handing
<1>3. QED BY <1>1, <1>2 DEF IInv, TypeOK

\* The frame a flush decrypts is the next one of its handshake.
LEMMA TakeStep ==
    ASSUME IInv, TypeOK', NEW t \in Thread, FlushTake(t)
    PROVE  InOrderInv'
<1> DEFINE s == Head(incoming)
           w == using[t]
<1>1. \A u \in Thread \ {t} : pc[u] \notin InFlush
      BY FlushMoves DEF FlushStep
<1>2. rn = lastUp /\ \A u \in Thread : pc[u] # "deliver"
      BY <1>1, AllUp DEF FlushTake
<1>3. lock = t /\ lock' = lock /\ lastUp' = lastUp
      BY DEF FlushTake, IInv, InOrderInv, FlushExclusive, InFlush
<1>4. \A u \in Thread \ {t} : pc'[u] = pc[u]
      BY FlushMoves DEF FlushStep
<1>5. FlushExclusive'
      BY <1>1, <1>3, <1>4 DEF FlushExclusive
<1>6. CASE ~Readable(w, s)
      <2>1. rn' = rn
            BY <1>6 DEF FlushTake
      <2>2. pc'[t] # "deliver"
            BY <1>6 DEF FlushTake, Raise, Goto, IInv, TypeOK
      <2>3. \A u \in Thread : pc'[u] # "deliver"
            BY <1>2, <1>4, <2>2
      <2>4. QED BY <1>2, <1>3, <1>5, <2>1, <2>3 DEF InOrderInv
<1>7. CASE Readable(w, s)
      <2>1. s \in Segment
            BY DEF FlushTake, IInv, TypeOK
      <2>2. s.for \in Worker /\ s = [for |-> s.for, n |-> s.n]
            BY <2>1 DEF Segment
      <2>3. PICK v \in Worker : using[t] = v /\ s = [for |-> v, n |-> rn[v] + 1]
            BY <1>7, <2>2 DEF Readable
      <2>4. /\ held'[t] = s /\ pc'[t] = "deliver"
            /\ rn' = [rn EXCEPT ![v] = rn[v] + 1]
            BY <1>7, <2>3 DEF FlushTake, Readable, Goto, IInv, TypeOK
      <2>5. /\ rn'[v] = rn[v] + 1
            /\ \A x \in Worker \ {v} : rn'[x] = rn[x]
            BY <2>4 DEF IInv, TypeOK
      <2>6. Handing(t, v)'
            BY <1>2, <1>3, <2>3, <2>4, <2>5 DEF Handing
      <2>7. \A u \in Thread \ {t} : pc'[u] # "deliver"
            BY <1>2, <1>4
      <2>8. \A x \in Worker \ {v} : rn'[x] = lastUp'[x]
            BY <1>2, <1>3, <2>5
      <2>9. QED BY <1>5, <2>6, <2>7, <2>8 DEF InOrderInv
<1>8. QED BY <1>6, <1>7

\* Handing it up makes lastUp catch up with rn, whether or not it raises.
LEMMA DeliverStep ==
    ASSUME IInv, TypeOK', NEW t \in Thread, FlushDeliver(t)
    PROVE  /\ InOrderInv'
           /\ \A w \in Worker : lastUp'[w] \in {lastUp[w], lastUp[w] + 1}
<1>1. PICK w \in Worker : Handing(t, w)
      BY DEF FlushDeliver, IInv, InOrderInv
<1>2. lastUp' = [lastUp EXCEPT ![w] = rn[w]] /\ rn[w] = lastUp[w] + 1
      BY <1>1 DEF FlushDeliver, Handing
<1>3. \A u \in Thread \ {t} : pc[u] \notin InFlush /\ pc'[u] = pc[u]
      BY FlushMoves DEF FlushStep
<1>4. lock = t /\ lock' = lock /\ rn' = rn
      BY DEF FlushDeliver, IInv, InOrderInv, FlushExclusive, InFlush
<1>5. FlushExclusive'
      BY <1>3, <1>4 DEF FlushExclusive
<1>6. pc'[t] # "deliver"
      BY DEF FlushDeliver, Raise, Goto, IInv, TypeOK
<1>7. \A u \in Thread : pc'[u] # "deliver"
      BY <1>3, <1>6 DEF InFlush
<1>8. \A x \in Worker \ {w} : rn[x] = lastUp[x]
      <2>1. \A u \in Thread, x \in Worker \ {w} : ~Handing(u, x)
            BY <1>1, <1>3 DEF Handing, InFlush
      <2>2. QED BY <2>1 DEF IInv, InOrderInv
<1>9. \A x \in Worker : rn'[x] = lastUp'[x]
      BY <1>2, <1>4, <1>8 DEF IInv, TypeOK
<1>10. QED
      BY <1>2, <1>5, <1>7, <1>9 DEF InOrderInv, IInv, TypeOK

LEMMA FlushStepInv ==
    ASSUME IInv, TypeOK', NEW t \in Thread, FlushStep(t)
    PROVE  Unstarted' /\ InOrderInv'
<1>1. PICK l \in PC \ {"none", "auth"} :
         \A u \in Thread : pc'[u] = IF u = t THEN l ELSE pc[u]
      BY FlushMoves
<1>2. conn' = conn /\ pc[t] # "none" /\ \A u \in Thread \ {t} : pc[u] \notin InFlush
      BY FlushMoves
<1>3. Unstarted'
      BY <1>1, <1>2, Threads DEF Unstarted, IInv
<1>4. CASE FlushAcquire(t) \/ FlushLoop(t) \/ FlushRecv(t)
      <2>1. pc[t] # "deliver" /\ pc'[t] # "deliver" /\ UNCHANGED <<rn, lastUp>>
            BY <1>4 DEF FlushAcquire, FlushLoop, FlushRecv, Raise, Goto, IInv, TypeOK
      <2>2. rn = lastUp /\ \A u \in Thread : pc'[u] # "deliver"
            BY <1>1, <1>2, <2>1, AllUp DEF InFlush
      <2>3. pc'[t] \in InFlush => lock' = t
            BY <1>4 DEF FlushAcquire, FlushLoop, FlushRecv, Goto, IInv,
                        TypeOK, InOrderInv, FlushExclusive, InFlush
      <2>4. FlushExclusive'
            BY <1>1, <1>2, <2>3 DEF FlushExclusive
      <2>5. QED BY <1>3, <2>1, <2>2, <2>4 DEF InOrderInv
<1>5. CASE FlushTake(t)
      BY <1>3, <1>5, TakeStep
<1>6. CASE FlushDeliver(t)
      BY <1>3, <1>6, DeliverStep
<1>7. QED BY <1>4, <1>5, <1>6 DEF FlushStep

LEMMA InvInit == Init => IInv
<1> SUFFICES ASSUME Init PROVE IInv
    OBVIOUS
<1>1. \A t \in Thread : pc[t] \notin InFlush
      BY DEF Init, InFlush
<1>2. \A w \in Worker : pc[w] = "none" /\ rn[w] = lastUp[w]
      BY Threads DEF Init
<1>3. pc[Net] # "auth"
      BY Threads DEF Init
<1>4. QED
      BY <1>1, <1>2, <1>3, TypeInit
         DEF IInv, Unstarted, InOrderInv, FlushExclusive, InFlush

LEMMA InvStep == IInv /\ [Next]_vars => IInv'
<1> SUFFICES ASSUME IInv, [Next]_vars PROVE IInv'
    OBVIOUS
<1>1. TypeOK /\ TypeOK'
      BY TypeStep DEF IInv
<1>2. ASSUME NEW t \in Thread, Move(t)
      PROVE  IInv'
      BY <1>1, <1>2, MoveStep DEF IInv
<1>3. CASE NetStep
      BY <1>1, <1>2, <1>3, NetMoves, ConnectStep, OnAuthStep, Threads DEF IInv
<1>4. ASSUME NEW w \in Worker, WorkerStep(w)
      PROVE  IInv'
      BY <1>1, <1>2, <1>4, WorkerMoves, Threads
<1>5. ASSUME NEW t \in Thread, FlushStep(t)
      PROVE  IInv'
      BY <1>1, <1>5, FlushStepInv DEF IInv
<1>6. CASE PingTimeout \/ \E t \in Thread : EnqueueDisconnected(t)
      BY <1>1, <1>2, <1>6, OtherMoves, Threads
<1>7. CASE PeerClose \/ UNCHANGED vars
      <2>1. UNCHANGED <<pc, lock, held, rn, lastUp, conn>>
            BY <1>7 DEF PeerClose, HandleClose, vars, netVars, flushVars
      <2>2. QED
            BY <1>1, <2>1 DEF IInv, Unstarted, InOrderInv, FlushExclusive, Handing
<1>8. QED
      BY <1>3, <1>4, <1>5, <1>6, <1>7, Threads DEF Next

\* The inductive invariant holds of every reachable state.
LEMMA Invariant == Spec => []IInv
  BY InvInit, InvStep, PTL DEF Spec

\* At most one thread, the holder of _flush_lock, runs the flush: for any
\* number of handshake workers beside the network thread.
THEOREM FlushIsExclusive == Spec => []FlushExclusive
<1>1. IInv => FlushExclusive
      BY DEF IInv, InOrderInv
<1>2. QED BY <1>1, Invariant, PTL

\* Each frame in hand is the next of its handshake, and in one hand.
THEOREM FramesInHand == Spec => []InOrderInv
<1>1. IInv => InOrderInv
      BY DEF IInv
<1>2. QED BY <1>1, Invariant, PTL

\* The layers above noise get the frames of each handshake in order, without
\* a gap or a repeat, across any drops, reconnects and stale workers.
THEOREM FramesInOrder == Spec => InOrder
<1>1. IInv /\ TypeOK' /\ [Next]_vars
      => [\A w \in Worker : lastUp'[w] \in {lastUp[w], lastUp[w] + 1}]_vars
  <2> SUFFICES ASSUME IInv, TypeOK', [Next]_vars
               PROVE  \A w \in Worker : lastUp'[w] \in {lastUp[w], lastUp[w] + 1}
      OBVIOUS
  <2>1. ASSUME lastUp' = lastUp
        PROVE  \A w \in Worker : lastUp'[w] \in {lastUp[w], lastUp[w] + 1}
        BY <2>1
  <2>2. ASSUME NEW t \in Thread, FlushStep(t)
        PROVE  \A w \in Worker : lastUp'[w] \in {lastUp[w], lastUp[w] + 1}
        <3>1. CASE FlushDeliver(t)
              BY <3>1, DeliverStep
        <3>2. CASE ~FlushDeliver(t)
              BY <2>1, <2>2, <3>2
                 DEF FlushStep, FlushAcquire, FlushLoop, FlushRecv, FlushTake
        <3>3. QED BY <3>1, <3>2
  <2>3. ASSUME NEW t \in Thread, Move(t)
        PROVE  lastUp' = lastUp
        BY <2>3 DEF Move, flushVars
  <2>4. CASE NetStep
        <3>1. Connect \/ OnAuth => lastUp' = lastUp
              BY DEF Connect, OnAuth, flushVars
        <3>2. QED BY <2>1, <2>3, <2>4, <3>1, NetMoves, Threads DEF IInv
  <2>5. ASSUME NEW w \in Worker, WorkerStep(w)
        PROVE  lastUp' = lastUp
        BY <2>3, <2>5, WorkerMoves, Threads DEF IInv
  <2>6. CASE PingTimeout \/ \E t \in Thread : EnqueueDisconnected(t)
        BY <2>1, <2>3, <2>6, OtherMoves, Threads DEF IInv
  <2>7. CASE PeerClose \/ UNCHANGED vars
        BY <2>1, <2>7 DEF PeerClose, vars, flushVars
  <2>8. QED
        BY <2>1, <2>2, <2>4, <2>5, <2>6, <2>7, Threads DEF Next
<1>2. QED
  BY <1>1, Invariant, TypeCorrect, PTL DEF Spec, InOrder
-----------------------------------------------------------------------------
(* Where the link drops only between exchanges.                            *)

Over(w) == pc[w] \in {"none", "done"}

\* What holds in every phase of a calm connection: only the latest worker runs, those
\* that have not run have taken no frame, and whoever has the lock is in the flush.
Common ==
    /\ TypeOK /\ pc[Pinger] = "idle"
    /\ \A w \in Worker : w # conn => Over(w)
    /\ \A w \in Worker : w > conn => pc[w] = "none" /\ rn[w] = 0
    /\ \A t \in Thread : lock = t <=> pc[t] \in InFlush

\* The connection of the latest worker is open.
Open == conn \in Worker /\ sock = conn /\ connected /\ state = "connected" /\ pending = 0

\* What waits in the queue are the frames after the first k, up to the last one sent.
Rest(w, q, k, top) ==
    /\ k + Len(q) = top + 1
    /\ \A i \in DOMAIN q : q[i] = [for |-> w, n |-> k + i - 1]
Frames(k) ==
    /\ server.hello = conn /\ server.answered
    /\ Rest(conn, incoming, k, server.sent)

Closed ==
    /\ pc[Net] = "connect" /\ sock = None /\ ~connected /\ pending = 0
    /\ mstate = "init" /\ transport = None /\ incoming = <<>>
    /\ \A w \in Worker : Over(w)
Closing ==
    /\ pc[Net] \in {"poll", "drain", "reset", "drop"} /\ sock = None /\ ~connected
    /\ pending = IF pc[Net] \in {"poll", "drain"} THEN 1 ELSE 0
    /\ pc[Net] = "drop" => mstate = "init"
    /\ incoming = <<>>
    /\ \A w \in Worker : Over(w)
Authing ==
    /\ pc[Net] = "auth" /\ Open /\ mstate = "init" /\ transport = None /\ incoming = <<>>
    /\ pc[conn] = "none" /\ rn[conn] = 0 /\ server = NoServer
Starting ==
    /\ pc[Net] = "poll" /\ Open /\ incoming = <<>> /\ rn[conn] = 0 /\ server = NoServer
    /\ pc[conn] \in {"reset", "drop", "start", "hello"}
    /\ mstate = IF pc[conn] = "hello" THEN "handshake" ELSE "init"
Waiting ==
    /\ pc[Net] \in {"poll", "check"} /\ Open /\ rn[conn] = 0
    /\ pc[conn] = "wait" /\ mstate = "handshake"
    /\ \/ server = [NoServer EXCEPT !.hello = conn] /\ incoming = <<>> /\ pc[Net] = "poll"
       \/ Frames(0)
Finishing ==
    /\ pc[Net] \in {"poll", "check"} /\ Open /\ rn[conn] = 0
    /\ pc[conn] \in {"install", "finish"} /\ mstate = "handshake"
    /\ pc[conn] = "finish" => transport = conn
    /\ Frames(1)
Serving ==
    /\ pc[Net] \in {"poll", "check", "acquire"} \cup InFlush /\ Open
    /\ pc[conn] \in {"acquire", "done"} \cup InFlush
    /\ mstate = "transport" /\ transport = conn /\ Frames(rn[conn] + 1)
    /\ \A t \in {Net, conn} : pc[t] = "take" => using[t] = conn
    /\ incoming = <<>> \/ pc[conn] # "done" \/ pc[Net] # "poll"

CalmInv ==
    /\ Common
    /\ Closed \/ Closing \/ Authing \/ Starting \/ Waiting \/ Finishing \/ Serving

\* A connection is made ...
Opens ==
    /\ pc[Net] = "connect" /\ ~connected /\ conn < MaxConn /\ conn' = conn + 1 /\ sock' = conn + 1
    /\ state' = "connected" /\ connected' = TRUE /\ pending' = pending /\ Goto(Net, "auth")
    /\ server' = NoServer /\ UNCHANGED <<mstate, transport, incoming, flushVars>>
\* ... and closed when nothing is under way; a frame is handed up, and no one raises.
Closes == PeerClose /\ Settled
HandsUp(t) == FlushDeliver(t) /\ Goto(t, "loop") /\ UNCHANGED netVars

CalmNet ==
    \/ Opens \/ ConnectIgnored \/ LoopEnds \/ Drain \/ ResetMachine(Net) \/ DropTransport(Net)
    \/ OnAuth \/ NetReceive \/ NetCheck
CalmFlush(t) == FlushAcquire(t) \/ FlushLoop(t) \/ FlushRecv(t) \/ FlushTake(t) \/ HandsUp(t)
CalmNext ==
    \/ CalmNet \/ CalmFlush(Net)
    \/ \E w \in Worker : WorkerStep(w) \/ CalmFlush(w) \/ EnqueueDisconnected(w)
    \/ EnqueueDisconnected(Pinger) \/ Closes

\* The calm instance's names stand for the same.
LEMMA CalmNames ==
    /\ Calm!Worker = Worker /\ Calm!None = None /\ Calm!Net = Net /\ Calm!Pinger = Pinger
    /\ Calm!Free = Free /\ Calm!NoServer = NoServer /\ Calm!NoSegment = NoSegment
    /\ \A t, l : Calm!Goto(t, l) = Goto(t, l)
    /\ Calm!netVars = netVars /\ Calm!flushVars = flushVars
BY DEF Calm!Worker, Worker, Calm!None, None, Calm!Net, Net, Calm!Pinger, Pinger, Calm!Free, Free,
       Calm!NoServer, NoServer, Calm!NoSegment, NoSegment, Calm!Goto, Goto, Calm!netVars, netVars,
       Calm!flushVars, flushVars

\* ... and its actions are these.
LEMMA CalmNetIs ==
    ASSUME Calm!NetStep
    PROVE  CalmNet
<1> USE DEF Calm!Worker, Worker, Calm!None, None, Calm!Net, Net, Calm!Pinger, Pinger,
           Calm!Free, Free, Calm!NoServer, NoServer, Calm!NoSegment, NoSegment, Calm!Goto, Goto,
           Calm!netVars, netVars, Calm!flushVars, flushVars
<1>1. Calm!Connect => Opens
      BY DEF Calm!Connect, Opens
<1>2. /\ Calm!ConnectIgnored => ConnectIgnored
      /\ Calm!LoopEnds => LoopEnds
      /\ Calm!Drain => Drain
      BY DEF Calm!ConnectIgnored, ConnectIgnored, Calm!LoopEnds, LoopEnds, Calm!Drain, Drain
<1>3. /\ Calm!ResetMachine(Net) => ResetMachine(Net)
      /\ Calm!DropTransport(Net) => DropTransport(Net)
      BY DEF Calm!ResetMachine, ResetMachine, Calm!DropTransport, DropTransport
<1>4. Calm!OnAuth => OnAuth
      BY DEF Calm!OnAuth, OnAuth
<1>5. Calm!NetReceive => NetReceive
      BY DEF Calm!NetReceive, NetReceive
<1>6. Calm!NetCheck => NetCheck
      BY DEF Calm!NetCheck, NetCheck
<1>7. QED
      BY <1>1, <1>2, <1>3, <1>4, <1>5, <1>6 DEF Calm!NetStep, CalmNet

LEMMA CalmRaises ==
    ASSUME NEW t, Calm!Raise(t)
    PROVE  Raise(t)
<1> USE DEF Calm!Worker, Worker, Calm!None, None, Calm!Net, Net, Calm!Pinger, Pinger,
           Calm!Free, Free, Calm!NoServer, NoServer, Calm!NoSegment, NoSegment, Calm!Goto, Goto,
           Calm!netVars, netVars, Calm!flushVars, flushVars
<1>1. QED
      BY DEF Calm!Raise, Raise, Calm!HandleClose, HandleClose, Calm!OnDisconnected, OnDisconnected

LEMMA CalmFlushIs ==
    ASSUME NEW t \in Thread, Calm!FlushStep(t)
    PROVE  CalmFlush(t)
<1> USE DEF Calm!Worker, Worker, Calm!None, None, Calm!Net, Net, Calm!Pinger, Pinger,
           Calm!Free, Free, Calm!NoServer, NoServer, Calm!NoSegment, NoSegment, Calm!Goto, Goto,
           Calm!netVars, netVars, Calm!flushVars, flushVars
<1>1. Calm!FlushAcquire(t) => FlushAcquire(t)
      BY DEF Calm!FlushAcquire, FlushAcquire
<1>2. Calm!FlushLoop(t) => FlushLoop(t)
      BY DEF Calm!FlushLoop, FlushLoop
<1>3. Calm!FlushRecv(t) => FlushRecv(t)
      BY CalmRaises DEF Calm!FlushRecv, FlushRecv
<1>4. Calm!FlushTake(t) => FlushTake(t)
      BY CalmRaises DEF Calm!FlushTake, FlushTake, Calm!Readable, Readable
<1>5. Calm!FlushDeliver(t) => HandsUp(t)
      BY DEF Calm!FlushDeliver, FlushDeliver, HandsUp
<1>6. QED
      BY <1>1, <1>2, <1>3, <1>4, <1>5 DEF Calm!FlushStep, CalmFlush

LEMMA CalmWorkerIs ==
    ASSUME NEW w \in Worker, Calm!WorkerStep(w)
    PROVE  WorkerStep(w)
<1> USE DEF Calm!Worker, Worker, Calm!None, None, Calm!Net, Net, Calm!Pinger, Pinger,
           Calm!Free, Free, Calm!NoServer, NoServer, Calm!NoSegment, NoSegment, Calm!Goto, Goto,
           Calm!netVars, netVars, Calm!flushVars, flushVars
<1>1. /\ Calm!ResetMachine(w) => ResetMachine(w)
      /\ Calm!DropTransport(w) => DropTransport(w)
      BY DEF Calm!ResetMachine, ResetMachine, Calm!DropTransport, DropTransport
<1>2. /\ Calm!WorkerStart(w) => WorkerStart(w)
      /\ Calm!WorkerHello(w) => WorkerHello(w)
      BY DEF Calm!WorkerStart, WorkerStart, Calm!WorkerHello, WorkerHello
<1>3. Calm!WorkerReceive(w) => WorkerReceive(w)
      BY DEF Calm!WorkerReceive, WorkerReceive
<1>4. /\ Calm!InstallTransport(w) => InstallTransport(w)
      /\ Calm!WorkerFinish(w) => WorkerFinish(w)
      BY DEF Calm!InstallTransport, InstallTransport, Calm!WorkerFinish, WorkerFinish
<1>5. /\ Calm!WorkerFail(w) => WorkerFail(w)
      /\ Calm!WorkerReport(w) => WorkerReport(w)
      BY DEF Calm!WorkerFail, WorkerFail, Calm!WorkerReport, WorkerReport,
             Calm!DestroyConnection, DestroyConnection
<1>6. QED
      BY <1>1, <1>2, <1>3, <1>4, <1>5 DEF Calm!WorkerStep, WorkerStep

LEMMA CalmIs ==
    ASSUME Calm!Next
    PROVE  CalmNext
<1> USE DEF Calm!Worker, Worker, Calm!None, None, Calm!Net, Net, Calm!Pinger, Pinger,
           Calm!Free, Free, Calm!NoServer, NoServer, Calm!NoSegment, NoSegment, Calm!Goto, Goto,
           Calm!netVars, netVars, Calm!flushVars, flushVars
<1>1. \A t : Calm!EnqueueDisconnected(t) => EnqueueDisconnected(t)
      BY DEF Calm!EnqueueDisconnected, EnqueueDisconnected, Calm!OnDisconnected, OnDisconnected
<1>2. Calm!PeerClose => Closes
      BY DEF Calm!PeerClose, PeerClose, Closes, Calm!Settled, Settled, Calm!HandleClose,
                       HandleClose, Calm!OnDisconnected, OnDisconnected
<1>3. ~Calm!PingTimeout
      BY DEF Calm!PingTimeout
<1>4. Worker \subseteq Thread /\ Net \in Thread
      BY Threads
<1>5. QED
      BY <1>1, <1>2, <1>3, <1>4, CalmNames, CalmNetIs, CalmFlushIs, CalmWorkerIs DEF Calm!Next, CalmNext

\* A calm step is a step.
LEMMA CalmIsNext ==
    ASSUME CalmNext
    PROVE  Next
<1>1. Opens => Connect
      BY DEF Opens, Connect, flushVars
<1>2. \A t : CalmFlush(t) => FlushStep(t)
      BY DEF CalmFlush, FlushStep, HandsUp
<1>3. QED
      BY <1>1, <1>2 DEF CalmNext, CalmNet, Next, NetStep, Closes

\* What the place of a thread says of the phase.
LEMMA NetPhase ==
    ASSUME CalmInv
    PROVE  /\ pc[Net] = "connect" => Closed
           /\ pc[Net] \in {"drain", "reset", "drop"} => Closing
           /\ pc[Net] = "auth" => Authing
           /\ pc[Net] \in {"acquire"} \cup InFlush => Serving
           /\ pc[Net] = "check" => Waiting \/ Finishing \/ Serving
           /\ pc[Net] = "poll" => Closing \/ Starting \/ Waiting \/ Finishing \/ Serving
BY DEF CalmInv, Closed, Closing, Authing, Starting, Waiting, Finishing, Serving, InFlush

LEMMA WorkerPhase ==
    ASSUME CalmInv, NEW w \in Worker, ~Over(w)
    PROVE  /\ w = conn
           /\ pc[w] \in {"reset", "drop", "start", "hello", "wait", "install", "finish", "acquire"} \cup InFlush
           /\ pc[w] \in {"reset", "drop", "start", "hello"} => Starting
           /\ pc[w] = "wait" => Waiting
           /\ pc[w] \in {"install", "finish"} => Finishing
           /\ pc[w] \in {"acquire"} \cup InFlush => Serving
<1>1. w = conn
      BY DEF CalmInv, Common
<1>2. Starting \/ Waiting \/ Finishing \/ Serving
      BY <1>1 DEF CalmInv, Closed, Closing, Authing, Over
<1>3. QED
      BY <1>1, <1>2 DEF Starting, Waiting, Finishing, Serving, Over, InFlush

\* What a step of Net or of the latest worker leaves as it was.
LEMMA GotoIs ==
    ASSUME TypeOK, NEW t \in Thread, NEW l, Goto(t, l)
    PROVE  \A u \in Thread : pc'[u] = IF u = t THEN l ELSE pc[u]
BY DEF TypeOK, Goto

Locks(t, l) ==
    \/ lock' = lock /\ (l \in InFlush <=> pc[t] \in InFlush)
    \/ lock = Free /\ lock' = t /\ l \in InFlush
    \/ lock = t /\ lock' = Free /\ l \notin InFlush

LEMMA CommonStays ==
    ASSUME Common, TypeOK', NEW t \in {Net} \cup (Worker \cap {conn}), NEW l, Goto(t, l), conn' = conn,
           \A w \in Worker : w # conn => rn'[w] = rn[w], Locks(t, l)
    PROVE  Common'
<1>1. TypeOK /\ t \in Thread /\ t # Pinger /\ t # Free
      BY Threads DEF Common, Free
<1>2. \A u \in Thread : pc'[u] = IF u = t THEN l ELSE pc[u]
      BY <1>1, GotoIs
<1>3. pc'[Pinger] = "idle"
      BY <1>1, <1>2, Threads DEF Common
<1>4. \A w \in Worker : w # conn' => Over(w)'
      BY <1>2, Threads DEF Common, Over
<1>5. \A w \in Worker : w > conn' => pc'[w] = "none" /\ rn'[w] = 0
  <2>1. conn \in Nat
        BY Threads DEF Common, TypeOK
  <2>2. \A w \in Worker : w > conn => w # conn /\ w # Net
        BY <2>1, Threads DEF Worker
  <2>3. QED
        BY <1>2, <2>2, Threads DEF Common
<1>6. \A u \in Thread : lock' = u <=> pc'[u] \in InFlush
      BY <1>1, <1>2, Threads DEF Common, Locks, Free
<1>7. QED
      BY <1>3, <1>4, <1>5, <1>6 DEF Common

-----------------------------------------------------------------------------
(* Calm steps of Net.                                                      *)

\* The connection is made.
LEMMA OpensStep ==
    ASSUME CalmInv, TypeOK', Opens
    PROVE  CalmInv'
<1>1. Closed /\ Common /\ TypeOK
      BY NetPhase DEF Opens, CalmInv, Common
<1>2. \A u \in Thread : pc'[u] = IF u = Net THEN "auth" ELSE pc[u]
      BY <1>1, Threads, GotoIs DEF Opens
<1>3. conn \in Nat /\ conn' = conn + 1 /\ conn' \in Worker
      BY <1>1, Threads DEF TypeOK, Opens, Worker
<1>4. UNCHANGED <<lock, rn, mstate, transport, incoming, pending>>
      BY DEF Opens, flushVars
<1>5. \A w \in Worker : pc'[w] = pc[w] /\ w \in Nat
      BY <1>2, Threads DEF Worker
<1>6. Common'
  <2>1. \A w \in Worker : w # conn' => Over(w)'
        BY <1>1, <1>5 DEF Closed, Over
  <2>2. \A w \in Worker : w > conn' => pc'[w] = "none" /\ rn'[w] = 0
        BY <1>1, <1>3, <1>4, <1>5 DEF Common
  <2>3. \A u \in Thread : lock' = u <=> pc'[u] \in InFlush
        BY <1>1, <1>2, <1>4 DEF Common, Closed, InFlush
  <2>4. pc'[Pinger] = "idle"
        BY <1>1, <1>2, Threads DEF Common
  <2>5. QED
        BY <2>1, <2>2, <2>3, <2>4 DEF Common
<1>7. pc'[conn'] = "none" /\ rn'[conn'] = 0
  <2>1. conn' > conn
        BY <1>3
  <2>2. QED
        BY <1>1, <1>3, <1>4, <1>5, <2>1 DEF Common
<1>8. Authing'
      BY <1>1, <1>2, <1>3, <1>4, <1>7, Threads DEF Opens, Closed, Authing, Open
<1>9. QED
      BY <1>6, <1>8 DEF CalmInv

\* The connection is closed, between two exchanges.
LEMMA ClosesStep ==
    ASSUME CalmInv, TypeOK', Closes
    PROVE  CalmInv'
<1>1. /\ pc[Net] = "poll" /\ sock # None /\ mstate = "transport" /\ \A w \in Worker : Over(w)
      /\ sock' = None /\ conn' = conn /\ OnDisconnected
      /\ UNCHANGED <<mstate, transport, incoming, flushVars, pc, server>>
      BY DEF Closes, PeerClose, HandleClose, Settled, Over
<1>2. Serving
      BY <1>1, NetPhase DEF Closing, Starting, Waiting, Finishing
<1>3. incoming = <<>> /\ Open
      BY <1>1, <1>2 DEF Serving, Open, Over, InFlush
<1>4. pending' = 1 /\ ~connected'
      BY <1>1, <1>3 DEF Open, OnDisconnected
<1>5. Common'
      BY <1>1 DEF CalmInv, Common, flushVars, Over
<1>6. Closing'
      BY <1>1, <1>3, <1>4 DEF Closing, Over
<1>7. QED
      BY <1>5, <1>6 DEF CalmInv

\* The network thread goes back to where it connects.
LEMMA BackStep ==
    ASSUME CalmInv, TypeOK', ConnectIgnored \/ LoopEnds \/ Drain \/ ResetMachine(Net) \/ DropTransport(Net)
    PROVE  CalmInv'
<1>1. Common /\ TypeOK
      BY DEF CalmInv, Common
<1>2. ~ConnectIgnored
      BY NetPhase DEF ConnectIgnored, Closed
<1>3. Closing
  <2>1. LoopEnds => Closing
        BY NetPhase, Threads DEF LoopEnds, Starting, Waiting, Finishing, Serving, Open, None, Worker
  <2>2. QED
        BY <1>2, <2>1, NetPhase DEF Drain, ResetMachine, DropTransport
<1>4. /\ UNCHANGED <<conn, sock, connected, incoming, flushVars, server>>
      /\ \/ pc[Net] = "poll" /\ Goto(Net, "drain") /\ pending' = pending
         \/ pc[Net] = "drain" /\ Goto(Net, "reset") /\ pending' = 0
         \/ pc[Net] = "reset" /\ Goto(Net, "drop") /\ pending' = pending /\ mstate' = "init"
         \/ pc[Net] = "drop" /\ Goto(Net, "connect") /\ pending' = pending /\ mstate' = mstate
            /\ transport' = None
      BY <1>2, <1>3 DEF LoopEnds, Drain, ResetMachine, DropTransport, netVars, Closing
<1>5. PICK l \in {"drain", "reset", "drop", "connect"} : Goto(Net, l)
      BY <1>4
<1>6. \A u \in Thread : pc'[u] = IF u = Net THEN l ELSE pc[u]
      BY <1>1, <1>5, Threads, GotoIs
<1>7. Common'
      BY <1>1, <1>3, <1>4, <1>5, CommonStays DEF flushVars, Locks, Closing, InFlush
<1>8. \A w \in Worker : Over(w)'
      BY <1>3, <1>6, Threads DEF Closing, Over
<1>9. Closing' \/ Closed'
      BY <1>1, <1>3, <1>4, <1>6, <1>8, Threads DEF Closing, Closed, Goto, TypeOK
<1>10. QED
       BY <1>7, <1>9 DEF CalmInv

\* A frame more at the end, or one less at the head, and the rest is still the rest.
LEMMA RestGrows ==
    ASSUME NEW w \in Worker, NEW q \in Seq(Segment), NEW k \in Nat, NEW top \in Nat, Rest(w, q, k, top)
    PROVE  Rest(w, Append(q, [for |-> w, n |-> top + 1]), k, top + 1)
<1> DEFINE s == [for |-> w, n |-> top + 1]
           r == Append(q, s)
<1>1. Len(q) \in Nat /\ Len(r) = Len(q) + 1 /\ DOMAIN q = 1..Len(q) /\ DOMAIN r = 1..(Len(q) + 1)
      OBVIOUS
<1>2. k + Len(r) = (top + 1) + 1
      BY <1>1 DEF Rest
<1>3. \A i \in DOMAIN r : i \in DOMAIN q \/ i = Len(q) + 1
      BY <1>1
<1>4. r[Len(q) + 1] = s /\ \A i \in DOMAIN q : r[i] = q[i]
      BY <1>1
<1>5. k + (Len(q) + 1) - 1 = top + 1
      BY <1>1, <1>2
<1> HIDE DEF r
<1>6. \A i \in DOMAIN r : r[i] = [for |-> w, n |-> k + i - 1]
      BY <1>3, <1>4, <1>5 DEF Rest
<1>7. Rest(w, r, k, top + 1)
      BY <1>2, <1>6 DEF Rest
<1>8. QED
      BY <1>7 DEF r

LEMMA RestStarts ==
    ASSUME NEW w
    PROVE  Rest(w, Append(<<>>, [for |-> w, n |-> 0]), 0, 0)
BY DEF Rest

LEMMA RestShrinks ==
    ASSUME NEW w \in Worker, NEW q \in Seq(Segment), NEW k \in Nat, NEW top \in Nat, Rest(w, q, k, top), q # <<>>
    PROVE  Head(q) = [for |-> w, n |-> k] /\ Rest(w, Tail(q), k + 1, top)
<1>1. Len(q) \in Nat /\ Len(q) > 0 /\ DOMAIN q = 1..Len(q)
      OBVIOUS
<1>2. Head(q) = q[1] /\ 1 \in DOMAIN q
      BY <1>1
<1>3. Head(q) = [for |-> w, n |-> k]
      BY <1>2 DEF Rest
<1>4. Tail(q) \in Seq(Segment) /\ Len(Tail(q)) = Len(q) - 1
      BY <1>1
<1>5. \A i \in DOMAIN Tail(q) : Tail(q)[i] = q[i + 1] /\ i \in Nat /\ i + 1 \in DOMAIN q
      BY <1>1, <1>4
<1>6. \A i \in DOMAIN Tail(q) : Tail(q)[i] = [for |-> w, n |-> k + (i + 1) - 1]
      BY <1>5 DEF Rest
<1>7. \A i \in DOMAIN Tail(q) : k + (i + 1) - 1 = (k + 1) + i - 1
      BY <1>5
<1>8. QED
      BY <1>1, <1>3, <1>4, <1>6, <1>7 DEF Rest

LEMMA RestEnds ==
    ASSUME NEW w, NEW k \in Nat, NEW top \in Nat, Rest(w, <<>>, k, top)
    PROVE  k = top + 1
BY DEF Rest

\* EVENT_AUTH: the worker of this connection is started.
LEMMA AuthStep ==
    ASSUME CalmInv, TypeOK', OnAuth
    PROVE  CalmInv'
<1>1. Common /\ TypeOK /\ Authing
      BY NetPhase DEF CalmInv, Common, OnAuth
<1>2. pc' = [pc EXCEPT ![Net] = "poll", ![conn] = "reset"] /\ conn \in Worker
      BY <1>1 DEF OnAuth, Authing, Open
<1>3. UNCHANGED <<netVars, mstate, transport, incoming, flushVars, server>>
      BY DEF OnAuth
<1>4. conn # Net /\ conn # Pinger /\ Net # Pinger /\ Net \in Thread /\ conn \in Thread /\ conn # Free /\ Net # Free
      BY <1>2, Threads DEF Free, Worker
<1>5. \A u \in Thread : pc'[u] = IF u = Net THEN "poll" ELSE IF u = conn THEN "reset" ELSE pc[u]
      BY <1>1, <1>2, <1>4 DEF TypeOK
<1>6. Common'
  <2>1. UNCHANGED <<conn, lock, rn>>
        BY <1>3 DEF netVars, flushVars
  <2>2. pc'[Pinger] = "idle"
        BY <1>1, <1>4, <1>5, Threads DEF Common
  <2>3. \A w \in Worker : w # conn' => Over(w)'
        BY <1>1, <1>5, <2>1, Threads DEF Common, Over
  <2>4. \A w \in Worker : w > conn' => pc'[w] = "none" /\ rn'[w] = 0
    <3>1. conn \in Nat
          BY <1>2 DEF Worker
    <3>2. \A w \in Worker : w > conn => w # conn /\ w # Net
          BY <3>1, Threads DEF Worker
    <3>3. QED
          BY <1>1, <1>5, <2>1, <3>2, Threads DEF Common
  <2>5. \A u \in Thread : lock' = u <=> pc'[u] \in InFlush
        BY <1>1, <1>4, <1>5, <2>1 DEF Common, Authing, InFlush
  <2>6. QED
        BY <2>2, <2>3, <2>4, <2>5 DEF Common
<1>7. Starting'
      BY <1>1, <1>3, <1>4, <1>5, Threads DEF Authing, Starting, Open, netVars, flushVars
<1>8. QED
      BY <1>6, <1>7 DEF CalmInv

\* A segment of the server is queued.
LEMMA ReceiveStep ==
    ASSUME CalmInv, TypeOK', NetReceive
    PROVE  CalmInv'
<1>1. Common /\ TypeOK
      BY DEF CalmInv, Common
<1>2. pc[Net] = "poll" /\ sock # None /\ server.hello # None /\ Goto(Net, "check")
      BY DEF NetReceive
<1>3. UNCHANGED <<conn, sock, state, connected, pending, mstate, transport, lock, using, held, rn, lastUp>>
      BY DEF NetReceive, netVars, flushVars
<1>4. \A u \in Thread : pc'[u] = IF u = Net THEN "check" ELSE pc[u]
      BY <1>1, <1>2, Threads, GotoIs
<1>5. Waiting \/ Finishing \/ Serving
      BY <1>2, NetPhase DEF Closing, Starting, NoServer, None
<1>6. conn \in Worker /\ conn # Net /\ conn \in Thread /\ rn[conn] \in Nat /\ server.sent \in Nat /\ incoming \in Seq(Segment)
      BY <1>1, <1>5, Threads DEF Waiting, Finishing, Serving, Open, TypeOK, Worker, ServerState
<1>7. Common'
      BY <1>1, <1>2, <1>3, CommonStays DEF Locks, InFlush
<1>8. CASE ~server.answered
  <2>1. Waiting /\ server = [NoServer EXCEPT !.hello = conn] /\ incoming = <<>>
        BY <1>5, <1>8 DEF Waiting, Finishing, Serving, Frames
  <2>2. PICK ik \in BOOLEAN : server' = [server EXCEPT !.answered = TRUE, !.ready = ik]
        BY <1>8, <2>1 DEF NetReceive, NoServer
  <2>3. incoming' = Append(<<>>, [for |-> conn, n |-> 0])
        BY <1>8, <2>1 DEF NetReceive, NoServer
  <2>4. server'.hello = conn /\ server'.answered /\ server'.sent = 0
        BY <2>1, <2>2 DEF NoServer
  <2>5. Frames(0)'
        BY <1>3, <2>3, <2>4, RestStarts DEF Frames
  <2>6. Waiting'
        BY <1>3, <1>4, <1>6, <2>1, <2>5, Threads DEF Waiting, Open
  <2>7. QED
        BY <1>7, <2>6 DEF CalmInv
<1>9. CASE server.answered
  <2>1. /\ server' = [server EXCEPT !.sent = @ + 1]
        /\ incoming' = Append(incoming, [for |-> server.hello, n |-> server.sent + 1])
        BY <1>9 DEF NetReceive
  <2>2. server'.hello = server.hello /\ server'.answered = server.answered /\ server'.sent = server.sent + 1
        BY <1>1, <2>1 DEF TypeOK, ServerState
  <2>3. \A k \in Nat : Rest(conn, incoming, k, server.sent) /\ server.hello = conn
            => Rest(conn, incoming', k, server.sent + 1)
        BY <1>6, <2>1, RestGrows
  <2>4. CASE Waiting
    <3>1. Frames(0)
          BY <1>9, <2>4 DEF Waiting, NoServer
    <3>2. Frames(0)'
          BY <1>3, <2>2, <2>3, <3>1 DEF Frames
    <3>3. Waiting'
          BY <1>3, <1>4, <1>6, <2>4, <3>2, Threads DEF Waiting, Open
    <3>4. QED
          BY <1>7, <3>3 DEF CalmInv
  <2>5. CASE Finishing
    <3>1. Frames(1)'
          BY <1>3, <2>2, <2>3, <2>5 DEF Frames, Finishing
    <3>2. Finishing'
          BY <1>3, <1>4, <1>6, <2>5, <3>1, Threads DEF Finishing, Open
    <3>3. QED
          BY <1>7, <3>2 DEF CalmInv
  <2>6. CASE Serving
    <3>1. Frames(rn[conn] + 1)'
          BY <1>3, <1>6, <2>2, <2>3, <2>6 DEF Frames, Serving
    <3>2. Serving'
          BY <1>3, <1>4, <1>6, <2>6, <3>1, Threads DEF Serving, Open
    <3>3. QED
          BY <1>7, <3>2 DEF CalmInv
  <2>7. QED
        BY <1>5, <2>4, <2>5, <2>6
<1>10. QED
       BY <1>8, <1>9

\* ... and flushed unless a worker still reads the queue.
LEMMA CheckStep ==
    ASSUME CalmInv, TypeOK', NetCheck
    PROVE  CalmInv'
<1>1. Common /\ TypeOK /\ pc[Net] = "check"
      BY DEF CalmInv, Common, NetCheck
<1>2. Waiting \/ Finishing \/ Serving
      BY <1>1, NetPhase
<1>3. UNCHANGED <<conn, sock, state, connected, pending, mstate, transport, incoming, lock, using, held, rn, lastUp, server>>
      BY DEF NetCheck, netVars, flushVars
<1>4. PICK l \in {"poll", "acquire"} : Goto(Net, l) /\ (l = "poll" <=> mstate = "handshake")
      BY DEF NetCheck
<1>5. \A u \in Thread : pc'[u] = IF u = Net THEN l ELSE pc[u]
      BY <1>1, <1>4, Threads, GotoIs
<1>6. conn \in Worker /\ conn # Net /\ conn \in Thread
      BY <1>2, Threads DEF Waiting, Finishing, Serving, Open, Worker
<1>7. Common'
      BY <1>1, <1>3, <1>4, CommonStays DEF Locks, InFlush
<1>8. Waiting => Waiting'
      BY <1>1, <1>3, <1>4, <1>5, <1>6, Threads DEF Waiting, Open, Frames
<1>9. Finishing => Finishing'
      BY <1>1, <1>3, <1>4, <1>5, <1>6, Threads DEF Finishing, Open, Frames
<1>10. Serving => Serving'
      BY <1>1, <1>3, <1>4, <1>5, <1>6, Threads DEF Serving, Open, Frames
<1>11. QED
      BY <1>2, <1>7, <1>8, <1>9, <1>10 DEF CalmInv

\* Net's own steps.
LEMMA CalmNetStep ==
    ASSUME CalmInv, TypeOK', CalmNet
    PROVE  CalmInv'
BY OpensStep, BackStep, AuthStep, ReceiveStep, CheckStep DEF CalmNet

-----------------------------------------------------------------------------
(* Calm steps of the latest worker.                                        *)

\* The worker resets, starts and sends its hello.
LEMMA StartingStep ==
    ASSUME CalmInv, TypeOK', NEW w \in Worker,
           ResetMachine(w) \/ DropTransport(w) \/ WorkerStart(w) \/ WorkerHello(w)
    PROVE  CalmInv'
<1>1. Common /\ TypeOK
      BY DEF CalmInv, Common
<1>2. pc[w] \in {"reset", "drop", "start", "hello"}
      BY DEF ResetMachine, DropTransport, WorkerStart, WorkerHello
<1>3. w = conn /\ Starting
      BY <1>2, WorkerPhase DEF Over
<1>4. w # Net /\ w \in Thread /\ w # None
      BY Threads DEF Worker, None
<1>5. UNCHANGED <<netVars, incoming, flushVars>>
      BY DEF ResetMachine, DropTransport, WorkerStart, WorkerHello
<1>6. UNCHANGED <<conn, sock, state, connected, pending, lock, rn>>
      BY <1>5 DEF netVars, flushVars
<1>7. \/ Goto(w, "drop") /\ mstate' = "init" /\ server' = server
      \/ Goto(w, "start") /\ mstate' = "init" /\ server' = server
      \/ Goto(w, "hello") /\ mstate' = "handshake" /\ server' = server
      \/ Goto(w, "wait") /\ mstate' = "handshake" /\ server' = [NoServer EXCEPT !.hello = w]
  <2>1. ResetMachine(w) => Goto(w, "drop") /\ mstate' = "init" /\ server' = server
        BY DEF ResetMachine
  <2>2. DropTransport(w) => Goto(w, "start") /\ mstate' = "init" /\ server' = server
        BY <1>3, <1>4 DEF DropTransport, Starting
  <2>3. WorkerStart(w) => Goto(w, "hello") /\ mstate' = "handshake" /\ server' = server
        BY <1>3 DEF WorkerStart, Starting
  <2>4. WorkerHello(w) => Goto(w, "wait") /\ mstate' = "handshake" /\ server' = [NoServer EXCEPT !.hello = w]
        BY <1>3, <1>4 DEF WorkerHello, Starting, Open, NoServer, None
  <2>5. QED
        BY <2>1, <2>2, <2>3, <2>4
<1>8. PICK l \in {"drop", "start", "hello", "wait"} :
          /\ Goto(w, l)
          /\ mstate' = IF l \in {"hello", "wait"} THEN "handshake" ELSE "init"
          /\ server' = IF l = "wait" THEN [NoServer EXCEPT !.hello = w] ELSE server
      BY <1>7
<1>9. \A u \in Thread : pc'[u] = IF u = w THEN l ELSE pc[u]
      BY <1>1, <1>4, <1>8, GotoIs
<1>10. Common'
  <2>1. Locks(w, l)
        BY <1>2, <1>6, <1>8 DEF Locks, InFlush
  <2>2. QED
        BY <1>1, <1>3, <1>6, <1>8, <2>1, CommonStays
<1>11. CASE l = "wait"
  <2>1. Waiting'
        BY <1>3, <1>4, <1>5, <1>6, <1>8, <1>9, <1>11, Threads DEF Waiting, Starting, Open
  <2>2. QED
        BY <1>10, <2>1 DEF CalmInv
<1>12. CASE l # "wait"
  <2>1. Starting'
        BY <1>3, <1>4, <1>5, <1>6, <1>8, <1>9, <1>12, Threads DEF Starting, Open
  <2>2. QED
        BY <1>10, <2>1 DEF CalmInv
<1>13. QED
       BY <1>11, <1>12

\* It reads the answer to its own hello.
LEMMA AnswerStep ==
    ASSUME CalmInv, TypeOK', NEW w \in Worker, WorkerReceive(w)
    PROVE  CalmInv'
<1>1. Common /\ TypeOK
      BY DEF CalmInv, Common
<1>2. w = conn /\ Waiting /\ pc[w] = "wait" /\ incoming # <<>>
      BY WorkerPhase DEF WorkerReceive, Over
<1>3. w # Net /\ w \in Thread /\ w # None
      BY Threads DEF Worker, None
<1>4. UNCHANGED <<conn, sock, state, connected, pending, mstate, transport, lock, rn>> /\ incoming' = Tail(incoming)
      BY DEF WorkerReceive, netVars, flushVars
<1>5. Frames(0)
      BY <1>2 DEF Waiting
<1>6. incoming \in Seq(Segment) /\ server.sent \in Nat
      BY <1>1 DEF TypeOK, ServerState
<1>7. Head(incoming) = [for |-> w, n |-> 0] /\ Rest(w, Tail(incoming), 1, server.sent)
      BY <1>2, <1>5, <1>6, RestShrinks DEF Frames
<1>8. Goto(w, "install") /\ server' \in {server, [server EXCEPT !.ready = TRUE]}
      BY <1>7 DEF WorkerReceive
<1>9. server'.hello = server.hello /\ server'.answered = server.answered /\ server'.sent = server.sent
      BY <1>1, <1>8 DEF TypeOK, ServerState
<1>10. Frames(1)'
       BY <1>2, <1>4, <1>5, <1>7, <1>9 DEF Frames
<1>11. \A u \in Thread : pc'[u] = IF u = w THEN "install" ELSE pc[u]
       BY <1>1, <1>3, <1>8, GotoIs
<1>12. Common'
  <2>1. Locks(w, "install")
        BY <1>2, <1>4 DEF Locks, InFlush
  <2>2. QED
        BY <1>1, <1>2, <1>4, <1>8, <2>1, CommonStays
<1>13. Finishing'
       BY <1>2, <1>3, <1>4, <1>10, <1>11, Threads DEF Finishing, Waiting, Open
<1>14. QED
       BY <1>12, <1>13 DEF CalmInv

\* It installs the keys, and enters TRANSPORT.
LEMMA FinishStep ==
    ASSUME CalmInv, TypeOK', NEW w \in Worker, InstallTransport(w) \/ WorkerFinish(w)
    PROVE  CalmInv'
<1>1. Common /\ TypeOK
      BY DEF CalmInv, Common
<1>2. w = conn /\ Finishing /\ pc[w] \in {"install", "finish"}
      BY WorkerPhase DEF InstallTransport, WorkerFinish, Over
<1>3. w # Net /\ w \in Thread
      BY Threads DEF Worker
<1>4. UNCHANGED <<conn, sock, state, connected, pending, incoming, lock, rn, server>>
      BY DEF InstallTransport, WorkerFinish, netVars, flushVars
<1>5. \/ pc[w] = "install" /\ Goto(w, "finish") /\ mstate' = "handshake" /\ transport' = w
      \/ pc[w] = "finish" /\ Goto(w, "acquire") /\ mstate' = "transport" /\ transport' = w
      BY <1>2 DEF InstallTransport, WorkerFinish, Finishing
<1>6. PICK l \in {"finish", "acquire"} :
          Goto(w, l) /\ transport' = w /\ mstate' = IF l = "finish" THEN "handshake" ELSE "transport"
      BY <1>5
<1>7. \A u \in Thread : pc'[u] = IF u = w THEN l ELSE pc[u]
      BY <1>1, <1>3, <1>6, GotoIs
<1>8. Common'
  <2>1. Locks(w, l)
        BY <1>2, <1>4, <1>6 DEF Locks, InFlush
  <2>2. QED
        BY <1>1, <1>2, <1>4, <1>6, <2>1, CommonStays
<1>9. CASE l = "finish"
  <2>1. Finishing'
        BY <1>2, <1>3, <1>4, <1>6, <1>7, <1>9, Threads DEF Finishing, Open, Frames
  <2>2. QED
        BY <1>8, <2>1 DEF CalmInv
<1>10. CASE l = "acquire"
  <2>1. Frames(rn[conn] + 1)'
        BY <1>2, <1>4 DEF Frames, Finishing
  <2>2. Serving'
        BY <1>2, <1>3, <1>4, <1>6, <1>7, <1>10, <2>1, Threads DEF Finishing, Serving, Open, InFlush
  <2>3. QED
        BY <1>8, <2>2 DEF CalmInv
<1>11. QED
       BY <1>9, <1>10

\* Nothing fails, so no worker gives up.
LEMMA CalmWorkerStep ==
    ASSUME CalmInv, TypeOK', NEW w \in Worker, WorkerStep(w)
    PROVE  CalmInv'
<1>1. ~WorkerFail(w) /\ ~WorkerReport(w)
      BY WorkerPhase DEF WorkerFail, WorkerReport, Over, InFlush
<1>2. QED
      BY <1>1, StartingStep, AnswerStep, FinishStep DEF WorkerStep

-----------------------------------------------------------------------------
(* Calm steps of the flush, in Net and in the latest worker.               *)

\* Who flushes does it in TRANSPORT.
LEMMA FlushPhase ==
    ASSUME CalmInv, NEW t \in {Net} \cup Worker, pc[t] \in {"acquire"} \cup InFlush
    PROVE  Serving /\ t \in {Net, conn} /\ t \in Thread /\ t # Free
BY NetPhase, WorkerPhase, Threads DEF Over, InFlush, Free, Worker

\* What a step of the flush that leaves the connection alone keeps.
LEMMA ServingStays ==
    ASSUME CalmInv, TypeOK', Serving, NEW t \in {Net, conn}, NEW l, Goto(t, l), Locks(t, l),
           UNCHANGED netVars, mstate' = mstate, transport' = transport, Frames(rn[conn] + 1)',
           \A w \in Worker : w # conn => rn'[w] = rn[w],
           \A u \in Thread : u # t => using'[u] = using[u],
           l \in InFlush \cup {IF t = Net THEN "poll" ELSE "done"},
           l = "take" => using'[t] = conn,
           l \in {"poll", "done"} => incoming' = <<>>,
           incoming = <<>> => incoming' = <<>>
    PROVE  CalmInv'
<1>1. Common /\ TypeOK
      BY DEF CalmInv, Common
<1>2. UNCHANGED <<conn, sock, state, connected, pending>>
      BY DEF netVars
<1>3. conn \in Worker /\ conn # Net /\ conn \in Thread /\ Net \in Thread
      BY Threads DEF Serving, Open, Worker
<1>4. \A u \in Thread : pc'[u] = IF u = t THEN l ELSE pc[u]
      BY <1>1, <1>3, GotoIs
<1>5. Common'
      BY <1>1, <1>2, <1>3, CommonStays
<1>6. pc'[Net] \in {"poll", "check", "acquire"} \cup InFlush /\ pc'[conn] \in {"acquire", "done"} \cup InFlush
      BY <1>3, <1>4 DEF Serving
<1>7. \A u \in {Net, conn} : pc'[u] = "take" => using'[u] = conn
      BY <1>3, <1>4 DEF Serving
<1>8. incoming' = <<>> \/ pc'[conn] # "done" \/ pc'[Net] # "poll"
      BY <1>3, <1>4 DEF Serving
<1>9. Serving'
      BY <1>2, <1>6, <1>7, <1>8 DEF Serving, Open
<1>10. QED
       BY <1>5, <1>9 DEF CalmInv

\* The lock is taken, and returned when the queue is empty.
LEMMA LoopStep ==
    ASSUME CalmInv, TypeOK', NEW t \in {Net} \cup Worker, FlushAcquire(t) \/ FlushLoop(t)
    PROVE  CalmInv'
<1>1. pc[t] \in {"acquire", "loop"}
      BY DEF FlushAcquire, FlushLoop
<1>2. Serving /\ t \in {Net, conn} /\ t \in Thread /\ t # Free
      BY <1>1, FlushPhase DEF InFlush
<1>3. UNCHANGED <<conn, mstate, transport, incoming, using, held, rn, server>> /\ UNCHANGED netVars
      BY DEF FlushAcquire, FlushLoop, netVars
<1>4. Frames(rn[conn] + 1)'
      BY <1>2, <1>3 DEF Serving, Frames
<1>5. CASE FlushAcquire(t)
      BY <1>2, <1>3, <1>4, <1>5, ServingStays DEF FlushAcquire, Locks, InFlush
<1>6. CASE FlushLoop(t)
  <2>1. lock = t
        BY <1>2, <1>6 DEF FlushLoop, CalmInv, Common, InFlush
  <2>2. PICK l \in {"recv", IF t = Net THEN "poll" ELSE "done"} :
            /\ Goto(t, l) /\ (l = "recv" => lock' = lock /\ incoming # <<>>)
            /\ (l # "recv" => lock' = Free /\ incoming = <<>>)
        BY <1>6 DEF FlushLoop
  <2>3. Locks(t, l)
        BY <1>1, <1>6, <2>1, <2>2 DEF Locks, InFlush, FlushLoop
  <2>4. QED
        BY <1>2, <1>3, <1>4, <2>2, <2>3, ServingStays DEF InFlush
<1>7. QED
      BY <1>5, <1>6

\* The keys are the connection's, and the frame at the head is the next one.
LEMMA FrameStep ==
    ASSUME CalmInv, TypeOK', NEW t \in {Net} \cup Worker, FlushRecv(t) \/ FlushTake(t) \/ HandsUp(t)
    PROVE  CalmInv'
<1>1. pc[t] \in {"recv", "take", "deliver"}
      BY DEF FlushRecv, FlushTake, HandsUp, FlushDeliver
<1>2. Serving /\ t \in {Net, conn} /\ t \in Thread /\ t # Free
      BY <1>1, FlushPhase DEF InFlush
<1>3. UNCHANGED <<mstate, transport, lock, server>>
      BY DEF FlushRecv, FlushTake, HandsUp, FlushDeliver
<1>4. TypeOK /\ conn \in Worker /\ conn # None
      BY <1>2, Threads DEF CalmInv, Common, Serving, Open, Worker, None
<1>5. CASE FlushRecv(t)
  <2>1. Goto(t, "take") /\ using' = [using EXCEPT ![t] = conn] /\ UNCHANGED netVars /\ UNCHANGED <<incoming, rn>>
        BY <1>2, <1>4, <1>5 DEF FlushRecv, Serving
  <2>2. using'[t] = conn /\ \A u \in Thread : u # t => using'[u] = using[u]
        BY <1>2, <1>4, <2>1 DEF TypeOK
  <2>3. conn' = conn
        BY <2>1 DEF netVars
  <2>4. Frames(rn[conn] + 1)'
        BY <1>2, <1>3, <2>1, <2>3 DEF Serving, Frames
  <2>5. Locks(t, "take")
        BY <1>1, <1>3 DEF Locks, InFlush
  <2>6. QED
        BY <1>2, <1>3, <2>1, <2>2, <2>4, <2>5, ServingStays DEF InFlush
<1>6. CASE FlushTake(t)
  <2>1. using[t] = conn /\ incoming # <<>> /\ incoming' = Tail(incoming) /\ using' = using
        BY <1>2, <1>6 DEF FlushTake, Serving
  <2>2. rn[conn] \in Nat /\ incoming \in Seq(Segment) /\ server.sent \in Nat
        BY <1>4 DEF TypeOK, ServerState
  <2>3. Rest(conn, incoming, rn[conn] + 1, server.sent)
        BY <1>2 DEF Serving, Frames
  <2>4. Head(incoming) = [for |-> conn, n |-> rn[conn] + 1] /\ Rest(conn, Tail(incoming), rn[conn] + 1 + 1, server.sent)
    <3>1. rn[conn] + 1 \in Nat
          BY <2>2
    <3>2. QED
          BY <1>4, <2>1, <2>2, <2>3, <3>1, RestShrinks
  <2>5. Readable(conn, Head(incoming))
        BY <2>4 DEF Readable
  <2>6. rn' = [rn EXCEPT ![conn] = Head(incoming).n] /\ Goto(t, "deliver") /\ UNCHANGED netVars
        BY <1>6, <2>1, <2>5 DEF FlushTake
  <2>7. rn'[conn] = rn[conn] + 1 /\ \A w \in Worker : w # conn => rn'[w] = rn[w]
        BY <1>4, <2>4, <2>6 DEF TypeOK
  <2>8. conn' = conn
        BY <2>6 DEF netVars
  <2>9. Frames(rn[conn] + 1)'
        BY <1>2, <1>3, <2>1, <2>4, <2>7, <2>8 DEF Serving, Frames
  <2>10. Locks(t, "deliver")
        BY <1>1, <1>3 DEF Locks, InFlush
  <2>11. QED
        BY <1>2, <1>3, <2>1, <2>6, <2>7, <2>9, <2>10, ServingStays DEF InFlush
<1>7. CASE HandsUp(t)
  <2>1. Goto(t, "loop") /\ UNCHANGED netVars /\ UNCHANGED <<incoming, using, rn>>
        BY <1>7 DEF HandsUp, FlushDeliver
  <2>2. conn' = conn
        BY <2>1 DEF netVars
  <2>3. Frames(rn[conn] + 1)'
        BY <1>2, <1>3, <2>1, <2>2 DEF Serving, Frames
  <2>4. Locks(t, "loop")
        BY <1>1, <1>3 DEF Locks, InFlush
  <2>5. QED
        BY <1>2, <1>3, <2>1, <2>3, <2>4, ServingStays DEF InFlush
<1>8. QED
      BY <1>5, <1>6, <1>7

LEMMA CalmFlushStep ==
    ASSUME CalmInv, TypeOK', NEW t \in {Net} \cup Worker, CalmFlush(t)
    PROVE  CalmInv'
BY LoopStep, FrameStep DEF CalmFlush

-----------------------------------------------------------------------------
(* The calm behaviours of MCSpec.                                          *)

LEMMA CalmStep ==
    ASSUME CalmInv, TypeOK', CalmNext
    PROVE  CalmInv'
<1>1. \A t \in Worker \cup {Pinger} : ~EnqueueDisconnected(t)
      BY WorkerPhase DEF EnqueueDisconnected, CalmInv, Common, Over, InFlush
<1>2. QED
      BY <1>1, CalmNetStep, CalmWorkerStep, CalmFlushStep, ClosesStep DEF CalmNext

LEMMA CalmInit == Init => CalmInv
<1> SUFFICES ASSUME Init PROVE CalmInv
    OBVIOUS
<1>1. \A t \in Thread : pc[t] \notin InFlush /\ t # lock
      BY Threads DEF Init, InFlush, Free
<1>2. \A w \in Worker : pc[w] = "none" /\ rn[w] = 0
      BY Threads DEF Init
<1>3. pc[Net] = "connect" /\ pc[Pinger] = "idle"
      BY Threads DEF Init
<1>4. Common
      BY <1>1, <1>2, <1>3, TypeInit DEF Common, Over
<1>5. Closed
      BY <1>2, <1>3 DEF Closed, Over, Init
<1>6. QED
      BY <1>4, <1>5 DEF CalmInv

\* In both instances the types hold, and in the calm one every state is of one phase.
MCInv == TypeOK /\ (calm => CalmInv)

LEMMA MCStep == MCInv /\ [MCNext]_<<vars, calm>> => MCInv'
<1> SUFFICES ASSUME MCInv, [MCNext]_<<vars, calm>> PROVE MCInv'
    OBVIOUS
<1>1. CASE UNCHANGED <<vars, calm>>
  <2>1. TypeOK'
        BY <1>1, TypeStep DEF MCInv
  <2>2. calm => CalmInv'
        BY <1>1 DEF MCInv, vars, netVars, flushVars, CalmInv, Common, Closed, Closing, Authing, Starting,
                    Waiting, Finishing, Serving, Open, Frames, Over, TypeOK
  <2>3. QED
        BY <1>1, <2>1, <2>2 DEF MCInv
<1>2. CASE MCNext
  <2>1. calm' = calm
        BY <1>2 DEF MCNext
  <2>2. CASE calm
    <3>1. CalmNext
          BY <1>2, <2>2, CalmIs DEF MCNext
    <3>2. TypeOK'
          BY <3>1, CalmIsNext, TypeStep DEF MCInv
    <3>3. QED
          BY <2>2, <3>1, <3>2, CalmStep DEF MCInv
  <2>3. CASE ~calm
    <3>1. Next
          BY <1>2, <2>3 DEF MCNext
    <3>2. QED
          BY <2>1, <2>3, <3>1, TypeStep DEF MCInv
  <2>4. QED
        BY <2>2, <2>3
<1>3. QED
      BY <1>1, <1>2

LEMMA CalmInvariant == MCSpec => []MCInv
<1>1. MCInit => MCInv
      BY TypeInit, CalmInit DEF MCInit, MCInv
<1>2. QED
      BY <1>1, MCStep, PTL DEF MCSpec

\* Where the link drops only between exchanges, the threads and the objects that outlive
\* a connection are always in one of seven phases: an old worker never runs beside the
\* connection's own, nothing of an old connection is left in the queue, and what is there
\* are the frames of this connection that no one has decrypted, in order.
THEOREM CalmPhases == MCSpec => [](calm => CalmInv)
<1>1. MCInv => (calm => CalmInv)
      BY DEF MCInv
<1>2. QED
      BY <1>1, CalmInvariant, PTL

\* Then the hand-over of the queue from the worker to Net loses no frame: in TRANSPORT
\* with every thread back in its loop none waits.
THEOREM FramesNotStranded == MCSpec => []CalmNoStrandedFrame
<1>1. MCInv => CalmNoStrandedFrame
  <2> SUFFICES ASSUME MCInv, calm, Quiet, mstate = "transport" PROVE incoming = <<>>
      BY DEF CalmNoStrandedFrame, NoStrandedFrame
  <2>1. CalmInv /\ pc[Net] = "poll" /\ \A w \in Worker : pc[w] \in {"none", "done"}
        BY DEF MCInv, Quiet
  <2>2. Closing \/ Serving
        BY <2>1, NetPhase DEF Starting, Waiting, Finishing
  <2>3. QED
        BY <2>1, <2>2 DEF Closing, Serving, Open, InFlush
<1>2. QED
      BY <1>1, CalmInvariant, PTL

\* ... and _flush_lock is free when no thread is in the flush.
THEOREM LockComesBack == MCSpec => []CalmLockReturned
<1>1. MCInv => CalmLockReturned
      BY DEF MCInv, CalmInv, Common, CalmLockReturned, LockReturned
<1>2. QED
      BY <1>1, CalmInvariant, PTL
=============================================================================
