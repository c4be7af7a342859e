------------------------------ MODULE MCNoise ------------------------------
(***************************************************************************)
(* Two instances of NoiseConnection over the same variables; a behaviour   *)
(* keeps to one of them from its first state.  In the calm one the link    *)
(* drops only between exchanges; in the other it drops at any time, by the *)
(* peer, by the ping thread and by exceptions, for one connection less.    *)
(***************************************************************************)
EXTENDS NoiseConnection

VARIABLE calm

Calm == INSTANCE NoiseConnection
            WITH UnsettledDrops <- FALSE, PingDrops <- FALSE, UpperRaises <- FALSE

MCInit == Init /\ calm \in BOOLEAN

MCNext ==
    /\ IF calm THEN Calm!Next ELSE Next /\ conn' < MaxConn
    /\ UNCHANGED calm

\* Threads keep running and the server answers and sends what it has;
\* nobody is obliged to drop the connection.  Asked for in the calm instance.
Fairly(A) == calm /\ A /\ UNCHANGED calm

MCSpec ==
    /\ MCInit /\ [][MCNext]_<<vars, calm>>
    /\ WF_<<vars, calm>>(Fairly(Calm!NetStep))
    /\ WF_<<vars, calm>>(Fairly(Calm!FlushStep(Net)))
    /\ \A w \in Worker :
          /\ WF_<<vars, calm>>(Fairly(Calm!WorkerStep(w)))
          /\ WF_<<vars, calm>>(Fairly(Calm!FlushStep(w)))
    /\ \A t \in Worker \cup {Pinger} :
          WF_<<vars, calm>>(Fairly(Calm!EnqueueDisconnected(t)))

\* NoStrandedFrame and LockReturned where no connection is cut off half-way.
CalmNoStrandedFrame == calm => NoStrandedFrame
CalmLockReturned == calm => LockReturned

\* Every calm connection reaches TRANSPORT with the keys of its own worker, also
\* after reconnects.
ServesConnection ==
    \A c \in Worker :
        (calm /\ sock = c /\ pc[Net] = "auth")
            ~> (mstate = "transport" /\ transport = c)

\* ... and all that the server sent on it is handed up.
Delivers ==
    \A c \in Worker :
        (calm /\ sock = c /\ server.sent = MaxData) ~> (lastUp[c] = MaxData)
=============================================================================
