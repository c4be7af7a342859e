-------------------------- MODULE StackLoopProofs --------------------------
(***************************************************************************)
(* Proofs about StackLoop, for every set of accounts, any number of losses *)
(* and drops, and whoever quits: type correctness, that one thread runs a  *)
(* stack, that a loss is continued once, and that a thread which ends      *)
(* leaves no stack behind, wherever no connection is ended twice.          *)
(***************************************************************************)
EXTENDS StackLoop, FunctionTheorems, FiniteSetTheorems, TLAPS

In(s) == \E i \in 1..Len(queue) : queue[i] = s
Once(s) == \A i, j \in 1..Len(queue) : queue[i] = s /\ queue[j] = s => i = j

\* A stack is one token: it waits in the queue, once, or one thread has it, or
\* one other thread is about to queue it.
Token(s) ==
    /\ Once(s)
    /\ In(s) => ~Pending(s) /\ \A t \in Stack : ~Has(t, s)
    /\ Pending(s) => closing[s] + telling[s] = 1 /\ \A t \in Stack : ~Has(t, s)
    /\ \A t, u \in Stack : Has(t, s) /\ Has(u, s) => t = u

\* What the network layer knows of it: whoever announces a loss finds it not
\* yet announced, and whoever reconnects finds it not connected.
Flags(s) ==
    /\ In(s) => ~connected[s]
    /\ Pending(s) => ~down[s]
    /\ \A t \in Stack : serving[t] = s =>
          /\ pc[t] \in {"start", "handle", "upper", "delay"} => ~connected[s]
          /\ pc[t] \in {"closing", "telling"} => ~down[s] /\ ~open[t]
          /\ open[t] => dispatcher[s] = t /\ ~down[s]

\* The token is lost only where the stack was given up.
Kept(s) == In(s) \/ Pending(s) \/ \E t \in Stack : Has(t, s)
GivenUp == quit \cup refused \cup failed

Good(s) == Token(s) /\ Flags(s) /\ (s \notin GivenUp => Kept(s))

OpenInLoop ==
    \A t \in Stack : open[t] => pc[t] \in {"connect", "serve", "closing", "telling"}

IInv == TypeOK /\ OpenInLoop /\ \A s \in Stack \ late : Good(s)

-----------------------------------------------------------------------------
\* Every reachable state is well typed.
LEMMA TypeInit == Init => TypeOK
  BY DEF Init, TypeOK, Label

\* A connect that comes up, or raises.
LEMMA ConnectingType ==
    ASSUME TypeOK, NEW t \in Stack, NEW s \in Stack, Connecting(t, s)
    PROVE  /\ pc' \in [Stack -> Label] /\ open' \in [Stack -> BOOLEAN]
           /\ dispatcher' \in [Stack -> Stack] /\ down' \in [Stack -> BOOLEAN]
           /\ quit' \in SUBSET Stack /\ failed' \in SUBSET Stack
<1> USE DEF TypeOK, Goto, Label
<1>1. CASE Connects(t, s)
      BY <1>1 DEF Connects
<1>2. CASE ConnectRaises(t, s)
      BY <1>2 DEF ConnectRaises
<1>3. QED BY <1>1, <1>2 DEF Connecting

\* The thread goes on serving, or leaves asyncore.loop.
LEMMA ResumeType ==
    ASSUME TypeOK, NEW t \in Stack, Resume(t)
    PROVE  /\ pc' \in [Stack -> Label] /\ nested' \in [Stack -> BOOLEAN]
           /\ late' \in SUBSET Stack
<1> USE DEF TypeOK, Goto, Label
<1>1. CASE open[t]
      BY <1>1 DEF Resume
<1>2. CASE ~open[t]
  <2>1. Leave(t)
        BY <1>2 DEF Resume
  <2>2. pc' \in [Stack -> Label]
        BY <2>1 DEF Leave
  <2>3. nested' \in [Stack -> BOOLEAN]
        BY <2>1 DEF Leave
  <2>4. late' \in SUBSET Stack
        BY <2>1 DEF Leave
  <2>5. QED BY <2>2, <2>3, <2>4
<1>3. QED BY <1>1, <1>2

LEMMA TypeStep == TypeOK /\ [Next]_vars => TypeOK'
<1> SUFFICES ASSUME TypeOK, [Next]_vars PROVE TypeOK'
    OBVIOUS
<1> USE DEF TypeOK, Goto, Label, network, flags, others, bounds
<1>1. ASSUME NEW t \in Stack, Start(t) PROVE TypeOK'
      BY <1>1, ConnectingType DEF Start
<1>2. ASSUME NEW t \in Stack, SocketGone(t) PROVE TypeOK'
      BY <1>2 DEF SocketGone, Leave
<1>3. ASSUME NEW t \in Stack, Test(t) PROVE TypeOK'
  <2>1. CASE down[serving[t]]
        BY <1>3, <2>1, ResumeType DEF Test
  <2>2. CASE ~down[serving[t]]
        BY <1>3, <2>2 DEF Test
  <2>3. QED BY <2>1, <2>2
<1>4. ASSUME NEW t \in Stack, Tell(t) PROVE TypeOK'
      BY <1>4, ResumeType DEF Tell, Announce
<1>5. ASSUME NEW t \in Stack, Take(t) PROVE TypeOK'
      BY <1>5 DEF Take
<1>6. ASSUME NEW t \in Stack, LoopEmpty(t) PROVE TypeOK'
      BY <1>6 DEF LoopEmpty
<1>7. ASSUME NEW t \in Stack, Reboot(t) PROVE TypeOK'
      BY <1>7, ConnectingType DEF Reboot
<1>8. ASSUME NEW t \in Stack, OnDisconnected(t) PROVE TypeOK'
      BY <1>8 DEF OnDisconnected
<1>9. ASSUME NEW t \in Stack, Reconnect(t) PROVE TypeOK'
  <2>1. CASE connected[serving[t]]
        BY <1>9, <2>1 DEF Reconnect
  <2>2. CASE ~connected[serving[t]]
        BY <1>9, <2>2, ConnectingType DEF Reconnect
  <2>3. QED BY <2>1, <2>2
<1>10. ASSUME NEW t \in Stack, Connected(t) PROVE TypeOK'
       BY <1>10 DEF Connected
<1>11. ASSUME NEW t \in Stack, HandleClose(t) PROVE TypeOK'
       BY <1>11 DEF HandleClose
<1>12. ASSUME NEW t \in Stack, SelfDrop(t) PROVE TypeOK'
       BY <1>12 DEF SelfDrop, Destroy
<1>13. ASSUME NEW s \in Stack, DropClose(s) PROVE TypeOK'
       BY <1>13 DEF DropClose, Destroy
<1>14. ASSUME NEW s \in Stack, QuitClose(s) PROVE TypeOK'
       BY <1>14 DEF QuitClose, Destroy
<1>15. ASSUME NEW s \in Stack, DropTest(s) PROVE TypeOK'
       BY <1>15 DEF DropTest
<1>16. ASSUME NEW s \in Stack, DropTell(s) PROVE TypeOK'
       BY <1>16 DEF DropTell, Announce
<1>17. CASE UNCHANGED vars
       BY <1>17 DEF vars
<1>18. QED
       BY <1>1, <1>2, <1>3, <1>4, <1>5, <1>6, <1>7, <1>8, <1>9, <1>10, <1>11, <1>12,
          <1>13, <1>14, <1>15, <1>16, <1>17 DEF Next, ThreadStep, Environment, OtherStep

\* The type invariant of the loop threads, of their queue and of the network
\* layers they drive.
THEOREM TypeCorrect == Spec => []TypeOK
  BY TypeInit, TypeStep, PTL DEF Spec

-----------------------------------------------------------------------------
(* The queue, as far as the tokens in it go.                               *)

\* Queueing a stack that is not queued yet.
LEMMA AppendIn ==
    ASSUME TypeOK, NEW h \in Stack, queue' = Append(queue, h)
    PROVE  \A s \in Stack :
              /\ In(s)' <=> (In(s) \/ s = h)
              /\ Once(s) /\ (s = h => ~In(s)) => Once(s)'
<1>1. /\ Len(queue') = Len(queue) + 1 /\ Len(queue) \in Nat
      /\ \A i \in 1..Len(queue) : queue'[i] = queue[i]
      /\ queue'[Len(queue) + 1] = h
      BY DEF TypeOK
<1>2. QED BY <1>1 DEF In, Once

\* Taking the head: its stack waits no more, if it waited once.
LEMMA TailIn ==
    ASSUME TypeOK, queue # <<>>, queue' = Tail(queue)
    PROVE  \E h \in Stack :
              /\ h = Head(queue) /\ In(h) /\ (Once(h) => ~In(h)')
              /\ \A s \in Stack : /\ s # h => (In(s)' <=> In(s))
                                  /\ Once(s) => Once(s)'
<1> PICK h \in Stack : h = Head(queue)
    BY DEF TypeOK
<1>1. /\ h \in Stack /\ h = queue[1] /\ Len(queue) \in Nat \ {0}
      /\ Len(queue') = Len(queue) - 1
      /\ \A i \in 1..Len(queue') : queue'[i] = queue[i + 1]
      BY DEF TypeOK
<1>2. In(h)
      BY <1>1 DEF In
<1>3. ASSUME Once(h), In(h)' PROVE FALSE
  <2>1. PICK i \in 1..Len(queue') : queue'[i] = h
        BY <1>3 DEF In
  <2>2. queue[i + 1] = h /\ queue[1] = h /\ i + 1 \in 1..Len(queue) /\ 1 \in 1..Len(queue)
        BY <1>1, <2>1
  <2>3. QED BY <1>1, <1>3, <2>2 DEF Once
<1>4. ASSUME NEW s \in Stack, s # h PROVE In(s)' <=> In(s)
  <2>1. ASSUME In(s) PROVE In(s)'
    <3>1. PICK i \in 1..Len(queue) : queue[i] = s
          BY <2>1 DEF In
    <3>2. i - 1 \in 1..Len(queue') /\ queue'[i - 1] = s
          BY <1>1, <1>4, <3>1
    <3>3. QED BY <3>2 DEF In
  <2>2. ASSUME In(s)' PROVE In(s)
    <3>1. PICK i \in 1..Len(queue') : queue'[i] = s
          BY <2>2 DEF In
    <3>2. i + 1 \in 1..Len(queue) /\ queue[i + 1] = s
          BY <1>1, <3>1
    <3>3. QED BY <3>2 DEF In
  <2>3. QED BY <2>1, <2>2
<1>5. ASSUME NEW s \in Stack, Once(s) PROVE Once(s)'
      BY <1>1, <1>5 DEF Once
<1>6. QED BY <1>1, <1>2, <1>3, <1>4, <1>5

-----------------------------------------------------------------------------
(* Most steps touch one stack, and the threads that work for it.           *)

Touches(h) ==
    /\ serving' = serving
    /\ \A u \in Stack : serving[u] # h => pc'[u] = pc[u] /\ open'[u] = open[u]
    /\ \A s \in Stack \ {h} :
          /\ In(s)' <=> In(s)
          /\ Once(s) => Once(s)'
          /\ closing'[s] = closing[s] /\ telling'[s] = telling[s]
          /\ down'[s] = down[s] /\ connected'[s] = connected[s]
          /\ dispatcher'[s] = dispatcher[s]
    /\ late \subseteq late' /\ GivenUp \subseteq GivenUp'

LEMMA Touching ==
    ASSUME IInv, TypeOK', NEW h \in Stack, Touches(h), OpenInLoop',
           h \notin late' => Good(h)'
    PROVE  IInv'
<1> SUFFICES ASSUME NEW s \in Stack, s \notin late', s # h PROVE Good(s)'
    BY DEF IInv
<1>1. Good(s)
      BY DEF IInv, Touches
<1>2. \A u \in Stack : Has(u, s)' <=> Has(u, s)
      BY DEF Touches, Has
<1>3. Pending(s)' <=> Pending(s)
      BY DEF Touches, Pending
<1>4. Token(s)'
  <2>1. closing'[s] + telling'[s] = closing[s] + telling[s]
        BY DEF Touches
  <2>2. QED BY <1>1, <1>2, <1>3, <2>1 DEF Good, Token, Touches
<1>5. Flags(s)'
      BY <1>1, <1>3 DEF Good, Flags, Touches
<1>6. s \notin GivenUp' => Kept(s)'
  <2>1. s \notin GivenUp' => Kept(s)
        BY <1>1 DEF Good, Touches
  <2>2. Kept(s) => Kept(s)'
        BY <1>2, <1>3 DEF Kept, Touches
  <2>3. QED BY <2>1, <2>2
<1>7. QED BY <1>4, <1>5, <1>6 DEF Good

LEMMA SameQueue ==
    queue' = queue => \A s \in Stack : (In(s)' <=> In(s)) /\ (Once(s)' <=> Once(s))
  BY DEF In, Once

\* Where a connect leaves its thread and its stack.
LEMMA ConnectingFacts ==
    ASSUME TypeOK, NEW t \in Stack, NEW s \in Stack, Connecting(t, s)
    PROVE  /\ \A u \in Stack \ {t} : pc'[u] = pc[u] /\ open'[u] = open[u]
           /\ \A r \in Stack \ {s} : dispatcher'[r] = dispatcher[r] /\ down'[r] = down[r]
           /\ dispatcher'[s] = t /\ ~down'[s]
           /\ quit \subseteq quit' /\ failed \subseteq failed'
           /\ \/ pc'[t] = "connect" /\ open'[t]
              \/ pc'[t] = "ended" /\ open'[t] = open[t] /\ s \in failed'
<1> USE DEF TypeOK, Goto
<1>1. CASE Connects(t, s)
      BY <1>1 DEF Connects
<1>2. CASE ConnectRaises(t, s)
      BY <1>2 DEF ConnectRaises
<1>3. QED BY <1>1, <1>2 DEF Connecting

\* Where the thread goes after the end of a connection was announced.
LEMMA ResumeFacts ==
    ASSUME TypeOK, NEW t \in Stack, Resume(t)
    PROVE  /\ \A u \in Stack \ {t} : pc'[u] = pc[u]
           /\ late \subseteq late'
           /\ open[t] => pc'[t] = "serve"
           /\ ~open[t] /\ serving[t] \notin late' => pc'[t] = "loop"
<1>1. CASE open[t]
      BY <1>1 DEF TypeOK, Goto, Resume
<1>2. CASE ~open[t]
  <2>1. Leave(t)
        BY <1>2 DEF Resume
  <2>2. QED BY <1>2, <2>1 DEF TypeOK, Goto, Leave
<1>3. QED BY <1>1, <1>2

-----------------------------------------------------------------------------
(* The steps.                                                              *)

\* A thread that holds its stack connects it.
LEMMA ConnectStep ==
    ASSUME IInv, TypeOK', NEW t \in Stack, NEW h \in Stack, serving[t] = h,
           pc[t] \in {"start", "handle", "delay"}, Connecting(t, h),
           UNCHANGED <<queue, serving, connected, refused, others, late>>
    PROVE  IInv'
<1>1. TypeOK /\ ~open[t]
      BY DEF IInv, OpenInLoop
<1>2. /\ \A u \in Stack \ {t} : pc'[u] = pc[u] /\ open'[u] = open[u]
      /\ \A r \in Stack \ {h} : dispatcher'[r] = dispatcher[r] /\ down'[r] = down[r]
      /\ dispatcher'[h] = t /\ ~down'[h]
      /\ quit \subseteq quit' /\ failed \subseteq failed'
      /\ \/ pc'[t] = "connect" /\ open'[t]
         \/ pc'[t] = "ended" /\ ~open'[t] /\ h \in failed'
      BY <1>1, ConnectingFacts
<1>3. \A s \in Stack : (In(s)' <=> In(s)) /\ (Once(s)' <=> Once(s))
      BY SameQueue
<1>4. Touches(h)
      BY <1>2, <1>3 DEF Touches, GivenUp, others
<1>5. OpenInLoop'
      BY <1>1, <1>2 DEF IInv, OpenInLoop
<1>6. ASSUME h \notin late' PROVE Good(h)'
  <2>1. Token(h) /\ Flags(h) /\ Has(t, h)
        BY <1>6 DEF IInv, Good, Has
  <2>2. ~In(h) /\ ~Pending(h) /\ \A u \in Stack \ {t} : ~Has(u, h)
        BY <2>1 DEF Token
  <2>3. \A u \in Stack \ {t} : ~Has(u, h)'
        BY <1>2, <2>2 DEF Has
  <2>4. ~In(h)' /\ ~Pending(h)' /\ Once(h)'
        BY <1>3, <2>1, <2>2 DEF Pending, Token, others
  <2>5. Token(h)'
        BY <2>3, <2>4 DEF Token
  <2>6. Flags(h)'
        BY <1>2, <2>3, <2>4 DEF Flags, Has
  <2>7. h \notin GivenUp' => Has(t, h)'
        BY <1>2 DEF Has, GivenUp
  <2>8. QED BY <2>5, <2>6, <2>7 DEF Good, Kept
<1>7. QED BY <1>4, <1>5, <1>6, Touching

LEMMA ConnectSteps ==
    ASSUME IInv, TypeOK', NEW t \in Stack, Start(t) \/ Reboot(t) \/ Reconnect(t)
    PROVE  IInv'
<1> DEFINE h == serving[t]
<1>1. h \in Stack
      BY DEF IInv, TypeOK
<1>2. CASE Start(t)
      BY <1>1, <1>2, ConnectStep DEF Start
<1>3. CASE Reboot(t)
      BY <1>1, <1>3, ConnectStep DEF Reboot
<1>4. CASE Reconnect(t) /\ ~connected[h]
      BY <1>1, <1>4, ConnectStep DEF Reconnect
<1>5. CASE Reconnect(t) /\ connected[h]
  <2>1. /\ pc[t] = "delay" /\ pc'[t] = "loop"
        /\ \A u \in Stack \ {t} : pc'[u] = pc[u]
        /\ UNCHANGED <<queue, serving, open, network, flags, others, late>>
        BY <1>5 DEF Reconnect, IInv, TypeOK, Goto, network, flags
  <2>2. h \in late'
        BY <1>1, <1>5, <2>1 DEF IInv, Good, Flags
  <2>3. Touches(h)
        BY <2>1, SameQueue DEF Touches, GivenUp, network, flags, others
  <2>4. OpenInLoop'
        BY <2>1 DEF IInv, OpenInLoop
  <2>5. QED BY <1>1, <2>2, <2>3, <2>4, Touching
<1>6. QED BY <1>2, <1>3, <1>4, <1>5

\* The connection comes up.
LEMMA ConnectedStep ==
    ASSUME IInv, TypeOK', NEW t \in Stack, Connected(t)
    PROVE  IInv'
<1> PICK h \in Stack : h = serving[t]
    BY DEF IInv, TypeOK
<1>1. /\ pc[t] = "connect" /\ pc'[t] = "serve"
      /\ \A u \in Stack \ {t} : pc'[u] = pc[u]
      /\ \A s \in Stack \ {h} : down'[s] = down[s] /\ connected'[s] = connected[s]
      /\ ~down'[h]
      /\ h \notin late' => h \notin late /\ open[t]
      /\ late \subseteq late'
      /\ UNCHANGED <<queue, serving, open, dispatcher, flags, others>>
      BY DEF Connected, IInv, TypeOK, Goto
<1>2. \A s \in Stack : (In(s)' <=> In(s)) /\ (Once(s)' <=> Once(s))
      BY <1>1, SameQueue
<1>3. Touches(h)
      BY <1>1, <1>2 DEF Touches, GivenUp, flags, others
<1>4. OpenInLoop'
      BY <1>1 DEF IInv, OpenInLoop
<1>5. ASSUME h \notin late' PROVE Good(h)'
  <2>1. Token(h) /\ Flags(h) /\ Has(t, h)
        BY <1>1, <1>5 DEF IInv, Good, Has
  <2>2. ~In(h) /\ ~Pending(h) /\ \A u \in Stack \ {t} : ~Has(u, h)
        BY <2>1 DEF Token
  <2>3. Has(t, h)' /\ \A u \in Stack \ {t} : ~Has(u, h)'
        BY <1>1, <1>5, <2>2 DEF Has
  <2>4. ~In(h)' /\ ~Pending(h)' /\ Once(h)'
        BY <1>1, <1>2, <2>1, <2>2 DEF Pending, Token, others
  <2>5. Token(h)'
        BY <2>3, <2>4 DEF Token
  <2>6. Flags(h)'
        BY <1>1, <2>1, <2>3, <2>4 DEF Flags, Has
  <2>7. QED BY <2>3, <2>5, <2>6 DEF Good, Kept
<1>6. QED BY <1>3, <1>4, <1>5, Touching

\* A thread that has no token of its stack moves, or one whose stack is given
\* up ends: nothing is gained, and nothing lost that is kept.
LEMMA IdleStep ==
    ASSUME IInv, TypeOK', NEW t \in Stack, NEW h \in Stack, h = serving[t],
           ~open[t],
           \A u \in Stack \ {t} : pc'[u] = pc[u],
           Has(t, h) => h \in GivenUp,
           h \notin late' => pc'[t] \in {"loop", "ended"},
           late \subseteq late',
           UNCHANGED <<queue, serving, open, network, flags, others>>
    PROVE  IInv'
<1>1. \A s \in Stack : (In(s)' <=> In(s)) /\ (Once(s)' <=> Once(s))
      BY SameQueue
<1>2. Touches(h)
      BY <1>1 DEF Touches, GivenUp, network, flags, others
<1>3. OpenInLoop'
      BY DEF IInv, OpenInLoop
<1>4. ASSUME h \notin late' PROVE Good(h)'
  <2>1. Token(h) /\ Flags(h) /\ (h \notin GivenUp => Kept(h))
        BY <1>4 DEF IInv, Good
  <2>2. ~Has(t, h)' /\ \A u \in Stack \ {t} : Has(u, h)' <=> Has(u, h)
        BY <1>4 DEF Has
  <2>3. Pending(h)' <=> Pending(h)
        BY DEF Pending, others
  <2>4. Token(h)'
        BY <1>1, <2>1, <2>2, <2>3 DEF Token, others
  <2>5. Flags(h)'
        BY <1>1, <1>4, <2>1, <2>3 DEF Flags, network
  <2>6. h \notin GivenUp' => Kept(h)'
        BY <1>1, <2>1, <2>2, <2>3 DEF Kept, GivenUp, flags
  <2>7. QED BY <2>4, <2>5, <2>6 DEF Good
<1>5. QED BY <1>2, <1>3, <1>4, Touching

LEMMA IdleSteps ==
    ASSUME IInv, TypeOK', NEW t \in Stack, SocketGone(t) \/ LoopEmpty(t)
    PROVE  IInv'
<1> PICK h \in Stack : h = serving[t]
    BY DEF IInv, TypeOK
<1>1. CASE SocketGone(t)
  <2>1. ~Has(t, h)
        BY <1>1 DEF SocketGone, Has
  <2>2. \A u \in Stack \ {t} : pc'[u] = pc[u]
        BY <1>1 DEF SocketGone, Leave, Goto, IInv, TypeOK
  <2>3. late \subseteq late' /\ (h \notin late' => pc'[t] = "loop")
        BY <1>1 DEF SocketGone, Leave, Goto, IInv, TypeOK
  <2>4. ~open[t] /\ UNCHANGED <<queue, serving, open, network, flags, others>>
        BY <1>1 DEF SocketGone
  <2>5. QED BY <2>1, <2>2, <2>3, <2>4, IdleStep
<1>2. CASE LoopEmpty(t)
  <2>1. ~open[t] /\ ~Has(t, h)
        BY <1>2 DEF LoopEmpty, Has, IInv, OpenInLoop
  <2>2. pc'[t] = "ended" /\ \A u \in Stack \ {t} : pc'[u] = pc[u]
        BY <1>2 DEF LoopEmpty, Goto, IInv, TypeOK
  <2>3. UNCHANGED <<queue, serving, open, network, flags, others, late>>
        BY <1>2 DEF LoopEmpty
  <2>4. QED BY <2>1, <2>2, <2>3, IdleStep
<1>3. QED BY <1>1, <1>2

\* A thread that has the token of its stack keeps it under another label.
LEMMA HoldingStep ==
    ASSUME IInv, TypeOK', NEW t \in Stack, NEW h \in Stack, h = serving[t],
           Has(t, h), ~open[t],
           \A u \in Stack \ {t} : pc'[u] = pc[u],
           \/ pc[t] \in {"handle", "upper"} /\ pc'[t] = "delay"
           \/ pc[t] = "closing" /\ pc'[t] = "telling",
           UNCHANGED <<queue, serving, open, network, flags, others, late>>
    PROVE  IInv'
<1>1. \A s \in Stack : (In(s)' <=> In(s)) /\ (Once(s)' <=> Once(s))
      BY SameQueue
<1>2. Touches(h)
      BY <1>1 DEF Touches, GivenUp, network, flags, others
<1>3. OpenInLoop'
      BY DEF IInv, OpenInLoop
<1>4. ASSUME h \notin late' PROVE Good(h)'
  <2>1. Token(h) /\ Flags(h)
        BY <1>4 DEF IInv, Good
  <2>2. Has(t, h)' /\ \A u \in Stack \ {t} : Has(u, h)' <=> Has(u, h)
        BY DEF Has
  <2>3. Pending(h)' <=> Pending(h)
        BY DEF Pending, others
  <2>4. Token(h)'
        BY <1>1, <2>1, <2>2, <2>3 DEF Token, others
  <2>5. Flags(h)'
        BY <1>1, <2>1, <2>3 DEF Flags, network
  <2>6. QED BY <2>2, <2>4, <2>5 DEF Good, Kept
<1>5. QED BY <1>2, <1>3, <1>4, Touching

\* The continuation ends the thread only where its stack is given up.
LEMMA HandleStep ==
    ASSUME IInv, TypeOK', NEW t \in Stack, OnDisconnected(t)
    PROVE  IInv'
<1> PICK h \in Stack : h = serving[t]
    BY DEF IInv, TypeOK
<1>1. /\ ~open[t] /\ Has(t, h) /\ pc[t] \in {"handle", "upper"}
      /\ UNCHANGED <<queue, serving, open, network, flags, others, late>>
      BY DEF OnDisconnected, Has, IInv, OpenInLoop
<1>2. /\ \A u \in Stack \ {t} : pc'[u] = pc[u]
      /\ pc'[t] = IF h \in quit \cup refused THEN "ended" ELSE "delay"
      BY DEF OnDisconnected, Goto, IInv, TypeOK
<1>3. CASE h \in quit \cup refused
      BY <1>1, <1>2, <1>3, IdleStep DEF GivenUp
<1>4. CASE h \notin quit \cup refused
      BY <1>1, <1>2, <1>4, HoldingStep
<1>5. QED BY <1>3, <1>4

\* The test of the state finds a loss that nobody announced, unless the
\* connection is ended twice.
LEMMA TestStep ==
    ASSUME IInv, TypeOK', NEW t \in Stack, Test(t)
    PROVE  IInv'
<1> PICK h \in Stack : h = serving[t]
    BY DEF IInv, TypeOK
<1>1. /\ pc[t] = "closing" /\ Has(t, h)
      /\ UNCHANGED <<queue, serving, open, network, flags, others>>
      BY DEF Test, Has
<1>2. CASE ~down[h] /\ ~open[t]
  <2>1. /\ pc'[t] = "telling" /\ late' = late
        /\ \A u \in Stack \ {t} : pc'[u] = pc[u]
        BY <1>2 DEF Test, Goto, IInv, TypeOK
  <2>2. QED BY <1>1, <1>2, <2>1, HoldingStep
<1>3. CASE down[h] \/ open[t]
  <2>1. h \in late
        BY <1>1, <1>3 DEF IInv, Good, Flags
  <2>2. TypeOK
        BY DEF IInv
  <2>3. late \subseteq late' /\ \A u \in Stack \ {t} : pc'[u] = pc[u]
    <3>1. CASE down[h]
          BY <2>2, <3>1, ResumeFacts DEF Test
    <3>2. CASE ~down[h]
          BY <2>2, <3>2 DEF Test, Goto, TypeOK
    <3>3. QED BY <3>1, <3>2
  <2>4. open[t] => pc'[t] \in {"serve", "telling"}
    <3>1. CASE down[h]
          BY <2>2, <3>1, ResumeFacts DEF Test
    <3>2. CASE ~down[h]
          BY <2>2, <3>2 DEF Test, Goto, TypeOK
    <3>3. QED BY <3>1, <3>2
  <2>5. Touches(h)
        BY <1>1, <2>3, SameQueue DEF Touches, GivenUp, network, flags, others
  <2>6. OpenInLoop'
        BY <1>1, <2>3, <2>4 DEF IInv, OpenInLoop
  <2>7. QED BY <2>1, <2>3, <2>5, <2>6, Touching
<1>4. QED BY <1>2, <1>3

\* The event is queued: the token goes from whoever announced the loss to the
\* queue.
LEMMA AnnounceFacts ==
    ASSUME TypeOK, NEW h \in Stack, Announce(h)
    PROVE  /\ down'[h] /\ ~connected'[h]
           /\ \A s \in Stack \ {h} :
                 /\ down'[s] = down[s] /\ connected'[s] = connected[s]
                 /\ In(s)' <=> In(s)
                 /\ Once(s) => Once(s)'
           /\ In(h)' /\ (Once(h) /\ ~In(h) => Once(h)')
           /\ dispatcher' = dispatcher
<1>1. \A s \in Stack : /\ In(s)' <=> (In(s) \/ s = h)
                       /\ Once(s) /\ (s = h => ~In(s)) => Once(s)'
      BY AppendIn DEF Announce
<1>2. QED BY <1>1 DEF Announce, TypeOK

LEMMA TellStep ==
    ASSUME IInv, TypeOK', NEW t \in Stack, Tell(t)
    PROVE  IInv'
<1> PICK h \in Stack : h = serving[t]
    BY DEF IInv, TypeOK
<1>1. /\ pc[t] = "telling" /\ Has(t, h)
      /\ UNCHANGED <<serving, open, flags, others>>
      BY DEF Tell, Has
<1>2. /\ down'[h] /\ ~connected'[h]
      /\ \A s \in Stack \ {h} :
            /\ down'[s] = down[s] /\ connected'[s] = connected[s]
            /\ In(s)' <=> In(s)
            /\ Once(s) => Once(s)'
      /\ In(h)' /\ (Once(h) /\ ~In(h) => Once(h)')
      /\ dispatcher' = dispatcher
      BY AnnounceFacts DEF Tell, IInv
<1>3. /\ late \subseteq late' /\ \A u \in Stack \ {t} : pc'[u] = pc[u]
      /\ open[t] => pc'[t] = "serve"
      /\ ~open[t] /\ h \notin late' => pc'[t] = "loop"
      BY ResumeFacts DEF Tell, IInv
<1>4. Touches(h)
      BY <1>1, <1>2, <1>3 DEF Touches, GivenUp, flags, others
<1>5. OpenInLoop'
      BY <1>1, <1>3 DEF IInv, OpenInLoop
<1>6. ASSUME h \notin late' PROVE Good(h)'
  <2>1. Token(h) /\ Flags(h)
        BY <1>3, <1>6 DEF IInv, Good
  <2>2. ~open[t] /\ pc'[t] = "loop"
        BY <1>1, <1>3, <1>6, <2>1 DEF Flags
  <2>3. ~In(h) /\ ~Pending(h) /\ \A u \in Stack \ {t} : ~Has(u, h)
        BY <1>1, <2>1 DEF Token
  <2>4. ~Pending(h)' /\ \A u \in Stack : ~Has(u, h)'
        BY <1>1, <1>3, <2>2, <2>3 DEF Has, Pending, others
  <2>5. Token(h)'
        BY <1>2, <2>1, <2>3, <2>4 DEF Token
  <2>6. Flags(h)'
        BY <1>2, <2>4 DEF Flags, Has
  <2>7. QED BY <1>2, <2>5, <2>6 DEF Good, Kept
<1>7. QED BY <1>4, <1>5, <1>6, Touching

\* The thread of an open connection sees it end.
LEMMA HandleCloseStep ==
    ASSUME IInv, TypeOK', NEW t \in Stack, HandleClose(t)
    PROVE  IInv'
<1> PICK h \in Stack : h = serving[t]
    BY DEF IInv, TypeOK
<1>1. /\ pc'[t] = "closing" /\ ~open'[t]
      /\ \A u \in Stack \ {t} : pc'[u] = pc[u] /\ open'[u] = open[u]
      /\ late \subseteq late' /\ (h \notin late' => open[t])
      /\ UNCHANGED <<queue, serving, network, flags, others>>
      BY DEF HandleClose, Goto, IInv, TypeOK
<1>2. \A s \in Stack : (In(s)' <=> In(s)) /\ (Once(s)' <=> Once(s))
      BY <1>1, SameQueue
<1>3. Touches(h)
      BY <1>1, <1>2 DEF Touches, GivenUp, network, flags, others
<1>4. OpenInLoop'
      BY <1>1 DEF IInv, OpenInLoop
<1>5. ASSUME h \notin late' PROVE Good(h)'
  <2>1. Token(h) /\ Flags(h) /\ Has(t, h)
        BY <1>1, <1>5 DEF IInv, Good, Has
  <2>2. ~In(h) /\ ~Pending(h) /\ \A u \in Stack \ {t} : ~Has(u, h)
        BY <2>1 DEF Token
  <2>3. Has(t, h)' /\ \A u \in Stack \ {t} : ~Has(u, h)'
        BY <1>1, <2>2 DEF Has
  <2>4. ~In(h)' /\ ~Pending(h)' /\ Once(h)'
        BY <1>1, <1>2, <2>1, <2>2 DEF Pending, Token, others
  <2>5. Token(h)'
        BY <2>3, <2>4 DEF Token
  <2>6. Flags(h)'
        BY <1>1, <1>5, <2>1, <2>3, <2>4 DEF Flags, Has, network
  <2>7. QED BY <2>3, <2>5, <2>6 DEF Good, Kept
<1>6. QED BY <1>3, <1>4, <1>5, Touching

\* Only a DISCONNECT that finds the stack's one connection open is counted as
\* the first end of it: no thread but the one of that connection has the stack.
LEMMA DestroyFacts ==
    ASSUME IInv, TypeOK', NEW h \in Stack, Destroy(h)
    PROVE  /\ ~down'[h]
           /\ \A s \in Stack \ {h} : down'[s] = down[s]
           /\ \A u \in Stack : (serving[u] # h => open'[u] = open[u]) /\ (open'[u] => open[u])
           /\ UNCHANGED <<dispatcher, connected>> /\ late \subseteq late'
           /\ h \notin late' =>
                 /\ h \notin late /\ Once(h) /\ ~In(h) /\ ~Pending(h)
                 /\ \A u \in Stack : serving[u] = h => ~open'[u]
                 /\ \E w \in Stack : \A u \in Stack : u = w \/ ~Has(u, h)
                 /\ \A u \in Stack : Has(u, h) => open[u]
<1>1. /\ ~down'[h]
      /\ \A s \in Stack \ {h} : down'[s] = down[s]
      /\ \A u \in Stack : open'[u] = (open[u] /\ ~Holds(u, h))
      /\ UNCHANGED <<dispatcher, connected>> /\ late \subseteq late'
      /\ h \notin late' => h \notin late /\ \E w \in Stack : Holds(w, h)
      BY DEF Destroy, IInv, TypeOK
<1>2. \A u \in Stack : (serving[u] # h => open'[u] = open[u]) /\ (open'[u] => open[u])
      BY <1>1 DEF Holds, IInv, TypeOK
<1>3. ASSUME h \notin late'
      PROVE  /\ h \notin late /\ Once(h) /\ ~In(h) /\ ~Pending(h)
             /\ \A u \in Stack : serving[u] = h => ~open'[u]
             /\ \E w \in Stack : \A u \in Stack : u = w \/ ~Has(u, h)
             /\ \A u \in Stack : Has(u, h) => open[u]
  <2>1. PICK w \in Stack : Holds(w, h)
        BY <1>1, <1>3
  <2>2. Token(h) /\ Has(w, h) /\ open[w] /\ h \notin late
        BY <1>1, <1>3, <2>1 DEF IInv, Good, Holds, Has
  <2>3. Once(h) /\ ~In(h) /\ ~Pending(h) /\ \A u \in Stack : u = w \/ ~Has(u, h)
        BY <2>2 DEF Token
  <2>4. \A u \in Stack : serving[u] = h => ~open'[u]
        BY <1>1, <2>1, <2>3 DEF Has
  <2>5. QED BY <2>2, <2>3, <2>4
<1>4. QED BY <1>1, <1>2, <1>3

\* The serving thread drops the connection.
LEMMA SelfDropStep ==
    ASSUME IInv, TypeOK', NEW t \in Stack, SelfDrop(t)
    PROVE  IInv'
<1> PICK h \in Stack : h = serving[t]
    BY DEF IInv, TypeOK
<1>1. /\ pc[t] = "serve" /\ pc'[t] = "closing"
      /\ \A u \in Stack \ {t} : pc'[u] = pc[u]
      /\ refused \subseteq refused'
      /\ UNCHANGED <<queue, serving, quit, failed, others>>
      BY DEF SelfDrop, Goto, IInv, TypeOK
<1>2. Destroy(h)
      BY DEF SelfDrop
<1>3. \A s \in Stack : (In(s)' <=> In(s)) /\ (Once(s)' <=> Once(s))
      BY <1>1, SameQueue
<1>4. Touches(h)
      BY <1>1, <1>2, <1>3, DestroyFacts DEF Touches, GivenUp, others
<1>5. OpenInLoop'
      BY <1>1, <1>2, DestroyFacts DEF IInv, OpenInLoop
<1>6. ASSUME h \notin late' PROVE Good(h)'
  <2>1. /\ ~down'[h] /\ h \notin late /\ Once(h) /\ ~In(h) /\ ~Pending(h)
        /\ \A u \in Stack : serving[u] = h => ~open'[u]
        /\ \A u \in Stack : Has(u, h) => open[u]
        /\ UNCHANGED <<dispatcher, connected>>
        BY <1>2, <1>6, DestroyFacts
  <2>2. \A u \in Stack \ {t} :
           serving[u] = h => pc[u] \notin {"start", "closing", "telling", "handle", "upper", "delay"}
    <3>1. ASSUME NEW u \in Stack, u # t, serving[u] = h,
                 pc[u] \in {"start", "closing", "telling", "handle", "upper", "delay"}
          PROVE  FALSE
      <4>1. Has(u, h) /\ open[u]
            BY <2>1, <3>1 DEF Has
      <4>2. Flags(h)
            BY <2>1 DEF IInv, Good
      <4>3. pc[u] \in {"closing", "telling"}
            BY <3>1, <4>1 DEF IInv, OpenInLoop
      <4>4. QED BY <3>1, <4>1, <4>2, <4>3 DEF Flags
    <3>2. QED BY <3>1
  <2>3. Has(t, h)' /\ \A u \in Stack \ {t} : ~Has(u, h)'
        BY <1>1, <2>1, <2>2 DEF Has
  <2>4. ~In(h)' /\ ~Pending(h)' /\ Once(h)'
        BY <1>1, <1>3, <2>1 DEF Pending, others
  <2>5. Token(h)'
        BY <2>3, <2>4 DEF Token
  <2>6. Flags(h)'
        BY <1>1, <2>1, <2>3, <2>4 DEF Flags, Has
  <2>7. QED BY <2>3, <2>5, <2>6 DEF Good, Kept
<1>7. QED BY <1>4, <1>5, <1>6, Touching

\* Another thread drops it: the token goes to that thread.
LEMMA DropStep ==
    ASSUME IInv, TypeOK', NEW h \in Stack, DropClose(h) \/ QuitClose(h)
    PROVE  IInv'
<1>1. /\ Destroy(h)
      /\ closing'[h] = closing[h] + 1
      /\ \A s \in Stack \ {h} : closing'[s] = closing[s]
      /\ quit \subseteq quit'
      /\ UNCHANGED <<queue, pc, serving, refused, failed, telling>>
      BY DEF DropClose, QuitClose, flags, IInv, TypeOK
<1>2. \A s \in Stack : (In(s)' <=> In(s)) /\ (Once(s)' <=> Once(s))
      BY <1>1, SameQueue
<1>3. Touches(h)
      BY <1>1, <1>2, DestroyFacts DEF Touches, GivenUp
<1>4. OpenInLoop'
      BY <1>1, DestroyFacts DEF IInv, OpenInLoop
<1>5. ASSUME h \notin late' PROVE Good(h)'
  <2>1. /\ ~down'[h] /\ h \notin late /\ Once(h) /\ ~In(h) /\ ~Pending(h)
        /\ \A u \in Stack : serving[u] = h => ~open'[u]
        /\ \A u \in Stack : Has(u, h) => open[u]
        /\ UNCHANGED <<dispatcher, connected>>
        BY <1>1, <1>5, DestroyFacts
  <2>2. \A u \in Stack :
           serving[u] = h => pc[u] \notin {"start", "closing", "telling", "handle", "upper", "delay"}
    <3>1. ASSUME NEW u \in Stack, serving[u] = h,
                 pc[u] \in {"start", "closing", "telling", "handle", "upper", "delay"}
          PROVE  FALSE
      <4>1. Has(u, h) /\ open[u]
            BY <2>1, <3>1 DEF Has
      <4>2. Flags(h)
            BY <2>1 DEF IInv, Good
      <4>3. pc[u] \in {"closing", "telling"}
            BY <3>1, <4>1 DEF IInv, OpenInLoop
      <4>4. QED BY <3>1, <4>1, <4>2, <4>3 DEF Flags
    <3>2. QED BY <3>1
  <2>3. \A u \in Stack : ~Has(u, h)'
        BY <1>1, <2>1, <2>2 DEF Has
  <2>4. closing[h] \in Nat /\ telling[h] \in Nat
        BY DEF IInv, TypeOK
  <2>5. ~In(h)' /\ Once(h)' /\ Pending(h)' /\ closing'[h] + telling'[h] = 1
        BY <1>1, <1>2, <2>1, <2>4 DEF Pending
  <2>6. Token(h)'
        BY <2>3, <2>5 DEF Token
  <2>7. Flags(h)'
        BY <1>1, <2>1, <2>2, <2>5 DEF Flags
  <2>8. QED BY <2>5, <2>6, <2>7 DEF Good, Kept
<1>6. QED BY <1>3, <1>4, <1>5, Touching

\* It tests the state, and finds a loss that nobody announced.
LEMMA DropTestStep ==
    ASSUME IInv, TypeOK', NEW h \in Stack, DropTest(h)
    PROVE  IInv'
<1>1. /\ closing[h] > 0 /\ closing'[h] = closing[h] - 1
      /\ telling'[h] = IF down[h] THEN telling[h] ELSE telling[h] + 1
      /\ \A s \in Stack \ {h} : closing'[s] = closing[s] /\ telling'[s] = telling[s]
      /\ closing[h] \in Nat /\ telling[h] \in Nat
      /\ UNCHANGED <<queue, pc, serving, open, network, flags, late>>
      BY DEF DropTest, IInv, TypeOK
<1>2. \A s \in Stack : (In(s)' <=> In(s)) /\ (Once(s)' <=> Once(s))
      BY <1>1, SameQueue
<1>3. Touches(h)
      BY <1>1, <1>2 DEF Touches, GivenUp, network, flags
<1>4. OpenInLoop'
      BY <1>1 DEF IInv, OpenInLoop
<1>5. ASSUME h \notin late' PROVE Good(h)'
  <2>1. Token(h) /\ Flags(h) /\ Pending(h)
        BY <1>1, <1>5 DEF IInv, Good, Pending
  <2>2. ~down[h] /\ closing[h] + telling[h] = 1
        BY <2>1 DEF Flags, Token
  <2>3. Pending(h)' /\ closing'[h] + telling'[h] = 1
        BY <1>1, <2>2 DEF Pending
  <2>4. \A u \in Stack : Has(u, h)' <=> Has(u, h)
        BY <1>1 DEF Has
  <2>5. Token(h)'
        BY <1>2, <2>1, <2>3, <2>4 DEF Token
  <2>6. Flags(h)'
        BY <1>1, <1>2, <2>1 DEF Flags, network
  <2>7. QED BY <2>3, <2>5, <2>6 DEF Good, Kept
<1>6. QED BY <1>3, <1>4, <1>5, Touching

\* And queues the event.
LEMMA DropTellStep ==
    ASSUME IInv, TypeOK', NEW h \in Stack, DropTell(h)
    PROVE  IInv'
<1>1. /\ telling[h] > 0 /\ telling'[h] = telling[h] - 1
      /\ \A s \in Stack \ {h} : telling'[s] = telling[s]
      /\ closing[h] \in Nat /\ telling[h] \in Nat
      /\ UNCHANGED <<pc, serving, open, flags, closing, late>>
      BY DEF DropTell, IInv, TypeOK
<1>2. /\ down'[h] /\ ~connected'[h]
      /\ \A s \in Stack \ {h} :
            /\ down'[s] = down[s] /\ connected'[s] = connected[s]
            /\ In(s)' <=> In(s)
            /\ Once(s) => Once(s)'
      /\ In(h)' /\ (Once(h) /\ ~In(h) => Once(h)')
      /\ dispatcher' = dispatcher
      BY AnnounceFacts DEF DropTell, IInv
<1>3. Touches(h)
      BY <1>1, <1>2 DEF Touches, GivenUp, flags
<1>4. OpenInLoop'
      BY <1>1 DEF IInv, OpenInLoop
<1>5. ASSUME h \notin late' PROVE Good(h)'
  <2>1. Token(h) /\ Flags(h) /\ Pending(h)
        BY <1>1, <1>5 DEF IInv, Good, Pending
  <2>2. ~In(h) /\ closing[h] + telling[h] = 1 /\ \A u \in Stack : ~Has(u, h)
        BY <2>1 DEF Token
  <2>3. ~Pending(h)'
        BY <1>1, <2>2 DEF Pending
  <2>4. \A u \in Stack : ~Has(u, h)'
        BY <1>1, <2>2 DEF Has
  <2>5. Token(h)'
        BY <1>2, <2>1, <2>2, <2>3, <2>4 DEF Token
  <2>6. Flags(h)'
        BY <1>2, <2>3, <2>4 DEF Flags, Has
  <2>7. QED BY <1>2, <2>5, <2>6 DEF Good, Kept
<1>6. QED BY <1>3, <1>4, <1>5, Touching

\* A thread without a token takes the one at the head of the queue.
LEMMA TakeStep ==
    ASSUME IInv, TypeOK', NEW t \in Stack, Take(t)
    PROVE  IInv'
<1>1. PICK h \in Stack :
         /\ h = Head(queue) /\ In(h) /\ (Once(h) => ~In(h)')
         /\ \A s \in Stack : /\ s # h => (In(s)' <=> In(s))
                             /\ Once(s) => Once(s)'
      BY TailIn DEF Take, IInv
<1>2. /\ serving'[t] = h /\ pc'[t] = "handle" /\ pc[t] = "loop" /\ ~open[t]
      /\ \A u \in Stack \ {t} : serving'[u] = serving[u] /\ pc'[u] = pc[u]
      /\ UNCHANGED <<open, network, flags, others, late>>
  <2>1. pc \in [Stack -> Label] /\ serving \in [Stack -> Stack]
        BY DEF IInv, TypeOK
  <2>2. /\ pc[t] = "loop" /\ pc' = [pc EXCEPT ![t] = "handle"]
        /\ serving' = [serving EXCEPT ![t] = h]
        /\ UNCHANGED <<open, network, flags, others, late>>
        BY <1>1 DEF Take, Goto
  <2>3. ~open[t]
        BY <2>2 DEF IInv, OpenInLoop
  <2>4. QED BY <2>1, <2>2, <2>3
<1>3. \A s, u \in Stack : u # t => (Has(u, s)' <=> Has(u, s))
      BY <1>2 DEF Has
<1>4. \A s \in Stack : /\ ~Has(t, s) /\ (Has(t, s)' <=> s = h)
                       /\ Pending(s)' <=> Pending(s)
      BY <1>2 DEF Has, Pending, others
<1>5. OpenInLoop'
      BY <1>2 DEF IInv, OpenInLoop
<1>6. ASSUME NEW s \in Stack, s \notin late' PROVE Good(s)'
  <2>1. Token(s) /\ Flags(s) /\ (s \notin GivenUp => Kept(s))
        BY <1>2, <1>6 DEF IInv, Good
  <2>2. s = h => ~In(s)' /\ ~Pending(s) /\ \A u \in Stack : ~Has(u, s)
        BY <1>1, <2>1 DEF Token
  <2>3. Token(s)'
    <3>1. Once(s)'
          BY <1>1, <2>1 DEF Token
    <3>2. closing'[s] + telling'[s] = closing[s] + telling[s]
          BY <1>2 DEF others
    <3>3. CASE s = h
          BY <1>3, <1>4, <2>2, <3>1, <3>3 DEF Token
    <3>4. CASE s # h
          BY <1>1, <1>3, <1>4, <2>1, <3>1, <3>2, <3>4 DEF Token
    <3>5. QED BY <3>3, <3>4
  <2>4. Flags(s)'
        BY <1>1, <1>2, <1>4, <2>1, <2>2 DEF Flags, network
  <2>5. s \notin GivenUp' => Kept(s)'
        BY <1>1, <1>2, <1>3, <1>4, <2>1 DEF Kept, GivenUp, flags
  <2>6. QED BY <2>3, <2>4, <2>5 DEF Good
<1>7. QED BY <1>5, <1>6 DEF IInv

-----------------------------------------------------------------------------
(* The theorems.                                                           *)

LEMMA TokenInit == Init => IInv
<1> SUFFICES ASSUME Init PROVE IInv
    OBVIOUS
<1>1. OpenInLoop
      BY DEF Init, OpenInLoop
<1>2. ASSUME NEW s \in Stack PROVE Good(s)
  <2>1. ~In(s) /\ Once(s) /\ ~Pending(s)
        BY DEF Init, In, Once, Pending
  <2>2. \A t \in Stack : Has(t, s) <=> t = s
        BY DEF Init, Has
  <2>3. Token(s)
        BY <2>1, <2>2 DEF Token
  <2>4. Flags(s)
        BY <2>1 DEF Init, Flags
  <2>5. QED BY <2>2, <2>3, <2>4 DEF Good, Kept
<1>3. QED BY <1>1, <1>2, TypeInit DEF IInv

LEMMA TokenStep == IInv /\ [Next]_vars => IInv'
<1> SUFFICES ASSUME IInv, [Next]_vars PROVE IInv'
    OBVIOUS
<1>1. TypeOK'
      BY TypeStep DEF IInv
<1>2. ASSUME NEW t \in Stack, ThreadStep(t) PROVE IInv'
      BY <1>1, <1>2, ConnectSteps, IdleSteps, TestStep, TellStep, TakeStep, HandleStep
         DEF ThreadStep
<1>3. ASSUME NEW t \in Stack, Environment(t) PROVE IInv'
      BY <1>1, <1>3, ConnectedStep, HandleCloseStep, SelfDropStep, DropStep DEF Environment
<1>4. ASSUME NEW s \in Stack, OtherStep(s) PROVE IInv'
      BY <1>1, <1>4, DropTestStep, DropTellStep DEF OtherStep
<1>5. CASE UNCHANGED vars
  <2>1. \A s \in Stack : (In(s)' <=> In(s)) /\ (Once(s)' <=> Once(s))
        BY <1>5, SameQueue DEF vars
  <2>2. \A s \in Stack : Good(s) => Good(s)'
        BY <1>5, <2>1 DEF vars, network, flags, others, Good, Token, Flags, Kept, GivenUp,
           Has, Pending
  <2>3. QED BY <1>1, <1>5, <2>2 DEF vars, IInv, OpenInLoop
<1>6. QED BY <1>2, <1>3, <1>4, <1>5 DEF Next

LEMMA Invariant == Spec => []IInv
  BY TokenInit, TokenStep, PTL DEF Spec

\* One thread opens, runs and closes a stack's connection, whichever took its
\* continuation and whoever quits, unless a connection is ended twice.
THEOREM OneThread == Spec => []OneThreadPerStack
<1>1. IInv => OneThreadPerStack
      BY DEF IInv, Good, Token, OneThreadPerStack
<1>2. QED BY <1>1, Invariant, PTL

\* A lost connection is queued once, by one of the threads that may end it, and
\* no thread serves it or announces it meanwhile, unless it is ended twice.
THEOREM LossContinuedOnce == Spec => []QueuedOnce
<1>1. ASSUME IInv, NEW i \in 1..Len(queue), queue[i] \notin late
      PROVE  /\ \A j \in 1..Len(queue) : queue[j] = queue[i] => j = i
             /\ \A t \in Stack : ~Has(t, queue[i])
             /\ ~Pending(queue[i])
  <2>1. queue[i] \in Stack /\ In(queue[i])
        BY <1>1 DEF IInv, TypeOK, In
  <2>2. Token(queue[i])
        BY <1>1, <2>1 DEF IInv, Good
  <2>3. QED BY <2>1, <2>2 DEF Token, Once
<1>2. IInv => QueuedOnce
      BY <1>1 DEF QueuedOnce
<1>3. QED BY <1>2, Invariant, PTL

\* As long as all is calm, a thread finds the queue empty only while another
\* one has closed a connection and not yet queued it: were every stack with a
\* thread of its own, there would be one thread too many.
THEOREM NoneLeftBehind == Spec => []NoOrphan
<1>1. ASSUME IInv, Calm, queue = <<>>, NEW l \in Stack, pc[l] = "loop",
             \A s \in Stack : ~Pending(s)
      PROVE  FALSE
  <2>1. ASSUME NEW s \in Stack PROVE \E t \in Stack \ {l} : Has(t, s)
    <3>1. ~In(s)
          BY <1>1 DEF In
    <3>2. Kept(s)
          BY <1>1 DEF IInv, Good, Calm, GivenUp
    <3>3. ~Has(l, s)
          BY <1>1 DEF Has, IInv, OpenInLoop
    <3>4. QED BY <1>1, <3>1, <3>2, <3>3 DEF Kept
  <2> DEFINE f == [s \in Stack |-> CHOOSE t \in Stack \ {l} : Has(t, s)]
  <2>2. \A s \in Stack : f[s] \in Stack \ {l} /\ Has(f[s], s)
        BY <2>1
  <2>3. \A s \in Stack : serving[f[s]] = s
        BY <2>2 DEF Has
  <2>4. f \in Injection(Stack, Stack \ {l})
        BY <2>2, <2>3 DEF Injection, IsInjective
  <2>5. IsFiniteSet(Stack) /\ IsFiniteSet(Stack \ {l})
        BY StackAssumption, FS_RemoveElement
  <2>6. Cardinality(Stack) <= Cardinality(Stack \ {l})
        BY <2>4, <2>5, FS_Injection
  <2>7. Cardinality(Stack \ {l}) = Cardinality(Stack) - 1 /\ Cardinality(Stack) \in Nat
        BY <2>5, FS_RemoveElement, FS_CardinalityType
  <2>8. QED BY <2>6, <2>7
<1>2. IInv => NoOrphan
      BY <1>1 DEF NoOrphan, Searching
<1>3. QED BY <1>2, Invariant, PTL
=============================================================================
