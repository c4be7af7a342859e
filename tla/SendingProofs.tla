--------------------------- MODULE SendingProofs ---------------------------
(***************************************************************************)
(* Proofs about GroupKeys, for any members, messages, lost stanzas and     *)
(* size of the queue: a member's application gets a message at most once;  *)
(* the chain, the queue and the records keep within their bounds; no key   *)
(* encrypts two messages while the threads do not send at once.  And about *)
(* Retries, the messages to contacts that MCSending puts beside them: with *)
(* room in the queue, no request of one or two devices is ignored.         *)
(***************************************************************************)
EXTENDS MCSending, FiniteSetTheorems, WellFoundedInduction, TLAPS

Plain == [at : {"store", "emit"}, reply : {FALSE}, id : Id, first : BOOLEAN, iter : Int]
Reply == [at : {"emit"}, reply : {TRUE}, to : Receiver, id : Id, iter : Int, first : {FALSE}]
Job == [at : {"idle"}] \cup [at : {"load"}, id : Id, first : BOOLEAN] \cup Plain \cup Reply
Stanza == [id : Id, iter : Int, reply : BOOLEAN, first : BOOLEAN]

\* What the argument needs of the variables' types.
Typed ==
    /\ own \in Int /\ nextId \in Nat \ {0} /\ asking \subseteq Id
    /\ job \in [Thread -> Job] /\ job["app"] \notin Reply
    /\ network \in [Receiver -> Seq(Stanza)]
    /\ got \in [Receiver -> [Id -> Nat]]

\* Where the message id is, on its way to r: not sent yet, encrypted by a thread, in
\* the network, or on one of the ways of a retry.
Future(id) == id >= nextId
Asking(id) == id \in asking
Encrypting(t, id) == job[t].at # "idle" /\ job[t] \notin Reply /\ job[t].id = id
Under(r, i, id) == i \in 1..Len(network[r]) /\ network[r][i].id = id
Asked(r, id) == <<r, id>> \in asked
Fetching(r, id) == <<r, id>> \in fetching
Replying(r, id) == job["net"] \in Reply /\ job["net"].to = r /\ job["net"].id = id

\* It is at one of these places, or nowhere, and nowhere once it was got: each step
\* that puts it somewhere takes it from somewhere else.
Unsent(id) == Future(id) \/ Asking(id) \/ \E t \in Thread : Encrypting(t, id)
Retried(r, id) == Asked(r, id) \/ Fetching(r, id) \/ Replying(r, id)
OnWay(r, id) == \E i \in Nat : Under(r, i, id)

OnePlace(r, id) ==
    /\ got[r][id] <= 1
    /\ got[r][id] = 1 => ~Unsent(id) /\ ~Retried(r, id) /\ ~OnWay(r, id)
    /\ Unsent(id) => ~Retried(r, id) /\ ~OnWay(r, id)
    /\ Retried(r, id) => ~OnWay(r, id)
    /\ Future(id) => ~Asking(id) /\ \A t \in Thread : ~Encrypting(t, id)
    /\ Asking(id) => \A t \in Thread : ~Encrypting(t, id)
    /\ \A t, u \in Thread : Encrypting(t, id) /\ Encrypting(u, id) => t = u
    /\ \A i, j \in Nat : Under(r, i, id) /\ Under(r, j, id) => i = j
    /\ Asked(r, id) => ~Fetching(r, id) /\ ~Replying(r, id)
    /\ Fetching(r, id) => ~Replying(r, id)

IInv == Typed /\ \A r \in Receiver, id \in Id : OnePlace(r, id)

-----------------------------------------------------------------------------
(* Types.                                                                  *)

\* A member takes the first stanza that is on its way to it.
LEMMA TakeFirst ==
    ASSUME Typed, NEW q \in Receiver, Take(q)
    PROVE  /\ Head(network[q]) \in Stanza /\ Head(network[q]) = network[q][1]
           /\ network' \in [Receiver -> Seq(Stanza)]
           /\ Len(network[q]) \in Nat \ {0} /\ Len(network'[q]) = Len(network[q]) - 1
           /\ \A i \in 1..Len(network'[q]) : network'[q][i] = network[q][i + 1]
           /\ \A r \in Receiver : r # q => network'[r] = network[r]
<1>1. network[q] \in Seq(Stanza) /\ network[q] # <<>>
      BY DEF Typed, Take
<1>2. network' = [network EXCEPT ![q] = Tail(network[q])]
      BY DEF Take
<1>3. network'[q] = Tail(network[q]) /\ \A r \in Receiver : r # q => network'[r] = network[r]
      BY <1>2 DEF Typed
<1>4. Tail(network[q]) \in Seq(Stanza)
      BY <1>1
<1>5. network' \in [Receiver -> Seq(Stanza)]
      BY <1>2, <1>4 DEF Typed
<1>6. /\ Head(network[q]) \in Stanza /\ Head(network[q]) = network[q][1]
      /\ Len(network[q]) \in Nat \ {0} /\ Len(Tail(network[q])) = Len(network[q]) - 1
      /\ \A i \in 1..Len(Tail(network[q])) : Tail(network[q])[i] = network[q][i + 1]
      BY <1>1
<1>7. QED
      BY <1>3, <1>5, <1>6

\* What a thread of the sender is at, by its place.
LEMMA JobKinds ==
    ASSUME Typed, NEW t \in Thread
    PROVE  /\ job[t].at = "load" => job[t] \in [at : {"load"}, id : Id, first : BOOLEAN]
           /\ job[t].at = "store" => job[t] \in Plain
           /\ job[t].at = "emit" => job[t] \in Plain \cup Reply
           /\ job[t].at # "idle" => job[t].id \in Id
           /\ job[t] \in Reply => t = "net"
<1>1. job[t] \in Job
      BY DEF Typed
<1>2. \A j \in Job :
         /\ j.at = "load" => j \in [at : {"load"}, id : Id, first : BOOLEAN]
         /\ j.at = "store" => j \in Plain
         /\ j.at = "emit" => j \in Plain \cup Reply
         /\ j.at # "idle" => j.id \in Id
      BY DEF Job, Plain, Reply
<1>3. job[t] \in Reply => t = "net"
      BY DEF Typed, Thread
<1>4. QED
      BY <1>1, <1>2, <1>3

\* A thread sends a stanza to the member who asked, or to all.
LEMMA EmitAdds ==
    ASSUME Typed, NEW t \in Thread, Emit(t)
    PROVE  /\ network' \in [Receiver -> Seq(Stanza)]
           /\ \A r \in Receiver :
                 IF job[t] \in Reply /\ job[t].to # r THEN network'[r] = network[r]
                 ELSE /\ Len(network'[r]) = Len(network[r]) + 1
                      /\ network'[r][Len(network[r]) + 1].id = job[t].id
                      /\ \A i \in 1..Len(network[r]) : network'[r][i] = network[r][i]
<1> DEFINE j == job[t]
           stanza == [id |-> j.id, iter |-> j.iter, reply |-> j.reply, first |-> j.first]
<1>1. j \in Plain \cup Reply
      BY JobKinds DEF Emit
<1>2. stanza \in Stanza /\ stanza.id = j.id /\ (j.reply <=> j \in Reply)
      BY <1>1 DEF Stanza, Plain, Reply
<1>3. \A r \in Receiver :
         /\ network[r] \in Seq(Stanza) /\ Append(network[r], stanza) \in Seq(Stanza)
         /\ Len(Append(network[r], stanza)) = Len(network[r]) + 1
         /\ Append(network[r], stanza)[Len(network[r]) + 1] = stanza
         /\ \A i \in 1..Len(network[r]) : Append(network[r], stanza)[i] = network[r][i]
      BY <1>2 DEF Typed
<1>4. CASE j \in Reply
  <2>1. network' = [network EXCEPT ![j.to] = Append(network[j.to], stanza)] /\ j.to \in Receiver
        BY <1>2, <1>4 DEF Emit, Reply
  <2>2. QED
        BY <1>2, <1>3, <1>4, <2>1 DEF Typed
<1>5. CASE j \notin Reply
  <2>1. network' = [r \in Receiver |-> Append(network[r], stanza)]
        BY <1>2, <1>5 DEF Emit
  <2>2. QED
        BY <1>2, <1>3, <1>5, <2>1
<1>6. QED
      BY <1>4, <1>5

\* At first both threads are idle and nothing is on its way.
LEMMA TypedInit == Init => Typed
<1> SUFFICES ASSUME Init PROVE Typed
    OBVIOUS
<1>1. \A t \in Thread : job[t] = Idle /\ Idle \in Job /\ Idle \notin Reply
      BY DEF Init, Idle, Job, Reply
<1>2. job \in [Thread -> Job] /\ job["app"] \notin Reply
      BY <1>1 DEF Init, Thread
<1>3. QED
      BY <1>2 DEF Init, Typed, Empty

\* ... and each step puts a job, a stanza or a message where one belongs.
LEMMA TypedStep == Typed /\ [Next]_vars => Typed'
<1> SUFFICES ASSUME Typed, [Next]_vars PROVE Typed'
    OBVIOUS
<1> USE DEF sender, receivers
<1>1. ASSUME NEW t \in Thread, NEW w \in Job, t = "net" \/ w \notin Reply, Begin(t, w)
      PROVE  job' \in [Thread -> Job] /\ job'["app"] \notin Reply
      BY <1>1 DEF Typed, Begin, Thread
<1>2. CASE Send
  <2>0. /\ UNCHANGED <<own, network, got>>
        /\ nextId \in Id /\ nextId' \in Nat \ {0}
    <3>1. MaxMsg \in Nat /\ nextId \in Nat \ {0} /\ nextId <= MaxMsg /\ nextId' = nextId + 1
          BY <1>2, GroupKeysAssumption DEF Send, Typed
    <3>2. nextId \in Id /\ nextId' \in Nat \ {0}
          BY <3>1 DEF Id
    <3>3. UNCHANGED <<own, network, got>>
          BY <1>2 DEF Send
    <3>4. QED
          BY <3>2, <3>3
  <2>1. CASE own = Empty
    <3>1. asking' = asking \cup {nextId} /\ UNCHANGED job
          BY <1>2, <2>1 DEF Send
    <3>2. QED
          BY <2>0, <3>1 DEF Typed
  <2>2. CASE own # Empty
    <3> DEFINE w == [at |-> "load", id |-> nextId, first |-> FALSE]
    <3>2. w \in Job /\ w \notin Reply
          BY <2>0 DEF Job, Reply
    <3>3. Begin("app", w)
          BY <1>2, <2>2 DEF Send
    <3>4. job' \in [Thread -> Job] /\ job'["app"] \notin Reply
          BY <1>1, <3>2, <3>3 DEF Thread
    <3>5. UNCHANGED asking
          BY <1>2, <2>2 DEF Send
    <3>6. QED
          BY <2>0, <3>4, <3>5 DEF Typed
  <2>3. QED
        BY <2>1, <2>2
<1>3. ASSUME NEW m \in Id, GroupInfo(m) PROVE Typed'
  <2> DEFINE w == [at |-> "load", id |-> m, first |-> TRUE]
  <2>1. w \in Job /\ w \notin Reply
        BY DEF Job, Reply
  <2>2. job' \in [Thread -> Job] /\ job'["app"] \notin Reply
        BY <1>1, <1>3, <2>1 DEF GroupInfo, Thread
  <2>3. QED
        BY <1>3, <2>2 DEF GroupInfo, Typed
<1>4. ASSUME NEW t \in Thread, Load(t) PROVE Typed'
  <2> DEFINE w == [at |-> "store", reply |-> FALSE, id |-> job[t].id,
                   first |-> job[t].first, iter |-> own]
  <2>1. w \in Plain
        BY <1>4, JobKinds DEF Load, Plain, Typed
  <2>2. w \in Job /\ w \notin Reply
        BY <2>1 DEF Job, Reply, Plain
  <2>3. job' \in [Thread -> Job] /\ job'["app"] \notin Reply
        BY <1>1, <1>4, <2>2 DEF Load
  <2>4. QED
        BY <1>4, <2>3 DEF Load, Typed
<1>5. ASSUME NEW t \in Thread, Store(t) PROVE Typed'
  <2> DEFINE w == [job[t] EXCEPT !.at = "emit"]
  <2>1. job[t] \in Plain
        BY <1>5, JobKinds DEF Store
  <2>2. w \in Plain
        BY <2>1 DEF Plain
  <2>3. w \in Job /\ w \notin Reply
        BY <2>2 DEF Job, Reply, Plain
  <2>4. job' \in [Thread -> Job] /\ job'["app"] \notin Reply
        BY <1>1, <1>5, <2>3 DEF Store
  <2>5. own' \in Int
    <3>1. own' = job[t].iter + 1
          BY <1>5 DEF Store
    <3>2. job[t].iter \in Int
          BY <2>1 DEF Plain
    <3>3. QED
          BY <3>1, <3>2
  <2>6. QED
        BY <1>5, <2>4, <2>5 DEF Store, Typed
<1>6. ASSUME NEW t \in Thread, Emit(t) PROVE Typed'
  <2>1. Idle \in Job /\ Idle \notin Reply
        BY DEF Idle, Job, Reply
  <2>2. job' \in [Thread -> Job] /\ job'["app"] \notin Reply
        BY <1>1, <1>6, <2>1 DEF Emit
  <2>3. network' \in [Receiver -> Seq(Stanza)]
        BY <1>6, EmitAdds
  <2>4. QED
        BY <1>6, <2>2, <2>3 DEF Emit, Typed
<1>7. ASSUME NEW q \in Receiver, NEW m \in Id, OnRetry(q, m) PROVE Typed'
      BY <1>7 DEF OnRetry, Typed
<1>8. ASSUME NEW q \in Receiver, NEW m \in Id, AnswerRetry(q, m) PROVE Typed'
  <2> DEFINE w == [at |-> "emit", reply |-> TRUE, to |-> q, id |-> m, iter |-> own, first |-> FALSE]
  <2>1. w \in Job
        BY DEF Job, Reply, Typed
  <2>2. job' \in [Thread -> Job] /\ job'["app"] \notin Reply
        BY <1>1, <1>8, <2>1 DEF AnswerRetry, Thread
  <2>3. QED
        BY <1>8, <2>2 DEF AnswerRetry, Typed
<1>9. ASSUME NEW q \in Receiver, Take(q), \/ got' = got
                                          \/ Deliver(q, Head(network[q]).id),
             UNCHANGED sender
      PROVE  Typed'
  <2>1. network' \in [Receiver -> Seq(Stanza)] /\ Head(network[q]).id \in Id
        BY <1>9, TakeFirst DEF Stanza
  <2>2. got' \in [Receiver -> [Id -> Nat]]
    <3> DEFINE m == Head(network[q]).id
    <3>1. CASE got' = got
          BY <3>1 DEF Typed
    <3>2. CASE Deliver(q, m)
      <4>1. got' = [got EXCEPT ![q] = [got[q] EXCEPT ![m] = got[q][m] + 1]]
            BY <3>2 DEF Deliver
      <4>2. got[q] \in [Id -> Nat] /\ got[q][m] + 1 \in Nat
            BY <2>1 DEF Typed
      <4>3. QED
            BY <4>1, <4>2 DEF Typed
    <3>3. QED
          BY <1>9, <3>1, <3>2
  <2>3. QED
        BY <1>9, <2>1, <2>2 DEF Typed
<1>10. ASSUME NEW q \in Receiver, Receive(q) \/ Lose(q) PROVE Typed'
       BY <1>9, <1>10 DEF Receive, ReceiveReply, ReceiveWithoutKey, ReceiveWithKey, ReceiveOld, Lose
<1>11. CASE UNCHANGED vars
       BY <1>11 DEF vars, Typed
<1>12. QED
       BY <1>2, <1>3, <1>4, <1>5, <1>6, <1>7, <1>8, <1>10, <1>11 DEF Next, NetStep, ThreadStep

-----------------------------------------------------------------------------
(* Places.                                                                 *)

\* What a thread begins is what it is at, and the other goes on.
LEMMA Begun ==
    ASSUME Typed, NEW t \in Thread, NEW w, Begin(t, w)
    PROVE  job'[t] = w /\ \A u \in Thread : u # t => job'[u] = job[u]
  BY DEF Typed, Begin

\* An idle thread has no message.
LEMMA IdleHasNone ==
    ASSUME NEW t \in Thread, NEW id
    PROVE  /\ Free(t) => ~Encrypting(t, id) /\ job[t] \notin Reply
           /\ job'[t] = Idle => ~Encrypting(t, id)' /\ job'[t] \notin Reply
<1>1. Idle.at = "idle" /\ Idle \notin Reply
      BY DEF Idle, Reply
<1>2. QED
      BY <1>1 DEF Free, Encrypting

\* The application sends the next message: it waits for the group info, or its
\* thread encrypts it.
LEMMA SendPlace ==
    ASSUME Typed, NEW r \in Receiver, NEW id \in Id, OnePlace(r, id), Send
    PROVE  OnePlace(r, id)'
<1>1. UNCHANGED <<network, asked, fetching, got>> /\ nextId' = nextId + 1
      BY DEF Send, receivers
<1>2. nextId \in Nat /\ id \in Nat /\ "app" \in Thread /\ "net" \in Thread /\ id \in Int
      BY DEF Typed, Id, Thread
<1>3. /\ OnWay(r, id)' = OnWay(r, id) /\ got'[r][id] = got[r][id]
      /\ \A i \in Nat : Under(r, i, id)' = Under(r, i, id)
      /\ Asked(r, id)' = Asked(r, id) /\ Fetching(r, id)' = Fetching(r, id)
      BY <1>1 DEF OnWay, Under, Asked, Fetching
<1>4. Future(id)' <=> Future(id) /\ id # nextId
      BY <1>1, <1>2 DEF Future
<1>5. id = nextId => Future(id)
      BY <1>2 DEF Future
<1>6. CASE own = Empty
  <2>1. asking' = asking \cup {nextId} /\ job' = job
        BY <1>6 DEF Send
  <2>2. /\ Asking(id)' <=> Asking(id) \/ id = nextId
        /\ \A t \in Thread : Encrypting(t, id)' = Encrypting(t, id)
        /\ Replying(r, id)' = Replying(r, id)
        BY <2>1 DEF Asking, Encrypting, Replying
  <2>3. QED
        BY <1>3, <1>4, <1>5, <2>2 DEF OnePlace, Unsent, Retried
<1>7. CASE own # Empty
  <2> DEFINE w == [at |-> "load", id |-> nextId, first |-> FALSE]
  <2>1. Begin("app", w) /\ asking' = asking /\ Free("app")
        BY <1>7 DEF Send
  <2>2. job'["app"] = w /\ job'["net"] = job["net"]
        BY <1>2, <2>1, Begun DEF Thread
  <2>3. /\ Asking(id)' = Asking(id) /\ Replying(r, id)' = Replying(r, id)
        /\ Encrypting("net", id)' = Encrypting("net", id)
        BY <2>1, <2>2 DEF Asking, Encrypting, Replying
  <2>4. ~Encrypting("app", id) /\ (Encrypting("app", id)' <=> id = nextId)
    <3>1. ~Encrypting("app", id)
          BY <1>2, <2>1, IdleHasNone
    <3>2. w \notin Reply
          BY DEF Reply
    <3>3. QED
          BY <2>2, <3>1, <3>2 DEF Encrypting
  <2>5. QED
        BY <1>3, <1>4, <1>5, <2>3, <2>4 DEF OnePlace, Unsent, Retried, Thread
<1>8. QED
      BY <1>6, <1>7

\* The network thread takes up a message that waited for the group info.
LEMMA GroupInfoPlace ==
    ASSUME Typed, NEW r \in Receiver, NEW id \in Id, OnePlace(r, id), NEW m \in Id, GroupInfo(m)
    PROVE  OnePlace(r, id)'
<1> DEFINE w == [at |-> "load", id |-> m, first |-> TRUE]
<1>1. /\ UNCHANGED <<nextId, network, asked, fetching, got>> /\ m \in asking
      /\ asking' = asking \ {m} /\ Free("net") /\ Begin("net", w)
      BY DEF GroupInfo, receivers
<1>2. "app" \in Thread /\ "net" \in Thread
      BY DEF Thread
<1>3. job'["net"] = w /\ job'["app"] = job["app"] /\ w \notin Reply
      BY <1>1, <1>2, Begun DEF Reply
<1>4. ~Encrypting("net", id) /\ ~Replying(r, id)
      BY <1>1, <1>2, IdleHasNone DEF Replying
<1>5. /\ Encrypting("net", id)' <=> id = m
      /\ Encrypting("app", id)' = Encrypting("app", id) /\ ~Replying(r, id)'
      BY <1>3 DEF Encrypting, Replying
<1>6. /\ Asking(id)' <=> Asking(id) /\ id # m
      /\ id = m => Asking(id)
      BY <1>1 DEF Asking
<1>7. /\ OnWay(r, id)' = OnWay(r, id) /\ got'[r][id] = got[r][id]
      /\ \A i \in Nat : Under(r, i, id)' = Under(r, i, id)
      /\ Asked(r, id)' = Asked(r, id) /\ Fetching(r, id)' = Fetching(r, id)
      /\ Future(id)' = Future(id)
      BY <1>1 DEF OnWay, Under, Asked, Fetching, Future
<1>8. QED
      BY <1>4, <1>5, <1>6, <1>7 DEF OnePlace, Unsent, Retried, Thread

\* Encrypting keeps the message in its thread.
LEMMA EncryptPlace ==
    ASSUME Typed, NEW r \in Receiver, NEW id \in Id, OnePlace(r, id),
           NEW t \in Thread, Load(t) \/ Store(t)
    PROVE  OnePlace(r, id)'
<1>1. UNCHANGED <<nextId, asking, network, asked, fetching, got>>
      BY DEF Load, Store, receivers
<1>2. PICK w \in Plain : Begin(t, w) /\ w.id = job[t].id
  <2>1. CASE Load(t)
    <3> DEFINE w == [at |-> "store", reply |-> FALSE, id |-> job[t].id,
                     first |-> job[t].first, iter |-> own]
    <3>1. w \in Plain /\ w.id = job[t].id
          BY <2>1, JobKinds DEF Load, Plain, Typed
    <3>2. QED
          BY <2>1, <3>1 DEF Load
  <2>2. CASE Store(t)
    <3> DEFINE w == [job[t] EXCEPT !.at = "emit"]
    <3>1. job[t] \in Plain
          BY <2>2, JobKinds DEF Store
    <3>2. w \in Plain /\ w.id = job[t].id
          BY <3>1 DEF Plain
    <3>3. QED
          BY <2>2, <3>2 DEF Store
  <2>3. QED
        BY <2>1, <2>2
<1>3. job[t].at \in {"load", "store"} /\ job[t] \notin Reply
      BY DEF Load, Store, Reply
<1>4. job'[t] = w /\ w \notin Reply /\ w.at # "idle" /\ \A u \in Thread : u # t => job'[u] = job[u]
      BY <1>2, Begun DEF Plain, Reply
<1>5. /\ \A u \in Thread : Encrypting(u, id)' = Encrypting(u, id)
      /\ Replying(r, id)' = Replying(r, id)
      BY <1>2, <1>3, <1>4 DEF Encrypting, Replying, Thread
<1>6. /\ OnWay(r, id)' = OnWay(r, id) /\ got'[r][id] = got[r][id]
      /\ \A i \in Nat : Under(r, i, id)' = Under(r, i, id)
      /\ Asked(r, id)' = Asked(r, id) /\ Fetching(r, id)' = Fetching(r, id)
      /\ Future(id)' = Future(id) /\ Asking(id)' = Asking(id)
      BY <1>1 DEF OnWay, Under, Asked, Fetching, Future, Asking
<1>7. QED
      BY <1>5, <1>6 DEF OnePlace, Unsent, Retried

\* A stanza goes down: the message is in the network of each member it is for, and
\* in no thread any more.
LEMMA EmitPlace ==
    ASSUME Typed, NEW r \in Receiver, NEW id \in Id, OnePlace(r, id), NEW t \in Thread, Emit(t)
    PROVE  OnePlace(r, id)'
<1>1. UNCHANGED <<nextId, asking, asked, fetching, got>> /\ Begin(t, Idle) /\ job[t].at = "emit"
      BY DEF Emit, receivers
<1>2. job'[t] = Idle /\ \A u \in Thread : u # t => job'[u] = job[u]
      BY <1>1, Begun
<1>3. ~Encrypting(t, id)' /\ job'[t] \notin Reply
      BY <1>2, IdleHasNone
<1>4. \A u \in Thread : u # t => Encrypting(u, id)' = Encrypting(u, id)
      BY <1>2 DEF Encrypting
<1>5. /\ Asked(r, id)' = Asked(r, id) /\ Fetching(r, id)' = Fetching(r, id)
      /\ Future(id)' = Future(id) /\ Asking(id)' = Asking(id) /\ got'[r][id] = got[r][id]
      BY <1>1 DEF Asked, Fetching, Future, Asking
<1>6. Replying(r, id)' <=> Replying(r, id) /\ t # "net"
      BY <1>2, <1>3 DEF Replying, Thread
<1>7. Len(network[r]) \in Nat
      BY DEF Typed
<1>8. CASE job[t] \in Reply /\ job[t].to # r
  <2>1. network'[r] = network[r]
        BY <1>8, EmitAdds
  <2>2. ~Encrypting(t, id) /\ ~(t = "net" /\ Replying(r, id))
        BY <1>8 DEF Encrypting, Replying
  <2>3. OnWay(r, id)' = OnWay(r, id) /\ \A i \in Nat : Under(r, i, id)' = Under(r, i, id)
        BY <2>1 DEF OnWay, Under
  <2>4. QED
        BY <1>3, <1>4, <1>5, <1>6, <2>2, <2>3 DEF OnePlace, Unsent, Retried
<1>9. CASE ~(job[t] \in Reply /\ job[t].to # r)
  <2> DEFINE last == Len(network[r]) + 1
  <2>1. /\ Len(network'[r]) = last /\ network'[r][last].id = job[t].id
        /\ \A i \in 1..Len(network[r]) : network'[r][i] = network[r][i]
        BY <1>9, EmitAdds
  <2>2. \A i \in Nat : Under(r, i, id)' <=> Under(r, i, id) \/ (i = last /\ id = job[t].id)
    <3>1. ASSUME NEW i \in Nat, i \in 1..Len(network[r])
          PROVE  Under(r, i, id)' <=> Under(r, i, id)
      <4>1. i \in 1..last /\ network'[r][i] = network[r][i]
            BY <1>7, <2>1, <3>1
      <4>2. QED
            BY <2>1, <3>1, <4>1 DEF Under
    <3>2. ASSUME NEW i \in Nat, i = last
          PROVE  Under(r, i, id)' <=> id = job[t].id
      <4>1. i \in 1..Len(network'[r]) /\ network'[r][i].id = job[t].id
            BY <1>7, <2>1, <3>2
      <4>2. QED
            BY <4>1 DEF Under
    <3>3. ASSUME NEW i \in Nat, i \notin 1..Len(network[r]), i # last
          PROVE  ~Under(r, i, id)' /\ ~Under(r, i, id)
          BY <1>7, <2>1, <3>3 DEF Under
    <3>4. ~(last \in 1..Len(network[r]))
          BY <1>7
    <3>5. \A i \in Nat : Under(r, i, id) => i # last
          BY <3>4 DEF Under
    <3> HIDE DEF last
    <3>6. QED
          BY <3>1, <3>2, <3>3, <3>5
  <2>3. \A i \in Nat : Under(r, i, id) => OnWay(r, id) /\ i # last
        BY <1>7 DEF Under, OnWay
  <2>4. OnWay(r, id)' <=> OnWay(r, id) \/ id = job[t].id
    <3>1. last \in Nat
          BY <1>7
    <3>2. QED
          BY <2>2, <3>1 DEF OnWay
  <2>5. id = job[t].id <=> Encrypting(t, id) \/ (t = "net" /\ Replying(r, id))
        BY <1>1, <1>9, JobKinds DEF Encrypting, Replying
  <2>6. id = job[t].id => got[r][id] # 1 /\ ~OnWay(r, id)
        BY <2>5 DEF OnePlace, Unsent, Retried
  <2>7. /\ Unsent(id)' => Unsent(id) /\ id # job[t].id
        /\ Retried(r, id)' => Retried(r, id) /\ id # job[t].id
        BY <1>3, <1>4, <1>5, <1>6, <2>5 DEF OnePlace, Unsent, Retried
  <2>8. QED
        BY <1>3, <1>4, <1>5, <1>6, <2>2, <2>3, <2>4, <2>6, <2>7 DEF OnePlace
<1>10. QED
       BY <1>8, <1>9

\* The network thread moves a retry on from the request to the answer.
LEMMA RetryPlace ==
    ASSUME Typed, NEW r \in Receiver, NEW id \in Id, OnePlace(r, id),
           NEW q \in Receiver, NEW m \in Id, OnRetry(q, m) \/ AnswerRetry(q, m)
    PROVE  OnePlace(r, id)'
<1>1. UNCHANGED <<nextId, asking, network, got>> /\ Free("net")
      BY DEF OnRetry, AnswerRetry, receivers
<1>2. /\ OnWay(r, id)' = OnWay(r, id) /\ got'[r][id] = got[r][id]
      /\ \A i \in Nat : Under(r, i, id)' = Under(r, i, id)
      /\ Future(id)' = Future(id) /\ Asking(id)' = Asking(id)
      BY <1>1 DEF OnWay, Under, Future, Asking
<1>3. CASE OnRetry(q, m)
  <2>1. /\ job' = job /\ <<q, m>> \in asked /\ asked' = asked \ {<<q, m>>}
        /\ fetching' \subseteq fetching \cup {<<q, m>>}
        BY <1>3 DEF OnRetry
  <2>2. /\ \A u \in Thread : Encrypting(u, id)' = Encrypting(u, id)
        /\ Replying(r, id)' = Replying(r, id)
        BY <2>1 DEF Encrypting, Replying
  <2>3. /\ Asked(r, id)' => Asked(r, id) /\ <<r, id>> # <<q, m>>
        /\ Fetching(r, id)' => Fetching(r, id) \/ <<r, id>> = <<q, m>>
        /\ <<r, id>> = <<q, m>> => Asked(r, id)
        BY <2>1 DEF Asked, Fetching
  <2>4. QED
        BY <1>2, <2>2, <2>3 DEF OnePlace, Unsent, Retried
<1>4. CASE AnswerRetry(q, m)
  <2> DEFINE w == [at |-> "emit", reply |-> TRUE, to |-> q, id |-> m, iter |-> own, first |-> FALSE]
  <2>1. /\ asked' = asked /\ <<q, m>> \in fetching /\ fetching' = fetching \ {<<q, m>>}
        /\ Begin("net", w)
        BY <1>4 DEF AnswerRetry
  <2>2. "net" \in Thread /\ "app" \in Thread
        BY DEF Thread
  <2>3. job'["net"] = w /\ job'["app"] = job["app"]
        BY <2>1, <2>2, Begun
  <2>4. w \in Reply /\ w.to = q /\ w.id = m
        BY DEF Reply, Typed
  <2>5. ~Encrypting("net", id) /\ ~Replying(r, id)
        BY <1>1, <2>2, IdleHasNone DEF Replying
  <2>6. /\ ~Encrypting("net", id)' /\ Encrypting("app", id)' = Encrypting("app", id)
        /\ Replying(r, id)' <=> r = q /\ id = m
        BY <2>3, <2>4 DEF Encrypting, Replying
  <2>7. /\ Asked(r, id)' = Asked(r, id)
        /\ Fetching(r, id)' <=> Fetching(r, id) /\ ~(r = q /\ id = m)
        /\ r = q /\ id = m => Fetching(r, id)
        BY <2>1 DEF Asked, Fetching
  <2>8. QED
        BY <1>2, <2>5, <2>6, <2>7 DEF OnePlace, Unsent, Retried, Thread
<1>5. QED
      BY <1>3, <1>4

\* A member handles the stanza that comes first: the application gets the message,
\* or a retry is asked for, or neither.
LEMMA ReceivePlace ==
    ASSUME Typed, Typed', NEW r \in Receiver, NEW id \in Id, OnePlace(r, id),
           NEW q \in Receiver, Receive(q) \/ Lose(q)
    PROVE  OnePlace(r, id)'
<1> DEFINE m == Head(network[q]).id
<1>1. Take(q) /\ UNCHANGED sender
      BY DEF Receive, ReceiveReply, ReceiveWithoutKey, ReceiveWithKey, ReceiveOld, Lose
<1>2. \/ asked' = asked /\ Deliver(q, m)
      \/ asked' = asked \cup {<<q, m>>} /\ got' = got
      \/ asked' = asked /\ got' = got
      BY DEF Receive, ReceiveReply, ReceiveWithoutKey, ReceiveWithKey, ReceiveOld, Lose, receivers
<1>3. /\ Fetching(r, id)' = Fetching(r, id) /\ Replying(r, id)' = Replying(r, id)
      /\ Future(id)' = Future(id) /\ Asking(id)' = Asking(id)
      /\ \A u \in Thread : Encrypting(u, id)' = Encrypting(u, id)
      BY <1>1 DEF sender, Fetching, Replying, Future, Asking, Encrypting
<1>4. Unsent(id)' = Unsent(id)
      BY <1>3 DEF Unsent
<1>5. got[r][id] \in Nat /\ got'[r][id] \in Nat
      BY DEF Typed
<1>6. ASSUME r # q \/ id # m
      PROVE  Asked(r, id)' = Asked(r, id) /\ got'[r][id] = got[r][id]
  <2>1. Asked(r, id)' = Asked(r, id)
        BY <1>2, <1>6 DEF Asked, Deliver
  <2>2. ASSUME Deliver(q, m) PROVE got'[r][id] = got[r][id]
    <3>1. got' = [got EXCEPT ![q] = [got[q] EXCEPT ![m] = got[q][m] + 1]]
          BY <2>2 DEF Deliver
    <3>2. QED
          BY <1>6, <3>1 DEF Typed
  <2>3. QED
        BY <1>2, <2>1, <2>2
<1>7. CASE r # q
  <2>1. network'[r] = network[r]
        BY <1>1, <1>7, TakeFirst
  <2>2. OnWay(r, id)' = OnWay(r, id) /\ \A i \in Nat : Under(r, i, id)' = Under(r, i, id)
        BY <2>1 DEF OnWay, Under
  <2>3. Retried(r, id)' = Retried(r, id)
        BY <1>3, <1>6, <1>7 DEF Retried
  <2>4. QED
        BY <1>3, <1>4, <1>6, <1>7, <2>2, <2>3 DEF OnePlace
<1>8. CASE r = q
  <2>1. /\ Head(network[r]) = network[r][1]
        /\ Len(network[r]) \in Nat \ {0} /\ Len(network'[r]) = Len(network[r]) - 1
        /\ \A i \in 1..Len(network'[r]) : network'[r][i] = network[r][i + 1]
        BY <1>1, <1>8, TakeFirst
  <2>2. \A i \in Nat : Under(r, i, id)' => Under(r, i + 1, id)
        BY <2>1 DEF Under
  <2>3. OnWay(r, id)' => OnWay(r, id)
        BY <2>2 DEF OnWay
  <2>4. \A i, j \in Nat : Under(r, i, id)' /\ Under(r, j, id)' => i = j
    <3> SUFFICES ASSUME NEW i \in Nat, NEW j \in Nat, Under(r, i, id)', Under(r, j, id)'
                 PROVE  i = j
        OBVIOUS
    <3>1. Under(r, i + 1, id) /\ Under(r, j + 1, id) /\ i + 1 \in Nat /\ j + 1 \in Nat
          BY <2>2
    <3>2. i + 1 = j + 1
          BY <3>1 DEF OnePlace
    <3>3. QED
          BY <3>2
  <2>5. CASE id # m
    <3>1. Retried(r, id)' = Retried(r, id)
          BY <1>3, <1>6, <2>5 DEF Retried
    <3>2. QED
          BY <1>3, <1>4, <1>6, <2>3, <2>4, <2>5, <3>1 DEF OnePlace
  <2>6. CASE id = m
    <3>1. Under(r, 1, id) /\ OnWay(r, id)
          BY <1>8, <2>1, <2>6 DEF Under, OnWay
    <3>2. got[r][id] = 0 /\ ~Unsent(id) /\ ~Retried(r, id)
          BY <1>5, <3>1 DEF OnePlace
    <3>3. ~OnWay(r, id)'
      <4> SUFFICES ASSUME NEW i \in Nat, Under(r, i, id)' PROVE FALSE
          BY DEF OnWay
      <4>1. Under(r, i + 1, id) /\ i \in 1..Len(network'[r])
            BY <2>2 DEF Under
      <4>2. i + 1 = 1
            BY <3>1, <4>1 DEF OnePlace
      <4>3. QED
            BY <2>1, <4>1, <4>2
    <3>4. got'[r][id] = 0 \/ (got'[r][id] = 1 /\ asked' = asked)
      <4>1. ASSUME Deliver(q, m) PROVE got'[r][id] = 1
        <5>1. got' = [got EXCEPT ![q] = [got[q] EXCEPT ![m] = got[q][m] + 1]]
              BY <4>1 DEF Deliver
        <5>2. QED
              BY <1>8, <2>6, <3>2, <5>1 DEF Typed
      <4>2. QED
            BY <1>2, <3>2, <4>1
    <3>5. got'[r][id] = 1 => ~Retried(r, id)'
          BY <1>3, <3>2, <3>4 DEF Retried, Asked
    <3>6. ~Fetching(r, id)' /\ ~Replying(r, id)'
          BY <1>3, <3>2 DEF Retried
    <3>7. ~Unsent(id)'
          BY <1>4, <3>2
    <3>8. QED
          BY <2>4, <3>3, <3>4, <3>5, <3>6, <3>7 DEF OnePlace, Unsent
  <2>7. QED
        BY <2>5, <2>6
<1>9. QED
      BY <1>7, <1>8

-----------------------------------------------------------------------------
\* Every message is at one place on its way to a member, or was got, or is lost.
THEOREM OnePlaceEach == Spec => []IInv
<1>1. Init => IInv
  <2> SUFFICES ASSUME Init, NEW r \in Receiver, NEW id \in Id PROVE OnePlace(r, id)
      BY TypedInit DEF IInv
  <2>1. got[r][id] = 0 /\ network[r] = <<>>
        BY DEF Init
  <2>2. ~Asking(id) /\ ~Asked(r, id) /\ ~Fetching(r, id)
        BY DEF Init, Asking, Asked, Fetching
  <2>3. \A t \in Thread : ~Encrypting(t, id) /\ job[t] \notin Reply
        BY IdleHasNone DEF Init, Free
  <2>4. ~Retried(r, id)
        BY <2>2, <2>3 DEF Retried, Replying, Thread
  <2>5. \A i \in Nat : ~Under(r, i, id)
        BY <2>1 DEF Under
  <2>6. QED
        BY <2>1, <2>2, <2>3, <2>4, <2>5 DEF OnePlace, OnWay
<1>2. IInv /\ [Next]_vars => IInv'
  <2> SUFFICES ASSUME IInv, [Next]_vars, NEW r \in Receiver, NEW id \in Id
               PROVE  OnePlace(r, id)'
      BY TypedStep DEF IInv
  <2>1. Typed /\ Typed' /\ OnePlace(r, id)
        BY TypedStep DEF IInv
  <2>2. CASE UNCHANGED vars
    <3>1. UNCHANGED <<nextId, asking, job, network, asked, fetching, got>>
          BY <2>2 DEF vars, sender, receivers
    <3>2. QED
          BY <2>1, <3>1 DEF OnePlace, Unsent, Retried, OnWay, Future, Asking, Encrypting,
                            Under, Asked, Fetching, Replying
  <2>3. CASE Send
        BY <2>1, <2>3, SendPlace
  <2>4. CASE NetStep
        BY <2>1, <2>4, GroupInfoPlace, RetryPlace DEF NetStep
  <2>5. ASSUME NEW t \in Thread, ThreadStep(t) PROVE OnePlace(r, id)'
        BY <2>1, <2>5, EncryptPlace, EmitPlace DEF ThreadStep
  <2>6. ASSUME NEW q \in Receiver, Receive(q) \/ Lose(q) PROVE OnePlace(r, id)'
        BY <2>1, <2>6, ReceivePlace
  <2>7. QED
        BY <2>1, <2>2, <2>3, <2>4, <2>5, <2>6 DEF Next
<1>3. QED
      BY <1>1, <1>2, PTL DEF Spec

\* However its stanzas, its retries and both threads of the sender overlap, a
\* message reaches a member's application once at most.
THEOREM GotAtMostOnce == Spec => []GotOnce
<1>1. IInv => GotOnce
      BY DEF IInv, OnePlace, GotOnce
<1>2. QED
      BY <1>1, OnePlaceEach, PTL

-----------------------------------------------------------------------------
(* Bounds.                                                                 *)

\* Messages sent that no iteration of the key has been stored for: those that wait for
\* the group info and those a thread is encrypting.
One(t) == IF job[t].at \in {"load", "store"} THEN 1 ELSE 0
Pending == Cardinality(asking) + One("net") + One("app")

\* Each message moves the chain by one iteration at most, when it is stored.
Counted ==
    /\ nextId <= MaxMsg + 1 /\ Pending <= nextId - 1
    /\ own >= Empty /\ own + Pending <= nextId - 1
    /\ \A t \in Thread :
          /\ job[t].at = "store" => job[t].iter >= 0 /\ job[t].iter + Pending <= nextId - 1
          /\ job[t].at = "emit" =>
                job[t].iter >= 0 /\ job[t].iter <= MaxMsg /\ (~job[t].reply => job[t].iter < MaxMsg)

\* Before the sender's key is made no message is encrypted, sent or asked for.
NoKeyYet ==
    own = Empty =>
        /\ \A t \in Thread : job[t] = Idle
        /\ asked = {} /\ fetching = {} /\ \A r \in Receiver : network[r] = <<>>

\* What is in the network and what a record holds.
Iterations ==
    \A r \in Receiver : \A i \in DOMAIN network[r] : LET m == network[r][i] IN
        m.iter >= 0 /\ m.iter <= MaxMsg /\ (~m.reply => m.iter < MaxMsg)

KeyState == {st \in [next : 0..MaxMsg, saved : SUBSET Int] : \A k \in st.saved : k < st.next}
Records == record \in [Receiver -> Seq(KeyState)]

Queued == sentQueue \in Seq(Id) /\ Len(sentQueue) <= QueueSize
Requested == asked \subseteq Receiver \X Id /\ fetching \subseteq Receiver \X Id

BInv == Typed /\ Counted /\ NoKeyYet /\ Iterations /\ Records /\ Queued /\ Requested

-----------------------------------------------------------------------------
(* Keys, while the two threads are never in a send at once.                *)

\* A group message is encrypted with the iteration the chain is at, and moves it on
\* before it goes down.
OneKeyEach ==
    /\ \A r \in Receiver : \A i \in DOMAIN network[r] :
          ~network[r][i].reply => network[r][i].iter < own
    /\ \A t \in Thread : job[t].at = "store" => job[t].iter = own
    /\ \A t \in Thread : job[t].at = "emit" /\ ~job[t].reply =>
          /\ job[t].iter < own
          /\ \A r \in Receiver : \A i \in DOMAIN network[r] :
                ~network[r][i].reply => network[r][i].iter # job[t].iter
    /\ \A r, q \in Receiver : \A i \in DOMAIN network[r], j \in DOMAIN network[q] :
          LET m == network[r][i]  n == network[q][j] IN
          ~m.reply /\ ~n.reply /\ m.iter = n.iter => m.id = n.id

\* One more message sent makes room for one more to wait.
LEMMA OneMore ==
    ASSUME NEW a \in Int, NEW n \in Int, NEW p \in Int, NEW q \in Int, q <= p + 1, a + p <= n - 1
    PROVE  a + q <= n
  OBVIOUS

\* What a thread begins is counted in the place of what it was at.
LEMMA BegunCount ==
    ASSUME Typed, NEW t \in Thread, NEW w, Begin(t, w), NEW d \in {0, 1},
           w.at \in {"load", "store"} <=> d = 1, asking' = asking
    PROVE  Pending' = Pending - One(t) + d
<1>1. Cardinality(asking) \in Nat
  <2>1. IsFiniteSet(Id)
        BY FS_Interval, GroupKeysAssumption DEF Id
  <2>2. QED
        BY <2>1, FS_Subset, FS_CardinalityType DEF Typed
<1>2. One(t)' = d /\ \A u \in Thread : u # t => One(u)' = One(u)
      BY Begun DEF One
<1>3. \A u \in Thread : One(u) \in {0, 1}
      BY DEF One
<1>4. CASE t = "net"
      BY <1>1, <1>2, <1>3, <1>4 DEF Pending, Thread
<1>5. CASE t = "app"
      BY <1>1, <1>2, <1>3, <1>5 DEF Pending, Thread
<1>6. QED
      BY <1>4, <1>5 DEF Thread

\* How many messages wait.
LEMMA PendingIs ==
    ASSUME Typed
    PROVE  /\ IsFiniteSet(asking) /\ Cardinality(asking) \in Nat
           /\ \A t \in Thread : One(t) \in {0, 1}
           /\ Pending \in Nat /\ \A t \in Thread : One(t) <= Pending
<1>1. IsFiniteSet(Id)
      BY FS_Interval, GroupKeysAssumption DEF Id
<1>2. IsFiniteSet(asking) /\ Cardinality(asking) \in Nat
      BY <1>1, FS_Subset, FS_CardinalityType DEF Typed
<1>3. \A t \in Thread : One(t) \in {0, 1}
      BY DEF One
<1>4. QED
      BY <1>2, <1>3 DEF Pending, Thread

\* A thread may go on with an iteration that does not exceed the messages sent.
LEMMA CountedKept ==
    ASSUME Typed, Counted, NEW t \in Thread, NEW w, Begin(t, w), UNCHANGED nextId,
           Pending' <= Pending, Pending' \in Nat,
           own' \in Int, own' >= Empty, own' + Pending' <= nextId - 1,
           w.at = "store" => w.iter >= 0 /\ w.iter + Pending' <= nextId - 1,
           w.at = "emit" =>
              w.iter >= 0 /\ w.iter <= MaxMsg /\ (~w.reply => w.iter < MaxMsg)
    PROVE  Counted'
<1>1. Pending \in Nat /\ nextId \in Int
      BY PendingIs DEF Typed
<1>2. \A u \in Thread : job'[u] = IF u = t THEN w ELSE job[u]
      BY Begun
<1>3. ASSUME NEW u \in Thread, job'[u].at = "store"
      PROVE  job'[u].iter >= 0 /\ job'[u].iter + Pending' <= nextId' - 1
  <2>1. CASE u = t
        BY <1>2, <1>3, <2>1
  <2>2. CASE u # t
    <3>1. job'[u] = job[u]
          BY <1>2, <2>2
    <3>2. job[u].iter >= 0 /\ job[u].iter + Pending <= nextId - 1 /\ job[u].iter \in Int
          BY <1>3, <3>1, JobKinds DEF Counted, Plain
    <3>3. QED
          BY <1>1, <3>1, <3>2
  <2>3. QED
        BY <2>1, <2>2
<1>4. ASSUME NEW u \in Thread, job'[u].at = "emit"
      PROVE  job'[u].iter >= 0 /\ job'[u].iter <= MaxMsg /\ (~job'[u].reply => job'[u].iter < MaxMsg)
      BY <1>2, <1>4 DEF Counted
<1>5. Pending' <= nextId' - 1 /\ nextId' <= MaxMsg + 1
      BY <1>1 DEF Counted
<1>6. QED
      BY <1>3, <1>4, <1>5 DEF Counted

\* Whichever thread encrypts, stores or sends, the chain stays behind the messages sent.
LEMMA CountedStep ==
    ASSUME Typed, Typed', Counted, NoKeyYet, [Next]_vars
    PROVE  Counted'
<1>1. /\ Pending \in Nat /\ IsFiniteSet(asking) /\ Cardinality(asking) \in Nat
      /\ \A t \in Thread : One(t) \in {0, 1} /\ One(t) <= Pending
      /\ nextId \in Nat \ {0} /\ own \in Int /\ MaxMsg \in Nat
      /\ "net" \in Thread /\ "app" \in Thread
      BY PendingIs, GroupKeysAssumption DEF Typed, Thread
<1>2. (\E t \in Thread : job[t] # Idle) \/ fetching # {} => own >= 0
      BY <1>1 DEF NoKeyYet, Counted, Empty
<1>3. CASE Send
  <2>1. nextId' = nextId + 1 /\ nextId <= MaxMsg /\ UNCHANGED own /\ Free("app")
        BY <1>3 DEF Send
  <2>2. Pending' \in Nat /\ Pending' <= Pending + 1
    <3>1. CASE own = Empty
      <4>1. asking' = asking \cup {nextId} /\ job' = job
            BY <1>3, <3>1 DEF Send
      <4>2. Cardinality(asking') \in Nat /\ Cardinality(asking') <= Cardinality(asking) + 1
        <5>1. IsFiniteSet(asking') /\ Cardinality(asking') \in {Cardinality(asking), Cardinality(asking) + 1}
              BY <1>1, <4>1, FS_AddElement
        <5>2. QED
              BY <1>1, <5>1
      <4>3. \A t \in Thread : One(t)' = One(t)
            BY <4>1 DEF One
      <4>4. QED
            BY <1>1, <4>2, <4>3 DEF Pending
    <3>2. CASE own # Empty
      <4> DEFINE w == [at |-> "load", id |-> nextId, first |-> FALSE]
      <4>1. asking' = asking /\ Begin("app", w)
            BY <1>3, <3>2 DEF Send
      <4>2. Pending' = Pending - One("app") + 1
            BY <1>1, <4>1, BegunCount
      <4>3. QED
            BY <1>1, <4>2
    <3>3. QED
          BY <3>1, <3>2
  <2>3. \A t \in Thread : job'[t].at \in {"store", "emit"} => job'[t] = job[t]
    <3>1. CASE own = Empty
          BY <1>3, <3>1 DEF Send
    <3>2. CASE own # Empty
          BY <1>1, <1>3, <3>2, Begun DEF Send
    <3>3. QED
          BY <3>1, <3>2
  <2>4. \A t \in Thread : job[t].at = "store" => job[t].iter \in Int
        BY JobKinds DEF Plain
  <2>5. nextId' <= MaxMsg + 1 /\ Pending' <= nextId' - 1 /\ own' >= Empty /\ own' + Pending' <= nextId' - 1
    <3>1. /\ nextId \in Int /\ Pending \in Int /\ own \in Int /\ MaxMsg \in Int
          /\ Pending <= nextId - 1 /\ own + Pending <= nextId - 1 /\ own >= -1
          BY <1>1 DEF Counted, Empty
    <3>2. own' + Pending' <= nextId' - 1
      <4>1. /\ own \in Int /\ nextId \in Int /\ Pending \in Int /\ Pending' \in Int
            /\ Pending' <= Pending + 1 /\ own + Pending <= nextId - 1
            BY <2>2, <3>1
      <4>2. own + Pending' <= nextId
            BY <4>1, OneMore
      <4>3. nextId' - 1 = nextId /\ own' = own
            BY <2>1, <4>1
      <4>4. QED
            BY <4>2, <4>3
    <3>3. nextId' <= MaxMsg + 1 /\ Pending' <= nextId' - 1 /\ own' >= -1
          BY <2>1, <2>2, <3>1
    <3>4. QED
          BY <3>2, <3>3 DEF Empty
  <2>6. \A t \in Thread : job[t].at = "store" => job[t].iter >= 0 /\ job[t].iter + Pending' <= nextId' - 1
        BY <1>1, <2>1, <2>2, <2>4 DEF Counted
  <2>7. QED
        BY <2>3, <2>5, <2>6 DEF Counted
<1>4. ASSUME NEW m \in Id, GroupInfo(m) PROVE Counted'
  <2> DEFINE w == [at |-> "load", id |-> m, first |-> TRUE]
  <2>1. /\ m \in asking /\ asking' = asking \ {m} /\ Free("net") /\ Begin("net", w)
        /\ UNCHANGED nextId /\ own' = (IF own = Empty THEN 0 ELSE own)
        BY <1>4 DEF GroupInfo
  <2>2. Cardinality(asking') = Cardinality(asking) - 1
        BY <1>1, <2>1, FS_RemoveElement
  <2>3. One("net") = 0 /\ One("net")' = 1 /\ One("app")' = One("app")
    <3>1. job["net"].at = "idle" /\ job'["net"].at = "load" /\ job'["app"] = job["app"]
          BY <1>1, <2>1, Begun DEF Free, Idle
    <3>2. QED
          BY <3>1 DEF One
  <2>4. Pending' = Pending
        BY <1>1, <2>2, <2>3 DEF Pending
  <2>5. own' \in Int /\ own' >= Empty /\ own' + Pending' <= nextId - 1
        BY <1>1, <2>1, <2>4 DEF Counted, Empty
  <2>6. w.at = "load"
        OBVIOUS
  <2> HIDE DEF w
  <2>7. QED
        BY <1>1, <2>1, <2>4, <2>5, <2>6, CountedKept
<1>5. ASSUME NEW t \in Thread, Load(t) PROVE Counted'
  <2> DEFINE w == [at |-> "store", reply |-> FALSE, id |-> job[t].id,
                   first |-> job[t].first, iter |-> own]
  <2>1. job[t].at = "load" /\ Begin(t, w) /\ UNCHANGED <<own, asking, nextId>>
        BY <1>5 DEF Load
  <2>2. w.at = "store" /\ w.iter = own
        OBVIOUS
  <2> HIDE DEF w
  <2>3. Pending' = Pending
    <3>1. One(t) = 1
          BY <2>1 DEF One
    <3>2. Pending' = Pending - One(t) + 1
          BY <2>1, <2>2, BegunCount
    <3>3. QED
          BY <1>1, <3>1, <3>2
  <2>4. own >= 0
    <3>1. job[t] # Idle
          BY <2>1 DEF Idle
    <3>2. QED
          BY <1>2, <3>1
  <2>5. own' \in Int /\ own' >= Empty /\ own' + Pending' <= nextId - 1
        BY <1>1, <2>1, <2>3 DEF Counted
  <2>6. QED
        BY <1>1, <2>1, <2>2, <2>3, <2>4, <2>5, CountedKept
<1>6. ASSUME NEW t \in Thread, Store(t) PROVE Counted'
  <2> DEFINE w == [job[t] EXCEPT !.at = "emit"]
  <2>1. job[t].at = "store" /\ Begin(t, w) /\ UNCHANGED <<asking, nextId>> /\ own' = job[t].iter + 1
        BY <1>6 DEF Store
  <2>2. w.at = "emit" /\ w.iter = job[t].iter /\ job[t].iter \in Int
    <3>1. job[t] \in Plain
          BY <2>1, JobKinds
    <3>2. QED
          BY <3>1 DEF Plain
  <2> HIDE DEF w
  <2>3. Pending' = Pending - 1 /\ Pending >= 1
    <3>1. One(t) = 1
          BY <2>1 DEF One
    <3>2. Pending' = Pending - One(t) + 0
          BY <2>1, <2>2, BegunCount
    <3>3. QED
          BY <1>1, <3>1, <3>2
  <2>4. job[t].iter >= 0 /\ job[t].iter + Pending <= nextId - 1 /\ nextId <= MaxMsg + 1
        BY <2>1 DEF Counted
  <2>5. own' \in Int /\ own' >= Empty /\ own' + Pending' <= nextId - 1 /\ w.iter >= 0 /\ w.iter < MaxMsg
        BY <1>1, <2>1, <2>2, <2>3, <2>4 DEF Empty
  <2>6. Pending' \in Nat /\ Pending' <= Pending /\ w.iter <= MaxMsg
        BY <1>1, <2>2, <2>3, <2>5
  <2>7. QED
        BY <2>1, <2>2, <2>5, <2>6, CountedKept
<1>7. ASSUME NEW t \in Thread, Emit(t) PROVE Counted'
  <2>1. job[t].at = "emit" /\ Begin(t, Idle) /\ UNCHANGED <<own, asking, nextId>> /\ Idle.at = "idle"
        BY <1>7 DEF Emit, Idle
  <2>2. Pending' = Pending
    <3>1. One(t) = 0
          BY <2>1 DEF One
    <3>2. Pending' = Pending - One(t) + 0
          BY <2>1, BegunCount
    <3>3. QED
          BY <1>1, <3>1, <3>2
  <2>3. own' \in Int /\ own' >= Empty /\ own' + Pending' <= nextId - 1
        BY <1>1, <2>1, <2>2 DEF Counted
  <2>4. QED
        BY <1>1, <2>1, <2>2, <2>3, CountedKept
<1>8. ASSUME NEW q \in Receiver, NEW m \in Id, AnswerRetry(q, m) PROVE Counted'
  <2> DEFINE w == [at |-> "emit", reply |-> TRUE, to |-> q, id |-> m, iter |-> own, first |-> FALSE]
  <2>1. fetching # {} /\ Free("net") /\ Begin("net", w) /\ UNCHANGED <<own, asking, nextId>>
        BY <1>8 DEF AnswerRetry
  <2>2. w.at = "emit" /\ w.reply /\ w.iter = own
        OBVIOUS
  <2> HIDE DEF w
  <2>3. Pending' = Pending
    <3>1. One("net") = 0
          BY <2>1 DEF One, Free, Idle
    <3>2. Pending' = Pending - One("net") + 0
          BY <1>1, <2>1, <2>2, BegunCount
    <3>3. QED
          BY <1>1, <3>1, <3>2
  <2>4. own' \in Int /\ own' >= Empty /\ own' + Pending' <= nextId - 1 /\ own <= MaxMsg /\ own >= 0
        BY <1>1, <1>2, <2>1, <2>3 DEF Counted
  <2>5. QED
        BY <1>1, <2>1, <2>2, <2>3, <2>4, CountedKept
<1>9. ASSUME UNCHANGED <<own, asking, nextId, job>> PROVE Counted'
  <2>1. Pending' = Pending
        BY <1>9 DEF Pending, One
  <2>2. QED
        BY <1>9, <2>1 DEF Counted
<1>10. CASE (\E q \in Receiver, m \in Id : OnRetry(q, m)) \/ (\E q \in Receiver : Receive(q) \/ Lose(q))
            \/ UNCHANGED vars
       BY <1>9, <1>10 DEF OnRetry, Receive, ReceiveReply, ReceiveWithoutKey, ReceiveWithKey, ReceiveOld,
                          Lose, vars, sender
<1>11. QED
       BY <1>3, <1>4, <1>5, <1>6, <1>7, <1>8, <1>10 DEF Next, NetStep, ThreadStep

\* Every receiving step takes a stanza and leaves the sender alone.
LEMMA ReceiveIs ==
    ASSUME NEW q \in Receiver, Receive(q) \/ Lose(q)
    PROVE  /\ Take(q) /\ UNCHANGED sender
           /\ asked' = asked \/ asked' = asked \cup {<<q, Head(network[q]).id>>}
           /\ \/ record' = record
              \/ Head(network[q]).reply
                 /\ record' = [record EXCEPT ![q] = Append(@, [next |-> Head(network[q]).iter, saved |-> {}])]
              \/ /\ ~Head(network[q]).reply /\ record[q] # <<>>
                 /\ record' = [record EXCEPT ![q][1] = Opened(@, Head(network[q]).iter)]
  BY DEF Receive, ReceiveReply, ReceiveWithoutKey, ReceiveWithKey, ReceiveOld, Lose, receivers

\* The key is made before anything is encrypted.
LEMMA NoKeyYetStep ==
    ASSUME Typed, Typed', Counted, NoKeyYet, [Next]_vars
    PROVE  NoKeyYet'
<1> SUFFICES ASSUME own' = Empty
             PROVE  /\ \A t \in Thread : job'[t] = Idle
                    /\ asked' = {} /\ fetching' = {} /\ \A r \in Receiver : network'[r] = <<>>
    BY DEF NoKeyYet
<1> DEFINE quiet == /\ \A t \in Thread : job[t] = Idle
                    /\ asked = {} /\ fetching = {} /\ \A r \in Receiver : network[r] = <<>>
<1>1. own = Empty => quiet
      BY DEF NoKeyYet
<1>2. Idle.at = "idle"
      BY DEF Idle
<1>3. CASE Send
      BY <1>1, <1>3 DEF Send
<1>4. ASSUME NEW m \in Id, GroupInfo(m) PROVE FALSE
      BY <1>4 DEF GroupInfo, Empty
<1>5. ASSUME NEW t \in Thread, ThreadStep(t) PROVE FALSE
  <2>1. CASE Store(t)
    <3>1. job[t].at = "store" /\ own' = job[t].iter + 1
          BY <2>1 DEF Store
    <3>2. job[t].iter \in Int /\ job[t].iter >= 0
          BY <3>1, JobKinds DEF Counted, Plain
    <3>3. QED
          BY <3>1, <3>2 DEF Empty
  <2>2. CASE Load(t) \/ Emit(t)
        BY <1>1, <1>2, <2>2 DEF Load, Emit
  <2>3. QED
        BY <1>5, <2>1, <2>2 DEF ThreadStep
<1>6. ASSUME NEW q \in Receiver, NEW m \in Id, OnRetry(q, m) \/ AnswerRetry(q, m) PROVE FALSE
      BY <1>1, <1>6 DEF OnRetry, AnswerRetry
<1>7. ASSUME NEW q \in Receiver, Receive(q) \/ Lose(q) PROVE FALSE
  <2>1. own' = own /\ network[q] # <<>>
        BY <1>7, ReceiveIs DEF Take, sender
  <2>2. QED
        BY <1>1, <2>1
<1>8. CASE UNCHANGED vars
      BY <1>1, <1>8 DEF vars, sender
<1>9. QED
      BY <1>3, <1>4, <1>5, <1>6, <1>7, <1>8 DEF Next, NetStep

\* A stanza that goes down.
LEMMA EmitIs ==
    ASSUME Typed, NEW t \in Thread, Emit(t), NEW r \in Receiver, NEW i \in DOMAIN network'[r]
    PROVE  \/ i \in DOMAIN network[r] /\ network'[r][i] = network[r][i]
           \/ network'[r][i] = [id |-> job[t].id, iter |-> job[t].iter, reply |-> job[t].reply,
                                first |-> job[t].first]
<1> DEFINE j == job[t]
           stanza == [id |-> j.id, iter |-> j.iter, reply |-> j.reply, first |-> j.first]
<1>1. network[r] \in Seq(Stanza)
      BY DEF Typed
<1>2. network'[r] = network[r] \/ network'[r] = Append(network[r], stanza)
      BY DEF Emit, Typed
<1> HIDE DEF stanza
<1>3. network'[r] = Append(network[r], stanza) =>
         \/ i \in DOMAIN network[r] /\ network'[r][i] = network[r][i]
         \/ network'[r][i] = stanza
      BY <1>1
<1>4. QED
      BY <1>2, <1>3 DEF stanza

\* What is left when a member took the first stanza.
LEMMA TakeIs ==
    ASSUME Typed, NEW q \in Receiver, Take(q), NEW r \in Receiver, NEW i \in DOMAIN network'[r]
    PROVE  \E k \in DOMAIN network[r] : network'[r][i] = network[r][k]
<1>1. CASE r # q
      BY <1>1, TakeFirst
<1>2. CASE r = q
  <2>1. network[q] \in Seq(Stanza) /\ network'[q] \in Seq(Stanza)
        BY TakeFirst DEF Typed
  <2>2. i \in 1..Len(network'[q]) /\ DOMAIN network[q] = 1..Len(network[q])
        BY <1>2, <2>1
  <2>3. i + 1 \in DOMAIN network[q] /\ network'[q][i] = network[q][i + 1]
        BY <2>2, TakeFirst
  <2>4. QED
        BY <1>2, <2>3
<1>3. QED
      BY <1>1, <1>2

\* No iteration exceeds the messages the application may send.
LEMMA IterationsStep ==
    ASSUME Typed, Counted, Iterations, [Next]_vars
    PROVE  Iterations'
<1> SUFFICES ASSUME NEW r \in Receiver, NEW i \in DOMAIN network'[r]
             PROVE  LET m == network'[r][i] IN
                    m.iter >= 0 /\ m.iter <= MaxMsg /\ (~m.reply => m.iter < MaxMsg)
    BY DEF Iterations
<1>1. ASSUME NEW t \in Thread, Emit(t), ~(i \in DOMAIN network[r] /\ network'[r][i] = network[r][i])
      PROVE  LET m == network'[r][i] IN
             m.iter >= 0 /\ m.iter <= MaxMsg /\ (~m.reply => m.iter < MaxMsg)
  <2>1. network'[r][i].iter = job[t].iter /\ network'[r][i].reply = job[t].reply
    <3>1. network'[r][i] = [id |-> job[t].id, iter |-> job[t].iter, reply |-> job[t].reply,
                            first |-> job[t].first]
          BY <1>1, EmitIs
    <3>2. QED
          BY <3>1
  <2>2. job[t].at = "emit"
        BY <1>1 DEF Emit
  <2>3. QED
        BY <2>1, <2>2 DEF Counted
<1>2. ASSUME NEW q \in Receiver, Take(q)
      PROVE  \E k \in DOMAIN network[r] : network'[r][i] = network[r][k]
      BY <1>2, TakeIs
<1>3. \/ \E t \in Thread : Emit(t)
      \/ \E q \in Receiver : Take(q)
      \/ UNCHANGED network
      BY ReceiveIs DEF Next, NetStep, ThreadStep, Send, GroupInfo, OnRetry, AnswerRetry, Load, Store, vars
<1>4. (\E k \in DOMAIN network[r] : network'[r][i] = network[r][k]) =>
         LET m == network'[r][i] IN
         m.iter >= 0 /\ m.iter <= MaxMsg /\ (~m.reply => m.iter < MaxMsg)
      BY DEF Iterations
<1>5. QED
      BY <1>1, <1>2, <1>3, <1>4

\* getSenderKey moves a state on by one message at least.
LEMMA OpenedIs ==
    ASSUME NEW st \in KeyState, NEW k \in Int, k >= 0, k < MaxMsg
    PROVE  Opened(st, k) \in KeyState
<1>1. /\ st \in [next : 0..MaxMsg, saved : SUBSET Int] /\ \A j \in st.saved : j < st.next
      /\ MaxMsg \in Nat
      BY GroupKeysAssumption DEF KeyState
<1>2. CASE k < st.next
  <2>1. Opened(st, k) = [st EXCEPT !.saved = st.saved \ {k}]
        BY <1>2 DEF Opened
  <2>2. Opened(st, k) \in [next : 0..MaxMsg, saved : SUBSET Int]
        /\ Opened(st, k).next = st.next /\ Opened(st, k).saved \subseteq st.saved
        BY <1>1, <2>1
  <2>3. QED
        BY <1>1, <2>2 DEF KeyState
<1>3. CASE ~(k < st.next)
  <2>1. Opened(st, k) = [st EXCEPT !.next = k + 1, !.saved = st.saved \cup st.next..(k - 1)]
        BY <1>3 DEF Opened
  <2>2. st.next \in Int /\ k + 1 \in 0..MaxMsg /\ st.next <= k
        BY <1>1, <1>3
  <2>3. \A j \in st.saved \cup st.next..(k - 1) : j \in Int /\ j < k + 1
        BY <1>1, <2>2
  <2>4. Opened(st, k) \in [next : 0..MaxMsg, saved : SUBSET Int]
        /\ Opened(st, k).next = k + 1 /\ Opened(st, k).saved = st.saved \cup st.next..(k - 1)
        BY <1>1, <2>1, <2>2, <2>3
  <2>5. QED
        BY <2>3, <2>4 DEF KeyState
<1>4. QED
      BY <1>2, <1>3

\* Only a member's own steps touch its record.
LEMMA RecordsStep ==
    ASSUME Typed, Iterations, Records, [Next]_vars
    PROVE  Records'
<1>1. ASSUME NEW q \in Receiver, Receive(q) \/ Lose(q) PROVE Records'
  <2> DEFINE m == Head(network[q])
             st == [next |-> m.iter, saved |-> {}]
  <2>1. /\ Take(q)
        /\ \/ record' = record
           \/ m.reply /\ record' = [record EXCEPT ![q] = Append(record[q], st)]
           \/ /\ ~m.reply /\ record[q] # <<>>
              /\ record' = [record EXCEPT ![q] = [record[q] EXCEPT ![1] = Opened(record[q][1], m.iter)]]
        BY <1>1, ReceiveIs
  <2>2. m.iter \in Int /\ m.iter >= 0 /\ m.iter <= MaxMsg /\ (~m.reply => m.iter < MaxMsg)
    <3>1. m = network[q][1] /\ m \in Stanza /\ Len(network[q]) \in Nat \ {0}
          BY <2>1, TakeFirst
    <3>2. 1 \in DOMAIN network[q]
          BY <3>1 DEF Typed
    <3> HIDE DEF m
    <3>3. QED
          BY <3>1, <3>2 DEF Iterations, Stanza
  <2> HIDE DEF m
  <2>3. record[q] \in Seq(KeyState)
        BY DEF Records
  <2>4. CASE record' = [record EXCEPT ![q] = Append(record[q], st)]
    <3>1. m.iter \in 0..MaxMsg
          BY <2>2, GroupKeysAssumption
    <3>2. st \in KeyState
          BY <3>1 DEF KeyState
    <3> HIDE DEF st
    <3>3. Append(record[q], st) \in Seq(KeyState)
          BY <2>3, <3>2
    <3>4. QED
          BY <2>4, <3>3 DEF Records
  <2>5. CASE /\ ~m.reply /\ record[q] # <<>>
             /\ record' = [record EXCEPT ![q] = [record[q] EXCEPT ![1] = Opened(record[q][1], m.iter)]]
    <3>1. 1 \in 1..Len(record[q]) /\ record[q][1] \in KeyState
          BY <2>3, <2>5
    <3>2. Opened(record[q][1], m.iter) \in KeyState
          BY <2>2, <2>5, <3>1, OpenedIs
    <3>3. [record[q] EXCEPT ![1] = Opened(record[q][1], m.iter)] \in Seq(KeyState)
          BY <2>3, <3>1, <3>2
    <3>4. QED
          BY <2>5, <3>3 DEF Records
  <2>6. QED
        BY <2>1, <2>4, <2>5 DEF Records
<1>2. CASE Send \/ NetStep \/ (\E t \in Thread : ThreadStep(t)) \/ UNCHANGED vars
  <2>1. UNCHANGED record
        BY <1>2 DEF Send, NetStep, GroupInfo, OnRetry, AnswerRetry, ThreadStep, Load, Store, Emit,
                    vars, receivers
  <2>2. QED
        BY <2>1 DEF Records
<1>3. QED
      BY <1>1, <1>2 DEF Next

\* enqueueSent never lets the queue grow beyond its size.
LEMMA EnqueuedIs ==
    ASSUME NEW q \in Seq(Id), Len(q) <= QueueSize, NEW id \in Id
    PROVE  Enqueued(q, id) \in Seq(Id) /\ Len(Enqueued(q, id)) <= QueueSize
<1>1. QueueSize \in Nat \ {0} /\ Len(q) \in Nat
      BY GroupKeysAssumption
<1>2. CASE Len(q) >= QueueSize
  <2>1. Tail(q) \in Seq(Id) /\ Len(Tail(q)) = Len(q) - 1
        BY <1>1, <1>2
  <2>2. Append(Tail(q), id) \in Seq(Id) /\ Len(Append(Tail(q), id)) = Len(q)
        BY <1>1, <2>1
  <2>3. QED
        BY <1>2, <2>2 DEF Enqueued
<1>3. CASE ~(Len(q) >= QueueSize)
      BY <1>1, <1>3 DEF Enqueued
<1>4. QED
      BY <1>2, <1>3

\* Only a message that goes down is queued.
LEMMA QueuedStep ==
    ASSUME Typed, Queued, [Next]_vars
    PROVE  Queued'
<1>1. ASSUME NEW t \in Thread, Emit(t) PROVE Queued'
  <2>1. UNCHANGED sentQueue \/ sentQueue' = Enqueued(Enqueued(sentQueue, job[t].id), job[t].id)
        BY <1>1 DEF Emit
  <2>2. job[t].id \in Id
        BY <1>1, JobKinds DEF Emit
  <2>3. Enqueued(sentQueue, job[t].id) \in Seq(Id) /\ Len(Enqueued(sentQueue, job[t].id)) <= QueueSize
        BY <2>2, EnqueuedIs DEF Queued
  <2>4. /\ Enqueued(Enqueued(sentQueue, job[t].id), job[t].id) \in Seq(Id)
        /\ Len(Enqueued(Enqueued(sentQueue, job[t].id), job[t].id)) <= QueueSize
        BY <2>2, <2>3, EnqueuedIs
  <2>5. QED
        BY <2>1, <2>4 DEF Queued
<1>2. CASE ~\E t \in Thread : Emit(t)
  <2>1. UNCHANGED sentQueue
        BY <1>2, ReceiveIs DEF Next, NetStep, ThreadStep, Send, GroupInfo, OnRetry, AnswerRetry,
                               Load, Store, vars, sender
  <2>2. QED
        BY <2>1 DEF Queued
<1>3. QED
      BY <1>1, <1>2

\* A retry is asked for by a member, of a message that was sent.
LEMMA RequestedStep ==
    ASSUME Typed, Requested, [Next]_vars
    PROVE  Requested'
<1>1. ASSUME NEW q \in Receiver, NEW m \in Id, OnRetry(q, m) \/ AnswerRetry(q, m) PROVE Requested'
      BY <1>1 DEF OnRetry, AnswerRetry, Requested
<1>2. ASSUME NEW q \in Receiver, Receive(q) \/ Lose(q) PROVE Requested'
  <2>1. fetching' = fetching /\ (asked' = asked \/ asked' = asked \cup {<<q, Head(network[q]).id>>})
        BY <1>2, ReceiveIs DEF sender
  <2>2. Head(network[q]).id \in Id
        BY <1>2, ReceiveIs, TakeFirst DEF Stanza
  <2>3. QED
        BY <2>1, <2>2 DEF Requested
<1>3. CASE Send \/ (\E m \in Id : GroupInfo(m)) \/ (\E t \in Thread : ThreadStep(t)) \/ UNCHANGED vars
      BY <1>3 DEF Send, GroupInfo, ThreadStep, Load, Store, Emit, vars, sender, Requested
<1>4. QED
      BY <1>1, <1>2, <1>3 DEF Next, NetStep

\* A stanza that was in the network before.
Was(r, i) == \E k \in DOMAIN network[r] : network'[r][i] = network[r][k]

\* A step that sends no group message and does not move the chain.
LEMMA OneKeyEachKept ==
    ASSUME OneKeyEach, UNCHANGED own, \A r \in Receiver : \A i \in DOMAIN network'[r] : Was(r, i),
           \A t \in Thread : \/ job'[t] = job[t]
                             \/ job'[t].at \in {"idle", "load"}
                             \/ job'[t].at = "emit" /\ job'[t].reply
                             \/ job'[t].at = "store" /\ job'[t].iter = own
    PROVE  OneKeyEach'
<1>1. \A r \in Receiver : \A i \in DOMAIN network'[r] : ~network'[r][i].reply => network'[r][i].iter < own'
      BY DEF OneKeyEach, Was
<1>2. \A t \in Thread : job'[t].at = "store" => job'[t].iter = own'
      BY DEF OneKeyEach, Was
<1>3. \A t \in Thread : job'[t].at = "emit" /\ ~job'[t].reply =>
        /\ job'[t].iter < own'
        /\ \A r \in Receiver : \A i \in DOMAIN network'[r] :
              ~network'[r][i].reply => network'[r][i].iter # job'[t].iter
  <2> SUFFICES ASSUME NEW t \in Thread, job'[t].at = "emit", ~job'[t].reply
               PROVE  /\ job'[t].iter < own'
                      /\ \A r \in Receiver : \A i \in DOMAIN network'[r] :
                            ~network'[r][i].reply => network'[r][i].iter # job'[t].iter
      OBVIOUS
  <2>1. job'[t] = job[t]
        BY DEF Was
  <2>2. QED
        BY <2>1 DEF OneKeyEach, Was
<1>4. \A r, q \in Receiver : \A i \in DOMAIN network'[r], j \in DOMAIN network'[q] :
        LET m == network'[r][i]  n == network'[q][j] IN
        ~m.reply /\ ~n.reply /\ m.iter = n.iter => m.id = n.id
  <2> SUFFICES ASSUME NEW r \in Receiver, NEW q \in Receiver,
                      NEW i \in DOMAIN network'[r], NEW j \in DOMAIN network'[q]
               PROVE  LET m == network'[r][i]  n == network'[q][j] IN
                      ~m.reply /\ ~n.reply /\ m.iter = n.iter => m.id = n.id
      OBVIOUS
  <2>1. PICK k \in DOMAIN network[r] : network'[r][i] = network[r][k]
        BY DEF Was
  <2>2. PICK l \in DOMAIN network[q] : network'[q][j] = network[q][l]
        BY DEF Was
  <2>3. QED
        BY <2>1, <2>2 DEF OneKeyEach, Was
<1>5. QED
      BY <1>1, <1>2, <1>3, <1>4 DEF OneKeyEach, Was

\* While one thread is idle, the other's encrypting and storing are one step.
LEMMA OneKeyEachStep ==
    ASSUME Typed, NoKeyYet, OneKeyEach, Alone, Alone', [Next]_vars
    PROVE  OneKeyEach'
<1>1. Idle.at = "idle" /\ "net" \in Thread /\ "app" \in Thread /\ Thread = {"net", "app"}
      BY DEF Idle, Thread
<1>2. ASSUME NEW t \in Thread, NEW w, Begin(t, w), job[t] # Idle \/ w # Idle
      PROVE  /\ job'[t] = w
             /\ \A u \in Thread : u # t => job'[u] = job[u] /\ job[u] = Idle
  <2>1. job'[t] = w /\ \A u \in Thread : u # t => job'[u] = job[u]
        BY <1>2, Begun
  <2>2. \A u \in Thread : u # t => job[u] = Idle
        BY <1>1, <1>2, <2>1 DEF Alone
  <2>3. QED
        BY <2>1, <2>2
<1>4. network' = network => \A r \in Receiver : \A i \in DOMAIN network'[r] : Was(r, i)
      BY DEF Was
<1>5. CASE Send
  <2>1. UNCHANGED <<own, network>>
        BY <1>5 DEF Send
  <2>2. \A t \in Thread : job'[t] = job[t] \/ job'[t].at = "load"
    <3>1. CASE own = Empty
          BY <1>5, <3>1 DEF Send
    <3>2. CASE own # Empty
          BY <1>1, <1>5, <3>2, Begun DEF Send
    <3>3. QED
          BY <3>1, <3>2
  <2>3. QED
        BY OneKeyEachKept, <1>4, <2>1, <2>2
<1>6. ASSUME NEW m \in Id, GroupInfo(m) PROVE OneKeyEach'
  <2> DEFINE w == [at |-> "load", id |-> m, first |-> TRUE]
  <2>1. network' = network /\ own' = (IF own = Empty THEN 0 ELSE own) /\ Begin("net", w)
        BY <1>6 DEF GroupInfo
  <2>2. w.at = "load" /\ w # Idle
        BY DEF Idle
  <2> HIDE DEF w
  <2>3. \A u \in Thread : job'[u].at \in {"idle", "load"}
        BY <1>1, <1>2, <2>1, <2>2
  <2>4. own = Empty => \A r \in Receiver : network[r] = <<>>
        BY DEF NoKeyYet
  <2>5. CASE own = Empty
    <3>1. \A r \in Receiver : DOMAIN network'[r] = {}
          BY <2>1, <2>4, <2>5
    <3>2. QED
          BY <2>3, <3>1 DEF OneKeyEach
  <2>6. CASE own # Empty
        BY OneKeyEachKept, <1>4, <2>1, <2>3, <2>6
  <2>7. QED
        BY <2>5, <2>6
<1>7. ASSUME NEW t \in Thread, Load(t) PROVE OneKeyEach'
  <2> DEFINE w == [at |-> "store", reply |-> FALSE, id |-> job[t].id,
                   first |-> job[t].first, iter |-> own]
  <2>1. UNCHANGED <<own, network>> /\ Begin(t, w) /\ job[t].at = "load"
        BY <1>7 DEF Load
  <2>2. job'[t].at = "store" /\ job'[t].iter = own /\ \A u \in Thread : u # t => job'[u] = job[u]
        BY <2>1, Begun
  <2>3. QED
        BY OneKeyEachKept, <1>4, <2>1, <2>2
<1>8. ASSUME NEW t \in Thread, Store(t) PROVE OneKeyEach'
  <2> DEFINE w == [job[t] EXCEPT !.at = "emit"]
  <2>1. UNCHANGED network /\ Begin(t, w) /\ job[t].at = "store" /\ own' = job[t].iter + 1
        BY <1>8 DEF Store
  <2>2. job[t].iter = own /\ own \in Int
        BY <2>1 DEF OneKeyEach, Typed
  <2>3. w.at = "emit" /\ w.iter = own
    <3>1. job[t] \in Plain
          BY <2>1, JobKinds
    <3>2. QED
          BY <2>2, <3>1 DEF Plain
  <2> HIDE DEF w
  <2>4. job'[t] = w /\ \A u \in Thread : u # t => job'[u] = Idle
        BY <1>1, <1>2, <2>1, <2>3
  <2>5. \A r \in Receiver : \A i \in DOMAIN network[r] : ~network[r][i].reply =>
           network[r][i].iter < own /\ network[r][i].iter \in Int
    <3>1. \A r \in Receiver : \A i \in DOMAIN network[r] : network[r][i] \in Stanza
          BY DEF Typed
    <3>2. QED
          BY <3>1 DEF OneKeyEach, Stanza
  <2>6. own' = own + 1 /\ own < own'
        BY <2>1, <2>2
  <2>7. \A r \in Receiver : \A i \in DOMAIN network[r] : ~network[r][i].reply =>
           network[r][i].iter < own' /\ network[r][i].iter # own
        BY <2>2, <2>5, <2>6
  <2>8. \A u \in Thread : job'[u].at \in {"idle", "emit"} /\ (job'[u].at = "emit" => job'[u].iter = own)
        BY <1>1, <2>3, <2>4
  <2>9. QED
        BY <2>1, <2>6, <2>7, <2>8 DEF OneKeyEach
<1>9. ASSUME NEW t \in Thread, Emit(t) PROVE OneKeyEach'
  <2> DEFINE j == job[t]
             s == [id |-> j.id, iter |-> j.iter, reply |-> j.reply, first |-> j.first]
             New(r, i) == ~Was(r, i) /\ network'[r][i].reply = j.reply
                             /\ network'[r][i].iter = j.iter /\ network'[r][i].id = j.id
  <2>1. UNCHANGED own /\ Begin(t, Idle) /\ j.at = "emit"
        BY <1>9 DEF Emit
  <2>2. \A u \in Thread : job'[u] = Idle
        BY <1>1, <1>2, <2>1
  <2>3. \A r \in Receiver : \A i \in DOMAIN network'[r] : Was(r, i) \/ New(r, i)
    <3> SUFFICES ASSUME NEW r \in Receiver, NEW i \in DOMAIN network'[r] PROVE Was(r, i) \/ New(r, i)
        OBVIOUS
    <3>1. network'[r][i] = s \/ Was(r, i)
          BY <1>9, EmitIs DEF Was
    <3>2. s.reply = j.reply /\ s.iter = j.iter /\ s.id = j.id
          OBVIOUS
    <3> HIDE DEF s
    <3>3. QED
          BY <3>1, <3>2
  <2>4. ~j.reply =>
           /\ j.iter < own
           /\ \A r \in Receiver : \A i \in DOMAIN network[r] : ~network[r][i].reply => network[r][i].iter # j.iter
        BY <2>1 DEF OneKeyEach
  <2>5. \A r \in Receiver : \A i \in DOMAIN network'[r] : ~network'[r][i].reply => network'[r][i].iter < own'
    <3> SUFFICES ASSUME NEW r \in Receiver, NEW i \in DOMAIN network'[r], ~network'[r][i].reply
                 PROVE  network'[r][i].iter < own'
        OBVIOUS
    <3>1. CASE Was(r, i)
          BY <2>1, <3>1 DEF OneKeyEach, Was
    <3>2. CASE New(r, i)
          BY <2>1, <2>4, <3>2
    <3>3. QED
          BY <2>3, <3>1, <3>2
  <2>6. ASSUME NEW r \in Receiver, NEW q \in Receiver,
               NEW i \in DOMAIN network'[r], NEW k \in DOMAIN network'[q],
               ~network'[r][i].reply, ~network'[q][k].reply, network'[r][i].iter = network'[q][k].iter
        PROVE  network'[r][i].id = network'[q][k].id
    <3>1. CASE Was(r, i) /\ Was(q, k)
      <4>1. PICK a \in DOMAIN network[r] : network'[r][i] = network[r][a]
            BY <3>1 DEF Was
      <4>2. PICK b \in DOMAIN network[q] : network'[q][k] = network[q][b]
            BY <3>1 DEF Was
      <4>3. QED
            BY <2>6, <4>1, <4>2 DEF OneKeyEach
    <3>2. CASE New(r, i) /\ New(q, k)
          BY <3>2
    <3>3. CASE Was(r, i) /\ New(q, k)
          BY <2>4, <2>6, <3>3 DEF Was
    <3>4. CASE New(r, i) /\ Was(q, k)
          BY <2>4, <2>6, <3>4 DEF Was
    <3>5. QED
          BY <2>3, <3>1, <3>2, <3>3, <3>4
  <2>7. QED
        BY <1>1, <2>2, <2>5, <2>6 DEF OneKeyEach
<1>10. ASSUME NEW q \in Receiver, NEW m \in Id, OnRetry(q, m) \/ AnswerRetry(q, m) PROVE OneKeyEach'
  <2>1. UNCHANGED <<own, network>>
        BY <1>10 DEF OnRetry, AnswerRetry
  <2>2. \A t \in Thread : job'[t] = job[t] \/ (job'[t].at = "emit" /\ job'[t].reply)
    <3>1. CASE OnRetry(q, m)
          BY <3>1 DEF OnRetry
    <3>2. CASE AnswerRetry(q, m)
          BY <1>1, <3>2, Begun DEF AnswerRetry
    <3>3. QED
          BY <1>10, <3>1, <3>2
  <2>3. QED
        BY OneKeyEachKept, <1>4, <2>1, <2>2
<1>11. ASSUME NEW q \in Receiver, Receive(q) \/ Lose(q) PROVE OneKeyEach'
  <2>1. Take(q) /\ UNCHANGED <<own, job>>
        BY <1>11, ReceiveIs DEF sender
  <2>2. \A r \in Receiver : \A i \in DOMAIN network'[r] : Was(r, i)
        BY <2>1, TakeIs DEF Was
  <2>3. QED
        BY OneKeyEachKept, <2>1, <2>2
<1>12. CASE UNCHANGED vars
       BY OneKeyEachKept, <1>4, <1>12 DEF vars, sender
<1>13. QED
       BY <1>5, <1>6, <1>7, <1>8, <1>9, <1>10, <1>11, <1>12 DEF Next, NetStep, ThreadStep

-----------------------------------------------------------------------------
\* How far the chain has moved, and what threads, network, queue and records hold.
THEOREM Bounded == Spec => []BInv
<1>1. Init => BInv
  <2> SUFFICES ASSUME Init PROVE BInv
      OBVIOUS
  <2>1. \A t \in Thread : job[t] = Idle /\ Idle.at = "idle"
        BY DEF Init, Idle
  <2>2. Counted
    <3>1. Cardinality(asking) = 0
          BY FS_EmptySet DEF Init
    <3>2. One("net") = 0 /\ One("app") = 0
          BY <2>1 DEF One, Thread
    <3>3. Pending = 0
          BY <3>1, <3>2 DEF Pending
    <3>4. own = -1 /\ nextId = 1 /\ MaxMsg \in Nat
          BY GroupKeysAssumption DEF Init, Empty
    <3>5. QED
          BY <2>1, <3>3, <3>4 DEF Counted, Empty
  <2>3. NoKeyYet /\ Requested
        BY <2>1 DEF Init, NoKeyYet, Requested
  <2>4. Iterations
    <3>1. \A r \in Receiver : DOMAIN network[r] = {}
          BY DEF Init
    <3>2. QED
          BY <3>1 DEF Iterations
  <2>5. Records
        BY DEF Init, Records
  <2>6. Queued
        BY GroupKeysAssumption DEF Init, Queued
  <2>7. QED
        BY TypedInit, <2>2, <2>3, <2>4, <2>5, <2>6 DEF BInv
<1>2. BInv /\ [Next]_vars => BInv'
      BY TypedStep, CountedStep, NoKeyYetStep, IterationsStep, RecordsStep, QueuedStep, RequestedStep
      DEF BInv
<1>3. QED
      BY <1>1, <1>2, PTL DEF Spec

\* The chain never moves past the messages sent, the queue never grows past its
\* size, and no state of a record keeps a key that its chain has not passed.
THEOREM TypesKept == Spec => []TypeOK
<1>1. BInv => TypeOK
  <2> SUFFICES ASSUME BInv PROVE TypeOK
      OBVIOUS
  <2>1. own \in {Empty} \cup 0..MaxMsg
    <3>1. own \in Int /\ own >= -1 /\ nextId \in Int /\ nextId <= MaxMsg + 1 /\ MaxMsg \in Nat
          BY GroupKeysAssumption DEF BInv, Typed, Counted, Empty
    <3>2. Pending \in Nat /\ own + Pending <= nextId - 1
          BY PendingIs DEF BInv, Counted
    <3>3. own <= nextId - 1
      <4>1. \A a \in Int, p \in Nat, n \in Int : a + p <= n - 1 => a <= n - 1
            OBVIOUS
      <4>2. QED
            BY <3>1, <3>2, <4>1
    <3>4. QED
          BY <3>1, <3>3 DEF Empty
  <2>2. \A t \in Thread : job[t].at \in {"idle", "load", "store", "emit"}
    <3>1. \A j \in Job : j.at \in {"idle", "load", "store", "emit"}
          BY DEF Job, Plain, Reply
    <3>2. QED
          BY <3>1 DEF BInv, Typed
  <2>3. Len(sentQueue) <= QueueSize /\ Range(sentQueue) \subseteq Id
        BY DEF BInv, Queued, Range
  <2>4. asking \subseteq Id /\ asked \cup fetching \subseteq Receiver \X Id
        BY DEF BInv, Typed, Requested
  <2>5. \A r \in Receiver : \A i \in DOMAIN record[r] :
           record[r][i].next \in 0..MaxMsg /\ \A k \in record[r][i].saved : k < record[r][i].next
    <3> SUFFICES ASSUME NEW r \in Receiver, NEW i \in DOMAIN record[r]
                 PROVE  record[r][i].next \in 0..MaxMsg
                        /\ \A k \in record[r][i].saved : k < record[r][i].next
        OBVIOUS
    <3>1. record[r][i] \in KeyState
          BY DEF BInv, Records
    <3>2. QED
          BY <3>1 DEF KeyState
  <2>6. QED
        BY <2>1, <2>2, <2>3, <2>4, <2>5 DEF TypeOK
<1>2. QED
      BY <1>1, Bounded, PTL

\* As long as the application and the network thread are not in a send at once, no
\* key of the chain encrypts two messages, whatever is asked for again or lost.
THEOREM EachKeyOnce == Spec => KeysUsedOnce
<1>1. Init => OneKeyEach
  <2> SUFFICES ASSUME Init PROVE OneKeyEach
      OBVIOUS
  <2>1. \A r \in Receiver : DOMAIN network[r] = {}
        BY DEF Init
  <2>2. \A t \in Thread : job[t].at = "idle"
        BY DEF Init, Idle
  <2>3. QED
        BY <2>1, <2>2 DEF OneKeyEach
<1>2. BInv /\ OneKeyEach /\ Alone /\ Alone' /\ [Next]_vars => OneKeyEach'
      BY OneKeyEachStep DEF BInv
<1>3. OneKeyEach => ~SameKey
      BY DEF OneKeyEach, SameKey
<1>4. QED
      BY <1>1, <1>2, <1>3, Bounded, PTL DEF Spec, KeysUsedOnce

-----------------------------------------------------------------------------
(* Messages to contacts.                                                   *)

SentId == 1..MaxSent
Question ==
    [kind : {"devices"}, id : SentId]
        \cup [kind : {"keys"}, id : SentId, for : SUBSET Device, retry : BOOLEAN]
Report == [from : Device, id : SentId, retry : BOOLEAN]
Packet == [id : SentId, gen : Int]

\* What the argument needs of the variables' types.
CTyped ==
    /\ nextSent \in Nat \ {0} /\ queue \in Seq(SentId) /\ calls \in Seq(Question)
    /\ gen \in [Device -> Int] /\ inbox \in Seq(Report)
    /\ toDevice \in [Device -> Seq(Packet)] /\ pending \in [Device -> Seq(Packet)]

\* How often a message is in a sequence, of messages or of what names them.
Ids(q) == [i \in 1..Len(q) |-> q[i].id]
Times(q, id) == Cardinality({i \in 1..Len(q) : q[i] = id})

\* The queue has a copy of a message for all that may take one out: the receipts and requests
\* on their way, and those that the devices a and b will send when they get to it.
Unanswered(d, id) == Times(Ids(toDevice[d]), id) + Times(Ids(pending[d]), id)
Covered(a, b) ==
    \A id \in SentId :
        Times(Ids(inbox), id) + Unanswered(a, id) + Unanswered(b, id) <= Times(queue, id)

CInv(a, b) == CTyped /\ Covered(a, b) /\ RetryServed

\* There is room for the two copies of one more message.
HasRoom == Len(queue) + 2 <= Room

\* Of the natural numbers in a set one is the least.
LEMMA Least ==
    ASSUME NEW T \in SUBSET Nat, T # {}
    PROVE  \E x \in T : \A y \in T : x <= y
<1>1. IsWellFoundedOn(OpToRel(<, Nat), Nat)
      BY NatLessThanWellFounded
<1>2. PICK x \in T : \A y \in T : ~(<<y, x>> \in OpToRel(<, Nat))
      BY <1>1, WFMin
<1>3. \A y \in T : ~(y < x)
      BY <1>2 DEF OpToRel
<1>4. QED
      BY <1>3

\* The places of a message are finitely many.
LEMMA TimesIs ==
    ASSUME NEW S, NEW q \in Seq(S), NEW id
    PROVE  /\ IsFiniteSet({i \in 1..Len(q) : q[i] = id}) /\ Times(q, id) \in Nat
           /\ Times(q, id) = 0 <=> \A i \in 1..Len(q) : q[i] # id
<1> DEFINE P == {i \in 1..Len(q) : q[i] = id}
<1>1. IsFiniteSet(1..Len(q)) /\ P \in SUBSET (1..Len(q))
      BY FS_Interval
<1>2. IsFiniteSet(P)
      BY <1>1, FS_Subset
<1>3. Cardinality(P) \in Nat /\ (Cardinality(P) = 0 <=> P = {})
      BY <1>2, FS_CardinalityType, FS_EmptySet
<1>4. QED
      BY <1>2, <1>3 DEF Times

\* One more at the end of a sequence.
LEMMA TimesAppend ==
    ASSUME NEW S, NEW q \in Seq(S), NEW x \in S, NEW id
    PROVE  Times(Append(q, x), id) = Times(q, id) + IF x = id THEN 1 ELSE 0
<1> DEFINE P == {i \in 1..Len(q) : q[i] = id}
           new == Append(q, x)
           N == {i \in 1..Len(new) : new[i] = id}
<1>1. Len(new) = Len(q) + 1 /\ new[Len(q) + 1] = x /\ \A i \in 1..Len(q) : new[i] = q[i]
      OBVIOUS
<1>2. Times(q, id) = Cardinality(P) /\ Times(new, id) = Cardinality(N)
      BY DEF Times
<1>3. IsFiniteSet(P) /\ Cardinality(P) \in Nat
      BY <1>2, TimesIs
<1>4. Len(q) + 1 \notin P /\ N = IF x = id THEN P \cup {Len(q) + 1} ELSE P
      BY <1>1
<1> HIDE DEF P, N, new
<1>5. Cardinality(P \cup {Len(q) + 1}) = Cardinality(P) + 1
      BY <1>3, <1>4, FS_AddElement
<1>6. QED
      BY <1>2, <1>3, <1>4, <1>5 DEF new

\* One less, at a place k.
Without(new, q, k) ==
    Len(new) = Len(q) - 1 /\ \A i \in 1..Len(new) : new[i] = IF i < k THEN q[i] ELSE q[i + 1]

\* It was there or not.
LEMMA TimesRemove ==
    ASSUME NEW S, NEW q \in Seq(S), NEW k \in 1..Len(q), NEW id, NEW new \in Seq(S),
           Without(new, q, k)
    PROVE  Times(new, id) = Times(q, id) - IF q[k] = id THEN 1 ELSE 0
<1> DEFINE P == {i \in 1..Len(q) : q[i] = id}
           N == {i \in 1..Len(new) : new[i] = id}
           to == [i \in N |-> IF i < k THEN i ELSE i + 1]
<1>1. IsFiniteSet(N) /\ IsFiniteSet(P) /\ Cardinality(N) \in Nat /\ Cardinality(P) \in Nat
      BY TimesIs DEF Times
<1>2. \A i \in N : to[i] \in P \ {k}
      BY DEF Without
<1>3. \A i, j \in N : to[i] = to[j] => i = j
      OBVIOUS
<1>4. \A j \in P \ {k} : \E i \in N : to[i] = j
  <2> SUFFICES ASSUME NEW j \in P \ {k} PROVE \E i \in N : to[i] = j
      OBVIOUS
  <2>1. CASE j < k
    <3>1. j \in N /\ to[j] = j
          BY <2>1 DEF Without
    <3>2. QED
          BY <3>1
  <2>2. CASE j > k
    <3>1. j - 1 \in N /\ to[j - 1] = j
          BY <2>2 DEF Without
    <3>2. QED
          BY <3>1
  <2>3. j < k \/ j > k
        OBVIOUS
  <2> HIDE DEF N, P, to
  <2>4. QED
        BY <2>1, <2>2, <2>3
<1>5. to \in Bijection(N, P \ {k})
  <2>1. to \in [N -> P \ {k}]
        BY <1>2
  <2> HIDE DEF to, N, P
  <2>2. to \in Injection(N, P \ {k}) /\ to \in Surjection(N, P \ {k})
        BY <1>3, <1>4, <2>1 DEF Injection, IsInjective, Surjection
  <2>3. QED
        BY <2>2 DEF Bijection
<1>6. Cardinality(N) = Cardinality(P \ {k})
      BY <1>1, <1>5, FS_Bijection DEF ExistsBijection
<1>7. Cardinality(P \ {k}) = IF k \in P THEN Cardinality(P) - 1 ELSE Cardinality(P)
      BY <1>1, FS_RemoveElement
<1>8. QED
      BY <1>1, <1>6, <1>7 DEF Times

\* The first is taken off.
LEMMA TimesTail ==
    ASSUME NEW S, NEW q \in Seq(S), q # <<>>, NEW id
    PROVE  Times(q, id) = Times(Tail(q), id) + IF Head(q) = id THEN 1 ELSE 0
<1>1. /\ Tail(q) \in Seq(S) /\ Len(Tail(q)) = Len(q) - 1 /\ 1 \in 1..Len(q) /\ Head(q) = q[1]
      /\ \A i \in 1..Len(Tail(q)) : Tail(q)[i] = q[i + 1]
      OBVIOUS
<1>2. \A i \in 1..Len(Tail(q)) : Tail(q)[i] = IF i < 1 THEN q[i] ELSE q[i + 1]
      BY <1>1
<1>3. Times(Tail(q), id) = Times(q, id) - IF q[1] = id THEN 1 ELSE 0
  <2> DEFINE rest == Tail(q)
  <2>1. rest \in Seq(S) /\ Without(rest, q, 1)
        BY <1>1, <1>2 DEF Without
  <2> HIDE DEF rest
  <2>2. Times(rest, id) = Times(q, id) - IF q[1] = id THEN 1 ELSE 0
        BY <1>1, <2>1, TimesRemove
  <2>3. QED
        BY <2>2 DEF rest
<1>4. Times(q, id) \in Nat
      BY TimesIs
<1>5. QED
      BY <1>1, <1>3, <1>4

\* What names messages, as it grows and is taken off.
LEMMA IdsAre ==
    ASSUME NEW S, \A x \in S : x.id \in SentId, NEW q \in Seq(S)
    PROVE  /\ Ids(q) \in Seq(SentId) /\ Len(Ids(q)) = Len(q)
           /\ \A x \in S : Ids(Append(q, x)) = Append(Ids(q), x.id)
           /\ q # <<>> => Ids(Tail(q)) = Tail(Ids(q)) /\ Ids(q) # <<>> /\ Head(Ids(q)) = Head(q).id
<1>1. Ids(q) \in Seq(SentId) /\ Len(Ids(q)) = Len(q)
      BY DEF Ids
<1>2. ASSUME NEW x \in S PROVE Ids(Append(q, x)) = Append(Ids(q), x.id)
      BY <1>1 DEF Ids
<1>3. ASSUME q # <<>> PROVE Ids(Tail(q)) = Tail(Ids(q)) /\ Ids(q) # <<>> /\ Head(Ids(q)) = Head(q).id
      BY <1>1, <1>3 DEF Ids
<1>4. QED
      BY <1>1, <1>2, <1>3

\* Where the elements of a concatenation are.
LEMMA ConcatIs ==
    ASSUME NEW S, NEW p \in Seq(S), NEW q \in Seq(S)
    PROVE  /\ p \o q \in Seq(S) /\ Len(p \o q) = Len(p) + Len(q)
           /\ \A i \in 1..(Len(p) + Len(q)) :
                 (p \o q)[i] = IF i <= Len(p) THEN p[i] ELSE q[i - Len(p)]
OBVIOUS

\* Taking out the element at a place k.
LEMMA RemovedIs ==
    ASSUME NEW S, NEW q \in Seq(S), NEW k \in 1..Len(q)
    PROVE  LET new == SubSeq(q, 1, k - 1) \o SubSeq(q, k + 1, Len(q)) IN
           /\ new \in Seq(S)
           /\ \A id : Times(new, id) = Times(q, id) - IF q[k] = id THEN 1 ELSE 0
<1> DEFINE before == SubSeq(q, 1, k - 1)
           after == SubSeq(q, k + 1, Len(q))
           new == before \o after
<1>1. /\ before \in Seq(S) /\ Len(before) = k - 1 /\ \A i \in 1..(k - 1) : before[i] = q[i]
      /\ after \in Seq(S) /\ Len(after) = Len(q) - k /\ \A i \in 1..(Len(q) - k) : after[i] = q[i + k]
      OBVIOUS
<1> HIDE DEF before, after
<1>2. /\ new \in Seq(S) /\ Len(new) = Len(before) + Len(after)
      /\ \A i \in 1..(Len(before) + Len(after)) :
            new[i] = IF i <= Len(before) THEN before[i] ELSE after[i - Len(before)]
      BY <1>1, ConcatIs
<1> HIDE DEF new
<1>3. k \in Int /\ Len(q) \in Nat /\ 1 <= k /\ k <= Len(q) /\ Len(new) = Len(q) - 1
      BY <1>1, <1>2
<1>4. ASSUME NEW i \in 1..Len(new) PROVE new[i] = IF i < k THEN q[i] ELSE q[i + 1]
  <2>1. new[i] = IF i <= Len(before) THEN before[i] ELSE after[i - Len(before)]
        BY <1>1, <1>2, <1>3
  <2>2. CASE i < k
        BY <1>1, <1>3, <2>1, <2>2
  <2>3. CASE ~(i < k)
    <3>1. i - (k - 1) \in 1..(Len(q) - k) /\ i - (k - 1) + k = i + 1 /\ ~(i <= k - 1)
          BY <1>3, <2>3
    <3>2. QED
          BY <1>1, <2>1, <2>3, <3>1
  <2>4. QED
        BY <2>2, <2>3
<1>5. ASSUME NEW id PROVE Times(new, id) = Times(q, id) - IF q[k] = id THEN 1 ELSE 0
  <2>1. Without(new, q, k)
        BY <1>3, <1>4 DEF Without
  <2>2. new \in Seq(S)
        BY <1>2
  <2>3. QED
        BY <2>1, <2>2, TimesRemove
<1>6. QED
      BY <1>2, <1>5 DEF new, before, after

\* A copy is taken out of the queue: the first, if there is one.
LEMMA DequeuedIs ==
    ASSUME NEW q \in Seq(SentId), NEW m \in SentId
    PROVE  LET new == Contacts!Dequeued(q, m) IN
           /\ new \in Seq(SentId)
           /\ \A id \in SentId : Times(new, id) = Times(q, id) - IF id = m /\ Times(q, m) # 0 THEN 1 ELSE 0
<1> DEFINE new == Contacts!Dequeued(q, m)
           at == {i \in 1..Len(q) : q[i] = m}
<1>1. CASE at = {}
  <2>1. new = q
        BY <1>1 DEF Contacts!Dequeued, Contacts!Range
  <2>2. Times(q, m) = 0 /\ \A id \in SentId : Times(q, id) \in Nat
        BY <1>1, TimesIs
  <2>3. QED
        BY <2>1, <2>2
<1>2. CASE at # {}
  <2>1. PICK k \in at : k = Contacts!Min(at)
    <3>1. at \in SUBSET Nat
          OBVIOUS
    <3> HIDE DEF at
    <3>2. PICK x \in at : \A y \in at : x <= y
          BY <1>2, <3>1, Least
    <3>3. QED
          BY <3>2 DEF Contacts!Min
  <2>2. new = SubSeq(q, 1, k - 1) \o SubSeq(q, k + 1, Len(q))
    <3>1. m \in Contacts!Range(q) /\ \E i \in 1..Len(q) : q[i] = m
          BY <1>2 DEF Contacts!Range
    <3>2. Contacts!SelectInSeq(q, LAMBDA v : v = m) = k
          BY <1>2, <2>1 DEF Contacts!SelectInSeq
    <3>3. QED
          BY <3>1, <3>2 DEF Contacts!Dequeued, Contacts!RemoveFirst, Contacts!RemoveAt
  <2>3. k \in 1..Len(q) /\ q[k] = m
        OBVIOUS
  <2> HIDE DEF new, at
  <2>4. new \in Seq(SentId) /\ \A id : Times(new, id) = Times(q, id) - IF m = id THEN 1 ELSE 0
        BY <2>2, <2>3, RemovedIs
  <2>5. Times(q, m) # 0
        BY <2>3, TimesIs
  <2>6. QED
        BY <2>4, <2>5 DEF new
<1>3. QED
      BY <1>1, <1>2

\* Two copies are put in, and where there is room none is discarded.
LEMMA EnqueuedTwice ==
    ASSUME CTyped, HasRoom, NEW m \in SentId
    PROVE  LET new == Contacts!Enqueued(Contacts!Enqueued(queue, m), m) IN
           /\ new \in Seq(SentId)
           /\ \A id \in SentId : Times(new, id) = Times(queue, id) + IF id = m THEN 2 ELSE 0
<1> DEFINE one == Append(queue, m)
           two == Append(one, m)
<1>1. queue \in Seq(SentId) /\ Len(queue) + 2 <= Room /\ Room \in Nat
      BY ContactsAssumption DEF CTyped, HasRoom, Contacts!RetriesAssumption
<1>2. one \in Seq(SentId) /\ Len(one) = Len(queue) + 1 /\ two \in Seq(SentId)
      BY <1>1
<1>3. Contacts!Enqueued(queue, m) = one
      BY <1>1 DEF Contacts!Enqueued
<1>4. Contacts!Enqueued(one, m) = two
      BY <1>1, <1>2 DEF Contacts!Enqueued
<1>5. \A id \in SentId : Times(queue, id) \in Nat
      BY <1>1, TimesIs
<1>6. \A id \in SentId : Times(one, id) = Times(queue, id) + IF m = id THEN 1 ELSE 0
      BY <1>1, TimesAppend
<1>7. \A id \in SentId : Times(two, id) = Times(one, id) + IF m = id THEN 1 ELSE 0
  <2> HIDE DEF one
  <2>1. QED
        BY <1>2, TimesAppend
<1>8. QED
      BY <1>2, <1>3, <1>4, <1>5, <1>6, <1>7

\* What a device reports of a message, added to what was reported.
Reported(new, old, m) ==
    /\ "inbox" \in DOMAIN new
    /\ \E r \in Report : r.id = m.id /\ new.inbox = Append(old.inbox, r)

\* A message that was handled is answered once, whatever came of it.
LEMMA HandledIs ==
    ASSUME NEW s, "inbox" \in DOMAIN s, NEW d \in Device, NEW m \in Packet
    PROVE  Reported(Contacts!Handled(s, d, m), s, m)
<1> DEFINE Answers(new) == Reported(new, s, m)
<1>1. ASSUME NEW t, "inbox" \in DOMAIN t, t.inbox = s.inbox, NEW retry \in BOOLEAN
      PROVE  Answers(Contacts!Answered(t, d, m.id, retry))
  <2>1. [from |-> d, id |-> m.id, retry |-> retry] \in Report
        BY DEF Packet, Report
  <2>2. QED
        BY <1>1, <2>1 DEF Contacts!Answered, Reported
<1>2. Answers(Contacts!GivenUp(s, d, m.id))
  <2>1. LET t == [s EXCEPT !.gaveUp = @ \cup {<<d, m.id>>}] IN "inbox" \in DOMAIN t /\ t.inbox = s.inbox
        OBVIOUS
  <2> HIDE DEF Answers
  <2>2. QED
        BY <1>1, <2>1 DEF Contacts!GivenUp
<1>3. Answers(Contacts!Asked(s, d, m.id))
  <2>1. LET t == [s EXCEPT !.retries[d][m.id] = @ + 1] IN "inbox" \in DOMAIN t /\ t.inbox = s.inbox
        OBVIOUS
  <2> HIDE DEF Answers
  <2>2. QED
        BY <1>1, <1>2, <2>1 DEF Contacts!Asked
<1>4. LET t == [s EXCEPT !.got[d][m.id] = @ + 1, !.retries[d][m.id] = 0] IN
      "inbox" \in DOMAIN t /\ t.inbox = s.inbox
      OBVIOUS
<1>5. Answers(Contacts!Handled(s, d, m))
  <2> HIDE DEF Answers
  <2>1. QED
        BY <1>1, <1>2, <1>3, <1>4 DEF Contacts!Handled
<1>6. QED
      BY <1>5

\* The messages that waited are handled one after the other: the states that follow are a
\* function of how many were handled.
States(f, d, last) ==
    f = [n \in 0..last |-> IF n = 0 THEN Contacts!Here ELSE Contacts!Handled(f[n - 1], d, pending[d][n])]

\* There is such a function.
LEMMA StatesExist ==
    ASSUME CTyped, NEW d \in Device, NEW last \in Nat
    PROVE  \E f : States(f, d, last)
<1> DEFINE Missing == {n \in Nat : ~ \E f : States(f, d, n)}
<1>1. SUFFICES ASSUME Missing # {} PROVE FALSE
      OBVIOUS
<1>2. PICK x \in Missing : \A y \in Missing : x <= y
      BY <1>1, Least
<1>3. x # 0
  <2>1. States([n \in 0..0 |-> Contacts!Here], d, 0)
        BY DEF States
  <2>2. QED
        BY <2>1
<1>4. x - 1 \in Nat /\ x \in Nat /\ ~(x <= x - 1)
      BY <1>3
<1>5. PICK f : States(f, d, x - 1)
      BY <1>2, <1>4
<1> HIDE DEF Missing
<1>6. States([n \in 0..x |-> IF n = x THEN Contacts!Handled(f[n - 1], d, pending[d][n]) ELSE f[n]], d, x)
  <2> DEFINE g == [n \in 0..x |-> IF n = x THEN Contacts!Handled(f[n - 1], d, pending[d][n]) ELSE f[n]]
  <2>1. \A n \in 0..(x - 1) :
            f[n] = IF n = 0 THEN Contacts!Here ELSE Contacts!Handled(f[n - 1], d, pending[d][n])
        BY <1>5 DEF States
  <2>2. ASSUME NEW n \in 0..x
        PROVE  g[n] = IF n = 0 THEN Contacts!Here ELSE Contacts!Handled(g[n - 1], d, pending[d][n])
    <3>1. CASE n = x
      <4>1. g[n] = Contacts!Handled(f[n - 1], d, pending[d][n]) /\ g[n - 1] = f[n - 1]
            BY <1>3, <1>4, <3>1
      <4>2. QED
            BY <1>3, <3>1, <4>1
    <3>2. CASE n # x
      <4>1. n \in 0..(x - 1) /\ g[n] = f[n]
            BY <1>4, <3>2
      <4>2. CASE n = 0
            BY <2>1, <4>1, <4>2
      <4>3. CASE n # 0
        <5>1. g[n - 1] = f[n - 1]
              BY <1>4, <4>1, <4>3
        <5>2. QED
              BY <2>1, <4>1, <4>3, <5>1
      <4>4. QED
            BY <4>2, <4>3
    <3>3. QED
          BY <3>1, <3>2
  <2>3. g = [n \in 0..x |-> g[n]]
        OBVIOUS
  <2> HIDE DEF g
  <2>4. QED
        BY <2>2, <2>3 DEF States, g
<1>7. QED
      BY <1>2, <1>6 DEF Missing

\* The step has such a function.
LEMMA TakenUp ==
    ASSUME CTyped, NEW d \in Device, Contacts!OnSenderKeys(d)
    PROVE  \E f : States(f, d, Len(pending[d])) /\ Contacts!Becomes(f[Len(pending[d])])
<1> DEFINE after == CHOOSE f : States(f, d, Len(pending[d]))
<1>1. Len(pending[d]) \in Nat
      BY DEF CTyped
<1>2. \E f : States(f, d, Len(pending[d]))
      BY <1>1, StatesExist
<1>3. States(after, d, Len(pending[d]))
      BY <1>2
<1>4. Contacts!Becomes(after[Len(pending[d])])
      BY DEF Contacts!OnSenderKeys, States
<1>5. QED
      BY <1>3, <1>4

\* One more element at the beginning of a sequence.
LEMMA FirstsGrow ==
    ASSUME NEW S, NEW q \in Seq(S), NEW n \in 1..Len(q)
    PROVE  SubSeq(q, 1, n) = Append(SubSeq(q, 1, n - 1), q[n]) /\ SubSeq(q, 1, n - 1) \in Seq(S)
OBVIOUS

\* Each of them added one answer.
LEMMA AnsweredEach ==
    ASSUME CTyped, NEW d \in Device, NEW f, States(f, d, Len(pending[d]))
    PROVE  LET new == f[Len(pending[d])].inbox IN
           /\ new \in Seq(Report)
           /\ \A id \in SentId : Times(Ids(new), id) = Times(Ids(inbox), id) + Times(Ids(pending[d]), id)
<1> DEFINE p == pending[d]
           First(n) == SubSeq(p, 1, n)
           Good(n) == /\ "inbox" \in DOMAIN f[n] /\ f[n].inbox \in Seq(Report)
                      /\ \A id \in SentId : Times(Ids(f[n].inbox), id) = Times(Ids(inbox), id) + Times(Ids(First(n)), id)
           Wrong == {n \in Nat : n \in 0..Len(p) /\ ~Good(n)}
<1>1. /\ p \in Seq(Packet) /\ Len(p) \in Nat /\ inbox \in Seq(Report) /\ First(Len(p)) = p
      /\ First(0) = <<>>
      BY DEF CTyped
<1>2. \A n \in 0..Len(p) : f[n] = IF n = 0 THEN Contacts!Here ELSE Contacts!Handled(f[n - 1], d, p[n])
      BY DEF States
<1>3. Good(0)
  <2>1. f[0].inbox = inbox /\ "inbox" \in DOMAIN f[0]
        BY <1>1, <1>2 DEF Contacts!Here
  <2>2. ASSUME NEW id \in SentId PROVE Times(Ids(inbox), id) = Times(Ids(inbox), id) + Times(Ids(First(0)), id)
    <3>1. Times(Ids(First(0)), id) = 0
          BY <1>1, FS_EmptySet DEF Times, Ids
    <3>2. Times(Ids(inbox), id) \in Nat
          BY <1>1, IdsAre, TimesIs DEF Report
    <3>3. QED
          BY <3>1, <3>2
  <2>3. QED
        BY <1>1, <2>1, <2>2
<1>4. ASSUME NEW n \in 1..Len(p), Good(n - 1) PROVE Good(n)
  <2>1. /\ p[n] \in Packet /\ p[n].id \in SentId
        /\ First(n) = Append(First(n - 1), p[n]) /\ First(n - 1) \in Seq(Packet)
    <3>1. p[n] \in Packet
          BY <1>1
    <3>2. p[n].id \in SentId
          BY <3>1 DEF Packet
    <3> HIDE DEF p
    <3>3. QED
          BY <1>1, <3>1, <3>2, FirstsGrow
  <2>2. f[n] = Contacts!Handled(f[n - 1], d, p[n])
        BY <1>1, <1>2
  <2>3. PICK r \in Report : r.id = p[n].id /\ f[n].inbox = Append(f[n - 1].inbox, r)
    <3>1. Reported(f[n], f[n - 1], p[n])
          BY <1>4, <2>1, <2>2, HandledIs
    <3>2. QED
          BY <3>1 DEF Reported
  <2>4. "inbox" \in DOMAIN f[n]
    <3>1. Reported(f[n], f[n - 1], p[n])
          BY <1>4, <2>1, <2>2, HandledIs
    <3>2. QED
          BY <3>1 DEF Reported
  <2>5. f[n - 1].inbox \in Seq(Report)
        BY <1>4
  <2>6. \A x \in Report : x.id \in SentId
        BY DEF Report
  <2>7. \A x \in Packet : x.id \in SentId
        BY DEF Packet
  <2> DEFINE was == f[n - 1].inbox
             firsts == First(n - 1)
  <2>8. /\ \A id \in SentId : Times(Ids(was), id) = Times(Ids(inbox), id) + Times(Ids(firsts), id)
        /\ was \in Seq(Report) /\ firsts \in Seq(Packet)
        /\ f[n].inbox = Append(was, r) /\ First(n) = Append(firsts, p[n])
        BY <1>4, <2>1, <2>3, <2>5
  <2> HIDE DEF was, firsts
  <2>9. Ids(Append(was, r)) = Append(Ids(was), r.id) /\ Ids(was) \in Seq(SentId)
        BY <2>6, <2>8, IdsAre
  <2>10. Ids(Append(firsts, p[n])) = Append(Ids(firsts), p[n].id) /\ Ids(firsts) \in Seq(SentId)
        BY <2>1, <2>7, <2>8, IdsAre
  <2>11. ASSUME NEW id \in SentId
         PROVE  Times(Ids(f[n].inbox), id) = Times(Ids(inbox), id) + Times(Ids(First(n)), id)
    <3>1. Times(Append(Ids(was), r.id), id) = Times(Ids(was), id) + IF r.id = id THEN 1 ELSE 0
          BY <2>1, <2>3, <2>9, TimesAppend
    <3>2. Times(Append(Ids(firsts), p[n].id), id) = Times(Ids(firsts), id) + IF p[n].id = id THEN 1 ELSE 0
          BY <2>1, <2>10, TimesAppend
    <3>3. Ids(inbox) \in Seq(SentId)
          BY <1>1, <2>6, IdsAre
    <3>4. Times(Ids(inbox), id) \in Nat /\ Times(Ids(firsts), id) \in Nat
          BY <2>10, <3>3, TimesIs
    <3>5. Times(Ids(was), id) = Times(Ids(inbox), id) + Times(Ids(firsts), id)
          BY <2>8
    <3>6. /\ Times(Ids(f[n].inbox), id) = Times(Ids(was), id) + IF p[n].id = id THEN 1 ELSE 0
          /\ Times(Ids(First(n)), id) = Times(Ids(firsts), id) + IF p[n].id = id THEN 1 ELSE 0
          BY <2>3, <2>8, <2>9, <2>10, <3>1, <3>2
    <3>7. QED
          BY <3>4, <3>5, <3>6
  <2>12. f[n].inbox \in Seq(Report)
         BY <2>8
  <2>13. QED
         BY <2>4, <2>11, <2>12
<1> HIDE DEF Good, First
<1>5. Wrong = {}
  <2>1. SUFFICES ASSUME Wrong # {} PROVE FALSE
        OBVIOUS
  <2>2. PICK x \in Wrong : \A y \in Wrong : x <= y
        BY <2>1, Least
  <2>3. x # 0 /\ x \in 1..Len(p) /\ x - 1 \in Nat /\ x - 1 \in 0..Len(p) /\ ~(x <= x - 1)
        BY <1>1, <1>3
  <2>4. Good(x - 1)
        BY <2>2, <2>3
  <2>5. Good(x)
        BY <1>4, <2>3, <2>4
  <2>6. QED
        BY <2>5
<1>6. Good(Len(p))
      BY <1>1, <1>5
<1>7. QED
      BY <1>1, <1>6 DEF Good

\* The counts are natural numbers.
LEMMA CountsAre ==
    ASSUME CTyped, NEW id \in SentId, NEW d \in Device
    PROVE  /\ Times(Ids(inbox), id) \in Nat /\ Times(queue, id) \in Nat
           /\ Times(Ids(toDevice[d]), id) \in Nat /\ Times(Ids(pending[d]), id) \in Nat
           /\ Unanswered(d, id) \in Nat
<1>1. inbox \in Seq(Report) /\ queue \in Seq(SentId) /\ toDevice[d] \in Seq(Packet) /\ pending[d] \in Seq(Packet)
      BY DEF CTyped
<1>2. (\A x \in Report : x.id \in SentId) /\ (\A x \in Packet : x.id \in SentId)
      BY DEF Report, Packet
<1>3. Ids(inbox) \in Seq(SentId) /\ Ids(toDevice[d]) \in Seq(SentId) /\ Ids(pending[d]) \in Seq(SentId)
      BY <1>1, <1>2, IdsAre
<1>4. /\ Times(Ids(inbox), id) \in Nat /\ Times(queue, id) \in Nat
      /\ Times(Ids(toDevice[d]), id) \in Nat /\ Times(Ids(pending[d]), id) \in Nat
      BY <1>1, <1>3, TimesIs
<1>5. QED
      BY <1>4 DEF Unanswered

\* What is taken off is an element, and the others stay.
LEMMA HeadTail ==
    ASSUME NEW S, NEW q \in Seq(S), q # <<>>
    PROVE  Head(q) \in S /\ Tail(q) \in Seq(S)
OBVIOUS

\* A report that is taken up, and one that is made.
LEMMA InboxTail ==
    ASSUME CTyped, inbox # <<>>, NEW id \in SentId
    PROVE  /\ Head(inbox) \in Report /\ Tail(inbox) \in Seq(Report)
           /\ Times(Ids(inbox), id) = Times(Ids(Tail(inbox)), id) + IF Head(inbox).id = id THEN 1 ELSE 0
<1>1. /\ inbox \in Seq(Report) /\ Head(inbox) \in Report /\ Tail(inbox) \in Seq(Report)
      /\ \A x \in Report : x.id \in SentId
  <2>1. inbox \in Seq(Report)
        BY DEF CTyped
  <2>2. \A x \in Report : x.id \in SentId
        BY DEF Report
  <2>3. QED
        BY <2>1, <2>2, HeadTail
<1>2. Ids(inbox) \in Seq(SentId) /\ Ids(Tail(inbox)) = Tail(Ids(inbox)) /\ Ids(inbox) # <<>> /\ Head(Ids(inbox)) = Head(inbox).id
      BY <1>1, IdsAre
<1>3. QED
      BY <1>1, <1>2, TimesTail

\* A message that is taken in from the network.
LEMMA NetworkTail ==
    ASSUME CTyped, NEW d \in Device, toDevice[d] # <<>>, NEW id \in SentId
    PROVE  /\ Head(toDevice[d]) \in Packet /\ Tail(toDevice[d]) \in Seq(Packet)
           /\ Times(Ids(toDevice[d]), id)
                = Times(Ids(Tail(toDevice[d])), id) + IF Head(toDevice[d]).id = id THEN 1 ELSE 0
<1> DEFINE q == toDevice[d]
<1>1. /\ q \in Seq(Packet) /\ Head(q) \in Packet /\ Tail(q) \in Seq(Packet)
      /\ \A x \in Packet : x.id \in SentId
  <2>1. q \in Seq(Packet)
        BY DEF CTyped
  <2>2. \A x \in Packet : x.id \in SentId
        BY DEF Packet
  <2> HIDE DEF q
  <2>3. q # <<>>
        BY DEF q
  <2>4. QED
        BY <2>1, <2>2, <2>3, HeadTail
<1> HIDE DEF q
<1>2. q # <<>>
      BY DEF q
<1>3. Ids(q) \in Seq(SentId) /\ Ids(Tail(q)) = Tail(Ids(q)) /\ Ids(q) # <<>> /\ Head(Ids(q)) = Head(q).id
      BY <1>1, <1>2, IdsAre
<1>4. Times(Ids(q), id) = Times(Tail(Ids(q)), id) + IF Head(Ids(q)) = id THEN 1 ELSE 0
      BY <1>3, TimesTail
<1>5. QED
      BY <1>1, <1>3, <1>4 DEF q

\* One more of them at the end.
LEMMA PacketAppend ==
    ASSUME NEW q \in Seq(Packet), NEW m \in Packet, NEW id \in SentId
    PROVE  /\ Append(q, m) \in Seq(Packet)
           /\ Times(Ids(Append(q, m)), id) = Times(Ids(q), id) + IF m.id = id THEN 1 ELSE 0
<1>1. (\A x \in Packet : x.id \in SentId) /\ m.id \in SentId /\ Append(q, m) \in Seq(Packet)
      BY DEF Packet
<1>2. Ids(q) \in Seq(SentId) /\ Ids(Append(q, m)) = Append(Ids(q), m.id)
      BY <1>1, IdsAre
<1>3. QED
      BY <1>1, <1>2, TimesAppend

\* The questions that are left when one is answered.
LEMMA QuestionsLeft ==
    ASSUME CTyped, NEW i \in DOMAIN calls
    PROVE  /\ calls[i] \in Question /\ calls[i].id \in SentId
           /\ Contacts!RemoveAt(calls, i) \in Seq(Question)
<1>1. calls \in Seq(Question) /\ i \in 1..Len(calls) /\ calls[i] \in Question
      BY DEF CTyped
<1>2. Contacts!RemoveAt(calls, i) = SubSeq(calls, 1, i - 1) \o SubSeq(calls, i + 1, Len(calls))
      BY DEF Contacts!RemoveAt
<1>3. SubSeq(calls, 1, i - 1) \o SubSeq(calls, i + 1, Len(calls)) \in Seq(Question)
      BY <1>1, RemovedIs
<1>4. calls[i].id \in SentId
      BY <1>1 DEF Question
<1>5. QED
      BY <1>1, <1>2, <1>3, <1>4

\* Send asks for the devices, and queues nothing yet.
LEMMA SendKeeps ==
    ASSUME NEW a \in Device, NEW b \in Device, CInv(a, b), Contacts!Send
    PROVE  CInv(a, b)'
<1>1. CTyped /\ nextSent \in SentId
  <2>1. nextSent \in Nat \ {0} /\ nextSent <= MaxSent /\ MaxSent \in Nat
        BY ContactsAssumption DEF CInv, CTyped, Contacts!Send, Contacts!RetriesAssumption
  <2>2. QED
        BY <2>1 DEF CInv, SentId
<1>2. Contacts!Devices(nextSent) \in Question
      BY <1>1 DEF Contacts!Devices, Question
<1>3. CTyped'
      BY <1>1, <1>2 DEF CTyped, Contacts!Send, Contacts!device
<1>4. Covered(a, b)' /\ RetryServed'
      BY DEF CInv, Covered, Unanswered, RetryServed, Contacts!RetryServed, Contacts!Send, Contacts!device
<1>5. QED
      BY <1>3, <1>4 DEF CInv

\* SendToContacts sends one copy to each device, and queues two.
LEMMA SendToContactsKeeps ==
    ASSUME NEW a \in Device, NEW b \in Device, CInv(a, b), HasRoom,
           NEW m \in SentId, NEW g \in [Device -> Int], Contacts!SendToContacts(m, g),
           calls' \in Seq(Question), gen' \in [Device -> Int],
           UNCHANGED <<nextSent, inbox, ignored, pending>>
    PROVE  CInv(a, b)'
<1> DEFINE Copy(d) == [id |-> m, gen |-> g[d]]
<1>1. CTyped
      BY DEF CInv
<1>2. /\ toDevice' = [d \in Device |-> Append(toDevice[d], Copy(d))]
      /\ queue' = Contacts!Enqueued(Contacts!Enqueued(queue, m), m)
      /\ UNCHANGED <<nextSent, inbox, ignored, pending>>
      BY DEF Contacts!SendToContacts
<1>3. queue' \in Seq(SentId) /\ \A id \in SentId : Times(queue', id) = Times(queue, id) + IF id = m THEN 2 ELSE 0
      BY <1>1, <1>2, EnqueuedTwice
<1>4. ASSUME NEW d \in Device
      PROVE  /\ toDevice'[d] \in Seq(Packet)
             /\ \A id \in SentId : Times(Ids(toDevice'[d]), id)
                    = Times(Ids(toDevice[d]), id) + IF id = m THEN 1 ELSE 0
  <2>1. toDevice[d] \in Seq(Packet) /\ Copy(d) \in Packet /\ Copy(d).id = m
        BY <1>1 DEF CTyped, Packet
  <2>2. toDevice'[d] = Append(toDevice[d], Copy(d))
        BY <1>2
  <2> HIDE DEF Copy
  <2>3. QED
        BY <2>1, <2>2, PacketAppend
<1>5. CTyped'
  <2>1. toDevice' \in [Device -> Seq(Packet)]
        BY <1>2, <1>4
  <2>2. QED
        BY <1>1, <1>2, <1>3, <2>1 DEF CTyped
<1>6. ASSUME NEW id \in SentId
      PROVE  (Times(Ids(inbox), id) + Unanswered(a, id) + Unanswered(b, id) <= Times(queue, id))'
  <2>1. /\ Unanswered(a, id)' = Unanswered(a, id) + IF id = m THEN 1 ELSE 0
        /\ Unanswered(b, id)' = Unanswered(b, id) + IF id = m THEN 1 ELSE 0
    <3>1. pending' = pending
          BY <1>2
    <3>2. ASSUME NEW d \in Device
          PROVE  Unanswered(d, id)' = Unanswered(d, id) + IF id = m THEN 1 ELSE 0
      <4>1. Unanswered(d, id)' = Times(Ids(toDevice'[d]), id) + Times(Ids(pending[d]), id)
            BY <3>1 DEF Unanswered, Ids
      <4>2. Unanswered(d, id) = Times(Ids(toDevice[d]), id) + Times(Ids(pending[d]), id)
            BY DEF Unanswered
      <4>3. Times(Ids(toDevice'[d]), id) = Times(Ids(toDevice[d]), id) + IF id = m THEN 1 ELSE 0
            BY <1>4
      <4>4. Times(Ids(toDevice[d]), id) \in Nat /\ Times(Ids(pending[d]), id) \in Nat
            BY <1>1, CountsAre
      <4>5. QED
            BY <4>1, <4>2, <4>3, <4>4
    <3>3. QED
          BY <3>2
  <2>2. Times(Ids(inbox), id) + Unanswered(a, id) + Unanswered(b, id) <= Times(queue, id)
        BY DEF CInv, Covered
  <2>3. Times(Ids(inbox)', id) = Times(Ids(inbox), id)
        BY <1>2 DEF Ids
  <2>4. Times(queue', id) = Times(queue, id) + IF id = m THEN 2 ELSE 0
        BY <1>3
  <2>5. /\ Times(Ids(inbox), id) \in Nat /\ Times(queue, id) \in Nat
        /\ Unanswered(a, id) \in Nat /\ Unanswered(b, id) \in Nat
        BY <1>1, CountsAre
  <2>6. QED
        BY <2>1, <2>2, <2>3, <2>4, <2>5
<1>7. Covered(a, b)'
      BY <1>6 DEF Covered, SentId
<1>8. QED
      BY <1>2, <1>5, <1>7 DEF CInv, RetryServed, Contacts!RetryServed

\* A step that leaves the messages, the queue and what was ignored alone.
LEMMA OnlyAsks ==
    ASSUME NEW a \in Device, NEW b \in Device, CInv(a, b),
           calls' \in Seq(Question), gen' \in [Device -> Int],
           UNCHANGED <<nextSent, queue, ignored, inbox, toDevice, pending>>
    PROVE  CInv(a, b)'
<1>1. CTyped'
      BY DEF CInv, CTyped
<1>2. Covered(a, b)' /\ RetryServed'
      BY DEF CInv, Covered, Unanswered, RetryServed, Contacts!RetryServed
<1>3. QED
      BY <1>1, <1>2 DEF CInv

\* OnDevices sends the message, or asks for keys first.
LEMMA OnDevicesKeeps ==
    ASSUME NEW a \in Device, NEW b \in Device, CInv(a, b), HasRoom,
           NEW i \in DOMAIN calls, Contacts!OnDevices(i)
    PROVE  CInv(a, b)'
<1> DEFINE missing == {d \in Device : gen[d] = Contacts!None}
           m == calls[i].id
           question == Contacts!Keys(m, missing, FALSE)
<1>1. m \in SentId /\ Contacts!RemoveAt(calls, i) \in Seq(Question) /\ gen \in [Device -> Int]
      BY QuestionsLeft DEF CInv, CTyped
<1>2. gen' \in [Device -> Int] /\ UNCHANGED <<nextSent, gen, inbox, ignored, pending>>
      BY <1>1 DEF Contacts!OnDevices, Contacts!device
<1>3. CASE missing = {}
  <2>1. Contacts!SendToContacts(m, gen) /\ calls' = Contacts!RemoveAt(calls, i)
        BY <1>3 DEF Contacts!OnDevices
  <2> HIDE DEF m
  <2>2. QED
        BY <1>1, <1>2, <2>1, SendToContactsKeeps
<1>4. CASE missing # {}
  <2>1. /\ calls' = Append(Contacts!RemoveAt(calls, i), question)
        /\ UNCHANGED <<queue, toDevice>>
        BY <1>4 DEF Contacts!OnDevices
  <2>2. question \in Question
        BY <1>1 DEF Contacts!Keys, Question
  <2> HIDE DEF question, m, missing
  <2>3. calls' \in Seq(Question)
        BY <1>1, <2>1, <2>2
  <2>4. QED
        BY <1>2, <2>1, <2>3, OnlyAsks
<1>5. QED
      BY <1>3, <1>4

\* An error only takes the question out.
LEMMA OnDevicesErrorKeeps ==
    ASSUME NEW a \in Device, NEW b \in Device, CInv(a, b),
           NEW i \in DOMAIN calls, Contacts!OnDevicesError(i)
    PROVE  CInv(a, b)'
<1>1. calls' \in Seq(Question) /\ gen' \in [Device -> Int]
      BY QuestionsLeft DEF CInv, CTyped, Contacts!OnDevicesError
<1>2. UNCHANGED <<nextSent, queue, ignored, inbox, toDevice, pending>>
      BY DEF Contacts!OnDevicesError, Contacts!device
<1>3. QED
      BY <1>1, <1>2, OnlyAsks

\* Keys that come count the sessions on.
LEMMA NewSessionsTyped ==
    ASSUME CTyped, NEW o, Contacts!NewSessions(o)
    PROVE  gen' \in [Device -> Int]
<1>1. gen \in [Device -> Int]
      BY DEF CTyped
<1>2. gen' = [d \in Device |-> IF d \notin DOMAIN o THEN gen[d]
                              ELSE IF gen[d] = Contacts!None THEN 1 ELSE gen[d] + 1]
      BY DEF Contacts!NewSessions
<1>3. QED
      BY <1>1, <1>2

\* OnKeys sends the message, or asks for the devices once more.
LEMMA OnKeysKeeps ==
    ASSUME NEW a \in Device, NEW b \in Device, CInv(a, b), HasRoom,
           NEW i \in DOMAIN calls, NEW o, Contacts!OnKeys(i, o)
    PROVE  CInv(a, b)'
<1> DEFINE m == calls[i].id
<1>1. CTyped /\ m \in SentId /\ Contacts!RemoveAt(calls, i) \in Seq(Question)
      BY QuestionsLeft DEF CInv
<1>2. Contacts!NewSessions(o) /\ UNCHANGED <<nextSent, ignored, inbox, pending>>
      BY DEF Contacts!OnKeys, Contacts!device
<1>3. gen' \in [Device -> Int]
      BY <1>1, <1>2, NewSessionsTyped
<1>4. CASE calls[i].retry
  <2>1. /\ calls' = Append(Contacts!RemoveAt(calls, i), Contacts!Devices(m))
        /\ UNCHANGED <<queue, toDevice>>
        BY <1>4 DEF Contacts!OnKeys
  <2>2. Contacts!Devices(m) \in Question
        BY <1>1 DEF Contacts!Devices, Question
  <2>3. calls' \in Seq(Question)
        BY <1>1, <2>1, <2>2
  <2>4. QED
        BY <1>2, <1>3, <2>1, <2>3, OnlyAsks
<1>5. CASE ~calls[i].retry
  <2>1. Contacts!SendToContacts(m, gen') /\ calls' = Contacts!RemoveAt(calls, i)
        BY <1>5 DEF Contacts!OnKeys
  <2> HIDE DEF m
  <2>2. QED
        BY <1>1, <1>2, <1>3, <2>1, SendToContactsKeeps
<1>6. QED
      BY <1>4, <1>5

\* An error for one of them leaves the sessions of the others.
LEMMA OnKeysErrorKeeps ==
    ASSUME NEW a \in Device, NEW b \in Device, CInv(a, b),
           NEW i \in DOMAIN calls, NEW o, Contacts!OnKeysError(i, o)
    PROVE  CInv(a, b)'
<1>1. CTyped /\ calls' \in Seq(Question) /\ Contacts!NewSessions(o)
      BY QuestionsLeft DEF CInv, Contacts!OnKeysError
<1>2. gen' \in [Device -> Int]
      BY <1>1, NewSessionsTyped
<1>3. UNCHANGED <<nextSent, queue, ignored, inbox, toDevice, pending>>
      BY DEF Contacts!OnKeysError, Contacts!device
<1>4. QED
      BY <1>1, <1>2, <1>3, OnlyAsks

\* A report that is taken up takes out one copy, which was there for it.
LEMMA ReportTakesOne ==
    ASSUME NEW a \in Device, NEW b \in Device, CInv(a, b), inbox # <<>>, inbox' = Tail(inbox),
           queue' = Contacts!Dequeued(queue, Head(inbox).id), UNCHANGED <<toDevice, pending>>
    PROVE  /\ inbox' \in Seq(Report) /\ queue' \in Seq(SentId) /\ Head(inbox) \in Report
           /\ Head(inbox).id \in Contacts!Range(queue) /\ Covered(a, b)'
<1> DEFINE m == Head(inbox).id
<1>1. CTyped /\ Head(inbox) \in Report /\ inbox' \in Seq(Report)
  <2>1. CTyped
        BY DEF CInv
  <2>2. inbox \in Seq(Report)
        BY <2>1 DEF CTyped
  <2>3. QED
        BY <2>1, <2>2, HeadTail
<1>2. m \in SentId
      BY <1>1 DEF Report
<1> HIDE DEF m
<1>3. /\ queue' \in Seq(SentId)
      /\ \A id \in SentId : Times(queue', id) = Times(queue, id) - IF id = m /\ Times(queue, m) # 0 THEN 1 ELSE 0
  <2>1. queue \in Seq(SentId) /\ queue' = Contacts!Dequeued(queue, m)
        BY <1>1 DEF CTyped, m
  <2>2. /\ Contacts!Dequeued(queue, m) \in Seq(SentId)
        /\ \A id \in SentId : Times(Contacts!Dequeued(queue, m), id)
               = Times(queue, id) - IF id = m /\ Times(queue, m) # 0 THEN 1 ELSE 0
        BY <1>2, <2>1, DequeuedIs
  <2>3. QED
        BY <2>1, <2>2
<1>4. ASSUME NEW id \in SentId
      PROVE  /\ (Times(Ids(inbox), id) + Unanswered(a, id) + Unanswered(b, id) <= Times(queue, id))'
             /\ id = m => Times(queue, id) # 0
  <2>1. Times(Ids(inbox), id) + Unanswered(a, id) + Unanswered(b, id) <= Times(queue, id)
        BY DEF CInv, Covered
  <2>2. Times(Ids(inbox), id) = Times(Ids(inbox'), id) + IF m = id THEN 1 ELSE 0
        BY <1>1, InboxTail DEF m
  <2>3. /\ Times(Ids(inbox), id) \in Nat /\ Times(queue, id) \in Nat
        /\ Unanswered(a, id) \in Nat /\ Unanswered(b, id) \in Nat
        BY <1>1, CountsAre
  <2>4. Times(Ids(inbox'), id) \in Nat
    <3>1. \A x \in Report : x.id \in SentId
          BY DEF Report
    <3>2. Ids(inbox') \in Seq(SentId)
          BY <1>1, <3>1, IdsAre
    <3>3. QED
          BY <3>2, TimesIs
  <2>5. Unanswered(a, id)' = Unanswered(a, id) /\ Unanswered(b, id)' = Unanswered(b, id)
        BY DEF Unanswered
  <2>6. Times(queue', id) = Times(queue, id) - IF id = m /\ Times(queue, m) # 0 THEN 1 ELSE 0
        BY <1>3
  <2>7. Times(Ids(inbox)', id) = Times(Ids(inbox'), id)
        OBVIOUS
  <2>8. CASE id = m
    <3>1. Times(queue, id) # 0 /\ Times(queue, m) # 0
          BY <2>1, <2>2, <2>3, <2>4, <2>8
    <3>2. QED
          BY <2>1, <2>2, <2>3, <2>4, <2>5, <2>6, <2>7, <2>8, <3>1
  <2>9. CASE id # m
        BY <2>1, <2>2, <2>3, <2>4, <2>5, <2>6, <2>7, <2>9
  <2>10. QED
         BY <2>8, <2>9
<1>5. Covered(a, b)'
      BY <1>4 DEF Covered, SentId
<1>6. m \in Contacts!Range(queue)
  <2>1. Times(queue, m) # 0 /\ queue \in Seq(SentId)
        BY <1>1, <1>2, <1>4 DEF CTyped
  <2>2. \E i \in 1..Len(queue) : queue[i] = m
        BY <2>1, TimesIs
  <2>3. QED
        BY <2>1, <2>2 DEF Contacts!Range
<1>7. QED
      BY <1>1, <1>3, <1>5, <1>6 DEF m

\* OnReceipt takes out a copy.
LEMMA OnReceiptKeeps ==
    ASSUME NEW a \in Device, NEW b \in Device, CInv(a, b), Contacts!OnReceipt
    PROVE  CInv(a, b)'
<1>1. /\ inbox # <<>> /\ inbox' = Tail(inbox) /\ queue' = Contacts!Dequeued(queue, Head(inbox).id)
      /\ UNCHANGED <<nextSent, calls, gen, ignored, toDevice, pending>>
      BY DEF Contacts!OnReceipt, Contacts!device
<1>2. inbox' \in Seq(Report) /\ queue' \in Seq(SentId) /\ Covered(a, b)'
      BY <1>1, ReportTakesOne
<1>3. CTyped'
      BY <1>1, <1>2 DEF CInv, CTyped
<1>4. QED
      BY <1>1, <1>2, <1>3 DEF CInv, RetryServed, Contacts!RetryServed

\* OnRetry finds a copy, and asks for the keys of the device.
LEMMA OnRetryKeeps ==
    ASSUME NEW a \in Device, NEW b \in Device, CInv(a, b), Contacts!OnRetry
    PROVE  CInv(a, b)'
<1> DEFINE r == Head(inbox)
           question == Contacts!Keys(r.id, {r.from}, TRUE)
<1>1. /\ inbox # <<>> /\ inbox' = Tail(inbox) /\ queue' = Contacts!Dequeued(queue, Head(inbox).id)
      /\ UNCHANGED <<nextSent, gen, toDevice, pending>>
      BY DEF Contacts!OnRetry, Contacts!device
<1>2. /\ inbox' \in Seq(Report) /\ queue' \in Seq(SentId) /\ r \in Report
      /\ r.id \in Contacts!Range(queue) /\ Covered(a, b)'
      BY <1>1, ReportTakesOne
<1>3. calls' = Append(calls, question) /\ ignored' = ignored
      BY <1>2 DEF Contacts!OnRetry
<1> HIDE DEF r
<1>4. question \in Question
      BY <1>2 DEF Contacts!Keys, Question, Report
<1> HIDE DEF question
<1>5. calls' \in Seq(Question)
      BY <1>3, <1>4 DEF CInv, CTyped
<1>6. CTyped'
      BY <1>1, <1>2, <1>5 DEF CInv, CTyped
<1>7. QED
      BY <1>2, <1>3, <1>6 DEF CInv, RetryServed, Contacts!RetryServed

\* A device reports some of what it owed, k times a message.
LEMMA DeviceReports ==
    ASSUME NEW a \in Device, NEW b \in Device, CInv(a, b), NEW d \in Device, queue' = queue,
           \A id \in SentId : \E k \in Nat :
               /\ Times(Ids(inbox)', id) = Times(Ids(inbox), id) + k
               /\ Unanswered(d, id)' = Unanswered(d, id) - k,
           \A c \in Device, id \in SentId : c # d => Unanswered(c, id)' = Unanswered(c, id),
           d \in {a, b}
    PROVE  Covered(a, b)'
<1>1. ASSUME NEW id \in SentId
      PROVE  (Times(Ids(inbox), id) + Unanswered(a, id) + Unanswered(b, id) <= Times(queue, id))'
  <2>1. Times(Ids(inbox), id) + Unanswered(a, id) + Unanswered(b, id) <= Times(queue, id)
        BY DEF CInv, Covered
  <2>2. PICK k \in Nat :
               /\ Times(Ids(inbox)', id) = Times(Ids(inbox), id) + k
               /\ Unanswered(d, id)' = Unanswered(d, id) - k
        OBVIOUS
  <2>3. /\ Times(Ids(inbox), id) \in Nat /\ Times(queue, id) \in Nat
        /\ Unanswered(a, id) \in Nat /\ Unanswered(b, id) \in Nat
        BY CountsAre DEF CInv
  <2>4. /\ a # d => Unanswered(a, id)' = Unanswered(a, id)
        /\ b # d => Unanswered(b, id)' = Unanswered(b, id)
        OBVIOUS
  <2>5. /\ Unanswered(a, id)' + Unanswered(b, id)' <= Unanswered(a, id) + Unanswered(b, id) - k
    <3>1. CASE a = d /\ b = d
          BY <2>2, <2>3, <3>1
    <3>2. CASE a = d /\ b # d
          BY <2>2, <2>3, <2>4, <3>2
    <3>3. CASE a # d /\ b = d
          BY <2>2, <2>3, <2>4, <3>3
    <3>4. QED
          BY <3>1, <3>2, <3>3
  <2>6. Unanswered(a, id)' \in Int /\ Unanswered(b, id)' \in Int
        BY <2>2, <2>3, <2>4
  <2>7. QED
        BY <2>1, <2>2, <2>3, <2>5, <2>6
<1>2. QED
      BY <1>1 DEF Covered, SentId

\* Receive answers a message at once.
LEMMA ReceiveKeeps ==
    ASSUME NEW a \in Device, NEW b \in Device, CInv(a, b), NEW d \in {a, b}, Contacts!Receive(d)
    PROVE  CInv(a, b)'
<1> DEFINE m == Head(toDevice[d])
<1>1. /\ d \in Device /\ CTyped /\ toDevice[d] # <<>> /\ toDevice' = [toDevice EXCEPT ![d] = Tail(@)]
      /\ inbox' = Contacts!Handled(Contacts!Here, d, m).inbox
      /\ UNCHANGED <<nextSent, queue, calls, gen, ignored, pending>>
      BY DEF CInv, Contacts!Receive, Contacts!Becomes, Contacts!sender
<1>2. toDevice \in [Device -> Seq(Packet)] /\ m \in Packet /\ Tail(toDevice[d]) \in Seq(Packet)
  <2>1. toDevice \in [Device -> Seq(Packet)] /\ toDevice[d] \in Seq(Packet)
        BY <1>1 DEF CTyped
  <2>2. QED
        BY <1>1, <2>1, HeadTail
<1>3. toDevice' \in [Device -> Seq(Packet)] /\ toDevice'[d] = Tail(toDevice[d])
      /\ \A c \in Device : c # d => toDevice'[c] = toDevice[c]
      BY <1>1, <1>2
<1>4. PICK r \in Report : r.id = m.id /\ inbox' = Append(inbox, r)
  <2>1. "inbox" \in DOMAIN Contacts!Here /\ Contacts!Here.inbox = inbox
        BY DEF Contacts!Here
  <2>2. Reported(Contacts!Handled(Contacts!Here, d, m), Contacts!Here, m)
        BY <1>1, <1>2, <2>1, HandledIs
  <2>3. QED
        BY <1>1, <2>1, <2>2 DEF Reported
<1>5. CTyped'
  <2>1. inbox' \in Seq(Report)
    <3>1. inbox \in Seq(Report)
          BY <1>1 DEF CTyped
    <3>2. QED
          BY <1>4, <3>1
  <2>2. QED
        BY <1>1, <1>3, <2>1 DEF CTyped
<1>6. ASSUME NEW id \in SentId
      PROVE  \E k \in Nat :
                 /\ Times(Ids(inbox)', id) = Times(Ids(inbox), id) + k
                 /\ Unanswered(d, id)' = Unanswered(d, id) - k
  <2>1. Times(Ids(inbox)', id) = Times(Ids(inbox), id) + IF m.id = id THEN 1 ELSE 0
    <3>1. (\A x \in Report : x.id \in SentId) /\ inbox \in Seq(Report)
          BY <1>1 DEF Report, CTyped
    <3>2. Ids(inbox) \in Seq(SentId) /\ Ids(Append(inbox, r)) = Append(Ids(inbox), r.id) /\ r.id \in SentId
          BY <3>1, IdsAre
    <3>3. Times(Append(Ids(inbox), r.id), id) = Times(Ids(inbox), id) + IF r.id = id THEN 1 ELSE 0
          BY <3>2, TimesAppend
    <3>4. QED
          BY <1>4, <3>2, <3>3
  <2>2. Times(Ids(toDevice[d]), id) = Times(Ids(Tail(toDevice[d])), id) + IF m.id = id THEN 1 ELSE 0
        BY <1>1, NetworkTail
  <2>3. Unanswered(d, id)' = Times(Ids(Tail(toDevice[d])), id) + Times(Ids(pending[d]), id)
        BY <1>1, <1>3 DEF Unanswered
  <2>4. Unanswered(d, id) = Times(Ids(toDevice[d]), id) + Times(Ids(pending[d]), id)
        BY DEF Unanswered
  <2>5. Times(Ids(toDevice[d]), id) \in Nat /\ Times(Ids(pending[d]), id) \in Nat
        BY <1>1, CountsAre
  <2>6. Times(Ids(Tail(toDevice[d])), id) \in Nat
    <3>1. \A x \in Packet : x.id \in SentId
          BY DEF Packet
    <3>2. Ids(Tail(toDevice[d])) \in Seq(SentId)
          BY <1>2, <3>1, IdsAre
    <3>3. QED
          BY <3>2, TimesIs
  <2>7. Unanswered(d, id)' = Unanswered(d, id) - IF m.id = id THEN 1 ELSE 0
        BY <2>2, <2>3, <2>4, <2>5, <2>6
  <2>8. QED
        BY <2>1, <2>7
<1>7. \A c \in Device, id \in SentId : c # d => Unanswered(c, id)' = Unanswered(c, id)
      BY <1>1, <1>3 DEF Unanswered
<1>8. Covered(a, b)'
      BY <1>1, <1>6, <1>7, DeviceReports
<1>9. QED
      BY <1>1, <1>5, <1>8 DEF CInv, RetryServed, Contacts!RetryServed

\* ReceiveEarly moves a message to those that wait.
LEMMA ReceiveEarlyKeeps ==
    ASSUME NEW a \in Device, NEW b \in Device, CInv(a, b), NEW d \in {a, b}, Contacts!ReceiveEarly(d)
    PROVE  CInv(a, b)'
<1> DEFINE m == Head(toDevice[d])
<1>1. /\ d \in Device /\ CTyped /\ toDevice[d] # <<>> /\ toDevice' = [toDevice EXCEPT ![d] = Tail(@)]
      /\ pending' = [pending EXCEPT ![d] = Append(@, m)]
      /\ UNCHANGED <<nextSent, queue, calls, gen, ignored, inbox>>
      BY DEF CInv, Contacts!ReceiveEarly, Contacts!sender
<1>2. /\ toDevice \in [Device -> Seq(Packet)] /\ pending \in [Device -> Seq(Packet)]
      /\ m \in Packet /\ Tail(toDevice[d]) \in Seq(Packet) /\ pending[d] \in Seq(Packet)
  <2>1. /\ toDevice \in [Device -> Seq(Packet)] /\ toDevice[d] \in Seq(Packet)
        /\ pending \in [Device -> Seq(Packet)] /\ pending[d] \in Seq(Packet)
        BY <1>1 DEF CTyped
  <2>2. QED
        BY <1>1, <2>1, HeadTail
<1> HIDE DEF m
<1>3. /\ toDevice' \in [Device -> Seq(Packet)] /\ toDevice'[d] = Tail(toDevice[d])
      /\ \A c \in Device : c # d => toDevice'[c] = toDevice[c]
      BY <1>1, <1>2
<1>4. /\ pending' \in [Device -> Seq(Packet)] /\ pending'[d] = Append(pending[d], m)
      /\ \A c \in Device : c # d => pending'[c] = pending[c]
      BY <1>1, <1>2
<1>5. CTyped'
      BY <1>1, <1>3, <1>4 DEF CTyped
<1>6. ASSUME NEW id \in SentId
      PROVE  \E k \in Nat :
                 /\ Times(Ids(inbox)', id) = Times(Ids(inbox), id) + k
                 /\ Unanswered(d, id)' = Unanswered(d, id) - k
  <2>1. Times(Ids(pending'[d]), id) = Times(Ids(pending[d]), id) + IF m.id = id THEN 1 ELSE 0
        BY <1>2, <1>4, PacketAppend
  <2>2. Times(Ids(toDevice[d]), id) = Times(Ids(Tail(toDevice[d])), id) + IF m.id = id THEN 1 ELSE 0
        BY <1>1, NetworkTail DEF m
  <2>3. Unanswered(d, id)' = Times(Ids(Tail(toDevice[d])), id) + Times(Ids(pending'[d]), id)
        BY <1>3 DEF Unanswered
  <2>4. Unanswered(d, id) = Times(Ids(toDevice[d]), id) + Times(Ids(pending[d]), id)
        BY DEF Unanswered
  <2>5. /\ Times(Ids(toDevice[d]), id) \in Nat /\ Times(Ids(pending[d]), id) \in Nat
        /\ Times(Ids(inbox), id) \in Nat
        BY <1>1, CountsAre
  <2>6. Times(Ids(Tail(toDevice[d])), id) \in Nat
    <3>1. \A x \in Packet : x.id \in SentId
          BY DEF Packet
    <3>2. Ids(Tail(toDevice[d])) \in Seq(SentId)
          BY <1>2, <3>1, IdsAre
    <3>3. QED
          BY <3>2, TimesIs
  <2>7. Unanswered(d, id)' = Unanswered(d, id) - 0
        BY <2>1, <2>2, <2>3, <2>4, <2>5, <2>6
  <2>8. Times(Ids(inbox)', id) = Times(Ids(inbox), id) + 0
        BY <1>1, <2>5
  <2>9. QED
        BY <2>7, <2>8
<1>7. \A c \in Device, id \in SentId : c # d => Unanswered(c, id)' = Unanswered(c, id)
      BY <1>3, <1>4 DEF Unanswered
<1>8. Covered(a, b)'
      BY <1>1, <1>6, <1>7, DeviceReports
<1>9. QED
      BY <1>1, <1>5, <1>8 DEF CInv, RetryServed, Contacts!RetryServed

\* OnSenderKeys answers all that wait.
LEMMA OnSenderKeysKeeps ==
    ASSUME NEW a \in Device, NEW b \in Device, CInv(a, b), NEW d \in {a, b}, Contacts!OnSenderKeys(d)
    PROVE  CInv(a, b)'
<1>1. /\ d \in Device /\ CTyped /\ pending' = [pending EXCEPT ![d] = <<>>]
      /\ UNCHANGED <<nextSent, queue, calls, gen, ignored, toDevice>>
      BY DEF CInv, Contacts!OnSenderKeys, Contacts!sender
<1>2. PICK f : States(f, d, Len(pending[d])) /\ Contacts!Becomes(f[Len(pending[d])])
      BY <1>1, TakenUp
<1>3. inbox' = f[Len(pending[d])].inbox
      BY <1>2 DEF Contacts!Becomes
<1>4. /\ inbox' \in Seq(Report)
      /\ \A id \in SentId : Times(Ids(inbox'), id) = Times(Ids(inbox), id) + Times(Ids(pending[d]), id)
      BY <1>1, <1>2, <1>3, AnsweredEach
<1>5. /\ pending' \in [Device -> Seq(Packet)] /\ pending'[d] = <<>>
      /\ \A c \in Device : c # d => pending'[c] = pending[c]
      BY <1>1 DEF CTyped
<1>6. CTyped'
      BY <1>1, <1>4, <1>5 DEF CTyped
<1>7. ASSUME NEW id \in SentId
      PROVE  \E k \in Nat :
                 /\ Times(Ids(inbox)', id) = Times(Ids(inbox), id) + k
                 /\ Unanswered(d, id)' = Unanswered(d, id) - k
  <2>1. Times(Ids(inbox)', id) = Times(Ids(inbox), id) + Times(Ids(pending[d]), id)
        BY <1>4
  <2>2. Times(Ids(pending'[d]), id) = 0
        BY <1>5, FS_EmptySet DEF Times, Ids
  <2>3. Unanswered(d, id)' = Times(Ids(toDevice[d]), id) + Times(Ids(pending'[d]), id)
        BY <1>1 DEF Unanswered
  <2>4. Unanswered(d, id) = Times(Ids(toDevice[d]), id) + Times(Ids(pending[d]), id)
        BY DEF Unanswered
  <2>5. Times(Ids(toDevice[d]), id) \in Nat /\ Times(Ids(pending[d]), id) \in Nat
        BY <1>1, CountsAre
  <2>6. Unanswered(d, id)' = Unanswered(d, id) - Times(Ids(pending[d]), id)
        BY <2>2, <2>3, <2>4, <2>5
  <2>7. QED
        BY <2>1, <2>5, <2>6
<1>8. \A c \in Device, id \in SentId : c # d => Unanswered(c, id)' = Unanswered(c, id)
      BY <1>1, <1>5 DEF Unanswered
<1>9. Covered(a, b)'
      BY <1>1, <1>7, <1>8, DeviceReports
<1>10. QED
       BY <1>1, <1>6, <1>9 DEF CInv, RetryServed, Contacts!RetryServed

\* An error leaves what waits where it is.
LEMMA OnSenderKeysErrorKeeps ==
    ASSUME NEW a \in Device, NEW b \in Device, CInv(a, b), NEW d \in Device,
           Contacts!OnSenderKeysError(d)
    PROVE  CInv(a, b)'
<1>1. /\ calls' = calls /\ gen' = gen
      /\ UNCHANGED <<nextSent, queue, ignored, inbox, toDevice, pending>>
      BY DEF Contacts!OnSenderKeysError, Contacts!sender
<1>2. QED
      BY <1>1, OnlyAsks DEF CInv, CTyped

\* At first nothing is on its way.
LEMMA CInvFirst ==
    ASSUME NEW a \in Device, NEW b \in Device, Contacts!Init
    PROVE  CInv(a, b)
<1>1. CTyped
  <2>1. gen \in [Device -> Int]
        BY DEF Contacts!Init, Contacts!None
  <2>2. QED
        BY <2>1 DEF Contacts!Init, CTyped
<1>2. ASSUME NEW q, q = <<>>, NEW id PROVE Times(q, id) = 0 /\ Times(Ids(q), id) = 0
      BY <1>2, FS_EmptySet DEF Times, Ids
<1>3. /\ inbox = <<>> /\ queue = <<>> /\ toDevice[a] = <<>> /\ toDevice[b] = <<>>
      /\ pending[a] = <<>> /\ pending[b] = <<>>
      BY DEF Contacts!Init
<1>4. Covered(a, b)
  <2>1. ASSUME NEW id \in SentId
        PROVE  Times(Ids(inbox), id) + Unanswered(a, id) + Unanswered(b, id) <= Times(queue, id)
    <3>1. /\ Times(Ids(inbox), id) = 0 /\ Times(queue, id) = 0
          /\ Times(Ids(toDevice[a]), id) = 0 /\ Times(Ids(toDevice[b]), id) = 0
          /\ Times(Ids(pending[a]), id) = 0 /\ Times(Ids(pending[b]), id) = 0
          BY <1>2, <1>3
    <3>2. QED
          BY <3>1 DEF Unanswered
  <2>2. QED
        BY <2>1 DEF Covered
<1>5. RetryServed
      BY DEF Contacts!Init, RetryServed, Contacts!RetryServed
<1>6. QED
      BY <1>1, <1>4, <1>5 DEF CInv

\* Nothing happens to the messages to contacts.
LEMMA ContactsStutter ==
    ASSUME NEW a \in Device, NEW b \in Device, CInv(a, b), UNCHANGED contacts
    PROVE  CInv(a, b)'
<1>1. UNCHANGED <<nextSent, queue, calls, gen, inbox, ignored, toDevice, pending>>
      BY DEF contacts
<1>2. CTyped'
      BY <1>1 DEF CInv, CTyped
<1>3. Covered(a, b)'
      BY <1>1 DEF CInv, Covered, Unanswered
<1>4. RetryServed'
      BY <1>1 DEF CInv, RetryServed, Contacts!RetryServed
<1>5. QED
      BY <1>2, <1>3, <1>4 DEF CInv

\* Every step that finds room keeps the invariant.
LEMMA CInvKept ==
    ASSUME NEW a \in Device, NEW b \in Device, Device = {a, b}, CInv(a, b), HasRoom, [MCNext]_all
    PROVE  CInv(a, b)'
<1>1. CASE UNCHANGED contacts
      BY <1>1, ContactsStutter
<1>2. CASE Contacts!Next
  <2>1. CASE Contacts!Send
        BY <2>1, SendKeeps
  <2>2. CASE Contacts!SenderStep
    <3>1. CASE \E i \in DOMAIN calls : Contacts!OnDevices(i)
          BY <3>1, OnDevicesKeeps
    <3>2. CASE \E i \in DOMAIN calls, o \in Contacts!Outcome : Contacts!OnKeys(i, o)
          BY <3>2, OnKeysKeeps
    <3>5. CASE \E i \in DOMAIN calls : Contacts!OnDevicesError(i)
          BY <3>5, OnDevicesErrorKeeps
    <3>6. CASE \E i \in DOMAIN calls, o \in Contacts!Outcome : Contacts!OnKeysError(i, o)
          BY <3>6, OnKeysErrorKeeps
    <3>3. CASE Contacts!OnReceipt
          BY <3>3, OnReceiptKeeps
    <3>4. CASE Contacts!OnRetry
          BY <3>4, OnRetryKeeps
    <3>7. QED
          BY <2>2, <3>1, <3>2, <3>3, <3>4, <3>5, <3>6 DEF Contacts!SenderStep
  <2>3. ASSUME NEW d \in Device, Contacts!DeviceStep(d) PROVE CInv(a, b)'
    <3>1. d \in {a, b}
          OBVIOUS
    <3>2. CASE Contacts!Receive(d)
          BY <3>1, <3>2, ReceiveKeeps
    <3>3. CASE Contacts!ReceiveEarly(d)
          BY <3>1, <3>3, ReceiveEarlyKeeps
    <3>4. CASE Contacts!OnSenderKeys(d)
          BY <3>1, <3>4, OnSenderKeysKeeps
    <3>5. CASE Contacts!OnSenderKeysError(d)
          BY <3>5, OnSenderKeysErrorKeeps
    <3>6. QED
          BY <2>3, <3>2, <3>3, <3>4, <3>5 DEF Contacts!DeviceStep
  <2>4. QED
        BY <1>2, <2>1, <2>2, <2>3 DEF Contacts!Next
<1>3. QED
      BY <1>1, <1>2 DEF MCNext, all

\* "if the original message is not in sentQueue for any reason, we will notify the upper
\* layers": the sender never ignores a request for a retry of a contact with one or two devices,
\* as long as the queue has room for two copies, whatever is sent, received, broken and asked for
\* again meanwhile.  (A message is queued twice, and every device's report takes a copy out.)
THEOREM RetriesAreServed ==
    (\E a, b \in Device : Device = {a, b}) => (MCSpec /\ []HasRoom => []RetryServed)
<1>1. ASSUME NEW a \in Device, NEW b \in Device, Device = {a, b}
      PROVE  MCSpec /\ []HasRoom => []RetryServed
  <2>1. MCInit => CInv(a, b)
        BY CInvFirst DEF MCInit
  <2>2. CInv(a, b) /\ HasRoom /\ [MCNext]_all => CInv(a, b)'
        BY <1>1, CInvKept
  <2>3. CInv(a, b) => RetryServed
        BY DEF CInv
  <2>4. QED
        BY <2>1, <2>2, <2>3, PTL DEF MCSpec
<1>2. QED
      BY <1>1
=============================================================================
