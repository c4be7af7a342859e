----------------------------- MODULE GroupKeys -----------------------------
(***************************************************************************)
(* Group messages: one sender, whose layer encrypts each message once with *)
(* the group's sender key, and the receiving layers of the other members,  *)
(* which ask for a message again when they lack that key.                  *)
(*                                                                         *)
(* The first message asks the server who is in the group, and is encrypted *)
(* by the network thread when the answer comes; every other one by the     *)
(* application's thread.  Requests for a retry are answered by the network *)
(* thread.  Encrypting loads the sender key, stores it one iteration on,   *)
(* and only then does the stanza go down; no lock spans the steps.         *)
(***************************************************************************)
EXTENDS Integers, Sequences, FiniteSets, SequencesExt

CONSTANTS
    Receiver,   \* the other members of the group
    MaxMsg,     \* bound: messages the application sends
    MaxLost,    \* bound: stanzas the server loses
    QueueSize   \* MAX_SENT_QUEUE (256)

ASSUME GroupKeysAssumption ==
    /\ {MaxMsg, MaxLost} \subseteq Nat
    /\ QueueSize \in Nat \ {0}

Id == 1..MaxMsg
Thread == {"net", "app"}
Empty == -1

VARIABLES
    own,        \* iteration of the sender's own key, Empty before it is made
    asking,     \* messages that wait for the group info
    job,        \* what each thread of the sender is at
    sentQueue,  \* messages kept for a retry
    nextId,
    network,    \* per receiver, the stanzas on their way, in order
    asked,      \* requests for a retry on their way to the sender
    fetching,   \* requests whose keys the sender has asked the server for
    record,     \* per receiver, the states of its sender key record
    got,        \* how often each receiver's application got each message
    lost

sender == <<own, asking, job, sentQueue, nextId, fetching>>
receivers == <<record, got>>
vars == <<sender, network, asked, receivers, lost>>

Idle == [at |-> "idle"]

TypeOK ==
    /\ own \in {Empty} \cup 0..MaxMsg
    /\ asking \subseteq Id
    /\ \A t \in Thread : job[t].at \in {"idle", "load", "store", "emit"}
    /\ Len(sentQueue) <= QueueSize /\ Range(sentQueue) \subseteq Id
    /\ asked \cup fetching \subseteq Receiver \X Id
    /\ \A r \in Receiver :
          /\ \A i \in DOMAIN record[r] : LET st == record[r][i] IN
                st.next \in 0..MaxMsg /\ \A k \in st.saved : k < st.next

Init ==
    /\ own = Empty /\ asking = {} /\ sentQueue = <<>> /\ nextId = 1
    /\ job = [t \in Thread |-> Idle]
    /\ network = [r \in Receiver |-> <<>>] /\ asked = {} /\ fetching = {}
    /\ record = [r \in Receiver |-> <<>>]
    /\ got = [r \in Receiver |-> [i \in Id |-> 0]]
    /\ lost = 0

-----------------------------------------------------------------------------
(* The sender.                                                             *)

Begin(t, work) == job' = [job EXCEPT ![t] = work]

Free(t) == job[t] = Idle

\* sendToGroup: without a sender key the group info is asked for first.
Send ==
    /\ nextId <= MaxMsg /\ nextId' = nextId + 1
    /\ Free("app")
    /\ IF own = Empty
       THEN asking' = asking \cup {nextId} /\ UNCHANGED job
       ELSE /\ Begin("app", [at |-> "load", id |-> nextId, first |-> FALSE])
            /\ UNCHANGED asking
    /\ UNCHANGED <<own, sentQueue, network, asked, fetching, receivers, lost>>

\* The group info comes: the key is made, for whoever is in the group.
GroupInfo(id) ==
    /\ id \in asking /\ asking' = asking \ {id}
    /\ Free("net")
    /\ own' = IF own = Empty THEN 0 ELSE own
    /\ Begin("net", [at |-> "load", id |-> id, first |-> TRUE])
    /\ UNCHANGED <<sentQueue, nextId, network, asked, fetching, receivers, lost>>

\* GroupCipher.encrypt: the record is loaded and the message encrypted ...
Load(t) ==
    /\ job[t].at = "load"
    /\ Begin(t, [at |-> "store", reply |-> FALSE, id |-> job[t].id,
                 first |-> job[t].first, iter |-> own])
    /\ UNCHANGED <<own, asking, sentQueue, nextId, fetching, network, asked,
                   receivers, lost>>

\* Mutant of Store: the chain is not moved on.
StoreNothing(t) ==
    /\ job[t].at = "store"
    /\ Begin(t, [job[t] EXCEPT !.at = "emit"])
    /\ UNCHANGED <<own, asking, sentQueue, nextId, fetching, network, asked,
                   receivers, lost>>

\* ... and stored, one iteration on.
Store(t) ==
    /\ job[t].at = "store"
    /\ own' = job[t].iter + 1
    /\ Begin(t, [job[t] EXCEPT !.at = "emit"])
    /\ UNCHANGED <<asking, sentQueue, nextId, fetching, network, asked,
                   receivers, lost>>

\* Mutant of Enqueued: the queue has no limit.
EnqueuedAll(q, id) == Append(q, id)

\* enqueueSent: the oldest is discarded when the queue is full.
Enqueued(q, id) ==
    Append(IF Len(q) >= QueueSize THEN Tail(q) ELSE q, id)

\* sendEncEntities: a message for the group is queued, twice, and goes to
\* every member; an answer to a retry goes to the one that asked.
Emit(t) ==
    /\ job[t].at = "emit"
    /\ LET j == job[t]
           stanza == [id |-> j.id, iter |-> j.iter, reply |-> j.reply,
                      first |-> j.first]
       IN IF j.reply
          THEN /\ network' = [network EXCEPT ![j.to] = Append(@, stanza)]
               /\ UNCHANGED sentQueue
          ELSE /\ network' = [r \in Receiver |-> Append(network[r], stanza)]
               /\ sentQueue' = Enqueued(Enqueued(sentQueue, j.id), j.id)
    /\ Begin(t, Idle)
    /\ UNCHANGED <<own, asking, nextId, fetching, asked, receivers, lost>>

\* A request for a retry: the keys of who asks are fetched, unless the
\* message is no longer queued.  It stays in the queue.
OnRetry(r, id) ==
    /\ <<r, id>> \in asked /\ asked' = asked \ {<<r, id>>}
    /\ Free("net")
    /\ fetching' = IF id \in Range(sentQueue) THEN fetching \cup {<<r, id>>}
                   ELSE fetching
    /\ UNCHANGED <<own, asking, job, sentQueue, nextId, network, receivers, lost>>

\* Mutant of AnswerRetry: the question stays registered.
AnswerRetryAgain(r, id) ==
    /\ <<r, id>> \in fetching
    /\ Free("net")
    /\ Begin("net", [at |-> "emit", reply |-> TRUE, to |-> r, id |-> id,
                     iter |-> own, first |-> FALSE])
    /\ UNCHANGED <<own, asking, sentQueue, nextId, fetching, network, asked,
                   receivers, lost>>

\* The keys come: the message goes to the one receiver, with the sender key
\* as it is now.
AnswerRetry(r, id) ==
    /\ <<r, id>> \in fetching /\ fetching' = fetching \ {<<r, id>>}
    /\ Free("net")
    /\ Begin("net", [at |-> "emit", reply |-> TRUE, to |-> r, id |-> id,
                     iter |-> own, first |-> FALSE])
    /\ UNCHANGED <<own, asking, sentQueue, nextId, network, asked, receivers, lost>>

-----------------------------------------------------------------------------
(* A receiver.  Its network thread handles a stanza to the end.            *)

\* getSenderKey: the state after message k is decrypted.  The limit on
\* messages skipped compares the wrong way round and never refuses.
Opened(st, k) ==
    IF k < st.next THEN [st EXCEPT !.saved = @ \ {k}]
    ELSE [st EXCEPT !.next = k + 1, !.saved = @ \cup st.next..(k - 1)]

Old(st, k) == k < st.next /\ k \notin st.saved

Deliver(r, id) == got' = [got EXCEPT ![r][id] = @ + 1]

Take(r) ==
    /\ network[r] # <<>>
    /\ network' = [network EXCEPT ![r] = Tail(@)]

\* An answer to a retry: the key in it becomes the last state of the record.
ReceiveReply(r) ==
    /\ Take(r)
    /\ LET m == Head(network[r]) IN
       /\ m.reply
       /\ record' = [record EXCEPT ![r] = Append(@, [next |-> m.iter, saved |-> {}])]
       /\ Deliver(r, m.id)
    /\ UNCHANGED <<sender, asked, lost>>

\* Mutant of ReceiveWithoutKey: nobody is asked for the message.
ReceiveSilently(r) ==
    /\ Take(r) /\ ~Head(network[r]).reply /\ record[r] = <<>>
    /\ UNCHANGED <<sender, asked, receivers, lost>>

\* A group message without the sender key: a retry is asked for, and the
\* message counts as handled, with the key that its stanza may hold.
ReceiveWithoutKey(r) ==
    /\ Take(r)
    /\ LET m == Head(network[r]) IN
       /\ ~m.reply /\ record[r] = <<>>
       /\ asked' = asked \cup {<<r, m.id>>}
    /\ UNCHANGED <<sender, receivers, lost>>

\* The first state with the key's id is used.
ReceiveWithKey(r) ==
    /\ Take(r)
    /\ LET m == Head(network[r]) IN
       /\ ~m.reply /\ record[r] # <<>>
       /\ ~Old(Head(record[r]), m.iter)
       /\ record' = [record EXCEPT ![r][1] = Opened(@, m.iter)]
       /\ Deliver(r, m.id)
    /\ UNCHANGED <<sender, asked, lost>>

\* DuplicateMessageException: the receipt is sent without the application.
ReceiveOld(r) ==
    /\ Take(r)
    /\ LET m == Head(network[r]) IN
       /\ ~m.reply /\ record[r] # <<>>
       /\ Old(Head(record[r]), m.iter)
    /\ UNCHANGED <<sender, asked, receivers, lost>>

Lose(r) ==
    /\ lost < MaxLost /\ lost' = lost + 1
    /\ Take(r)
    /\ UNCHANGED <<sender, asked, receivers>>

-----------------------------------------------------------------------------
ThreadStep(t) == Load(t) \/ Store(t) \/ Emit(t)

NetStep ==
    \/ \E id \in Id : GroupInfo(id)
    \/ \E r \in Receiver, id \in Id : OnRetry(r, id) \/ AnswerRetry(r, id)

Receive(r) ==
    ReceiveReply(r) \/ ReceiveWithoutKey(r) \/ ReceiveWithKey(r) \/ ReceiveOld(r)

Next ==
    \/ Send \/ NetStep
    \/ \E t \in Thread : ThreadStep(t)
    \/ \E r \in Receiver : Receive(r) \/ Lose(r)

Spec == Init /\ [][Next]_vars

\* The server answers, the threads go on and take what came for them, and the
\* receivers read.
FairSpec ==
    /\ Spec
    /\ WF_vars(NetStep)
    /\ \A t \in Thread : WF_vars(ThreadStep(t))
    /\ \A r \in Receiver : WF_vars(Receive(r))

-----------------------------------------------------------------------------
(* Properties.                                                             *)

Emitted(id) == id \in Range(sentQueue)

\* A member's application gets a message at most once: either the group
\* message opens or the answer to the retry brings it, never both.
GotOnce == \A r \in Receiver, id \in Id : got[r][id] <= 1

\* The two threads are not in a send at once.
Alone == \E t \in Thread : job[t] = Idle

\* Then no two group messages are encrypted with the same key.
SameKey ==
    \E r, q \in Receiver : \E i \in DOMAIN network[r], j \in DOMAIN network[q] :
        LET m == network[r][i]  n == network[q][j] IN
        ~m.reply /\ ~n.reply /\ m.iter = n.iter /\ m.id # n.id
KeysUsedOnce == []Alone => []~SameKey

\* Every member gets every message that stays in the queue, the first ones
\* through a retry, and whatever comes between a retry and its answer, as long
\* as nothing is lost.
Reaches ==
    [](Alone /\ lost = 0) =>
        \A r \in Receiver, id \in Id : <>[]Emitted(id) => <>(got[r][id] = 1)

\* "send message with dist key for all participants": a member that lacks the
\* key is given it by the first message.
FirstMessageOpens ==
    [][\A r \in Receiver : ReceiveWithoutKey(r) => ~Head(network[r]).first]_vars
=============================================================================
