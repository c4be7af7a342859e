------------------------------ MODULE Retries ------------------------------
(***************************************************************************)
(* Messages to a contact with several devices: the sender's queue of sent  *)
(* messages, and the devices' receiving layers, which ask for a message    *)
(* again when they cannot decrypt it.                                      *)
(*                                                                         *)
(* A session is its generation: a device decrypts what was encrypted under *)
(* a generation that works for it.  Processing fetched keys starts a new   *)
(* generation, which the device can open, or, up to MaxBad times, cannot,  *)
(* for its MAC does not verify or its pre-key is gone from the store.      *)
(* The sender or a device may also hold no session at first.               *)
(*                                                                         *)
(* The server answers each question, up to MaxErrors times with an error,  *)
(* which ends what the question was asked for: an error is logged.         *)
(***************************************************************************)
EXTENDS Integers, Sequences, FiniteSets, SequencesExt

CONSTANTS
    Device,      \* the contact's devices
    MaxMsg,      \* bound: messages the application sends
    MaxBad,      \* bound: generations that do not open
    MaxErrors,   \* bound: questions that get an error
    QueueSize,   \* MAX_SENT_QUEUE (256)
    MaxRetries   \* retries asked for before a device gives up (3)

\* Assumed of the constants where the module is instantiated.
RetriesAssumption ==
    /\ {MaxMsg, MaxBad, MaxErrors, MaxRetries} \subseteq Nat /\ QueueSize \in Nat \ {0}

Id == 1..MaxMsg
None == -1       \* the generation where there is no session

VARIABLES
    nextId,
    sentQueue,   \* messages the sender keeps
    calls,       \* its questions to the server that are not answered
    gen,         \* per device, the generation the sender encrypts with
    works,       \* the generations each device can decrypt
    gone,        \* the generations whose pre-key a device no longer has
    bad,         \* generations that did not work so far
    inbox,       \* receipts and retry requests on their way to the sender
    ignored,     \* retry requests the sender did nothing about
    errors,      \* questions that got an error
    failed,      \* messages one of whose questions got an error
    network,     \* per device, the messages on their way
    has,         \* does the device hold a session with the sender?
    pending,     \* messages that wait for the sender's keys
    waits,       \* how often each device waits for these keys
    retries,     \* how often each device asked for each message
    got,         \* how often each device's application got each message
    gaveUp       \* messages a device acknowledged without decrypting them

sender == <<nextId, sentQueue, calls, gen, works, gone, bad, ignored>>
device == <<has, pending, waits, retries, got, gaveUp>>
refusals == <<errors, failed>>
vars == <<sender, inbox, network, device, refusals>>

Init ==
    /\ nextId = 1 /\ sentQueue = <<>> /\ calls = <<>> /\ inbox = <<>>
    /\ ignored = {} /\ gaveUp = {} /\ bad = 0
    /\ errors = 0 /\ failed = {} /\ waits = [d \in Device |-> 0]
    /\ gen \in [Device -> {None, 0}]
    /\ has \in [Device -> BOOLEAN]
    /\ works \in [Device -> {{}, {0}}]
    /\ \A d \in Device : works[d] = {0} => has[d] /\ gen[d] = 0
    /\ gone = [d \in Device |-> {}]
    /\ network = [d \in Device |-> <<>>] /\ pending = network
    /\ retries = [d \in Device |-> [i \in Id |-> 0]] /\ got = retries

-----------------------------------------------------------------------------
(* The sender.                                                             *)

\* What the sender asks: the contact's devices; the keys of some of them, for
\* the first message or a retry.
Devices(id) == [kind |-> "devices", id |-> id]
Keys(id, ds, again) == [kind |-> "keys", id |-> id, for |-> ds, retry |-> again]

\* processPlaintextNodeAndSend: the contact's devices are asked for.
Send ==
    /\ nextId <= MaxMsg /\ nextId' = nextId + 1
    /\ calls' = Append(calls, Devices(nextId))
    /\ UNCHANGED <<sentQueue, gen, works, gone, bad, ignored, inbox,
                   network, device, refusals>>

\* enqueueSent: the oldest is discarded when the queue is full.
Enqueued(q, id) == Append(IF Len(q) >= QueueSize THEN Tail(q) ELSE q, id)

\* Mutant of SendToContacts: the message is queued once.
SendToContactsOnce(id, sessions) ==
    /\ network' = [d \in Device |-> Append(network[d], [id |-> id, gen |-> sessions[d]])]
    /\ sentQueue' = Enqueued(sentQueue, id)

\* sendToContactsWithSessions encrypts the message for all of the contact's
\* devices, and sendEncEntities queues it twice.
SendToContacts(id, sessions) ==
    /\ network' = [d \in Device |-> Append(network[d], [id |-> id, gen |-> sessions[d]])]
    /\ sentQueue' = Enqueued(Enqueued(sentQueue, id), id)

\* An error is logged, and nothing more is done for the message.
Fails(ids) ==
    /\ errors < MaxErrors /\ errors' = errors + 1
    /\ failed' = failed \cup ids

\* The devices come: the keys of those without a session are fetched first.
OnDevices(i) ==
    LET id == calls[i].id
        missing == {d \in Device : gen[d] = None} IN
    /\ calls[i].kind = "devices"
    /\ IF missing = {}
       THEN SendToContacts(id, gen) /\ calls' = RemoveAt(calls, i)
       ELSE /\ calls' = Append(RemoveAt(calls, i), Keys(id, missing, FALSE))
            /\ UNCHANGED <<sentQueue, network>>
    /\ UNCHANGED <<nextId, gen, works, gone, bad, ignored, inbox, device, refusals>>

OnDevicesError(i) ==
    /\ calls[i].kind = "devices" /\ calls' = RemoveAt(calls, i)
    /\ Fails({calls[i].id})
    /\ UNCHANGED <<nextId, sentQueue, gen, works, gone, bad, ignored, inbox,
                   network, device>>

\* getKeysFor: the keys that came make sessions, each of which opens or not.
NewSessions(outcome) ==
    LET ds == DOMAIN outcome
        Adding(sets, o) ==
            [d \in Device |-> IF d \in ds /\ outcome[d] = o
                              THEN sets[d] \cup {gen'[d]} ELSE sets[d]]
    IN /\ gen' = [d \in Device |-> IF d \notin ds THEN gen[d]
                                   ELSE IF gen[d] = None THEN 1 ELSE gen[d] + 1]
       /\ works' = Adding(works, "opens")
       /\ gone' = Adding(gone, "gone")
       /\ bad' = bad + Cardinality({d \in ds : outcome[d] # "opens"})
       /\ bad' <= MaxBad

\* Keys for all of them: the message is sent, for a retry from the beginning
\* and to every device of the contact.
OnKeys(i, outcome) ==
    /\ calls[i].kind = "keys" /\ calls[i].for = DOMAIN outcome
    /\ NewSessions(outcome)
    /\ IF calls[i].retry
       THEN /\ calls' = Append(RemoveAt(calls, i), Devices(calls[i].id))
            /\ UNCHANGED <<sentQueue, network>>
       ELSE SendToContacts(calls[i].id, gen') /\ calls' = RemoveAt(calls, i)
    /\ UNCHANGED <<nextId, ignored, inbox, device, refusals>>

\* An error for one of them: nobody is sent anything.
OnKeysError(i, outcome) ==
    /\ calls[i].kind = "keys" /\ calls' = RemoveAt(calls, i)
    /\ DOMAIN outcome \subseteq calls[i].for /\ DOMAIN outcome # calls[i].for
    /\ NewSessions(outcome)
    /\ Fails({calls[i].id})
    /\ UNCHANGED <<nextId, sentQueue, ignored, inbox, network, device>>

\* getEnqueuedMessageNode takes the first copy out of the queue.
Dequeued(q, id) == IF id \in Range(q) THEN RemoveFirst(q, id) ELSE q

OnReceipt ==
    /\ inbox # <<>> /\ inbox' = Tail(inbox)
    /\ LET r == Head(inbox) IN
       /\ ~r.retry
       /\ sentQueue' = Dequeued(sentQueue, r.id)
    /\ UNCHANGED <<nextId, calls, gen, works, gone, bad, ignored, network, device,
                   refusals>>

\* A retry request for a message that is no longer queued is ignored.
OnRetry ==
    /\ inbox # <<>> /\ inbox' = Tail(inbox)
    /\ LET r == Head(inbox)
           kept == r.id \in Range(sentQueue) IN
       /\ r.retry
       /\ sentQueue' = Dequeued(sentQueue, r.id)
       /\ calls' = IF kept THEN Append(calls, Keys(r.id, {r.from}, TRUE)) ELSE calls
       /\ ignored' = IF kept THEN ignored ELSE ignored \cup {<<r.from, r.id>>}
    /\ UNCHANGED <<nextId, gen, works, gone, bad, network, device, refusals>>

-----------------------------------------------------------------------------
(* A device.                                                               *)

Here == [inbox |-> inbox, retries |-> retries, got |-> got, gaveUp |-> gaveUp]

Becomes(s) ==
    inbox' = s.inbox /\ retries' = s.retries /\ got' = s.got /\ gaveUp' = s.gaveUp

Answered(s, d, id, retry) ==
    [s EXCEPT !.inbox = Append(@, [from |-> d, id |-> id, retry |-> retry])]

\* A message is acknowledged that was not decrypted.
GivenUp(s, d, id) ==
    Answered([s EXCEPT !.gaveUp = @ \cup {<<d, id>>}], d, id, FALSE)

\* InvalidMessageException: a retry is asked for; after three of them the
\* message is acknowledged.
Asked(s, d, id) ==
    IF s.retries[d][id] >= MaxRetries THEN GivenUp(s, d, id)
    ELSE Answered([s EXCEPT !.retries[d][id] = @ + 1], d, id, TRUE)

\* handleEncMessage with a session: the message is decrypted, and the receipt
\* goes out from the layers above; or InvalidKeyIdException ends it.
Handled(s, d, m) ==
    CASE m.gen \in works[d] ->
             Answered([s EXCEPT !.got[d][m.id] = @ + 1, !.retries[d][m.id] = 0],
                      d, m.id, FALSE)
      [] m.gen \in gone[d] -> GivenUp(s, d, m.id)
      [] OTHER -> Asked(s, d, m.id)

\* A message under a fetched generation brings its own session: pkmsg.
Receive(d) ==
    /\ network[d] # <<>> /\ network' = [network EXCEPT ![d] = Tail(@)]
    /\ LET m == Head(network[d]) IN
       /\ has[d] \/ m.gen > 0
       /\ Becomes(Handled(Here, d, m))
       /\ has' = [has EXCEPT ![d] = @ \/ m.gen \in works[d]]
    /\ UNCHANGED <<sender, pending, waits, refusals>>

\* NoSessionException: the message waits, and the sender's keys are asked for.
ReceiveEarly(d) ==
    /\ network[d] # <<>> /\ network' = [network EXCEPT ![d] = Tail(@)]
    /\ LET m == Head(network[d]) IN
       /\ ~has[d] /\ m.gen = 0
       /\ pending' = [pending EXCEPT ![d] = Append(@, m)]
       /\ waits' = [waits EXCEPT ![d] = @ + 1]
    /\ UNCHANGED <<sender, inbox, has, retries, got, gaveUp, refusals>>

\* The keys come: the device sets up a session of its own, and takes up what
\* waits, none of which that session can open.
OnSenderKeys(d) ==
    /\ waits[d] > 0 /\ waits' = [waits EXCEPT ![d] = @ - 1]
    /\ pending' = [pending EXCEPT ![d] = <<>>]
    /\ has' = [has EXCEPT ![d] = TRUE]
    /\ LET after[n \in 0..Len(pending[d])] ==
              IF n = 0 THEN Here ELSE Handled(after[n - 1], d, pending[d][n])
       IN Becomes(after[Len(pending[d])])
    /\ UNCHANGED <<sender, network, refusals>>

\* An error instead: what waits stays where it is.
OnSenderKeysError(d) ==
    /\ waits[d] > 0 /\ waits' = [waits EXCEPT ![d] = @ - 1]
    /\ Fails({m.id : m \in Range(pending[d])})
    /\ UNCHANGED <<sender, inbox, network, has, pending, retries, got, gaveUp>>

-----------------------------------------------------------------------------
Outcome == UNION {[ds -> {"opens", "bad", "gone"}] : ds \in SUBSET Device}

SenderStep ==
    \/ \E i \in DOMAIN calls :
          \/ OnDevices(i) \/ OnDevicesError(i)
          \/ \E o \in Outcome : OnKeys(i, o) \/ OnKeysError(i, o)
    \/ OnReceipt \/ OnRetry

DeviceStep(d) ==
    Receive(d) \/ ReceiveEarly(d) \/ OnSenderKeys(d) \/ OnSenderKeysError(d)

Next == Send \/ SenderStep \/ \E d \in Device : DeviceStep(d)

Spec == Init /\ [][Next]_vars

\* The server answers and delivers; every layer goes on with what it is given.
Fairness == WF_vars(SenderStep) /\ \A d \in Device : WF_vars(DeviceStep(d))

-----------------------------------------------------------------------------
(* Properties.                                                             *)

\* A message that was sent ends up decrypted by every device, or given up by
\* it after three retries or for want of a pre-key, wherever sessions were
\* broken or missing, as long as none of the questions asked for its sake gets
\* an error: after one, a copy has left the queue, or never got there, and the
\* device is not answered.
Settles ==
    \A d \in Device, i \in Id :
        (i < nextId) ~> (got[d][i] > 0 \/ <<d, i>> \in gaveUp \/ i \in failed)

\* "if the original message is not in sentQueue for any reason, we will notify
\* the upper layers": no request is left unanswered and unreported.  Receipts
\* of the other devices take copies out of the queue; the two copies that are
\* put in serve two devices.
RetryServed == ignored = {}
=============================================================================
