# Verification of zowsup-lib

TLA+ modules that model the parts of zowsup-lib in which threads, messages,
limits and restarts meet, TLC configurations that check them on small
instances, and proofs that TLAPS checks. Paths are relative to the repository's
root. Every definition is translated from the Python source; `PROJECT.json`
("map") names the lines each one stands for, and lists the components, the runs,
the findings, the hazards with the properties that cover them, and the theorems.

    tlasany M.tla                              parse a module
    tlc -workers 2 -config MCX.cfg M.tla       check a configuration of module M
    tlapm M.tla                                check the proofs of module M

## 1. The system

zowsup-lib is a client of the WhatsApp protocol: a fork of yowsup with its own
copies of the libraries for the encryption (`axolotl/`) and the noise
handshake (`consonance/`), and an application layer (`app/`) that runs several
accounts in one process. An account is a `YowBot`: a stack of layers, a thread
that runs the stack's loop, and the threads of whoever calls its API.

| component | state | operations | modelled in |
|---|---|---|---|
| network layer and dispatcher (`yowsup/layers/network`) | `state`, `connected`, the socket | connect, disconnect, what the socket reports | NoiseConnection, StackLoop, Ping |
| noise layer and handshake worker (`yowsup/layers/noise`, `consonance`) | machine of the protocol, transport, queue of incoming segments, `_flush_lock` | EVENT_AUTH starts a worker; receive; flush | NoiseConnection |
| stack (`yowsup/stacks/yowstack.py`) and bot thread (`app/yowbot.py`) | the queue of detached callbacks, shared by all stacks | loop, execDetached, reconnect, quit | StackLoop |
| pre-key control (`layers/axolotl/layer_control.py`, `yowsup/axolotl/manager.py`) | the table of pre-keys, the unsent list, the reboot flag, PROP_PASSIVE | generate, upload, mark as sent, consume, answer requests | PreKeys |
| pairwise sessions (`axolotl/sessioncipher.py`, `sessionbuilder.py`, `state/`) | one record per peer: a current and the archived states, each with chains and saved keys | set up, encrypt, decrypt, archive, promote, store | Session, Delivery |
| group sender keys (`axolotl/groups/`, layers send and receive) | own sender key, records of the members | send to a group, distribute the key, answer retries | GroupKeys |
| send and receive layers (`layers/axolotl/layer_send.py`, `layer_receive.py`) | sent queue, retry counters, pending messages | send, receipt, retry request, key fetch, give up | Retries, GroupKeys |
| keep-alive (`layers/protocol_iq/layer.py`) | the ping thread, its stop flag, the ping queue | ping, pong, stop | Ping |
| layer dispatch (`yowsup/layers/__init__.py`) | the lock of each layer, iqRegistry | toUpper, toLower, the offers of a parallel layer, register and dispatch of iqs | Wire, Commands |
| protocol layers (`yowsup/layers/protocol_*/layer.py`) | none but iqRegistry | one handler per tag, up and down; acks and receipts | Wire |
| entities and structs (`protocolentities/`, `structs/`, `attributes/converter.py`) | none | write a node or a protocol buffer, read one | Structs, Stanzas, MessageStructs |
| command calls (`app/yowbot.py`, `app/yowbot_layer.py`) | map of command results and their events | callDirect, result, error, timeout | Commands |
| sending by the application (`app/yowbot_layer.py`, `app/api.py`) | contacts, the day's count, invalid numbers, rows of messages, the queue of acks, waiting callers | send text, reply, reaction, media; synchronise a contact; ack; repeat | Outbox |
| account manager (`app/account_manager.py`) and login (`app/api.py`) | table of accounts and its lock; the client, its bot, the login's outcome | add, remove, load, rotate, disconnect, disconnect_all, remove_all; connect, waitLogin, quit | Accounts |
| framing and coder (`layer_noise_segments.py`, `layers/coder`) | the partial frame | split, encode, decode | only that None in an attribute raises (Wire) |

How they interact. Data goes down a stack with `toLower`, each layer holding its
own lock, and up with `toUpper` without a lock. Events go up with `emitEvent`
and down with `broadcastEvent`, by plain calls, except the detached one:
DISCONNECTED is put in a queue and run by a loop thread when `asyncore.loop` has
returned. Four kinds of threads enter a stack: the loop thread (all that comes
from the server), the handshake worker of each connection, the ping thread, and
the application's. Accounts share the detached queue. Sessions, sender keys and
pre-keys live in a database; every call of a store is one transaction.

What is hard. Two threads share the incoming queue of a connection. A worker
outlives its connection. The loop thread ends for good when it finds its
queue empty, so an event queued too late is never handled. An account's
continuation may run in another account's thread. Sessions are loaded, changed
and stored with no lock around the three. Messages are repeated, reordered and
lost, and a crash may come between any two transactions. Receipts and retries of
several devices share one queue of sent messages. A lock of the layers is
released by no `finally`, so that one attribute that raises in the coder stops an
account. The layers do not agree on who handles a stanza: each decides for itself.
A command's answer may come before its caller has an entry for it, or after the
caller has gone. A message goes out before its row is registered, and a call to a
new contact is repeated by the network thread while its caller may send it again.
The account manager holds its only lock while a bot logs in. `PROJECT.json` lists
these as hazards at their lines.

What correctness means, part by part:

- a frame of a connection is decrypted by one thread and handed up in order; no
  frame stays behind in the queue; every connection gets keys of its own;
- one thread runs a stack, a loss leads to one reconnect, quit is the end;
- the server hands out only keys whose private half is still here, and the
  passive login that uploads them ends;
- a message reaches the application at most once, and in the end exactly once; a
  message key encrypts one message;
- every member of a group gets every message, once;
- a message that could not be decrypted is sent again, or given up after three
  requests; a receipt takes it out of the queue;
- a silent connection is ended, a live one is not;
- what the application sends is sent by one layer, its answer and what the server
  sends are passed up once, and an ack means that the stanza was handled;
- what was written of an entity reads back as the same, and writing one never
  leaves a lock behind;
- a command's answer gets to its caller, and the call ends whatever is lost;
- no more messages than the day's limit go out; a message goes out once, and what
  the server said of it is kept;
- a bot that runs has an owner, a failed rotation cleans up, and every call of the
  manager ends.

## 2. Modules

**NoiseConnection** is one account's connection. `Net` (inside `asyncore.loop` or
`YowStack.loop`), the worker of each connection and `Pinger` have a program
counter each. A step is what runs between two accesses to state that another
thread reads: `ResetMachine` and `DropTransport` are the two lines of
`WANoiseProtocol.reset`, `InstallTransport` and `WorkerFinish` the end of
`start`, `FlushAcquire`, `FlushLoop`, `FlushRecv`, `FlushTake` and `FlushDeliver`
one turn of `_flush_incoming_buffer`. A segment names the worker whose keys open
it and its number, which is the nonce of the cipher: a frame decrypted out of
order fails to authenticate. An exception leaves the flush without a release, as
in the code, which has no `finally`.

**StackLoop** is the loop threads of several accounts, and the class attribute
`YowStack.__detachedQueue`. A thread connects a stack and serves it while it is inside
`asyncore.loop`, takes the oldest continuation when that returns, handles it (the reboot of
`AxolotlControlLayer`, then `SendLayer.onDisconnected`), and reconnects or ends. A connection
ends in four ways: the peer closes it (`HandleClose`), a handler on its own thread asks for a
DISCONNECT (`SelfDrop`: a refusal, which sets `detect40x`, or uploaded keys, which set the
reboot flag), another thread does (`DropClose`: the ping thread, the handshake's, the QR thread), or the
application quits (`QuitClose`). `Destroy` is `destroyConnection`, which assigns DISCONNECTING
whatever the state was and closes the newest dispatcher. The close, the test of the state
(`Test`, `DropTest`) and the announcement (`Tell`, `DropTell`) are steps of their own, on
whichever thread they are. `ConnectRaises` is an exception of `connect`, which ends the
thread and, for an OSError, quits the thread's own account. `late` is history: the stacks one of whose
connections was ended twice, by a DISCONNECT of an ended connection, a read of a socket that
another thread closed, a connect event for a socket closed meanwhile, or the return from
a reboot's nested connection, whose interrupted event goes on to the layers above.

**PreKeys** is the life of a one-time pre-key, from the row in the table to the
message that consumes it. A key is an id and a generation, because ids are used
again. The continuation of DISCONNECTED connects while it is still running, so
`at` says whose connect the running loop is nested in: the reboot's
(`control.on_disconnected`) or the application layer's.

**Session** is two devices that both run this library. A key is a fresh number;
two sides derive one chain exactly when they agree on the base key and both
ratchet keys. A thread loads a record and computes on it (`ProcessBundle`,
`Encrypt`, `Decrypt`), stores it (`Store`), removes the pre-key (`RemovePreKey`)
and only then sends or delivers (`Finish`). Messages stay in the network
for ever. **Delivery** is what this promises, at-most-once delivery, and
`AtMostOnce` is the refinement `Session => Delivery!Spec`, in which a message is
sent when it enters the network.

**GroupKeys** is one sender in a group, its two threads, and the receiving layer
of each member. `Load`, `Store` and `Emit` are the steps of a send between which
the other thread can run.

**Retries** is a sender and the devices of one contact. A session is
abstracted to its generation and whether the device can decrypt under it; either side may have
none at first. Questions to the server (`calls`: the contact's devices, the keys of some of
them) are answered in any order, `MaxErrors` of them with an error, after which the
code only logs: `OnDevicesError`, `OnKeysError` (of a first message or of a retry, whose copy has left the
queue), `OnSenderKeysError`. `failed` is history: the messages one of whose questions got an error. The layer sends
both kinds of messages and keeps both in one queue; Retries and GroupKeys have the entries of
their own kind, for which the other's are only room taken.

**Ping** is the ping thread of each login, the loop threads of two accounts, and the steps
of `stop_thread`, which all of them run without its lock. A `Drop` closes whatever connection there
is and queues a DISCONNECTED (`gone` counts them), also for a connection that has ended; `twice`
remembers that. A loop thread takes a DISCONNECTED unless it is inside the connection, so
that the second one may stop the ping thread of the connection made after the first.
Creating a connection and being connected are one step, and a second dispatcher beside an open
one is StackLoop's.

**Commands** is `callDirect` in the threads of several callers, and the network
thread with the answers. `Send`, `Check`, `Enter`, `Fetch`, `Get` and `Timeout` of a
caller and `NetCheck` and `NetSet` are the points between which the other side can
look at or change `cmdEventMap`; the commands
are represented by one of each way a request is sent and its answer dispatched:
callbacks in iqRegistry, the handler of an entity's class, the ack of a media
message, no answer at all. An exception below leaves the topmost lock `Lost`.

**Outbox** is `SendLayer`'s sending above the protocol stack. A call runs in its
thread: the limit, the restriction and the invalid numbers (`Admit`), the
contact (`Lookup`, `Sync`), the checks before a send (`Direct`), the message
(`Put`), its row (`Register`) and the event of its id (`Signal`). `Net` handles the
answers and acks, and when a contact was synchronised repeats the call with the same
steps, so `work` says which call a thread is at, and `ctx` whose context its id
goes to. `Fallback` is `send_text`'s second attempt.

**Accounts** is the table of `AccountManager`, its lock, the clients and their
bots. A call is a record with the name of its next step, and each client has one
bot. `BotStep` is the bot's thread (connect, hear that it is logged in or refused,
end), which waits for no lock of the manager.

**Structs** says how the library's classes move attributes to and from the wire,
as a table: the slots of a class name each attribute's place and how the
code tests it when it writes and when it reads. `Write` and `Read` interpret such a
table. **MessageStructs** is the table of message contents (`attributes/` and
`converter.py`), **Stanzas** that of the entity classes. **Wire** is the parallel
layers between the application and the encryption: `OfferDown` and `OfferUp` offer an
entity or a node to one sublayer, with that layer's tests, and do what its
handler does; `Arrive` is the other end, which for messages is the same library, or the
server's answer. `WritePair` takes the classes that one side writes and the other reads.

**NoiseConnectionProofs**, **StackLoopProofs**, **PreKeysProofs**,
**SessionProofs**, **SendingProofs** (GroupKeys and Retries), **OutboxProofs**, **RequestsProofs** (Commands and Ping)
and **AccountsProofs** hold the theorems (section 5).

The MC modules put runs together that share a specification or are too small to
stand alone. A variable that never changes says which one a behaviour belongs to,
and the properties name it: **MCNoise** (`calm` or not), **MCSession** (`instance`:
"crash", "limits", "room"), **MCRequests** (Commands or Ping), **MCStanzas** (Outbox or
Wire) and **MCSending** (GroupKeys or Retries). **MCAccounts** breaks the symmetry of the threads: the first call, and
a rotation if there is one, are `First`'s. The other configurations are of the
modules themselves.

Each step that a bug might plausibly change has a mutant beside it ("Mutant
of ..."), used only to see that a property notices the change.

## 3. Runs

`CHECK_DEADLOCK FALSE` is in every cfg: each system may come to rest (all messages
sent, all bounded losses spent, every account quit).

| run | what it shows |
|---|---|
| noise | connections dropped at any point, with workers of old ones still alive: one thread in the flush, frames in order. In the calm instance (drops between exchanges only) no frame is stranded, the lock comes back, every connection gets the keys of its worker, and all that was sent is delivered |
| stack_loop | two stacks, connections ended by the peer, by their thread and by others, refusals, reboots, a connect that raises, a quit: one thread per stack and one continuation per loss, unless a connection of the stack is ended twice; while all is calm a thread ends only between another's close and its continuation, and a loss is followed by a reconnect where no thread looks into that window |
| prekeys | losses, crashes, refusals, requests: ids are unique, what the server hands out is held here, only stored keys are marked as sent; with a server that accommodates, keys get uploaded and an active login follows |
| session | with a crash at any step, and with full records: at-most-once delivery (the refinement of Delivery), no key used twice; with room in the records every message is decrypted |
| group_keys | both threads, a lost stanza, a full queue: nothing is delivered twice; with sends that do not overlap no key is used twice and every member gets everything |
| retries | two devices, sessions that are broken, missing, or stay broken, and a question answered with an error: no retry request finds its message gone, and each message is decrypted or given up, unless the error was for its sake |
| requests | seven kinds of command in two threads, a lost connection, an exception below: answers get to their entry, and calls end; the ping thread and the peer end connections: the ping thread ends silent ones only, and every silent one where no DISCONNECT came upon an ended connection |
| stanzas | every request, message content and stanza of the server with its attributes varied: handled by one layer, passed up or confirmed once, readable, no lock kept; two sends to a contact, a new, a renumbered and an invalid number: the limit holds, acks are kept, and only the text to a new number is repeated |
| accounts | two threads and every call of the manager, bots that log in, are refused, fail or lose connections: no bot without an owner, a failed rotation cleans up, every call ends |

Three runs expect a violation. They compare the code with a sentence of its docs or
comments:

| run | sentence | what the code does |
|---|---|---|
| stack_quit_others | docs/MULTIPLE_ACCOUNTS.md:154, no state is shared | the `sys.exit` of a quit ends another account's thread |
| group_first | layer_send.py:372, layer_receive.py:314, the first message carries the key | the skmsg is tried first, and the key beside it is not looked at |
| accounts_remove_all | docs/MULTIPLE_ACCOUNTS.md:97, an application cleans up with `remove_all` | with an account in the table the call waits for the lock it holds itself |

Seen while modelling, with no run of their own, because the property would only
restate the line that decides it or holds of the models' restrictions (section 4):

- an account's continuation runs in another's thread (yowstack.py:126), where
  docs/MULTIPLE_ACCOUNTS.md:147 says that events are isolated;
- a continuation that waits for its second before the reconnect reconnects after a
  quit (yowbot_layer.py:244);
- the limit of 2000 skipped group messages takes the difference the wrong way
  round and never refuses (groupcipher.py:75);
- each message is queued twice and a receipt takes one copy out
  (layer_send.py:177), so that a receipted message stays until it is pushed out;
  and with three devices the receipts of two leave nothing for the retry of the
  third, which is only logged (layer_send.py:82);
- a retry by one device sends the message again to all (layer_send.py:136), and for
  a list of recipients the node's target is the first one (layer_send.py:106);
- the list of waiting messages may grow while it is iterated (layer_receive.py:45);
- an untrusted identity is saved, its bundle not processed again (manager.py:283);
- entries of requests that were never answered stay in iqRegistry (`layers/__init__.py`:149);
- a wrapped id of the signed pre-key is a float (manager.py:112).

The lists in Wire (`LostAttributes`, `Unreadable`, `Fragile`, `Twice`, `Unheard`) are
part of what the run shows: everything not on them survives, and the checks were
used to find what is on them. A change of the code that adds to them fails the run.

### Bounds

- noise: three connections in the calm instance, so that a worker meets
  the connection after its successor's; two where drops come anywhere, which is
  enough for a stale worker and a stale transport. Two frames each: one
  that arrives during the handshake and one that follows it.
- stack_loop: two stacks, so that each thread can serve either stack, both the same one, or
  the other's; one loss by the peer, two DISCONNECTs and a quit, which may all meet on one connection,
  and one connect that raises. What holds of more stacks and losses is proved.
- prekeys: batches of two and a threshold of one stand for the code's numbers:
  partial batches, reuse of the largest id and a second and third generation
  all occur. Two losses or crashes.
- session: `MaxChains` and `MaxArchived` are one (the code: 5 and 40) where crashes
  and limits are the question, and the code's in the "room" instance; `MaxSkip` is one
  (2000). Three or four messages and two or three bundles give simultaneous
  set-up, a ratchet in both directions and skipped messages across it.
- group_keys: one member, whose stanzas no other member's can change; four
  messages, so that two first ones, which wait for the group info, meet two others;
  the queue holds five entries, two a message, so that the third overflows it.
- retries: two devices, because a message is queued twice: with three
  `RetryServed` fails. Two broken generations in a row and a limit of two (3)
  requests, so that the limit is reached. One error, which may be of any of the four questions.
- requests: two calls, since a call meets one other at a time in the lock and none in
  the map, and one loss and one raise between them; for the pings, the code's limit of
  three, and five pings over two connections, so that pings left over from one can
  meet those of the next, and two loop threads, as many as can handle the two ends of a connection
  at once.
- stanzas: structures three deep, the depth at which a context info sits in a
  content. A class is tried with no optional attribute, with all of them, and with
  each alone, zero or given, or a structure varied in the same way: the code tests
  attributes one by one. Two calls with a limit of two and none, one or two messages
  earlier in the day, so that the limit is reached by a call and by a repeat.
- accounts: one account and two threads, as accounts share only the lock; two calls at once
  or in sequence, one of them a rotation at most; one environment, as the second is
  tried by the same steps.

### Fairness

Fairness is weak and on the steps of threads only: a Python thread that can run
does run, and the code blocks only where the guards say so. The server answers
what it was asked and delivers what it took; this is assumed only in MCNoise,
MCSession, MCSending and the FairSpecs of PreKeys and GroupKeys, which ask what
the client does with a server that works. StackLoop, Ping, Commands and
Accounts assume nothing of the server or of the bots (in StackLoop a thread that connects is fair,
and a drop that began is carried through; that the peer accepts, or ever closes, is not supposed); the waits of callers end at a
timeout. No loss, crash, send, pong, call or quit is ever obliged to happen. Where an MC module
combines instances, `Fairly(...)`, `OfCommands(...)` and `OfPings(...)` restrict the fairness to
the instance asked. Session's `DecryptNew` says that the server keeps offering a
message that was not yet decrypted, as it does until the receipt comes. Waiting for
the manager's lock needs no strong fairness, because the other threads make a
bounded number of calls.

## 4. Conditions

Some properties hold under a condition, which is a constant, an instance or an
antecedent. Without it the model leaves the property, and no
sentence of the repository promises more; the hazards carry these notes.

- `calm` (MCNoise): a connection lost during a handshake
  leaves its worker on the incoming queue, where it takes the next connection's
  server hello. Then `ServesConnection` fails; order and exclusion do not. And
  an exception under the flush keeps `_flush_lock`.
- `DirectSends` is FALSE (Session): a send to an explicit device encrypts in the
  application's thread, beside the network thread: both use the key of one iteration.
- `Alone` (GroupKeys): the same for group messages; the member then acknowledges
  a message that it never decrypted as a duplicate.
- A crash together with a full archive (Session): a crash after `Store` leaves the
  pre-key, and only the stored session
  then stops a repeat of its first message; once it is pushed out the repeat opens.
  The "crash" instance has place for the states it can make.
- `Accommodating` (PreKeys): refused uploads are only logged, and requests for
  keys during a passive login may leave it passive.
- `late` (OneThreadPerStack and QueuedOnce of StackLoop): a connection that is ended twice is
  announced twice, and two threads may then reconnect its stack. `destroyConnection` does not ask
  whether there is something to destroy (network/layer.py:97), a thread whose socket another one
  closed may still read from it and call `handle_close`, and a reboot reconnects inside the
  event it interrupts. A quit of one account, a refusal or a failed connect are no exceptions here.
- `Calm` (NoOrphan and Reconnects): a quit, a refused login and a connect that raises end the
  thread that runs them, which may have another account's continuations to take; and what is ended twice
  makes two continuations of one. `Searching` with a loss not yet announced: the thread that looks at the
  queue between another's close and its `put` ends, and its stack may stay down. NoOrphan
  says that this window is the only one.
- `i \in failed` (Settles of Retries): an error for a question is logged (layer_send.py:89,123,
  layer_base.py:72); for a retry the copy has left the queue by then.
- `losses = 0` (DropsSilent of Ping): a ping thread stopped between its
  check and `waitPong` puts its ping in the next connection's queue.
- `~twice` (SilenceEnds of Ping): the second DISCONNECTED of a connection that was ended twice stops
  the ping thread of the next one, whose silence then nobody notices.
- `raced` (ResultNotLost of Commands): both threads looked into the map before either
  wrote; or an error came before the caller's entry. `lock = Lost` (CallsEnd): an
  exception left the layers' lock behind.
- a message sent by an application's thread (StatusForward of Outbox): its ack may
  come before its row. A new contact (RepeatsOnlyNew): the text goes out once for the
  synchronisation and once for the failure the caller's timeout is taken for.
- quit before its connection, or `loose` (NoOrphan of Accounts): clients removed by choice
  without a quit, or before they count as started. `SelfBlocked` (CallsEnd): remove_all.
  A SystemExit of a quit outside the bot's loop (FailureCleans).
- `LostAttributes`, `Unreadable`, `Fragile`, `Twice`, `Unheard`, and the layers of
  contacts and groups, which come after the one that acks (Wire).

## 5. Proofs

`NoiseConnectionProofs` proves, for every number of connections and frames and for
each value of the switches, from `NoiseAssumption` alone (the bounds are
natural numbers, at least one connection):

- `TypeCorrect`: `Spec => []TypeOK`;
- `FlushIsExclusive`: `Spec => []FlushExclusive`, only the holder of `_flush_lock`
  is in the flush;
- `FramesInHand`: `Spec => []InOrderInv`;
- `FramesInOrder`: `Spec => InOrder`, the action property that the last frame
  handed up of each handshake stays or goes up by one.

`FlushExclusive` and `InOrder` are not inductive. The inductive invariant `IInv` is
`TypeOK /\ Unstarted /\ InOrderInv`. A frame counts in `rn` from its decryption and
in `lastUp` from its delivery; in between it is in the hand of a thread
at "deliver", which has the lock. So `InOrderInv` says: the lock holder is the only
thread in the flush; the two counters agree unless some thread has the frame in
hand; and then they differ by one. `Unstarted` is needed because EVENT_AUTH
sets the program counter of a worker: the worker of a connection has not run
before it, so no thread is thrown out of the flush. The proof has two kinds of
step: a `Move` changes neither the flush's variables nor any thread inside the
flush, and all of the connection's steps except `Connect` and `OnAuth` are moves;
the five steps of the flush have a lemma each where they disturb a conjunct.

Three more theorems are of the calm behaviours of `MCSpec`, where the link drops only
between exchanges:

- `CalmPhases`: `MCSpec => [](calm => CalmInv)`;
- `FramesNotStranded`: `MCSpec => []CalmNoStrandedFrame`, no frame waits in the queue when all
  threads are back in their loops;
- `LockComesBack`: `MCSpec => []CalmLockReturned`.

`CalmInv` says that a connection is in one of seven phases: closed, closing, before
EVENT_AUTH, before the hello, waiting for the answer, entering TRANSPORT, serving. In each
the places of the threads, the machine's state, the keys and the queue go together: only the
worker of the latest connection runs, and the queue holds the frames from the first one not
decrypted to the last one sent (`Frames`), so that the frame at the head is the one the keys
ask for and no thread raises. That the last of Net and the worker to leave the flush finds the
queue empty is part of `Serving`: a frame that waits has a thread coming for it. First the
calm instance's actions are shown to be the unrestricted ones' (`CalmIs`), then each
keeps the phases or leads to the next.

`StackLoopProofs` proves, for every finite set of accounts, any number of losses, drops and
failed connects, and whoever quits, from `StackAssumption`:

- `TypeCorrect`: `Spec => []TypeOK`;
- `OneThread`: `Spec => []OneThreadPerStack`;
- `LossContinuedOnce`: `Spec => []QueuedOnce`;
- `NoneLeftBehind`: `Spec => []NoOrphan`.

The argument is about a token. The connection of a stack that is not late, the right to announce
its end, and the continuation are one thing, which is in one place: in the queue, once; with another
thread that closed the socket; or with the thread that works for the stack (`Token`). `Take` moves it
from the queue to a thread, `Reconnect` makes it a connection, a close gives it to whoever closed,
and the announcement puts it back. What keeps a step from making a second one is what the
network layer knows (`Flags`): whoever is to announce a loss finds it not yet announced, whoever
is to reconnect finds the stack not connected, and the dispatcher of an open socket is the
newest, so that a DISCONNECT closes the right one. Where the layer is wrong about it, the stack is late from
that step on. The token is lost only to a quit, a refusal or a connect that raised
(`Kept`).

`NoOrphan` follows by counting. While all is calm every stack has its token; a thread at an empty
queue, with no loss about to be announced, has none; so each stack's token would be with one of the
other threads, one stack each, and there are not enough of them.

`PreKeysProofs` proves, for all batches, thresholds, generations and losses:

- `KeysInHand`: `Spec => []IInv`;
- `KeysUsable`: `Spec => []ServerKeysUsable`, what the server can hand out is
  held here.

The table alone does not give it, because ids are used again and uploads repeated.
A key is `Gone` when the server has handed it out, and never comes into stock again;
only such a key can be consumed. `Settled` says of every key in an upload that it
is in the table or `Gone`, so an upload that is repeated, or answered late, brings
nothing into stock that a message has consumed meanwhile.

- `KeysInPlace`: `Spec => []JInv`;
- `IdsUnique`: `Spec => []UniqueIds`;
- `MarkedWasStored`: `Spec => []SentWasStored`.

A generation's ids start above the largest one left in the table, which is why a consumed
key's id comes again and why it does not come beside a key that is still there. That
the largest id is an upper bound of a finite set is shown with the least number
principle (`Least`, from the library's theorem that `<` is well founded on `Nat`).
`SentWasStored` depends on the order of the wire: a result names keys of the table that the
server stored (`WireKeys`), and the message that consumes a key, and so makes its id free,
comes after every result that marks it. What a login has seen (`LoginKnows`) keeps uploads
of an earlier login from being answered in a later one.

`SessionProofs` proves, for any numbers of messages, bundles, crashes, pre-keys, chains,
archived states and skipped messages, from `SessionAssumption`:

- `TypeKept`: `Spec => []TypeOK`, whichever thread encrypts: records keep to their limits on
  states and chains, saved keys are behind their chain, the server offers what is stored here;
- `CrashWithin`: `MCSpec => [](instance = "crash" => WithinLimits)`, the same where
  MCSession's steps are Session's; its other instances are instances of `TypeKept`;
- `KeysOnce`: `Spec => []KeysUsedOnce`, where only the network thread encrypts (`~DirectSends`);
- `OnceDelivered`: `Spec => AtMostOnce`, the refinement of Delivery, where in addition
  `RoomForAll` (`MaxInit <= MaxArchived + 1`) or `NoCrash` (`MaxCrash = 0` and
  `MaxInit <= OneTime`) holds;
- `NothingIsLost`: `Spec /\ []RoomForKeys => []NothingLost`, where only the network thread encrypts,
  nothing crashes and `RoomForAll` holds (`Roomy`);
- `ShortHasRoom`: `Spec => []RoomForKeys`, where in addition `MaxMsg + 1 < MaxChains` and
  `MaxMsg <= MaxSkip + 1`.

The hypotheses are those of section 3, and without each of them the property fails: a send of the
application's thread uses a key twice, and a repeated first message opens again when its session
was pushed out of the archive while the pre-key was kept by a crash, or when it named none because
the server had run out. With the code's forty archived states `RoomForAll` allows forty-one
sessions with one peer; for more, `NoCrash` carries the argument.

`TInv` gives everything a record, a message or a thread's work holds its type, so that no step
reads a place that is not there; keys are below `nextKey`, which makes the next one fresh.
`KInv` is about sender chains. A side's ratchet keys are its own (`OwnKeys`) and each is the sender
key of one state of a record (`OwnChains`); the counter of that state, in the stored record
and in the one about to be stored, is ahead of every message that went out under the key
(`ChainsAhead`), also after a crash, because a message goes out only after its record was stored.

`DInv` is about receiver chains. No state of a record that is or will be stored opens a message
that was taken (`TakenShut`): a chain is past its key and has not saved it, and the sender key that
would make the chain anew is not the one it was made with. This holds of a state of that
message's base; what remains is that no new state of that base is ever made. While there is
room, a base that a side took a message of stays in the record (`Stays`, by counting bases: there
are no more than bundles processed). While nothing crashes, each base goes with one pre-key
(`OneHello`), and that is removed from the store, or is about to be, once a record has the base
(`SpentKeys`); that every bundle finds one is again a count (`Plenty`). `IdsOnce` and `GotOnce`
tie this to Delivery: what finishes is a send of a new id, a delivery of one not delivered, or a
stutter (`StepRefines`).

`NothingLost` is what `RoomyArrives` rests on, for any bounds and without its fairness: whenever a
side's network thread is idle, every message of the peer that it did not hand on passes the conditions
of `Decrypt` (`Decryptable`): its pre-key is there, and a state opens it before another calls it a
duplicate. `RoomForKeys` says that a message under way has its chain in the
session, or that there is a place for it, since at `MaxChains` chains a new one costs the oldest and
its late messages; and that no message is further in its chain than `MaxSkip`. With the code's
numbers that is five chains in each session, the first included, and 2000 messages in each.
A crash is excluded because it can lose work that took a key.

`LInv` speaks of the states, messages and receipts as they will be when the work begun is done
(`States`, `Made`, `Had`), so that storing, removing and finishing change nothing in it. The argument is that
the two ratchets take turns. The peer's state has a chain for a side's ratchet key, with the right
key of its own, or would make it with the key it uses now (`Follows`); that holds of what a side
encrypts next (`Meets`) and of what it encrypted (`Reaches`), and a chain that its sender has left is
one that the peer has. So when a message brings an unknown ratchet key, it is the one that its
sender uses now, the receiver's new chain is under the key the sender answers to, and what the receiver
sent under its old key has its chain (`ReadOn`, `AnswersOn`). A session that the peer does not have yet
is one from whose first chain neither side moved (`CanOpen`), and its pre-key is in the store
(`PreKeyThere`), since only the message that made a session removes its key (`OwnPreKey`,
`Removes`). Ratchet keys are of one session (`KeysApart`), so that an earlier state of the record
does not know a message's, and calls it invalid. `Few` counts: a receiver's chains are no more than the
messages it had, and one.

`SendingProofs` proves of GroupKeys, for every set of members, any messages, losses and queue
size, and both threads of the sender overlapping as they may:

- `OnePlaceEach`: `Spec => []IInv`;
- `GotAtMostOnce`: `Spec => []GotOnce`, no member gets a message twice.

`OnePlace` says where a message can be on its way to a member: not sent yet, waiting
for the group info, with a thread of the sender, in a stanza, in a retry request,
waiting for a key, in the answer. It is in one of these at most, and in none once it was
delivered; each action moves it from one place to the next, and has a lemma.

- `Bounded`: `Spec => []BInv`;
- `TypesKept`: `Spec => []TypeOK`, with the queue's size and no saved key ahead of its chain;
- `EachKeyOnce`: `Spec => KeysUsedOnce`, the action property, while the threads do not overlap.

`TypeOK` bounds the chain by the messages, which needs a count: the iteration, with the messages
that still wait for the group info or for their `Store` (`Pending`), stays below the next id
(`Counted`). For `KeysUsedOnce`, every message that went out has an iteration below the stored one,
and one that is about to is between (`OneKeyEach`); this is kept by the steps from a state
where the threads do not overlap to another, which is what the property asks.

And of messages to contacts (MCSending), for any messages, sessions that are broken or missing, and
limit of retries, from `ContactsAssumption` (the bounds are natural numbers):

- `RetriesAreServed`: a contact of one or two devices satisfies
  `MCSpec /\ []HasRoom => []RetryServed`.

Both hypotheses are about the number of copies. A message is queued twice, each report of a device
takes a copy out, and `HasRoom` says that no copy is pushed out because the queue is full; a third
device, or a full queue, does leave a request unserved (section 3). An answer with an error takes nothing from the queue and adds no
report. `RetryServed` only says what has
happened to requests so far. What makes it last is a balance (`Covered`): for each message, the reports in the
sender's inbox, and the copies in the network and among the messages that wait for the sender's
keys, each of which becomes one report, are together no more than the copies in the queue. Sending
adds two to the queue and at most one to each device; a receipt or a request takes one from both
sides. For `OnSenderKeys` the balance must hold over all messages that waited: the states between
are a recursive function, which exists by the least number principle (`StatesExist`), and each step
of it adds one report, whichever way a message is handled (`HandledIs`, `AnsweredEach`).

`OutboxProofs` proves, for any numbers, kinds of calls, limit, losses and calls,
from `OutboxAssumption`:

- `Invariant`: `Spec => []IInv`;
- `LimitCorrect`: `Spec => []LimitHolds`;
- `StatusCorrect`: `Spec => StatusForward`, the action property;
- `RepeatsCorrect`: `Spec => []RepeatsOnlyNew`.

None of the three is inductive. Between the test of the limit and the send lie
several steps of a thread, and a call passes from its own thread to `Net` and back.
So the invariant (`IInv`) says that a call's message is in one hand until it is sent: its
caller's thread, a question to the server, or `Net` (`OneHand`); that the count covers
what went out and what was let through and may still (`CountIsEnough`); that only sent
messages have rows, and what `Net` registers has none yet (`RowsOfSent`); and that the
id of a known contact's text is signalled to the caller that waits for it, so that its
wait ends with the id (`KnownGetsId`).

`RequestsProofs` proves, for any commands, calls, losses and exceptions (Commands), and
for any number of connections, pings and unanswered pings allowed (Ping):

- `AnswersInPlace`: `Spec => []CallInv`;
- `AnswersNotLost`: `Spec => []ResultNotLost`;
- `OnePingThread`: `KeepAlive!Spec => []PingInv`;
- `PingsDropSilent`: `KeepAlive!Spec => DropsSilent`, the action property.

An answer passes from the wire through `Net` to the map, and its caller may be anywhere
meanwhile. `CallInv` says that it is in one place (`OneAnswer`); that the registry knows its call
until it was dispatched (`Kept`), and that exactly one layer passes it up (`Routed`), which is shown
for each kind of command and answer from the tables of Commands; that the two races of the map are
on record before `Net` writes (`RacesKnown`); and that what was heard stands in the entry until the
caller gets it (`ToldInMap`). For the pings, what is needed is that while connections end only by ping threads
there is one ping thread to each, whichever loop thread made it, which nobody but itself stops and which registers a
ping only after it sent the one before (`OfConnection`): then the queue that reaches the
limit holds the pings of this connection, all sent and none answered.

`AccountsProofs` proves, for any accounts, environments and threads:

- `ClientsInPlace`: `Spec => []IInv`;
- `NoOrphans`: `Spec => []NoOrphan`;
- `RotationCleans`: `Spec => FailureCleans`, the action property.

The argument is one of ownership. A call is at the places of its operation with the lock where the
code holds it (`Placed`, `Locked`). From the client's making to its entry into the table only the call
that adds it knows it (`Private`), and the account has no other client (`InPlace`); it drops the client
only when its bot was told to quit (`Renewing`). So every bot is a client's in the table, or in the
hands of one call, or was told to quit, or its client was removed without that (`Kept`). A
rotation leaves the lock between its calls; `Cleaned` says that what it then has in the table
is nothing of its own but what was told to quit.

Only model-checked:

- the liveness properties, which with fairness and ENABLED are out of the prover's reach;
- `Survives`, `LocksReturned` and `HandledOnce`: Structs, MessageStructs, Stanzas and Wire need
  RECURSIVE operators, since a structure holds structures, and their constants are tables of the
  code, which the run goes through entirely;
- what Retries does with three devices, or with a queue that is full.

Induction over the numbers is within reach in the form of the least number principle; what stays
out is induction over data, and so what a recursive definition computes.

## 6. Not modelled

The components with status `not_modelled` in `PROJECT.json` carry their reasons.
In short:

- cryptography is treated as perfect, keys as distinct values; a generated protocol
  buffer is a place that is there or not;
- the framing and the coder are conversions of bytes done by one thread. What can be
  said of them, that decoding inverts encoding, is about byte strings, of which the
  models know nothing;
- registration, media uploads and HTTP are single requests with nothing beside them;
- configuration, profiles, environments of devices and the database's schema are data
  or read and written by one thread. The transactions that matter are in Session and
  PreKeys;
- scripts, console and examples are entry points; the stores of earlier versions are
  opened by scripts only.

Within modelled components: the branches of `SendLayer.onDisconnected` for pairing and for
`HC_MODE`; a result of a key fetch that names an asked device neither with keys nor with an error
(`skipEncJids`); of a media notification, what its proto holds; trust in identities and their changes, the signed
pre-key's rotation, lists of recipients, the peer category of messages, pairing,
membership changes of a group, proxies, the application's callbacks for what it
received, argument checks and results of commands.

## 7. What could follow

- trust and identity changes in Session (autotrust and the repeated bundle), and lists
  of recipients in Retries, both of which multiply the states of modules that are
  near what TLC does in minutes.
