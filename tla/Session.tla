------------------------------ MODULE Session ------------------------------
(***************************************************************************)
(* The pairwise encryption sessions of two devices that both run this      *)
(* library: SessionBuilder and SessionCipher over the records that the     *)
(* session store keeps.                                                    *)
(*                                                                         *)
(* A key is a number, fresh when it is generated; side s has signed        *)
(* pre-key s.  A session state is told apart by the base key of the side   *)
(* that set it up, a chain by the ratchet keys of its sender ("eph") and   *)
(* its receiver ("with"): both sides derive the same chain, and the MAC    *)
(* verifies, exactly when the three agree.  Messages stay in the network   *)
(* for ever, so they are lost, delayed, reordered and repeated.            *)
(*                                                                         *)
(* A thread loads the record, computes on its copy, stores the copy and    *)
(* only then hands on the message; no lock spans the steps.  Net decrypts, *)
(* sets up sessions and encrypts; app is the application's thread, which   *)
(* encrypts itself for an explicit device or a list of recipients.         *)
(***************************************************************************)
EXTENDS Integers, Sequences, FiniteSets, SequencesExt, FiniteSetsExt

CONSTANTS
    MaxMsg,       \* bound: messages encrypted
    MaxInit,      \* bound: pre-key bundles processed
    MaxCrash,     \* bound: crashes
    OneTime,      \* one-time pre-keys of each side at the server
    MaxChains,    \* receiver chains kept (5)
    MaxArchived,  \* archived states kept (40)
    MaxSkip,      \* messages a chain may be skipped ahead (2000)
    DirectSends   \* does the application's thread encrypt too?

ASSUME SessionAssumption ==
    /\ {MaxMsg, MaxInit, MaxCrash, OneTime, MaxSkip} \subseteq Nat
    /\ {MaxChains, MaxArchived} \subseteq Nat \ {0}
    /\ DirectSends \in BOOLEAN

Side == {1, 2}
Peer(s) == 3 - s
SignedPreKey(s) == s
None == 0
Thread == {"net", "app"}
Id == 1..MaxMsg

VARIABLES
    sess,      \* stored record: the current state, then the archived ones
    preKeys,   \* one-time pre-keys in each side's store
    stock,     \* one-time pre-keys of each side the server still hands out
    job,       \* what each thread has computed and not finished
    network,   \* every message sent so far
    got,       \* how often each message was handed to the application
    nextKey, nextId, inits, crashes

local == <<sess, preKeys, job>>
counters == <<nextKey, nextId, inits, crashes>>
vars == <<local, stock, network, got, counters>>

Idle == [at |-> "idle"]

TypeOK ==
    /\ \A s \in Side :
          /\ Len(sess[s]) <= MaxArchived + 1
          /\ \A i \in DOMAIN sess[s] : LET st == sess[s][i] IN
                /\ Len(st.chains) <= MaxChains /\ st.n \in Nat
                /\ {st.base, st.us, st.theirs} \subseteq 0..(nextKey - 1)
                /\ \A c \in Range(st.chains) :
                      c.next \in Nat /\ \A k \in c.saved : k < c.next
          /\ preKeys[s] \subseteq 1..OneTime /\ stock[s] \subseteq preKeys[s]
          /\ \A t \in Thread : job[s][t].at \in {"idle", "store", "remove", "finish"}
    /\ \A m \in network : m.id \in 1..(nextId - 1) /\ m.by \in Side
    /\ got \in [Id -> Nat]

Init ==
    /\ sess = [s \in Side |-> <<>>]
    /\ preKeys = [s \in Side |-> 1..OneTime] /\ stock = preKeys
    /\ job = [s \in Side |-> [t \in Thread |-> Idle]]
    /\ network = {} /\ got = [i \in Id |-> 0]
    /\ nextKey = 3 /\ nextId = 1 /\ inits = 0 /\ crashes = 0

-----------------------------------------------------------------------------
(* Session states and records.                                             *)

\* Mutant of Archive: the oldest state is not dropped.
ArchiveAll(rec, st) == <<st>> \o rec

\* archiveCurrentState, or the first state of a fresh record.
Archive(rec, st) ==
    LET all == <<st>> \o rec IN SubSeq(all, 1, Min({Len(all), MaxArchived + 1}))

\* promoteState: the state that decrypted moves to the front.
Promote(rec, i, st) == <<st>> \o RemoveAt(rec, i)

\* initializeSessionAsAlice, with the unacknowledged pre-key message.
AliceState(s, pid) ==
    [base |-> nextKey, us |-> nextKey + 1, theirs |-> SignedPreKey(Peer(s)),
     n |-> 0, pk |-> TRUE, pid |-> pid,
     chains |-> <<[eph |-> SignedPreKey(Peer(s)), with |-> nextKey,
                   next |-> 0, saved |-> {}]>>]

\* initializeSessionAsBob.
BobState(s, base) ==
    [base |-> base, us |-> SignedPreKey(s), theirs |-> None, n |-> 0,
     pk |-> FALSE, pid |-> None, chains |-> <<>>]

HasChain(st, eph) == \E c \in Range(st.chains) : c.eph = eph

\* getOrCreateChainKey: the chain a message belongs to.
Chain(st, eph) ==
    IF HasChain(st, eph) THEN CHOOSE c \in Range(st.chains) : c.eph = eph
    ELSE [eph |-> eph, with |-> st.us, next |-> 0, saved |-> {}]

\* ... and its storing: an unknown ratchet key adds a receiver chain, beyond
\* the limit at the cost of the oldest, and starts a new sender chain.
WithChain(st, c) ==
    IF HasChain(st, c.eph)
    THEN [st EXCEPT !.chains = [i \in DOMAIN @ |->
                                   IF @[i].eph = c.eph THEN c ELSE @[i]]]
    ELSE LET all == Append(st.chains, c) IN
         [st EXCEPT !.us = nextKey, !.theirs = c.eph, !.n = 0,
                    !.chains = SubSeq(all, Max({1, Len(all) - MaxChains + 1}),
                                      Len(all))]

\* Mutant of Advanced: the key of a late message is used and kept.
AdvancedKeeping(c, k) ==
    IF k < c.next THEN c
    ELSE [c EXCEPT !.next = k + 1, !.saved = @ \cup c.next..(k - 1)]

\* Mutant of Advanced: the keys of skipped messages are not saved.
AdvancedForgetting(c, k) ==
    IF k < c.next THEN [c EXCEPT !.saved = @ \ {k}] ELSE [c EXCEPT !.next = k + 1]

\* getOrCreateMessageKeys: a saved key is removed; a chain skipped ahead
\* saves the keys of the messages it skips.
Advanced(c, k) ==
    IF k < c.next THEN [c EXCEPT !.saved = @ \ {k}]
    ELSE [c EXCEPT !.next = k + 1, !.saved = @ \cup c.next..(k - 1)]

\* decryptWithSessionState: what it makes of a message, and the copy of the
\* state it leaves when the MAC verifies.
Duplicate(st, m) ==
    LET c == Chain(st, m.eph) IN m.ctr < c.next /\ m.ctr \notin c.saved

Opens(st, m) ==
    LET c == Chain(st, m.eph) IN
    /\ m.ctr < c.next => m.ctr \in c.saved
    /\ m.ctr - c.next <= MaxSkip
    /\ m.base = st.base /\ m.with = c.with

Opened(st, m) ==
    [WithChain(st, Advanced(Chain(st, m.eph), m.ctr))
        EXCEPT !.pk = FALSE, !.pid = None]

\* decryptWithSessionRecord: the states are tried in turn as long as they
\* call the message invalid; a duplicate ends the search.
Opening(rec, m) ==
    {i \in DOMAIN rec :
        /\ Opens(rec[i], m)
        /\ \A j \in 1..(i - 1) : ~Opens(rec[j], m) /\ ~Duplicate(rec[j], m)}

\* processV3: a base key seen before leaves the record as it is.
Processed(s, rec, m) ==
    IF ~m.pk \/ \E st \in Range(rec) : st.base = m.base THEN rec
    ELSE Archive(rec, BobState(s, m.base))

-----------------------------------------------------------------------------
(* A thread's work: load and compute, store, remove the pre-key, finish.   *)

Begin(s, t, work) == job' = [job EXCEPT ![s][t] = work]

\* processPreKeyBundle: a bundle with a one-time pre-key while there are any.
ProcessBundle(s) ==
    /\ inits < MaxInit /\ inits' = inits + 1
    /\ job[s]["net"] = Idle
    /\ LET p == Peer(s)
           pid == IF stock[p] = {} THEN None ELSE Min(stock[p])
       IN /\ stock' = [stock EXCEPT ![p] = @ \ {pid}]
          /\ Begin(s, "net", [at |-> "store", kind |-> "session", pid |-> None,
                              rec |-> Archive(sess[s], AliceState(s, pid))])
    /\ nextKey' = nextKey + 2
    /\ UNCHANGED <<sess, preKeys, network, got, nextId, crashes>>

Message(s, st) ==
    [id |-> nextId, by |-> s, base |-> st.base, eph |-> st.us,
     with |-> st.theirs, ctr |-> st.n, pk |-> st.pk, pid |-> st.pid]

\* Mutant of Encrypt: the chain key is not advanced.
EncryptSameKey(s, t) ==
    /\ nextId <= MaxMsg /\ nextId' = nextId + 1
    /\ t = "app" => DirectSends
    /\ job[s][t] = Idle /\ sess[s] # <<>>
    /\ Begin(s, t, [at |-> "store", kind |-> "send", pid |-> None,
                    rec |-> sess[s], msg |-> Message(s, Head(sess[s]))])
    /\ UNCHANGED <<sess, preKeys, stock, network, got, nextKey, inits, crashes>>

Encrypt(s, t) ==
    /\ nextId <= MaxMsg /\ nextId' = nextId + 1
    /\ t = "app" => DirectSends
    /\ job[s][t] = Idle /\ sess[s] # <<>>
    /\ Begin(s, t, [at |-> "store", kind |-> "send", pid |-> None,
                    rec |-> [sess[s] EXCEPT ![1].n = @ + 1],
                    msg |-> Message(s, Head(sess[s]))])
    /\ UNCHANGED <<sess, preKeys, stock, network, got, nextKey, inits, crashes>>

\* decryptMsg and decryptPkmsg.  A message that cannot be decrypted, or whose
\* one-time pre-key is gone, leaves everything as it was.
Decrypt(s, m) ==
    /\ m.by = Peer(s) /\ job[s]["net"] = Idle
    /\ m.pk \/ sess[s] # <<>>
    /\ LET new == m.pk /\ \A st \in Range(sess[s]) : st.base # m.base
           rec == Processed(s, sess[s], m) IN
       /\ new /\ m.pid # None => m.pid \in preKeys[s]
       /\ \E i \in Opening(rec, m) :
             Begin(s, "net", [at |-> "store", kind |-> "receive", msg |-> m,
                              pid |-> IF new THEN m.pid ELSE None,
                              rec |-> Promote(rec, i, Opened(rec[i], m))])
    /\ nextKey' = nextKey + 1
    /\ UNCHANGED <<sess, preKeys, stock, network, got, nextId, inits, crashes>>

\* storeSession replaces the row in one transaction.
Store(s, t) ==
    /\ job[s][t].at = "store"
    /\ sess' = [sess EXCEPT ![s] = job[s][t].rec]
    /\ Begin(s, t, [job[s][t] EXCEPT
                      !.at = IF job[s][t].pid = None THEN "finish" ELSE "remove"])
    /\ UNCHANGED <<preKeys, stock, network, got, counters>>

\* Mutant of RemovePreKey: the key stays in the store.
KeepPreKey(s, t) ==
    /\ job[s][t].at = "remove"
    /\ Begin(s, t, [job[s][t] EXCEPT !.at = "finish"])
    /\ UNCHANGED <<sess, preKeys, stock, network, got, counters>>

RemovePreKey(s, t) ==
    /\ job[s][t].at = "remove"
    /\ preKeys' = [preKeys EXCEPT ![s] = @ \ {job[s][t].pid}]
    /\ Begin(s, t, [job[s][t] EXCEPT !.at = "finish"])
    /\ UNCHANGED <<sess, stock, network, got, counters>>

\* The ciphertext goes down, the plaintext goes up.
Finish(s, t) ==
    /\ job[s][t].at = "finish"
    /\ LET j == job[s][t] IN
       /\ network' = IF j.kind = "send" THEN network \cup {j.msg} ELSE network
       /\ got' = IF j.kind = "receive" THEN [got EXCEPT ![j.msg.id] = @ + 1]
                 ELSE got
    /\ Begin(s, t, Idle)
    /\ UNCHANGED <<sess, preKeys, stock, counters>>

Crash(s) ==
    /\ crashes < MaxCrash /\ crashes' = crashes + 1
    /\ job' = [job EXCEPT ![s] = [t \in Thread |-> Idle]]
    /\ UNCHANGED <<sess, preKeys, stock, network, got, nextKey, nextId, inits>>

ThreadStep(s, t) == Store(s, t) \/ RemovePreKey(s, t) \/ Finish(s, t)

Next ==
    \E s \in Side :
       \/ ProcessBundle(s)
       \/ \E t \in Thread : Encrypt(s, t) \/ ThreadStep(s, t)
       \/ \E m \in network : Decrypt(s, m)
       \/ Crash(s)

Spec == Init /\ [][Next]_vars

\* The server keeps offering what was not decrypted yet.
DecryptNew(s) == \E m \in network : got[m.id] = 0 /\ Decrypt(s, m)

-----------------------------------------------------------------------------
(* Properties.                                                             *)

\* The whole conversation is an at-most-once delivery: no repeat, however
\* late, opens a message again, across ratchets, new sessions and crashes.
Abstract == INSTANCE Delivery WITH sent <- {m.id : m \in network}, got <- got
AtMostOnce == Abstract!Spec

\* A message key encrypts one message: two ciphertexts under one key betray
\* both, and the receiver drops the second as a duplicate.
KeysUsedOnce ==
    \A m, n \in network :
        m.base = n.base /\ m.eph = n.eph /\ m.ctr = n.ctr => m = n
=============================================================================
