------------------------------- MODULE Outbox -------------------------------
(***************************************************************************)
(* What SendLayer does between a call that sends something and the ack of  *)
(* it: contacts are synchronised before the first message, the day's       *)
(* messages are counted, numbers found invalid are refused, the status of  *)
(* a message is kept in the database, and a caller may wait for its id.    *)
(*                                                                         *)
(* Every call has a thread of the application; Net is the network thread,  *)
(* which hears of answers and acks and itself repeats a call when the      *)
(* contact was synchronised (redo_func).  A call is named by its number,   *)
(* and so is the one message it may send.                                  *)
(***************************************************************************)
EXTENDS Naturals, FiniteSets

CONSTANTS
    Number,     \* telephone numbers
    Dialled,    \* numbers that callers name
    Contacts,   \* numbers in the contact table at the start
    Valid,      \* numbers that WhatsApp knows
    Jid(_),     \* the number WhatsApp has for a valid one: itself, or another
    Kinds,      \* of calls, out of AllKinds
    Limit,      \* messages a day (50)
    MaxCalls,   \* bound: calls
    MaxLosses   \* bound: connections lost, logins refused and sync errors

AllKinds == {"text", "reply", "reaction", "media"}
Call == 1..MaxCalls
Net == 0
Thread == {Net} \cup Call

\* Assumed of the constants where the module is instantiated.
OutboxAssumption ==
    /\ Dialled \cup Contacts \cup Valid \subseteq Number /\ Kinds \subseteq AllKinds
    /\ {Limit, MaxCalls, MaxLosses} \subseteq Nat
    /\ \A n \in Valid : Jid(n) \in Valid

VARIABLES
    connected, restricted,  \* isConnected; has_restriction of the account
    losses,
    known, invalid, count,  \* contact table, _invalid_numbers, today's count
    kind, to, waits,        \* of each call: what, to whom, waits for the id?
    at, work,               \* of each thread: where it is, and for which call
    ctx,                    \* the thread whose context options["ctxId"] names
    signalled,              \* <<call, thread>>: contexts whose event is set
    iqs, acks,              \* answers and acks under way to Net
    ackQueue, row, sent,    \* ids waiting for an ack, rows, messages put
    answer, again,          \* what a call returned; the call that repeats it
    synced,                 \* calls that went through a synchronisation
    earlier                 \* messages of the day before the calls modelled

link == <<connected, restricted, losses>>
guard == <<known, invalid, count, earlier>>
call == <<kind, to, waits, ctx, synced>>
message == <<ackQueue, row, sent>>
result == <<answer, again>>
vars == <<link, guard, call, at, work, signalled, iqs, acks, message, result>>

Init ==
    /\ connected = TRUE /\ restricted = FALSE /\ losses = 0
    /\ known = Contacts /\ invalid = {}
    /\ earlier \in 0..Limit /\ count = earlier
    /\ kind = [c \in Call |-> "none"] /\ waits = [c \in Call |-> FALSE]
    /\ to \in [Call -> {CHOOSE n \in Number : TRUE}]
    /\ at = [t \in Thread |-> "idle"] /\ work = [t \in Thread |-> t]
    /\ ctx = [c \in Call |-> c] /\ signalled = {} /\ iqs = {} /\ acks = {}
    /\ ackQueue = {} /\ sent = {} /\ row = [c \in Call |-> "none"]
    /\ answer = [c \in Call |-> "none"] /\ again = [c \in Call |-> 0]
    /\ synced = {}

Goto(t, place) == at' = [at EXCEPT ![t] = place]

\* A call is over in thread t: an application's thread returns, Net goes on.
Leave(t, ans) ==
    /\ Goto(t, IF t = Net THEN "idle" ELSE "end")
    /\ answer' = IF t = Net THEN answer ELSE [answer EXCEPT ![t] = ans]

\* The wrapper's end: without waitMsgId it returns, with it it waits for the
\* event of the context it made itself.
Return(t) ==
    IF waits[work[t]] THEN Goto(t, "wait") /\ UNCHANGED answer
    ELSE Leave(t, "justwait")

\* An exception: it reaches the caller, or it rises through the layers below
\* the network thread, which it leaves holding the lock of the flush.
Refused(t) ==
    IF t = Net THEN Goto(t, "dead") /\ UNCHANGED answer ELSE Leave(t, "error")

-----------------------------------------------------------------------------
(* A call, in the thread of its caller or, repeated, in Net.  Calls are    *)
(* numbered in the order they start.                                       *)

SendMsg(c, place) ==
    /\ at[c] = "idle" /\ \A b \in Call : b < c => at[b] # "idle"
    /\ Goto(c, place)
    /\ UNCHANGED <<link, guard, ctx, synced, work, signalled, iqs, acks, message>>

\* sendMsg, sendTextReply, sendMediaMsg and sendReaction, which alone goes
\* without assureContactsAndSend.
Start(c, k, n, w) ==
    /\ SendMsg(c, IF k = "reaction" THEN "direct" ELSE "admit")
    /\ kind' = [kind EXCEPT ![c] = k] /\ to' = [to EXCEPT ![c] = n]
    /\ waits' = [waits EXCEPT ![c] = w]
    /\ UNCHANGED result

\* ZowsupClient.send_text with wait_for_id: a timeout is raised, caught like
\* any other error, and the text is sent once more as a command.
Fallback(c, d) ==
    /\ at[c] = "end" /\ answer[c] \in {"timeout", "error"} /\ again[c] = 0
    /\ kind[c] = "text" /\ waits[c] /\ \A b \in Call : again[b] # c
    /\ SendMsg(d, "admit") /\ again' = [again EXCEPT ![c] = d]
    /\ kind' = [kind EXCEPT ![d] = "text"] /\ to' = [to EXCEPT ![d] = to[c]]
    /\ waits' = [waits EXCEPT ![d] = TRUE] /\ UNCHANGED answer

\* Mutant of WithinLimit: one message too many.
WithinLimitInclusive == count <= Limit

\* _check_daily_limit, under its lock.
WithinLimit == count < Limit

\* The first three checks of assureContactsAndSend; the message is counted
\* before the number is looked at, and again when the call is repeated.
Admit(t) ==
    /\ at[t] = "admit"
    /\ count' = IF ~restricted /\ WithinLimit THEN count + 1 ELSE count
    /\ IF ~restricted /\ WithinLimit /\ to[work[t]] \notin invalid
       THEN Goto(t, "lookup") /\ UNCHANGED answer
       ELSE Refused(t)
    /\ UNCHANGED <<link, known, invalid, earlier, call, work, signalled, iqs, acks,
                   message, again>>

\* isNewContact; thirty seconds may pass before the contact is added.
Lookup(t) ==
    /\ at[t] = "lookup"
    /\ Goto(t, IF to[work[t]] \in known THEN "direct" ELSE "sync")
    /\ UNCHANGED <<link, guard, call, work, signalled, iqs, acks, message, result>>

\* The contact is added, then asked about; the question is lost when there is
\* no connection.
Sync(t) ==
    /\ at[t] = "sync"
    /\ known' = known \cup {to[work[t]]}
    /\ iqs' = IF connected THEN iqs \cup {<<"sync", work[t]>>} ELSE iqs
    /\ synced' = synced \cup {work[t]}
    /\ Return(t)
    /\ UNCHANGED <<link, invalid, count, earlier, kind, to, waits, ctx, work, signalled,
                   acks, message, again>>

\* The checks of sendMsgDirect, sendTextReplyDirect and sendMessageReaction.
Direct(t) ==
    LET c == work[t] IN
    /\ at[t] = "direct" /\ kind[c] # "media"
    /\ IF connected /\ ~restricted /\ (kind[c] = "reaction" \/ to[c] \notin invalid)
       THEN Goto(t, "put") /\ UNCHANGED answer
       ELSE Refused(t)
    /\ UNCHANGED <<link, guard, call, work, signalled, iqs, acks, message, again>>

\* sendMediaMsgDirect checks nothing and asks for a media connection.
AskMediaConn(t) ==
    /\ at[t] = "direct" /\ kind[work[t]] = "media"
    /\ iqs' = IF connected THEN iqs \cup {<<"media", work[t]>>} ELSE iqs
    /\ Return(t)
    /\ UNCHANGED <<link, guard, call, work, signalled, acks, message, again>>

\* The id enters the queue of acks, then the message goes down.
Put(t) ==
    LET c == work[t] IN
    /\ at[t] = "put"
    /\ ackQueue' = ackQueue \cup {c} /\ sent' = sent \cup {c}
    /\ acks' = IF connected THEN acks \cup {c} ELSE acks
    /\ Goto(t, "register")
    /\ UNCHANGED <<link, guard, call, work, signalled, iqs, row, result>>

\* register_sent_message inserts the row or overwrites its status.
Register(t) ==
    /\ at[t] = "register" /\ Goto(t, "signal")
    /\ row' = [row EXCEPT ![work[t]] = "EXECUTED"]
    /\ UNCHANGED <<link, guard, call, work, signalled, iqs, acks, ackQueue, sent, result>>

\* Mutant of Signal: the context is looked up under the thread that signals.
SignalOwn(t) ==
    LET c == work[t] IN
    /\ at[t] = "signal"
    /\ signalled' = IF waits[c] /\ t = Net THEN signalled \cup {<<c, t>>} ELSE signalled
    /\ IF kind[c] = "media" THEN Goto(t, "idle") /\ UNCHANGED answer ELSE Return(t)
    /\ UNCHANGED <<link, guard, call, work, iqs, acks, message, again>>

\* The event of the context that the options name.
Signal(t) ==
    LET c == work[t] IN
    /\ at[t] = "signal"
    /\ signalled' = IF waits[c] THEN signalled \cup {<<c, ctx[c]>>} ELSE signalled
    /\ IF kind[c] = "media" THEN Goto(t, "idle") /\ UNCHANGED answer ELSE Return(t)
    /\ UNCHANGED <<link, guard, call, work, iqs, acks, message, again>>

GotId(t) ==
    /\ at[t] = "wait" /\ <<work[t], t>> \in signalled
    /\ Leave(t, "id")
    /\ UNCHANGED <<link, guard, call, work, signalled, iqs, acks, message, again>>

WaitTimeout(t) ==
    /\ at[t] = "wait" /\ <<work[t], t>> \notin signalled
    /\ Leave(t, "timeout")
    /\ UNCHANGED <<link, guard, call, work, signalled, iqs, acks, message, again>>

Step(t) ==
    \/ Admit(t) \/ Lookup(t) \/ Sync(t) \/ Direct(t) \/ AskMediaConn(t) \/ Put(t)
    \/ Register(t) \/ Signal(t) \/ GotId(t) \/ WaitTimeout(t)

-----------------------------------------------------------------------------
(* The network thread.                                                     *)

\* An answer that Net takes up when it is doing nothing else.
Answered(q) == at[Net] = "idle" /\ q \in iqs /\ iqs' = iqs \ {q}

\* on_success with the number in the answer: the call is repeated, for the
\* number that WhatsApp has, and a caller's context gives way to Net's.
OnSynced(c) ==
    /\ Answered(<<"sync", c>>) /\ to[c] \in Valid
    /\ to' = [to EXCEPT ![c] = Jid(to[c])]
    /\ ctx' = [ctx EXCEPT ![c] = IF waits[c] THEN Net ELSE @]
    /\ work' = [work EXCEPT ![Net] = c] /\ Goto(Net, "admit")
    /\ UNCHANGED <<link, guard, kind, waits, synced, signalled, acks, message, result>>

\* on_success without it (_validate_contact_sync_result): the number is marked.
OnUnknown(c) ==
    /\ Answered(<<"sync", c>>) /\ to[c] \notin Valid
    /\ invalid' = invalid \cup {to[c]}
    /\ UNCHANGED <<link, known, count, earlier, call, at, work, signalled, acks, message, result>>

\* on_error marks the number for two of the codes.
OnSyncError(c, notFound) ==
    /\ Answered(<<"sync", c>>) /\ losses < MaxLosses /\ losses' = losses + 1
    /\ invalid' = IF notFound THEN invalid \cup {to[c]} ELSE invalid
    /\ UNCHANGED <<connected, restricted, known, count, earlier, call, at, work, signalled,
                   acks, message, result>>

\* onRequestMediaConnResult uploads and sends, in Net.
OnMediaConn(c) ==
    /\ Answered(<<"media", c>>)
    /\ work' = [work EXCEPT ![Net] = c] /\ Goto(Net, "put")
    /\ UNCHANGED <<link, guard, call, signalled, acks, message, result>>

\* Mutant of OnAck: acks are handled while Net is busy with a call.
OnAckAnyTime(c, ok) ==
    /\ at[Net] # "dead" /\ c \in acks /\ acks' = acks \ {c}
    /\ row' = IF c \in ackQueue THEN [row EXCEPT ![c] = IF ok THEN "SENT" ELSE "ERROR"]
              ELSE row
    /\ ackQueue' = ackQueue \ {c}
    /\ UNCHANGED <<link, guard, call, at, work, signalled, iqs, sent, result>>

OnAck(c, ok) ==
    /\ at[Net] = "idle" /\ c \in acks /\ acks' = acks \ {c}
    /\ row' = IF c \in ackQueue THEN [row EXCEPT ![c] = IF ok THEN "SENT" ELSE "ERROR"]
              ELSE row
    /\ ackQueue' = ackQueue \ {c}
    /\ UNCHANGED <<link, guard, call, at, work, signalled, iqs, sent, result>>

\* The connection ends, with what was under way on it.
OnDisconnected ==
    /\ at[Net] = "idle" /\ connected /\ losses < MaxLosses
    /\ losses' = losses + 1 /\ connected' = FALSE
    /\ iqs' = {} /\ acks' = {}
    /\ UNCHANGED <<restricted, guard, call, at, work, signalled, message, result>>

\* The next login: accepted, or refused with one of the codes 40x.
OnSuccess ==
    /\ at[Net] = "idle" /\ ~connected /\ ~restricted /\ connected' = TRUE
    /\ UNCHANGED <<restricted, losses, guard, call, at, work, signalled, iqs, acks,
                   message, result>>

OnFailure ==
    /\ at[Net] = "idle" /\ ~connected /\ ~restricted /\ restricted' = TRUE
    /\ UNCHANGED <<connected, losses, guard, call, at, work, signalled, iqs, acks,
                   message, result>>

NetHears ==
    \/ \E c \in Call :
          \/ OnSynced(c) \/ OnUnknown(c) \/ OnMediaConn(c)
          \/ \E b \in BOOLEAN : OnSyncError(c, b) \/ OnAck(c, b)
    \/ OnDisconnected \/ OnSuccess \/ OnFailure

Next ==
    \/ \E c \in Call :
          \/ \E k \in Kinds, n \in Dialled, w \in BOOLEAN : Start(c, k, n, w)
          \/ \E d \in Call : Fallback(c, d)
    \/ \E t \in Thread : Step(t)
    \/ NetHears

Spec == Init /\ [][Next]_vars

-----------------------------------------------------------------------------
(* Properties.                                                             *)

\* However many threads send at once and repeat their calls, no more messages
\* than the limit go out in a day; reactions are not counted.
LimitHolds == earlier + Cardinality({c \in sent : kind[c] # "reaction"}) <= Limit

\* What the server said of a message stays in its row.  Only a message that an
\* application's thread sends may have its ack handled before it is registered
\* and then lose it again; Net, which sends the repeated calls, cannot.
StatusForward ==
    [][\A c \in Call :
          row[c] \in {"SENT", "ERROR"} /\ row'[c] = "EXECUTED" =>
              at[c] = "register"]_vars

\* send_text sends its text twice only to a number that was new: a caller that
\* waits for the id of a message to a contact always gets it.
RepeatsOnlyNew ==
    \A c \in sent : again[c] \in sent => c \in synced
=============================================================================
