---------------------------- MODULE OutboxProofs ----------------------------
(***************************************************************************)
(* Proofs about Outbox, for any numbers, contacts and calls: the day's     *)
(* limit holds, the status of a message that was acked is lost only to the *)
(* caller's own thread, and a text is repeated only to a new number.       *)
(***************************************************************************)
EXTENDS Outbox, FiniteSetTheorems, TLAPS

Early == {"admit", "lookup", "sync", "direct", "put"}
Active == Early \cup {"register", "signal", "wait"}
Place == Active \cup {"idle", "end", "dead"}

TypeOK ==
    /\ count \in Nat /\ earlier \in Nat
    /\ kind \in [Call -> AllKinds \cup {"none"}] /\ DOMAIN waits = Call
    /\ at \in [Thread -> Place] /\ work \in [Thread -> Thread]
    /\ \A c \in Call : work[c] = c
    /\ at[Net] # "idle" => work[Net] \in Call
    /\ ctx \in [Call -> Thread]
    /\ sent \subseteq Call
    /\ row \in [Call -> {"none", "EXECUTED", "SENT", "ERROR"}]
    /\ answer \in [Call -> {"none", "justwait", "id", "timeout", "error"}]
    /\ again \in [Call -> Nat]

\* The message of call c is still to be sent by Net, or is to be asked about; Net
\* has the call.
Asked(c) == <<"sync", c>> \in iqs \/ <<"media", c>> \in iqs
NetHas(c) == work[Net] = c /\ at[Net] \in Active

\* One of the caller's thread, a question to the server, and Net has the message of a
\* call in hand until it is sent, and nobody afterwards.
Hand(c) ==
    /\ at[c] \in Early \cup {"idle"} => ~Asked(c) /\ ~NetHas(c) /\ c \notin sent
    /\ at[c] = "register" => c \in sent /\ ~NetHas(c)
    /\ Asked(c) => c \notin sent /\ ~(work[Net] = c /\ at[Net] \in Early)
    /\ ~(<<"sync", c>> \in iqs /\ <<"media", c>> \in iqs)
    /\ work[Net] = c /\ at[Net] \in Early => c \notin sent
    /\ kind[c] # "media" /\ c \notin synced => ~Asked(c) /\ ~NetHas(c)
    /\ kind[c] = "media" => at[c] \notin {"put", "register", "signal"}
OneHand == \A c \in Call : Hand(c)

\* What has been let through the day's limit and may still be sent, or was.
Counts(c) ==
    /\ kind[c] # "reaction"
    /\ \/ c \in sent \/ <<"media", c>> \in iqs
       \/ at[c] \in Early \ {"admit"} \/ (work[Net] = c /\ at[Net] \in Early \ {"admit"})
Counted == {c \in Call : Counts(c)}
CountIsEnough ==
    /\ earlier + Cardinality(Counted) <= count
    /\ count <= Limit

\* Only a message that was put has a row, and Net registers what has none.
RowsOfSent ==
    /\ ackQueue \subseteq sent
    /\ \A c \in Call : row[c] # "none" => c \in sent
    /\ at[Net] = "register" => work[Net] \in sent /\ row[work[Net]] = "none"

\* A text to a known contact gets its id in the thread that sent it.
GetsId(c) ==
    /\ again[c] # 0 => kind[c] = "text" /\ waits[c] /\ at[c] = "end"
    /\ c \notin synced => ctx[c] = c /\ <<"sync", c>> \notin iqs
    /\ c \in sent /\ c \notin synced /\ kind[c] = "text" /\ waits[c] =>
          /\ again[c] = 0
          /\ at[c] \in {"register", "signal", "wait", "end"}
          /\ at[c] = "wait" => <<c, c>> \in signalled
          /\ at[c] = "end" => answer[c] = "id"
KnownGetsId == \A c \in Call : GetsId(c)

IInv == TypeOK /\ OneHand /\ CountIsEnough /\ RowsOfSent /\ KnownGetsId

-----------------------------------------------------------------------------
(* The type invariant.                                                     *)

LEMMA TypeInit == OutboxAssumption /\ Init => TypeOK
  BY DEF OutboxAssumption, Init, TypeOK, Call, Thread, Net, Place, Active, Early

LEMMA TypeStep == OutboxAssumption /\ TypeOK /\ [Next]_vars => TypeOK'
<1> SUFFICES ASSUME OutboxAssumption, TypeOK, [Next]_vars PROVE TypeOK'
    OBVIOUS
<1> USE DEF TypeOK, OutboxAssumption, Thread, Call, Net, Place, Active, Early, AllKinds, Goto,
            link, guard, call, message, result
<1>1. ASSUME NEW c \in Call, NEW k \in Kinds, NEW n \in Dialled, NEW w \in BOOLEAN, Start(c, k, n, w)
      PROVE TypeOK'
      BY <1>1 DEF Start, SendMsg
<1>2. ASSUME NEW c \in Call, NEW d \in Call, Fallback(c, d)
      PROVE TypeOK'
      BY <1>2, SMTT(30) DEF Fallback, SendMsg
<1>3. ASSUME NEW t \in Thread, Admit(t)
      PROVE TypeOK'
      BY <1>3, SMTT(30) DEF Admit, Refused, Leave
<1>4. ASSUME NEW t \in Thread, Lookup(t)
      PROVE TypeOK'
      BY <1>4 DEF Lookup
<1>5. ASSUME NEW t \in Thread, Sync(t)
      PROVE TypeOK'
      BY <1>5, SMTT(30) DEF Sync, Return, Leave
<1>6. ASSUME NEW t \in Thread, Direct(t)
      PROVE TypeOK'
      BY <1>6, SMTT(30) DEF Direct, Refused, Leave
<1>7. ASSUME NEW t \in Thread, AskMediaConn(t)
      PROVE TypeOK'
  <2>1. UNCHANGED <<count, earlier, kind, waits, work, ctx, sent, row, again>>
        BY <1>7 DEF AskMediaConn
  <2>2. \/ at' = [at EXCEPT ![t] = "wait"] /\ answer' = answer
        \/ t = Net /\ at' = [at EXCEPT ![t] = "idle"] /\ answer' = answer
        \/ t # Net /\ at' = [at EXCEPT ![t] = "end"] /\ answer' = [answer EXCEPT ![t] = "justwait"]
        BY <1>7 DEF AskMediaConn, Return, Leave
  <2>3. t = Net => at[Net] # "idle"
        BY <1>7 DEF AskMediaConn
  <2>4. at' \in [Thread -> Place] /\ (at'[Net] # "idle" => work[Net] \in Call)
        BY <2>2, <2>3
  <2>5. answer' \in [Call -> {"none", "justwait", "id", "timeout", "error"}]
        BY <2>2
  <2>6. QED
        BY <2>1, <2>4, <2>5
<1>8. ASSUME NEW t \in Thread, Put(t)
      PROVE TypeOK'
  <2>1. UNCHANGED <<count, earlier, kind, waits, work, ctx, row, answer, again>>
        BY <1>8 DEF Put
  <2>2. sent' = sent \cup {work[t]} /\ at' = [at EXCEPT ![t] = "register"] /\ at[t] = "put"
        BY <1>8 DEF Put
  <2>3. at' \in [Thread -> Place] /\ (at'[Net] # "idle" => work[Net] \in Call)
        BY <2>2
  <2>4. work[t] \in Call
        BY <2>2
  <2>5. sent' \subseteq Call
        BY <2>2, <2>4
  <2>6. QED
        BY <2>1, <2>3, <2>5
<1>9. ASSUME NEW t \in Thread, Register(t)
      PROVE TypeOK'
      BY <1>9, SMTT(30) DEF Register
<1>10. ASSUME NEW t \in Thread, Signal(t)
      PROVE TypeOK'
      BY <1>10, SMTT(30) DEF Signal, Return, Leave
<1>11. ASSUME NEW t \in Thread, GotId(t)
      PROVE TypeOK'
      BY <1>11 DEF GotId, Leave
<1>12. ASSUME NEW t \in Thread, WaitTimeout(t)
      PROVE TypeOK'
      BY <1>12 DEF WaitTimeout, Leave
<1>13. ASSUME NEW c \in Call, OnSynced(c)
      PROVE TypeOK'
      BY <1>13 DEF OnSynced, Answered
<1>14. ASSUME NEW c \in Call, OnUnknown(c)
      PROVE TypeOK'
      BY <1>14 DEF OnUnknown, Answered
<1>15. ASSUME NEW c \in Call, NEW b \in BOOLEAN, OnSyncError(c, b)
      PROVE TypeOK'
      BY <1>15 DEF OnSyncError, Answered
<1>16. ASSUME NEW c \in Call, OnMediaConn(c)
      PROVE TypeOK'
      BY <1>16 DEF OnMediaConn, Answered
<1>17. ASSUME NEW c \in Call, NEW b \in BOOLEAN, OnAck(c, b)
      PROVE TypeOK'
      BY <1>17 DEF OnAck
<1>18. ASSUME OnDisconnected
      PROVE TypeOK'
      BY <1>18 DEF OnDisconnected
<1>19. ASSUME OnSuccess
      PROVE TypeOK'
      BY <1>19 DEF OnSuccess
<1>20. ASSUME OnFailure
      PROVE TypeOK'
      BY <1>20 DEF OnFailure
<1>21. CASE UNCHANGED vars
  <2>1. UNCHANGED <<count, earlier, kind, waits, at, work, ctx, sent, row, answer, again>>
        BY <1>21 DEF vars
  <2>2. QED
        BY <2>1
<1> HIDE DEF TypeOK, OutboxAssumption, Thread, Call, Net, Place, Active, Early, AllKinds, Goto,
             link, guard, call, message, result
<1>22. QED
       BY <1>1, <1>2, <1>3, <1>4, <1>5, <1>6, <1>7, <1>8, <1>9, <1>10, <1>11, <1>12, <1>13, <1>14, <1>15, <1>16, <1>17, <1>18, <1>19, <1>20, <1>21 DEF Next, Step, NetHears

\* Every step keeps the message of a call in one hand.
LEMMA HandStep ==
    ASSUME OutboxAssumption, TypeOK, TypeOK', OneHand, [Next]_vars
    PROVE  OneHand'
<1> SUFFICES ASSUME NEW b \in Call PROVE Hand(b)'
    BY DEF OneHand
<1>0. Hand(b)
      BY DEF OneHand
<1> USE <1>0 DEF TypeOK, Hand, Asked, NetHas, Thread, Call, Net, Active, Early, Goto,
            link, guard, call, message, result
<1>1. ASSUME NEW c \in Call, NEW k \in Kinds, NEW n \in Dialled, NEW w \in BOOLEAN, Start(c, k, n, w)
      PROVE Hand(b)'
      BY <1>1 DEF Start, SendMsg
<1>2. ASSUME NEW c \in Call, NEW d \in Call, Fallback(c, d)
      PROVE Hand(b)'
      BY <1>2 DEF Fallback, SendMsg
<1>3. ASSUME NEW t \in Thread, Admit(t)
      PROVE Hand(b)'
  <2>1. CASE t = Net
        BY <1>3, <2>1 DEF Admit, Refused, Leave
  <2>2. CASE t \in Call
        BY <1>3, <2>2 DEF Admit, Refused, Leave
  <2>3. QED
        BY <2>1, <2>2
<1>4. ASSUME NEW t \in Thread, Lookup(t)
      PROVE Hand(b)'
      BY <1>4 DEF Lookup
<1>5. ASSUME NEW t \in Thread, Sync(t)
      PROVE Hand(b)'
  <2>1. CASE t = Net
        BY <1>5, <2>1 DEF Sync, Return, Leave
  <2>2. CASE t \in Call
        BY <1>5, <2>2 DEF Sync, Return, Leave
  <2>3. QED
        BY <2>1, <2>2
<1>6. ASSUME NEW t \in Thread, Direct(t)
      PROVE Hand(b)'
  <2>1. CASE t = Net
        BY <1>6, <2>1 DEF Direct, Refused, Leave
  <2>2. CASE t \in Call
        BY <1>6, <2>2 DEF Direct, Refused, Leave
  <2>3. QED
        BY <2>1, <2>2
<1>7. ASSUME NEW t \in Thread, AskMediaConn(t)
      PROVE Hand(b)'
  <2>1. CASE t = Net
        BY <1>7, <2>1 DEF AskMediaConn, Return, Leave
  <2>2. CASE t \in Call
        BY <1>7, <2>2 DEF AskMediaConn, Return, Leave
  <2>3. QED
        BY <2>1, <2>2
<1>8. ASSUME NEW t \in Thread, Put(t)
      PROVE Hand(b)'
  <2>1. CASE t = Net
        BY <1>8, <2>1 DEF Put
  <2>2. CASE t \in Call
        BY <1>8, <2>2 DEF Put
  <2>3. QED
        BY <2>1, <2>2
<1>9. ASSUME NEW t \in Thread, Register(t)
      PROVE Hand(b)'
      BY <1>9 DEF Register
<1>10. ASSUME NEW t \in Thread, Signal(t)
      PROVE Hand(b)'
  <2>1. UNCHANGED <<work, iqs, sent, synced, kind>>
        BY <1>10 DEF Signal
  <2>2. PICK p \in {"idle", "wait", "end"} : at' = [at EXCEPT ![t] = p]
        BY <1>10 DEF Signal, Return, Leave
  <2>3. at[t] = "signal"
        BY <1>10 DEF Signal
  <2>4. p = "idle" => t # b
        BY <1>10, <2>2 DEF Signal, Return, Leave
  <2>5. CASE t = Net
        BY <2>1, <2>2, <2>3, <2>5
  <2>6. CASE t \in Call
        BY <2>1, <2>2, <2>3, <2>4, <2>6
  <2>7. QED
        BY <2>5, <2>6
<1>11. ASSUME NEW t \in Thread, GotId(t)
      PROVE Hand(b)'
  <2>1. CASE t = Net
        BY <1>11, <2>1 DEF GotId, Leave
  <2>2. CASE t \in Call
        BY <1>11, <2>2 DEF GotId, Leave
  <2>3. QED
        BY <2>1, <2>2
<1>12. ASSUME NEW t \in Thread, WaitTimeout(t)
      PROVE Hand(b)'
  <2>1. CASE t = Net
        BY <1>12, <2>1 DEF WaitTimeout, Leave
  <2>2. CASE t \in Call
        BY <1>12, <2>2 DEF WaitTimeout, Leave
  <2>3. QED
        BY <2>1, <2>2
<1>13. ASSUME NEW c \in Call, OnSynced(c)
      PROVE Hand(b)'
      BY <1>13 DEF OnSynced, Answered
<1>14. ASSUME NEW c \in Call, OnUnknown(c)
      PROVE Hand(b)'
      BY <1>14 DEF OnUnknown, Answered
<1>15. ASSUME NEW c \in Call, NEW f \in BOOLEAN, OnSyncError(c, f)
      PROVE Hand(b)'
      BY <1>15 DEF OnSyncError, Answered
<1>16. ASSUME NEW c \in Call, OnMediaConn(c)
      PROVE Hand(b)'
      BY <1>16 DEF OnMediaConn, Answered
<1>17. ASSUME NEW c \in Call, NEW f \in BOOLEAN, OnAck(c, f)
      PROVE Hand(b)'
      BY <1>17 DEF OnAck
<1>18. ASSUME OnDisconnected
      PROVE Hand(b)'
      BY <1>18 DEF OnDisconnected
<1>19. ASSUME OnSuccess
      PROVE Hand(b)'
      BY <1>19 DEF OnSuccess
<1>20. ASSUME OnFailure
      PROVE Hand(b)'
      BY <1>20 DEF OnFailure
<1>21. CASE UNCHANGED vars
       BY <1>21 DEF vars
<1> HIDE DEF TypeOK, Hand, Asked, NetHas, Thread, Call, Net, Active, Early, Goto,
            link, guard, call, message, result
<1>22. QED
       BY <1>1, <1>2, <1>3, <1>4, <1>5, <1>6, <1>7, <1>8, <1>9, <1>10, <1>11, <1>12, <1>13, <1>14, <1>15, <1>16, <1>17, <1>18, <1>19, <1>20, <1>21 DEF Next, Step, NetHears


\* Every step keeps the rows to messages that were sent.
LEMMA RowStep ==
    ASSUME OutboxAssumption, TypeOK, TypeOK', OneHand, RowsOfSent, [Next]_vars
    PROVE  RowsOfSent'
<1> USE DEF OneHand, RowsOfSent, TypeOK, Thread, Call, Net, Early, Goto,
            link, guard, call, message, result
<1>1. ASSUME NEW c \in Call, NEW k \in Kinds, NEW n \in Dialled, NEW w \in BOOLEAN, Start(c, k, n, w)
      PROVE RowsOfSent'
      BY <1>1 DEF Start, SendMsg
<1>2. ASSUME NEW c \in Call, NEW d \in Call, Fallback(c, d)
      PROVE RowsOfSent'
      BY <1>2 DEF Fallback, SendMsg
<1>3. ASSUME NEW t \in Thread, Admit(t)
      PROVE RowsOfSent'
      BY <1>3 DEF Admit, Refused, Leave
<1>4. ASSUME NEW t \in Thread, Lookup(t)
      PROVE RowsOfSent'
      BY <1>4 DEF Lookup
<1>5. ASSUME NEW t \in Thread, Sync(t)
      PROVE RowsOfSent'
      BY <1>5 DEF Sync, Return, Leave
<1>6. ASSUME NEW t \in Thread, Direct(t)
      PROVE RowsOfSent'
      BY <1>6 DEF Direct, Refused, Leave
<1>7. ASSUME NEW t \in Thread, AskMediaConn(t)
      PROVE RowsOfSent'
      BY <1>7 DEF AskMediaConn, Return, Leave
<1>8. ASSUME NEW t \in Thread, Put(t)
      PROVE RowsOfSent'
  <2>1. sent' = sent \cup {work[t]} /\ ackQueue' = ackQueue \cup {work[t]} /\ UNCHANGED <<row, work>>
        BY <1>8 DEF Put
  <2>2. CASE t = Net
    <3>1. work[Net] \in Call /\ work[Net] \notin sent
          BY <1>8, <2>2 DEF Put, Hand
    <3>2. row[work[Net]] = "none"
          BY <3>1
    <3>3. QED
          BY <2>1, <2>2, <3>1, <3>2
  <2>3. CASE t \in Call
    <3>1. at'[Net] = at[Net]
          BY <1>8, <2>3 DEF Put
    <3>2. QED
          BY <2>1, <3>1
  <2>4. QED
        BY <2>2, <2>3
<1>9. ASSUME NEW t \in Thread, Register(t)
      PROVE RowsOfSent'
  <2>1. CASE t = Net
        BY <1>9, <2>1 DEF Register
  <2>2. CASE t \in Call
    <3>1. Hand(t) /\ work[t] = t /\ at[t] = "register"
          BY <1>9, <2>2 DEF Register
    <3>2. t \in sent /\ (at[Net] = "register" => work[Net] # t)
          BY <3>1 DEF Hand, NetHas, Active
    <3>3. QED
          BY <1>9, <2>2, <3>1, <3>2 DEF Register
  <2>3. QED
        BY <2>1, <2>2
<1>10. ASSUME NEW t \in Thread, Signal(t)
      PROVE RowsOfSent'
      BY <1>10 DEF Signal, Return, Leave
<1>11. ASSUME NEW t \in Thread, GotId(t)
      PROVE RowsOfSent'
      BY <1>11 DEF GotId, Leave
<1>12. ASSUME NEW t \in Thread, WaitTimeout(t)
      PROVE RowsOfSent'
      BY <1>12 DEF WaitTimeout, Leave
<1>13. ASSUME NEW c \in Call, OnSynced(c)
      PROVE RowsOfSent'
      BY <1>13 DEF OnSynced, Answered
<1>14. ASSUME NEW c \in Call, OnUnknown(c)
      PROVE RowsOfSent'
      BY <1>14 DEF OnUnknown, Answered
<1>15. ASSUME NEW c \in Call, NEW b \in BOOLEAN, OnSyncError(c, b)
      PROVE RowsOfSent'
      BY <1>15 DEF OnSyncError, Answered
<1>16. ASSUME NEW c \in Call, OnMediaConn(c)
      PROVE RowsOfSent'
      BY <1>16 DEF OnMediaConn, Answered
<1>17. ASSUME NEW c \in Call, NEW b \in BOOLEAN, OnAck(c, b)
      PROVE RowsOfSent'
      BY <1>17 DEF OnAck
<1>18. ASSUME OnDisconnected
      PROVE RowsOfSent'
      BY <1>18 DEF OnDisconnected
<1>19. ASSUME OnSuccess
      PROVE RowsOfSent'
      BY <1>19 DEF OnSuccess
<1>20. ASSUME OnFailure
      PROVE RowsOfSent'
      BY <1>20 DEF OnFailure
<1>21. CASE UNCHANGED vars
       BY <1>21 DEF vars
<1> HIDE DEF OneHand, RowsOfSent, TypeOK, Thread, Call, Net, Early, Goto,
            link, guard, call, message, result
<1>22. QED
       BY <1>1, <1>2, <1>3, <1>4, <1>5, <1>6, <1>7, <1>8, <1>9, <1>10, <1>11, <1>12, <1>13, <1>14, <1>15, <1>16, <1>17, <1>18, <1>19, <1>20, <1>21 DEF Next, Step, NetHears


\* Every step keeps that a known contact's message gets its id.
LEMMA IdStep ==
    ASSUME OutboxAssumption, TypeOK, TypeOK', OneHand, KnownGetsId, [Next]_vars
    PROVE  KnownGetsId'
<1> SUFFICES ASSUME NEW b \in Call PROVE GetsId(b)'
    BY DEF KnownGetsId
<1>0. Hand(b) /\ GetsId(b)
      BY DEF OneHand, KnownGetsId
<1> USE <1>0 DEF TypeOK, GetsId, Hand, Asked, NetHas, Thread, Call, Net, Active, Early, Goto,
            link, guard, call, message, result
<1>1. ASSUME NEW c \in Call, NEW k \in Kinds, NEW n \in Dialled, NEW w \in BOOLEAN, Start(c, k, n, w)
      PROVE GetsId(b)'
      BY <1>1 DEF Start, SendMsg
<1>2. ASSUME NEW c \in Call, NEW d \in Call, Fallback(c, d)
      PROVE GetsId(b)'
      BY <1>2 DEF Fallback, SendMsg
<1>3. ASSUME NEW t \in Thread, Admit(t)
      PROVE GetsId(b)'
  <2>1. CASE t = Net
        BY <1>3, <2>1 DEF Admit, Refused, Leave
  <2>2. CASE t \in Call
        BY <1>3, <2>2 DEF Admit, Refused, Leave
  <2>3. QED
        BY <2>1, <2>2
<1>4. ASSUME NEW t \in Thread, Lookup(t)
      PROVE GetsId(b)'
      BY <1>4 DEF Lookup
<1>5. ASSUME NEW t \in Thread, Sync(t)
      PROVE GetsId(b)'
  <2>1. CASE t = Net
        BY <1>5, <2>1 DEF Sync, Return, Leave
  <2>2. CASE t \in Call
        BY <1>5, <2>2 DEF Sync, Return, Leave
  <2>3. QED
        BY <2>1, <2>2
<1>6. ASSUME NEW t \in Thread, Direct(t)
      PROVE GetsId(b)'
  <2>1. CASE t = Net
        BY <1>6, <2>1 DEF Direct, Refused, Leave
  <2>2. CASE t \in Call
        BY <1>6, <2>2 DEF Direct, Refused, Leave
  <2>3. QED
        BY <2>1, <2>2
<1>7. ASSUME NEW t \in Thread, AskMediaConn(t)
      PROVE GetsId(b)'
  <2>1. CASE t = Net
        BY <1>7, <2>1 DEF AskMediaConn, Return, Leave
  <2>2. CASE t \in Call
        BY <1>7, <2>2 DEF AskMediaConn, Return, Leave
  <2>3. QED
        BY <2>1, <2>2
<1>8. ASSUME NEW t \in Thread, Put(t)
      PROVE GetsId(b)'
  <2>1. CASE t = Net
        BY <1>8, <2>1 DEF Put
  <2>2. CASE t \in Call
        BY <1>8, <2>2 DEF Put
  <2>3. QED
        BY <2>1, <2>2
<1>9. ASSUME NEW t \in Thread, Register(t)
      PROVE GetsId(b)'
      BY <1>9 DEF Register
<1>10. ASSUME NEW t \in Thread, Signal(t)
      PROVE GetsId(b)'
  <2>1. CASE t = Net
        BY <1>10, <2>1 DEF Signal, Return, Leave
  <2>2. CASE t \in Call
        BY <1>10, <2>2 DEF Signal, Return, Leave
  <2>3. QED
        BY <2>1, <2>2
<1>11. ASSUME NEW t \in Thread, GotId(t)
      PROVE GetsId(b)'
  <2>1. CASE t = Net
        BY <1>11, <2>1 DEF GotId, Leave
  <2>2. CASE t \in Call
        BY <1>11, <2>2 DEF GotId, Leave
  <2>3. QED
        BY <2>1, <2>2
<1>12. ASSUME NEW t \in Thread, WaitTimeout(t)
      PROVE GetsId(b)'
  <2>1. CASE t = Net
        BY <1>12, <2>1 DEF WaitTimeout, Leave
  <2>2. CASE t \in Call
    <3>1. UNCHANGED <<sent, synced, kind, waits, again, ctx, signalled, iqs>>
          BY <1>12 DEF WaitTimeout
    <3> HIDE DEF TypeOK, GetsId, Hand
    <3>2. at' = [at EXCEPT ![t] = "end"] /\ answer' = [answer EXCEPT ![t] = "timeout"]
      <4>1. t # Net
            BY <2>2
      <4>2. QED
            BY <1>12, <4>1 DEF WaitTimeout, Leave
    <3> USE DEF TypeOK, GetsId, Hand
    <3>3. at[t] = "wait" /\ <<t, t>> \notin signalled
          BY <1>12, <2>2 DEF WaitTimeout
    <3>4. CASE t = b
          BY <3>1, <3>2, <3>3, <3>4
    <3>5. CASE t # b
          BY <3>1, <3>2, <3>5
    <3>6. QED
          BY <3>4, <3>5
  <2>3. QED
        BY <2>1, <2>2
<1>13. ASSUME NEW c \in Call, OnSynced(c)
      PROVE GetsId(b)'
      BY <1>13, SMTT(30) DEF OnSynced, Answered
<1>14. ASSUME NEW c \in Call, OnUnknown(c)
      PROVE GetsId(b)'
      BY <1>14 DEF OnUnknown, Answered
<1>15. ASSUME NEW c \in Call, NEW f \in BOOLEAN, OnSyncError(c, f)
      PROVE GetsId(b)'
      BY <1>15 DEF OnSyncError, Answered
<1>16. ASSUME NEW c \in Call, OnMediaConn(c)
      PROVE GetsId(b)'
      BY <1>16 DEF OnMediaConn, Answered
<1>17. ASSUME NEW c \in Call, NEW f \in BOOLEAN, OnAck(c, f)
      PROVE GetsId(b)'
      BY <1>17 DEF OnAck
<1>18. ASSUME OnDisconnected
      PROVE GetsId(b)'
      BY <1>18 DEF OnDisconnected
<1>19. ASSUME OnSuccess
      PROVE GetsId(b)'
      BY <1>19 DEF OnSuccess
<1>20. ASSUME OnFailure
      PROVE GetsId(b)'
      BY <1>20 DEF OnFailure
<1>21. CASE UNCHANGED vars
       BY <1>21 DEF vars
<1> HIDE DEF TypeOK, GetsId, Hand, Asked, NetHas, Thread, Call, Net, Active, Early, Goto,
            link, guard, call, message, result
<1>22. QED
       BY <1>1, <1>2, <1>3, <1>4, <1>5, <1>6, <1>7, <1>8, <1>9, <1>10, <1>11, <1>12, <1>13, <1>14, <1>15, <1>16, <1>17, <1>18, <1>19, <1>20, <1>21 DEF Next, Step, NetHears


\* Only Admit counts.
LEMMA OnlyAdmitCounts ==
    ASSUME [Next]_vars, \A t \in Thread : ~Admit(t)
    PROVE  count' = count /\ earlier' = earlier
<1> USE DEF guard
<1>1. ASSUME NEW c \in Call, NEW k \in Kinds, NEW n \in Dialled, NEW w \in BOOLEAN, Start(c, k, n, w)
      PROVE count' = count /\ earlier' = earlier
      BY <1>1 DEF Start, SendMsg
<1>2. ASSUME NEW c \in Call, NEW d \in Call, Fallback(c, d)
      PROVE count' = count /\ earlier' = earlier
      BY <1>2 DEF Fallback, SendMsg
<1>3. ASSUME NEW t \in Thread, Step(t)
      PROVE count' = count /\ earlier' = earlier
      BY <1>3 DEF Step, Lookup, Sync, Direct, AskMediaConn, Put, Register, Signal, GotId, WaitTimeout
<1>4. ASSUME NetHears
      PROVE count' = count /\ earlier' = earlier
      BY <1>4 DEF NetHears, OnSynced, OnUnknown, OnSyncError, OnMediaConn, OnAck, OnDisconnected, OnSuccess, OnFailure
<1>5. CASE UNCHANGED vars
      BY <1>5 DEF vars
<1>6. QED
      BY <1>1, <1>2, <1>3, <1>4, <1>5 DEF Next

\* Every step but Admit puts nothing more under the count.
LEMMA CountKept ==
    ASSUME OutboxAssumption, TypeOK, TypeOK', OneHand, [Next]_vars,
           \A t \in Thread : ~Admit(t), NEW b \in Call
    PROVE  Counts(b)' => Counts(b)
<1> DEFINE Kept == Counts(b)' => Counts(b)
<1> SUFFICES Kept
    OBVIOUS
<1>0. Hand(b)
      BY DEF OneHand
<1> USE <1>0 DEF TypeOK, Counts, Hand, Asked, NetHas, Thread, Call, Net, Active, Early, Goto,
            link, guard, call, message, result
<1>1. ASSUME NEW c \in Call, NEW k \in Kinds, NEW n \in Dialled, NEW w \in BOOLEAN, Start(c, k, n, w)
      PROVE Kept
  <2>1. CASE b = c
    <3>1. at[b] = "idle" /\ kind'[b] = k /\ at'[b] = (IF k = "reaction" THEN "direct" ELSE "admit")
          BY <1>1, <2>1 DEF Start, SendMsg
    <3>2. UNCHANGED <<count, earlier, sent, iqs, work>> /\ at'[Net] = at[Net]
          BY <1>1 DEF Start, SendMsg
    <3>3. QED
          BY <3>1, <3>2
  <2>2. CASE b # c
        BY <1>1, <2>2 DEF Start, SendMsg
  <2>3. QED
        BY <2>1, <2>2
<1>2. ASSUME NEW c \in Call, NEW d \in Call, Fallback(c, d)
      PROVE Kept
  <2>1. CASE b = d
    <3>1. at[b] = "idle" /\ at'[b] = "admit"
          BY <1>2, <2>1 DEF Fallback, SendMsg
    <3>2. UNCHANGED <<count, earlier, sent, iqs, work>> /\ at'[Net] = at[Net]
          BY <1>2 DEF Fallback, SendMsg
    <3>3. QED
          BY <3>1, <3>2
  <2>2. CASE b # d
        BY <1>2, <2>2 DEF Fallback, SendMsg
  <2>3. QED
        BY <2>1, <2>2
<1>3. ASSUME NEW t \in Thread, Lookup(t)
      PROVE Kept
      BY <1>3 DEF Lookup
<1>4. ASSUME NEW t \in Thread, Sync(t)
      PROVE Kept
  <2>1. CASE t = Net
        BY <1>4, <2>1 DEF Sync, Return, Leave
  <2>2. CASE t \in Call
        BY <1>4, <2>2 DEF Sync, Return, Leave
  <2>3. QED
        BY <2>1, <2>2
<1>5. ASSUME NEW t \in Thread, Direct(t)
      PROVE Kept
  <2>1. CASE t = Net
        BY <1>5, <2>1 DEF Direct, Refused, Leave
  <2>2. CASE t \in Call
        BY <1>5, <2>2 DEF Direct, Refused, Leave
  <2>3. QED
        BY <2>1, <2>2
<1>6. ASSUME NEW t \in Thread, AskMediaConn(t)
      PROVE Kept
  <2>1. CASE t = Net
        BY <1>6, <2>1 DEF AskMediaConn, Return, Leave
  <2>2. CASE t \in Call
        BY <1>6, <2>2 DEF AskMediaConn, Return, Leave
  <2>3. QED
        BY <2>1, <2>2
<1>7. ASSUME NEW t \in Thread, Put(t)
      PROVE Kept
  <2>1. CASE t = Net
        BY <1>7, <2>1 DEF Put
  <2>2. CASE t \in Call
        BY <1>7, <2>2 DEF Put
  <2>3. QED
        BY <2>1, <2>2
<1>8. ASSUME NEW t \in Thread, Register(t)
      PROVE Kept
      BY <1>8 DEF Register
<1>9. ASSUME NEW t \in Thread, Signal(t)
      PROVE Kept
  <2>1. CASE t = Net
        BY <1>9, <2>1 DEF Signal, Return, Leave
  <2>2. CASE t \in Call
        BY <1>9, <2>2 DEF Signal, Return, Leave
  <2>3. QED
        BY <2>1, <2>2
<1>10. ASSUME NEW t \in Thread, GotId(t)
      PROVE Kept
  <2>1. CASE t = Net
        BY <1>10, <2>1 DEF GotId, Leave
  <2>2. CASE t \in Call
        BY <1>10, <2>2 DEF GotId, Leave
  <2>3. QED
        BY <2>1, <2>2
<1>11. ASSUME NEW t \in Thread, WaitTimeout(t)
      PROVE Kept
  <2>1. CASE t = Net
        BY <1>11, <2>1 DEF WaitTimeout, Leave
  <2>2. CASE t \in Call
        BY <1>11, <2>2 DEF WaitTimeout, Leave
  <2>3. QED
        BY <2>1, <2>2
<1>12. ASSUME NEW c \in Call, OnSynced(c)
      PROVE Kept
      BY <1>12 DEF OnSynced, Answered
<1>13. ASSUME NEW c \in Call, OnUnknown(c)
      PROVE Kept
      BY <1>13 DEF OnUnknown, Answered
<1>14. ASSUME NEW c \in Call, NEW f \in BOOLEAN, OnSyncError(c, f)
      PROVE Kept
      BY <1>14 DEF OnSyncError, Answered
<1>15. ASSUME NEW c \in Call, OnMediaConn(c)
      PROVE Kept
      BY <1>15 DEF OnMediaConn, Answered
<1>16. ASSUME NEW c \in Call, NEW f \in BOOLEAN, OnAck(c, f)
      PROVE Kept
      BY <1>16 DEF OnAck
<1>17. ASSUME OnDisconnected
      PROVE Kept
      BY <1>17 DEF OnDisconnected
<1>18. ASSUME OnSuccess
      PROVE Kept
      BY <1>18 DEF OnSuccess
<1>19. ASSUME OnFailure
      PROVE Kept
      BY <1>19 DEF OnFailure
<1>20. CASE UNCHANGED vars
       BY <1>20 DEF vars
<1> HIDE DEF TypeOK, Counts, Hand, Asked, NetHas, Thread, Call, Net, Active, Early, Goto,
            link, guard, call, message, result, Kept
<1>21. QED
       BY <1>1, <1>2, <1>3, <1>4, <1>5, <1>6, <1>7, <1>8, <1>9, <1>10, <1>11, <1>12, <1>13, <1>14, <1>15, <1>16, <1>17, <1>18, <1>19, <1>20 DEF Next, Step, NetHears

\* Admit lets one message through for one more in the count, or none.
LEMMA AdmitStep ==
    ASSUME OutboxAssumption, TypeOK, OneHand, NEW t \in Thread, Admit(t)
    PROVE  /\ earlier' = earlier
           /\ \/ count' = count /\ Counted' \subseteq Counted
              \/ /\ count < Limit /\ count' = count + 1
                 /\ Counted' \subseteq Counted \cup {work[t]}
<1>1. UNCHANGED <<earlier, work, kind, sent, iqs>> /\ at[t] = "admit"
      BY DEF Admit, call, message
<1>2. \A b \in Call : Hand(b)
      BY DEF OneHand
<1>3. PICK p \in {"lookup", "dead", "end"} : at' = [at EXCEPT ![t] = p]
      BY DEF Admit, Goto, Refused, Leave
<1>4. \A b \in Call : Counts(b)' => Counts(b) \/ b = work[t]
      BY <1>1, <1>3 DEF Counts, TypeOK, Thread, Early
<1>5. CASE ~restricted /\ WithinLimit
      BY <1>1, <1>4, <1>5 DEF Counted, Admit, WithinLimit
<1>6. CASE ~(~restricted /\ WithinLimit)
  <2>1. p # "lookup"
    <3>1. at' = [at EXCEPT ![t] = "dead"] \/ at' = [at EXCEPT ![t] = "end"]
          BY <1>6 DEF Admit, Goto, Refused, Leave
    <3>2. QED
          BY <1>3, <3>1 DEF TypeOK
  <2>2. \A b \in Call : Counts(b)' => Counts(b)
        BY <1>1, <1>3, <2>1 DEF Counts, TypeOK, Thread, Early
  <2>3. count' = count
        BY <1>6 DEF Admit
  <2>4. QED
        BY <1>1, <2>2, <2>3 DEF Counted
<1>7. QED
      BY <1>5, <1>6

\* Every step keeps the count at no less than what may go out.
LEMMA CountStep ==
    ASSUME OutboxAssumption, TypeOK, TypeOK', OneHand, CountIsEnough, [Next]_vars
    PROVE  CountIsEnough'
<1>1. IsFiniteSet(Call)
  <2>1. MaxCalls \in Nat
        BY DEF OutboxAssumption
  <2>2. QED
        BY <2>1, FS_Interval DEF Call
<1>2. \A S \in SUBSET Call : IsFiniteSet(S) /\ Cardinality(S) \in Nat
      BY <1>1, FS_Subset, FS_CardinalityType
<1>3. \A S, T \in SUBSET Call : S \subseteq T => Cardinality(S) <= Cardinality(T)
      BY <1>2, FS_Subset
<1>4. Counted \in SUBSET Call /\ Counted' \in SUBSET Call
      BY DEF Counted, Call
<1>5. earlier \in Nat /\ count \in Nat /\ Limit \in Nat
      BY DEF TypeOK, OutboxAssumption
<1>6. CASE \A t \in Thread : ~Admit(t)
  <2>1. count' = count /\ earlier' = earlier /\ \A b \in Call : Counts(b)' => Counts(b)
        BY <1>6, CountKept, OnlyAdmitCounts
  <2>2. Counted' \subseteq Counted
        BY <2>1 DEF Counted, Call
  <2>3. Cardinality(Counted') <= Cardinality(Counted)
        BY <1>3, <1>4, <2>2
  <2>4. QED
        BY <1>2, <1>4, <1>5, <2>1, <2>3 DEF CountIsEnough
<1>7. ASSUME NEW t \in Thread, Admit(t)
      PROVE CountIsEnough'
  <2> DEFINE More == Counted \cup {work[t]}
  <2>1. work[t] \in Call
        BY <1>7 DEF Admit, TypeOK, Thread
  <2>2. Cardinality(More) <= Cardinality(Counted) + 1 /\ More \in SUBSET Call
    <3>1. IsFiniteSet(Counted) /\ Cardinality(Counted) \in Nat
          BY <1>2, <1>4
    <3>2. Cardinality(More) = IF work[t] \in Counted THEN Cardinality(Counted)
                              ELSE Cardinality(Counted) + 1
          BY ONLY <3>1, FS_AddElement
    <3>3. More \in SUBSET Call
          BY <2>1, <1>4
    <3>4. QED
          BY ONLY <3>1, <3>2, <3>3
  <2>3. CASE count' = count /\ earlier' = earlier /\ Counted' \subseteq Counted
    <3>1. Cardinality(Counted') <= Cardinality(Counted)
          BY <1>3, <1>4, <2>3
    <3>2. QED
          BY <1>2, <1>4, <1>5, <2>3, <3>1 DEF CountIsEnough
  <2>4. CASE count < Limit /\ count' = count + 1 /\ earlier' = earlier /\ Counted' \subseteq More
    <3>1. Cardinality(Counted') <= Cardinality(More)
          BY <1>3, <1>4, <2>2, <2>4
    <3>2. QED
          BY <1>2, <1>4, <1>5, <2>2, <2>4, <3>1 DEF CountIsEnough
  <2>5. QED
        BY <1>7, <2>3, <2>4, AdmitStep
<1>8. QED
      BY <1>6, <1>7

-----------------------------------------------------------------------------
(* The invariant, and what follows from it.                                *)

\* The invariant holds at the start, when nothing was sent.
LEMMA InvInit == OutboxAssumption /\ Init => IInv
<1> SUFFICES ASSUME OutboxAssumption, Init PROVE IInv
    OBVIOUS
<1>1. TypeOK
      BY TypeInit
<1>2. OneHand
      BY DEF Init, OneHand, Hand, Asked, NetHas, Call, Thread, Net, Active, Early
<1>3. CountIsEnough
  <2>1. Counted = {}
        BY DEF Init, Counted, Counts, Call, Thread, Net, Early
  <2>2. earlier \in 0..Limit /\ count = earlier /\ Limit \in Nat
        BY DEF Init, OutboxAssumption
  <2>3. QED
        BY <2>1, <2>2, FS_EmptySet DEF CountIsEnough
<1>4. RowsOfSent
      BY DEF Init, RowsOfSent, Thread, Net
<1>5. KnownGetsId
      BY DEF Init, KnownGetsId, GetsId, Call
<1>6. QED
      BY <1>1, <1>2, <1>3, <1>4, <1>5 DEF IInv

\* Every step keeps the invariant.
LEMMA InvStep == OutboxAssumption /\ IInv /\ [Next]_vars => IInv'
<1> SUFFICES ASSUME OutboxAssumption, IInv, [Next]_vars PROVE IInv'
    OBVIOUS
<1>1. TypeOK /\ OneHand /\ CountIsEnough /\ RowsOfSent /\ KnownGetsId
      BY DEF IInv
<1>2. TypeOK'
      BY <1>1, TypeStep
<1>3. OneHand' /\ CountIsEnough' /\ RowsOfSent' /\ KnownGetsId'
      BY <1>1, <1>2, HandStep, CountStep, RowStep, IdStep
<1>4. QED
      BY <1>2, <1>3 DEF IInv

\* The invariant holds in every state that the calls can reach.
THEOREM Invariant == ASSUME OutboxAssumption PROVE Spec => []IInv
<1>1. Init => IInv
      BY InvInit
<1>2. IInv /\ [Next]_vars => IInv'
      BY InvStep
<1>3. QED
      BY <1>1, <1>2, PTL DEF Spec

\* Counted is at least what was sent and counts, so the limit of the day holds
\* for any number of calls, threads and repeats.
THEOREM LimitCorrect == ASSUME OutboxAssumption PROVE Spec => []LimitHolds
<1>1. IInv => LimitHolds
  <2> SUFFICES ASSUME IInv PROVE LimitHolds
      OBVIOUS
  <2> DEFINE Out == {c \in sent : kind[c] # "reaction"}
  <2>1. Out \subseteq Counted /\ Counted \subseteq Call
        BY DEF IInv, TypeOK, Counted, Counts
  <2>2. IsFiniteSet(Counted)
    <3>1. MaxCalls \in Nat
          BY DEF OutboxAssumption
    <3>2. IsFiniteSet(Call)
          BY <3>1, FS_Interval DEF Call
    <3>3. QED
          BY <3>2, <2>1, FS_Subset
  <2>3. /\ Cardinality(Out) <= Cardinality(Counted)
        /\ Cardinality(Out) \in Nat /\ Cardinality(Counted) \in Nat
        BY <2>1, <2>2, FS_Subset, FS_CardinalityType
  <2>4. earlier \in Nat /\ count \in Nat /\ Limit \in Nat
        BY DEF IInv, TypeOK, OutboxAssumption
  <2>5. earlier + Cardinality(Counted) <= count /\ count <= Limit
        BY DEF IInv, CountIsEnough
  <2>6. QED
        BY <2>3, <2>4, <2>5 DEF LimitHolds
<1>2. QED
      BY <1>1, Invariant, PTL

\* Only Register writes EXECUTED.  Net registers a message whose ack cannot have
\* been handled yet, so a status is lost only in the thread of the call itself.
THEOREM StatusCorrect == ASSUME OutboxAssumption PROVE Spec => StatusForward
<1> DEFINE Forward ==
       \A c \in Call :
          row[c] \in {"SENT", "ERROR"} /\ row'[c] = "EXECUTED" => at[c] = "register"
<1>1. IInv /\ [Next]_vars => [Forward]_vars
  <2> SUFFICES ASSUME IInv, Next, NEW b \in Call,
                      row[b] \in {"SENT", "ERROR"}, row'[b] = "EXECUTED"
               PROVE  at[b] = "register"
      BY DEF vars
  <2> USE DEF message
  <2>1. ASSUME NEW c \in Call, NEW k \in Kinds, NEW n \in Dialled, NEW w \in BOOLEAN, Start(c, k, n, w)
        PROVE FALSE
        BY <2>1 DEF Start, SendMsg
  <2>2. ASSUME NEW c \in Call, NEW d \in Call, Fallback(c, d)
        PROVE FALSE
        BY <2>2 DEF Fallback, SendMsg
  <2>3. ASSUME NEW t \in Thread, Step(t), ~Register(t)
        PROVE FALSE
        BY <2>3 DEF Step, Admit, Lookup, Sync, Direct, AskMediaConn, Put, Signal, GotId, WaitTimeout
  <2>4. ASSUME NEW t \in Thread, Register(t)
        PROVE at[b] = "register"
    <3>1. work[t] = b /\ at[t] = "register"
          BY <2>4 DEF Register, IInv, TypeOK
    <3>2. t # Net
          BY <3>1 DEF IInv, RowsOfSent
    <3>3. t = b
          BY <3>1, <3>2 DEF IInv, TypeOK, Thread
    <3>4. QED
          BY <3>1, <3>3
  <2>5. ASSUME NEW c \in Call, NEW f \in BOOLEAN, OnAck(c, f)
        PROVE FALSE
        BY <2>5 DEF OnAck, IInv, TypeOK
  <2>6. ASSUME NetHears, ~(\E c \in Call, f \in BOOLEAN : OnAck(c, f))
        PROVE FALSE
        BY <2>6 DEF NetHears, OnSynced, OnUnknown, OnSyncError, OnMediaConn, OnDisconnected, OnSuccess, OnFailure
  <2>7. QED
        BY <2>1, <2>2, <2>3, <2>4, <2>5, <2>6 DEF Next
<1>2. QED
      BY <1>1, Invariant, PTL DEF Spec, StatusForward

\* A message to a known contact gives its caller the id, which then never
\* repeats it.
THEOREM RepeatsCorrect == ASSUME OutboxAssumption PROVE Spec => []RepeatsOnlyNew
<1>1. IInv => RepeatsOnlyNew
  <2> SUFFICES ASSUME IInv, NEW c \in sent, again[c] \in sent PROVE c \in synced
      BY DEF RepeatsOnlyNew
  <2>1. c \in Call /\ GetsId(c)
        BY DEF IInv, TypeOK, KnownGetsId
  <2>2. again[c] # 0
        BY DEF IInv, TypeOK, Call
  <2>3. QED
        BY <2>1, <2>2 DEF GetsId
<1>2. QED
      BY <1>1, Invariant, PTL

=============================================================================
