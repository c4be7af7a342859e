--------------------------- MODULE PreKeysProofs ---------------------------
(***************************************************************************)
(* Proofs about PreKeys, for any size of a generation, any threshold and   *)
(* any number of generations, losses and crashes: the keys the server can  *)
(* hand out, and those it has handed out, are keys this side can use; no   *)
(* id stands twice in the table; a key marked as sent is one the server    *)
(* has stored.                                                             *)
(***************************************************************************)
EXTENDS PreKeys, FiniteSetTheorems, WellFoundedInduction, TLAPS

\* Keys that have left the server's stock; none comes back.
Gone == known \ stock

\* What an upload may hold: this side's keys, and keys that the server will not
\* stock again.
Settled == store \cup Gone

OnWire == [kind : {"upload"}, keys : SUBSET Settled, reboot : BOOLEAN]
Answer ==
    [kind : {"success", "error", "count"}]
        \cup [kind : {"result"}, keys : SUBSET known, reboot : BOOLEAN]
        \cup [kind : {"pkmsg"}, key : Gone]

\* The keys in use are here; those handed out are not in stock, and what is
\* under way brings none back without its private half.
IInv ==
    /\ stock \subseteq store /\ issued \subseteq store
    /\ stock \subseteq known /\ issued \subseteq Gone
    /\ unsent \subseteq Settled
    /\ outbox \in Seq(OnWire) /\ inbox \in Seq(Answer)

-----------------------------------------------------------------------------
\* A step that takes no key from Settled or Gone, and forgets none that the server
\* knew, leaves what is under way as it was.
LEMMA WireGrows ==
    ASSUME IInv, Settled \subseteq Settled', Gone \subseteq Gone', known \subseteq known'
    PROVE  OnWire \subseteq OnWire' /\ Answer \subseteq Answer'
           /\ outbox \in Seq(OnWire') /\ inbox \in Seq(Answer')
<1>1. OnWire \subseteq OnWire' /\ Answer \subseteq Answer'
      BY DEF OnWire, Answer
<1>2. QED
      BY <1>1 DEF IInv

\* What a step has to keep for the invariant to hold after it.
LEMMA StillHolds ==
    ASSUME IInv, Settled \subseteq Settled', Gone \subseteq Gone', known \subseteq known',
           stock' \subseteq store', issued' \subseteq store', stock' \subseteq known',
           issued' \subseteq Gone', unsent' \subseteq Settled',
           outbox' \in Seq(OnWire'), inbox' \in Seq(Answer')
    PROVE  IInv'
  BY DEF IInv

\* Connecting adds keys of this side's own.
LEMMA OnConnectedStep ==
    ASSUME IInv, NEW flag, OnConnected(flag)
    PROVE  IInv'
<1>1. PICK new : store' = store \cup new /\ unsent' = unsent \cup ((store \cup new) \ sent)
      BY DEF OnConnected
<1>2. UNCHANGED <<outbox, stock, issued, known>> /\ inbox' = <<[kind |-> "success"]>>
      BY DEF OnConnected, serverVars
<1>3. Gone' = Gone /\ Settled \subseteq Settled'
      BY <1>1, <1>2 DEF Gone, Settled
<1>4. outbox' \in Seq(OnWire')
      BY <1>2, <1>3, WireGrows
<1>5. inbox' \in Seq(Answer')
      BY <1>2 DEF Answer
<1>6. unsent' \subseteq Settled'
      BY <1>1, <1>3 DEF IInv, Settled
<1>7. QED
      BY <1>1, <1>2, <1>3, <1>4, <1>5, <1>6, StillHolds DEF IInv

\* The process or the connection ends: what is on the wire is lost.
LEMMA LossStep ==
    ASSUME IInv, Lose \/ Crash
    PROVE  IInv'
<1>1. PICK new : store' = store \cup new
      BY DEF Lose, Crash, localVars
<1>2. UNCHANGED <<stock, issued, known>> /\ outbox' = <<>> /\ inbox' = <<>>
      BY DEF Lose, Crash, Close, serverVars
<1>3. unsent' \in {unsent, {}}
      BY DEF Lose, Crash, localVars
<1>4. Gone' = Gone /\ Settled \subseteq Settled'
      BY <1>1, <1>2 DEF Gone, Settled
<1>5. QED
      BY <1>1, <1>2, <1>3, <1>4, StillHolds DEF IInv

\* The client handles what the server sent.
LEMMA HandleStep ==
    ASSUME IInv, Handle
    PROVE  IInv'
<1> USE DEF Receives
<1>1. inbox \in Seq(Answer) /\ outbox \in Seq(OnWire)
      BY DEF IInv
<1>2. CASE OnAuthed
  <2>1. UNCHANGED <<store, stock, issued, known>> /\ inbox' = Tail(inbox) /\ inbox # <<>>
        BY <1>2 DEF OnAuthed, serverVars
  <2>2. unsent' \in {unsent, {}}
        BY <1>2 DEF OnAuthed
  <2>3. Gone' = Gone /\ Settled' = Settled /\ OnWire' = OnWire /\ Answer' = Answer
        BY <2>1 DEF Gone, Settled, OnWire, Answer
  <2>4. [kind |-> "upload", keys |-> unsent, reboot |-> TRUE] \in OnWire
        BY DEF OnWire, IInv
  <2>5. outbox' \in Seq(OnWire)
        BY <1>1, <1>2, <2>4, SMTT(30) DEF OnAuthed, FlushKeys
  <2>6. QED
        BY <1>1, <2>1, <2>2, <2>3, <2>5, StillHolds DEF IInv
<1>3. CASE OnRequestKeys
  <2>1. UNCHANGED <<unsent, stock, issued, known>> /\ inbox' = Tail(inbox) /\ inbox # <<>>
        BY <1>3 DEF OnRequestKeys, serverVars
  <2>2. store' = store \cup Levelled(TRUE)
        BY <1>3 DEF OnRequestKeys
  <2>3. Gone' = Gone /\ Settled \subseteq Settled' /\ Levelled(TRUE) \subseteq Settled'
        BY <2>1, <2>2 DEF Gone, Settled
  <2>4. [kind |-> "upload", keys |-> Levelled(TRUE), reboot |-> FALSE] \in OnWire'
        BY <2>3 DEF OnWire
  <2>5. outbox' = Append(outbox, [kind |-> "upload", keys |-> Levelled(TRUE), reboot |-> FALSE])
        BY <1>3 DEF OnRequestKeys, FlushKeys
  <2>6. outbox \in Seq(OnWire') /\ inbox \in Seq(Answer')
        BY <2>1, <2>3, WireGrows
  <2>7. outbox' \in Seq(OnWire') /\ inbox' \in Seq(Answer')
        BY <2>1, <2>4, <2>5, <2>6
  <2>8. QED
        BY <2>1, <2>2, <2>3, <2>7, StillHolds DEF IInv
<1>4. CASE OnKeysFlushed
  <2>1. UNCHANGED <<store, unsent, stock, issued, known>>
        BY <1>4 DEF OnKeysFlushed, serverVars
  <2>2. \/ outbox' = <<>> /\ inbox' = <<>>
        \/ outbox' = outbox /\ inbox' = Tail(inbox) /\ inbox # <<>>
        BY <1>4 DEF OnKeysFlushed, Close
  <2>3. Gone' = Gone /\ Settled' = Settled /\ OnWire' = OnWire /\ Answer' = Answer
        BY <2>1 DEF Gone, Settled, OnWire, Answer
  <2>4. inbox # <<>> => Tail(inbox) \in Seq(Answer)
        BY <1>1
  <2>5. <<>> \in Seq(OnWire) /\ <<>> \in Seq(Answer)
        OBVIOUS
  <2>6. outbox' \in Seq(OnWire) /\ inbox' \in Seq(Answer)
        BY <1>1, <2>2, <2>4, <2>5, Zenon
  <2>7. QED
        BY <2>1, <2>3, <2>6, StillHolds DEF IInv
<1>5. CASE OnSentKeysError
  <2>1. UNCHANGED <<store, unsent, outbox, stock, issued, known>> /\ inbox' = Tail(inbox) /\ inbox # <<>>
        BY <1>5 DEF OnSentKeysError, serverVars, localVars
  <2>2. Gone' = Gone /\ Settled' = Settled /\ OnWire' = OnWire /\ Answer' = Answer
        BY <2>1 DEF Gone, Settled, OnWire, Answer
  <2>3. QED
        BY <1>1, <2>1, <2>2, StillHolds DEF IInv
<1>6. CASE OnPreKeyMessage
  <2> DEFINE k == Head(inbox).key
  <2>1. UNCHANGED <<unsent, outbox, stock, known>> /\ inbox' = Tail(inbox) /\ inbox # <<>>
        BY <1>6 DEF OnPreKeyMessage
  <2>2. k \in Gone
    <3>1. Head(inbox) \in Answer /\ Head(inbox).kind = "pkmsg"
          BY <1>1, <1>6 DEF OnPreKeyMessage
    <3>2. QED
          BY <3>1 DEF Answer
  <2>3. store' = store \ {k} /\ issued' = issued \ {k}
        BY <1>6 DEF OnPreKeyMessage
  <2>4. Gone' = Gone /\ Settled' = Settled
        BY <2>1, <2>2, <2>3 DEF Gone, Settled
  <2>5. OnWire' = OnWire /\ Answer' = Answer
        BY <2>1, <2>4 DEF OnWire, Answer
  <2>6. stock' \subseteq store'
        BY <2>1, <2>2, <2>3 DEF IInv, Gone
  <2>7. QED
        BY <1>1, <2>1, <2>3, <2>4, <2>5, <2>6, StillHolds DEF IInv
<1>7. QED
      BY <1>2, <1>3, <1>4, <1>5, <1>6 DEF Handle

\* The server stocks the keys of an upload that it has not had before: they are
\* all here.
LEMMA UploadStep ==
    ASSUME IInv, ServerUpload
    PROVE  IInv'
<1> DEFINE u == Head(outbox)
<1>1. UNCHANGED <<store, unsent, issued>> /\ outbox' = Tail(outbox) /\ outbox # <<>>
      BY DEF ServerUpload, localVars
<1>2. u \in OnWire /\ outbox \in Seq(OnWire) /\ inbox \in Seq(Answer)
      BY <1>1 DEF IInv
<1>3. u.keys \subseteq Settled /\ u.reboot \in BOOLEAN
      BY <1>2 DEF OnWire
<1>4. ASSUME stock' \subseteq stock \cup (u.keys \ Gone), known' = known \cup u.keys,
             inbox' = Append(inbox, [kind |-> "result", keys |-> u.keys, reboot |-> u.reboot])
      PROVE  IInv'
  <2>1. Gone \subseteq Gone' /\ Settled \subseteq Settled' /\ known \subseteq known'
        BY <1>1, <1>4 DEF Gone, Settled, IInv
  <2>2. stock' \subseteq store' /\ stock' \subseteq known'
        BY <1>1, <1>3, <1>4 DEF IInv, Settled
  <2>3. outbox \in Seq(OnWire') /\ inbox \in Seq(Answer')
        BY <2>1, WireGrows
  <2>4. [kind |-> "result", keys |-> u.keys, reboot |-> u.reboot] \in Answer'
        BY <1>3, <1>4 DEF Answer
  <2>5. outbox' \in Seq(OnWire') /\ inbox' \in Seq(Answer')
        BY <1>1, <1>4, <2>3, <2>4
  <2>6. QED
        BY <1>1, <2>1, <2>2, <2>5, StillHolds DEF IInv
<1>5. ASSUME UNCHANGED <<stock, known>>, inbox' = Append(inbox, [kind |-> "error"])
      PROVE  IInv'
  <2>1. Gone' = Gone /\ Settled' = Settled /\ OnWire' = OnWire /\ Answer' = Answer
        BY <1>1, <1>5 DEF Gone, Settled, OnWire, Answer
  <2>2. [kind |-> "error"] \in Answer
        BY DEF Answer
  <2>3. outbox' \in Seq(OnWire) /\ inbox' \in Seq(Answer)
        BY <1>1, <1>2, <1>5, <2>2
  <2>4. QED
        BY <1>1, <1>5, <2>1, <2>3, StillHolds DEF IInv
<1>6. QED
      BY <1>4, <1>5 DEF ServerUpload, Gone, IInv

\* The server asks for keys, hands one out, or delivers a peer's first message.
LEMMA ServerStep ==
    ASSUME IInv, ServerAsks \/ HandOut \/ Deliver
    PROVE  IInv'
<1>1. outbox \in Seq(OnWire) /\ inbox \in Seq(Answer)
      BY DEF IInv
<1>2. CASE HandOut
  <2>1. PICK k \in stock : stock' = stock \ {k} /\ issued' = issued \cup {k}
        BY <1>2 DEF HandOut
  <2>2. UNCHANGED <<store, unsent, outbox, inbox, known>>
        BY <1>2 DEF HandOut, localVars, wireVars
  <2>3. Gone \subseteq Gone' /\ Settled \subseteq Settled' /\ k \in Gone'
        BY <2>1, <2>2 DEF Gone, Settled, IInv
  <2>4. outbox' \in Seq(OnWire') /\ inbox' \in Seq(Answer')
        BY <2>2, <2>3, WireGrows
  <2>5. QED
        BY <2>1, <2>2, <2>3, <2>4, StillHolds DEF IInv
<1>3. CASE ServerAsks \/ Deliver
  <2>1. UNCHANGED <<store, unsent, outbox, stock, issued, known>>
        BY <1>3 DEF ServerAsks, Deliver, localVars, serverVars
  <2>2. Gone' = Gone /\ Settled' = Settled /\ OnWire' = OnWire /\ Answer' = Answer
        BY <2>1 DEF Gone, Settled, OnWire, Answer
  <2>3. PICK a \in Answer : inbox' = Append(inbox, a)
    <3>1. CASE ServerAsks
      <4>1. [kind |-> "count"] \in Answer
            BY DEF Answer
      <4>2. QED
            BY <3>1, <4>1 DEF ServerAsks
    <3>2. CASE Deliver
      <4>1. PICK k \in issued : inbox' = Append(inbox, [kind |-> "pkmsg", key |-> k])
            BY <3>2 DEF Deliver
      <4>2. [kind |-> "pkmsg", key |-> k] \in Answer
            BY DEF Answer, IInv
      <4>3. QED
            BY <4>1, <4>2
    <3>3. QED
          BY <1>3, <3>1, <3>2
  <2>4. inbox' \in Seq(Answer)
        BY <1>1, <2>3
  <2>5. QED
        BY <1>1, <2>1, <2>2, <2>4, StillHolds DEF IInv
<1>4. QED
      BY <1>2, <1>3

-----------------------------------------------------------------------------
\* The invariant of the keys: what is in stock, was handed out or is under way is
\* here, or will not be handed out again.
THEOREM KeysInHand == Spec => []IInv
<1>1. Init => IInv
      BY DEF Init, IInv, Gone, Settled
<1>2. IInv /\ [Next]_vars => IInv'
  <2> SUFFICES ASSUME IInv, [Next]_vars PROVE IInv'
      OBVIOUS
  <2>1. CASE Reboot
        BY <2>1, OnConnectedStep DEF Reboot
  <2>2. CASE Reconnect
        BY <2>2, OnConnectedStep DEF Reconnect
  <2>3. CASE Return \/ UNCHANGED vars
    <3>1. UNCHANGED <<store, unsent, outbox, inbox, stock, issued, known>>
          BY <2>3 DEF Return, vars, localVars, wireVars, serverVars
    <3>2. QED
          BY <3>1 DEF IInv, Gone, Settled, OnWire, Answer
  <2>4. CASE Handle
        BY <2>4, HandleStep
  <2>5. CASE Lose \/ Crash
        BY <2>5, LossStep
  <2>6. CASE ServerUpload
        BY <2>6, UploadStep
  <2>7. CASE ServerAsks \/ HandOut \/ Deliver
        BY <2>7, ServerStep
  <2>8. QED
        BY <2>1, <2>2, <2>3, <2>4, <2>5, <2>6, <2>7 DEF Next
<1>3. QED
      BY <1>1, <1>2, PTL DEF Spec

\* Whatever is generated, lost, uploaded twice or consumed, and whenever the
\* process dies, a peer is never given a key that this side cannot use.
THEOREM KeysUsable == Spec => []ServerKeysUsable
<1>1. IInv => ServerKeysUsable
      BY DEF IInv, ServerKeysUsable
<1>2. QED
      BY <1>1, KeysInHand, PTL

-----------------------------------------------------------------------------
(* Ids and marks.                                                          *)

\* The ids and generations of keys: no id stands twice in the table.
Stored ==
    /\ gens \in 0..MaxGen /\ IsFiniteSet(store) /\ sent \subseteq store \cap known
    /\ store \cup known \subseteq [id : 1..(Batch * gens), gen : 1..gens]
    /\ \A j, k \in store : j.id = k.id => j = k

\* After the last generation there are keys enough not to need another.
Enough ==
    /\ gens = MaxGen => Cardinality(store \ issued) >= Threshold
    /\ \A i \in DOMAIN inbox : inbox[i].kind = "count" =>
          /\ gens < MaxGen
          /\ \A j \in DOMAIN inbox : inbox[j].kind = "count" => i = j

\* What a login has seen and asked for.
LoginKnows ==
    /\ passive \in BOOLEAN /\ connected \in BOOLEAN
    /\ login \in {"none", "passive", "active"}
    /\ login = "none" => outbox = <<>> /\ inbox \in {<<>>, <<[kind |-> "success"]>>}
    /\ login # "none" =>
          /\ connected /\ (login = "passive" <=> passive)
          /\ \A i \in DOMAIN inbox : inbox[i].kind # "success"
    /\ ~connected => login = "none" /\ inbox = <<>>
    /\ unsent \subseteq store /\ (connected /\ unsent # {} => passive)

\* Uploads under way and their results hold keys of the table; a message that
\* removes a key comes after every answer to an upload of the key.
WireKeys ==
    /\ \A i \in DOMAIN outbox : outbox[i].keys \subseteq store
    /\ login = "active" =>
          /\ \A i \in DOMAIN outbox : outbox[i].keys \cap known = {}
          /\ \A i, j \in DOMAIN outbox : i # j => outbox[i].keys \cap outbox[j].keys = {}
    /\ \A i \in DOMAIN inbox :
          /\ inbox[i].kind = "result" => inbox[i].keys \subseteq store \cap known
          /\ inbox[i].kind = "pkmsg" => inbox[i].key \in issued /\ login = "active"
    /\ \A i, j \in DOMAIN inbox : i < j /\ inbox[i].kind = "pkmsg" =>
          /\ inbox[j].kind = "result" => inbox[i].key \notin inbox[j].keys
          /\ inbox[j].kind = "pkmsg" => inbox[i].key # inbox[j].key

\* What connects again, and how often.
Rest ==
    /\ reboot \in BOOLEAN /\ at \in {"loop", "control", "app"}
    /\ queue \in Nat /\ losses \in 0..MaxLosses

JInv == IInv /\ Stored /\ Enough /\ LoginKnows /\ WireKeys /\ Rest

-----------------------------------------------------------------------------
(* Ids.                                                                    *)

\* A set of numbers has a least one: what an induction over them needs.
LEMMA Least ==
    ASSUME NEW T \in SUBSET Nat, T # {}
    PROVE  \E x \in T : \A y \in T : x <= y
<1>1. IsWellFoundedOn(OpToRel(<, Nat), Nat)
      BY NatLessThanWellFounded
<1>2. PICK x \in T : \A y \in T : ~(<<y, x>> \in OpToRel(<, Nat))
      BY <1>1, WFMin
<1>3. \A y \in T : ~(y < x)
      BY <1>2 DEF OpToRel
<1>4. QED
      BY <1>3

\* ... and a bounded one a largest, which is what Max chooses.
LEMMA Largest ==
    ASSUME NEW n \in Nat, NEW T \in SUBSET (0..n), T # {}
    PROVE  Max(T) \in T /\ \A y \in T : Max(T) >= y
<1> DEFINE D == {d \in 0..n : n - d \in T}
<1>1. \A x \in T : n - x \in 0..n /\ n - (n - x) = x
      OBVIOUS
<1>2. \A x \in T : n - x \in D
      BY <1>1
<1>3. D \in SUBSET Nat /\ D # {}
  <2>1. PICK x : x \in T
        OBVIOUS
  <2>2. n - x \in D
        BY <1>2, <2>1
  <2> HIDE DEF D
  <2>3. D # {}
        BY <2>2
  <2>4. D \in SUBSET Nat
        BY DEF D
  <2>5. QED
        BY <2>3, <2>4
<1>4. PICK d \in D : \A e \in D : d <= e
      BY <1>3, Least
<1>5. \A y \in T : n - d >= y
  <2> SUFFICES ASSUME NEW y \in T PROVE n - d >= y
      OBVIOUS
  <2>1. d <= n - y
        BY <1>2, <1>4
  <2>2. QED
        BY <1>4, <2>1
<1>6. \E m \in T : \A y \in T : m >= y
      BY <1>4, <1>5
<1>7. QED
      BY <1>6 DEF Max

\* select max(prekey_id) finds an id that no key of the table exceeds.
LEMMA MaxIsLargest ==
    ASSUME Stored
    PROVE  /\ MaxPreKeyId(store) \in 0..(Batch * gens)
           /\ \A k \in store : k.id <= MaxPreKeyId(store)
<1> DEFINE ids == {k.id : k \in store}
           n == Batch * gens
<1>1. n \in Nat
      BY PreKeysAssumption DEF Stored
<1>2. CASE store = {}
      BY <1>1, <1>2 DEF MaxPreKeyId
<1>3. CASE store # {}
  <2>1. \A k \in store : k.id \in 0..n
        BY <1>1 DEF Stored
  <2>2. ids \in SUBSET (0..n) /\ ids # {}
        BY <1>3, <2>1
  <2> HIDE DEF n, ids
  <2>3. Max(ids) \in ids /\ \A y \in ids : Max(ids) >= y
        BY <1>1, <2>2, Largest
  <2>4. MaxPreKeyId(store) = Max(ids)
        BY <1>3 DEF MaxPreKeyId, ids
  <2>5. \A k \in store : k.id \in ids
        BY DEF ids
  <2>6. \A y \in ids : y \in Nat
        BY <1>1, <2>2
  <2>7. MaxPreKeyId(store) \in 0..n
        BY <2>2, <2>3, <2>4
  <2>8. QED
        BY <1>1, <2>1, <2>3, <2>4, <2>5, <2>6, <2>7 DEF n
<1>4. QED
      BY <1>2, <1>3

\* A generation's keys are new, and as many as asked for.
LEMMA GeneratedFresh ==
    ASSUME Stored, NEW n \in 0..Batch
    PROVE  /\ Generated(n) \cap (store \cup known) = {}
           /\ Generated(n) \subseteq [id : 1..(Batch * (gens + 1)), gen : 1..(gens + 1)]
           /\ \A j \in Generated(n), k \in store \cup Generated(n) : j.id = k.id => j = k
           /\ IsFiniteSet(Generated(n)) /\ Cardinality(Generated(n)) = n
<1> DEFINE m == MaxPreKeyId(store)
           f == [i \in 1..n |-> [id |-> m + i, gen |-> gens + 1]]
<1>1. m \in Nat /\ m <= Batch * gens /\ (\A k \in store : k.id <= m) /\ gens \in Nat /\ n \in Nat
      BY MaxIsLargest, PreKeysAssumption DEF Stored
<1>2. \A k \in store \cup known : k.gen <= gens /\ k.gen \in Nat /\ k.id \in Nat
      BY <1>1, PreKeysAssumption DEF Stored
<1> HIDE DEF m
<1>3. Generated(n) = {[id |-> m + i, gen |-> gens + 1] : i \in 1..n}
      BY DEF Generated, m
<1>4. Batch * (gens + 1) = Batch * gens + Batch /\ Batch * gens \in Nat
      BY <1>1, PreKeysAssumption
<1>5. Generated(n) \cap (store \cup known) = {}
      BY <1>1, <1>2, <1>3
<1>6. Generated(n) \subseteq [id : 1..(Batch * (gens + 1)), gen : 1..(gens + 1)]
  <2> DEFINE top == Batch * gens
  <2>1. \A i \in 1..n : m + i \in 1..(top + Batch)
        BY <1>1, <1>4, PreKeysAssumption
  <2> HIDE DEF top
  <2>2. \A i \in 1..n : [id |-> m + i, gen |-> gens + 1] \in [id : 1..(top + Batch), gen : 1..(gens + 1)]
        BY <1>1, <2>1
  <2>3. QED
        BY <1>3, <1>4, <2>2 DEF top
<1>7. \A j \in Generated(n), k \in store \cup Generated(n) : j.id = k.id => j = k
      BY <1>1, <1>2, <1>3
<1>8. f \in Bijection(1..n, Generated(n))
  <2>1. f \in [1..n -> Generated(n)]
        BY <1>3
  <2>2. \A a, b \in 1..n : f[a] = f[b] => a = b
        BY <1>1
  <2>3. \A t \in Generated(n) : \E s \in 1..n : f[s] = t
        BY <1>3
  <2>4. QED
        BY <2>1, <2>2, <2>3 DEF Bijection, Injection, Surjection, IsInjective
<1>9. IsFiniteSet(1..n) /\ Cardinality(1..n) = n
      BY <1>1, FS_Interval
<1>10. QED
       BY <1>5, <1>6, <1>7, <1>8, <1>9, FS_Bijection DEF ExistsBijection

-----------------------------------------------------------------------------
(* Sequences.                                                              *)

\* What is left of a sequence without its head.
LEMMA TailOf ==
    ASSUME NEW S, NEW s \in Seq(S), s # <<>>
    PROVE  /\ DOMAIN Tail(s) = 1..(Len(s) - 1) /\ 1 \in DOMAIN s /\ Head(s) = s[1]
           /\ \A i \in DOMAIN Tail(s) :
                 /\ i \in Nat /\ i + 1 \in DOMAIN s /\ i + 1 > 1
                 /\ Tail(s)[i] = s[i + 1]
<1>1. Len(s) \in Nat \ {0} /\ DOMAIN s = 1..Len(s)
      OBVIOUS
<1>2. Len(Tail(s)) = Len(s) - 1 /\ DOMAIN Tail(s) = 1..(Len(s) - 1)
      BY <1>1
<1>3. QED
      BY <1>1, <1>2

\* What a sequence holds with one more element.
LEMMA AppendOf ==
    ASSUME NEW S, NEW s \in Seq(S), NEW e
    PROVE  /\ DOMAIN s = 1..Len(s) /\ Len(s) \in Nat
           /\ DOMAIN Append(s, e) = DOMAIN s \cup {Len(s) + 1}
           /\ \A i \in DOMAIN s : i < Len(s) + 1 /\ Append(s, e)[i] = s[i]
           /\ Append(s, e)[Len(s) + 1] = e
  OBVIOUS

\* What a message of the server holds.
LEMMA AnswerIs ==
    ASSUME IInv, NEW i \in DOMAIN inbox
    PROVE  /\ inbox[i] \in Answer
           /\ inbox[i].kind \in {"success", "error", "count", "result", "pkmsg"}
           /\ inbox[i].kind = "result" => inbox[i].keys \in SUBSET known
           /\ inbox[i].kind = "pkmsg" => inbox[i] = [kind |-> "pkmsg", key |-> inbox[i].key]
<1>1. inbox[i] \in Answer
      BY DEF IInv
<1>2. QED
      BY <1>1 DEF Answer

-----------------------------------------------------------------------------
(* The table.                                                              *)

\* level_prekeys adds nothing or a whole generation.
LEMMA LevelledIs ==
    ASSUME Stored, NEW force \in BOOLEAN
    PROVE  \E n \in {0, Batch} :
              /\ Levelled(force) = Generated(n)
              /\ Levelled(force) = {} <=> n = 0
              /\ n = 0 <=> ~force /\ Cardinality(store) >= Threshold
<1>1. Batch \in Nat \ {0} /\ Threshold \in Nat
      BY PreKeysAssumption
<1>2. Generated(0) = {} /\ Generated(Batch) # {}
  <2>1. 1..0 = {} /\ 1 \in 1..Batch
        BY <1>1
  <2>2. QED
        BY <2>1 DEF Generated
<1>3. Cardinality(store) \in Nat
      BY FS_CardinalityType DEF Stored
<1>4. CASE force \/ Cardinality(store) < Threshold
  <2>1. Levelled(force) = Generated(Batch) /\ ~(~force /\ Cardinality(store) >= Threshold)
        BY <1>1, <1>3, <1>4 DEF Levelled
  <2>2. QED
        BY <1>1, <1>2, <2>1
<1>5. CASE ~(force \/ Cardinality(store) < Threshold)
  <2>1. Levelled(force) = {} /\ ~force /\ Cardinality(store) >= Threshold
        BY <1>1, <1>3, <1>5 DEF Levelled
  <2>2. QED
        BY <1>1, <1>2, <2>1
<1>6. QED
      BY <1>4, <1>5

\* Storing the first rows of a generation.
LEMMA StoredGrows ==
    ASSUME Stored, NEW n \in 0..Batch, store' = store \cup Generated(n),
           gens' = (IF n = 0 THEN gens ELSE gens + 1), gens' <= MaxGen,
           UNCHANGED <<sent, known>>
    PROVE  Stored'
<1>1. Batch \in Nat \ {0} /\ MaxGen \in Nat /\ gens \in Nat
      BY PreKeysAssumption DEF Stored
<1>2. CASE n = 0
  <2>1. Generated(0) = {}
        BY DEF Generated
  <2>2. store' = store /\ gens' = gens
        BY <1>2, <2>1
  <2>3. QED
        BY <2>2 DEF Stored
<1>3. CASE n # 0
  <2>1. gens' = gens + 1 /\ gens' \in 0..MaxGen
        BY <1>1, <1>3
  <2>2. Batch * gens \in Nat /\ Batch * (gens + 1) \in Nat /\ Batch * gens <= Batch * (gens + 1)
    <3>1. Batch * (gens + 1) = Batch * gens + Batch /\ Batch * gens \in Nat
          BY <1>1
    <3>2. QED
          BY <1>1, <3>1
  <2>3. store \cup known \subseteq [id : 1..(Batch * (gens + 1)), gen : 1..(gens + 1)]
    <3> DEFINE a == Batch * gens
               b == Batch * (gens + 1)
    <3>1. store \cup known \subseteq [id : 1..a, gen : 1..gens]
          BY DEF Stored
    <3>2. 1..a \subseteq 1..b
          BY <2>2
    <3> HIDE DEF a, b
    <3>3. 1..gens \subseteq 1..(gens + 1)
          BY <1>1
    <3>4. QED
          BY <3>1, <3>2, <3>3 DEF b
  <2>4. /\ Generated(n) \subseteq [id : 1..(Batch * (gens + 1)), gen : 1..(gens + 1)]
        /\ \A j \in Generated(n), k \in store \cup Generated(n) : j.id = k.id => j = k
        /\ IsFiniteSet(Generated(n))
        BY GeneratedFresh
  <2>5. IsFiniteSet(store')
        BY <2>4, FS_Union DEF Stored
  <2>6. \A j, k \in store' : j.id = k.id => j = k
        BY <2>4 DEF Stored
  <2>7. QED
        BY <2>1, <2>3, <2>4, <2>5, <2>6 DEF Stored
<1>4. QED
      BY <1>2, <1>3

\* Removing rows, marking rows, and storing them at the server.
LEMMA StoredKept ==
    ASSUME Stored, gens' = gens, store' \subseteq store, sent' \subseteq store' \cap known',
           known' \subseteq known \cup store
    PROVE  Stored'
<1>1. IsFiniteSet(store')
      BY FS_Subset DEF Stored
<1>2. QED
      BY <1>1 DEF Stored

\* After a generation there are keys that no peer holds.
LEMMA FreshEnough ==
    ASSUME Stored, IInv, store' = store \cup Generated(Batch), issued' = issued
    PROVE  Cardinality(store' \ issued') >= Threshold
<1>1. /\ Generated(Batch) \cap (store \cup known) = {}
      /\ IsFiniteSet(Generated(Batch)) /\ Cardinality(Generated(Batch)) = Batch
      BY GeneratedFresh, PreKeysAssumption
<1>2. Generated(Batch) \subseteq store' \ issued'
      BY <1>1 DEF IInv, Gone
<1>3. IsFiniteSet(store')
      BY <1>1, FS_Union DEF Stored
<1>4. IsFiniteSet(store' \ issued')
      BY <1>3, FS_Subset
<1>5. Cardinality(Generated(Batch)) <= Cardinality(store' \ issued') /\ Cardinality(store' \ issued') \in Nat
      BY <1>2, <1>4, FS_Subset, FS_CardinalityType
<1>6. QED
      BY <1>1, <1>5, PreKeysAssumption

\* on_connected generates only where the table has run low.
LEMMA OnConnectedStored ==
    ASSUME Stored, Enough, IInv, NEW flag, OnConnected(flag)
    PROVE  Stored' /\ Enough'
<1>1. PICK n \in {0, Batch} :
              /\ Levelled(FALSE) = Generated(n)
              /\ Levelled(FALSE) = {} <=> n = 0
              /\ n = 0 <=> Cardinality(store) >= Threshold
      BY LevelledIs
<1>2. /\ store' = store \cup Generated(n) /\ gens' = IF n = 0 THEN gens ELSE gens + 1
      /\ UNCHANGED <<sent, stock, issued, known>> /\ inbox' = <<[kind |-> "success"]>>
      BY <1>1 DEF OnConnected, serverVars
<1>3. Batch \in Nat \ {0} /\ MaxGen \in Nat \ {0} /\ gens \in 0..MaxGen /\ Threshold \in Nat
      BY PreKeysAssumption DEF Stored
<1>4. Cardinality(store \ issued) <= Cardinality(store)
      /\ Cardinality(store \ issued) \in Nat /\ Cardinality(store) \in Nat
  <2>1. store \ issued \subseteq store /\ IsFiniteSet(store)
        BY DEF Stored
  <2>2. QED
        BY <2>1, FS_Subset, FS_CardinalityType
<1>5. n # 0 => gens < MaxGen
      BY <1>1, <1>3, <1>4 DEF Enough
<1>6. gens' <= MaxGen /\ n \in 0..Batch
      BY <1>2, <1>3, <1>5
<1>7. Stored'
      BY <1>2, <1>6, StoredGrows
<1>8. gens' = MaxGen => Cardinality(store' \ issued') >= Threshold
  <2>1. CASE n = 0
    <3>1. Generated(0) = {}
          BY DEF Generated
    <3>2. UNCHANGED <<store, issued, gens>>
          BY <1>2, <2>1, <3>1
    <3>3. QED
          BY <3>2 DEF Enough
  <2>2. CASE n = Batch
        BY <1>2, <2>2, FreshEnough
  <2>3. QED
        BY <2>1, <2>2
<1>9. \A i \in DOMAIN inbox' : inbox'[i].kind # "count"
      BY <1>2
<1>10. QED
       BY <1>7, <1>8, <1>9 DEF Enough

\* A step that leaves the table alone and asks for no keys.
LEMMA EnoughKept ==
    ASSUME Enough, UNCHANGED <<store, issued, gens>>,
           \/ inbox' = <<>>
           \/ inbox # <<>> /\ inbox' = Tail(inbox)
           \/ \E e : e.kind # "count" /\ inbox' = Append(inbox, e)
           \/ UNCHANGED inbox,
           IInv
    PROVE  Enough'
<1>1. \A i \in DOMAIN inbox' : inbox'[i].kind = "count" =>
          /\ gens' < MaxGen
          /\ \A j \in DOMAIN inbox' : inbox'[j].kind = "count" => i = j
  <2>1. CASE inbox' = <<>>
        BY <2>1
  <2>2. CASE inbox # <<>> /\ inbox' = Tail(inbox)
    <3>1. inbox \in Seq(Answer)
          BY DEF IInv
    <3>2. \A i \in DOMAIN inbox' :
             i \in Nat /\ i + 1 \in DOMAIN inbox /\ inbox'[i] = inbox[i + 1]
          BY <2>2, <3>1, TailOf
    <3>3. \A i \in DOMAIN inbox' : inbox'[i].kind = "count" =>
             /\ gens < MaxGen
             /\ \A j \in DOMAIN inbox' : inbox'[j].kind = "count" => i + 1 = j + 1
          BY <3>2 DEF Enough
    <3>4. QED
          BY <3>2, <3>3
  <2>3. CASE \E e : e.kind # "count" /\ inbox' = Append(inbox, e)
    <3>1. PICK e : e.kind # "count" /\ inbox' = Append(inbox, e)
          BY <2>3
    <3>2. inbox \in Seq(Answer)
          BY DEF IInv
    <3>3. \A i \in DOMAIN inbox' : inbox'[i].kind = "count" =>
             i \in DOMAIN inbox /\ inbox'[i] = inbox[i]
          BY <3>1, <3>2, AppendOf
    <3>4. QED
          BY <3>3 DEF Enough
  <2>4. CASE UNCHANGED inbox
        BY <2>4 DEF Enough
  <2>5. QED
        BY <2>1, <2>2, <2>3, <2>4
<1>2. QED
      BY <1>1 DEF Enough

\* A crash leaves the first rows of a generation.
LEMMA CrashStored ==
    ASSUME Stored, Enough, IInv, Crash
    PROVE  Stored' /\ Enough'
<1>1. PICK n \in 0..(Batch - 1) :
          /\ n > 0 => gens + 1 < MaxGen
          /\ store' = store \cup Generated(n)
          /\ gens' = IF n = 0 THEN gens ELSE gens + 1
      BY DEF Crash
<1>2. UNCHANGED <<sent, stock, issued, known>> /\ inbox' = <<>>
      BY DEF Crash, serverVars
<1>3. Batch \in Nat \ {0} /\ MaxGen \in Nat \ {0} /\ gens \in 0..MaxGen
      BY PreKeysAssumption DEF Stored
<1>4. n \in 0..Batch /\ gens' <= MaxGen /\ n \in Nat
      BY <1>1, <1>3
<1>5. Stored'
      BY <1>1, <1>2, <1>4, StoredGrows
<1>6. CASE n = 0
  <2>1. Generated(0) = {}
        BY DEF Generated
  <2>2. UNCHANGED <<store, issued, gens>>
        BY <1>1, <1>2, <1>6, <2>1
  <2>3. QED
        BY <1>2, <1>5, <2>2, EnoughKept
<1>7. CASE n # 0
  <2>1. gens' # MaxGen
        BY <1>1, <1>3, <1>4, <1>7
  <2>2. QED
        BY <1>2, <1>5, <2>1 DEF Enough
<1>8. QED
      BY <1>6, <1>7

\* What the client handles: a generation, a mark or a removal.
LEMMA HandleStored ==
    ASSUME Stored, Enough, IInv, WireKeys, Handle
    PROVE  Stored' /\ Enough'
<1>1. inbox \in Seq(Answer)
      BY DEF IInv
<1>2. CASE OnAuthed \/ OnSentKeysError
  <2>1. UNCHANGED <<store, sent, gens, issued, known>> /\ inbox' = Tail(inbox) /\ inbox # <<>>
        BY <1>2 DEF OnAuthed, OnSentKeysError, Receives, serverVars, localVars
  <2>2. Stored'
        BY <2>1 DEF Stored
  <2>3. QED
        BY <2>1, <2>2, EnoughKept
<1>3. CASE OnRequestKeys
  <2>1. /\ store' = store \cup Levelled(TRUE) /\ gens' = gens + 1
        /\ inbox # <<>> /\ inbox' = Tail(inbox) /\ Head(inbox).kind = "count"
        /\ UNCHANGED <<sent, issued, known>>
        BY <1>3 DEF OnRequestKeys, Receives, serverVars
  <2>2. Levelled(TRUE) = Generated(Batch)
        BY DEF Levelled
  <2>3. 1 \in DOMAIN inbox /\ inbox[1].kind = "count"
        BY <1>1, <2>1, TailOf
  <2>4. gens < MaxGen
        BY <2>3 DEF Enough
  <2>5. Batch \in 0..Batch /\ Batch # 0 /\ gens' <= MaxGen
        BY <2>1, <2>4, PreKeysAssumption DEF Stored
  <2>6. Stored'
        BY <2>1, <2>2, <2>5, StoredGrows
  <2>7. Cardinality(store' \ issued') >= Threshold
        BY <2>1, <2>2, FreshEnough
  <2>8. \A i \in DOMAIN inbox' : inbox'[i].kind # "count"
    <3> SUFFICES ASSUME NEW i \in DOMAIN inbox' PROVE inbox'[i].kind # "count"
        OBVIOUS
    <3>1. i + 1 \in DOMAIN inbox /\ i + 1 > 1 /\ inbox'[i] = inbox[i + 1]
          BY <1>1, <2>1, TailOf
    <3>2. QED
          BY <2>3, <3>1 DEF Enough
  <2>9. QED
        BY <2>6, <2>7, <2>8 DEF Enough
<1>4. CASE OnKeysFlushed
  <2> DEFINE keys == Head(inbox).keys
  <2>1. /\ UNCHANGED <<store, gens, issued, known>> /\ inbox # <<>>
        /\ sent' = sent \cup {k \in store : \E j \in keys : j.id = k.id}
        /\ inbox' = <<>> \/ inbox' = Tail(inbox)
        BY <1>4 DEF OnKeysFlushed, Receives, Close, MarkedSent, serverVars
  <2>2. 1 \in DOMAIN inbox /\ inbox[1].kind = "result" /\ Head(inbox) = inbox[1]
        BY <1>1, <1>4, <2>1, TailOf DEF OnKeysFlushed, Receives
  <2>3. keys \subseteq store \cap known
        BY <2>2 DEF WireKeys
  <2> HIDE DEF keys
  <2>4. {k \in store : \E j \in keys : j.id = k.id} \subseteq keys
        BY <2>3 DEF Stored
  <2>5. sent' \subseteq store' \cap known'
        BY <2>1, <2>3, <2>4 DEF Stored
  <2>6. Stored'
        BY <2>1, <2>5, StoredKept
  <2>7. QED
        BY <2>1, <2>6, EnoughKept
<1>5. CASE OnPreKeyMessage
  <2> DEFINE k == Head(inbox).key
  <2>1. /\ store' = store \ {k} /\ sent' = sent \ {k} /\ issued' = issued \ {k}
        /\ UNCHANGED <<gens, known>> /\ inbox # <<>> /\ inbox' = Tail(inbox)
        BY <1>5 DEF OnPreKeyMessage, Receives
  <2>2. 1 \in DOMAIN inbox /\ inbox[1].kind = "pkmsg" /\ Head(inbox) = inbox[1]
        BY <1>1, <1>5, <2>1, TailOf DEF OnPreKeyMessage, Receives
  <2>3. k \in issued
        BY <2>2 DEF WireKeys
  <2> HIDE DEF k
  <2>4. store' \ issued' = store \ issued
        BY <2>1, <2>3
  <2>5. Stored'
        BY <2>1, StoredKept DEF Stored
  <2>6. \A i \in DOMAIN inbox' : i \in Nat /\ i + 1 \in DOMAIN inbox /\ inbox'[i] = inbox[i + 1]
        BY <1>1, <2>1, TailOf
  <2>7. \A i \in DOMAIN inbox' : inbox'[i].kind = "count" =>
             /\ gens' < MaxGen
             /\ \A j \in DOMAIN inbox' : inbox'[j].kind = "count" => i + 1 = j + 1
        BY <2>1, <2>6 DEF Enough
  <2>8. \A i, j \in DOMAIN inbox' : i + 1 = j + 1 => i = j
        BY <2>6
  <2>9. gens' = MaxGen => Cardinality(store' \ issued') >= Threshold
        BY <2>1, <2>4 DEF Enough
  <2>10. QED
        BY <2>5, <2>7, <2>8, <2>9 DEF Enough
<1>6. QED
      BY <1>2, <1>3, <1>4, <1>5 DEF Handle

\* What the server and the peers do.
LEMMA ServerStored ==
    ASSUME Stored, Enough, IInv, WireKeys, ServerUpload \/ ServerAsks \/ HandOut \/ Deliver
    PROVE  Stored' /\ Enough'
<1>1. inbox \in Seq(Answer) /\ outbox \in Seq(OnWire)
      BY DEF IInv
<1>2. UNCHANGED <<store, sent, gens>>
      BY DEF ServerUpload, ServerAsks, HandOut, Deliver, localVars
<1>3. CASE ServerUpload
  <2>1. /\ UNCHANGED issued /\ outbox # <<>>
        /\ known' \in {known, known \cup Head(outbox).keys}
        /\ \E e : e.kind # "count" /\ inbox' = Append(inbox, e)
        BY <1>3 DEF ServerUpload
  <2>2. Head(outbox).keys \subseteq store
        BY <1>1, <2>1, TailOf DEF WireKeys
  <2>3. known \subseteq known' /\ known' \subseteq known \cup store
        BY <2>1, <2>2
  <2>4. sent' \subseteq store' \cap known'
        BY <1>2, <2>3 DEF Stored
  <2>5. Stored'
        BY <1>2, <2>3, <2>4, StoredKept
  <2>6. QED
        BY <1>2, <2>1, <2>5, EnoughKept
<1>4. CASE ServerAsks
  <2>1. /\ gens < MaxGen /\ \A i \in DOMAIN inbox : inbox[i].kind # "count"
        /\ inbox' = Append(inbox, [kind |-> "count"])
        /\ UNCHANGED <<issued, known>>
        BY <1>4 DEF ServerAsks, serverVars
  <2>2. Stored'
        BY <1>2, <2>1 DEF Stored
  <2>3. \A i \in DOMAIN inbox' : inbox'[i].kind = "count" => i = Len(inbox) + 1
        BY <1>1, <2>1, AppendOf
  <2>4. QED
        BY <1>2, <2>1, <2>2, <2>3 DEF Enough
<1>5. CASE HandOut
  <2>1. PICK k \in stock : issued' = issued \cup {k}
        BY <1>5 DEF HandOut
  <2>2. /\ gens < MaxGen \/ Cardinality(store \ issued) > Threshold
        /\ UNCHANGED <<inbox, known>>
        BY <1>5 DEF HandOut, wireVars
  <2>3. Stored'
        BY <1>2, <2>2 DEF Stored
  <2>4. ASSUME gens' = MaxGen PROVE Cardinality(store' \ issued') >= Threshold
    <3>1. IsFiniteSet(store \ issued)
          BY FS_Subset DEF Stored
    <3>2. k \in store \ issued
          BY DEF IInv, Gone
    <3>3. store' \ issued' = (store \ issued) \ {k}
          BY <1>2, <2>1
    <3>4. Cardinality(store' \ issued') = Cardinality(store \ issued) - 1
          BY <3>1, <3>2, <3>3, FS_RemoveElement
    <3>5. Cardinality(store \ issued) \in Nat /\ Threshold \in Nat /\ MaxGen \in Nat
          BY <3>1, FS_CardinalityType, PreKeysAssumption
    <3>6. QED
          BY <1>2, <2>2, <2>4, <3>4, <3>5
  <2>5. QED
        BY <1>2, <2>2, <2>3, <2>4 DEF Enough
<1>6. CASE Deliver
  <2>1. UNCHANGED <<issued, known>> /\ \E e : e.kind # "count" /\ inbox' = Append(inbox, e)
    <3>1. PICK k \in issued : inbox' = Append(inbox, [kind |-> "pkmsg", key |-> k])
          BY <1>6 DEF Deliver
    <3>2. [kind |-> "pkmsg", key |-> k].kind # "count"
          OBVIOUS
    <3>3. QED
          BY <1>6, <3>1, <3>2 DEF Deliver, serverVars
  <2>2. Stored'
        BY <1>2, <2>1 DEF Stored
  <2>3. QED
        BY <1>2, <2>1, <2>2, EnoughKept
<1>7. QED
      BY <1>3, <1>4, <1>5, <1>6

-----------------------------------------------------------------------------
(* The login.                                                              *)

\* A new connection is not logged in yet, and loads only keys of the table.
LEMMA OnConnectedLogin ==
    ASSUME LoginKnows, Stored, NEW flag \in BOOLEAN, ~connected, OnConnected(flag)
    PROVE  LoginKnows'
<1> DEFINE new == Levelled(FALSE)
<1>1. login = "none" /\ outbox = <<>>
      BY DEF LoginKnows
<1>2. /\ store' = store \cup new /\ unsent' = unsent \cup ((store \cup new) \ sent)
      /\ passive' = (flag \/ unsent' # {}) /\ connected' = TRUE
      /\ inbox' = <<[kind |-> "success"]>> /\ UNCHANGED <<login, outbox>>
      BY DEF OnConnected
<1> HIDE DEF new
<1>3. unsent' \subseteq store' /\ passive' \in BOOLEAN /\ (unsent' # {} => passive')
      BY <1>2 DEF LoginKnows
<1>4. QED
      BY <1>1, <1>2, <1>3 DEF LoginKnows

\* A lost one leaves nothing on the wire.
LEMMA LossLogin ==
    ASSUME LoginKnows, Lose \/ Crash
    PROVE  LoginKnows'
<1>1. /\ connected' = FALSE /\ login' = "none" /\ outbox' = <<>> /\ inbox' = <<>>
      /\ passive' \in BOOLEAN /\ unsent' \subseteq store'
      BY DEF Lose, Crash, Close, localVars, LoginKnows
<1>2. QED
      BY <1>1 DEF LoginKnows

\* A login has been answered when a message other than its success comes.
LEMMA Answered ==
    ASSUME LoginKnows, IInv, inbox # <<>>
    PROVE  /\ connected
           /\ Head(inbox).kind = "success" =>
                 login = "none" /\ Tail(inbox) = <<>> /\ outbox = <<>>
           /\ Head(inbox).kind # "success" =>
                 /\ login # "none"
                 /\ \A i \in DOMAIN Tail(inbox) : Tail(inbox)[i].kind # "success"
<1>1. inbox \in Seq(Answer)
      BY DEF IInv
<1>2. connected
      BY DEF LoginKnows
<1>3. CASE login = "none"
  <2>1. inbox = <<[kind |-> "success"]>> /\ outbox = <<>>
        BY <1>3 DEF LoginKnows
  <2>2. Head(inbox).kind = "success" /\ Tail(inbox) = <<>>
        BY <2>1
  <2>3. QED
        BY <1>2, <1>3, <2>1, <2>2
<1>4. CASE login # "none"
  <2>1. \A i \in DOMAIN inbox : inbox[i].kind # "success"
        BY <1>4 DEF LoginKnows
  <2>2. Head(inbox).kind # "success"
        /\ \A i \in DOMAIN Tail(inbox) : Tail(inbox)[i].kind # "success"
        BY <1>1, <2>1, TailOf
  <2>3. QED
        BY <1>2, <1>4, <2>2
<1>5. QED
      BY <1>3, <1>4

\* Only the success changes the login; an active login loads no keys.
LEMMA HandleLogin ==
    ASSUME LoginKnows, IInv, WireKeys, Handle
    PROVE  LoginKnows'
<1>1. inbox # <<>> /\ inbox \in Seq(Answer)
      BY DEF Handle, OnAuthed, OnRequestKeys, OnKeysFlushed, OnSentKeysError,
             OnPreKeyMessage, Receives, IInv
<1>2. CASE OnAuthed
  <2>1. /\ Head(inbox).kind = "success" /\ inbox' = Tail(inbox)
        /\ login' = IF passive THEN "passive" ELSE "active"
        /\ unsent' \in {unsent, {}}
        /\ UNCHANGED <<store, passive, connected>>
        BY <1>2 DEF OnAuthed, Receives
  <2>2. inbox' = <<>> /\ connected
        BY <1>1, <2>1, Answered
  <2>3. unsent' \subseteq store' /\ (unsent' # {} => passive') /\ passive' \in BOOLEAN
        BY <2>1, <2>2 DEF LoginKnows
  <2>4. QED
        BY <2>1, <2>2, <2>3 DEF LoginKnows
<1>3. ASSUME inbox' = Tail(inbox), Head(inbox).kind # "success",
             UNCHANGED <<login, passive, connected>>, unsent' \subseteq store',
             unsent' = unsent
      PROVE  LoginKnows'
  <2>1. /\ connected /\ login # "none"
        /\ \A i \in DOMAIN inbox' : inbox'[i].kind # "success"
        BY <1>1, <1>3, Answered
  <2>2. QED
        BY <1>3, <2>1 DEF LoginKnows
<1>4. CASE OnRequestKeys \/ OnSentKeysError
  <2>1. /\ inbox' = Tail(inbox) /\ Head(inbox).kind # "success"
        /\ UNCHANGED <<login, passive, connected, unsent>> /\ store \subseteq store'
        BY <1>4 DEF OnRequestKeys, OnSentKeysError, Receives, netVars, localVars
  <2>2. QED
        BY <1>3, <2>1 DEF LoginKnows
<1>5. CASE OnKeysFlushed
  <2>1. /\ Head(inbox).kind # "success" /\ UNCHANGED <<store, passive, unsent>>
        /\ \/ connected' = FALSE /\ login' = "none" /\ outbox' = <<>> /\ inbox' = <<>>
           \/ inbox' = Tail(inbox) /\ UNCHANGED <<connected, login>>
        BY <1>5 DEF OnKeysFlushed, Close, Receives
  <2>2. QED
        BY <1>3, <2>1 DEF LoginKnows
<1>6. CASE OnPreKeyMessage
  <2>1. /\ Head(inbox).kind = "pkmsg" /\ inbox' = Tail(inbox)
        /\ UNCHANGED <<login, passive, connected, unsent>>
        BY <1>6 DEF OnPreKeyMessage, Receives, netVars
  <2>2. 1 \in DOMAIN inbox /\ inbox[1].kind = "pkmsg"
        BY <1>1, <2>1, TailOf
  <2>3. login = "active"
        BY <2>2 DEF WireKeys
  <2>4. unsent = {}
        BY <2>3 DEF LoginKnows
  <2>5. QED
        BY <1>3, <2>1, <2>4
<1>7. QED
      BY <1>2, <1>4, <1>5, <1>6 DEF Handle

\* The server sends nothing but the success before the login.
LEMMA ServerLogin ==
    ASSUME LoginKnows, IInv, ServerUpload \/ ServerAsks \/ HandOut \/ Deliver
    PROVE  LoginKnows'
<1>1. inbox \in Seq(Answer)
      BY DEF IInv
<1>2. UNCHANGED <<store, passive, connected, login, unsent>>
      BY DEF ServerUpload, ServerAsks, HandOut, Deliver, localVars, netVars
<1>3. CASE HandOut
      BY <1>2, <1>3 DEF HandOut, wireVars, LoginKnows
<1>4. CASE ServerUpload \/ ServerAsks \/ Deliver
  <2>1. login # "none"
        BY <1>4 DEF ServerUpload, ServerAsks, Deliver, LoginKnows
  <2>2. PICK e : inbox' = Append(inbox, e) /\ e.kind # "success"
    <3>1. CASE ServerUpload \/ ServerAsks
          BY <3>1 DEF ServerUpload, ServerAsks
    <3>2. CASE Deliver
      <4>1. PICK k \in issued : inbox' = Append(inbox, [kind |-> "pkmsg", key |-> k])
            BY <3>2 DEF Deliver
      <4>2. [kind |-> "pkmsg", key |-> k].kind # "success"
            OBVIOUS
      <4>3. QED
            BY <4>1, <4>2
    <3>3. QED
          BY <1>4, <3>1, <3>2
  <2>3. \A i \in DOMAIN inbox' : inbox'[i].kind # "success"
        BY <1>1, <2>1, <2>2, AppendOf DEF LoginKnows
  <2>4. QED
        BY <1>2, <2>1, <2>3 DEF LoginKnows
<1>5. QED
      BY <1>3, <1>4

-----------------------------------------------------------------------------
(* The wire.                                                               *)

\* Nothing on the wire but the answer to a login.
LEMMA WireEmpty ==
    ASSUME outbox' = <<>>, inbox' \in {<<>>, <<[kind |-> "success"]>>}
    PROVE  WireKeys'
<1>1. \A i \in DOMAIN inbox' : inbox'[i].kind \notin {"result", "pkmsg"}
      OBVIOUS
<1>2. DOMAIN outbox' = {}
      OBVIOUS
<1>3. QED
      BY <1>1, <1>2 DEF WireKeys

\* The part of WireKeys about what this side has uploaded.
UpKeys ==
    /\ \A i \in DOMAIN outbox : outbox[i].keys \subseteq store
    /\ login = "active" =>
          /\ \A i \in DOMAIN outbox : outbox[i].keys \cap known = {}
          /\ \A i, j \in DOMAIN outbox : i # j => outbox[i].keys \cap outbox[j].keys = {}

\* A message was taken from the wire, no key removed.
LEMMA WireTail ==
    ASSUME WireKeys, IInv, inbox # <<>>, inbox' = Tail(inbox), store \subseteq store',
           UNCHANGED <<login, issued, known>>, UpKeys'
    PROVE  WireKeys'
<1>1. \A i \in DOMAIN inbox' :
         i \in Nat /\ i + 1 \in DOMAIN inbox /\ inbox'[i] = inbox[i + 1]
      BY TailOf DEF IInv
<1>2. \A i \in DOMAIN inbox' :
          /\ inbox'[i].kind = "result" => inbox'[i].keys \subseteq store' \cap known'
          /\ inbox'[i].kind = "pkmsg" => inbox'[i].key \in issued' /\ login' = "active"
      BY <1>1 DEF WireKeys
<1>3. \A i, j \in DOMAIN inbox' : i < j /\ inbox'[i].kind = "pkmsg" =>
          /\ inbox'[j].kind = "result" => inbox'[i].key \notin inbox'[j].keys
          /\ inbox'[j].kind = "pkmsg" => inbox'[i].key # inbox'[j].key
  <2> SUFFICES ASSUME NEW i \in DOMAIN inbox', NEW j \in DOMAIN inbox', i < j, inbox'[i].kind = "pkmsg"
               PROVE  /\ inbox'[j].kind = "result" => inbox'[i].key \notin inbox'[j].keys
                      /\ inbox'[j].kind = "pkmsg" => inbox'[i].key # inbox'[j].key
      OBVIOUS
  <2>1. i + 1 < j + 1 /\ i + 1 \in DOMAIN inbox /\ j + 1 \in DOMAIN inbox
        /\ inbox'[i] = inbox[i + 1] /\ inbox'[j] = inbox[j + 1]
        BY <1>1
  <2>2. QED
        BY <2>1 DEF WireKeys
<1>4. QED
      BY <1>2, <1>3 DEF WireKeys, UpKeys

\* Each message the client handles is behind every answer it could spoil.
LEMMA HandleWire ==
    ASSUME JInv, Handle
    PROVE  WireKeys'
<1> USE DEF JInv
<1>1. inbox # <<>> /\ inbox \in Seq(Answer) /\ outbox \in Seq(OnWire)
      BY DEF Handle, OnAuthed, OnRequestKeys, OnKeysFlushed, OnSentKeysError,
             OnPreKeyMessage, Receives, IInv
<1>2. CASE OnAuthed
  <2>1. /\ Head(inbox).kind = "success" /\ inbox' = Tail(inbox)
        /\ login' = IF passive THEN "passive" ELSE "active"
        /\ \/ UNCHANGED outbox
           \/ passive /\ FlushKeys(unsent, TRUE)
        /\ UNCHANGED store
        BY <1>2 DEF OnAuthed, Receives
  <2>2. inbox' = <<>> /\ outbox = <<>>
        BY <1>1, <2>1, Answered
  <2>3. CASE UNCHANGED outbox
        BY <2>2, <2>3, WireEmpty
  <2>4. CASE passive /\ FlushKeys(unsent, TRUE)
    <3>1. login' # "active"
          BY <2>1, <2>4
    <3>2. outbox' = <<[kind |-> "upload", keys |-> unsent, reboot |-> TRUE]>>
          BY <2>2, <2>4 DEF FlushKeys
    <3>3. \A i \in DOMAIN outbox' : outbox'[i].keys \subseteq store'
          BY <2>1, <3>2 DEF LoginKnows
    <3>4. DOMAIN inbox' = {}
          BY <2>2
    <3>5. QED
          BY <3>1, <3>3, <3>4 DEF WireKeys
  <2>5. QED
        BY <2>1, <2>3, <2>4
<1>3. CASE OnRequestKeys
  <2> DEFINE new == Levelled(TRUE)
             u == [kind |-> "upload", keys |-> new, reboot |-> FALSE]
  <2>1. /\ inbox' = Tail(inbox) /\ store' = store \cup new
        /\ outbox' = Append(outbox, u)
        /\ UNCHANGED <<login, issued, known>>
        BY <1>3 DEF OnRequestKeys, FlushKeys, netVars, serverVars
  <2>2. new \cap (store \cup known) = {}
    <3>1. new = Generated(Batch) /\ Batch \in 0..Batch
          BY PreKeysAssumption DEF Levelled
    <3>2. QED
          BY <3>1, GeneratedFresh
  <2>3. u.keys = new
        OBVIOUS
  <2> HIDE DEF new, u
  <2>4. /\ DOMAIN outbox' = DOMAIN outbox \cup {Len(outbox) + 1}
        /\ \A i \in DOMAIN outbox : outbox'[i] = outbox[i]
        /\ outbox'[Len(outbox) + 1].keys = new
        BY <1>1, <2>1, <2>3, AppendOf
  <2>5. \A i \in DOMAIN outbox : outbox[i].keys \subseteq store
        BY DEF WireKeys
  <2>6. \A i \in DOMAIN outbox' : outbox'[i].keys \subseteq store'
        BY <2>1, <2>4, <2>5
  <2>7. login' = "active" => \A i \in DOMAIN outbox' : outbox'[i].keys \cap known' = {}
        BY <2>1, <2>2, <2>4 DEF WireKeys
  <2>8. login' = "active" =>
           \A i, j \in DOMAIN outbox' : i # j => outbox'[i].keys \cap outbox'[j].keys = {}
        BY <2>1, <2>2, <2>4, <2>5 DEF WireKeys
  <2>9. UpKeys'
        BY <2>6, <2>7, <2>8 DEF UpKeys
  <2>10. QED
        BY <1>1, <2>1, <2>9, WireTail
<1>4. CASE OnKeysFlushed
  <2>1. \/ outbox' = <<>> /\ inbox' = <<>>
        \/ inbox' = Tail(inbox) /\ UNCHANGED <<store, outbox, login, issued, known>>
        BY <1>4 DEF OnKeysFlushed, Close, serverVars
  <2>2. CASE inbox' = Tail(inbox) /\ UNCHANGED <<store, outbox, login, issued, known>>
    <3>1. UpKeys'
          BY <2>2 DEF UpKeys, WireKeys
    <3>2. QED
          BY <1>1, <2>2, <3>1, WireTail
  <2>3. QED
        BY <2>1, <2>2, WireEmpty
<1>5. CASE OnSentKeysError
  <2>1. inbox' = Tail(inbox) /\ UNCHANGED <<store, outbox, login, issued, known>>
        BY <1>5 DEF OnSentKeysError, localVars, netVars, serverVars
  <2>2. UpKeys'
        BY <2>1 DEF UpKeys, WireKeys
  <2>3. QED
        BY <1>1, <2>1, <2>2, WireTail
<1>6. CASE OnPreKeyMessage
  <2> DEFINE k == Head(inbox).key
  <2>1. /\ Head(inbox).kind = "pkmsg" /\ inbox' = Tail(inbox)
        /\ store' = store \ {k} /\ issued' = issued \ {k}
        /\ UNCHANGED <<login, outbox, known>>
        BY <1>6 DEF OnPreKeyMessage, Receives, netVars
  <2>2. 1 \in DOMAIN inbox /\ inbox[1].kind = "pkmsg" /\ k = inbox[1].key
        BY <1>1, <2>1, TailOf
  <2>3. k \in known /\ login = "active"
        BY <2>2 DEF WireKeys, IInv, Gone
  <2>4. UpKeys'
    <3>1. \A i \in DOMAIN outbox : outbox[i].keys \cap known = {}
          BY <2>3 DEF WireKeys
    <3>2. \A i \in DOMAIN outbox : outbox[i].keys \subseteq store \ {k}
          BY <2>3, <3>1 DEF WireKeys
    <3>3. QED
          BY <2>1, <3>1, <3>2 DEF UpKeys, WireKeys
  <2>5. \A i \in DOMAIN inbox' :
           i \in Nat /\ i + 1 \in DOMAIN inbox /\ 1 < i + 1 /\ inbox'[i] = inbox[i + 1]
        BY <1>1, <2>1, TailOf
  <2>6. \A i \in DOMAIN inbox' :
           /\ inbox'[i].kind = "result" => inbox'[i].keys \subseteq store' \cap known'
           /\ inbox'[i].kind = "pkmsg" => inbox'[i].key \in issued' /\ login' = "active"
    <3> SUFFICES ASSUME NEW i \in DOMAIN inbox'
                 PROVE  /\ inbox'[i].kind = "result" => inbox'[i].keys \subseteq store' \cap known'
                        /\ inbox'[i].kind = "pkmsg" => inbox'[i].key \in issued' /\ login' = "active"
        OBVIOUS
    <3>1. i + 1 \in DOMAIN inbox /\ 1 < i + 1 /\ inbox'[i] = inbox[i + 1]
          BY <2>5
    <3>2. /\ inbox[i + 1].kind = "result" => k \notin inbox[i + 1].keys
          /\ inbox[i + 1].kind = "pkmsg" => k # inbox[i + 1].key
          BY <2>2, <3>1 DEF WireKeys
    <3>3. /\ inbox[i + 1].kind = "result" => inbox[i + 1].keys \subseteq store \cap known
          /\ inbox[i + 1].kind = "pkmsg" => inbox[i + 1].key \in issued /\ login = "active"
          BY <3>1 DEF WireKeys
    <3> HIDE DEF k
    <3>4. QED
          BY <2>1, <3>1, <3>2, <3>3
  <2>7. \A i, j \in DOMAIN inbox' : i < j /\ inbox'[i].kind = "pkmsg" =>
           /\ inbox'[j].kind = "result" => inbox'[i].key \notin inbox'[j].keys
           /\ inbox'[j].kind = "pkmsg" => inbox'[i].key # inbox'[j].key
    <3> SUFFICES ASSUME NEW i \in DOMAIN inbox', NEW j \in DOMAIN inbox', i < j, inbox'[i].kind = "pkmsg"
                 PROVE  /\ inbox'[j].kind = "result" => inbox'[i].key \notin inbox'[j].keys
                        /\ inbox'[j].kind = "pkmsg" => inbox'[i].key # inbox'[j].key
        OBVIOUS
    <3>1. i + 1 < j + 1 /\ i + 1 \in DOMAIN inbox /\ j + 1 \in DOMAIN inbox
          /\ inbox'[i] = inbox[i + 1] /\ inbox'[j] = inbox[j + 1]
          BY <2>5
    <3>2. QED
          BY <3>1 DEF WireKeys
  <2>8. QED
        BY <2>4, <2>6, <2>7 DEF WireKeys, UpKeys
<1>7. QED
      BY <1>2, <1>3, <1>4, <1>5, <1>6 DEF Handle

\* A message was put on the wire.
LEMMA WireAppend ==
    ASSUME WireKeys, IInv, NEW e, inbox' = Append(inbox, e), UNCHANGED <<store, login, issued>>,
           known \subseteq known', UpKeys',
           e.kind = "result" =>
              /\ e.keys \subseteq store \cap known'
              /\ \A i \in DOMAIN inbox : inbox[i].kind = "pkmsg" => inbox[i].key \notin e.keys,
           e.kind = "pkmsg" =>
              /\ e.key \in issued /\ login = "active"
              /\ \A i \in DOMAIN inbox : inbox[i].kind = "pkmsg" => inbox[i].key # e.key
    PROVE  WireKeys'
<1> DEFINE n == Len(inbox) + 1
<1>1. /\ DOMAIN inbox' = DOMAIN inbox \cup {n} /\ inbox'[n] = e /\ DOMAIN inbox \subseteq Nat /\ n \in Nat
      /\ \A i \in DOMAIN inbox : i < n /\ inbox'[i] = inbox[i]
  <2>1. inbox \in Seq(Answer)
        BY DEF IInv
  <2>2. QED
        BY <2>1, AppendOf
<1> HIDE DEF n
<1>2. \A i \in DOMAIN inbox' :
          /\ inbox'[i].kind = "result" => inbox'[i].keys \subseteq store' \cap known'
          /\ inbox'[i].kind = "pkmsg" => inbox'[i].key \in issued' /\ login' = "active"
  <2>1. \A i \in DOMAIN inbox :
          /\ inbox'[i].kind = "result" => inbox'[i].keys \subseteq store' \cap known'
          /\ inbox'[i].kind = "pkmsg" => inbox'[i].key \in issued' /\ login' = "active"
        BY <1>1 DEF WireKeys
  <2>2. QED
        BY <1>1, <2>1
<1>3. \A i, j \in DOMAIN inbox' : i < j /\ inbox'[i].kind = "pkmsg" =>
          /\ inbox'[j].kind = "result" => inbox'[i].key \notin inbox'[j].keys
          /\ inbox'[j].kind = "pkmsg" => inbox'[i].key # inbox'[j].key
  <2> SUFFICES ASSUME NEW i \in DOMAIN inbox', NEW j \in DOMAIN inbox', i < j, inbox'[i].kind = "pkmsg"
               PROVE  /\ inbox'[j].kind = "result" => inbox'[i].key \notin inbox'[j].keys
                      /\ inbox'[j].kind = "pkmsg" => inbox'[i].key # inbox'[j].key
      OBVIOUS
  <2>1. i \in DOMAIN inbox /\ inbox'[i] = inbox[i]
        BY <1>1
  <2>2. CASE j = n
        BY <1>1, <2>1, <2>2
  <2>3. CASE j \in DOMAIN inbox
        BY <1>1, <2>1, <2>3 DEF WireKeys
  <2>4. QED
        BY <1>1, <2>2, <2>3
<1>4. QED
      BY <1>2, <1>3 DEF WireKeys, UpKeys

\* ... and each one the server sends goes to the end.
LEMMA ServerWire ==
    ASSUME JInv, ServerUpload \/ ServerAsks \/ HandOut \/ Deliver
    PROVE  WireKeys'
<1> USE DEF JInv
<1>1. inbox \in Seq(Answer) /\ outbox \in Seq(OnWire)
      BY DEF IInv
<1>2. UNCHANGED <<store, login>>
      BY DEF ServerUpload, ServerAsks, HandOut, Deliver, localVars, netVars
<1>3. CASE ServerUpload
  <2> DEFINE u == Head(outbox)
             r == [kind |-> "result", keys |-> u.keys, reboot |-> u.reboot]
  <2>1. /\ outbox # <<>> /\ outbox' = Tail(outbox) /\ UNCHANGED issued
        /\ \/ known' = known \cup u.keys /\ inbox' = Append(inbox, r)
           \/ UNCHANGED known /\ inbox' = Append(inbox, [kind |-> "error"])
        BY <1>3 DEF ServerUpload
  <2>2. 1 \in DOMAIN outbox /\ u = outbox[1]
        BY <1>1, <2>1, TailOf
  <2>3. \A i \in DOMAIN outbox' :
           i \in Nat /\ i + 1 \in DOMAIN outbox /\ i + 1 # 1 /\ outbox'[i] = outbox[i + 1]
        BY <1>1, <2>1, TailOf
  <2>4. u.keys \subseteq store
        BY <2>2 DEF WireKeys
  <2>5. login = "active" =>
           /\ u.keys \cap known = {}
           /\ \A i \in DOMAIN outbox' : outbox'[i].keys \cap (known \cup u.keys) = {}
    <3> SUFFICES ASSUME login = "active"
                 PROVE  /\ u.keys \cap known = {}
                        /\ \A i \in DOMAIN outbox' : outbox'[i].keys \cap (known \cup u.keys) = {}
        OBVIOUS
    <3>1. u.keys \cap known = {}
          BY <2>2 DEF WireKeys
    <3>2. ASSUME NEW i \in DOMAIN outbox' PROVE outbox'[i].keys \cap (known \cup u.keys) = {}
      <4>1. i + 1 \in DOMAIN outbox /\ i + 1 # 1 /\ outbox'[i] = outbox[i + 1]
            BY <2>3
      <4>2. outbox[i + 1].keys \cap known = {} /\ outbox[i + 1].keys \cap outbox[1].keys = {}
            BY <2>2, <4>1 DEF WireKeys
      <4>3. QED
            BY <2>2, <4>1, <4>2
    <3>3. QED
          BY <3>1, <3>2
  <2>6. r.keys = u.keys /\ r.kind = "result" /\ [kind |-> "error"].kind = "error"
        OBVIOUS
  <2> HIDE DEF u, r
  <2>7. \A i, j \in DOMAIN outbox' : i # j /\ login = "active" => outbox'[i].keys \cap outbox'[j].keys = {}
    <3> SUFFICES ASSUME NEW i \in DOMAIN outbox', NEW j \in DOMAIN outbox', i # j, login = "active"
                 PROVE  outbox'[i].keys \cap outbox'[j].keys = {}
        OBVIOUS
    <3>1. i + 1 # j + 1 /\ i + 1 \in DOMAIN outbox /\ j + 1 \in DOMAIN outbox
          /\ outbox'[i] = outbox[i + 1] /\ outbox'[j] = outbox[j + 1]
          BY <2>3
    <3>2. QED
          BY <3>1 DEF WireKeys
  <2>8. UpKeys' /\ known \subseteq known'
    <3>1. \A i \in DOMAIN outbox' : outbox'[i].keys \subseteq store
          BY <2>3 DEF WireKeys
    <3>2. known \subseteq known' /\ known' \subseteq known \cup u.keys
          BY <2>1
    <3>3. QED
          BY <1>2, <2>5, <2>7, <3>1, <3>2 DEF UpKeys
  <2>9. CASE known' = known \cup u.keys /\ inbox' = Append(inbox, r)
    <3>1. \A i \in DOMAIN inbox : inbox[i].kind = "pkmsg" =>
             inbox[i].key \in known /\ login = "active"
          BY DEF WireKeys, IInv, Gone
    <3>2. \A i \in DOMAIN inbox : inbox[i].kind = "pkmsg" => inbox[i].key \notin r.keys
          BY <2>5, <2>6, <3>1
    <3>3. QED
          BY <1>2, <2>1, <2>4, <2>6, <2>8, <2>9, <3>2, WireAppend
  <2>10. CASE UNCHANGED known /\ inbox' = Append(inbox, [kind |-> "error"])
         BY <1>2, <2>1, <2>6, <2>8, <2>10, WireAppend
  <2>11. QED
         BY <2>1, <2>9, <2>10
<1>4. CASE ServerAsks \/ HandOut \/ Deliver
  <2>1. UNCHANGED <<outbox, known>>
        BY <1>4 DEF ServerAsks, HandOut, Deliver, wireVars, serverVars
  <2>2. UpKeys'
        BY <1>2, <2>1 DEF UpKeys, WireKeys
  <2>3. CASE HandOut
    <3>1. UNCHANGED inbox /\ issued \subseteq issued'
          BY <2>3 DEF HandOut, wireVars
    <3>2. QED
          BY <1>2, <2>1, <3>1 DEF WireKeys
  <2>4. CASE ServerAsks
    <3>1. inbox' = Append(inbox, [kind |-> "count"]) /\ UNCHANGED issued
          BY <2>4 DEF ServerAsks, serverVars
    <3>2. QED
          BY <1>2, <2>1, <2>2, <3>1, WireAppend
  <2>5. CASE Deliver
    <3>1. PICK k \in issued :
             /\ \A i \in DOMAIN inbox : inbox[i] # [kind |-> "pkmsg", key |-> k]
             /\ inbox' = Append(inbox, [kind |-> "pkmsg", key |-> k])
          BY <2>5 DEF Deliver
    <3>2. \A i \in DOMAIN inbox : inbox[i].kind = "pkmsg" => inbox[i].key # k
          BY <3>1, AnswerIs
    <3>3. UNCHANGED issued /\ login = "active"
          BY <2>5 DEF Deliver, serverVars
    <3>4. QED
          BY <1>2, <2>1, <2>2, <3>1, <3>2, <3>3, WireAppend
  <2>6. QED
        BY <1>4, <2>3, <2>4, <2>5
<1>5. QED
      BY <1>3, <1>4

\* The rest of what the variables hold.
LEMMA RestKept ==
    ASSUME Rest, LoginKnows, [Next]_vars
    PROVE  Rest'
<1> USE DEF localVars, netVars
<1>1. MaxLosses \in Nat /\ losses \in 0..MaxLosses /\ queue \in Nat
      BY PreKeysAssumption DEF Rest
<1>2. CASE Reboot \/ Reconnect
  <2>1. /\ reboot' \in BOOLEAN /\ at' \in {"loop", "control", "app"} /\ UNCHANGED losses
        /\ queue' \in {queue, queue - 1} /\ (queue' # queue => queue > 0)
        BY <1>2 DEF Reboot, Reconnect, OnConnected, Rest
  <2>2. QED
        BY <1>1, <2>1 DEF Rest
<1>3. CASE Return
      BY <1>3 DEF Return, Rest
<1>4. CASE Handle
  <2>1. /\ reboot' \in BOOLEAN /\ UNCHANGED <<at, losses>> /\ queue' \in {queue, queue + 1}
        BY <1>4 DEF Handle, OnAuthed, OnRequestKeys, OnKeysFlushed, OnSentKeysError,
                    OnPreKeyMessage, Close, Rest
  <2>2. QED
        BY <1>1, <2>1 DEF Rest
<1>5. CASE Lose
      BY <1>1, <1>5 DEF Lose, Close, Rest
<1>6. CASE Crash
  <2>1. /\ reboot' \in BOOLEAN /\ at' = "loop" /\ queue' = 1 /\ losses' = losses + 1
        /\ losses < MaxLosses
        BY <1>6 DEF Crash
  <2>2. QED
        BY <1>1, <2>1 DEF Rest
<1>7. CASE ServerUpload \/ ServerAsks \/ HandOut \/ Deliver
      BY <1>7 DEF ServerUpload, ServerAsks, HandOut, Deliver, Rest
<1>8. CASE UNCHANGED vars
      BY <1>8 DEF vars, Rest
<1>9. QED
      BY <1>2, <1>3, <1>4, <1>5, <1>6, <1>7, <1>8 DEF Next

-----------------------------------------------------------------------------
\* What the table, a login and the wire have to do with each other.
THEOREM KeysInPlace == Spec => []JInv
<1>1. Init => JInv
  <2> SUFFICES ASSUME Init PROVE JInv
      OBVIOUS
  <2>1. IInv /\ Enough /\ Rest
    <3>1. gens = 0 /\ MaxGen # 0 /\ 0 \in 0..MaxLosses /\ inbox = <<>>
          BY PreKeysAssumption DEF Init
    <3>2. reboot \in BOOLEAN /\ at = "loop" /\ queue = 1 /\ losses = 0
          BY DEF Init
    <3>3. IInv
          BY DEF Init, IInv, Gone, Settled
    <3>4. Enough /\ Rest
          BY <3>1, <3>2 DEF Enough, Rest
    <3>5. QED
          BY <3>3, <3>4
  <2>2. Stored
    <3>1. IsFiniteSet({}) /\ 0 \in 0..MaxGen
          BY FS_EmptySet, PreKeysAssumption
    <3>2. QED
          BY <3>1 DEF Init, Stored
  <2>3. LoginKnows
        BY DEF Init, LoginKnows
  <2>4. WireKeys
    <3>1. DOMAIN inbox = {} /\ DOMAIN outbox = {} /\ login = "none"
          BY DEF Init
    <3>2. QED
          BY <3>1 DEF WireKeys
  <2>5. QED
        BY <2>1, <2>2, <2>3, <2>4 DEF JInv
<1>2. IInv' /\ JInv /\ [Next]_vars => JInv'
  <2> SUFFICES ASSUME IInv', JInv, [Next]_vars PROVE JInv'
      OBVIOUS
  <2>1. /\ IInv /\ Stored /\ Enough /\ LoginKnows /\ WireKeys /\ Rest'
        BY RestKept DEF JInv
  <2>2. CASE \E flag \in BOOLEAN : ~connected /\ OnConnected(flag)
    <3>1. PICK flag \in BOOLEAN : ~connected /\ OnConnected(flag)
          BY <2>2
    <3>2. Stored' /\ Enough' /\ LoginKnows'
          BY <2>1, <3>1, OnConnectedStored, OnConnectedLogin
    <3>3. outbox' = <<>> /\ inbox' = <<[kind |-> "success"]>>
          BY <2>1, <3>1 DEF OnConnected, LoginKnows
    <3>4. QED
          BY <2>1, <3>2, <3>3, WireEmpty DEF JInv
  <2>3. CASE Return \/ UNCHANGED vars
    <3>1. UNCHANGED <<localVars, connected, login, wireVars, serverVars>>
          BY <2>3 DEF Return, vars, netVars
    <3>2. QED
          BY <2>1, <3>1 DEF JInv, Stored, Enough, LoginKnows, WireKeys, localVars, wireVars, serverVars
  <2>4. CASE Handle
        BY <2>1, <2>4, HandleStored, HandleLogin, HandleWire DEF JInv
  <2>5. CASE Lose
    <3>1. UNCHANGED <<store, sent, gens, issued, known>> /\ outbox' = <<>> /\ inbox' = <<>>
          BY <2>5 DEF Lose, Close, localVars, serverVars
    <3>2. Stored' /\ Enough' /\ WireKeys'
          BY <2>1, <3>1, EnoughKept, WireEmpty DEF Stored
    <3>3. QED
          BY <2>1, <2>5, <3>2, LossLogin DEF JInv
  <2>6. CASE Crash
    <3>1. outbox' = <<>> /\ inbox' = <<>>
          BY <2>6 DEF Crash
    <3>2. QED
          BY <2>1, <2>6, <3>1, CrashStored, LossLogin, WireEmpty DEF JInv
  <2>7. CASE ServerUpload \/ ServerAsks \/ HandOut \/ Deliver
        BY <2>1, <2>7, ServerStored, ServerLogin, ServerWire DEF JInv
  <2>8. CASE Reboot
        BY <2>2, <2>8 DEF Reboot
  <2>9. CASE Reconnect
        BY <2>1, <2>2, <2>9 DEF Reconnect, LoginKnows
  <2>10. QED
         BY <2>3, <2>4, <2>5, <2>6, <2>7, <2>8, <2>9 DEF Next
<1>3. QED
      BY <1>1, <1>2, KeysInHand, PTL DEF Spec

\* However many generations, restarts and repeated uploads, an id that is used
\* again never stands beside the old key of that id.
THEOREM IdsUnique == Spec => []UniqueIds
<1>1. JInv => UniqueIds
  <2> SUFFICES ASSUME JInv PROVE UniqueIds
      OBVIOUS
  <2>1. store \cup known \subseteq Key
    <3> DEFINE a == Batch * gens
               b == Batch * MaxGen
    <3>1. gens \in Nat /\ MaxGen \in Nat /\ gens <= MaxGen /\ Batch \in Nat
          BY PreKeysAssumption DEF JInv, Stored
    <3>2. a \in Nat /\ b \in Nat /\ a <= b
      <4>1. PICK d \in Nat : MaxGen = gens + d
        <5>1. MaxGen - gens \in Nat /\ MaxGen = gens + (MaxGen - gens)
              BY <3>1
        <5>2. QED
              BY <5>1
      <4>2. Batch * (gens + d) = Batch * gens + Batch * d
            BY <3>1
      <4>3. Batch * gens \in Nat /\ Batch * d \in Nat
            BY <3>1
      <4>4. QED
            BY <4>1, <4>2, <4>3
    <3>3. store \cup known \subseteq [id : 1..a, gen : 1..gens]
          BY DEF JInv, Stored
    <3> HIDE DEF a, b
    <3>4. 1..a \subseteq 1..b /\ 1..gens \subseteq 1..MaxGen
          BY <3>1, <3>2
    <3>5. store \cup known \subseteq [id : 1..b, gen : 1..MaxGen]
          BY <3>3, <3>4
    <3>6. QED
          BY <3>5 DEF Key, MaxId, b
  <2>2. \A i \in DOMAIN outbox : outbox[i] \in Upload
    <3> SUFFICES ASSUME NEW i \in DOMAIN outbox PROVE outbox[i] \in Upload
        OBVIOUS
    <3>1. outbox[i] \in OnWire
          BY DEF JInv, IInv
    <3>2. Settled \subseteq Key
          BY <2>1 DEF Settled, Gone
    <3>3. QED
          BY <3>1, <3>2 DEF OnWire, Upload
  <2>3. \A i \in DOMAIN inbox :
          inbox[i].kind \in {"success", "result", "error", "count", "pkmsg"}
        BY AnswerIs DEF JInv
  <2>4. unsent \subseteq Key /\ sent \subseteq store /\ gens \in 0..MaxGen
        BY <2>1 DEF JInv, LoginKnows, Stored
  <2>5. stock \subseteq known /\ issued \subseteq known
        BY DEF JInv, IInv, Gone
  <2>6. QED
        BY <2>1, <2>2, <2>3, <2>4, <2>5 DEF JInv, Stored, LoginKnows, Rest, UniqueIds, TypeOK
<1>2. QED
      BY <1>1, KeysInPlace, PTL

\* No crash or loss between the upload and its result, and no use of an id again,
\* marks a key that the server has not stored.
THEOREM MarkedWasStored == Spec => []SentWasStored
<1>1. JInv => SentWasStored
      BY DEF JInv, Stored, SentWasStored
<1>2. QED
      BY <1>1, KeysInPlace, PTL
=============================================================================
