--------------------------- MODULE SessionProofs ---------------------------
(***************************************************************************)
(* Proofs about Session, for any numbers of messages, bundles, pre-keys,   *)
(* chains and archived states: what records hold, that a message key       *)
(* encrypts one message, that a message is delivered at most once, and     *)
(* that none is lost as long as its receiver has room.                     *)
(***************************************************************************)
EXTENDS MCSession, FiniteSetTheorems, WellFoundedInduction, TLAPS

-----------------------------------------------------------------------------
(* What records, messages and jobs are made of: keys below k, and for a    *)
(* pre-key one of P.                                                       *)

ChainOf(k) ==
    {c \in [eph : 0..(k - 1), with : 0..(k - 1), next : Nat, saved : SUBSET Nat] :
        \A x \in c.saved : x < c.next}
ChainsOf(k) == {q \in Seq(ChainOf(k)) : Len(q) <= MaxChains}
StateOf(k, P) ==
    [base : 0..(k - 1), us : 0..(k - 1), theirs : 0..(k - 1), n : Nat, pk : BOOLEAN, pid : P,
     chains : ChainsOf(k)]
RecordOf(k, P) == {r \in Seq(StateOf(k, P)) : Len(r) <= MaxArchived + 1}
MessageOf(s, k, next, P) ==
    [id : 1..(next - 1), by : {s}, base : 0..(k - 1), eph : 0..(k - 1), with : 0..(k - 1),
     ctr : Nat, pk : BOOLEAN, pid : P]

\* The pre-keys of its peer that a side was given, or none.
Given(s) == (0..OneTime) \ stock[Peer(s)]
Record(s) == RecordOf(nextKey, Given(s))
Encrypted(s) == MessageOf(s, nextKey, nextId, Given(s))

Sends(s) == [at : {"store", "finish"}, kind : {"send"}, pid : {None}, rec : Record(s), msg : Encrypted(s)]
SetsUp(s) == [at : {"store", "finish"}, kind : {"session"}, pid : {None}, rec : Record(s)]
Receives(s) ==
    {j \in [at : {"store", "remove", "finish"}, kind : {"receive"}, pid : Given(Peer(s)),
            rec : Record(s), msg : Encrypted(Peer(s))] :
        j.msg \in network /\ (j.at = "remove" => j.pid # None)}
Job(s) == {Idle} \cup Sends(s) \cup SetsUp(s) \cup Receives(s)

Counted ==
    /\ nextKey \in Nat /\ nextKey > 2 /\ nextId \in Nat \ {0} /\ nextId <= MaxMsg + 1
    /\ inits \in 0..MaxInit /\ crashes \in 0..MaxCrash
PreKeysKept ==
    /\ preKeys \in [Side -> SUBSET (1..OneTime)] /\ stock \in [Side -> SUBSET (1..OneTime)]
    /\ \A s \in Side : stock[s] \subseteq preKeys[s]
Records ==
    /\ sess \in [Side -> Record(1) \cup Record(2)] /\ \A s \in Side : sess[s] \in Record(s)
Jobs ==
    /\ job \in [Side -> [Thread -> Job(1) \cup Job(2)]]
    /\ \A s \in Side, t \in Thread : job[s][t] \in Job(s)
Messages == (\A m \in network : m \in Encrypted(1) \cup Encrypted(2)) /\ got \in [Id -> Nat]
TInv == Counted /\ PreKeysKept /\ Records /\ Jobs /\ Messages

-----------------------------------------------------------------------------
(* Keys of messages, where one thread encrypts and decrypts.               *)

Work(s) == job[s]["net"]
Sending(s) == Work(s).at # "idle" /\ Work(s).kind = "send"
Receiving(s) == Work(s).at # "idle" /\ Work(s).kind = "receive"

\* What is or will be stored.
Loaded(s) == {sess[s]} \cup (IF Work(s).at = "store" THEN {Work(s).rec} ELSE {})
\* What went out or is about to, its state being stored.
Out(s) == {m \in network : m.by = s} \cup (IF Sending(s) /\ Work(s).at = "finish" THEN {Work(s).msg} ELSE {})

OneThread == \A s \in Side : job[s]["app"] = Idle

Uses(s) ==
    {m.eph : m \in Out(s)} \cup UNION {{r[i].us : i \in DOMAIN r} : r \in Loaded(s)}
OwnKeys == Uses(1) \cap Uses(2) = {}

OwnChains == \A s \in Side : \A r \in Loaded(s) : \A i, j \in DOMAIN r : r[i].us = r[j].us => i = j
Ahead(r, m) == \A i \in DOMAIN r : m.eph = r[i].us => m.ctr < r[i].n
ChainsAhead ==
    \A s \in Side :
       /\ \A r \in Loaded(s), m \in Out(s) : Ahead(r, m)
       /\ Sending(s) /\ Work(s).at = "store" =>
             /\ Work(s).msg.eph \in {sess[s][i].us : i \in DOMAIN sess[s]}
             /\ Ahead(Work(s).rec, Work(s).msg)
             /\ \A m \in Out(s) : m.eph = Work(s).msg.eph => m.ctr < Work(s).msg.ctr
NewKeys == \A s \in Side : \A m, n \in Out(s) : m.eph = n.eph /\ m.ctr = n.ctr => m = n
KInv == OneThread /\ OwnKeys /\ OwnChains /\ ChainsAhead /\ NewKeys

-----------------------------------------------------------------------------
(* At most once.                                                           *)

RoomForAll == MaxInit <= MaxArchived + 1
NoCrash == MaxCrash = 0 /\ MaxInit <= OneTime

IdsOnce ==
    /\ \A m, n \in network : m.id = n.id => m = n
    /\ \A s \in Side : Sending(s) => \A m \in network : m.id # Work(s).msg.id
    /\ \A s \in Side : Sending(s) => (Sending(Peer(s)) => Work(s).msg.id # Work(Peer(s)).msg.id)
GotOnce ==
    /\ \A i \in Id : got[i] \in {0, 1} /\ (got[i] = 1 => \E m \in network : m.id = i)
    /\ \A s \in Side : Receiving(s) => got[Work(s).msg.id] = 0

\* What a side took, its state being stored.
Taken(s) ==
    {m \in network : m.by = Peer(s) /\ got[m.id] = 1}
      \cup (IF Receiving(s) /\ Work(s).at # "store" THEN {Work(s).msg} ELSE {})

Shut(st, m) ==
    st.base = m.base =>
       /\ \A i \in DOMAIN st.chains : LET c == st.chains[i] IN
             c.eph = m.eph /\ c.with = m.with => m.ctr < c.next /\ m.ctr \notin c.saved
       /\ (\A i \in DOMAIN st.chains : st.chains[i].eph # m.eph) => st.us # m.with
TakenShut ==
    \A s \in Side :
       /\ \A m \in Taken(s), r \in Loaded(s) : \A i \in DOMAIN r : Shut(r[i], m)
       /\ Receiving(s) /\ Work(s).at = "store" =>
             \A i \in DOMAIN Work(s).rec : Shut(Work(s).rec[i], Work(s).msg)

\* The bases a record has states of: each once, and a new session's among them.
Bases(r) == {r[i].base : i \in DOMAIN r}
OneBase ==
    \A s \in Side :
       /\ \A r \in Loaded(s) : \A i, j \in DOMAIN r : r[i].base = r[j].base => i = j
       /\ Receiving(s) /\ Work(s).at = "store" => Work(s).msg.base \in Bases(Work(s).rec)

\* Where there is room no base is lost.
Gathered(R, M, s, P) ==
    (UNION {Bases(r) : r \in R}) \cup {m.base : m \in {n \in M : n.by = s}} \cup P
BasesOf(s) == Gathered(Loaded(s), network, s, IF Sending(s) THEN {Work(s).msg.base} ELSE {})
AllBases == BasesOf(1) \cup BasesOf(2)
Stays ==
    /\ IsFiniteSet(AllBases) /\ Cardinality(AllBases) <= inits
    /\ \A s \in Side :
          /\ \A m \in Taken(s) : m.base \in Bases(sess[s])
          /\ Work(s).at = "store" => Bases(sess[s]) \subseteq Bases(Work(s).rec)

\* Where nothing crashes, a base's pre-key is gone once it has a session.
Greeting(m) == <<m.base, m.pid>>
Greetings(R, M, s, P) ==
    {Greeting(m) : m \in {n \in M : n.by = s /\ n.pk} \cup {n \in P : n.pk}}
      \cup UNION {{Greeting(r[i]) : i \in {j \in DOMAIN r : r[j].pk}} : r \in R}
Hellos(s) == Greetings(Loaded(s), network, s, IF Sending(s) THEN {Work(s).msg} ELSE {})
OneHello == \A s \in Side : \A h, g \in Hellos(s) : h[2] # None /\ (h[1] = g[1] => h = g)
Spent(s, p) == p # None /\ (p \notin preKeys[s] \/ (Work(s).at = "remove" /\ Work(s).pid = p))
SpentKeys ==
    \A s \in Side : \A h \in Hellos(Peer(s)) :
       /\ h[1] \in Bases(sess[s]) \cup {m.base : m \in Taken(s)} => Spent(s, h[2])
       /\ Work(s).at = "store" /\ h[1] \in Bases(Work(s).rec) =>
             Spent(s, h[2]) \/ (Receiving(s) /\ h[2] # None /\ Work(s).pid = h[2])
Plenty == \A s \in Side : OneTime - inits <= Cardinality(stock[s])
SInv == (RoomForAll => Stays) /\ (NoCrash => OneHello /\ SpentKeys /\ Plenty)
DInv == IdsOnce /\ GotOnce /\ TakenShut /\ OneBase /\ SInv

-----------------------------------------------------------------------------
(* The operators on records.                                               *)

\* The bounds are numbers, those of a record's chains and states at least one.
LEMMA Bounds ==
    /\ MaxMsg \in Nat /\ MaxInit \in Nat /\ MaxCrash \in Nat /\ OneTime \in Nat /\ MaxSkip \in Nat
    /\ MaxChains \in Nat \ {0} /\ MaxArchived \in Nat \ {0}
BY SessionAssumption

\* The smaller of two numbers ...
LEMMA MinIs ==
    ASSUME NEW a \in Nat, NEW b \in Nat
    PROVE  Min({a, b}) = IF a <= b THEN a ELSE b
BY DEF Min

\* ... and the larger of a number and one.
LEMMA MaxIs ==
    ASSUME NEW a \in Int
    PROVE  Max({1, a}) = IF a <= 1 THEN 1 ELSE a
BY DEF Max

\* A step puts a state at the front of a record: a new one (i = 0), at the cost of the
\* oldest where there is no place, or the i-th one, changed.
Source(i, j) == IF i # 0 /\ i < j THEN j ELSE j - 1
Fronted(rec, new, st, i) ==
    /\ Len(new) = IF i # 0 \/ Len(rec) = MaxArchived + 1 THEN Len(rec) ELSE Len(rec) + 1
    /\ new[1] = st
    /\ \A j \in 2..Len(new) : Source(i, j) \in DOMAIN rec /\ new[j] = rec[Source(i, j)]

\* Archiving puts a state in front, and at most the oldest is dropped.
LEMMA ArchiveIs ==
    ASSUME NEW S, NEW rec \in Seq(S), Len(rec) <= MaxArchived + 1, NEW st \in S
    PROVE  Archive(rec, st) \in Seq(S) /\ Fronted(rec, Archive(rec, st), st, 0)
<1> DEFINE all == <<st>> \o rec
           top == Min({Len(all), MaxArchived + 1})
<1>1. all \in Seq(S) /\ Len(all) = Len(rec) + 1 /\ all[1] = st
      OBVIOUS
<1>2. \A j \in 2..Len(all) : j - 1 \in DOMAIN rec /\ all[j] = rec[j - 1]
      OBVIOUS
<1>3. top = (IF Len(rec) = MaxArchived + 1 THEN Len(rec) ELSE Len(rec) + 1) /\ top \in 1..Len(all)
  <2>1. Len(rec) \in Nat /\ Len(all) \in Nat /\ MaxArchived + 1 \in Nat
        BY <1>1, Bounds
  <2>2. QED
        BY <1>1, <2>1, MinIs, Bounds
<1> HIDE DEF all, top
<1>4. Archive(rec, st) = SubSeq(all, 1, top)
      BY DEF Archive, all, top
<1>5. /\ SubSeq(all, 1, top) \in Seq(S) /\ Len(SubSeq(all, 1, top)) = top
      /\ \A j \in 1..top : SubSeq(all, 1, top)[j] = all[j]
      BY <1>1, <1>3
<1>6. QED
      BY <1>1, <1>2, <1>3, <1>4, <1>5 DEF Fronted, Source

\* Promoting puts the new copy of a state in front, in the place of the old one.
LEMMA PromoteIs ==
    ASSUME NEW S, NEW rec \in Seq(S), NEW i \in DOMAIN rec, NEW st \in S
    PROVE  Promote(rec, i, st) \in Seq(S) /\ Fronted(rec, Promote(rec, i, st), st, i)
<1> DEFINE before == SubSeq(rec, 1, i - 1)
           after == SubSeq(rec, i + 1, Len(rec))
           rest == before \o after
<1>1. before \in Seq(S) /\ Len(before) = i - 1 /\ \A j \in 1..(i - 1) : before[j] = rec[j]
      OBVIOUS
<1>2. after \in Seq(S) /\ Len(after) = Len(rec) - i /\ \A j \in 1..(Len(rec) - i) : after[j] = rec[i + j]
      OBVIOUS
<1> HIDE DEF before, after
<1>3. rest \in Seq(S) /\ Len(rest) = Len(rec) - 1
      BY <1>1, <1>2
<1>4. \A j \in 1..(Len(rec) - 1) : rest[j] = IF j < i THEN rec[j] ELSE rec[j + 1]
      BY <1>1, <1>2
<1> HIDE DEF rest
<1>5. Promote(rec, i, st) = <<st>> \o rest
      BY DEF Promote, RemoveAt, rest, before, after
<1>6. /\ <<st>> \o rest \in Seq(S) /\ Len(<<st>> \o rest) = Len(rec) /\ (<<st>> \o rest)[1] = st
      /\ \A j \in 2..Len(rec) : (<<st>> \o rest)[j] = rest[j - 1]
      BY <1>3
<1>7. i \in Nat \ {0}
      OBVIOUS
<1>8. \A j \in 2..Len(rec) : Source(i, j) \in DOMAIN rec /\ (<<st>> \o rest)[j] = rec[Source(i, j)]
      BY <1>4, <1>6, <1>7 DEF Source
<1>9. QED
      BY <1>5, <1>6, <1>7, <1>8 DEF Fronted

\* The state of a new session that decrypted is at the front already.
LEMMA FirstPromoted ==
    ASSUME NEW S, NEW rec \in Seq(S), Len(rec) <= MaxArchived + 1, NEW bob \in S, NEW st \in S,
           NEW T, S \subseteq T, NEW opened \in T
    PROVE  LET new == Promote(Archive(rec, bob), 1, opened) IN
           new \in Seq(T) /\ Fronted(rec, new, opened, 0)
<1> DEFINE mid == Archive(rec, bob)
           new == Promote(mid, 1, opened)
<1>1. mid \in Seq(S) /\ Fronted(rec, mid, bob, 0)
      BY ArchiveIs
<1>2. mid \in Seq(T) /\ 1 \in DOMAIN mid
      BY <1>1, Bounds DEF Fronted
<1>3. new \in Seq(T) /\ Fronted(mid, new, opened, 1)
      BY <1>2, PromoteIs
<1> HIDE DEF mid, new
<1>4. Len(mid) \in Nat /\ Len(new) = Len(mid) /\ \A j \in 2..Len(mid) : new[j] = mid[j]
      BY <1>2, <1>3 DEF Fronted, Source
<1>5. QED
      BY <1>1, <1>3, <1>4 DEF Fronted, new, mid

\* The states behind the one in front are those of the record but the i-th.
LEMMA FrontedRest ==
    ASSUME NEW S, NEW rec \in Seq(S), NEW new, NEW st, NEW i \in {0} \cup DOMAIN rec, NEW T,
           new \in Seq(T), Fronted(rec, new, st, i)
    PROVE  /\ new[1] = st
           /\ \A j \in DOMAIN new : j = 1 \/ (Source(i, j) \in DOMAIN rec /\ Source(i, j) # i /\ new[j] = rec[Source(i, j)])
           /\ \A j \in DOMAIN new : j = 1 \/ \E x \in DOMAIN rec : x # i /\ new[j] = rec[x]
<1>1. DOMAIN new = 1..Len(new) /\ Len(new) \in Nat /\ new[1] = st
      BY DEF Fronted
<1>2. ASSUME NEW j \in DOMAIN new, j # 1
      PROVE  Source(i, j) \in DOMAIN rec /\ Source(i, j) # i /\ new[j] = rec[Source(i, j)]
  <2>1. j \in 2..Len(new) /\ i \in Nat
        BY <1>1, <1>2
  <2>2. Source(i, j) # i
        BY <2>1 DEF Source
  <2>3. QED
        BY <2>1, <2>2 DEF Fronted
<1>3. QED
      BY <1>1, <1>2

\* States that are told apart by something still are when the one in front is.
LEMMA FrontedApart ==
    ASSUME NEW S, NEW rec \in Seq(S), NEW new, NEW st, NEW i \in {0} \cup DOMAIN rec, NEW T,
           new \in Seq(T), Fronted(rec, new, st, i), NEW mark,
           \A x \in DOMAIN rec, y \in DOMAIN rec : mark[rec[x]] = mark[rec[y]] => x = y,
           \A x \in DOMAIN rec : mark[rec[x]] = mark[st] => x = i
    PROVE  \A x, y \in DOMAIN new : mark[new[x]] = mark[new[y]] => x = y
<1>1. /\ new[1] = st
      /\ \A x \in DOMAIN new \ {1} : Source(i, x) \in DOMAIN rec /\ Source(i, x) # i /\ new[x] = rec[Source(i, x)]
      BY FrontedRest
<1>2. \A x, y \in DOMAIN new \ {1} : Source(i, x) = Source(i, y) => x = y
      BY DEF Source
<1>3. QED
      BY <1>1, <1>2

-----------------------------------------------------------------------------
(* The operators on states.                                                *)

\* What chains, states, records and messages are made of grows with the keys and the ids.
LEMMA Grows ==
    ASSUME NEW k \in Nat, NEW l \in Nat, k <= l, NEW P, NEW Q, P \subseteq Q
    PROVE  /\ ChainOf(k) \subseteq ChainOf(l) /\ ChainsOf(k) \subseteq ChainsOf(l)
           /\ StateOf(k, P) \subseteq StateOf(l, Q) /\ RecordOf(k, P) \subseteq RecordOf(l, Q)
           /\ \A s \in Side : \A n, o \in Nat : n <= o => MessageOf(s, k, n, P) \subseteq MessageOf(s, l, o, Q)
<1>1. 0..(k - 1) \subseteq 0..(l - 1)
      OBVIOUS
<1>2. ChainOf(k) \subseteq ChainOf(l)
      BY <1>1 DEF ChainOf
<1>3. ChainsOf(k) \subseteq ChainsOf(l)
      BY <1>2 DEF ChainsOf
<1>4. StateOf(k, P) \subseteq StateOf(l, Q)
      BY <1>1, <1>3 DEF StateOf
<1>5. RecordOf(k, P) \subseteq RecordOf(l, Q)
      BY <1>4 DEF RecordOf
<1>6. \A n, o \in Nat : n <= o => 1..(n - 1) \subseteq 1..(o - 1)
      OBVIOUS
<1>7. \A s \in Side : \A n, o \in Nat : n <= o => MessageOf(s, k, n, P) \subseteq MessageOf(s, l, o, Q)
      BY <1>1, <1>6 DEF MessageOf
<1>8. QED
      BY <1>2, <1>3, <1>4, <1>5, <1>7

\* The chain a message belongs to, and what using its key makes of it.
LEMMA ChainIs ==
    ASSUME NEW k \in Nat, NEW P, NEW st \in StateOf(k, P), NEW eph \in 0..(k - 1)
    PROVE  /\ Chain(st, eph) \in ChainOf(k) /\ Chain(st, eph).eph = eph
           /\ HasChain(st, eph) <=> \E x \in DOMAIN st.chains : st.chains[x].eph = eph
           /\ HasChain(st, eph) => \E x \in DOMAIN st.chains : st.chains[x] = Chain(st, eph)
           /\ ~HasChain(st, eph) => Chain(st, eph).with = st.us /\ Chain(st, eph).next = 0
<1>1. st.chains \in Seq(ChainOf(k)) /\ st.us \in 0..(k - 1)
      BY DEF StateOf, ChainsOf
<1>2. HasChain(st, eph) <=> \E x \in DOMAIN st.chains : st.chains[x].eph = eph
      BY DEF HasChain, Range
<1>3. CASE HasChain(st, eph)
  <2>1. Chain(st, eph) = CHOOSE c \in Range(st.chains) : c.eph = eph
        BY <1>3 DEF Chain
  <2>2. \E c \in Range(st.chains) : c.eph = eph
        BY <1>3 DEF HasChain
  <2>3. Chain(st, eph) \in Range(st.chains) /\ Chain(st, eph).eph = eph
        BY <2>1, <2>2
  <2>4. QED
        BY <1>1, <1>2, <1>3, <2>3 DEF Range
<1>4. CASE ~HasChain(st, eph)
      BY <1>1, <1>2, <1>4 DEF Chain, ChainOf
<1>5. QED
      BY <1>3, <1>4

\* After its key was used a chain is ahead of it and has not saved it; nothing used before comes back.
LEMMA AdvancedIs ==
    ASSUME NEW k \in Nat, NEW c \in ChainOf(k), NEW ctr \in Nat
    PROVE  LET d == Advanced(c, ctr) IN
           /\ d \in ChainOf(k) /\ d.eph = c.eph /\ d.with = c.with
           /\ ctr < d.next /\ ctr \notin d.saved
           /\ \A x \in Nat : x < c.next /\ x \notin c.saved => x < d.next /\ x \notin d.saved
<1>1. c.next \in Nat /\ c.saved \subseteq Nat /\ \A x \in c.saved : x < c.next
      BY DEF ChainOf
<1>2. CASE ctr < c.next
  <2>1. Advanced(c, ctr) = [c EXCEPT !.saved = c.saved \ {ctr}]
        BY <1>2 DEF Advanced
  <2>2. QED
        BY <1>1, <1>2, <2>1 DEF ChainOf
<1>3. CASE ~(ctr < c.next)
  <2> DEFINE sv == c.saved \cup c.next..(ctr - 1)
             d == [c EXCEPT !.next = ctr + 1, !.saved = sv]
  <2>1. Advanced(c, ctr) = d
        BY <1>3 DEF Advanced
  <2>2. c.next <= ctr
        BY <1>1, <1>3
  <2>3. sv \subseteq Nat /\ \A x \in sv : x < ctr + 1 /\ x # ctr
        BY <1>1, <2>2
  <2>4. \A x \in Nat : x < c.next /\ x \notin c.saved => x < ctr + 1 /\ x \notin sv
        BY <1>1, <2>2
  <2> HIDE DEF sv
  <2>5. d.eph = c.eph /\ d.with = c.with /\ d.next = ctr + 1 /\ d.saved = sv
        BY DEF ChainOf
  <2>6. d \in [eph : 0..(k - 1), with : 0..(k - 1), next : Nat, saved : SUBSET Nat]
    <3>1. c \in [eph : 0..(k - 1), with : 0..(k - 1), next : Nat, saved : SUBSET Nat]
          BY DEF ChainOf
    <3>2. ctr + 1 \in Nat /\ sv \in SUBSET Nat
          BY <2>3
    <3> HIDE DEF sv
    <3>3. QED
          BY <3>1, <3>2
  <2>7. d \in ChainOf(k)
        BY <2>3, <2>5, <2>6 DEF ChainOf
  <2> HIDE DEF d
  <2>8. QED
        BY <2>1, <2>3, <2>4, <2>5, <2>7
<1>4. QED
      BY <1>2, <1>3

\* A chain of a new ratchet key comes last, and the oldest makes place for it.
Lengthened(q, c) ==
    LET all == Append(q, c) IN SubSeq(all, Max({1, Len(all) - MaxChains + 1}), Len(all))

\* The new chain is the last, the rest are of before, and all of them keep to the limit.
LEMMA LastKept ==
    ASSUME NEW S, NEW q \in Seq(S), Len(q) <= MaxChains, NEW last \in S
    PROVE  /\ Lengthened(q, last) \in Seq(S) /\ Len(Lengthened(q, last)) <= MaxChains
           /\ Len(Lengthened(q, last)) >= 1 /\ Lengthened(q, last)[Len(Lengthened(q, last))] = last
           /\ \A x \in DOMAIN Lengthened(q, last) :
                 Lengthened(q, last)[x] = last \/ \E y \in DOMAIN q : Lengthened(q, last)[x] = q[y]
<1> DEFINE all == Append(q, last)
           low == Max({1, Len(all) - MaxChains + 1})
           kept == SubSeq(all, low, Len(all))
<1>1. all \in Seq(S) /\ Len(all) = Len(q) + 1 /\ all[Len(all)] = last /\ \A y \in 1..Len(q) : all[y] = q[y]
      OBVIOUS
<1>2. Len(q) \in Nat /\ MaxChains \in Nat /\ MaxChains >= 1
      BY Bounds
<1>3. Len(all) \in Nat /\ Len(all) - MaxChains + 1 \in Int
      BY <1>1, <1>2
<1>4. low = IF Len(all) - MaxChains + 1 <= 1 THEN 1 ELSE Len(all) - MaxChains + 1
      BY <1>3, MaxIs
<1> HIDE DEF all, low
<1>5. low \in 1..Len(all) /\ Len(all) - low + 1 <= MaxChains
      BY <1>1, <1>2, <1>3, <1>4
<1>6. /\ kept \in Seq(S) /\ Len(kept) = Len(all) - low + 1
      /\ \A x \in 1..Len(kept) : kept[x] = all[low + x - 1]
      BY <1>1, <1>5
<1> HIDE DEF kept
<1>7. Len(kept) >= 1 /\ kept[Len(kept)] = last
  <2>1. Len(kept) \in Nat /\ Len(kept) >= 1
        BY <1>3, <1>5, <1>6
  <2>2. low + Len(kept) - 1 = Len(all)
        BY <1>3, <1>5, <1>6
  <2>3. QED
        BY <1>1, <1>6, <2>1, <2>2
<1>8. \A x \in DOMAIN kept : kept[x] = last \/ \E y \in DOMAIN q : kept[x] = q[y]
  <2> SUFFICES ASSUME NEW x \in DOMAIN kept PROVE kept[x] = last \/ \E y \in DOMAIN q : kept[x] = q[y]
      OBVIOUS
  <2>1. x \in 1..Len(kept)
        BY <1>6
  <2>2. low + x - 1 \in 1..Len(all) /\ kept[x] = all[low + x - 1]
        BY <1>3, <1>5, <1>6, <2>1
  <2>3. QED
        BY <1>1, <1>2, <2>2
<1>9. QED
      BY <1>5, <1>6, <1>7, <1>8 DEF Lengthened, kept, low, all

\* What decrypting a message makes of a state.
LEMMA OpenedIs ==
    ASSUME nextKey \in Nat, NEW P, None \in P, NEW st \in StateOf(nextKey, P), NEW m,
           m.eph \in 0..(nextKey - 1), m.ctr \in Nat, Opens(st, m)
    PROVE  LET new == Opened(st, m) IN
           /\ new \in StateOf(nextKey + 1, P) /\ new.base = st.base /\ ~new.pk
           /\ new.us = nextKey \/ (HasChain(st, m.eph) /\ new.us = st.us /\ new.n = st.n)
           /\ Shut(new, m)
           /\ \A o : o.with \in 0..(nextKey - 1) /\ o.ctr \in Nat /\ Shut(st, o) => Shut(new, o)
<1> DEFINE c0 == Chain(st, m.eph)
           c == Advanced(c0, m.ctr)
           k == nextKey
           mid == WithChain(st, c)
           new == Opened(st, m)
<1>1. /\ c0 \in ChainOf(k) /\ c0.eph = m.eph
      /\ HasChain(st, m.eph) <=> \E x \in DOMAIN st.chains : st.chains[x].eph = m.eph
      /\ HasChain(st, m.eph) => \E x \in DOMAIN st.chains : st.chains[x] = c0
      /\ ~HasChain(st, m.eph) => c0.with = st.us /\ c0.next = 0
      BY ChainIs
<1> HIDE DEF c0
<1>2. c \in ChainOf(k) /\ c.eph = m.eph /\ c.with = c0.with /\ m.ctr < c.next /\ m.ctr \notin c.saved
      BY <1>1, AdvancedIs, SMTT(30)
<1>3. \A x \in Nat : x < c0.next /\ x \notin c0.saved => x < c.next /\ x \notin c.saved
      BY <1>1, AdvancedIs
<1>4. m.base = st.base /\ m.with = c0.with
      BY DEF Opens, c0
<1>5. st.chains \in Seq(ChainOf(k)) /\ Len(st.chains) <= MaxChains
      BY DEF StateOf, ChainsOf
<1>6. new = [mid EXCEPT !.pk = FALSE, !.pid = None]
      BY DEF Opened, c0
<1> HIDE DEF c, mid, new
<1>7. CASE HasChain(st, m.eph)
  <2> DEFINE q == [x \in DOMAIN st.chains |-> IF st.chains[x].eph = c.eph THEN c ELSE st.chains[x]]
  <2>1. mid = [st EXCEPT !.chains = q]
        BY <1>2, <1>7 DEF WithChain, mid, c0
  <2>2. q \in Seq(ChainOf(k)) /\ Len(q) = Len(st.chains) /\ DOMAIN q = DOMAIN st.chains
    <3>1. DOMAIN st.chains = 1..Len(st.chains) /\ Len(st.chains) \in Nat
          BY <1>5
    <3>2. \A x \in 1..Len(st.chains) : st.chains[x] \in ChainOf(k)
          BY <1>5
    <3>3. q \in [1..Len(st.chains) -> ChainOf(k)]
          BY <1>2, <3>1, <3>2
    <3>4. QED
          BY <3>1, <3>3
  <2>3. \A x \in DOMAIN q : q[x] = IF st.chains[x].eph = m.eph THEN c ELSE st.chains[x]
        BY <1>2
  <2> HIDE DEF q
  <2>4. q \in ChainsOf(k)
        BY <1>5, <2>2 DEF ChainsOf
  <2>5. /\ new \in StateOf(k, P) /\ new.base = st.base /\ ~new.pk /\ new.us = st.us /\ new.n = st.n
        /\ new.chains = q
        BY <1>6, <2>1, <2>4 DEF StateOf
  <2>6. new \in StateOf(k + 1, P)
    <3>1. StateOf(k, P) \subseteq StateOf(k + 1, P)
          BY Grows
    <3>2. QED
          BY <2>5, <3>1
  <2>7. \E x \in DOMAIN q : q[x].eph = m.eph
        BY <1>1, <1>2, <1>7, <2>2, <2>3
  <2>8. \A x \in DOMAIN q : q[x].eph = m.eph => q[x] = c
        BY <2>2, <2>3
  <2>9. Shut(new, m)
        BY <1>2, <2>5, <2>7, <2>8 DEF Shut
  <2>10. ASSUME NEW o, o.with \in 0..(k - 1), o.ctr \in Nat, Shut(st, o)
         PROVE  Shut(new, o)
    <3> SUFFICES ASSUME st.base = o.base
                 PROVE  /\ \A x \in DOMAIN q : q[x].eph = o.eph /\ q[x].with = o.with =>
                              o.ctr < q[x].next /\ o.ctr \notin q[x].saved
                        /\ (\A x \in DOMAIN q : q[x].eph # o.eph) => st.us # o.with
        BY <2>5 DEF Shut
    <3>1. /\ \A x \in DOMAIN st.chains : st.chains[x].eph = o.eph /\ st.chains[x].with = o.with =>
                o.ctr < st.chains[x].next /\ o.ctr \notin st.chains[x].saved
          /\ (\A x \in DOMAIN st.chains : st.chains[x].eph # o.eph) => st.us # o.with
          BY <2>10 DEF Shut
    <3>2. c.eph = o.eph /\ c.with = o.with => o.ctr < c.next /\ o.ctr \notin c.saved
          BY <1>1, <1>2, <1>3, <1>7, <2>10, <3>1
    <3>3. \A x \in DOMAIN q : q[x].eph = st.chains[x].eph
          BY <1>2, <2>2, <2>3
    <3>4. QED
          BY <2>2, <2>3, <3>1, <3>2, <3>3
  <2>11. QED
         BY <1>7, <2>5, <2>6, <2>9, <2>10 DEF new
<1>8. CASE ~HasChain(st, m.eph)
  <2> DEFINE q == Lengthened(st.chains, c)
  <2>1. mid = [st EXCEPT !.us = k, !.theirs = c.eph, !.n = 0, !.chains = q]
        BY <1>2, <1>8 DEF WithChain, mid, Lengthened
  <2>2. /\ q \in Seq(ChainOf(k)) /\ Len(q) <= MaxChains
        /\ \E x \in DOMAIN q : q[x] = c
        /\ \A x \in DOMAIN q : q[x] = c \/ \E y \in DOMAIN st.chains : q[x] = st.chains[y]
    <3>1. st.chains \in Seq(ChainOf(k)) /\ Len(st.chains) <= MaxChains /\ c \in ChainOf(k)
          BY <1>2, <1>5
    <3>2. q \in Seq(ChainOf(k)) /\ Len(q) <= MaxChains /\ Len(q) >= 1 /\ q[Len(q)] = c
          BY <3>1, LastKept, ZenonT(40)
    <3>3. \A x \in DOMAIN q : q[x] = c \/ \E y \in DOMAIN st.chains : q[x] = st.chains[y]
          BY <3>1, LastKept
    <3>4. Len(q) \in DOMAIN q
          BY <3>2
    <3>5. QED
          BY <3>2, <3>3, <3>4
  <2> HIDE DEF q
  <2>3. q \in ChainsOf(k + 1)
    <3>1. ChainsOf(k) \subseteq ChainsOf(k + 1)
          BY Grows
    <3>2. QED
          BY <2>2, <3>1 DEF ChainsOf
  <2>4. st \in StateOf(k + 1, P) /\ k \in 0..(k + 1 - 1) /\ c.eph \in 0..(k + 1 - 1)
    <3>1. StateOf(k, P) \subseteq StateOf(k + 1, P)
          BY Grows
    <3>2. c.eph \in 0..(k - 1)
          BY <1>2 DEF ChainOf
    <3>3. QED
          BY <3>1, <3>2
  <2>5. /\ new \in StateOf(k + 1, P) /\ new.base = st.base /\ ~new.pk /\ new.us = k /\ new.chains = q
    <3>1. mid = [base |-> st.base, us |-> k, theirs |-> c.eph, n |-> 0, pk |-> st.pk, pid |-> st.pid, chains |-> q]
          BY <2>1 DEF StateOf
    <3>2. new = [base |-> st.base, us |-> k, theirs |-> c.eph, n |-> 0, pk |-> FALSE, pid |-> None, chains |-> q]
          BY <1>6, <3>1
    <3>3. st.base \in 0..(k + 1 - 1)
          BY <2>4 DEF StateOf
    <3>4. QED
          BY <2>3, <2>4, <3>2, <3>3 DEF StateOf
  <2>6. \A x \in DOMAIN q : q[x].eph = m.eph => q[x] = c
        BY <1>1, <1>8, <2>2
  <2>7. Shut(new, m)
        BY <1>2, <2>2, <2>5, <2>6 DEF Shut
  <2>8. ASSUME NEW o, o.with \in 0..(k - 1), o.ctr \in Nat, Shut(st, o)
        PROVE  Shut(new, o)
    <3> SUFFICES ASSUME st.base = o.base
                 PROVE  /\ \A x \in DOMAIN q : q[x].eph = o.eph /\ q[x].with = o.with =>
                              o.ctr < q[x].next /\ o.ctr \notin q[x].saved
                        /\ k # o.with
        BY <2>5 DEF Shut
    <3>1. /\ \A x \in DOMAIN st.chains : st.chains[x].eph = o.eph /\ st.chains[x].with = o.with =>
                o.ctr < st.chains[x].next /\ o.ctr \notin st.chains[x].saved
          /\ (\A x \in DOMAIN st.chains : st.chains[x].eph # o.eph) => st.us # o.with
          BY <2>8 DEF Shut
    <3>2. ~(c.eph = o.eph /\ c.with = o.with)
          BY <1>1, <1>2, <1>8, <3>1
    <3>3. QED
          BY <2>2, <2>8, <3>1, <3>2
  <2>9. QED
        BY <2>5, <2>7, <2>8 DEF new
<1>9. QED
      BY <1>7, <1>8

-----------------------------------------------------------------------------
(* What a step makes of the variables' types.                              *)

\* There are two sides, each the other's peer.
LEMMA SideIs == \A s \in Side : Peer(s) \in Side /\ Peer(Peer(s)) = s /\ Peer(s) # s
BY DEF Side, Peer

\* A set of numbers has a least one.
LEMMA MinIn ==
    ASSUME NEW T \in SUBSET Nat, T # {}
    PROVE  Min(T) \in T
<1>1. IsWellFoundedOn(OpToRel(<, Nat), Nat)
      BY NatLessThanWellFounded
<1>2. PICK x \in T : \A y \in T : ~(<<y, x>> \in OpToRel(<, Nat))
      BY <1>1, WFMin
<1>3. \A y \in T : ~(y < x)
      BY <1>2 DEF OpToRel
<1>4. x \in T /\ \A y \in T : x <= y
      BY <1>3
<1>5. QED
      BY <1>4 DEF Min

\* Keys, ids and messages get more, and the pre-keys not given out fewer.
Later ==
    /\ nextKey' \in Nat /\ nextKey <= nextKey' /\ nextId' \in Nat /\ nextId <= nextId'
    /\ network \subseteq network' /\ \A s \in Side : stock'[s] \subseteq stock[s]

\* A later state has a place for everything of an earlier one.
LEMMA JobsGrow ==
    ASSUME TInv, Later, NEW s \in Side
    PROVE  /\ Given(s) \subseteq Given(s)' /\ None \in Given(s) /\ Record(s) \subseteq Record(s)'
           /\ Encrypted(s) \subseteq Encrypted(s)' /\ Job(s) \subseteq Job(s)'
<1>1. \A u \in Side : Given(u) \subseteq Given(u)' /\ None \in Given(u)
      BY SideIs, Bounds DEF Given, Later, TInv, PreKeysKept, None
<1>2. \A u \in Side : Encrypted(u) \subseteq Encrypted(u)'
      BY <1>1, Grows DEF Encrypted, Later, TInv, Counted
<1>3. Record(s) \subseteq Record(s)'
      BY <1>1, Grows DEF Record, Later, TInv, Counted
<1>4. Sends(s) \subseteq Sends(s)' /\ SetsUp(s) \subseteq SetsUp(s)'
      BY <1>2, <1>3 DEF Sends, SetsUp
<1>5. Receives(s) \subseteq Receives(s)'
      BY <1>1, <1>2, <1>3, SideIs DEF Receives, Later
<1>6. QED
      BY <1>1, <1>2, <1>3, <1>4, <1>5 DEF Job

\* A thread begins or goes on with some work of its side.
LEMMA BeginIs ==
    ASSUME TInv, Later, NEW s \in Side, NEW t \in Thread, NEW work \in Job(s)', Begin(s, t, work)
    PROVE  /\ Jobs'
           /\ \A u \in Side, v \in Thread : job'[u][v] = IF u = s /\ v = t THEN work ELSE job[u][v]
<1>1. job \in [Side -> [Thread -> Job(1) \cup Job(2)]]
      BY DEF TInv, Jobs
<1>2. \A u \in Side, v \in Thread : job'[u][v] = IF u = s /\ v = t THEN work ELSE job[u][v]
      BY <1>1 DEF Begin
<1>3. \A u \in Side, v \in Thread : job'[u][v] \in Job(u)'
      BY <1>2, JobsGrow DEF TInv, Jobs
<1>4. job' \in [Side -> [Thread -> (Job(1) \cup Job(2))']]
  <2>1. Job(1) \subseteq Job(1)' /\ Job(2) \subseteq Job(2)'
        BY JobsGrow DEF Side
  <2>2. work \in (Job(1) \cup Job(2))'
        BY DEF Side
  <2>3. QED
        BY <1>1, <2>1, <2>2 DEF Begin
<1>5. QED
      BY <1>2, <1>3, <1>4 DEF Jobs

\* Records that are not written keep their type.
LEMMA RecordsStay ==
    ASSUME TInv, Later, sess' = sess
    PROVE  Records'
BY JobsGrow DEF TInv, Records, Side

\* Messages keep their type when each new one has it.
LEMMA MessagesStay ==
    ASSUME TInv, Later, \A m \in network' : m \in network \/ \E s \in Side : m \in Encrypted(s)',
           got' \in [Id -> Nat]
    PROVE  Messages'
BY JobsGrow DEF TInv, Messages, Side

\* A bundle is processed.
BundleState(s) == AliceState(s, IF stock[Peer(s)] = {} THEN None ELSE Min(stock[Peer(s)]))

\* A bundle gives a state of a new base in front, whose pre-key the server had until now.
LEMMA BundleIs ==
    ASSUME TInv, NEW s \in Side, ProcessBundle(s)
    PROVE  LET st == BundleState(s)
               new == Archive(sess[s], st) IN
           /\ Later /\ new \in Record(s)' /\ Fronted(sess[s], new, st, 0)
           /\ st.base = nextKey /\ st.us = nextKey + 1 /\ st.pid \in Given(s)' /\ st.pk
           /\ (stock[Peer(s)] # {} => st.pid \in stock[Peer(s)])
           /\ stock' = [stock EXCEPT ![Peer(s)] = @ \ {st.pid}]
           /\ Begin(s, "net", [at |-> "store", kind |-> "session", pid |-> None, rec |-> new])
<1> DEFINE p == Peer(s)
           pid == IF stock[p] = {} THEN None ELSE Min(stock[p])
           st == BundleState(s)
           new == Archive(sess[s], st)
<1>1. p \in Side /\ stock[p] \in SUBSET (1..OneTime) /\ nextKey \in Nat /\ nextKey > 2 /\ nextId \in Nat
      BY SideIs DEF TInv, PreKeysKept, Counted
<1>2. pid \in (0..OneTime) /\ (stock[p] # {} => pid \in stock[p])
      BY <1>1, MinIn, Bounds DEF None
<1>3. /\ stock' = [stock EXCEPT ![p] = @ \ {pid}] /\ nextKey' = nextKey + 2
      /\ UNCHANGED <<network, nextId>>
      /\ Begin(s, "net", [at |-> "store", kind |-> "session", pid |-> None, rec |-> new])
      BY DEF ProcessBundle, BundleState
<1>4. \A u \in Side : stock'[u] = IF u = p THEN stock[p] \ {pid} ELSE stock[u]
      BY <1>1, <1>3 DEF TInv, PreKeysKept
<1>5. Later
      BY <1>1, <1>3, <1>4 DEF Later
<1>6. pid \in Given(s)'
      BY <1>1, <1>2, <1>4 DEF Given
<1> HIDE DEF pid
<1>7. /\ st.base = nextKey /\ st.us = nextKey + 1 /\ st.pid = pid /\ st.pk
      /\ st \in StateOf(nextKey + 2, Given(s)')
  <2> DEFINE c == [eph |-> p, with |-> nextKey, next |-> 0, saved |-> {}]
  <2>1. st = [base |-> nextKey, us |-> nextKey + 1, theirs |-> p, n |-> 0, pk |-> TRUE,
              pid |-> pid, chains |-> <<c>>]
        BY DEF BundleState, AliceState, SignedPreKey, pid
  <2>2. p \in 0..(nextKey + 2 - 1) /\ nextKey \in 0..(nextKey + 2 - 1) /\ nextKey + 1 \in 0..(nextKey + 2 - 1)
        BY <1>1 DEF Side
  <2>3. c \in ChainOf(nextKey + 2)
        BY <2>2 DEF ChainOf
  <2> HIDE DEF c
  <2>4. <<c>> \in ChainsOf(nextKey + 2)
        BY <2>3, Bounds DEF ChainsOf
  <2>5. QED
        BY <1>6, <2>1, <2>2, <2>4 DEF StateOf
<1> HIDE DEF st
<1>8. new \in Record(s)' /\ Fronted(sess[s], new, st, 0)
  <2>1. sess[s] \in Record(s)'
        BY <1>5, JobsGrow DEF TInv, Records
  <2>2. sess[s] \in Seq(StateOf(nextKey + 2, Given(s)')) /\ Len(sess[s]) <= MaxArchived + 1
        BY <1>3, <2>1 DEF Record, RecordOf
  <2>3. new \in Seq(StateOf(nextKey + 2, Given(s)')) /\ Fronted(sess[s], new, st, 0)
        BY <1>7, <2>2, ArchiveIs
  <2>4. Len(new) <= MaxArchived + 1
        BY <2>2, <2>3, Bounds DEF Fronted
  <2>5. QED
        BY <1>3, <2>3, <2>4 DEF Record, RecordOf
<1>9. QED
      BY <1>2, <1>3, <1>5, <1>6, <1>7, <1>8 DEF st

\* A message is encrypted.
LEMMA EncryptIs ==
    ASSUME TInv, NEW s \in Side, NEW t \in Thread, Encrypt(s, t)
    PROVE  LET first == sess[s][1]
               st == [first EXCEPT !.n = @ + 1]
               new == [sess[s] EXCEPT ![1].n = @ + 1]
               m == Message(s, first) IN
           /\ Later /\ sess[s] # <<>> /\ first \in StateOf(nextKey, Given(s))
           /\ new \in Record(s)' /\ Fronted(sess[s], new, st, 1) /\ m \in Encrypted(s)'
           /\ Begin(s, t, [at |-> "store", kind |-> "send", pid |-> None, rec |-> new, msg |-> m])
<1> DEFINE first == sess[s][1]
           st == [first EXCEPT !.n = @ + 1]
           new == [sess[s] EXCEPT ![1].n = @ + 1]
           m == Message(s, first)
           S == StateOf(nextKey, Given(s))
<1>1. /\ sess[s] # <<>> /\ sess[s] \in Seq(S) /\ Len(sess[s]) <= MaxArchived + 1
      BY DEF Encrypt, TInv, Records, Record, RecordOf
<1>2. first \in S /\ 1 \in DOMAIN sess[s] /\ Head(sess[s]) = first /\ DOMAIN sess[s] = 1..Len(sess[s])
      BY <1>1
<1>3. nextId' = nextId + 1 /\ nextId <= MaxMsg /\ UNCHANGED <<stock, network, nextKey>>
      /\ Begin(s, t, [at |-> "store", kind |-> "send", pid |-> None, rec |-> new, msg |-> m])
      BY <1>2 DEF Encrypt
<1>4. Later
      BY <1>3 DEF Later, TInv, Counted
<1>5. st \in S
      BY <1>2 DEF StateOf
<1>6. /\ new = [sess[s] EXCEPT ![1] = st]
      BY <1>2
<1>7. new \in Seq(S) /\ Len(new) = Len(sess[s]) /\ new[1] = st /\ \A j \in 2..Len(new) : new[j] = sess[s][j]
      BY <1>1, <1>2, <1>5, <1>6
<1>8. new \in Record(s) /\ new \in Record(s)'
      BY <1>1, <1>4, <1>7, JobsGrow DEF Record, RecordOf
<1>9. Fronted(sess[s], new, st, 1)
      BY <1>1, <1>7 DEF Fronted, Source
<1>10. m \in Encrypted(s)'
  <2>1. nextId \in 1..(nextId' - 1) /\ s \in Side
        BY <1>3 DEF TInv, Counted
  <2>2. m \in MessageOf(s, nextKey, nextId', Given(s))
        BY <1>2, <2>1 DEF Message, MessageOf, StateOf
  <2>3. Given(s)' = Given(s)
        BY <1>3 DEF Given
  <2>4. QED
        BY <1>3, <2>2, <2>3 DEF Encrypted
<1>11. QED
       BY <1>1, <1>2, <1>3, <1>4, <1>8, <1>9, <1>10

\* A message is decrypted: by the first state of a new session (i = 0) or by the i-th
\* state of the record, which is then in front.
Decrypted(s, m, new, st, i, pid) ==
    /\ new \in Record(s)' /\ st \in StateOf(nextKey', Given(s)') /\ i \in {0} \cup DOMAIN sess[s]
    /\ Fronted(sess[s], new, st, i)
    /\ ~st.pk /\ st.base = m.base /\ Shut(st, m)
    /\ Begin(s, "net", [at |-> "store", kind |-> "receive", msg |-> m, pid |-> pid, rec |-> new])
\* The state o opens the message m, and becomes st.
Reads(o, m, st) == Opens(o, m) /\ st = Opened(o, m)
NewSession(s, m, st, pid) ==
    /\ m.pk /\ pid = m.pid /\ (pid # None => pid \in preKeys[s])
    /\ \A x \in DOMAIN sess[s] : sess[s][x].base # m.base
    /\ st.us = nextKey /\ Reads(BobState(s, m.base), m, st)
OldSession(s, m, st, i, pid) ==
    /\ i # 0 /\ pid = None /\ Opens(sess[s][i], m) /\ Reads(sess[s][i], m, st) /\ st.base = sess[s][i].base
    /\ st.us = nextKey \/ (st.us = sess[s][i].us /\ st.n = sess[s][i].n)
    /\ \A o : o.with \in 0..(nextKey - 1) /\ o.ctr \in Nat /\ Shut(sess[s][i], o) => Shut(st, o)

\* What a decrypting step does.
LEMMA DecryptIs ==
    ASSUME TInv, NEW s \in Side, NEW m \in network, Decrypt(s, m)
    PROVE  /\ Later /\ m \in Encrypted(Peer(s))
           /\ \E new, st, i, pid :
                 /\ Decrypted(s, m, new, st, i, pid)
                 /\ (i = 0 /\ NewSession(s, m, st, pid)) \/ OldSession(s, m, st, i, pid)
<1> DEFINE fresh == m.pk /\ \A st \in Range(sess[s]) : st.base # m.base
           rec == Processed(s, sess[s], m)
           S == StateOf(nextKey, Given(s))
           T == StateOf(nextKey + 1, Given(s))
<1>1. /\ nextKey' = nextKey + 1 /\ UNCHANGED <<sess, preKeys, stock, network, nextId>> /\ m.by = Peer(s)
      BY DEF Decrypt
<1>2. /\ Later /\ Given(s)' = Given(s) /\ nextKey \in Nat /\ nextKey > 2
      BY <1>1 DEF Later, TInv, Counted, Given
<1>3. m \in Encrypted(Peer(s))
  <2>1. m \in Encrypted(1) \cup Encrypted(2)
        BY DEF TInv, Messages
  <2>2. \A u \in Side : m \in Encrypted(u) => m.by = u
        BY DEF Encrypted, MessageOf
  <2>3. QED
        BY <1>1, <2>1, <2>2 DEF Side
<1>4. /\ m.base \in 0..(nextKey - 1) /\ m.eph \in 0..(nextKey - 1) /\ m.with \in 0..(nextKey - 1)
      /\ m.ctr \in Nat
      BY <1>3 DEF Encrypted, MessageOf
<1>5. sess[s] \in Seq(S) /\ Len(sess[s]) <= MaxArchived + 1 /\ Len(sess[s]) \in Nat /\ None \in Given(s)
      BY <1>2, JobsGrow DEF TInv, Records, Record, RecordOf
<1>6. S \subseteq T
      BY <1>2, Grows
<1>7. \A q \in Seq(T) : Len(q) <= MaxArchived + 1 => q \in Record(s)'
      BY <1>1, <1>2 DEF Record, RecordOf
<1>8. \A st \in T : st \in StateOf(nextKey', Given(s)')
      BY <1>1, <1>2
<1>9. PICK i \in Opening(rec, m) :
         Begin(s, "net", [at |-> "store", kind |-> "receive", msg |-> m,
                          pid |-> IF fresh THEN m.pid ELSE None,
                          rec |-> Promote(rec, i, Opened(rec[i], m))])
      BY DEF Decrypt
<1>10. i \in DOMAIN rec /\ Opens(rec[i], m)
       BY <1>9 DEF Opening
<1>11. fresh <=> m.pk /\ \A x \in DOMAIN sess[s] : sess[s][x].base # m.base
       BY <1>5 DEF Range
<1>12. fresh /\ m.pid # None => m.pid \in preKeys[s]
       BY DEF Decrypt
<1>13. rec = IF fresh THEN Archive(sess[s], BobState(s, m.base)) ELSE sess[s]
       BY DEF Processed
<1> DEFINE st == Opened(rec[i], m)
           new == Promote(rec, i, st)
           pid == IF fresh THEN m.pid ELSE None
<1> HIDE DEF fresh, rec
<1>14. CASE fresh
  <2> DEFINE bob == BobState(s, m.base)
  <2>1. bob \in S
    <3>1. s \in 0..(nextKey - 1) /\ None \in 0..(nextKey - 1) /\ <<>> \in ChainsOf(nextKey)
          BY <1>2, Bounds DEF Side, None, ChainsOf
    <3>2. QED
          BY <1>4, <1>5, <3>1 DEF BobState, StateOf, SignedPreKey
  <2>2. Archive(sess[s], bob) \in Seq(S) /\ Fronted(sess[s], Archive(sess[s], bob), bob, 0)
        BY <1>5, <2>1, ArchiveIs
  <2>3. rec \in Seq(S) /\ Fronted(sess[s], rec, bob, 0)
        BY <1>13, <1>14, <2>2
  <2>4. i = 1
    <3>1. rec[i].base = m.base
          BY <1>10 DEF Opens
    <3>2. ASSUME i # 1 PROVE FALSE
      <4>1. i \in 2..Len(rec)
            BY <1>10, <2>3, <3>2
      <4>2. \E x \in DOMAIN sess[s] : rec[i] = sess[s][x]
            BY <2>3, <4>1 DEF Fronted
      <4>3. QED
            BY <1>11, <1>14, <3>1, <4>2
    <3>3. QED
          BY <3>2
  <2>5. rec[i] = bob
        BY <2>3, <2>4 DEF Fronted
  <2>6. bob.chains = <<>> /\ bob.base = m.base
        BY DEF BobState
  <2>7. ~HasChain(bob, m.eph)
    <3>1. \A x \in DOMAIN bob.chains : FALSE
          BY <2>6
    <3>2. QED
          BY <1>2, <1>4, <2>1, <3>1, ChainIs
  <2>8. /\ st \in T /\ st.base = m.base /\ ~st.pk /\ st.us = nextKey /\ Shut(st, m)
        BY <1>2, <1>4, <1>5, <1>10, <2>1, <2>5, <2>6, <2>7, OpenedIs
  <2>9. new = Promote(Archive(sess[s], bob), 1, st)
        BY <1>13, <1>14, <2>4
  <2>10. Reads(BobState(s, m.base), m, st)
         BY <1>10, <2>5 DEF Reads
  <2> HIDE DEF bob, st
  <2>11. Promote(Archive(sess[s], bob), 1, st) \in Seq(T)
         /\ Fronted(sess[s], Promote(Archive(sess[s], bob), 1, st), st, 0)
         BY <1>5, <1>6, <2>1, <2>8, FirstPromoted
  <2>12. new \in Seq(T) /\ Fronted(sess[s], new, st, 0)
         BY <2>9, <2>11
  <2>13. Len(new) <= MaxArchived + 1
         BY <1>5, <2>12, Bounds DEF Fronted
  <2>14. Begin(s, "net", [at |-> "store", kind |-> "receive", msg |-> m, pid |-> pid, rec |-> new])
         BY <1>9 DEF st
  <2> HIDE DEF new
  <2>15. Decrypted(s, m, new, st, 0, m.pid)
         BY <1>7, <1>8, <1>14, <2>8, <2>12, <2>13, <2>14 DEF Decrypted
  <2>16. NewSession(s, m, st, m.pid)
         BY <1>11, <1>12, <1>14, <2>8, <2>10 DEF NewSession
  <2>17. QED
         BY <1>2, <1>3, <2>15, <2>16
<1>15. CASE ~fresh
  <2>1. rec = sess[s] /\ sess[s][i] \in S /\ i \in DOMAIN sess[s]
        BY <1>5, <1>10, <1>13, <1>15
  <2>2. /\ st \in T /\ st.base = sess[s][i].base /\ ~st.pk /\ Shut(st, m)
        /\ st.us = nextKey \/ (st.us = sess[s][i].us /\ st.n = sess[s][i].n)
        /\ \A o : o.with \in 0..(nextKey - 1) /\ o.ctr \in Nat /\ Shut(sess[s][i], o) => Shut(st, o)
        BY <1>2, <1>4, <1>5, <1>10, <2>1, OpenedIs
  <2>3. Opens(sess[s][i], m) /\ m.base = sess[s][i].base
        BY <1>10, <2>1 DEF Opens
  <2>4. Reads(sess[s][i], m, st)
         BY <2>1, <2>3 DEF Reads
  <2> HIDE DEF st
  <2>5. sess[s] \in Seq(T)
        BY <1>5, <1>6
  <2>6. Promote(sess[s], i, st) \in Seq(T) /\ Fronted(sess[s], Promote(sess[s], i, st), st, i)
        BY <2>1, <2>2, <2>5, PromoteIs
  <2>7. new \in Seq(T) /\ Fronted(sess[s], new, st, i)
        BY <2>1, <2>6
  <2>8. i \in Nat /\ i # 0
        BY <1>5, <2>1
  <2>9. Len(new) <= MaxArchived + 1
        BY <1>5, <2>7, <2>8 DEF Fronted
  <2>10. Begin(s, "net", [at |-> "store", kind |-> "receive", msg |-> m, pid |-> pid, rec |-> new])
        BY <1>9 DEF st
  <2> HIDE DEF new
  <2>11. Decrypted(s, m, new, st, i, None)
         BY <1>7, <1>8, <1>15, <2>1, <2>2, <2>3, <2>7, <2>9, <2>10 DEF Decrypted
  <2>12. OldSession(s, m, st, i, None)
         BY <2>2, <2>3, <2>4, <2>8 DEF OldSession
  <2>13. QED
         BY <1>2, <1>3, <2>11, <2>12
<1>16. QED
       BY <1>14, <1>15

\* A thread's work is of one of three kinds, and goes on.
LEMMA WorkIs ==
    ASSUME NEW s \in Side, NEW j \in Job(s), j.at # "idle"
    PROVE  /\ j.at \in {"store", "remove", "finish"} /\ j.kind \in {"send", "session", "receive"}
           /\ j.rec \in Record(s) /\ j.pid \in Given(Peer(s)) \cup {None}
           /\ (j.kind = "send" => j \in Sends(s)) /\ (j.kind = "session" => j \in SetsUp(s))
           /\ (j.kind = "receive" => j \in Receives(s))
           /\ (j.pid # None => j.kind = "receive") /\ (j.at = "remove" => j.pid # None /\ j.kind = "receive")
BY DEF Job, Idle, Sends, SetsUp, Receives

Going(j, at) == [j EXCEPT !.at = at]

\* Work that goes on is of the same kind, record, message and pre-key.
LEMMA WorkGoes ==
    ASSUME NEW s \in Side, NEW j \in Job(s), j.at # "idle",
           NEW at \in {"finish", "remove"}, at = "remove" => j.pid # None
    PROVE  /\ Going(j, at) \in Job(s) /\ Going(j, at).at = at /\ Going(j, at).kind = j.kind
           /\ Going(j, at).rec = j.rec /\ Going(j, at).pid = j.pid
           /\ (j.kind \in {"send", "receive"} => Going(j, at).msg = j.msg)
<1>1. CASE j \in Sends(s)
      BY <1>1 DEF Sends, Job, Going
<1>2. CASE j \in SetsUp(s)
      BY <1>2 DEF SetsUp, Job, Going
<1>3. CASE j \in Receives(s)
      BY <1>3 DEF Receives, Job, Going
<1>4. QED
      BY <1>1, <1>2, <1>3 DEF Job, Idle

\* Every behaviour starts with records, messages and jobs of their types.
LEMMA TypeInit == Init => TInv
<1> SUFFICES ASSUME Init PROVE TInv
    OBVIOUS
<1>1. Counted
      BY Bounds DEF Init, Counted
<1>2. PreKeysKept
      BY DEF Init, PreKeysKept
<1>3. Records
  <2>1. \A s \in Side : <<>> \in Record(s)
        BY Bounds DEF Record, RecordOf
  <2>2. QED
        BY <2>1 DEF Init, Records, Side
<1>4. Jobs
      BY DEF Init, Jobs, Job, Side
<1>5. Messages
      BY DEF Init, Messages
<1>6. QED
      BY <1>1, <1>2, <1>3, <1>4, <1>5 DEF TInv

\* Processing a bundle keeps the types.
LEMMA TypeBundle ==
    ASSUME TInv, NEW s \in Side, ProcessBundle(s)
    PROVE  TInv'
<1> DEFINE st == BundleState(s)
           new == Archive(sess[s], st)
           work == [at |-> "store", kind |-> "session", pid |-> None, rec |-> new]
<1>1. /\ Later /\ new \in Record(s)' /\ st.pid \in Given(s)'
      /\ stock' = [stock EXCEPT ![Peer(s)] = @ \ {st.pid}]
      /\ Begin(s, "net", work)
      BY BundleIs
<1> HIDE DEF st, new
<1>2. /\ UNCHANGED <<sess, preKeys, network, got, nextId, crashes>> /\ inits' = inits + 1
      /\ inits < MaxInit /\ nextKey' = nextKey + 2
      BY DEF ProcessBundle
<1>3. Counted'
      BY <1>2, Bounds DEF TInv, Counted
<1>4. PreKeysKept'
  <2>1. stock' \in [Side -> SUBSET (1..OneTime)]
        BY <1>1, SideIs DEF TInv, PreKeysKept
  <2>2. QED
        BY <1>1, <1>2, <2>1 DEF TInv, PreKeysKept, Later
<1>5. Jobs'
  <2>1. work \in SetsUp(s)'
        BY <1>1 DEF SetsUp
  <2>2. work \in Job(s)'
        BY <2>1 DEF Job
  <2>3. QED
        BY <1>1, <2>2, BeginIs DEF Thread
<1>6. Messages'
      BY <1>1, <1>2, MessagesStay DEF TInv, Messages
<1>7. QED
      BY <1>1, <1>2, <1>3, <1>4, <1>5, <1>6, RecordsStay DEF TInv

\* Encrypting a message keeps the types.
LEMMA TypeEncrypt ==
    ASSUME TInv, NEW s \in Side, NEW t \in Thread, Encrypt(s, t)
    PROVE  TInv'
<1> DEFINE first == sess[s][1]
           new == [sess[s] EXCEPT ![1].n = @ + 1]
           m == Message(s, first)
           work == [at |-> "store", kind |-> "send", pid |-> None, rec |-> new, msg |-> m]
<1>1. Later /\ new \in Record(s)' /\ m \in Encrypted(s)' /\ Begin(s, t, work)
      BY EncryptIs
<1> HIDE DEF new, m
<1>2. /\ UNCHANGED <<sess, preKeys, stock, network, got, nextKey, inits, crashes>> /\ nextId' = nextId + 1
      /\ nextId <= MaxMsg
      BY DEF Encrypt
<1>3. Counted'
      BY <1>2, Bounds DEF TInv, Counted
<1>4. PreKeysKept'
      BY <1>2 DEF TInv, PreKeysKept
<1>5. Jobs'
  <2>1. work \in Sends(s)'
        BY <1>1 DEF Sends
  <2>2. work \in Job(s)'
        BY <2>1 DEF Job
  <2>3. QED
        BY <1>1, <2>2, BeginIs
<1>6. Messages'
      BY <1>1, <1>2, MessagesStay DEF TInv, Messages
<1>7. QED
      BY <1>1, <1>2, <1>3, <1>4, <1>5, <1>6, RecordsStay DEF TInv

\* Decrypting a message keeps the types.
LEMMA TypeDecrypt ==
    ASSUME TInv, NEW s \in Side, NEW m \in network, Decrypt(s, m)
    PROVE  TInv'
<1>1. Later /\ m \in Encrypted(Peer(s))
      BY DecryptIs
<1>2. PICK new, st, i, pid :
         /\ Decrypted(s, m, new, st, i, pid)
         /\ (i = 0 /\ NewSession(s, m, st, pid)) \/ OldSession(s, m, st, i, pid)
      BY DecryptIs
<1> DEFINE work == [at |-> "store", kind |-> "receive", msg |-> m, pid |-> pid, rec |-> new]
<1>3. Begin(s, "net", work) /\ new \in Record(s)'
      BY <1>2 DEF Decrypted
<1>4. /\ UNCHANGED <<sess, preKeys, stock, network, got, nextId, inits, crashes>>
      /\ nextKey' = nextKey + 1
      BY DEF Decrypt
<1>5. pid \in Given(Peer(s))'
  <2>1. pid \in {m.pid, None}
        BY <1>2 DEF NewSession, OldSession
  <2>2. m.pid \in Given(Peer(s))
        BY <1>1 DEF Encrypted, MessageOf
  <2>3. Given(Peer(s)) \subseteq Given(Peer(s))' /\ None \in Given(Peer(s))
        BY <1>1, SideIs, JobsGrow
  <2>4. QED
        BY <2>1, <2>2, <2>3
<1>6. Counted'
      BY <1>4, Bounds DEF TInv, Counted
<1>7. PreKeysKept'
      BY <1>4 DEF TInv, PreKeysKept
<1>8. Jobs'
  <2>1. m \in Encrypted(Peer(s))' /\ m \in network'
        BY <1>1, <1>4, SideIs, JobsGrow
  <2>2. work \in Receives(s)'
        BY <1>3, <1>5, <2>1 DEF Receives
  <2>3. work \in Job(s)'
        BY <2>2 DEF Job
  <2>4. QED
        BY <1>1, <1>3, <2>3, BeginIs DEF Thread
<1>9. Messages'
      BY <1>1, <1>4, MessagesStay DEF TInv, Messages
<1>10. QED
       BY <1>1, <1>4, <1>6, <1>7, <1>8, <1>9, RecordsStay DEF TInv

\* Storing, removing the pre-key and finishing keep the types.
LEMMA TypeThread ==
    ASSUME TInv, NEW s \in Side, NEW t \in Thread, ThreadStep(s, t)
    PROVE  TInv' /\ Later /\ job[s][t] \in Job(s) /\ job[s][t].at # "idle"
<1> DEFINE j == job[s][t]
<1>1. Later
      BY DEF ThreadStep, Store, RemovePreKey, Finish, Later, counters, TInv, Counted
<1>2. j \in Job(s) /\ j.at # "idle"
      BY DEF ThreadStep, Store, RemovePreKey, Finish, TInv, Jobs
<1>3. j.rec \in Record(s) /\ j.pid \in Given(Peer(s)) \cup {None}
      BY <1>2, WorkIs
<1>4. Counted'
      BY DEF ThreadStep, Store, RemovePreKey, Finish, counters, TInv, Counted
<1>5. \A u \in Side : Job(u) \subseteq Job(u)' /\ Record(u) \subseteq Record(u)' /\ Encrypted(u) \subseteq Encrypted(u)'
      BY <1>1, JobsGrow
<1>6. CASE Store(s, t)
  <2> DEFINE at == IF j.pid = None THEN "finish" ELSE "remove"
  <2>1. /\ Begin(s, t, Going(j, at)) /\ sess' = [sess EXCEPT ![s] = j.rec]
        /\ UNCHANGED <<preKeys, stock, network, got>>
        BY <1>6 DEF Store, Going
  <2>2. Going(j, at) \in Job(s)
        BY <1>2, WorkGoes
  <2>3. Jobs'
        BY <1>1, <1>5, <2>1, <2>2, BeginIs
  <2>4. Records'
    <3>1. j.rec \in Record(s)' /\ \A u \in Side : sess[u] \in Record(u)'
          BY <1>3, <1>5 DEF TInv, Records
    <3>2. \A u \in Side : sess'[u] \in Record(u)'
          BY <2>1, <3>1 DEF TInv, Records
    <3>3. sess' \in [Side -> (Record(1) \cup Record(2))']
          BY <2>1, <3>1 DEF TInv, Records, Side
    <3>4. QED
          BY <3>2, <3>3 DEF Records
  <2>5. PreKeysKept'
        BY <2>1 DEF TInv, PreKeysKept
  <2>6. Messages'
        BY <1>1, <2>1, MessagesStay DEF TInv, Messages
  <2>7. QED
        BY <1>1, <1>2, <1>4, <2>3, <2>4, <2>5, <2>6 DEF TInv
<1>7. CASE RemovePreKey(s, t)
  <2>1. /\ Begin(s, t, Going(j, "finish")) /\ preKeys' = [preKeys EXCEPT ![s] = @ \ {j.pid}]
        /\ UNCHANGED <<sess, stock, network, got>> /\ j.at = "remove"
        BY <1>7 DEF RemovePreKey, Going
  <2>2. Going(j, "finish") \in Job(s)
        BY <1>2, WorkGoes
  <2>3. Jobs'
        BY <1>1, <1>5, <2>1, <2>2, BeginIs
  <2>4. PreKeysKept'
    <3>1. j.pid \notin stock[s]
          BY <1>2, <1>3, <2>1, WorkIs, SideIs DEF Given, TInv, PreKeysKept, None
    <3>2. QED
          BY <2>1, <3>1 DEF TInv, PreKeysKept
  <2>5. Messages'
        BY <1>1, <2>1, MessagesStay DEF TInv, Messages
  <2>6. QED
        BY <1>1, <1>2, <1>4, <2>1, <2>3, <2>4, <2>5, RecordsStay DEF TInv
<1>8. CASE Finish(s, t)
  <2>1. /\ Begin(s, t, Idle) /\ UNCHANGED <<sess, preKeys, stock>>
        /\ network' = IF j.kind = "send" THEN network \cup {j.msg} ELSE network
        /\ got' = IF j.kind = "receive" THEN [got EXCEPT ![j.msg.id] = @ + 1] ELSE got
        BY <1>8 DEF Finish
  <2>2. Idle \in Job(s)'
        BY DEF Job
  <2>3. Jobs'
        BY <1>1, <2>1, <2>2, BeginIs
  <2>4. PreKeysKept'
        BY <2>1 DEF TInv, PreKeysKept
  <2>5. j.kind = "send" => j.msg \in Encrypted(s)'
        BY <1>2, <1>5, WorkIs DEF Sends
  <2>6. got' \in [Id -> Nat]
    <3>1. \A u \in Side : \A m \in Encrypted(u) : m.id \in Id
      <4>1. 1..(nextId - 1) \subseteq Id
            BY Bounds DEF Id, TInv, Counted
      <4>2. QED
            BY <4>1 DEF Encrypted, MessageOf
    <3>2. j.kind = "receive" => j.msg.id \in Id
          BY <1>2, <3>1, WorkIs, SideIs DEF Receives
    <3>3. QED
          BY <2>1, <3>2 DEF TInv, Messages
  <2>7. Messages'
        BY <1>1, <2>1, <2>5, <2>6, MessagesStay
  <2>8. QED
        BY <1>1, <1>2, <1>4, <2>1, <2>3, <2>4, <2>7, RecordsStay DEF TInv
<1>9. QED
      BY <1>6, <1>7, <1>8 DEF ThreadStep

\* A crash keeps the types.
LEMMA TypeCrash ==
    ASSUME TInv, NEW s \in Side, Crash(s)
    PROVE  TInv' /\ Later
<1>1. /\ UNCHANGED <<sess, preKeys, stock, network, got, nextKey, nextId, inits>>
      /\ crashes < MaxCrash /\ crashes' = crashes + 1 /\ job' = [job EXCEPT ![s] = [t \in Thread |-> Idle]]
      BY DEF Crash
<1>2. Later
      BY <1>1 DEF Later, TInv, Counted
<1>3. Counted' /\ PreKeysKept'
      BY <1>1, Bounds DEF TInv, Counted, PreKeysKept
<1>4. Jobs'
  <2>1. \A u \in Side : Job(u)' = Job(u)
        BY <1>1, SideIs DEF Job, Sends, SetsUp, Receives, Record, Encrypted, Given
  <2>2. (Job(1) \cup Job(2))' = Job(1) \cup Job(2)
        BY <2>1 DEF Side
  <2>3. Idle \in Job(1) /\ Idle \in Job(2)
        BY DEF Job
  <2>4. \A u \in Side, t \in Thread : job'[u][t] = IF u = s THEN Idle ELSE job[u][t]
        BY <1>1 DEF TInv, Jobs
  <2>5. job' \in [Side -> [Thread -> Job(1) \cup Job(2)]]
        BY <1>1, <2>3 DEF TInv, Jobs
  <2>6. QED
        BY <2>1, <2>2, <2>3, <2>4, <2>5 DEF TInv, Jobs, Side
<1>5. Messages'
      BY <1>1, <1>2, MessagesStay DEF TInv, Messages
<1>6. QED
      BY <1>1, <1>2, <1>3, <1>4, <1>5, RecordsStay DEF TInv

\* Every step keeps the types.
LEMMA TypeStep == TInv /\ [Next]_vars => TInv'
<1> SUFFICES ASSUME TInv, [Next]_vars PROVE TInv'
    OBVIOUS
<1>1. ASSUME NEW s \in Side, ProcessBundle(s) PROVE TInv'
      BY <1>1, TypeBundle
<1>2. ASSUME NEW s \in Side, NEW t \in Thread, Encrypt(s, t) PROVE TInv'
      BY <1>2, TypeEncrypt
<1>3. ASSUME NEW s \in Side, NEW t \in Thread, ThreadStep(s, t) PROVE TInv'
      BY <1>3, TypeThread
<1>4. ASSUME NEW s \in Side, NEW m \in network, Decrypt(s, m) PROVE TInv'
      BY <1>4, TypeDecrypt
<1>5. ASSUME NEW s \in Side, Crash(s) PROVE TInv'
      BY <1>5, TypeCrash
<1>6. CASE UNCHANGED vars
  <2>1. \A s \in Side : Record(s)' = Record(s) /\ Encrypted(s)' = Encrypted(s)
        BY <1>6 DEF vars, local, counters, Record, Encrypted, Given
  <2>2. \A s \in Side : Job(s)' = Job(s)
        BY <1>6, <2>1, SideIs DEF vars, local, counters, Job, Sends, SetsUp, Receives, Given
  <2>3. Jobs'
        BY <1>6, <2>2 DEF vars, local, TInv, Jobs, Side
  <2>4. Records' /\ Messages'
        BY <1>6, <2>1 DEF vars, local, TInv, Records, Messages, Side
  <2>5. Counted' /\ PreKeysKept'
        BY <1>6 DEF vars, local, counters, TInv, Counted, PreKeysKept
  <2>6. QED
        BY <2>3, <2>4, <2>5 DEF TInv
<1>7. QED
      BY <1>1, <1>2, <1>3, <1>4, <1>5, <1>6 DEF Next

\* The types are the type invariant.
LEMMA TypesAre == TInv => TypeOK
<1> SUFFICES ASSUME TInv PROVE TypeOK
    OBVIOUS
<1>1. ASSUME NEW s \in Side PROVE Len(sess[s]) <= MaxArchived + 1
      BY DEF TInv, Records, Record, RecordOf
<1>2. ASSUME NEW s \in Side, NEW i \in DOMAIN sess[s]
      PROVE  LET st == sess[s][i] IN
             /\ Len(st.chains) <= MaxChains /\ st.n \in Nat
             /\ {st.base, st.us, st.theirs} \subseteq 0..(nextKey - 1)
             /\ \A c \in Range(st.chains) : c.next \in Nat /\ \A k \in c.saved : k < c.next
  <2>1. sess[s][i] \in StateOf(nextKey, Given(s))
        BY DEF TInv, Records, Record, RecordOf
  <2>2. sess[s][i].chains \in Seq(ChainOf(nextKey)) /\ Len(sess[s][i].chains) <= MaxChains
        BY <2>1 DEF StateOf, ChainsOf
  <2>3. \A c \in Range(sess[s][i].chains) : c \in ChainOf(nextKey)
        BY <2>2 DEF Range
  <2>4. QED
        BY <2>1, <2>2, <2>3 DEF StateOf, ChainOf
<1>3. ASSUME NEW s \in Side
      PROVE  /\ preKeys[s] \subseteq 1..OneTime /\ stock[s] \subseteq preKeys[s]
             /\ \A t \in Thread : job[s][t].at \in {"idle", "store", "remove", "finish"}
      BY WorkIs DEF TInv, PreKeysKept, Jobs
<1>4. /\ \A m \in network : m.id \in 1..(nextId - 1) /\ m.by \in Side
      /\ got \in [Id -> Nat]
      BY DEF TInv, Messages, Encrypted, MessageOf, Side
<1>5. QED
      BY <1>1, <1>2, <1>3, <1>4 DEF TypeOK

\* Records, chains, pre-keys and messages keep to their types and limits, however many there are.
THEOREM TypeKept == Spec => []TypeOK
<1>1. Spec => []TInv
      BY TypeInit, TypeStep, PTL DEF Spec
<1>2. QED
      BY <1>1, TypesAre, PTL

-----------------------------------------------------------------------------
(* One thread works for a side, and its steps leave the other side alone.  *)

Aside(s) ==
    \A u \in Side \ {s} :
       Work(u)' = Work(u) /\ Loaded(u)' = Loaded(u) /\ Out(u)' = Out(u) /\ (Sending(u)' <=> Sending(u))

\* Only the network thread has work.
LEMMA NetWorks ==
    ASSUME TInv, OneThread, ~DirectSends, NEW s \in Side, NEW t \in Thread, Encrypt(s, t) \/ ThreadStep(s, t)
    PROVE  t = "net"
BY DEF OneThread, Encrypt, ThreadStep, Store, RemovePreKey, Finish, Idle, Thread

\* A thread begins with some work, or goes on with it.
LEMMA BegunIs ==
    ASSUME TInv, OneThread, NEW s \in Side, NEW work, Begin(s, "net", work)
    PROVE  /\ Work(s)' = work /\ OneThread' /\ \A u \in Side \ {s} : job'[u] = job[u]
           /\ \A u \in Side, t \in Thread : job'[u][t] = IF u = s /\ t = "net" THEN work ELSE job[u][t]
<1>1. job \in [Side -> [Thread -> Job(1) \cup Job(2)]]
      BY DEF TInv, Jobs
<1>2. \A u \in Side, t \in Thread : job'[u][t] = IF u = s /\ t = "net" THEN work ELSE job[u][t]
      BY <1>1 DEF Begin
<1>3. \A u \in Side \ {s} : job'[u] = job[u]
      BY <1>1 DEF Begin
<1>4. QED
      BY <1>2, <1>3 DEF Work, OneThread, Thread

\* A side whose record, work and messages stay is aside.
LEMMA AsideIs ==
    ASSUME NEW s \in Side, \A u \in Side \ {s} : sess'[u] = sess[u] /\ job'[u] = job[u],
           \A u \in Side \ {s} : {m \in network' : m.by = u} = {m \in network : m.by = u}
    PROVE  Aside(s)
BY DEF Aside, Work, Loaded, Out, Sending

\* What is loaded is a record, what goes out a message.
LEMMA LoadedIs ==
    ASSUME TInv, NEW s \in Side
    PROVE  /\ Loaded(s) \subseteq Record(s) /\ Out(s) \subseteq Encrypted(s) /\ Work(s) \in Job(s)
           /\ (Sending(s) => Work(s).msg \in Encrypted(s))
           /\ (Receiving(s) => Work(s).msg \in Encrypted(Peer(s)) /\ Work(s).msg \in network)
<1>1. Work(s) \in Job(s)
      BY DEF TInv, Jobs, Work, Thread
<1>2. Loaded(s) \subseteq Record(s)
      BY <1>1, WorkIs DEF TInv, Records, Loaded
<1>3. Sending(s) => Work(s).msg \in Encrypted(s)
      BY <1>1, WorkIs DEF Sending, Sends
<1>4. \A m \in network : m.by = s => m \in Encrypted(s)
  <2>1. \A u \in Side : \A m \in Encrypted(u) : m.by = u
        BY DEF Encrypted, MessageOf
  <2>2. QED
        BY <2>1 DEF TInv, Messages, Side
<1>5. Receiving(s) => Work(s).msg \in Encrypted(Peer(s)) /\ Work(s).msg \in network
      BY <1>1, WorkIs DEF Receiving, Receives
<1>6. QED
      BY <1>1, <1>2, <1>3, <1>4, <1>5 DEF Out

\* The keys in use were generated.
LEMMA UsesIs ==
    ASSUME TInv, NEW s \in Side
    PROVE  /\ \A m \in Out(s) : m.eph \in 0..(nextKey - 1) /\ m.ctr \in Nat
           /\ \A r \in Loaded(s) : \A i \in DOMAIN r : r[i].us \in 0..(nextKey - 1) /\ r[i].n \in Nat
           /\ Uses(s) \subseteq 0..(nextKey - 1)
<1>1. \A m \in Out(s) : m.eph \in 0..(nextKey - 1) /\ m.ctr \in Nat
      BY LoadedIs DEF Encrypted, MessageOf
<1>2. ASSUME NEW r \in Loaded(s), NEW i \in DOMAIN r
      PROVE  r[i].us \in 0..(nextKey - 1) /\ r[i].n \in Nat
  <2>1. r \in Seq(StateOf(nextKey, Given(s)))
        BY LoadedIs DEF Record, RecordOf
  <2>2. r[i] \in StateOf(nextKey, Given(s))
        BY <2>1
  <2>3. QED
        BY <2>2 DEF StateOf
<1>3. QED
      BY <1>1, <1>2 DEF Uses

-----------------------------------------------------------------------------
(* Keys are used once.                                                     *)

\* Work begins: a state with a new key, or a state of the record, comes to the front.
LEMMA KeysBegin ==
    ASSUME TInv, KInv, NEW s \in Side, NEW work, work.rec \in Record(s)', NEW st, NEW i \in {0} \cup DOMAIN sess[s],
           Begin(s, "net", work), Work(s) = Idle, sess' = sess, network' = network,
           work.at = "store", Fronted(sess[s], work.rec, st, i), st.us \in Nat, st.n \in Nat,
           (st.us >= nextKey /\ work.kind # "send")
             \/ (i # 0 /\ st.us = sess[s][i].us /\ sess[s][i].n <= st.n),
           work.kind = "send" => /\ i = 1 /\ work.msg.eph = sess[s][1].us
                                 /\ work.msg.ctr = sess[s][1].n /\ st.n = sess[s][1].n + 1
    PROVE  KInv'
<1> DEFINE rec == sess[s]
           new == work.rec
<1>1. Work(s)' = work /\ OneThread' /\ \A u \in Side \ {s} : job'[u] = job[u]
      BY BegunIs DEF KInv
<1>2. Aside(s)
      BY <1>1, AsideIs
<1>3. Loaded(s) = {rec} /\ Loaded(s)' = {rec, new} /\ Out(s)' = Out(s)
      BY <1>1 DEF Loaded, Out, Sending, Idle
<1>4. /\ rec \in Seq(StateOf(nextKey, Given(s))) /\ \A x \in DOMAIN rec : rec[x].us \in 0..(nextKey - 1) /\ rec[x].n \in Nat
      BY <1>3, UsesIs DEF TInv, Records, Record, RecordOf
<1>5. /\ new \in Seq(StateOf(nextKey', Given(s)')) /\ DOMAIN new = 1..Len(new) /\ Len(new) \in Nat
  <2>1. new \in Seq(StateOf(nextKey', Given(s)'))
        BY DEF Record, RecordOf
  <2>2. QED
        BY <2>1
<1>6. \A m \in Out(s) : m.eph \in 0..(nextKey - 1) /\ m.ctr \in Nat
      BY UsesIs
<1>7. nextKey \in Nat
      BY DEF TInv, Counted
<1>8. \A j \in DOMAIN new : j = 1 \/ \E x \in DOMAIN rec : x # i /\ new[j] = rec[x]
  <2>1. rec \in Seq(StateOf(nextKey, Given(s))) /\ new \in Seq(StateOf(nextKey', Given(s)')) /\ Fronted(rec, new, st, i)
        /\ i \in {0} \cup DOMAIN rec
        BY <1>4, <1>5
  <2> HIDE DEF rec, new
  <2>2. QED
        BY <2>1, FrontedRest
<1>9. new[1] = st
      BY DEF Fronted
<1>10. \A x, y \in DOMAIN rec : rec[x].us = rec[y].us => x = y
       BY <1>3 DEF KInv, OwnChains
<1>11. OwnChains'
  <2>1. \A x, y \in DOMAIN new : new[x].us = new[y].us => x = y
    <3> DEFINE mark == [q \in StateOf(nextKey, Given(s)) \cup {st} |-> q.us]
    <3>1. \A x \in DOMAIN rec : mark[rec[x]] = rec[x].us
          BY <1>4
    <3>2. mark[st] = st.us
          OBVIOUS
    <3>3. \A x \in DOMAIN rec, y \in DOMAIN rec : mark[rec[x]] = mark[rec[y]] => x = y
          BY <1>10, <3>1, ZenonT(40)
    <3>4. \A x \in DOMAIN rec : mark[rec[x]] = mark[st] => x = i
          BY <1>4, <1>7, <1>10, <3>1, <3>2
    <3>5. \A x \in DOMAIN new : mark[new[x]] = new[x].us
          BY <1>8, <1>9, <3>1, <3>2
    <3> HIDE DEF mark
    <3>6. \A x, y \in DOMAIN new : mark[new[x]] = mark[new[y]] => x = y
      <4>1. rec \in Seq(StateOf(nextKey, Given(s))) /\ new \in Seq(StateOf(nextKey', Given(s)'))
            BY <1>4, <1>5
      <4>2. Fronted(rec, new, st, i) /\ i \in {0} \cup DOMAIN rec
            OBVIOUS
      <4> HIDE DEF new, rec
      <4>3. QED
            BY <3>3, <3>4, <4>1, <4>2, FrontedApart
    <3>7. QED
          BY <3>5, <3>6
  <2>2. QED
        BY <1>2, <1>3, <1>10, <2>1 DEF OwnChains, Aside, KInv
<1>12. OwnKeys'
  <2>1. Uses(s)' \subseteq Uses(s) \cup {st.us}
    <3>1. \A j \in DOMAIN new : new[j].us = st.us \/ \E x \in DOMAIN rec : new[j].us = rec[x].us
          BY <1>8, <1>9
    <3>2. QED
          BY <1>3, <3>1 DEF Uses
  <2>2. \A u \in Side \ {s} : Uses(u)' = Uses(u)
        BY <1>2 DEF Uses, Aside
  <2>3. st.us \in Uses(s) \/ st.us >= nextKey
        BY <1>3 DEF Uses
  <2>4. \A u \in Side \ {s} : Uses(u) \cap Uses(s) = {}
        BY DEF KInv, OwnKeys, Side
  <2>5. \A u \in Side \ {s} : st.us \notin Uses(u)
        BY <1>7, <2>3, <2>4, UsesIs
  <2>6. QED
        BY <2>1, <2>2, <2>4, <2>5 DEF OwnKeys, Side
<1>13. ChainsAhead'
  <2>1. \A m \in Out(s) : Ahead(rec, m)
        BY <1>3 DEF KInv, ChainsAhead
  <2>2. \A m \in Out(s) : Ahead(new, m)
    <3>1. ASSUME NEW m \in Out(s), m.eph = st.us PROVE m.ctr < st.n
      <4>1. i # 0 /\ st.us = sess[s][i].us /\ sess[s][i].n <= st.n
            BY <1>6, <1>7, <3>1
      <4>2. m.ctr < rec[i].n
            BY <2>1, <3>1, <4>1 DEF Ahead
      <4>3. rec[i].n \in Nat /\ m.ctr \in Nat
            BY <1>4, <1>6, <4>1
      <4>4. QED
            BY <4>1, <4>2, <4>3
    <3>2. QED
          BY <1>8, <1>9, <2>1, <3>1 DEF Ahead
  <2>3. ASSUME work.kind = "send"
        PROVE  /\ work.msg.eph \in {sess[s][x].us : x \in DOMAIN sess[s]} /\ Ahead(new, work.msg)
               /\ \A m \in Out(s) : m.eph = work.msg.eph => m.ctr < work.msg.ctr
    <3>1. /\ i = 1 /\ work.msg.eph = rec[1].us /\ work.msg.ctr = rec[1].n /\ st.n = rec[1].n + 1
          /\ 1 \in DOMAIN rec
          BY <1>4, <1>7, <2>3
    <3>2. Ahead(new, work.msg)
      <4>1. ASSUME NEW y \in DOMAIN new, y # 1 PROVE new[y].us # work.msg.eph
        <5>1. PICK x \in DOMAIN rec : x # 1 /\ new[y] = rec[x]
              BY <1>8, <3>1, <4>1
        <5>2. QED
              BY <1>10, <3>1, <5>1
      <4>2. work.msg.ctr < new[1].n
            BY <1>4, <1>9, <3>1
      <4>3. QED
            BY <4>1, <4>2 DEF Ahead
    <3>3. QED
          BY <2>1, <3>1, <3>2 DEF Ahead
  <2>4. Sending(s)' <=> work.kind = "send"
        BY <1>1 DEF Sending
  <2>5. ASSUME NEW u \in Side \ {s}
        PROVE  /\ \A r \in Loaded(u)', m \in Out(u)' : Ahead(r, m)
               /\ Sending(u)' /\ Work(u)'.at = "store" =>
                     /\ Work(u)'.msg.eph \in {sess'[u][x].us : x \in DOMAIN sess'[u]}
                     /\ Ahead(Work(u)'.rec, Work(u)'.msg)
                     /\ \A m \in Out(u)' : m.eph = Work(u)'.msg.eph => m.ctr < Work(u)'.msg.ctr
        BY <1>2 DEF Aside, KInv, ChainsAhead
  <2>6. /\ \A r \in Loaded(s)', m \in Out(s)' : Ahead(r, m)
        /\ Sending(s)' /\ Work(s)'.at = "store" =>
                     /\ Work(s)'.msg.eph \in {sess'[s][x].us : x \in DOMAIN sess'[s]}
                     /\ Ahead(Work(s)'.rec, Work(s)'.msg)
                     /\ \A m \in Out(s)' : m.eph = Work(s)'.msg.eph => m.ctr < Work(s)'.msg.ctr
        BY <1>1, <1>3, <2>1, <2>2, <2>3, <2>4
  <2>7. QED
        BY <2>5, <2>6 DEF ChainsAhead, Ahead
<1>14. NewKeys'
       BY <1>2, <1>3 DEF KInv, NewKeys, Aside
<1>15. QED
       BY <1>1, <1>11, <1>12, <1>13, <1>14 DEF KInv

\* Work is stored: a message that is sent has the chain's last key.
LEMMA KeysStore ==
    ASSUME TInv, TInv', KInv, NEW s \in Side, Store(s, "net")
    PROVE  KInv'
<1> DEFINE j == Work(s)
           at == IF j.pid = None THEN "finish" ELSE "remove"
<1>1. /\ Begin(s, "net", Going(j, at)) /\ sess' = [sess EXCEPT ![s] = j.rec] /\ network' = network
      /\ j.at = "store"
      BY DEF Store, Going, Work
<1>2. j \in Job(s)
      BY LoadedIs
<1>3. Going(j, at).at = at /\ Going(j, at).kind = j.kind /\ (j.kind \in {"send", "receive"} => Going(j, at).msg = j.msg)
      BY <1>1, <1>2, WorkGoes
<1>4. Work(s)' = Going(j, at) /\ OneThread' /\ \A u \in Side \ {s} : job'[u] = job[u]
      BY <1>1, BegunIs DEF KInv
<1>5. /\ sess'[s] = j.rec /\ \A u \in Side \ {s} : sess'[u] = sess[u]
      BY <1>1 DEF TInv, Records
<1>6. Aside(s)
      BY <1>1, <1>4, <1>5, AsideIs
<1>7. /\ Loaded(s) = {sess[s], j.rec} /\ Loaded(s)' = {j.rec} /\ Work(s)'.at # "store"
      BY <1>1, <1>3, <1>4, <1>5 DEF Loaded
<1>8. j.kind = "send" => j.pid = None
      BY <1>1, <1>2, WorkIs
<1>9. Sending(s)' /\ Work(s)'.at = "finish" <=> j.kind = "send"
      BY <1>3, <1>4, <1>8 DEF Sending
<1>10. Out(s) = {m \in network : m.by = s}
       BY <1>1 DEF Out
<1>11. Out(s)' = Out(s) \cup (IF j.kind = "send" THEN {j.msg} ELSE {})
       BY <1>1, <1>3, <1>4, <1>9, <1>10 DEF Out
<1>12. j.kind = "send" =>
          /\ j.msg.eph \in Uses(s) /\ Ahead(j.rec, j.msg)
          /\ \A m \in Out(s) : m.eph = j.msg.eph => m.ctr < j.msg.ctr
  <2> SUFFICES ASSUME j.kind = "send"
               PROVE  /\ j.msg.eph \in Uses(s) /\ Ahead(j.rec, j.msg)
                      /\ \A m \in Out(s) : m.eph = j.msg.eph => m.ctr < j.msg.ctr
      OBVIOUS
  <2>1. /\ j.msg.eph \in {sess[s][i].us : i \in DOMAIN sess[s]} /\ Ahead(j.rec, j.msg)
        /\ \A m \in Out(s) : m.eph = j.msg.eph => m.ctr < j.msg.ctr
        BY <1>1 DEF KInv, ChainsAhead, Sending
  <2>2. QED
        BY <1>7, <2>1 DEF Uses
<1>13. OwnKeys'
  <2>1. Uses(s)' \subseteq Uses(s)
        BY <1>7, <1>11, <1>12 DEF Uses
  <2>2. \A u \in Side \ {s} : Uses(u)' = Uses(u)
        BY <1>6 DEF Uses, Aside
  <2>3. QED
        BY <2>1, <2>2 DEF KInv, OwnKeys, Side
<1>14. OwnChains'
       BY <1>6, <1>7 DEF KInv, OwnChains, Aside
<1>15. ChainsAhead'
  <2>1. /\ \A r \in Loaded(s)', m \in Out(s)' : Ahead(r, m)
        /\ ~(Sending(s)' /\ Work(s)'.at = "store")
        BY <1>7, <1>11, <1>12 DEF KInv, ChainsAhead
  <2>2. ASSUME NEW u \in Side \ {s}
        PROVE  /\ \A r \in Loaded(u)', m \in Out(u)' : Ahead(r, m)
               /\ Sending(u)' /\ Work(u)'.at = "store" =>
                     /\ Work(u)'.msg.eph \in {sess'[u][x].us : x \in DOMAIN sess'[u]}
                     /\ Ahead(Work(u)'.rec, Work(u)'.msg)
                     /\ \A m \in Out(u)' : m.eph = Work(u)'.msg.eph => m.ctr < Work(u)'.msg.ctr
        BY <1>5, <1>6 DEF Aside, KInv, ChainsAhead
  <2>3. QED
        BY <2>1, <2>2 DEF ChainsAhead, Ahead
<1>16. NewKeys'
  <2>1. j.kind = "send" => j.msg.ctr \in Nat
        BY <1>1, LoadedIs DEF Sending, Encrypted, MessageOf
  <2>2. \A m, n \in Out(s)' : m.eph = n.eph /\ m.ctr = n.ctr => m = n
        BY <1>11, <1>12, <2>1, UsesIs DEF KInv, NewKeys
  <2>3. QED
        BY <1>6, <2>2 DEF KInv, NewKeys, Aside
<1>17. QED
       BY <1>4, <1>13, <1>14, <1>15, <1>16 DEF KInv

\* The rest of the work, and a crash, brings no new record and no new message.
LEMMA KeysKeep ==
    ASSUME KInv, NEW s \in Side, OneThread', Aside(s), \A u \in Side \ {s} : sess'[u] = sess[u],
           Loaded(s)' \subseteq Loaded(s), Out(s)' \subseteq Out(s), Work(s)'.at # "store"
    PROVE  KInv'
<1>1. \A u \in Side : Uses(u)' \subseteq Uses(u)
      BY DEF Uses, Aside
<1>2. OwnKeys'
      BY <1>1 DEF KInv, OwnKeys, Side
<1>3. OwnChains' /\ NewKeys'
      BY DEF KInv, OwnChains, NewKeys, Aside
<1>4. ChainsAhead'
  <2>1. ASSUME NEW u \in Side \ {s}
        PROVE  /\ \A r \in Loaded(u)', m \in Out(u)' : Ahead(r, m)
               /\ Sending(u)' /\ Work(u)'.at = "store" =>
                     /\ Work(u)'.msg.eph \in {sess'[u][x].us : x \in DOMAIN sess'[u]}
                     /\ Ahead(Work(u)'.rec, Work(u)'.msg)
                     /\ \A m \in Out(u)' : m.eph = Work(u)'.msg.eph => m.ctr < Work(u)'.msg.ctr
        BY DEF Aside, KInv, ChainsAhead
  <2>2. \A r \in Loaded(s)', m \in Out(s)' : Ahead(r, m)
        BY DEF KInv, ChainsAhead
  <2>3. QED
        BY <2>1, <2>2 DEF ChainsAhead, Ahead
<1>5. QED
      BY <1>2, <1>3, <1>4 DEF KInv

\* A thread that goes on after storing, or crashes, keeps its record and its message.
LEMMA RestIs ==
    ASSUME TInv, OneThread, NEW s \in Side,
           RemovePreKey(s, "net") \/ Finish(s, "net") \/ Crash(s)
    PROVE  /\ OneThread' /\ Aside(s) /\ sess' = sess /\ Work(s)'.at # "store"
           /\ Loaded(s)' \subseteq Loaded(s) /\ Out(s)' \subseteq Out(s)
           /\ \A u \in Side \ {s} : job'[u] = job[u]
<1> DEFINE j == Work(s)
<1>1. j \in Job(s) /\ job[s]["net"] = j
      BY LoadedIs DEF Work
<1>2. sess' = sess
      BY DEF RemovePreKey, Finish, Crash
<1>3. CASE RemovePreKey(s, "net")
  <2>1. Begin(s, "net", Going(j, "finish")) /\ network' = network /\ j.at = "remove"
        BY <1>1, <1>3 DEF RemovePreKey, Going
  <2>2. j.kind = "receive" /\ Going(j, "finish").at = "finish" /\ Going(j, "finish").kind = "receive"
        BY <1>1, <2>1, WorkIs, WorkGoes
  <2>3. Work(s)' = Going(j, "finish") /\ OneThread' /\ \A u \in Side \ {s} : job'[u] = job[u]
        BY <2>1, BegunIs
  <2>4. Loaded(s)' \subseteq Loaded(s) /\ Out(s)' \subseteq Out(s) /\ Work(s)'.at # "store"
        BY <1>2, <2>1, <2>2, <2>3 DEF Loaded, Out, Sending
  <2>5. QED
        BY <1>2, <2>1, <2>3, <2>4, AsideIs
<1>4. CASE Finish(s, "net")
  <2>1. /\ Begin(s, "net", Idle) /\ j.at = "finish"
        /\ network' = IF j.kind = "send" THEN network \cup {j.msg} ELSE network
        BY <1>1, <1>4 DEF Finish
  <2>2. Work(s)' = Idle /\ OneThread' /\ \A u \in Side \ {s} : job'[u] = job[u]
        BY <2>1, BegunIs
  <2>3. j.kind = "send" => j.msg.by = s /\ j.msg \in Out(s)
        BY <1>1, <2>1, LoadedIs DEF Sending, Out, Encrypted, MessageOf
  <2>4. \A u \in Side \ {s} : {m \in network' : m.by = u} = {m \in network : m.by = u}
        BY <2>1, <2>3
  <2>5. Loaded(s)' \subseteq Loaded(s) /\ Out(s)' \subseteq Out(s) /\ Work(s)'.at # "store"
        BY <1>2, <2>1, <2>2, <2>3 DEF Loaded, Out, Sending, Idle
  <2>6. QED
        BY <1>2, <2>2, <2>4, <2>5, AsideIs
<1>5. CASE Crash(s)
  <2>1. network' = network /\ job' = [job EXCEPT ![s] = [t \in Thread |-> Idle]]
        BY <1>5 DEF Crash
  <2>2. \A u \in Side : job'[u] = IF u = s THEN [t \in Thread |-> Idle] ELSE job[u]
        BY <2>1 DEF TInv, Jobs
  <2>3. Work(s)' = Idle /\ OneThread' /\ \A u \in Side \ {s} : job'[u] = job[u]
        BY <2>2 DEF Work, OneThread, Thread
  <2>4. Loaded(s)' \subseteq Loaded(s) /\ Out(s)' \subseteq Out(s) /\ Work(s)'.at # "store"
        BY <1>2, <2>1, <2>3 DEF Loaded, Out, Sending, Idle
  <2>5. QED
        BY <1>2, <2>1, <2>3, <2>4, AsideIs
<1>6. QED
      BY <1>3, <1>4, <1>5

\* Nothing was encrypted at first.
LEMMA KeysInit == Init => KInv
<1> SUFFICES ASSUME Init PROVE KInv
    OBVIOUS
<1>1. \A s \in Side : Work(s) = Idle /\ job[s]["app"] = Idle /\ sess[s] = <<>>
      BY DEF Init, Work, Thread
<1>2. \A s \in Side : Loaded(s) = {<<>>} /\ Out(s) = {} /\ ~Sending(s)
      BY <1>1 DEF Init, Loaded, Out, Sending, Idle
<1>3. \A s \in Side : Uses(s) = {}
      BY <1>2 DEF Uses
<1>4. QED
      BY <1>1, <1>2, <1>3 DEF KInv, OneThread, OwnKeys, OwnChains, ChainsAhead, NewKeys, Side

\* Every step keeps the chains ahead of the keys used.
LEMMA KeysStep == TInv /\ KInv /\ ~DirectSends /\ [Next]_vars => KInv'
<1> SUFFICES ASSUME TInv, KInv, ~DirectSends, [Next]_vars PROVE KInv'
    OBVIOUS
<1>1. TInv' /\ OneThread
      BY TypeStep DEF KInv
<1>2. ASSUME NEW s \in Side, ProcessBundle(s) PROVE KInv'
  <2> DEFINE st == BundleState(s)
             new == Archive(sess[s], st)
             work == [at |-> "store", kind |-> "session", pid |-> None, rec |-> new]
  <2>1. /\ new \in Record(s)' /\ Fronted(sess[s], new, st, 0) /\ st.us = nextKey + 1 /\ Begin(s, "net", work)
        BY <1>2, BundleIs
  <2>2. st.n = 0
        BY DEF BundleState, AliceState
  <2> HIDE DEF st, new
  <2>3. Work(s) = Idle /\ sess' = sess /\ network' = network /\ nextKey \in Nat
        BY <1>2 DEF ProcessBundle, Work, TInv, Counted
  <2>4. QED
        BY <2>1, <2>2, <2>3, KeysBegin
<1>3. ASSUME NEW s \in Side, NEW t \in Thread, Encrypt(s, t) PROVE KInv'
  <2> DEFINE first == sess[s][1]
             st == [first EXCEPT !.n = @ + 1]
             new == [sess[s] EXCEPT ![1].n = @ + 1]
             m == Message(s, first)
             work == [at |-> "store", kind |-> "send", pid |-> None, rec |-> new, msg |-> m]
  <2>1. t = "net"
        BY <1>1, <1>3, NetWorks
  <2>2. /\ sess[s] # <<>> /\ first \in StateOf(nextKey, Given(s))
        /\ new \in Record(s)' /\ Fronted(sess[s], new, st, 1) /\ Begin(s, "net", work)
        BY <1>3, <2>1, EncryptIs
  <2>3. /\ st.us = first.us /\ st.n = first.n + 1 /\ first.us \in Nat /\ first.n \in Nat
        BY <2>2 DEF StateOf
  <2>4. m.eph = first.us /\ m.ctr = first.n
        BY DEF Message
  <2> HIDE DEF st, new, m
  <2>5. Work(s) = Idle /\ sess' = sess /\ network' = network /\ sess[s] \in Seq(StateOf(nextKey, Given(s)))
        BY <1>3, <2>1 DEF Encrypt, Work, TInv, Records, Record, RecordOf
  <2>6. 1 \in DOMAIN sess[s] /\ first.n <= st.n
        BY <2>2, <2>3, <2>5
  <2>7. QED
        BY <2>2, <2>3, <2>4, <2>5, <2>6, KeysBegin
<1>4. ASSUME NEW s \in Side, NEW m \in network, Decrypt(s, m) PROVE KInv'
  <2>1. PICK new, st, i, pid :
           /\ Decrypted(s, m, new, st, i, pid)
           /\ (i = 0 /\ NewSession(s, m, st, pid)) \/ OldSession(s, m, st, i, pid)
        BY <1>4, DecryptIs
  <2> DEFINE work == [at |-> "store", kind |-> "receive", msg |-> m, pid |-> pid, rec |-> new]
  <2>2. /\ Begin(s, "net", work) /\ new \in Record(s)' /\ i \in {0} \cup DOMAIN sess[s]
        /\ Fronted(sess[s], new, st, i) /\ st.us \in Nat /\ st.n \in Nat
        BY <2>1 DEF Decrypted, StateOf
  <2>3. Work(s) = Idle /\ sess' = sess /\ network' = network /\ nextKey \in Nat
        BY <1>4 DEF Decrypt, Work, TInv, Counted
  <2>4. st.us = nextKey \/ (i # 0 /\ st.us = sess[s][i].us /\ st.n = sess[s][i].n)
        BY <2>1 DEF NewSession, OldSession
  <2>5. QED
        BY <2>2, <2>3, <2>4, KeysBegin
<1>5. ASSUME NEW s \in Side, NEW t \in Thread, ThreadStep(s, t) PROVE KInv'
  <2>1. t = "net"
        BY <1>1, <1>5, NetWorks
  <2>2. CASE Store(s, "net")
        BY <1>1, <2>2, KeysStore
  <2>3. CASE RemovePreKey(s, "net") \/ Finish(s, "net")
        BY <1>1, <2>3, RestIs, KeysKeep
  <2>4. QED
        BY <1>5, <2>1, <2>2, <2>3 DEF ThreadStep
<1>6. ASSUME NEW s \in Side, Crash(s) PROVE KInv'
      BY <1>1, <1>6, RestIs, KeysKeep
<1>7. CASE UNCHANGED vars
  <2>1. /\ \A s \in Side : Work(s)' = Work(s) /\ Loaded(s)' = Loaded(s) /\ Out(s)' = Out(s) /\ (Sending(s)' <=> Sending(s))
        /\ sess' = sess /\ OneThread'
        BY <1>1, <1>7 DEF vars, local, counters, OneThread, Loaded, Out, Sending, Work
  <2>2. OwnKeys' /\ OwnChains' /\ NewKeys'
    <3>1. \A s \in Side : Uses(s)' = Uses(s)
          BY <2>1 DEF Uses
    <3>2. OwnKeys'
          BY <3>1 DEF KInv, OwnKeys, Side
    <3>3. OwnChains' /\ NewKeys'
          BY <2>1 DEF KInv, OwnChains, NewKeys
    <3>4. QED
          BY <3>2, <3>3
  <2>3. ChainsAhead'
        BY <2>1 DEF KInv, ChainsAhead, Ahead
  <2>4. QED
        BY <2>1, <2>2, <2>3 DEF KInv
<1>8. QED
      BY <1>2, <1>3, <1>4, <1>5, <1>6, <1>7 DEF Next

\* Two messages under one key would be one side's, and its chain went ahead of the first.
LEMMA KeysAre == TInv /\ KInv => KeysUsedOnce
<1> SUFFICES ASSUME TInv, KInv, NEW m \in network, NEW n \in network, m.eph = n.eph, m.ctr = n.ctr
             PROVE  m = n
    BY DEF KeysUsedOnce
<1>1. m.by \in Side /\ n.by \in Side
      BY DEF TInv, Messages, Encrypted, MessageOf, Side
<1>2. m \in Out(m.by) /\ n \in Out(n.by)
      BY DEF Out
<1>3. m.eph \in Uses(m.by) /\ n.eph \in Uses(n.by)
      BY <1>2 DEF Uses
<1>4. m.by = n.by
      BY <1>1, <1>3 DEF KInv, OwnKeys, Side
<1>5. QED
      BY <1>1, <1>2, <1>4 DEF KInv, NewKeys

\* Where one thread encrypts and decrypts, a message key encrypts one message,
\* through any ratchets, sessions, repeats and crashes.
THEOREM KeysOnce == ~DirectSends => (Spec => []KeysUsedOnce)
<1> SUFFICES ASSUME ~DirectSends PROVE Spec => []KeysUsedOnce
    OBVIOUS
<1>1. Init => TInv /\ KInv
      BY TypeInit, KeysInit
<1>2. TInv /\ KInv /\ [Next]_vars => (TInv /\ KInv)'
      BY TypeStep, KeysStep
<1>3. Spec => [](TInv /\ KInv)
      BY <1>1, <1>2, PTL DEF Spec
<1>4. QED
      BY <1>3, KeysAre, PTL

-----------------------------------------------------------------------------
(* At most once: how work starts.                                          *)

\* A base is in a record, in a message on its way, or in one about to be.
LEMMA GatheredAre ==
    ASSUME NEW R, NEW M, NEW s, NEW P, NEW b
    PROVE  b \in Gathered(R, M, s, P) <=>
              \/ \E r \in R : b \in Bases(r)
              \/ \E m \in M : m.by = s /\ m.base = b
              \/ b \in P
<1> DEFINE A == UNION {Bases(r) : r \in R}
           B == {m.base : m \in {n \in M : n.by = s}}
<1>1. b \in A <=> \E r \in R : b \in Bases(r)
      OBVIOUS
<1>2. b \in B <=> \E m \in M : m.by = s /\ m.base = b
      OBVIOUS
<1>3. b \in Gathered(R, M, s, P) <=> b \in A \/ b \in B \/ b \in P
      BY DEF Gathered
<1> HIDE DEF A, B
<1>4. QED
      BY <1>1, <1>2, <1>3

\* So are a base and its pre-key, while the session is not acknowledged.
LEMMA GreetingsAre ==
    ASSUME NEW R, NEW M, NEW s, NEW P, NEW h
    PROVE  h \in Greetings(R, M, s, P) <=>
              \/ \E m \in M : m.by = s /\ m.pk /\ h = Greeting(m)
              \/ \E m \in P : m.pk /\ h = Greeting(m)
              \/ \E r \in R : \E i \in DOMAIN r : r[i].pk /\ h = Greeting(r[i])
<1> DEFINE A == {Greeting(m) : m \in {n \in M : n.by = s /\ n.pk} \cup {n \in P : n.pk}}
           C(r) == {Greeting(r[i]) : i \in {j \in DOMAIN r : r[j].pk}}
           B == UNION {C(r) : r \in R}
<1>1. h \in A <=> (\E m \in M : m.by = s /\ m.pk /\ h = Greeting(m)) \/ \E m \in P : m.pk /\ h = Greeting(m)
      OBVIOUS
<1>2. \A r : h \in C(r) <=> \E i \in DOMAIN r : r[i].pk /\ h = Greeting(r[i])
      OBVIOUS
<1>3. h \in B <=> \E r \in R : h \in C(r)
      OBVIOUS
<1>4. Greetings(R, M, s, P) = A \cup B
      BY DEF Greetings
<1> HIDE DEF A, B, C
<1>5. QED
      BY <1>1, <1>2, <1>3, <1>4

Enough == ~DirectSends /\ (RoomForAll \/ NoCrash)

\* What a side took was encrypted by its peer and is in the network.
LEMMA TakenIs ==
    ASSUME TInv, NEW s \in Side
    PROVE  /\ Taken(s) \subseteq network /\ Taken(s) \subseteq Encrypted(Peer(s))
           /\ \A m \in Taken(s) : m.base \in 0..(nextKey - 1) /\ m.with \in 0..(nextKey - 1) /\ m.ctr \in Nat
<1>1. \A m \in network : m.by = Peer(s) => m \in Encrypted(Peer(s))
      BY LoadedIs, SideIs DEF Out
<1>2. Taken(s) \subseteq network /\ Taken(s) \subseteq Encrypted(Peer(s))
      BY <1>1, LoadedIs DEF Taken
<1>3. QED
      BY <1>2 DEF Encrypted, MessageOf

\* A state that is shut to a message does not open it.
LEMMA ShutStaysShut ==
    ASSUME NEW k \in Nat, NEW P, NEW st \in StateOf(k, P), NEW m, m.eph \in 0..(k - 1), Opens(st, m)
    PROVE  ~Shut(st, m)
<1> SUFFICES ASSUME Shut(st, m) PROVE FALSE
    OBVIOUS
<1> DEFINE c == Chain(st, m.eph)
<1>1. /\ c.eph = m.eph
      /\ HasChain(st, m.eph) <=> \E x \in DOMAIN st.chains : st.chains[x].eph = m.eph
      /\ HasChain(st, m.eph) => \E x \in DOMAIN st.chains : st.chains[x] = c
      /\ ~HasChain(st, m.eph) => c.with = st.us
      BY ChainIs
<1>2. (m.ctr < c.next => m.ctr \in c.saved) /\ m.base = st.base /\ m.with = c.with
      BY DEF Opens
<1>3. /\ \A x \in DOMAIN st.chains : st.chains[x].eph = m.eph /\ st.chains[x].with = m.with =>
             m.ctr < st.chains[x].next /\ m.ctr \notin st.chains[x].saved
      /\ (\A x \in DOMAIN st.chains : st.chains[x].eph # m.eph) => st.us # m.with
      BY <1>2 DEF Shut
<1> HIDE DEF c
<1>4. QED
      BY <1>1, <1>2, <1>3

\* Work starts with a state at the front that is new (i = 0) or was the i-th: what was taken
\* stays shut, and a message that is received was not taken.
Leads(s, st, i) ==
    \/ /\ i = 0 /\ \A x \in DOMAIN sess[s] : sess[s][x].base # st.base
       /\ \A o \in Taken(s) : o.base # st.base
    \/ /\ i # 0 /\ st.base = sess[s][i].base
       /\ \A o \in Taken(s) : Shut(sess[s][i], o) => Shut(st, o)
Starts(s, work, st, i) ==
    /\ work.at = "store" /\ work.rec \in Record(s)' /\ i \in {0} \cup DOMAIN sess[s]
    /\ Fronted(sess[s], work.rec, st, i) /\ Leads(s, st, i)
    /\ Begin(s, "net", work) /\ Work(s) = Idle /\ UNCHANGED <<sess, preKeys, network, got>>
StartsSession(s, work, st, i) ==
    /\ work.kind = "session" /\ i = 0 /\ st.base = nextKey /\ inits < MaxInit /\ inits' = inits + 1
    /\ stock' = [stock EXCEPT ![Peer(s)] = @ \ {st.pid}] /\ (stock[Peer(s)] # {} => st.pid \in stock[Peer(s)])
StartsSend(s, work, st, i) ==
    /\ work.kind = "send" /\ i = 1 /\ inits' = inits /\ stock' = stock
    /\ sess[s] # <<>> /\ work.msg.id = nextId /\ work.msg.base = st.base
    /\ work.msg.pk = st.pk /\ work.msg.pid = st.pid
    /\ st.pk = sess[s][1].pk /\ st.pid = sess[s][1].pid
StartsReceive(s, work, st, i) ==
    /\ work.kind = "receive" /\ inits' = inits /\ stock' = stock
    /\ work.msg \in network /\ work.msg.by = Peer(s) /\ got[work.msg.id] = 0
    /\ st.base = work.msg.base /\ Shut(st, work.msg) /\ ~st.pk
    /\ i = 0 => /\ work.msg.pk /\ work.pid = work.msg.pid /\ Reads(BobState(s, work.msg.base), work.msg, st)
                /\ \A x \in DOMAIN sess[s] : sess[s][x].base # work.msg.base
    /\ i # 0 => work.pid = None /\ Reads(sess[s][i], work.msg, st)

\* A bundle's session has a new base.
LEMMA StartsBundle ==
    ASSUME TInv, NEW s \in Side, ProcessBundle(s)
    PROVE  LET st == BundleState(s)
               work == [at |-> "store", kind |-> "session", pid |-> None, rec |-> Archive(sess[s], st)] IN
           Starts(s, work, st, 0) /\ StartsSession(s, work, st, 0)
<1> DEFINE st == BundleState(s)
           new == Archive(sess[s], st)
           work == [at |-> "store", kind |-> "session", pid |-> None, rec |-> new]
<1>1. /\ new \in Record(s)' /\ Fronted(sess[s], new, st, 0) /\ st.base = nextKey /\ Begin(s, "net", work)
      /\ stock' = [stock EXCEPT ![Peer(s)] = @ \ {st.pid}] /\ (stock[Peer(s)] # {} => st.pid \in stock[Peer(s)])
      BY BundleIs
<1> HIDE DEF st, new
<1>2. \A x \in DOMAIN sess[s] : sess[s][x].base \in 0..(nextKey - 1)
  <2>1. sess[s] \in Seq(StateOf(nextKey, Given(s)))
        BY DEF TInv, Records, Record, RecordOf
  <2>2. \A x \in DOMAIN sess[s] : sess[s][x] \in StateOf(nextKey, Given(s))
        BY <2>1
  <2>3. QED
        BY <2>2 DEF StateOf
<1>3. nextKey \in Nat /\ \A k \in 0..(nextKey - 1) : k # nextKey
      BY DEF TInv, Counted
<1>4. Leads(s, st, 0)
      BY <1>1, <1>2, <1>3, TakenIs DEF Leads
<1>5. /\ Work(s) = Idle /\ UNCHANGED <<sess, preKeys, network, got>> /\ inits < MaxInit /\ inits' = inits + 1
      BY DEF ProcessBundle, Work
<1>6. QED
      BY <1>1, <1>4, <1>5 DEF Starts, StartsSession, new, st

\* Encrypting changes the first state's counter only.
LEMMA StartsEncrypt ==
    ASSUME TInv, NEW s \in Side, Encrypt(s, "net")
    PROVE  LET first == sess[s][1]
               st == [first EXCEPT !.n = @ + 1]
               new == [sess[s] EXCEPT ![1].n = @ + 1]
               work == [at |-> "store", kind |-> "send", pid |-> None, rec |-> new, msg |-> Message(s, first)] IN
           Starts(s, work, st, 1) /\ StartsSend(s, work, st, 1)
<1> DEFINE first == sess[s][1]
           st == [first EXCEPT !.n = @ + 1]
           new == [sess[s] EXCEPT ![1].n = @ + 1]
           m == Message(s, first)
           work == [at |-> "store", kind |-> "send", pid |-> None, rec |-> new, msg |-> m]
<1>1. /\ sess[s] # <<>> /\ first \in StateOf(nextKey, Given(s))
      /\ new \in Record(s)' /\ Fronted(sess[s], new, st, 1) /\ Begin(s, "net", work)
      BY EncryptIs DEF Thread
<1>2. /\ st.base = first.base /\ st.us = first.us /\ st.pk = first.pk /\ st.pid = first.pid /\ st.chains = first.chains
      BY <1>1 DEF StateOf
<1>3. m.id = nextId /\ m.base = first.base /\ m.pk = first.pk /\ m.pid = first.pid
      BY DEF Message
<1> HIDE DEF st, new, m
<1>4. 1 \in DOMAIN sess[s]
  <2>1. sess[s] \in Seq(StateOf(nextKey, Given(s)))
        BY DEF TInv, Records, Record, RecordOf
  <2>2. QED
        BY <1>1, <2>1
<1>5. Leads(s, st, 1)
      BY <1>2 DEF Leads, Shut
<1>6. /\ Work(s) = Idle /\ UNCHANGED <<sess, preKeys, network, got, stock, inits>>
      BY DEF Encrypt, Work
<1>7. Starts(s, work, st, 1)
      BY <1>1, <1>4, <1>5, <1>6 DEF Starts
<1>8. StartsSend(s, work, st, 1)
      BY <1>1, <1>2, <1>3, <1>6 DEF StartsSend
<1>9. QED
      BY <1>7, <1>8 DEF new, st, m

\* What is decrypted was not taken before: a state of the record would be shut to it, and for
\* a new session there would be one of its base, or its pre-key would be gone.
LEMMA StartsDecrypt ==
    ASSUME TInv, DInv, Enough, NEW s \in Side, NEW m \in network, Decrypt(s, m)
    PROVE  \E work, st, i : Starts(s, work, st, i) /\ StartsReceive(s, work, st, i)
<1>1. PICK new, st, i, pid :
         /\ Decrypted(s, m, new, st, i, pid)
         /\ (i = 0 /\ NewSession(s, m, st, pid)) \/ OldSession(s, m, st, i, pid)
      BY DecryptIs
<1> DEFINE work == [at |-> "store", kind |-> "receive", msg |-> m, pid |-> pid, rec |-> new]
<1>2. /\ Work(s) = Idle /\ UNCHANGED <<sess, preKeys, network, got, stock, inits>> /\ m.by = Peer(s)
      BY DEF Decrypt, Work
<1>3. /\ new \in Record(s)' /\ i \in {0} \cup DOMAIN sess[s] /\ Fronted(sess[s], new, st, i)
      /\ ~st.pk /\ st.base = m.base /\ Shut(st, m) /\ Begin(s, "net", work)
      BY <1>1 DEF Decrypted
<1>4. got[m.id] \in {0, 1} /\ (got[m.id] = 1 => m \in Taken(s))
  <2>1. m \in Encrypted(Peer(s))
        BY DecryptIs
  <2>2. m.id \in Id
    <3>1. 1..(nextId - 1) \subseteq Id
          BY Bounds DEF Id, TInv, Counted
    <3>2. QED
          BY <2>1, <3>1 DEF Encrypted, MessageOf
  <2>3. QED
        BY <1>2, <2>2 DEF DInv, GotOnce, Taken
<1>5. CASE i = 0 /\ NewSession(s, m, st, pid)
  <2>1. /\ m.pk /\ pid = m.pid /\ (pid # None => pid \in preKeys[s])
        /\ \A x \in DOMAIN sess[s] : sess[s][x].base # m.base
        /\ Reads(BobState(s, m.base), m, st)
        BY <1>5 DEF NewSession
  <2>2. ASSUME NEW o \in Taken(s), o.base = m.base PROVE FALSE
    <3>1. CASE RoomForAll
      <4>1. o.base \in Bases(sess[s])
            BY <3>1 DEF DInv, SInv, Stays
      <4>2. QED
            BY <2>1, <2>2, <4>1 DEF Bases
    <3>2. CASE NoCrash
      <4>1. <<m.base, m.pid>> \in Hellos(Peer(s))
            BY <1>2, <2>1, GreetingsAre DEF Hellos, Greeting
      <4>2. Spent(s, m.pid)
            BY <2>2, <3>2, <4>1 DEF DInv, SInv, SpentKeys
      <4>3. QED
            BY <1>2, <2>1, <4>2 DEF Spent, Idle
    <3>3. QED
          BY <3>1, <3>2 DEF Enough
  <2>3. got[m.id] = 0
        BY <1>4, <2>2
  <2>4. Leads(s, st, i)
        BY <1>3, <1>5, <2>1, <2>2 DEF Leads
  <2>5. Starts(s, work, st, i)
        BY <1>2, <1>3, <2>4 DEF Starts
  <2>6. StartsReceive(s, work, st, i)
        BY <1>2, <1>3, <1>5, <2>1, <2>3 DEF StartsReceive
  <2>7. QED
        BY <2>5, <2>6
<1>6. CASE OldSession(s, m, st, i, pid)
  <2>1. /\ i # 0 /\ pid = None /\ Opens(sess[s][i], m) /\ Reads(sess[s][i], m, st) /\ st.base = sess[s][i].base
        /\ \A o : o.with \in 0..(nextKey - 1) /\ o.ctr \in Nat /\ Shut(sess[s][i], o) => Shut(st, o)
        BY <1>6 DEF OldSession
  <2>2. got[m.id] = 0
    <3> SUFFICES ASSUME got[m.id] = 1 PROVE FALSE
        BY <1>4
    <3>1. i \in DOMAIN sess[s] /\ Shut(sess[s][i], m)
          BY <1>3, <1>4, <2>1 DEF DInv, TakenShut, Loaded
    <3>2. sess[s] \in Seq(StateOf(nextKey, Given(s))) /\ nextKey \in Nat
          BY DEF TInv, Counted, Records, Record, RecordOf
    <3>3. sess[s][i] \in StateOf(nextKey, Given(s))
          BY <3>1, <3>2
    <3>4. m.eph \in 0..(nextKey - 1)
          BY DecryptIs DEF Encrypted, MessageOf
    <3>5. QED
          BY <2>1, <3>1, <3>2, <3>3, <3>4, ShutStaysShut
  <2>3. Leads(s, st, i)
        BY <2>1, TakenIs DEF Leads
  <2>4. Starts(s, work, st, i)
        BY <1>2, <1>3, <2>3 DEF Starts
  <2>5. StartsReceive(s, work, st, i)
        BY <1>2, <1>3, <2>1, <2>2 DEF StartsReceive
  <2>6. QED
        BY <2>4, <2>5
<1>7. QED
      BY <1>1, <1>5, <1>6

\* What starting work changes.
LEMMA StartIs ==
    ASSUME TInv, KInv, NEW s \in Side, NEW work, NEW st, NEW i, Starts(s, work, st, i)
    PROVE  /\ Work(s)' = work /\ Loaded(s) = {sess[s]} /\ Loaded(s)' = {sess[s], work.rec}
           /\ (Sending(s)' <=> work.kind = "send") /\ (Receiving(s)' <=> work.kind = "receive")
           /\ ~Sending(s) /\ ~Receiving(s) /\ Aside(s)
           /\ \A u \in Side \ {s} : Receiving(u)' <=> Receiving(u)
           /\ \A u \in Side : Taken(u)' = Taken(u)
<1>1. Begin(s, "net", work) /\ Work(s) = Idle /\ UNCHANGED <<sess, preKeys, network, got>> /\ work.at = "store"
      BY DEF Starts
<1>2. Work(s)' = work /\ \A u \in Side \ {s} : job'[u] = job[u]
      BY <1>1, BegunIs DEF KInv
<1>3. /\ Loaded(s) = {sess[s]} /\ Loaded(s)' = {sess[s], work.rec}
      /\ (Sending(s)' <=> work.kind = "send") /\ (Receiving(s)' <=> work.kind = "receive")
      /\ ~Sending(s) /\ ~Receiving(s)
      BY <1>1, <1>2 DEF Loaded, Sending, Receiving, Idle
<1>4. Aside(s) /\ \A u \in Side \ {s} : Work(u)' = Work(u) /\ (Receiving(u)' <=> Receiving(u))
      BY <1>1, <1>2, AsideIs DEF Receiving, Work
<1>5. \A u \in Side : Taken(u)' = Taken(u)
      BY <1>1, <1>2, <1>3, <1>4 DEF Taken
<1>6. QED
      BY <1>2, <1>3, <1>4, <1>5

\* The record that work starts with.
LEMMA StartRecord ==
    ASSUME TInv, NEW s \in Side, NEW work, NEW st, NEW i, Starts(s, work, st, i)
    PROVE  /\ sess[s] \in Seq(StateOf(nextKey, Given(s))) /\ work.rec \in Seq(StateOf(nextKey', Given(s)'))
           /\ i \in {0} \cup DOMAIN sess[s] /\ Fronted(sess[s], work.rec, st, i) /\ work.rec[1] = st
           /\ 1 \in DOMAIN work.rec
           /\ \A j \in DOMAIN work.rec : j = 1 \/ \E x \in DOMAIN sess[s] : x # i /\ work.rec[j] = sess[s][x]
<1>1. /\ sess[s] \in Seq(StateOf(nextKey, Given(s))) /\ work.rec \in Seq(StateOf(nextKey', Given(s)'))
      /\ i \in {0} \cup DOMAIN sess[s] /\ Fronted(sess[s], work.rec, st, i)
      BY DEF TInv, Records, Record, RecordOf, Starts
<1>2. /\ work.rec[1] = st
      /\ \A j \in DOMAIN work.rec : j = 1 \/ \E x \in DOMAIN sess[s] : x # i /\ work.rec[j] = sess[s][x]
      BY <1>1, FrontedRest
<1>3. 1 \in DOMAIN work.rec
  <2>1. Len(work.rec) \in Nat /\ Len(sess[s]) \in Nat /\ DOMAIN work.rec = 1..Len(work.rec) /\ DOMAIN sess[s] = 1..Len(sess[s])
        BY <1>1
  <2>2. Len(work.rec) = IF i # 0 \/ Len(sess[s]) = MaxArchived + 1 THEN Len(sess[s]) ELSE Len(sess[s]) + 1
        BY <1>1 DEF Fronted
  <2>3. QED
        BY <1>1, <2>1, <2>2, Bounds
<1>4. QED
      BY <1>1, <1>2, <1>3

\* Message ids stay apart, and only what was not handed on is received.
LEMMA StartIds ==
    ASSUME TInv, KInv, DInv, NEW s \in Side, NEW work, NEW st, NEW i, Starts(s, work, st, i),
           work.kind = "send" => work.msg.id = nextId,
           work.kind = "receive" => got[work.msg.id] = 0
    PROVE  IdsOnce' /\ GotOnce'
<1>1. /\ Work(s)' = work /\ (Sending(s)' <=> work.kind = "send") /\ (Receiving(s)' <=> work.kind = "receive")
      /\ \A u \in Side \ {s} : Work(u)' = Work(u) /\ (Sending(u)' <=> Sending(u)) /\ (Receiving(u)' <=> Receiving(u))
      BY StartIs DEF Aside
<1>2. network' = network /\ got' = got
      BY DEF Starts
<1>3. /\ \A m \in network : m.id \in 1..(nextId - 1)
      /\ \A u \in Side : Sending(u) => Work(u).msg.id \in 1..(nextId - 1)
      BY LoadedIs DEF TInv, Messages, Encrypted, MessageOf
<1>4. nextId \in Nat /\ \A k \in 1..(nextId - 1) : k # nextId
      BY DEF TInv, Counted
<1>5. IdsOnce'
  <2>1. \A u \in Side : Sending(u)' => \A m \in network' : m.id # Work(u)'.msg.id
        BY <1>1, <1>2, <1>3, <1>4 DEF DInv, IdsOnce
  <2>2. \A u \in Side : Sending(u)' => (Sending(Peer(u))' => Work(u)'.msg.id # Work(Peer(u))'.msg.id)
    <3>1. Sending(s)' => (Sending(Peer(s))' => Work(s)'.msg.id # Work(Peer(s))'.msg.id)
          BY <1>1, <1>3, <1>4, SideIs
    <3>2. \A u \in Side \ {s} : u = Peer(s) /\ Peer(u) = s
          BY DEF Side, Peer
    <3>3. QED
          BY <3>1, <3>2
  <2>3. \A m, n \in network' : m.id = n.id => m = n
        BY <1>2 DEF DInv, IdsOnce
  <2>4. QED
        BY <2>1, <2>2, <2>3 DEF IdsOnce
<1>6. GotOnce'
      BY <1>1, <1>2 DEF DInv, GotOnce
<1>7. QED
      BY <1>5, <1>6

\* What was taken stays shut, and bases stay apart.
LEMMA StartShut ==
    ASSUME TInv, KInv, DInv, NEW s \in Side, NEW work, NEW st, NEW i, Starts(s, work, st, i),
           work.kind = "receive" => st.base = work.msg.base /\ Shut(st, work.msg)
    PROVE  TakenShut' /\ OneBase'
<1> DEFINE rec == sess[s]
           new == work.rec
<1>1. /\ Work(s)' = work /\ (Receiving(s)' <=> work.kind = "receive") /\ work.at = "store"
      /\ \A u \in Side \ {s} : Work(u)' = Work(u) /\ Loaded(u)' = Loaded(u) /\ (Receiving(u)' <=> Receiving(u))
      /\ Loaded(s) = {rec} /\ Loaded(s)' = {rec, new} /\ \A u \in Side : Taken(u)' = Taken(u)
      BY StartIs DEF Aside, Starts
<1>2. /\ rec \in Seq(StateOf(nextKey, Given(s))) /\ new \in Seq(StateOf(nextKey', Given(s)'))
      /\ i \in {0} \cup DOMAIN rec /\ Fronted(rec, new, st, i)
      /\ new[1] = st /\ 1 \in DOMAIN new
      /\ \A j \in DOMAIN new : j = 1 \/ \E x \in DOMAIN rec : x # i /\ new[j] = rec[x]
      BY StartRecord
<1>3. \/ i = 0 /\ (\A x \in DOMAIN rec : rec[x].base # st.base) /\ (\A o \in Taken(s) : o.base # st.base)
      \/ i # 0 /\ st.base = rec[i].base /\ (\A o \in Taken(s) : Shut(rec[i], o) => Shut(st, o))
      BY DEF Starts, Leads
<1>4. \A x, y \in DOMAIN rec : rec[x].base = rec[y].base => x = y
      BY <1>1 DEF DInv, OneBase
<1>5. \A m \in Taken(s), x \in DOMAIN rec : Shut(rec[x], m)
      BY <1>1 DEF DInv, TakenShut
<1> HIDE DEF rec, new
<1>6. \A x \in DOMAIN rec : x # i => rec[x].base # st.base
      BY <1>2, <1>3, <1>4
<1>7. \A m \in Taken(s) : Shut(st, m)
      BY <1>2, <1>3, <1>5 DEF Shut
<1>8. TakenShut'
  <2>1. \A m \in Taken(s), j \in DOMAIN new : Shut(new[j], m)
        BY <1>2, <1>5, <1>7
  <2>2. ASSUME work.kind = "receive", NEW j \in DOMAIN new PROVE Shut(new[j], work.msg)
        BY <1>2, <1>6, <2>2 DEF Shut
  <2>3. /\ \A m \in Taken(s)', r \in Loaded(s)' : \A x \in DOMAIN r : Shut(r[x], m)
        /\ Receiving(s)' /\ Work(s)'.at = "store" => \A x \in DOMAIN Work(s)'.rec : Shut(Work(s)'.rec[x], Work(s)'.msg)
        BY <1>1, <1>5, <2>1, <2>2 DEF new
  <2>4. ASSUME NEW u \in Side \ {s}
        PROVE  /\ \A m \in Taken(u)', r \in Loaded(u)' : \A x \in DOMAIN r : Shut(r[x], m)
               /\ Receiving(u)' /\ Work(u)'.at = "store" => \A x \in DOMAIN Work(u)'.rec : Shut(Work(u)'.rec[x], Work(u)'.msg)
        BY <1>1 DEF DInv, TakenShut
  <2>5. QED
        BY <2>3, <2>4 DEF TakenShut, Shut
<1>9. OneBase'
  <2>1. \A x, y \in DOMAIN new : new[x].base = new[y].base => x = y
    <3> DEFINE mark == [q \in StateOf(nextKey, Given(s)) \cup {st} |-> q.base]
    <3>1. \A x \in DOMAIN rec : mark[rec[x]] = rec[x].base
          BY <1>2
    <3>2. mark[st] = st.base
          OBVIOUS
    <3>3. \A x \in DOMAIN new : mark[new[x]] = new[x].base
          BY <1>2, <3>1, <3>2
    <3> HIDE DEF mark
    <3>4. /\ \A x \in DOMAIN rec, y \in DOMAIN rec : mark[rec[x]] = mark[rec[y]] => x = y
          /\ \A x \in DOMAIN rec : mark[rec[x]] = mark[st] => x = i
          BY <1>4, <1>6, <3>1, <3>2
    <3>5. \A x, y \in DOMAIN new : mark[new[x]] = mark[new[y]] => x = y
          BY <1>2, <3>4, FrontedApart
    <3>6. QED
          BY <3>3, <3>5
  <2>2. work.kind = "receive" => work.msg.base \in Bases(new)
        BY <1>2 DEF Bases
  <2>3. QED
        BY <1>1, <1>4, <2>1, <2>2 DEF DInv, OneBase, new
<1>10. QED
       BY <1>8, <1>9

\* A record whose bases are apart is no longer than a set that has them all.
LEMMA Fits ==
    ASSUME NEW S, NEW rec \in Seq(S), \A x, y \in DOMAIN rec : rec[x].base = rec[y].base => x = y,
           NEW T, IsFiniteSet(T), Bases(rec) \subseteq T
    PROVE  Len(rec) <= Cardinality(T) /\ Cardinality(T) \in Nat
<1> DEFINE f == [x \in 1..Len(rec) |-> rec[x].base]
<1>1. Len(rec) \in Nat /\ DOMAIN rec = 1..Len(rec)
      OBVIOUS
<1>2. f \in [1..Len(rec) -> T]
      BY <1>1 DEF Bases
<1>3. \A x, y \in 1..Len(rec) : f[x] = f[y] => x = y
      BY <1>1
<1> HIDE DEF f
<1>4. f \in Injection(1..Len(rec), T)
      BY <1>2, <1>3 DEF Injection, IsInjective
<1>5. Cardinality(1..Len(rec)) <= Cardinality(T)
      BY <1>4, FS_Injection
<1>6. Cardinality(1..Len(rec)) = Len(rec)
      BY <1>1, FS_Interval
<1>7. QED
      BY <1>5, <1>6, FS_CardinalityType

\* A record that has place for one more state keeps its bases.
LEMMA BasesKept ==
    ASSUME NEW S, NEW rec \in Seq(S), NEW T, NEW new \in Seq(T), NEW st, NEW i \in {0} \cup DOMAIN rec,
           Fronted(rec, new, st, i), i = 0 => Len(rec) < MaxArchived + 1, i # 0 => st.base = rec[i].base
    PROVE  Bases(rec) \subseteq Bases(new)
<1>1. Len(rec) \in Nat /\ DOMAIN rec = 1..Len(rec) /\ DOMAIN new = 1..Len(new) /\ i \in Nat
      OBVIOUS
<1>2. Len(new) = (IF i # 0 THEN Len(rec) ELSE Len(rec) + 1) /\ new[1] = st
      /\ \A j \in 2..Len(new) : new[j] = rec[Source(i, j)]
  <2>1. /\ Len(new) = (IF i # 0 \/ Len(rec) = MaxArchived + 1 THEN Len(rec) ELSE Len(rec) + 1) /\ new[1] = st
        /\ \A j \in 2..Len(new) : new[j] = rec[Source(i, j)]
        BY DEF Fronted
  <2>2. i = 0 => Len(rec) # MaxArchived + 1
    <3> SUFFICES ASSUME i = 0 PROVE Len(rec) # MaxArchived + 1
        OBVIOUS
    <3>1. Len(rec) < MaxArchived + 1
          OBVIOUS
    <3> DEFINE n == Len(rec)
    <3> HIDE DEF n
    <3>2. n \in Nat /\ MaxArchived + 1 \in Nat /\ n < MaxArchived + 1
          BY <1>1, <3>1, Bounds DEF n
    <3>3. n # MaxArchived + 1
          BY <3>2
    <3>4. QED
          BY <3>3 DEF n
  <2>3. QED
        BY <2>1, <2>2
<1>3. ASSUME NEW x \in DOMAIN rec PROVE rec[x].base \in Bases(new)
  <2> DEFINE j == IF x = i THEN 1 ELSE IF i # 0 /\ i < x THEN x ELSE x + 1
  <2>1. j \in DOMAIN new
        BY <1>1, <1>2
  <2>2. x # i => j \in 2..Len(new) /\ Source(i, j) = x
        BY <1>1, <1>2 DEF Source
  <2>3. new[j].base = rec[x].base
    <3>1. CASE x = i
          BY <1>1, <1>2, <3>1
    <3>2. CASE x # i
          BY <1>2, <2>2, <3>2
    <3>3. QED
          BY <3>1, <3>2
  <2>4. QED
        BY <2>1, <2>3 DEF Bases
<1>4. QED
      BY <1>3 DEF Bases

Moves(s, work, st, i) ==
    StartsSession(s, work, st, i) \/ StartsSend(s, work, st, i) \/ StartsReceive(s, work, st, i)

\* Where there is room for every session, the record has place for a new one.
LEMMA StartStays ==
    ASSUME TInv, KInv, DInv, RoomForAll, NEW s \in Side, NEW work, NEW st, NEW i,
           Starts(s, work, st, i), Moves(s, work, st, i)
    PROVE  Stays'
<1> DEFINE rec == sess[s]
           new == work.rec
<1>1. /\ Work(s)' = work /\ Loaded(s) = {rec} /\ Loaded(s)' = {rec, new} /\ (Sending(s)' <=> work.kind = "send")
      /\ (Receiving(s)' <=> work.kind = "receive") /\ ~Sending(s) /\ \A u \in Side : Taken(u)' = Taken(u)
      /\ \A u \in Side \ {s} : /\ Work(u)' = Work(u) /\ Loaded(u)' = Loaded(u) /\ (Sending(u)' <=> Sending(u))
                               /\ (Receiving(u)' <=> Receiving(u))
      BY StartIs DEF Aside
<1>2. /\ rec \in Seq(StateOf(nextKey, Given(s))) /\ new \in Seq(StateOf(nextKey', Given(s)'))
      /\ i \in {0} \cup DOMAIN rec /\ Fronted(rec, new, st, i)
      /\ new[1] = st /\ 1 \in DOMAIN new
      /\ \A j \in DOMAIN new : j = 1 \/ \E x \in DOMAIN rec : x # i /\ new[j] = rec[x]
      BY StartRecord
<1>3. /\ sess' = sess /\ network' = network /\ work.at = "store"
      /\ \/ i = 0 /\ \A x \in DOMAIN rec : rec[x].base # st.base
         \/ i # 0 /\ st.base = rec[i].base
      BY DEF Starts, Leads
<1>4. \A x, y \in DOMAIN rec : rec[x].base = rec[y].base => x = y
      BY <1>1 DEF DInv, OneBase
<1>5. IsFiniteSet(AllBases) /\ Cardinality(AllBases) <= inits /\ Cardinality(AllBases) \in Nat
      BY FS_CardinalityType DEF DInv, SInv, Stays
<1>6. inits \in Nat /\ inits <= MaxInit /\ MaxInit \in Nat /\ MaxInit <= MaxArchived + 1 /\ MaxArchived \in Nat
      BY Bounds DEF TInv, Counted, RoomForAll
<1>7. work.kind = "receive" => st.base = work.msg.base /\ work.msg \in network
      BY DEF Moves, StartsSession, StartsSend, StartsReceive
<1>8. work.kind = "send" => st.base = work.msg.base
      BY DEF Moves, StartsSession, StartsSend, StartsReceive
<1> HIDE DEF rec, new
<1>9. Bases(rec) \subseteq BasesOf(s) /\ Bases(rec) \subseteq AllBases
  <2>1. Bases(rec) \subseteq BasesOf(s)
        BY <1>1, GatheredAre DEF BasesOf
  <2>2. QED
        BY <2>1 DEF AllBases, Side
<1>10. \/ st.base \in AllBases /\ inits' = inits
       \/ i = 0 /\ inits < MaxInit /\ inits' = inits + 1
  <2>1. CASE StartsSession(s, work, st, i)
        BY <2>1 DEF StartsSession
  <2>2. CASE StartsSend(s, work, st, i)
    <3>1. i = 1 /\ inits' = inits
          BY <2>2 DEF StartsSend
    <3>2. st.base \in Bases(rec)
          BY <1>2, <1>3, <3>1 DEF Bases
    <3>3. QED
          BY <1>9, <3>1, <3>2
  <2>3. CASE StartsReceive(s, work, st, i)
    <3>1. inits' = inits /\ work.msg \in network /\ work.msg.by \in Side /\ st.base = work.msg.base
          BY <2>3, SideIs DEF StartsReceive
    <3>2. st.base \in BasesOf(work.msg.by)
          BY <3>1, GatheredAre DEF BasesOf
    <3>3. QED
          BY <3>1, <3>2 DEF AllBases, Side
  <2>4. QED
        BY <2>1, <2>2, <2>3 DEF Moves
<1>11. i = 0 => Len(rec) < MaxArchived + 1
  <2> SUFFICES ASSUME i = 0 PROVE Len(rec) < MaxArchived + 1
      OBVIOUS
  <2>1. Len(rec) \in Nat
        BY <1>2
  <2>2. CASE inits < MaxInit
    <3>1. Len(rec) <= Cardinality(AllBases)
          BY <1>2, <1>4, <1>5, <1>9, Fits
    <3>2. QED
          BY <1>5, <1>6, <2>1, <2>2, <3>1
  <2>3. CASE st.base \in AllBases
    <3> DEFINE T == AllBases \ {st.base}
    <3>1. IsFiniteSet(T) /\ Cardinality(T) = Cardinality(AllBases) - 1
          BY <1>5, <2>3, FS_RemoveElement
    <3>2. Bases(rec) \subseteq T
          BY <1>2, <1>3, <1>9 DEF Bases
    <3> HIDE DEF T
    <3>3. Len(rec) <= Cardinality(T)
          BY <1>2, <1>4, <3>1, <3>2, Fits
    <3>4. QED
          BY <1>5, <1>6, <2>1, <3>1, <3>3
  <2>4. QED
        BY <1>10, <2>2, <2>3
<1>12. Bases(rec) \subseteq Bases(new) /\ Bases(new) \subseteq Bases(rec) \cup {st.base} /\ st.base \in Bases(new)
  <2>1. Bases(rec) \subseteq Bases(new)
        BY <1>2, <1>3, <1>11, BasesKept
  <2>2. QED
        BY <1>2, <2>1 DEF Bases
<1>13. AllBases' \subseteq AllBases \cup {st.base}
  <2>1. BasesOf(s)' \subseteq BasesOf(s) \cup {st.base}
    <3> SUFFICES ASSUME NEW b \in BasesOf(s)' PROVE b \in BasesOf(s) \cup {st.base}
        OBVIOUS
    <3>1. \/ \E r \in Loaded(s)' : b \in Bases(r)
          \/ \E m \in network' : m.by = s /\ m.base = b
          \/ b \in IF Sending(s)' THEN {Work(s)'.msg.base} ELSE {}
          BY GatheredAre DEF BasesOf
    <3>2. \/ \E r \in Loaded(s) : b \in Bases(r)
          \/ \E m \in network : m.by = s /\ m.base = b
          \/ b = st.base
          BY <1>1, <1>3, <1>8, <1>12, <3>1
    <3>3. QED
          BY <3>2, GatheredAre DEF BasesOf
  <2>2. \A u \in Side \ {s} : BasesOf(u)' = BasesOf(u)
        BY <1>1, <1>3 DEF BasesOf, Bases
  <2>3. QED
        BY <2>1, <2>2 DEF AllBases, Side
<1>14. IsFiniteSet(AllBases') /\ Cardinality(AllBases') <= inits'
  <2> DEFINE B == AllBases \cup {st.base}
  <2>1. IsFiniteSet(B) /\ Cardinality(B) = IF st.base \in AllBases THEN Cardinality(AllBases) ELSE Cardinality(AllBases) + 1
        BY <1>5, FS_AddElement
  <2>2. Cardinality(B) <= inits' /\ Cardinality(B) \in Nat /\ inits' \in Nat
        BY <1>5, <1>6, <1>10, <2>1
  <2> HIDE DEF B
  <2>3. AllBases' \in SUBSET B
        BY <1>13 DEF B
  <2>4. IsFiniteSet(AllBases') /\ Cardinality(AllBases') <= Cardinality(B)
        BY <2>1, <2>3, FS_Subset
  <2>5. Cardinality(AllBases') \in Nat
        BY <2>4, FS_CardinalityType
  <2>6. QED
        BY <2>2, <2>4, <2>5
<1>15. ASSUME NEW u \in Side
       PROVE  /\ \A m \in Taken(u)' : m.base \in Bases(sess'[u])
              /\ Work(u)'.at = "store" => Bases(sess'[u]) \subseteq Bases(Work(u)'.rec)
       BY <1>1, <1>3, <1>12 DEF DInv, SInv, Stays, new, rec
<1>16. QED
       BY <1>14, <1>15 DEF Stays, Bases

\* Bases in records, messages and greetings are keys that were generated.
LEMMA BasesTyped ==
    ASSUME TInv, NEW s \in Side
    PROVE  /\ \A r \in Loaded(s) : Bases(r) \subseteq 0..(nextKey - 1)
           /\ \A h \in Hellos(s) : h[1] \in 0..(nextKey - 1)
<1>1. ASSUME NEW r \in Loaded(s), NEW i \in DOMAIN r PROVE r[i].base \in 0..(nextKey - 1)
  <2>1. r \in Seq(StateOf(nextKey, Given(s)))
        BY LoadedIs DEF Record, RecordOf
  <2>2. r[i] \in StateOf(nextKey, Given(s))
        BY <2>1
  <2>3. QED
        BY <2>2 DEF StateOf
<1>2. \A r \in Loaded(s) : Bases(r) \subseteq 0..(nextKey - 1)
      BY <1>1 DEF Bases
<1>3. \A m \in network : m.base \in 0..(nextKey - 1)
      BY DEF TInv, Messages, Encrypted, MessageOf
<1>4. Sending(s) => Work(s).msg.base \in 0..(nextKey - 1)
      BY LoadedIs DEF Encrypted, MessageOf
<1>5. ASSUME NEW h \in Hellos(s) PROVE h[1] \in 0..(nextKey - 1)
  <2>1. \/ \E m \in network : h = Greeting(m)
        \/ Sending(s) /\ h = Greeting(Work(s).msg)
        \/ \E r \in Loaded(s) : \E i \in DOMAIN r : h = Greeting(r[i])
        BY GreetingsAre DEF Hellos
  <2>2. QED
        BY <1>1, <1>3, <1>4, <2>1 DEF Greeting
<1>6. QED
      BY <1>2, <1>5

\* Starting work greets with a new base at most.
LEMMA StartHellos ==
    ASSUME TInv, KInv, NEW s \in Side, NEW work, NEW st, NEW i,
           Starts(s, work, st, i), Moves(s, work, st, i)
    PROVE  /\ \A h \in Hellos(s)' : h \in Hellos(s) \/ (StartsSession(s, work, st, i) /\ h = Greeting(st))
           /\ \A u \in Side \ {s} : Hellos(u)' = Hellos(u)
<1> DEFINE rec == sess[s]
           new == work.rec
<1>1. /\ Work(s)' = work /\ Loaded(s) = {rec} /\ Loaded(s)' = {rec, new} /\ (Sending(s)' <=> work.kind = "send")
      /\ ~Sending(s) /\ network' = network
      /\ \A u \in Side \ {s} : Work(u)' = Work(u) /\ Loaded(u)' = Loaded(u) /\ (Sending(u)' <=> Sending(u))
      BY StartIs DEF Aside, Starts
<1>2. /\ i \in {0} \cup DOMAIN rec /\ new[1] = st
      /\ \A j \in DOMAIN new : j = 1 \/ \E x \in DOMAIN rec : x # i /\ new[j] = rec[x]
      BY StartRecord
<1>3. i # 0 => st.base = rec[i].base
      BY DEF Starts, Leads
<1>4. \A u \in Side \ {s} : Hellos(u)' = Hellos(u)
      BY <1>1 DEF Hellos
<1> HIDE DEF rec, new
<1>5. st.pk => StartsSession(s, work, st, i) \/ (i = 1 /\ Greeting(st) = Greeting(rec[1]) /\ rec[1].pk)
  <2>1. CASE StartsSend(s, work, st, i)
        BY <1>3, <2>1 DEF StartsSend, Greeting, rec
  <2>2. CASE StartsReceive(s, work, st, i)
        BY <2>2 DEF StartsReceive
  <2>3. QED
        BY <2>1, <2>2 DEF Moves
<1>6. Sending(s)' => StartsSend(s, work, st, i) /\ Greeting(work.msg) = Greeting(st) /\ work.msg.pk = st.pk
      BY <1>1 DEF Moves, StartsSession, StartsSend, StartsReceive, Greeting
<1>7. ASSUME NEW h \in Hellos(s)'
      PROVE  h \in Hellos(s) \/ (StartsSession(s, work, st, i) /\ h = Greeting(st))
  <2>1. \/ \E m \in network : m.by = s /\ m.pk /\ h = Greeting(m)
        \/ Sending(s)' /\ work.msg.pk /\ h = Greeting(work.msg)
        \/ \E r \in {rec, new} : \E j \in DOMAIN r : r[j].pk /\ h = Greeting(r[j])
    <3>1. h \in Greetings(Loaded(s)', network', s, IF Sending(s)' THEN {Work(s)'.msg} ELSE {})
          BY <1>7 DEF Hellos
    <3>2. QED
          BY <1>1, <3>1, GreetingsAre
  <2>2. \/ \E m \in network : m.by = s /\ m.pk /\ h = Greeting(m)
        \/ \E j \in DOMAIN rec : rec[j].pk /\ h = Greeting(rec[j])
        \/ st.pk /\ h = Greeting(st)
        BY <1>2, <1>6, <2>1
  <2>3. \/ \E m \in network : m.by = s /\ m.pk /\ h = Greeting(m)
        \/ \E j \in DOMAIN rec : rec[j].pk /\ h = Greeting(rec[j])
        \/ StartsSession(s, work, st, i) /\ h = Greeting(st)
        BY <1>2, <1>5, <2>2
  <2>4. \A r : r \in Loaded(s) <=> r = rec
        BY <1>1
  <2>5. h \in Greetings(Loaded(s), network, s, IF Sending(s) THEN {Work(s).msg} ELSE {})
           \/ (StartsSession(s, work, st, i) /\ h = Greeting(st))
        BY <2>3, <2>4, GreetingsAre
  <2>6. QED
        BY <2>5 DEF Hellos
<1>8. QED
      BY <1>4, <1>7

\* Where nothing crashes, a new session's pre-key is removed, and there is one for every session.
LEMMA StartSpent ==
    ASSUME TInv, KInv, DInv, NoCrash, NEW s \in Side, NEW work, NEW st, NEW i,
           Starts(s, work, st, i), Moves(s, work, st, i)
    PROVE  OneHello' /\ SpentKeys' /\ Plenty'
<1> DEFINE rec == sess[s]
           new == work.rec
           p == Peer(s)
<1>1. /\ Work(s)' = work /\ Work(s) = Idle /\ work.at = "store" /\ (Receiving(s)' <=> work.kind = "receive")
      /\ sess' = sess /\ preKeys' = preKeys
      /\ \A u \in Side : Taken(u)' = Taken(u)
      /\ \A u \in Side \ {s} : Work(u)' = Work(u) /\ Loaded(u)' = Loaded(u) /\ (Receiving(u)' <=> Receiving(u))
      BY StartIs DEF Aside, Starts
<1>2. /\ i \in {0} \cup DOMAIN rec /\ new[1] = st
      /\ \A j \in DOMAIN new : j = 1 \/ \E x \in DOMAIN rec : x # i /\ new[j] = rec[x]
      BY StartRecord
<1>3. i # 0 => st.base = rec[i].base
      BY DEF Starts, Leads
<1>4. /\ \A h \in Hellos(s)' : h \in Hellos(s) \/ (StartsSession(s, work, st, i) /\ h = Greeting(st))
      /\ Hellos(p)' = Hellos(p)
      BY StartHellos, SideIs
<1>5. OneHello /\ SpentKeys /\ Plenty
      BY DEF DInv, SInv
<1>6. nextKey \in Nat /\ inits \in Nat /\ \A k \in 0..(nextKey - 1) : k # nextKey
      BY DEF TInv, Counted
<1>7. p \in Side /\ p # s /\ Peer(p) = s /\ Side = {s, p}
      BY DEF Peer, Side
<1>8. Greeting(st)[1] = st.base /\ Greeting(st)[2] = st.pid
      BY DEF Greeting
<1>9. StartsSession(s, work, st, i) => st.pid \in stock[p] /\ st.pid # None /\ st.base = nextKey
  <2> SUFFICES ASSUME StartsSession(s, work, st, i) PROVE st.pid \in stock[p] /\ st.pid # None /\ st.base = nextKey
      OBVIOUS
  <2>1. inits < MaxInit /\ MaxInit <= OneTime /\ MaxInit \in Nat /\ OneTime \in Nat
        BY Bounds DEF StartsSession, NoCrash
  <2>2. stock[p] # {}
    <3> SUFFICES ASSUME stock[p] = {} PROVE FALSE
        OBVIOUS
    <3>1. Cardinality(stock[p]) = 0
          BY FS_EmptySet
    <3>2. OneTime - inits <= Cardinality(stock[p])
          BY <1>5, <1>7 DEF Plenty
    <3>3. QED
          BY <1>6, <2>1, <3>1, <3>2
  <2>3. stock[p] \subseteq 1..OneTime
        BY <1>7 DEF TInv, PreKeysKept
  <2>4. QED
        BY <2>2, <2>3 DEF StartsSession, None
<1>10. Plenty'
  <2>1. CASE StartsSession(s, work, st, i)
    <3>1. stock' = [stock EXCEPT ![p] = @ \ {st.pid}] /\ inits' = inits + 1
          BY <2>1 DEF StartsSession
    <3>2. \A u \in Side : stock'[u] = IF u = p THEN stock[p] \ {st.pid} ELSE stock[u]
          BY <1>7, <3>1 DEF TInv, PreKeysKept
    <3>3. \A u \in Side : IsFiniteSet(stock[u])
      <4>1. IsFiniteSet(1..OneTime)
            BY Bounds, FS_Interval
      <4>2. QED
            BY <4>1, FS_Subset DEF TInv, PreKeysKept
    <3>4. Cardinality(stock[p] \ {st.pid}) = Cardinality(stock[p]) - 1
          BY <1>7, <1>9, <2>1, <3>3, FS_RemoveElement
    <3>5. \A u \in Side : Cardinality(stock[u]) \in Nat /\ OneTime - inits <= Cardinality(stock[u])
          BY <1>5, <3>3, FS_CardinalityType DEF Plenty
    <3>6. \A u \in Side : OneTime - inits' <= Cardinality(stock'[u])
          BY <1>6, <1>7, <3>1, <3>2, <3>4, <3>5, Bounds
    <3>7. QED
          BY <3>6 DEF Plenty
  <2>2. CASE inits' = inits /\ stock' = stock
        BY <1>5, <2>2 DEF Plenty
  <2>3. QED
        BY <2>1, <2>2 DEF Moves, StartsSend, StartsReceive
<1> HIDE DEF rec, new, p
<1>11. OneHello'
  <2>1. \A h, g \in Hellos(s)' : h[2] # None /\ (h[1] = g[1] => h = g)
    <3> SUFFICES ASSUME NEW h \in Hellos(s)', NEW g \in Hellos(s)' PROVE h[2] # None /\ (h[1] = g[1] => h = g)
        OBVIOUS
    <3>1. /\ h \in Hellos(s) => h[1] # nextKey /\ h[2] # None
          /\ g \in Hellos(s) => g[1] # nextKey
          /\ h \in Hellos(s) /\ g \in Hellos(s) => (h[1] = g[1] => h = g)
          BY <1>5, <1>6, BasesTyped DEF OneHello
    <3>2. /\ h \in Hellos(s) \/ (h = Greeting(st) /\ h[1] = nextKey /\ h[2] # None)
          /\ g \in Hellos(s) \/ (g = Greeting(st) /\ g[1] = nextKey)
          BY <1>4, <1>8, <1>9
    <3>3. QED
          BY <3>1, <3>2
  <2>2. \A h, g \in Hellos(p)' : h[2] # None /\ (h[1] = g[1] => h = g)
        BY <1>4, <1>5, <1>7 DEF OneHello
  <2>3. QED
        BY <1>7, <2>1, <2>2 DEF OneHello
<1>12. ASSUME NEW h \in Hellos(p)'
       PROVE  /\ h[1] \in Bases(sess'[s]) \cup {m.base : m \in Taken(s)'} => Spent(s, h[2])'
              /\ Work(s)'.at = "store" /\ h[1] \in Bases(Work(s)'.rec) =>
                    Spent(s, h[2])' \/ (Receiving(s)' /\ h[2] # None /\ Work(s)'.pid = h[2])
  <2>1. h \in Hellos(p) /\ h[1] # nextKey /\ h[2] # None
        BY <1>4, <1>5, <1>6, <1>7, <1>12, BasesTyped DEF OneHello
  <2>2. h[1] \in Bases(rec) \cup {m.base : m \in Taken(s)} => Spent(s, h[2])
        BY <1>5, <2>1 DEF SpentKeys, rec, p
  <2>3. Spent(s, h[2])' <=> Spent(s, h[2])
        BY <1>1 DEF Spent, Idle
  <2>4. h[1] \in Bases(new) => h[1] \in Bases(rec) \/ h[1] = st.base
        BY <1>2 DEF Bases
  <2>5. h[1] = st.base => h[1] \in Bases(rec) \/ (work.kind = "receive" /\ work.pid = h[2])
    <3> SUFFICES ASSUME h[1] = st.base PROVE h[1] \in Bases(rec) \/ (work.kind = "receive" /\ work.pid = h[2])
        OBVIOUS
    <3>1. CASE i # 0
          BY <1>2, <1>3, <3>1 DEF Bases
    <3>2. CASE i = 0
      <4>1. StartsReceive(s, work, st, i)
            BY <1>9, <2>1, <3>2 DEF Moves, StartsSend
      <4>2. /\ work.kind = "receive" /\ work.msg \in network /\ work.msg.by = p /\ work.msg.pk
            /\ st.base = work.msg.base /\ work.pid = work.msg.pid
            BY <3>2, <4>1 DEF StartsReceive, p
      <4>3. Greeting(work.msg) \in Hellos(p)
            BY <4>2, GreetingsAre DEF Hellos
      <4>4. Greeting(work.msg)[1] = h[1] /\ Greeting(work.msg)[2] = work.pid
            BY <4>2 DEF Greeting
      <4>5. h = Greeting(work.msg)
            BY <1>5, <1>7, <2>1, <4>3, <4>4 DEF OneHello
      <4>6. QED
            BY <4>2, <4>4, <4>5
    <3>3. QED
          BY <3>1, <3>2
  <2>6. h[1] \in Bases(new) => Spent(s, h[2]) \/ (work.kind = "receive" /\ work.pid = h[2])
        BY <2>2, <2>4, <2>5
  <2>7. Bases(sess'[s]) = Bases(rec) /\ Bases(Work(s)'.rec) = Bases(new) /\ Taken(s)' = Taken(s)
        BY <1>1 DEF rec, new
  <2>8. QED
        BY <1>1, <2>1, <2>2, <2>3, <2>6, <2>7
<1>13. ASSUME NEW h \in Hellos(s)'
       PROVE  /\ h[1] \in Bases(sess'[p]) \cup {m.base : m \in Taken(p)'} => Spent(p, h[2])'
              /\ Work(p)'.at = "store" /\ h[1] \in Bases(Work(p)'.rec) =>
                    Spent(p, h[2])' \/ (Receiving(p)' /\ h[2] # None /\ Work(p)'.pid = h[2])
  <2>1. Spent(p, h[2])' <=> Spent(p, h[2])
        BY <1>1, <1>7 DEF Spent
  <2>2. CASE h \in Hellos(s)
        BY <1>1, <1>5, <1>7, <2>1, <2>2 DEF SpentKeys
  <2>3. CASE h[1] = nextKey
    <3>1. h[1] \notin Bases(sess[p])
          BY <1>6, <1>7, <2>3, BasesTyped DEF Loaded
    <3>2. \A m \in Taken(p) : h[1] # m.base
          BY <1>6, <1>7, <2>3, TakenIs
    <3>3. Work(p).at = "store" => h[1] \notin Bases(Work(p).rec)
          BY <1>6, <1>7, <2>3, BasesTyped DEF Loaded
    <3>4. QED
          BY <1>1, <1>7, <3>1, <3>2, <3>3
  <2>4. QED
        BY <1>4, <1>8, <1>9, <1>13, <2>2, <2>3
<1>14. SpentKeys'
       BY <1>7, <1>12, <1>13 DEF SpentKeys, Bases, p
<1>15. QED
       BY <1>10, <1>11, <1>14

-----------------------------------------------------------------------------
(* At most once: storing, and the rest of the work.                        *)

\* Nothing is added to the records and messages of a side.
Fewer(u) ==
    /\ Loaded(u)' \subseteq Loaded(u)
    /\ \A m \in network' : m.by = u => m \in network \/ (Sending(u) /\ m = Work(u).msg)
    /\ Sending(u)' => Sending(u) /\ Work(u)'.msg = Work(u).msg

\* Then it has no new bases and no new first messages.
LEMMA FewerIs ==
    ASSUME NEW u, Fewer(u)
    PROVE  BasesOf(u)' \subseteq BasesOf(u) /\ Hellos(u)' \subseteq Hellos(u)
<1>1. /\ Loaded(u)' \subseteq Loaded(u)
      /\ \A m \in network' : m.by = u => m \in network \/ (Sending(u) /\ m = Work(u).msg)
      /\ Sending(u)' => Sending(u) /\ Work(u)'.msg = Work(u).msg
      BY DEF Fewer
<1>2. ASSUME NEW b \in BasesOf(u)' PROVE b \in BasesOf(u)
  <2>1. b \in Gathered(Loaded(u)', network', u, IF Sending(u)' THEN {Work(u)'.msg.base} ELSE {})
        BY <1>2 DEF BasesOf
  <2>2. \/ \E r \in Loaded(u)' : b \in Bases(r)
        \/ \E m \in network' : m.by = u /\ m.base = b
        \/ b \in IF Sending(u)' THEN {Work(u)'.msg.base} ELSE {}
        BY <2>1, GatheredAre
  <2>3. \/ \E r \in Loaded(u) : b \in Bases(r)
        \/ \E m \in network : m.by = u /\ m.base = b
        \/ b \in IF Sending(u) THEN {Work(u).msg.base} ELSE {}
        BY <1>1, <2>2
  <2>4. QED
        BY <2>3, GatheredAre DEF BasesOf
<1>3. ASSUME NEW h \in Hellos(u)' PROVE h \in Hellos(u)
  <2>1. h \in Greetings(Loaded(u)', network', u, IF Sending(u)' THEN {Work(u)'.msg} ELSE {})
        BY <1>3 DEF Hellos
  <2>2. \/ \E m \in network' : m.by = u /\ m.pk /\ h = Greeting(m)
        \/ \E m \in IF Sending(u)' THEN {Work(u)'.msg} ELSE {} : m.pk /\ h = Greeting(m)
        \/ \E r \in Loaded(u)' : \E i \in DOMAIN r : r[i].pk /\ h = Greeting(r[i])
        BY <2>1, GreetingsAre
  <2>3. \/ \E m \in network : m.by = u /\ m.pk /\ h = Greeting(m)
        \/ \E m \in IF Sending(u) THEN {Work(u).msg} ELSE {} : m.pk /\ h = Greeting(m)
        \/ \E r \in Loaded(u) : \E i \in DOMAIN r : r[i].pk /\ h = Greeting(r[i])
        BY <1>1, <2>2
  <2>4. QED
        BY <2>3, GreetingsAre DEF Hellos
<1>4. QED
      BY <1>2, <1>3

\* Then the bases stay as few, and a greeting has its own.
LEMMA FewerStay ==
    ASSUME TInv, DInv, \A u \in Side : Fewer(u), inits' = inits, stock' = stock
    PROVE  /\ RoomForAll => IsFiniteSet(AllBases') /\ Cardinality(AllBases') <= inits'
           /\ NoCrash => OneHello' /\ Plenty'
<1>1. ASSUME RoomForAll PROVE IsFiniteSet(AllBases') /\ Cardinality(AllBases') <= inits'
  <2>1. IsFiniteSet(AllBases) /\ Cardinality(AllBases) <= inits
        BY <1>1 DEF DInv, SInv, Stays
  <2>2. AllBases' \in SUBSET AllBases
        BY FewerIs DEF AllBases, Side
  <2>3. IsFiniteSet(AllBases') /\ Cardinality(AllBases') <= Cardinality(AllBases)
        BY <2>1, <2>2, FS_Subset
  <2>4. Cardinality(AllBases') \in Nat /\ Cardinality(AllBases) \in Nat /\ inits \in Nat
        BY <2>1, <2>3, FS_CardinalityType DEF TInv, Counted
  <2>5. QED
        BY <2>1, <2>3, <2>4
<1>2. ASSUME NoCrash PROVE OneHello' /\ Plenty'
  <2>1. OneHello /\ Plenty
        BY <1>2 DEF DInv, SInv
  <2>2. OneHello'
        BY <2>1, FewerIs DEF OneHello
  <2>3. QED
        BY <2>1, <2>2 DEF Plenty
<1>3. QED
      BY <1>1, <1>2

\* Storing a record keeps what at-most-once rests on: its states are shut to what was taken.
LEMMA StoreOnce ==
    ASSUME TInv, KInv, DInv, NEW s \in Side, Store(s, "net")
    PROVE  DInv'
<1> DEFINE j == Work(s)
           at == IF j.pid = None THEN "finish" ELSE "remove"
           p == Peer(s)
<1>1. /\ Begin(s, "net", Going(j, at)) /\ sess' = [sess EXCEPT ![s] = j.rec]
      /\ UNCHANGED <<preKeys, stock, network, got, inits>> /\ j.at = "store"
      BY DEF Store, Going, Work, counters
<1>2. j \in Job(s) /\ j.kind \in {"send", "session", "receive"}
      BY <1>1, LoadedIs, WorkIs
<1>3. /\ Going(j, at).at = at /\ Going(j, at).kind = j.kind /\ Going(j, at).pid = j.pid
      /\ (j.kind \in {"send", "receive"} => Going(j, at).msg = j.msg)
      BY <1>1, <1>2, WorkGoes
<1>4. Work(s)' = Going(j, at) /\ \A u \in Side \ {s} : job'[u] = job[u]
      BY <1>1, BegunIs DEF KInv
<1>5. /\ sess'[s] = j.rec /\ \A u \in Side \ {s} : sess'[u] = sess[u]
      BY <1>1 DEF TInv, Records
<1>6. /\ \A u \in Side \ {s} : /\ Work(u)' = Work(u) /\ Loaded(u)' = Loaded(u) /\ (Sending(u)' <=> Sending(u))
                               /\ (Receiving(u)' <=> Receiving(u))
      BY <1>4, <1>5 DEF Work, Loaded, Sending, Receiving
<1>7. /\ Loaded(s) = {sess[s], j.rec} /\ Loaded(s)' = {j.rec} /\ Work(s)'.at = at /\ at # "store" /\ at # "idle"
      /\ Work(s)'.pid = j.pid
      BY <1>1, <1>3, <1>4, <1>5 DEF Loaded
<1>8. /\ (Sending(s)' <=> j.kind = "send") /\ (Sending(s) <=> j.kind = "send")
      /\ (Receiving(s)' <=> j.kind = "receive") /\ (Receiving(s) <=> j.kind = "receive")
      /\ (j.kind \in {"send", "receive"} => Work(s)'.msg = j.msg)
      BY <1>1, <1>3, <1>4, <1>7 DEF Sending, Receiving
<1>9. /\ \A u \in Side \ {s} : Taken(u)' = Taken(u)
      /\ Taken(s)' = Taken(s) \cup (IF j.kind = "receive" THEN {j.msg} ELSE {})
      BY <1>1, <1>6, <1>7, <1>8 DEF Taken
<1>10. p \in Side /\ p # s /\ Peer(p) = s /\ Side = {s, p}
       BY DEF Peer, Side
<1>11. \A u \in Side : Fewer(u)
       BY <1>1, <1>6, <1>7, <1>8 DEF Fewer
<1> HIDE DEF j, at, p
<1>12. IdsOnce'
  <2>1. /\ \A m, n \in network' : m.id = n.id => m = n
        /\ \A u \in Side : Sending(u)' <=> Sending(u)
        /\ \A u \in Side : Sending(u) => Work(u)'.msg.id = Work(u).msg.id
        BY <1>1, <1>6, <1>8 DEF DInv, IdsOnce, j
  <2>2. \A u \in Side : Sending(u)' => \A m \in network' : m.id # Work(u)'.msg.id
        BY <1>1, <2>1 DEF DInv, IdsOnce
  <2>3. \A u \in Side : Sending(u)' => (Sending(Peer(u))' => Work(u)'.msg.id # Work(Peer(u))'.msg.id)
        BY <2>1, SideIs DEF DInv, IdsOnce
  <2>4. QED
        BY <2>1, <2>2, <2>3 DEF IdsOnce
<1>13. GotOnce'
  <2>1. /\ \A u \in Side : Receiving(u)' <=> Receiving(u)
        /\ \A u \in Side : Receiving(u) => Work(u)'.msg.id = Work(u).msg.id
        BY <1>6, <1>8 DEF j
  <2>2. QED
        BY <1>1, <2>1 DEF DInv, GotOnce
<1>14. TakenShut'
  <2>1. /\ \A m \in Taken(s) : \A i \in DOMAIN j.rec : Shut(j.rec[i], m)
        /\ j.kind = "receive" => \A i \in DOMAIN j.rec : Shut(j.rec[i], j.msg)
        BY <1>1, <1>7, <1>8 DEF DInv, TakenShut, j
  <2>2. /\ \A m \in Taken(s)', r \in Loaded(s)' : \A i \in DOMAIN r : Shut(r[i], m)
        /\ ~(Receiving(s)' /\ Work(s)'.at = "store")
        BY <1>7, <1>9, <2>1
  <2>3. ASSUME NEW u \in Side \ {s}
        PROVE  /\ \A m \in Taken(u)', r \in Loaded(u)' : \A i \in DOMAIN r : Shut(r[i], m)
               /\ Receiving(u)' /\ Work(u)'.at = "store" => \A i \in DOMAIN Work(u)'.rec : Shut(Work(u)'.rec[i], Work(u)'.msg)
        BY <1>6, <1>9 DEF DInv, TakenShut
  <2>4. QED
        BY <2>2, <2>3 DEF TakenShut, Shut
<1>15. OneBase'
       BY <1>6, <1>7 DEF DInv, OneBase, Bases
<1>16. RoomForAll => Stays'
  <2> SUFFICES ASSUME RoomForAll PROVE Stays'
      OBVIOUS
  <2>1. Stays
        BY DEF DInv, SInv
  <2>2. IsFiniteSet(AllBases') /\ Cardinality(AllBases') <= inits'
        BY <1>1, <1>11, FewerStay
  <2>3. /\ \A m \in Taken(s) : m.base \in Bases(sess[s])
        /\ Bases(sess[s]) \subseteq Bases(j.rec)
        BY <1>1, <2>1 DEF Stays, j
  <2>4. j.kind = "receive" => j.msg.base \in Bases(j.rec)
        BY <1>1, <1>8 DEF DInv, OneBase, j
  <2>5. \A m \in Taken(s)' : m.base \in Bases(sess'[s])
        BY <1>5, <1>9, <2>3, <2>4
  <2>6. \A u \in Side \ {s} : /\ \A m \in Taken(u)' : m.base \in Bases(sess'[u])
                              /\ Work(u)'.at = "store" => Bases(sess'[u]) \subseteq Bases(Work(u)'.rec)
        BY <1>5, <1>6, <1>9, <2>1 DEF Stays
  <2>7. QED
        BY <1>7, <2>2, <2>5, <2>6, ZenonT(40) DEF Stays, Bases
<1>17. NoCrash => OneHello' /\ SpentKeys' /\ Plenty'
  <2> SUFFICES ASSUME NoCrash PROVE OneHello' /\ SpentKeys' /\ Plenty'
      OBVIOUS
  <2>1. SpentKeys
        BY DEF DInv, SInv
  <2>2. OneHello' /\ Plenty'
        BY <1>1, <1>11, FewerStay
  <2>3. \A u \in Side : \A h \in Hellos(u)' : h \in Hellos(u)
        BY <1>11, FewerIs
  <2>4. \A q : Spent(s, q) => Spent(s, q)' /\ (\A u \in Side \ {s} : Spent(u, q)' <=> Spent(u, q))
        BY <1>1, <1>6 DEF Spent, j
  <2>5. ASSUME NEW h \in Hellos(p)', h[1] \in Bases(sess'[s]) \cup {m.base : m \in Taken(s)'}
        PROVE  Spent(s, h[2])'
    <3>1. h \in Hellos(Peer(s))
          BY <1>10, <2>3, <2>5 DEF p
    <3>2. j.kind = "receive" => j.msg.base \in Bases(j.rec)
          BY <1>1, <1>8 DEF DInv, OneBase, j
    <3>3. h[1] \in Bases(j.rec) \/ h[1] \in {m.base : m \in Taken(s)}
          BY <1>5, <1>9, <2>5, <3>2
    <3>4. Spent(s, h[2]) \/ (Receiving(s) /\ h[2] # None /\ j.pid = h[2])
          BY <1>1, <2>1, <3>1, <3>3 DEF SpentKeys, j
    <3>5. CASE Receiving(s) /\ h[2] # None /\ j.pid = h[2]
          BY <1>7, <3>5 DEF Spent, at
    <3>6. QED
          BY <2>4, <3>4, <3>5
  <2>6. ASSUME NEW h \in Hellos(s)'
        PROVE  /\ h[1] \in Bases(sess'[p]) \cup {m.base : m \in Taken(p)'} => Spent(p, h[2])'
               /\ Work(p)'.at = "store" /\ h[1] \in Bases(Work(p)'.rec) =>
                     Spent(p, h[2])' \/ (Receiving(p)' /\ h[2] # None /\ Work(p)'.pid = h[2])
    <3>1. h \in Hellos(s) /\ (Spent(p, h[2])' <=> Spent(p, h[2]))
          BY <1>1, <1>6, <1>10, <2>3, <2>6 DEF Spent
    <3>2. QED
          BY <1>5, <1>6, <1>9, <1>10, <2>1, <3>1 DEF SpentKeys
  <2>7. SpentKeys'
        BY <1>7, <1>10, <2>5, <2>6 DEF SpentKeys, Bases, p
  <2>8. QED
        BY <2>2, <2>7
<1>18. QED
       BY <1>12, <1>13, <1>14, <1>15, <1>16, <1>17 DEF DInv, SInv

\* A step that adds to nothing a side has keeps the rest of what at-most-once rests on.
LEMMA KeepOnce ==
    ASSUME TInv, DInv, NEW s \in Side, Aside(s), \A u \in Side \ {s} : job'[u] = job[u], sess' = sess,
           inits' = inits, stock' = stock, Loaded(s)' \subseteq Loaded(s), Work(s)'.at # "store",
           \A u \in Side : Fewer(u) /\ Taken(u)' \subseteq Taken(u),
           NoCrash => \A u \in Side : \A q : Spent(u, q) => Spent(u, q)'
    PROVE  TakenShut' /\ OneBase' /\ SInv'
<1>1. /\ \A u \in Side \ {s} : Work(u)' = Work(u) /\ Loaded(u)' = Loaded(u) /\ (Receiving(u)' <=> Receiving(u))
      BY DEF Aside, Receiving, Work
<1>2. TakenShut'
  <2>1. /\ \A m \in Taken(s)', r \in Loaded(s)' : \A i \in DOMAIN r : Shut(r[i], m)
        BY DEF DInv, TakenShut
  <2>2. ASSUME NEW u \in Side \ {s}
        PROVE  /\ \A m \in Taken(u)', r \in Loaded(u)' : \A i \in DOMAIN r : Shut(r[i], m)
               /\ Receiving(u)' /\ Work(u)'.at = "store" => \A i \in DOMAIN Work(u)'.rec : Shut(Work(u)'.rec[i], Work(u)'.msg)
        BY <1>1 DEF DInv, TakenShut
  <2>3. QED
        BY <2>1, <2>2 DEF TakenShut, Shut
<1>3. OneBase'
      BY <1>1 DEF DInv, OneBase, Bases
<1>4. RoomForAll => Stays'
  <2> SUFFICES ASSUME RoomForAll PROVE Stays'
      OBVIOUS
  <2>1. Stays
        BY DEF DInv, SInv
  <2>2. IsFiniteSet(AllBases') /\ Cardinality(AllBases') <= inits'
        BY FewerStay
  <2>3. \A u \in Side : /\ \A m \in Taken(u)' : m.base \in Bases(sess'[u])
                        /\ Work(u)'.at = "store" => Bases(sess'[u]) \subseteq Bases(Work(u)'.rec)
        BY <1>1, <2>1 DEF Stays
  <2>4. QED
        BY <2>2, <2>3 DEF Stays, Bases
<1>5. NoCrash => OneHello' /\ SpentKeys' /\ Plenty'
  <2> SUFFICES ASSUME NoCrash PROVE OneHello' /\ SpentKeys' /\ Plenty'
      OBVIOUS
  <2>1. SpentKeys
        BY DEF DInv, SInv
  <2>2. OneHello' /\ Plenty'
        BY FewerStay
  <2>3. \A u \in Side : \A h \in Hellos(Peer(u))' : h \in Hellos(Peer(u))
        BY FewerIs, SideIs
  <2>4. ASSUME NEW u \in Side, NEW h \in Hellos(Peer(u))'
        PROVE  /\ h[1] \in Bases(sess'[u]) \cup {m.base : m \in Taken(u)'} => Spent(u, h[2])'
               /\ Work(u)'.at = "store" /\ h[1] \in Bases(Work(u)'.rec) =>
                     Spent(u, h[2])' \/ (Receiving(u)' /\ h[2] # None /\ Work(u)'.pid = h[2])
    <3>1. h \in Hellos(Peer(u)) /\ (Spent(u, h[2]) => Spent(u, h[2])')
          BY <2>3, <2>4
    <3>2. h[1] \in Bases(sess'[u]) \cup {m.base : m \in Taken(u)'} => Spent(u, h[2])
          BY <2>1, <3>1 DEF SpentKeys
    <3>3. Work(u)'.at = "store" /\ h[1] \in Bases(Work(u)'.rec) =>
             Spent(u, h[2]) \/ (Receiving(u)' /\ h[2] # None /\ Work(u)'.pid = h[2])
          BY <1>1, <2>1, <3>1 DEF SpentKeys
    <3>4. QED
          BY <3>1, <3>2, <3>3
  <2>5. SpentKeys'
        BY <2>4 DEF SpentKeys, Bases
  <2>6. QED
        BY <2>2, <2>5
<1>6. QED
      BY <1>2, <1>3, <1>4, <1>5 DEF SInv

\* Removing a pre-key spends it.
LEMMA RemoveOnce ==
    ASSUME TInv, KInv, DInv, NEW s \in Side, RemovePreKey(s, "net")
    PROVE  DInv'
<1> DEFINE j == Work(s)
<1>1. j \in Job(s) /\ job[s]["net"] = j
      BY LoadedIs DEF Work
<1>2. /\ Begin(s, "net", Going(j, "finish")) /\ j.at = "remove" /\ preKeys' = [preKeys EXCEPT ![s] = @ \ {j.pid}]
      /\ UNCHANGED <<sess, stock, network, got, inits>>
      BY <1>1 DEF RemovePreKey, Going, counters
<1>3. /\ j.kind = "receive" /\ Going(j, "finish").at = "finish" /\ Going(j, "finish").kind = "receive"
      /\ Going(j, "finish").msg = j.msg
      BY <1>1, <1>2, WorkIs, WorkGoes
<1>4. Work(s)' = Going(j, "finish") /\ \A u \in Side \ {s} : job'[u] = job[u]
      BY <1>2, BegunIs DEF KInv
<1>5. Aside(s) /\ Loaded(s)' \subseteq Loaded(s) /\ Work(s)'.at # "store"
      BY RestIs DEF KInv
<1>6. /\ ~Sending(s) /\ ~Sending(s)' /\ Receiving(s) /\ Receiving(s)' /\ Work(s)'.msg = Work(s).msg
      /\ \A u \in Side \ {s} : /\ Work(u)' = Work(u) /\ (Sending(u)' <=> Sending(u))
                               /\ (Receiving(u)' <=> Receiving(u))
      BY <1>2, <1>3, <1>4 DEF Sending, Receiving, Work
<1>7. \A u \in Side : Taken(u)' = Taken(u)
      BY <1>2, <1>3, <1>4, <1>6 DEF Taken
<1>8. \A u \in Side : Fewer(u)
      BY <1>2, <1>5, <1>6 DEF Fewer, Aside
<1>9. \A u \in Side : \A q : Spent(u, q) => Spent(u, q)'
  <2>1. \A u \in Side : preKeys'[u] = IF u = s THEN preKeys[s] \ {j.pid} ELSE preKeys[u]
        BY <1>2 DEF TInv, PreKeysKept
  <2>2. QED
        BY <1>6, <2>1 DEF Spent
<1>10. IdsOnce'
  <2>1. \A u \in Side : Sending(u)' => Sending(u) /\ Work(u)'.msg.id = Work(u).msg.id
        BY <1>6
  <2>2. QED
        BY <1>2, <2>1, SideIs DEF DInv, IdsOnce
<1>11. GotOnce'
       BY <1>2, <1>6 DEF DInv, GotOnce
<1>12. TakenShut' /\ OneBase' /\ SInv'
       BY <1>2, <1>4, <1>5, <1>7, <1>8, <1>9, KeepOnce
<1>13. QED
       BY <1>10, <1>11, <1>12 DEF DInv

\* A crash forgets work; where crashes are excluded there is none.
LEMMA CrashOnce ==
    ASSUME TInv, KInv, DInv, NEW s \in Side, Crash(s)
    PROVE  DInv'
<1>1. /\ UNCHANGED <<sess, preKeys, stock, network, got, inits>> /\ crashes < MaxCrash
      /\ job' = [job EXCEPT ![s] = [t \in Thread |-> Idle]]
      BY DEF Crash
<1>2. ~NoCrash
      BY <1>1 DEF NoCrash, TInv, Counted
<1>3. Aside(s) /\ Loaded(s)' \subseteq Loaded(s) /\ Work(s)'.at # "store" /\ \A u \in Side \ {s} : job'[u] = job[u]
      BY RestIs DEF KInv
<1>4. Work(s)' = Idle
      BY <1>1 DEF Work, Thread, TInv, Jobs
<1>5. /\ ~Sending(s)' /\ ~Receiving(s)'
      /\ \A u \in Side \ {s} : Work(u)' = Work(u) /\ (Sending(u)' <=> Sending(u)) /\ (Receiving(u)' <=> Receiving(u))
      BY <1>3, <1>4 DEF Sending, Receiving, Work, Idle
<1>6. \A u \in Side : Taken(u)' \subseteq Taken(u)
      BY <1>1, <1>5 DEF Taken
<1>7. \A u \in Side : Fewer(u)
      BY <1>1, <1>3, <1>5 DEF Fewer, Aside
<1>8. IdsOnce'
  <2>1. \A u \in Side : Sending(u)' => Sending(u) /\ Work(u)'.msg.id = Work(u).msg.id
        BY <1>5
  <2>2. QED
        BY <1>1, <2>1, SideIs DEF DInv, IdsOnce
<1>9. GotOnce'
      BY <1>1, <1>5 DEF DInv, GotOnce
<1>10. TakenShut' /\ OneBase' /\ SInv'
       BY <1>1, <1>2, <1>3, <1>6, <1>7, KeepOnce
<1>11. QED
       BY <1>8, <1>9, <1>10 DEF DInv

\* What finishes was not there before: an abstract send, a delivery, or a stutter.
Sent == {m.id : m \in network}

\* What finishing does, and that its message has not gone out or was not taken.
LEMMA FinishIs ==
    ASSUME TInv, KInv, DInv, NEW s \in Side, Finish(s, "net")
    PROVE  LET j == Work(s) IN
           /\ Begin(s, "net", Idle) /\ j.at = "finish" /\ j.kind \in {"send", "session", "receive"}
           /\ UNCHANGED <<sess, preKeys, stock, inits>>
           /\ network' = IF j.kind = "send" THEN network \cup {j.msg} ELSE network
           /\ got' = IF j.kind = "receive" THEN [got EXCEPT ![j.msg.id] = 1] ELSE got
           /\ j.kind = "send" => /\ Sending(s) /\ j.msg.by = s /\ j.msg.id \in Id /\ got[j.msg.id] = 0
                                 /\ \A m \in network : m.id # j.msg.id
           /\ j.kind = "receive" => /\ Receiving(s) /\ j.msg.by = Peer(s) /\ j.msg.id \in Id
                                    /\ got[j.msg.id] = 0 /\ j.msg \in network
<1> DEFINE j == Work(s)
<1>1. j \in Job(s) /\ job[s]["net"] = j
      BY LoadedIs DEF Work
<1>2. /\ Begin(s, "net", Idle) /\ j.at = "finish" /\ UNCHANGED <<sess, preKeys, stock, inits>>
      /\ network' = IF j.kind = "send" THEN network \cup {j.msg} ELSE network
      /\ got' = IF j.kind = "receive" THEN [got EXCEPT ![j.msg.id] = @ + 1] ELSE got
      BY <1>1 DEF Finish, counters
<1>3. j.kind \in {"send", "session", "receive"}
      BY <1>1, <1>2, WorkIs
<1>4. 1..(nextId - 1) \subseteq Id
      BY Bounds DEF Id, TInv, Counted
<1>5. ASSUME j.kind = "send"
      PROVE  /\ Sending(s) /\ j.msg.by = s /\ j.msg.id \in Id /\ got[j.msg.id] = 0
             /\ \A m \in network : m.id # j.msg.id
  <2>1. Sending(s)
        BY <1>2, <1>5 DEF Sending
  <2>2. j.msg.by = s /\ j.msg.id \in Id
        BY <1>4, <2>1, LoadedIs DEF Encrypted, MessageOf
  <2>3. \A m \in network : m.id # j.msg.id
        BY <2>1 DEF DInv, IdsOnce
  <2>4. got[j.msg.id] = 0
        BY <2>2, <2>3 DEF DInv, GotOnce
  <2>5. QED
        BY <2>1, <2>2, <2>3, <2>4
<1>6. ASSUME j.kind = "receive"
      PROVE  /\ Receiving(s) /\ j.msg.by = Peer(s) /\ j.msg.id \in Id
             /\ got[j.msg.id] = 0 /\ j.msg \in network
  <2>1. Receiving(s)
        BY <1>2, <1>6 DEF Receiving
  <2>2. j.msg.by = Peer(s) /\ j.msg.id \in Id /\ j.msg \in network
        BY <1>4, <2>1, LoadedIs DEF Encrypted, MessageOf
  <2>3. got[j.msg.id] = 0
        BY <2>1 DEF DInv, GotOnce
  <2>4. QED
        BY <2>1, <2>2, <2>3
<1>7. got' = IF j.kind = "receive" THEN [got EXCEPT ![j.msg.id] = 1] ELSE got
  <2>1. CASE j.kind = "receive"
    <3>1. got[j.msg.id] + 1 = 1
          BY <1>6, <2>1
    <3>2. got' = [got EXCEPT ![j.msg.id] = got[j.msg.id] + 1]
          BY <1>2, <2>1
    <3>3. QED
          BY <2>1, <3>1, <3>2
  <2>2. CASE j.kind # "receive"
        BY <1>2, <2>2
  <2>3. QED
        BY <2>1, <2>2
<1>8. QED
      BY <1>2, <1>3, <1>5, <1>6, <1>7

\* Finishing keeps what at-most-once rests on.
LEMMA FinishOnce ==
    ASSUME TInv, KInv, DInv, NEW s \in Side, Finish(s, "net")
    PROVE  DInv'
<1> DEFINE j == Work(s)
           p == Peer(s)
<1>1. /\ Begin(s, "net", Idle) /\ j.at = "finish" /\ j.kind \in {"send", "session", "receive"}
      /\ UNCHANGED <<sess, preKeys, stock, inits>>
      /\ network' = IF j.kind = "send" THEN network \cup {j.msg} ELSE network
      /\ got' = IF j.kind = "receive" THEN [got EXCEPT ![j.msg.id] = 1] ELSE got
      BY FinishIs
<1>2. j.kind = "send" => /\ Sending(s) /\ j.msg.by = s /\ j.msg.id \in Id /\ got[j.msg.id] = 0
                         /\ \A m \in network : m.id # j.msg.id
      BY FinishIs
<1>3. j.kind = "receive" => /\ Receiving(s) /\ j.msg.by = p /\ j.msg.id \in Id
                            /\ got[j.msg.id] = 0 /\ j.msg \in network
      BY FinishIs
<1>4. Aside(s) /\ Loaded(s)' \subseteq Loaded(s) /\ Work(s)'.at # "store" /\ \A u \in Side \ {s} : job'[u] = job[u]
      BY RestIs DEF KInv
<1>5. Work(s)' = Idle
      BY <1>1, BegunIs DEF KInv
<1>6. /\ ~Sending(s)' /\ ~Receiving(s)' /\ (Receiving(s) <=> j.kind = "receive") /\ (Sending(s) <=> j.kind = "send")
      /\ \A u \in Side \ {s} : Work(u)' = Work(u) /\ (Sending(u)' <=> Sending(u)) /\ (Receiving(u)' <=> Receiving(u))
      BY <1>1, <1>4, <1>5 DEF Sending, Receiving, Work, Idle
<1>7. p \in Side /\ p # s /\ Peer(p) = s /\ Side = {s, p}
      BY DEF Peer, Side
<1>8. \A i \in Id : got'[i] = IF j.kind = "receive" /\ i = j.msg.id THEN 1 ELSE got[i]
      BY <1>1 DEF TInv, Messages
<1>9. \A m \in network' : m.id \in Id
  <2>1. 1..(nextId - 1) \subseteq Id
        BY Bounds DEF Id, TInv, Counted
  <2>2. \A m \in network : m.id \in Id
        BY <2>1 DEF TInv, Messages, Encrypted, MessageOf
  <2>3. QED
        BY <1>1, <1>2, <2>2
<1> HIDE DEF j, p
<1>10. \A m \in network' : got'[m.id] = 1 => m \in network /\ (got[m.id] = 1 \/ (j.kind = "receive" /\ m = j.msg))
       BY <1>1, <1>2, <1>3, <1>8, <1>9 DEF DInv, IdsOnce
<1>11. \A u \in Side : Taken(u)' \subseteq Taken(u)
  <2>1. Taken(s)' = {m \in network' : m.by = p /\ got'[m.id] = 1}
        BY <1>6 DEF Taken, p
  <2>2. \A m \in Taken(s)' : m \in Taken(s)
    <3>1. Taken(s) = {m \in network : m.by = p /\ got[m.id] = 1} \cup (IF j.kind = "receive" THEN {j.msg} ELSE {})
          BY <1>1, <1>6 DEF Taken, p, j
    <3>2. QED
          BY <1>10, <2>1, <3>1
  <2>3. \A m \in Taken(p)' : m \in Taken(p)
    <3>1. {m \in network' : m.by = s /\ got'[m.id] = 1} \subseteq {m \in network : m.by = s /\ got[m.id] = 1}
          BY <1>3, <1>7, <1>10
    <3>2. QED
          BY <1>6, <1>7, <3>1 DEF Taken
  <2>4. QED
        BY <1>7, <2>2, <2>3
<1>12. \A u \in Side : Fewer(u)
       BY <1>1, <1>2, <1>4, <1>6 DEF Fewer, Aside, j
<1>13. \A u \in Side : \A q : Spent(u, q) => Spent(u, q)'
       BY <1>1, <1>6 DEF Spent, j
<1>14. IdsOnce'
  <2>1. \A m, n \in network' : m.id = n.id => m = n
        BY <1>1, <1>2 DEF DInv, IdsOnce
  <2>2. \A u \in Side : Sending(u)' => u = p /\ Sending(p) /\ Work(p)'.msg = Work(p).msg
        BY <1>6, <1>7
  <2>3. Sending(p) => \A m \in network' : m.id # Work(p).msg.id
        BY <1>1, <1>2, <1>7 DEF DInv, IdsOnce, j
  <2>4. \A u \in Side : Sending(u)' => \A m \in network' : m.id # Work(u)'.msg.id
        BY <2>2, <2>3
  <2>5. \A u \in Side : Sending(u)' => ~Sending(Peer(u))'
        BY <1>6, <1>7, <2>2
  <2>6. QED
        BY <2>1, <2>4, <2>5 DEF IdsOnce
<1>15. GotOnce'
  <2>1. \A i \in Id : got'[i] \in {0, 1} /\ (got'[i] = 1 => \E m \in network' : m.id = i)
        BY <1>1, <1>3, <1>8 DEF DInv, GotOnce
  <2>2. Receiving(p) => got'[Work(p).msg.id] = 0
    <3> SUFFICES ASSUME Receiving(p) PROVE got'[Work(p).msg.id] = 0
        OBVIOUS
    <3>1. Work(p).msg \in network /\ Work(p).msg.by = s /\ got[Work(p).msg.id] = 0
          BY <1>7, LoadedIs DEF DInv, GotOnce, Encrypted, MessageOf
    <3>2. Work(p).msg.id \in Id
          BY <1>1, <1>9, <3>1
    <3>3. j.kind = "receive" => j.msg.id # Work(p).msg.id
          BY <1>3, <1>7, <3>1 DEF DInv, IdsOnce
    <3>4. QED
          BY <1>8, <3>1, <3>2, <3>3
  <2>3. \A u \in Side : Receiving(u)' => got'[Work(u)'.msg.id] = 0
        BY <1>6, <1>7, <2>2
  <2>4. QED
        BY <2>1, <2>3 DEF GotOnce
<1>16. TakenShut' /\ OneBase' /\ SInv'
  <2>1. sess' = sess /\ inits' = inits /\ stock' = stock
        BY <1>1
  <2>2. QED
        BY <1>4, <1>11, <1>12, <1>13, <2>1, KeepOnce
<1>17. QED
       BY <1>14, <1>15, <1>16 DEF DInv

\* Nothing was sent or taken at first, and the server has all pre-keys.
LEMMA OnceInit == Init => DInv
<1> SUFFICES ASSUME Init PROVE DInv
    OBVIOUS
<1>1. /\ \A s \in Side : Work(s) = Idle /\ sess[s] = <<>> /\ stock[s] = 1..OneTime
      /\ network = {} /\ inits = 0 /\ \A i \in Id : got[i] = 0
      BY DEF Init, Work, Thread
<1>2. \A s \in Side : Loaded(s) = {<<>>} /\ Taken(s) = {} /\ ~Sending(s) /\ ~Receiving(s)
      BY <1>1 DEF Loaded, Taken, Sending, Receiving, Idle
<1>3. IdsOnce /\ GotOnce
      BY <1>1, <1>2, SideIs DEF IdsOnce, GotOnce
<1>4. TakenShut /\ OneBase
      BY <1>2 DEF TakenShut, OneBase
<1>5. Bases(<<>>) = {}
      BY DEF Bases
<1>6. Stays
  <2>1. ASSUME NEW s \in Side PROVE BasesOf(s) = {}
    <3>1. ASSUME NEW b \in BasesOf(s) PROVE FALSE
      <4>1. b \in Gathered({<<>>}, {}, s, {})
            BY <1>1, <1>2, <3>1 DEF BasesOf
      <4>2. QED
            BY <1>5, <4>1, GatheredAre
    <3>2. QED
          BY <3>1
  <2>2. AllBases = {}
        BY <2>1 DEF AllBases, Side
  <2>3. IsFiniteSet(AllBases) /\ Cardinality(AllBases) <= inits
        BY <1>1, <2>2, FS_EmptySet
  <2>4. QED
        BY <1>1, <1>2, <2>3 DEF Stays, Idle
<1>7. OneHello /\ SpentKeys
  <2>1. ASSUME NEW s \in Side PROVE Hellos(s) = {}
    <3>1. ASSUME NEW h \in Hellos(s) PROVE FALSE
      <4>1. h \in Greetings({<<>>}, {}, s, {})
            BY <1>1, <1>2, <3>1 DEF Hellos
      <4>2. QED
            BY <4>1, GreetingsAre
    <3>2. QED
          BY <3>1
  <2>2. QED
        BY <2>1, SideIs DEF OneHello, SpentKeys
<1>8. Plenty
  <2>1. Cardinality(1..OneTime) = OneTime
        BY FS_Interval, Bounds
  <2>2. QED
        BY <1>1, <2>1, Bounds DEF Plenty
<1>9. QED
      BY <1>3, <1>4, <1>6, <1>7, <1>8 DEF DInv, SInv

\* Starting work keeps what at-most-once rests on.
LEMMA StartOnce ==
    ASSUME TInv, KInv, DInv, NEW s \in Side, NEW work, NEW st, NEW i,
           Starts(s, work, st, i), Moves(s, work, st, i)
    PROVE  DInv'
<1>1. /\ work.kind = "send" => work.msg.id = nextId
      /\ work.kind = "receive" => got[work.msg.id] = 0 /\ st.base = work.msg.base /\ Shut(st, work.msg)
      BY DEF Moves, StartsSession, StartsSend, StartsReceive
<1>2. IdsOnce' /\ GotOnce'
      BY <1>1, StartIds
<1>3. TakenShut' /\ OneBase'
      BY <1>1, StartShut
<1>4. RoomForAll => Stays'
      BY StartStays
<1>5. NoCrash => OneHello' /\ SpentKeys' /\ Plenty'
      BY StartSpent
<1>6. (RoomForAll <=> RoomForAll') /\ (NoCrash <=> NoCrash')
      BY DEF RoomForAll, NoCrash
<1>7. QED
      BY <1>2, <1>3, <1>4, <1>5, <1>6 DEF DInv, SInv

\* Every step keeps what at-most-once rests on.
LEMMA OnceStep == TInv /\ KInv /\ DInv /\ Enough /\ [Next]_vars => DInv'
<1> SUFFICES ASSUME TInv, KInv, DInv, Enough, [Next]_vars PROVE DInv'
    OBVIOUS
<1>1. OneThread /\ ~DirectSends
      BY DEF KInv, Enough
<1>2. ASSUME NEW s \in Side, ProcessBundle(s) PROVE DInv'
  <2> DEFINE st == BundleState(s)
             work == [at |-> "store", kind |-> "session", pid |-> None, rec |-> Archive(sess[s], st)]
  <2>1. Starts(s, work, st, 0) /\ StartsSession(s, work, st, 0)
        BY <1>2, StartsBundle
  <2> HIDE DEF work, st
  <2>2. QED
        BY <2>1, StartOnce DEF Moves
<1>3. ASSUME NEW s \in Side, NEW t \in Thread, Encrypt(s, t) PROVE DInv'
  <2> DEFINE first == sess[s][1]
             st == [first EXCEPT !.n = @ + 1]
             new == [sess[s] EXCEPT ![1].n = @ + 1]
             work == [at |-> "store", kind |-> "send", pid |-> None, rec |-> new, msg |-> Message(s, first)]
  <2>1. t = "net"
        BY <1>1, <1>3, NetWorks
  <2>2. Starts(s, work, st, 1) /\ StartsSend(s, work, st, 1)
        BY <1>3, <2>1, StartsEncrypt
  <2> HIDE DEF work, st
  <2>3. QED
        BY <2>2, StartOnce DEF Moves
<1>4. ASSUME NEW s \in Side, NEW m \in network, Decrypt(s, m) PROVE DInv'
  <2>1. PICK work, st, i : Starts(s, work, st, i) /\ StartsReceive(s, work, st, i)
        BY <1>4, StartsDecrypt
  <2>2. QED
        BY <2>1, StartOnce DEF Moves
<1>5. ASSUME NEW s \in Side, NEW t \in Thread, ThreadStep(s, t) PROVE DInv'
  <2>1. t = "net"
        BY <1>1, <1>5, NetWorks
  <2>2. QED
        BY <1>5, <2>1, StoreOnce, RemoveOnce, FinishOnce DEF ThreadStep
<1>6. ASSUME NEW s \in Side, Crash(s) PROVE DInv'
      BY <1>6, CrashOnce
<1>7. CASE UNCHANGED vars
  <2>1. /\ \A s \in Side : /\ Work(s)' = Work(s) /\ Loaded(s)' = Loaded(s) /\ (Sending(s)' <=> Sending(s))
                           /\ (Receiving(s)' <=> Receiving(s)) /\ Taken(s)' = Taken(s)
        /\ UNCHANGED <<sess, preKeys, stock, network, got, inits>>
        BY <1>7 DEF vars, local, counters, Loaded, Sending, Receiving, Taken, Work
  <2>2. IdsOnce' /\ GotOnce'
        BY <2>1, SideIs DEF DInv, IdsOnce, GotOnce
  <2>3. TakenShut' /\ OneBase'
        BY <2>1 DEF DInv, TakenShut, Shut, OneBase, Bases
  <2>4. /\ \A s \in Side : BasesOf(s)' = BasesOf(s) /\ Hellos(s)' = Hellos(s)
        /\ \A s \in Side : \A p : Spent(s, p)' <=> Spent(s, p)
        BY <2>1 DEF BasesOf, Hellos, Spent
  <2>5. RoomForAll => Stays'
    <3>1. AllBases' = AllBases
          BY <2>4 DEF AllBases, Side
    <3>2. SUFFICES ASSUME RoomForAll PROVE Stays'
          OBVIOUS
    <3>3. Stays
          BY <3>2 DEF DInv, SInv
    <3>4. (IsFiniteSet(AllBases) /\ Cardinality(AllBases) <= inits)'
          BY <2>1, <3>1, <3>3 DEF Stays
    <3>5. ASSUME NEW s \in Side
          PROVE  /\ \A m \in Taken(s)' : m.base \in Bases(sess'[s])
                 /\ Work(s)'.at = "store" => Bases(sess'[s]) \subseteq Bases(Work(s)'.rec)
      <4>1. Taken(s)' = Taken(s) /\ sess' = sess /\ Work(s)' = Work(s)
            BY <2>1
      <4>2. QED
            BY <3>3, <4>1 DEF Stays
    <3>6. QED
          BY <3>4, <3>5 DEF Stays, Bases
  <2>6. NoCrash => OneHello' /\ SpentKeys' /\ Plenty'
    <3>1. NoCrash => OneHello' /\ Plenty'
          BY <2>1, <2>4 DEF DInv, SInv, OneHello, Plenty
    <3>2. NoCrash => SpentKeys'
          BY <2>1, <2>4, SideIs DEF DInv, SInv, SpentKeys, Bases
    <3>3. QED
          BY <3>1, <3>2
  <2>7. QED
        BY <2>2, <2>3, <2>5, <2>6 DEF DInv, SInv
<1>8. QED
      BY <1>2, <1>3, <1>4, <1>5, <1>6, <1>7 DEF Next

\* Every step is an abstract one or changes nothing the application sees.
LEMMA StepRefines ==
    ASSUME TInv, KInv, DInv, ~DirectSends, [Next]_vars
    PROVE  [Abstract!Next]_<<Sent, got>>
<1>1. OneThread
      BY DEF KInv
<1>2. CASE network' = network /\ got' = got
      BY <1>2 DEF Sent
<1>3. ASSUME NEW s \in Side, Finish(s, "net") PROVE [Abstract!Next]_<<Sent, got>>
  <2> DEFINE j == Work(s)
  <2>1. /\ j.kind \in {"send", "session", "receive"}
        /\ network' = IF j.kind = "send" THEN network \cup {j.msg} ELSE network
        /\ got' = IF j.kind = "receive" THEN [got EXCEPT ![j.msg.id] = 1] ELSE got
        /\ j.kind = "send" => j.msg.id \in Id /\ \A m \in network : m.id # j.msg.id
        /\ j.kind = "receive" => j.msg.id \in Id /\ got[j.msg.id] = 0 /\ j.msg \in network
        BY <1>3, FinishIs
  <2> HIDE DEF j
  <2>2. CASE j.kind = "send"
    <3>1. Sent' = Sent \cup {j.msg.id} /\ j.msg.id \notin Sent /\ got' = got
          BY <2>1, <2>2 DEF Sent
    <3>2. ASSUME NEW i, i = j.msg.id PROVE Abstract!Send(i)
          BY <3>1, <3>2 DEF Abstract!Send, Sent
    <3>3. ASSUME NEW i \in Id, i = j.msg.id PROVE Abstract!Next
          BY <3>2, <3>3 DEF Abstract!Next
    <3>4. j.msg.id \in Id
          BY <2>1, <2>2
    <3>5. QED
          BY <3>3, <3>4
  <2>3. CASE j.kind = "receive"
    <3>1. Sent' = Sent /\ j.msg.id \in Sent
          BY <2>1, <2>3 DEF Sent
    <3>2. Abstract!Deliver(j.msg.id)
          BY <2>1, <2>3, <3>1 DEF Abstract!Deliver, Sent
    <3>3. QED
          BY <2>1, <2>3, <3>2 DEF Abstract!Next
  <2>4. CASE j.kind = "session"
        BY <1>2, <2>1, <2>4
  <2>5. QED
        BY <2>1, <2>2, <2>3, <2>4
<1>4. ASSUME NEW s \in Side, NEW t \in Thread, ThreadStep(s, t) PROVE [Abstract!Next]_<<Sent, got>>
  <2>1. t = "net"
        BY <1>1, <1>4, NetWorks
  <2>2. CASE Finish(s, "net")
        BY <1>3, <2>2
  <2>3. CASE Store(s, "net") \/ RemovePreKey(s, "net")
        BY <1>2, <2>3 DEF Store, RemovePreKey
  <2>4. QED
        BY <1>4, <2>1, <2>2, <2>3 DEF ThreadStep
<1>5. CASE UNCHANGED vars
      BY <1>2, <1>5 DEF vars
<1>6. ASSUME NEW s \in Side, ProcessBundle(s) \/ (\E t \in Thread : Encrypt(s, t)) \/ (\E m \in network : Decrypt(s, m)) \/ Crash(s)
      PROVE  network' = network /\ got' = got
      BY <1>6 DEF ProcessBundle, Encrypt, Decrypt, Crash
<1>7. QED
      BY <1>2, <1>4, <1>5, <1>6 DEF Next

\* A conversation implements Delivery: a message is handed to the application at most once, and only
\* after it was sent, however often and in whatever order the network brings it; where
\* the archive has room for every session, or nothing crashes and there is a one-time
\* pre-key for each, whose removal then stops a repeat of a message whose state was dropped.
THEOREM OnceDelivered == ~DirectSends /\ (RoomForAll \/ NoCrash) => (Spec => AtMostOnce)
<1> SUFFICES ASSUME Enough PROVE Spec => AtMostOnce
    BY DEF Enough
<1>1. ~DirectSends
      BY DEF Enough
<1>2. Init => TInv /\ KInv /\ DInv
      BY TypeInit, KeysInit, OnceInit
<1>3. (TInv /\ KInv /\ DInv) /\ [Next]_vars => (TInv /\ KInv /\ DInv)'
      BY <1>1, TypeStep, KeysStep, OnceStep
<1>4. Init => Abstract!Init
      BY DEF Init, Abstract!Init
<1>5. TInv /\ KInv /\ DInv /\ [Next]_vars => [Abstract!Next]_<<Sent, got>>
      BY <1>1, StepRefines
<1>6. QED
      BY <1>2, <1>3, <1>4, <1>5, PTL DEF Spec, AtMostOnce, Abstract!Spec, Sent

-----------------------------------------------------------------------------
(* Nothing is lost.  The two sides' ratchets take turns: whatever a side   *)
(* sends is under a chain that the peer has, or under the one that the     *)
(* peer's own ratchet key makes next.                                      *)

\* A side's states, the messages it made and the messages it had: as they will be when the
\* work that is going on is done.
Latest(s) == IF Work(s).at = "store" THEN Work(s).rec ELSE sess[s]
States(s) == Range(Latest(s))
Made(s) == {m \in network : m.by = s} \cup (IF Sending(s) THEN {Work(s).msg} ELSE {})
Had(s) ==
    {m \in network : m.by = Peer(s) /\ got[m.id] = 1} \cup (IF Receiving(s) THEN {Work(s).msg} ELSE {})

NoneOf(S, b) == \A o \in S : o.base # b

\* What is encrypted with the ratchet keys eph and with can be decrypted: by a chain that
\* o has, or by the one that it would make.
Follows(eph, with, o) ==
    /\ \A c \in Range(o.chains) : c.eph = eph => c.with = with
    /\ ~HasChain(o, eph) => o.us = with

\* The peer's state o decrypts what the state st encrypts next ...
Meets(st, o) ==
    /\ Follows(st.us, st.theirs, o)
    /\ \A c \in Range(o.chains) : c.eph = st.us => c.next <= st.n
\* ... and the message m, unless it is among those in H, which the peer had.  A message from a
\* chain that its sender, with states R, has left belongs to a chain that the peer has.
Reaches(m, R, o, H) ==
    /\ Follows(m.eph, m.with, o)
    /\ \A c \in Range(o.chains) : c.eph = m.eph => m \in H \/ m.ctr >= c.next \/ m.ctr \in c.saved
    /\ HasChain(o, m.eph) \/ \A st \in R : st.base = m.base => m.eph = st.us

\* What the state st of the side p encrypts: whether the peer has a state for it, as S does,
\* or must make one.
CanSend(p, st, S) ==
    /\ HasChain(st, st.theirs)
    /\ NoneOf(S, st.base) => st.pk /\ st.theirs = SignedPreKey(Peer(p))
    /\ \A o \in S : o.base = st.base => Meets(st, o)
\* What the side p, with states R, did encrypt.
CanOpen(p, m, R, S, H) ==
    /\ ~NoneOf(R, m.base)
    /\ \A st \in R : st.base = m.base => HasChain(st, m.with)
    /\ NoneOf(S, m.base) =>
          /\ m.pk /\ m.with = SignedPreKey(Peer(p))
          /\ \A st \in R : st.base = m.base => m.eph = st.us
    /\ \A o \in S : o.base = m.base => Reaches(m, R, o, H)
Carries(p, R, M, S, H) ==
    (\A st \in R : CanSend(p, st, S)) /\ (\A m \in M : CanOpen(p, m, R, S, H))

\* A ratchet key is of one session, and not a signed pre-key.
KeysApart(R, M, S) ==
    /\ \A st \in R, m \in M : m.eph = st.us => m.base = st.base
    /\ \A m \in M, n \in M : m.eph = n.eph => m.base = n.base
    /\ \A o \in S : \A c \in Range(o.chains) :
          (\A st \in R : c.eph = st.us => o.base = st.base) /\ (\A m \in M : c.eph = m.eph => o.base = m.base)
    /\ (\A st \in R : st.us > 2) /\ (\A m \in M : m.eph > 2)

\* There are no more chains than messages that made them, nor keys used than messages.
Few(next, R, M, H) ==
    /\ \A st \in R : st.n < next /\ Len(st.chains) <= 1 + Cardinality(H)
    /\ \A m \in M : m.ctr + 1 < next

\* The pre-key of a session that the peer does not have is in its store, and no other's.
PreKeyThere(R, M, S, P) ==
    \A h \in R \cup M : h.pk /\ h.pid # None /\ NoneOf(S, h.base) => h.pid \in P
OwnPreKey(R, M) ==
    \A h \in R \cup M, g \in R \cup M : h.pk /\ g.pk /\ h.pid = g.pid /\ h.pid # None => h.base = g.base
Removes(s) ==
    Receiving(s) =>
        /\ ~NoneOf(States(s), Work(s).msg.base)
        /\ Work(s).pid # None => Work(s).msg.pk /\ Work(s).msg.pid = Work(s).pid

LSide(s) ==
    /\ Carries(s, States(s), Made(s), States(Peer(s)), Had(Peer(s)))
    /\ KeysApart(States(s), Made(s), States(Peer(s)))
    /\ Few(nextId, States(s), Made(s), Had(s))
    /\ PreKeyThere(States(s), Made(s), States(Peer(s)), preKeys[Peer(s)])
    /\ OwnPreKey(States(s), Made(s)) /\ Removes(s)
LInv == \A s \in Side : LSide(s)

\* One thread, no crash, and room for every session ...
Roomy == ~DirectSends /\ RoomForAll /\ MaxCrash = 0
\* ... and for the chain of each message, none of which comes later than may be skipped.
RoomForKeys ==
    \A s \in Side, m \in network : m.by = Peer(s) =>
       /\ \A st \in States(s) : st.base = m.base => HasChain(st, m.eph) \/ Len(st.chains) < MaxChains
       /\ m.ctr <= MaxSkip

\* Decrypt would find the message's pre-key and a state that opens it ...
Decryptable(s, m) ==
    /\ m.pk \/ sess[s] # <<>>
    /\ m.pk /\ NoneOf(Range(sess[s]), m.base) /\ m.pid # None => m.pid \in preKeys[s]
    /\ Opening(Processed(s, sess[s], m), m) # {}
\* ... whenever the message was not handed on and the receiver's thread has nothing else to do.
NothingLost ==
    \A s \in Side, m \in network :
        m.by = Peer(s) /\ got[m.id] = 0 /\ Work(s) = Idle => Decryptable(s, m)

\* What using a key leaves of a chain's other keys.
LEMMA KeysLeft ==
    ASSUME NEW k \in Nat, NEW c \in ChainOf(k), NEW ctr \in Nat
    PROVE  LET d == Advanced(c, ctr) IN
           /\ \A n \in Nat : c.next <= n /\ ctr < n => d.next <= n
           /\ \A x \in Nat : x # ctr /\ (x >= c.next \/ x \in c.saved) => x >= d.next \/ x \in d.saved
<1>1. c.next \in Nat /\ c = [eph |-> c.eph, with |-> c.with, next |-> c.next, saved |-> c.saved]
      BY DEF ChainOf
<1>2. CASE ctr < c.next
  <2>1. Advanced(c, ctr) = [eph |-> c.eph, with |-> c.with, next |-> c.next, saved |-> c.saved \ {ctr}]
        BY <1>1, <1>2 DEF Advanced
  <2>2. QED
        BY <2>1
<1>3. CASE ~(ctr < c.next)
  <2>1. Advanced(c, ctr)
          = [eph |-> c.eph, with |-> c.with, next |-> ctr + 1, saved |-> c.saved \cup (c.next..(ctr - 1))]
        BY <1>1, <1>3 DEF Advanced
  <2>2. ASSUME NEW x \in Nat, x # ctr, x >= c.next \/ x \in c.saved
        PROVE  x >= ctr + 1 \/ x \in c.saved \cup (c.next..(ctr - 1))
        BY <1>1, <2>2
  <2>3. QED
        BY <2>1, <2>2
<1>4. QED
      BY <1>2, <1>3

\* A message of a known ratchet key changes its chain only.
LEMMA SameChain ==
    ASSUME nextKey \in Nat, NEW P, NEW st \in StateOf(nextKey, P), NEW m, m.eph \in 0..(nextKey - 1),
           m.ctr \in Nat, HasChain(st, m.eph)
    PROVE  LET new == Opened(st, m) IN
           /\ new.base = st.base /\ new.us = st.us /\ new.theirs = st.theirs /\ new.n = st.n /\ ~new.pk
           /\ Len(new.chains) = Len(st.chains)
           /\ \A c \in Range(new.chains) :
                 c = Advanced(Chain(st, m.eph), m.ctr) \/ (c \in Range(st.chains) /\ c.eph # m.eph)
           /\ \A e : HasChain(new, e) <=> HasChain(st, e)
<1> DEFINE c0 == Chain(st, m.eph)
           c == Advanced(c0, m.ctr)
           q == [x \in DOMAIN st.chains |-> IF st.chains[x].eph = c.eph THEN c ELSE st.chains[x]]
           new == Opened(st, m)
<1>1. c0 \in ChainOf(nextKey) /\ c0.eph = m.eph
      BY ChainIs
<1> HIDE DEF c0
<1>2. c.eph = m.eph
      BY <1>1, AdvancedIs
<1>3. new = [WithChain(st, c) EXCEPT !.pk = FALSE, !.pid = None]
      BY DEF Opened, c0
<1>4. WithChain(st, c) = [st EXCEPT !.chains = q]
      BY <1>2 DEF WithChain
<1> HIDE DEF c, new
<1>5. st.chains \in Seq(ChainOf(nextKey))
      BY DEF StateOf, ChainsOf
<1>6. /\ DOMAIN q = DOMAIN st.chains /\ DOMAIN st.chains = 1..Len(st.chains) /\ Len(st.chains) \in Nat
      /\ \A x \in DOMAIN q : q[x] = IF st.chains[x].eph = m.eph THEN c ELSE st.chains[x]
      BY <1>2, <1>5
<1> HIDE DEF q
<1>7. new = [base |-> st.base, us |-> st.us, theirs |-> st.theirs, n |-> st.n, pk |-> FALSE, pid |-> None,
             chains |-> q]
      BY <1>3, <1>4 DEF StateOf
<1>8. Len(q) = Len(st.chains)
      BY <1>6 DEF q
<1>9. \A e : HasChain(new, e) <=> HasChain(st, e)
      BY <1>2, <1>6, <1>7 DEF HasChain, Range
<1>10. \A d \in Range(q) : d = c \/ (d \in Range(st.chains) /\ d.eph # m.eph)
       BY <1>6 DEF Range
<1>11. /\ new.base = st.base /\ new.us = st.us /\ new.theirs = st.theirs /\ new.n = st.n /\ ~new.pk
       /\ new.chains = q
       BY <1>7
<1>12. QED
       BY <1>8, <1>9, <1>10, <1>11 DEF new, c, c0

\* A message of an unknown one adds a chain, and the answer will be under a new key.
LEMMA NewChain ==
    ASSUME nextKey \in Nat, NEW P, NEW st \in StateOf(nextKey, P), NEW m, m.eph \in 0..(nextKey - 1),
           m.ctr \in Nat, ~HasChain(st, m.eph), Len(st.chains) < MaxChains
    PROVE  LET new == Opened(st, m) IN
           /\ new.base = st.base /\ new.us = nextKey /\ new.theirs = m.eph /\ new.n = 0 /\ ~new.pk
           /\ Len(new.chains) = Len(st.chains) + 1
           /\ Range(new.chains) = Range(st.chains) \cup {Advanced(Chain(st, m.eph), m.ctr)}
<1> DEFINE c0 == Chain(st, m.eph)
           c == Advanced(c0, m.ctr)
           q == Lengthened(st.chains, c)
           new == Opened(st, m)
<1>1. c0 \in ChainOf(nextKey) /\ c0.eph = m.eph
      BY ChainIs
<1> HIDE DEF c0
<1>2. c \in ChainOf(nextKey) /\ c.eph = m.eph
      BY <1>1, AdvancedIs
<1>3. new = [WithChain(st, c) EXCEPT !.pk = FALSE, !.pid = None]
      BY DEF Opened, c0
<1>4. WithChain(st, c) = [st EXCEPT !.us = nextKey, !.theirs = c.eph, !.n = 0, !.chains = q]
      BY <1>2 DEF WithChain, Lengthened
<1> HIDE DEF c, new
<1>5. st.chains \in Seq(ChainOf(nextKey)) /\ Len(st.chains) \in Nat /\ Len(st.chains) + 1 <= MaxChains
      BY Bounds DEF StateOf, ChainsOf
<1>6. q = Append(st.chains, c)
  <2> DEFINE all == Append(st.chains, c)
  <2>1. all \in Seq(ChainOf(nextKey)) /\ Len(all) = Len(st.chains) + 1
        BY <1>2, <1>5
  <2> HIDE DEF all
  <2>2. Len(all) - MaxChains + 1 \in Int /\ Len(all) - MaxChains + 1 <= 1
        BY <1>5, <2>1, Bounds
  <2>3. Max({1, Len(all) - MaxChains + 1}) = 1
        BY <2>2, MaxIs
  <2>4. q = SubSeq(all, 1, Len(all))
        BY <2>3 DEF Lengthened, all
  <2>5. SubSeq(all, 1, Len(all)) = all
        BY <2>1
  <2>6. QED
        BY <2>4, <2>5 DEF all
<1> HIDE DEF q
<1>7. new = [base |-> st.base, us |-> nextKey, theirs |-> m.eph, n |-> 0, pk |-> FALSE, pid |-> None,
             chains |-> q]
      BY <1>2, <1>3, <1>4 DEF StateOf
<1>8. Len(q) = Len(st.chains) + 1 /\ Range(q) = Range(st.chains) \cup {c}
  <2>1. /\ q \in Seq(ChainOf(nextKey)) /\ Len(q) = Len(st.chains) + 1 /\ q[Len(st.chains) + 1] = c
        /\ \A x \in 1..Len(st.chains) : q[x] = st.chains[x]
        BY <1>2, <1>5, <1>6
  <2>2. DOMAIN q = 1..(Len(st.chains) + 1) /\ DOMAIN st.chains = 1..Len(st.chains)
        BY <1>5, <2>1
  <2>3. \A x \in 1..(Len(st.chains) + 1) : x \in 1..Len(st.chains) \/ x = Len(st.chains) + 1
        BY <1>5
  <2>4. 1..Len(st.chains) \subseteq 1..(Len(st.chains) + 1) /\ Len(st.chains) + 1 \in 1..(Len(st.chains) + 1)
        BY <1>5
  <2>5. QED
        BY <2>1, <2>2, <2>3, <2>4 DEF Range
<1>9. QED
      BY <1>7, <1>8 DEF new, c, c0

\* What a chain of a state decrypts, the state that m was read with still does: the chain of m
\* is ahead of m only, and of no message that the peer did not encrypt.
LEMMA ReadOn ==
    ASSUME nextKey \in Nat, NEW p, NEW next, NEW P, NEW Q,
           NEW R \in SUBSET StateOf(nextKey, P), NEW M \in SUBSET MessageOf(p, nextKey, next, P), NEW H,
           NEW o \in StateOf(nextKey, Q), NEW m \in M, Opens(o, m),
           \A A \in R : A.base = m.base => Meets(A, o),
           \A n \in M : n.base = m.base => Reaches(n, R, o, H),
           \A A \in R : m.eph = A.us => m.ctr < A.n,
           \A n \in M : n.eph = m.eph /\ n.ctr = m.ctr => n = m,
           ~NoneOf(R, m.base), ~HasChain(o, m.eph) => Len(o.chains) < MaxChains
    PROVE  LET st == Opened(o, m) IN
           /\ \A A \in R : A.base = m.base => Meets(A, st)
           /\ \A n \in M : n.base = m.base => Reaches(n, R, st, H \cup {m})
<1> DEFINE st == Opened(o, m)
           c0 == Chain(o, m.eph)
           c == Advanced(c0, m.ctr)
<1>1. m.eph \in 0..(nextKey - 1) /\ m.ctr \in Nat /\ \A n \in M : n.ctr \in Nat
      BY DEF MessageOf
<1>2. /\ c0 \in ChainOf(nextKey) /\ c0.eph = m.eph /\ (HasChain(o, m.eph) => c0 \in Range(o.chains))
      /\ (~HasChain(o, m.eph) => c0.with = o.us /\ c0.next = 0)
      BY <1>1, ChainIs DEF Range
<1>3. m.base = o.base /\ m.with = c0.with
      BY DEF Opens
<1>4. c.eph = m.eph /\ c.with = c0.with
      BY <1>1, <1>2, AdvancedIs
<1>5. /\ \A n \in Nat : c0.next <= n /\ m.ctr < n => c.next <= n
      /\ \A x \in Nat : x # m.ctr /\ (x >= c0.next \/ x \in c0.saved) => x >= c.next \/ x \in c.saved
      BY <1>1, <1>2, KeysLeft
<1>6. \A A \in R : A.n \in Nat
      BY DEF StateOf
<1>7. Reaches(m, R, o, H)
      OBVIOUS
<1>8. CASE HasChain(o, m.eph)
  <2>1. /\ st.us = o.us /\ \A d \in Range(st.chains) : d = c \/ (d \in Range(o.chains) /\ d.eph # m.eph)
        /\ \A e : HasChain(st, e) <=> HasChain(o, e)
        BY <1>1, <1>8, SameChain
  <2> HIDE DEF st, c, c0
  <2>2. c0 \in Range(o.chains)
        BY <1>2, <1>8
  <2>3. ASSUME NEW e, NEW w, Follows(e, w, o) PROVE Follows(e, w, st)
        BY <1>2, <1>4, <2>1, <2>2, <2>3 DEF Follows
  <2>4. ASSUME NEW A \in R, A.base = m.base PROVE Meets(A, st)
    <3>1. Follows(A.us, A.theirs, o) /\ \A d \in Range(o.chains) : d.eph = A.us => d.next <= A.n
          BY <2>4 DEF Meets
    <3>2. c.eph = A.us => c.next <= A.n
          BY <1>2, <1>4, <1>5, <1>6, <2>2, <3>1
    <3>3. QED
          BY <2>1, <2>3, <3>1, <3>2 DEF Meets
  <2>5. ASSUME NEW n \in M, n.base = m.base PROVE Reaches(n, R, st, H \cup {m})
    <3>1. /\ Follows(n.eph, n.with, o)
          /\ \A d \in Range(o.chains) : d.eph = n.eph => n \in H \/ n.ctr >= d.next \/ n.ctr \in d.saved
          /\ HasChain(o, n.eph) \/ \A A \in R : A.base = n.base => n.eph = A.us
          BY <2>5 DEF Reaches
    <3>2. c.eph = n.eph => n \in H \cup {m} \/ n.ctr >= c.next \/ n.ctr \in c.saved
          BY <1>1, <1>2, <1>4, <1>5, <2>2, <3>1
    <3>3. QED
          BY <2>1, <2>3, <3>1, <3>2 DEF Reaches
  <2>6. QED
        BY <2>4, <2>5 DEF st
<1>9. CASE ~HasChain(o, m.eph)
  <2>1. Range(st.chains) = Range(o.chains) \cup {c}
        BY <1>1, <1>9, NewChain
  <2> HIDE DEF st, c, c0
  <2>2. \A e : HasChain(st, e) <=> HasChain(o, e) \/ e = m.eph
        BY <1>4, <2>1 DEF HasChain
  <2>3. \A A \in R : A.base = m.base => A.us = m.eph
        BY <1>7, <1>9 DEF Reaches
  <2>4. o.us = m.with
        BY <1>2, <1>3, <1>9
  <2>5. \A d \in Range(o.chains) : d.eph # m.eph
        BY <1>9 DEF HasChain
  <2>6. ASSUME NEW A \in R, A.base = m.base PROVE Meets(A, st)
    <3>1. A.us = m.eph /\ A.theirs = o.us
          BY <1>9, <2>3, <2>6 DEF Meets, Follows
    <3>2. c.next <= A.n
          BY <1>2, <1>5, <1>6, <1>9, <3>1
    <3>3. QED
          BY <1>3, <1>4, <2>1, <2>2, <2>4, <2>5, <3>1, <3>2 DEF Meets, Follows
  <2>7. ASSUME NEW n \in M, n.base = m.base PROVE Reaches(n, R, st, H \cup {m})
    <3>1. /\ Follows(n.eph, n.with, o)
          /\ \A d \in Range(o.chains) : d.eph = n.eph => n \in H \/ n.ctr >= d.next \/ n.ctr \in d.saved
          /\ HasChain(o, n.eph) \/ \A A \in R : A.base = n.base => n.eph = A.us
          BY <2>7 DEF Reaches
    <3>2. CASE HasChain(o, n.eph)
      <4>1. n.eph # m.eph
            BY <1>9, <3>2
      <4>2. QED
            BY <1>4, <2>1, <2>2, <3>1, <3>2, <4>1 DEF Reaches, Follows
    <3>3. CASE ~HasChain(o, n.eph)
      <4>1. n.eph = m.eph
            BY <2>3, <2>7, <3>1, <3>3 DEF NoneOf
      <4>2. n.with = o.us
            BY <3>1, <3>3 DEF Follows
      <4>3. n \in H \cup {m} \/ n.ctr >= c.next \/ n.ctr \in c.saved
            BY <1>1, <1>2, <1>5, <1>9, <4>1
      <4>4. Follows(n.eph, n.with, st)
            BY <1>3, <1>4, <2>1, <2>2, <2>4, <2>5, <4>1, <4>2 DEF Follows
      <4>5. \A d \in Range(st.chains) : d.eph = n.eph => n \in H \cup {m} \/ n.ctr >= d.next \/ n.ctr \in d.saved
            BY <2>1, <2>5, <4>1, <4>3
      <4>6. HasChain(st, n.eph)
            BY <2>2, <4>1
      <4>7. QED
            BY <4>4, <4>5, <4>6 DEF Reaches
    <3>4. QED
          BY <3>2, <3>3
  <2>8. QED
        BY <2>6, <2>7 DEF st
<1>10. QED
       BY <1>8, <1>9

\* What the state of s that read m encrypts next can be decrypted by its peer, whose states are R;
\* what s encrypted before belongs to chains that the peer has, when the chain is new.
LEMMA AnswersOn ==
    ASSUME nextKey \in Nat, NEW s, NEW p, NEW next, NEW P, NEW Q,
           NEW R \in SUBSET StateOf(nextKey, P), NEW o \in StateOf(nextKey, Q),
           NEW m \in MessageOf(p, nextKey, next, P), NEW N, Opens(o, m),
           ~NoneOf(R, m.base), \A A \in R : A.base = m.base => HasChain(A, m.with),
           HasChain(o, m.eph) => CanSend(s, o, R),
           ~HasChain(o, m.eph) => Len(o.chains) < MaxChains /\ \A A \in R : A.base = m.base => m.eph = A.us,
           \A n \in N : n.base = m.base =>
              /\ HasChain(o, n.with)
              /\ \A A \in R : A.base = m.base => HasChain(A, n.eph) \/ n.eph = o.us
    PROVE  LET st == Opened(o, m) IN
           /\ CanSend(s, st, R)
           /\ \A n \in N : n.base = m.base =>
                 /\ HasChain(st, n.with)
                 /\ \A A \in R : A.base = m.base => HasChain(A, n.eph) \/ n.eph = st.us
<1> DEFINE st == Opened(o, m)
           c0 == Chain(o, m.eph)
           c == Advanced(c0, m.ctr)
<1>1. m.eph \in 0..(nextKey - 1) /\ m.ctr \in Nat
      BY DEF MessageOf
<1>2. /\ c0 \in ChainOf(nextKey) /\ c0.eph = m.eph /\ (~HasChain(o, m.eph) => c0.with = o.us)
      BY <1>1, ChainIs
<1>3. m.base = o.base /\ m.with = c0.with
      BY DEF Opens
<1>4. c.eph = m.eph
      BY <1>1, <1>2, AdvancedIs
<1>5. CASE HasChain(o, m.eph)
  <2>1. /\ st.us = o.us /\ st.theirs = o.theirs /\ st.n = o.n /\ st.base = o.base
        /\ \A e : HasChain(st, e) <=> HasChain(o, e)
        BY <1>1, <1>5, SameChain
  <2> HIDE DEF st, c, c0
  <2>2. CanSend(s, st, R)
        BY <1>3, <1>5, <2>1 DEF CanSend, Meets
  <2>3. QED
        BY <2>1, <2>2 DEF st
<1>6. CASE ~HasChain(o, m.eph)
  <2>1. /\ st.us = nextKey /\ st.theirs = m.eph /\ st.n = 0 /\ st.base = o.base
        /\ Range(st.chains) = Range(o.chains) \cup {c}
        BY <1>1, <1>6, NewChain
  <2> HIDE DEF st, c, c0
  <2>2. \A e : HasChain(st, e) <=> HasChain(o, e) \/ e = m.eph
        BY <1>4, <2>1 DEF HasChain
  <2>3. ASSUME NEW A \in R, A.base = st.base PROVE Meets(st, A)
    <3>1. \A d \in Range(A.chains) : d.eph # nextKey
      <4>1. A.chains \in Seq(ChainOf(nextKey))
            BY DEF StateOf, ChainsOf
      <4>2. \A d \in Range(A.chains) : d \in ChainOf(nextKey)
            BY <4>1 DEF Range
      <4>3. QED
            BY <4>2 DEF ChainOf
    <3>2. A.us = m.eph
          BY <1>3, <1>6, <2>1, <2>3
    <3>3. QED
          BY <2>1, <3>1, <3>2 DEF Meets, Follows
  <2>4. CanSend(s, st, R)
        BY <1>3, <2>1, <2>2, <2>3 DEF CanSend
  <2>5. ASSUME NEW n \in N, n.base = m.base
        PROVE  HasChain(st, n.with) /\ \A A \in R : A.base = m.base => HasChain(A, n.eph)
    <3>1. HasChain(o, n.with) /\ \A A \in R : A.base = m.base => HasChain(A, n.eph) \/ n.eph = o.us
          BY <2>5
    <3>2. o.us = m.with
          BY <1>2, <1>3, <1>6
    <3>3. QED
          BY <2>2, <3>1, <3>2
  <2>6. QED
        BY <2>4, <2>5 DEF st
<1>7. QED
      BY <1>5, <1>6

\* A step puts the state st into a side's states, in the place of the one of its base, if any.
Renewed(S, T, st) ==
    /\ st \in T
    /\ \A o \in T : o = st \/ (o \in S /\ o.base # st.base)
    /\ \A o \in S : o \in T \/ o.base = st.base

\* The side p's messages can be decrypted by its peer's states when they can by the new one.
LEMMA PeerRenewed ==
    ASSUME NEW p, NEW R, NEW M, NEW S, NEW T, NEW st, NEW H, NEW I,
           Carries(p, R, M, S, H), Renewed(S, T, st), H \subseteq I,
           \A A \in R : A.base = st.base => Meets(A, st),
           \A n \in M : n.base = st.base => Reaches(n, R, st, I)
    PROVE  Carries(p, R, M, T, I)
<1>1. \A b : NoneOf(T, b) => NoneOf(S, b)
      BY DEF NoneOf, Renewed
<1>2. ASSUME NEW A \in R PROVE CanSend(p, A, T)
      BY <1>1 DEF Carries, CanSend, Renewed
<1>3. ASSUME NEW n \in M PROVE CanOpen(p, n, R, T, I)
  <2>1. CanOpen(p, n, R, S, H)
        BY DEF Carries
  <2>2. ASSUME NEW o \in S, Reaches(n, R, o, H) PROVE Reaches(n, R, o, I)
        BY <2>2 DEF Reaches
  <2>3. ASSUME NEW o \in T, o.base = n.base PROVE Reaches(n, R, o, I)
        BY <2>1, <2>2, <2>3 DEF CanOpen, Renewed
  <2>4. QED
        BY <1>1, <2>1, <2>3 DEF CanOpen
<1>4. QED
      BY <1>2, <1>3 DEF Carries

\* The side s's messages can be decrypted by its peer's states R when that holds for what is new,
\* and when the chains that its messages are answered under are still there.
LEMMA SideRenewed ==
    ASSUME NEW s, NEW R, NEW M, NEW N, NEW S, NEW T, NEW st, NEW H,
           Carries(s, S, M, R, H), Renewed(S, T, st), CanSend(s, st, R),
           \A n \in N : n \in M \/ CanOpen(s, n, T, R, H),
           \A n \in M : n.base = st.base =>
              /\ HasChain(st, n.with)
              /\ NoneOf(R, n.base) => n.eph = st.us
              /\ \A A \in R : A.base = n.base => HasChain(A, n.eph) \/ n.eph = st.us
    PROVE  Carries(s, T, N, R, H)
<1>1. \A o \in T : CanSend(s, o, R)
      BY DEF Carries, Renewed
<1>2. ASSUME NEW n \in M PROVE CanOpen(s, n, T, R, H)
  <2>1. CanOpen(s, n, S, R, H)
        BY DEF Carries
  <2>2. CASE n.base = st.base
    <3>1. \A o \in T : o.base = n.base => o = st
          BY <2>2 DEF Renewed
    <3>2. /\ HasChain(st, n.with)
          /\ NoneOf(R, n.base) => n.eph = st.us
          /\ \A A \in R : A.base = n.base => HasChain(A, n.eph) \/ n.eph = st.us
          BY <2>2
    <3>3. ~NoneOf(T, n.base)
          BY <2>2 DEF NoneOf, Renewed
    <3>4. ASSUME NEW A \in R, A.base = n.base PROVE Reaches(n, T, A, H)
      <4>1. Reaches(n, S, A, H)
            BY <2>1, <3>4 DEF CanOpen
      <4>2. QED
            BY <3>1, <3>2, <3>4, <4>1 DEF Reaches
    <3>5. QED
          BY <2>1, <3>1, <3>2, <3>3, <3>4 DEF CanOpen
  <2>3. CASE n.base # st.base
    <3>1. \A o : o.base = n.base => (o \in T <=> o \in S)
          BY <2>3 DEF Renewed
    <3>2. NoneOf(T, n.base) <=> NoneOf(S, n.base)
          BY <3>1 DEF NoneOf
    <3>3. ASSUME NEW A \in R, A.base = n.base PROVE Reaches(n, T, A, H)
      <4>1. Reaches(n, S, A, H)
            BY <2>1, <3>3 DEF CanOpen
      <4>2. QED
            BY <3>1, <4>1 DEF Reaches
    <3>4. QED
          BY <2>1, <3>1, <3>2, <3>3 DEF CanOpen
  <2>4. QED
        BY <2>2, <2>3
<1>3. QED
      BY <1>1, <1>2 DEF Carries

\* Ratchet keys stay those of one session when the peer's new state has chains of its session's only.
LEMMA PeerApart ==
    ASSUME NEW R, NEW M, NEW S, NEW T, NEW st, KeysApart(R, M, S), Renewed(S, T, st),
           \A c \in Range(st.chains) :
              (\A A \in R : c.eph = A.us => st.base = A.base) /\ (\A n \in M : c.eph = n.eph => st.base = n.base)
    PROVE  KeysApart(R, M, T)
BY DEF KeysApart, Renewed

\* ... and when a side's own new state, and its new message, have its session's ratchet key or a new one.
LEMMA SideApart ==
    ASSUME NEW R, NEW M, NEW N, NEW S, NEW T, NEW st, KeysApart(S, M, R), Renewed(S, T, st), st.us > 2,
           \A n \in M : n.eph = st.us => n.base = st.base,
           \A o \in R : \A c \in Range(o.chains) : c.eph = st.us => o.base = st.base,
           \A n \in N : n \in M \/ (n.eph = st.us /\ n.base = st.base),
           (\E n \in N : n \notin M) => \A o \in S : o.us = st.us => o.base = st.base
    PROVE  KeysApart(T, N, R)
<1>1. ASSUME NEW o \in T, NEW n \in N, n.eph = o.us PROVE n.base = o.base
      BY <1>1 DEF KeysApart, Renewed
<1>2. ASSUME NEW n \in N, NEW l \in N, n.eph = l.eph PROVE n.base = l.base
      BY <1>2 DEF KeysApart
<1>3. ASSUME NEW A \in R, NEW c \in Range(A.chains)
      PROVE  (\A o \in T : c.eph = o.us => A.base = o.base) /\ (\A n \in N : c.eph = n.eph => A.base = n.base)
      BY DEF KeysApart, Renewed
<1>4. (\A o \in T : o.us > 2) /\ (\A n \in N : n.eph > 2)
      BY DEF KeysApart, Renewed
<1>5. QED
      BY <1>1, <1>2, <1>3, <1>4 DEF KeysApart

\* What a side's states and messages are, from what is known of those that are stored or went out.
LEMMA SidesAre ==
    ASSUME TInv, KInv, DInv, NEW s \in Side
    PROVE  /\ States(s) \subseteq StateOf(nextKey, Given(s))
           /\ Made(s) \subseteq MessageOf(s, nextKey, nextId, Given(s)) /\ Had(s) \subseteq Made(Peer(s))
           /\ \A A \in States(s), m \in Made(s) : m.eph = A.us => m.ctr < A.n
           /\ \A m, n \in Made(s) : m.eph = n.eph /\ m.ctr = n.ctr => m = n
           /\ \A m, n \in Made(s) : m.id = n.id => m = n
           /\ \A A, B \in States(s) : A.us = B.us \/ A.base = B.base => A = B
<1>1. Latest(s) \in Loaded(s) /\ Latest(s) \in Record(s)
      BY LoadedIs DEF Latest, Loaded
<1>2. Latest(s) \in Seq(StateOf(nextKey, Given(s)))
      BY <1>1 DEF Record, RecordOf
<1>3. States(s) \subseteq StateOf(nextKey, Given(s)) /\ \A A \in States(s) : \E x \in DOMAIN Latest(s) : A = Latest(s)[x]
      BY <1>2 DEF States, Range
<1>4. Made(s) \subseteq Encrypted(s)
      BY LoadedIs DEF Made, Out
<1>5. Made(s) \subseteq MessageOf(s, nextKey, nextId, Given(s))
      BY <1>4 DEF Encrypted
<1>6. Had(s) \subseteq Made(Peer(s))
  <2>1. ASSUME Receiving(s) PROVE Work(s).msg \in network /\ Work(s).msg.by = Peer(s)
        BY <2>1, LoadedIs, SideIs DEF Encrypted, MessageOf
  <2>2. QED
        BY <2>1 DEF Had, Made
<1>7. Work(s).at = "idle" \/ Work(s).at \in {"store", "finish"} \/ Work(s).kind # "send"
      BY LoadedIs, WorkIs DEF Sends
<1>8. \A m \in Made(s) : m \in Out(s) \/ (Sending(s) /\ Work(s).at = "store" /\ m = Work(s).msg)
      BY <1>7 DEF Made, Out, Sending
<1>9. ASSUME NEW A \in States(s), NEW m \in Made(s), m.eph = A.us PROVE m.ctr < A.n
  <2>1. PICK x \in DOMAIN Latest(s) : A = Latest(s)[x]
        BY <1>3
  <2>2. Ahead(Latest(s), m)
        BY <1>1, <1>8 DEF KInv, ChainsAhead, Latest
  <2>3. QED
        BY <1>9, <2>1, <2>2 DEF Ahead
<1>10. ASSUME NEW m \in Made(s), NEW n \in Made(s), m.eph = n.eph, m.ctr = n.ctr PROVE m = n
  <2>1. m.ctr \in Nat /\ n.ctr \in Nat
        BY <1>5 DEF MessageOf
  <2>2. CASE m \in Out(s) /\ n \in Out(s)
        BY <1>10, <2>2 DEF KInv, NewKeys
  <2>3. CASE Sending(s) /\ Work(s).at = "store" /\ ~(m \in Out(s) /\ n \in Out(s))
    <3>1. \A l \in Out(s) : l.eph = Work(s).msg.eph => l.ctr < Work(s).msg.ctr
          BY <2>3 DEF KInv, ChainsAhead
    <3>2. QED
          BY <1>8, <1>10, <2>1, <2>3, <3>1
  <2>4. QED
        BY <1>8, <2>2, <2>3
<1>11. ASSUME NEW m \in Made(s), NEW n \in Made(s), m.id = n.id PROVE m = n
       BY <1>11 DEF DInv, IdsOnce, Made
<1>12. ASSUME NEW A \in States(s), NEW B \in States(s), A.us = B.us \/ A.base = B.base PROVE A = B
  <2>1. PICK x \in DOMAIN Latest(s), y \in DOMAIN Latest(s) : A = Latest(s)[x] /\ B = Latest(s)[y]
        BY <1>3
  <2>2. x = y
        BY <1>1, <1>12, <2>1 DEF KInv, OwnChains, DInv, OneBase
  <2>3. QED
        BY <2>1, <2>2
<1>13. QED
       BY <1>3, <1>5, <1>6, <1>9, <1>10, <1>11, <1>12

\* A side had no more messages than there are ids.
LEMMA HadFew ==
    ASSUME TInv, KInv, DInv, NEW s \in Side, NEW H \in SUBSET Made(s)
    PROVE  IsFiniteSet(H) /\ Cardinality(H) < nextId /\ Cardinality(H) \in Nat
<1> DEFINE f == [m \in H |-> m.id]
           J == 1..(nextId - 1)
<1>1. nextId \in Nat \ {0} /\ nextId - 1 \in Nat
      BY DEF TInv, Counted
<1>2. IsFiniteSet(J) /\ Cardinality(J) = nextId - 1
  <2>1. IsFiniteSet(J) /\ Cardinality(J) = IF 1 > nextId - 1 THEN 0 ELSE nextId - 1 - 1 + 1
        BY <1>1, FS_Interval
  <2>2. QED
        BY <1>1, <2>1
<1>3. f \in Injection(H, J)
      BY SidesAre DEF Injection, IsInjective, MessageOf
<1> HIDE DEF f, J
<1>4. IsFiniteSet(H) /\ Cardinality(H) <= Cardinality(J)
      BY <1>2, <1>3, FS_Injection
<1>5. QED
      BY <1>1, <1>2, <1>4, FS_CardinalityType

\* What starting work makes of the sides' states and messages.
Renews(s, work, st, i) ==
    /\ Renewed(States(s), States(s)', st) /\ preKeys' = preKeys
    /\ States(Peer(s))' = States(Peer(s)) /\ Made(Peer(s))' = Made(Peer(s)) /\ Had(Peer(s))' = Had(Peer(s))
    /\ Made(s)' = Made(s) \cup (IF work.kind = "send" THEN {work.msg} ELSE {})
    /\ Had(s)' = Had(s) \cup (IF work.kind = "receive" THEN {work.msg} ELSE {})
    /\ Removes(Peer(s)) => Removes(Peer(s))'
    /\ Work(s)' = work /\ (Receiving(s)' <=> work.kind = "receive")
    /\ i = 0 => NoneOf(States(s), st.base)
    /\ i # 0 => sess[s][i] \in States(s) /\ st.base = sess[s][i].base

\* It puts one state into its side's, and adds its message to those made or had.
LEMMA StartRenews ==
    ASSUME TInv, KInv, DInv, RoomForAll, NEW s \in Side, NEW work, NEW st, NEW i,
           Starts(s, work, st, i), Moves(s, work, st, i)
    PROVE  Renews(s, work, st, i)
<1>1. /\ Begin(s, "net", work) /\ Work(s) = Idle /\ UNCHANGED <<sess, preKeys, network, got>> /\ work.at = "store"
      /\ Leads(s, st, i)
      BY DEF Starts
<1>2. /\ Work(s)' = work /\ (Sending(s)' <=> work.kind = "send") /\ (Receiving(s)' <=> work.kind = "receive")
      /\ ~Sending(s) /\ ~Receiving(s) /\ Loaded(s)' = {sess[s], work.rec} /\ Loaded(s) = {sess[s]}
      BY StartIs
<1>3. /\ i \in {0} \cup DOMAIN sess[s] /\ work.rec[1] = st /\ 1 \in DOMAIN work.rec
      /\ \A j \in DOMAIN work.rec : j = 1 \/ \E x \in DOMAIN sess[s] : x # i /\ work.rec[j] = sess[s][x]
      BY StartRecord
<1>4. DInv'
      BY StartOnce
<1>5. /\ \A x, y \in DOMAIN sess[s] : sess[s][x].base = sess[s][y].base => x = y
      /\ \A x, y \in DOMAIN work.rec : work.rec[x].base = work.rec[y].base => x = y
  <2>1. OneBase /\ OneBase'
        BY <1>4 DEF DInv
  <2>2. \A x, y \in DOMAIN sess[s] : sess[s][x].base = sess[s][y].base => x = y
        BY <1>2, <2>1 DEF OneBase
  <2>3. \A r \in Loaded(s)' : \A x, y \in DOMAIN r : r[x].base = r[y].base => x = y
        BY <2>1 DEF OneBase
  <2>4. QED
        BY <1>2, <2>2, <2>3
<1>6. Bases(sess[s]) \subseteq Bases(work.rec)
  <2>1. Stays'
        BY <1>4 DEF DInv, SInv, RoomForAll
  <2>2. Work(s)'.at = "store" => Bases(sess[s])' \subseteq Bases(Work(s)'.rec)
        BY <2>1 DEF Stays, Bases
  <2>3. QED
        BY <1>1, <1>2, <2>2 DEF Bases
<1>7. States(s) = Range(sess[s]) /\ States(s)' = Range(work.rec)
      BY <1>1, <1>2 DEF States, Latest, Idle
<1>8. Renewed(Range(sess[s]), Range(work.rec), st)
  <2>1. st \in Range(work.rec)
        BY <1>3 DEF Range
  <2>2. ASSUME NEW o \in Range(work.rec) PROVE o = st \/ (o \in Range(sess[s]) /\ o.base # st.base)
    <3>1. PICK j \in DOMAIN work.rec : o = work.rec[j]
          BY DEF Range
    <3>2. QED
          BY <1>3, <1>5, <3>1 DEF Range
  <2>3. ASSUME NEW o \in Range(sess[s]) PROVE o \in Range(work.rec) \/ o.base = st.base
    <3>1. PICK x \in DOMAIN sess[s] : o = sess[s][x]
          BY DEF Range
    <3>2. o.base \in Bases(work.rec)
          BY <1>6, <3>1 DEF Bases
    <3>3. PICK j \in DOMAIN work.rec : work.rec[j].base = o.base
          BY <3>2 DEF Bases
    <3>4. CASE j = 1
          BY <1>3, <3>3, <3>4
    <3>5. CASE j # 1
      <4>1. PICK y \in DOMAIN sess[s] : work.rec[j] = sess[s][y]
            BY <1>3, <3>5
      <4>2. y = x
            BY <1>5, <3>1, <3>3, <4>1
      <4>3. QED
            BY <3>1, <4>1, <4>2 DEF Range
    <3>6. QED
          BY <3>4, <3>5
  <2>4. QED
        BY <2>1, <2>2, <2>3 DEF Renewed
<1>9. /\ Made(s)' = Made(s) \cup (IF work.kind = "send" THEN {work.msg} ELSE {})
      /\ Had(s)' = Had(s) \cup (IF work.kind = "receive" THEN {work.msg} ELSE {})
      BY <1>1, <1>2 DEF Made, Had
<1>10. Work(Peer(s))' = Work(Peer(s))
  <2>1. \A u \in Side \ {s} : job'[u] = job[u]
        BY <1>1, BegunIs DEF KInv
  <2>2. QED
        BY <2>1, SideIs DEF Work
<1>11. /\ States(Peer(s))' = States(Peer(s)) /\ Made(Peer(s))' = Made(Peer(s)) /\ Had(Peer(s))' = Had(Peer(s))
       /\ Removes(Peer(s)) => Removes(Peer(s))'
  <2>1. /\ (Sending(Peer(s))' <=> Sending(Peer(s))) /\ (Receiving(Peer(s))' <=> Receiving(Peer(s)))
        BY <1>10 DEF Sending, Receiving
  <2>2. States(Peer(s))' = States(Peer(s))
        BY <1>1, <1>10 DEF States, Latest
  <2>3. QED
        BY <1>1, <1>10, <2>1, <2>2 DEF Made, Had, Removes
<1>12. i = 0 => NoneOf(Range(sess[s]), st.base)
       BY <1>1 DEF Leads, NoneOf, Range
<1>13. i # 0 => sess[s][i] \in Range(sess[s]) /\ st.base = sess[s][i].base
       BY <1>1, <1>3 DEF Leads, Range
<1>14. QED
       BY <1>1, <1>2, <1>7, <1>8, <1>9, <1>11, <1>12, <1>13 DEF Renews

\* The other side keeps what it had when its messages can be decrypted by the new state too.
LEMMA PeerKeeps ==
    ASSUME TInv, KInv, DInv, LInv, NEW s \in Side, NEW work, NEW st, NEW i, Renews(s, work, st, i),
           nextId' = nextId \/ nextId' = nextId + 1,
           \A A \in States(Peer(s)) : A.base = st.base => Meets(A, st),
           \A n \in Made(Peer(s)) : n.base = st.base => Reaches(n, States(Peer(s)), st, Had(s)'),
           \A c \in Range(st.chains) :
              /\ \A A \in States(Peer(s)) : c.eph = A.us => st.base = A.base
              /\ \A n \in Made(Peer(s)) : c.eph = n.eph => st.base = n.base
    PROVE  LSide(Peer(s))'
<1> DEFINE p == Peer(s)
           R == States(p)
           M == Made(p)
           S == States(s)
           T == States(s)'
<1>1. p \in Side /\ Peer(p) = s
      BY SideIs
<1>2. /\ Carries(p, R, M, S, Had(s)) /\ KeysApart(R, M, S) /\ Few(nextId, R, M, Had(p))
      /\ PreKeyThere(R, M, S, preKeys[s]) /\ OwnPreKey(R, M) /\ Removes(p)
      BY <1>1 DEF LInv, LSide
<1>3. /\ Renewed(S, T, st) /\ preKeys' = preKeys /\ States(p)' = R /\ Made(p)' = M /\ Had(p)' = Had(p)
      /\ Removes(p)' /\ Had(s) \subseteq Had(s)'
      BY <1>2 DEF Renews
<1>4. R \subseteq StateOf(nextKey, Given(p)) /\ M \subseteq MessageOf(p, nextKey, nextId, Given(p)) /\ nextId \in Nat
      BY <1>1, SidesAre DEF TInv, Counted
<1>5. Carries(p, R, M, T, Had(s)')
  <2> HIDE DEF p, R, M, S, T
  <2>1. /\ \A A \in R : A.base = st.base => Meets(A, st)
        /\ \A n \in M : n.base = st.base => Reaches(n, R, st, Had(s)')
        BY DEF p, R, M
  <2>2. QED
        BY <1>2, <1>3, <2>1, PeerRenewed
<1>6. KeysApart(R, M, T)
  <2> HIDE DEF S, T
  <2>1. \A c \in Range(st.chains) :
           (\A A \in R : c.eph = A.us => st.base = A.base) /\ (\A n \in M : c.eph = n.eph => st.base = n.base)
        OBVIOUS
  <2> HIDE DEF p, R, M
  <2>2. QED
        BY <1>2, <1>3, <2>1, PeerApart
<1> HIDE DEF p, R, M, S, T
<1>7. Few(nextId', R, M, Had(p))
  <2>1. (\A A \in R : A.n \in Nat) /\ (\A n \in M : n.ctr \in Nat)
        BY <1>4 DEF StateOf, MessageOf
  <2>2. QED
        BY <1>2, <1>4, <2>1 DEF Few
<1>8. PreKeyThere(R, M, T, preKeys[s])
      BY <1>2, <1>3 DEF PreKeyThere, NoneOf, Renewed
<1>9. LSide(p)'
  <2>1. States(Peer(p))' = T
        BY <1>1 DEF T
  <2>2. Had(Peer(p))' = Had(s)' /\ preKeys'[Peer(p)] = preKeys[s]
        BY <1>1, <1>3
  <2>3. QED
        BY <1>2, <1>3, <1>5, <1>6, <1>7, <1>8, <2>1, <2>2 DEF LSide
<1>10. QED
       BY <1>9 DEF p

\* Sessions of a bundle's new base are nobody's yet; its pre-key is one that the peer has.
LEMMA KeepsSession ==
    ASSUME TInv, KInv, DInv, LInv, Roomy, NEW s \in Side, ProcessBundle(s)
    PROVE  LInv'
<1> DEFINE p == Peer(s)
           st == BundleState(s)
           work == [at |-> "store", kind |-> "session", pid |-> None, rec |-> Archive(sess[s], st)]
           R == States(p)
           N == Made(p)
           S == States(s)
           T == States(s)'
           M == Made(s)
           c == [eph |-> SignedPreKey(p), with |-> nextKey, next |-> 0, saved |-> {}]
<1>1. Starts(s, work, st, 0) /\ StartsSession(s, work, st, 0)
      BY StartsBundle
<1>2. /\ st.base = nextKey /\ st.us = nextKey + 1 /\ st.theirs = SignedPreKey(p) /\ st.n = 0 /\ st.pk
      /\ st.chains = <<c>> /\ (st.pid = None \/ st.pid \in stock[p])
  <2>1. stock[p] # {} => st.pid \in stock[p]
        BY <1>1 DEF StartsSession
  <2>2. QED
        BY <2>1 DEF BundleState, AliceState
<1>3. Range(st.chains) = {c}
      BY <1>2 DEF Range
<1>4. c.eph = SignedPreKey(p)
      OBVIOUS
<1>5. work.kind = "session"
      OBVIOUS
<1> HIDE DEF st, work, c
<1>6. Renews(s, work, st, 0)
      BY <1>1, StartRenews DEF Moves, Roomy
<1>7. nextId' = nextId /\ nextKey \in Nat /\ nextKey > 2 /\ nextId \in Nat \ {0}
      BY DEF ProcessBundle, TInv, Counted
<1>8. p \in Side /\ Peer(p) = s /\ SignedPreKey(p) \in {1, 2}
      BY SideIs DEF SignedPreKey, Side
<1>9. /\ R \subseteq StateOf(nextKey, Given(p)) /\ N \subseteq MessageOf(p, nextKey, nextId, Given(p))
      /\ S \subseteq StateOf(nextKey, Given(s)) /\ M \subseteq MessageOf(s, nextKey, nextId, Given(s))
      BY <1>8, SidesAre
<1>10. /\ \A A \in R : A.base \in 0..(nextKey - 1)
       /\ \A A \in S : A.base \in 0..(nextKey - 1) /\ A.us \in 0..(nextKey - 1)
       /\ \A n \in N : n.base \in 0..(nextKey - 1)
       /\ \A n \in M : n.base \in 0..(nextKey - 1) /\ n.eph \in 0..(nextKey - 1)
       BY <1>9 DEF StateOf, MessageOf
<1>11. /\ Carries(s, S, M, R, Had(p)) /\ KeysApart(S, M, R) /\ KeysApart(R, N, S) /\ Few(nextId, S, M, Had(s))
       /\ PreKeyThere(S, M, R, preKeys[p]) /\ OwnPreKey(S, M)
       BY <1>8 DEF LInv, LSide
<1>12. Renewed(S, T, st) /\ preKeys' = preKeys /\ Made(s)' = M /\ Had(s)' = Had(s) /\ R' = R /\ Had(p)' = Had(p)
       BY <1>5, <1>6 DEF Renews
<1>13. LSide(p)'
  <2>1. (\A A \in R : A.base # st.base) /\ (\A n \in N : n.base # st.base)
        BY <1>2, <1>7, <1>10
  <2>2. \A d \in Range(st.chains) : (\A A \in R : d.eph # A.us) /\ (\A n \in N : d.eph # n.eph)
    <3>1. (\A A \in R : A.us > 2) /\ (\A n \in N : n.eph > 2)
          BY <1>11 DEF KeysApart
    <3>2. QED
          BY <1>3, <1>4, <1>8, <3>1
  <2>3. QED
        BY <1>6, <1>7, <2>1, <2>2, PeerKeeps
<1>14. CanSend(s, st, R)
  <2>1. HasChain(st, st.theirs)
        BY <1>2, <1>3, <1>4 DEF HasChain
  <2>2. \A A \in R : A.base # st.base
        BY <1>2, <1>7, <1>10
  <2>3. QED
        BY <1>2, <2>1, <2>2 DEF CanSend
<1> HIDE DEF p, R, S, T, M, N
<1>15. Carries(s, T, M, R, Had(p))
  <2>1. \A n \in M : n.base # st.base
        BY <1>2, <1>7, <1>10
  <2>2. QED
        BY <1>11, <1>12, <1>14, <2>1, SideRenewed
<1>16. KeysApart(T, M, R)
  <2>1. (\A n \in M : n.eph # st.us) /\ st.us > 2
        BY <1>2, <1>7, <1>10
  <2>2. \A o \in R : \A d \in Range(o.chains) : d.eph # st.us
    <3>1. \A o \in R : o.chains \in Seq(ChainOf(nextKey))
          BY <1>9 DEF StateOf, ChainsOf
    <3>2. \A o \in R : \A d \in Range(o.chains) : d \in ChainOf(nextKey)
          BY <3>1 DEF Range
    <3>3. QED
          BY <1>2, <1>7, <3>2 DEF ChainOf
  <2>3. QED
        BY <1>11, <1>12, <2>1, <2>2, SideApart
<1>17. Few(nextId, T, M, Had(s))
  <2>1. Len(st.chains) = 1 /\ Cardinality(Had(s)) \in Nat
    <3>1. Had(s) \subseteq Made(p)
          BY SidesAre DEF p
    <3>2. QED
          BY <1>2, <1>8, <3>1, HadFew
  <2>2. st.n < nextId /\ Len(st.chains) <= 1 + Cardinality(Had(s))
        BY <1>2, <1>7, <2>1
  <2>3. \A o \in T : o = st \/ o \in S
        BY <1>12 DEF Renewed
  <2>4. QED
        BY <1>11, <2>2, <2>3 DEF Few
<1>18. PreKeyThere(T, M, R, preKeys[p])
  <2>1. stock[p] \subseteq preKeys[p]
        BY <1>8 DEF TInv, PreKeysKept
  <2>2. QED
        BY <1>2, <1>11, <1>12, <2>1 DEF PreKeyThere, Renewed
<1>19. OwnPreKey(T, M)
  <2>1. \A h \in S \cup M : h.pid \notin stock[p]
        BY <1>9 DEF StateOf, MessageOf, Given, p
  <2>2. \A h \in T \cup M : h = st \/ h \in S \cup M
        BY <1>12 DEF Renewed
  <2>3. QED
        BY <1>2, <1>11, <2>1, <2>2 DEF OwnPreKey
<1>20. Removes(s)'
      BY <1>5, <1>6 DEF Renews, Removes
<1>21. LSide(s)'
  <2>1. States(Peer(s))' = R /\ States(s)' = T /\ Had(Peer(s))' = Had(p) /\ preKeys'[Peer(s)] = preKeys[p]
        BY <1>12 DEF p, R, T
  <2>2. QED
        BY <1>7, <1>12, <1>15, <1>16, <1>17, <1>18, <1>19, <1>20, <2>1 DEF LSide
<1>22. QED
       BY <1>13, <1>21 DEF LInv, p, Peer, Side

\* Encrypting uses the next key of the first state's chain, which the peer has or will make.
LEMMA KeepsSend ==
    ASSUME TInv, KInv, DInv, LInv, Roomy, NEW s \in Side, Encrypt(s, "net")
    PROVE  LInv'
<1> DEFINE p == Peer(s)
           first == sess[s][1]
           st == [first EXCEPT !.n = @ + 1]
           new == [sess[s] EXCEPT ![1].n = @ + 1]
           m == Message(s, first)
           work == [at |-> "store", kind |-> "send", pid |-> None, rec |-> new, msg |-> m]
           R == States(p)
           N == Made(p)
           S == States(s)
           T == States(s)'
           M == Made(s)
<1>1. Starts(s, work, st, 1) /\ StartsSend(s, work, st, 1)
      BY StartsEncrypt
<1>2. work.kind = "send" /\ work.msg = m
      OBVIOUS
<1>3. /\ m.base = first.base /\ m.eph = first.us /\ m.with = first.theirs /\ m.ctr = first.n
      /\ m.pk = first.pk /\ m.pid = first.pid
      BY DEF Message
<1>4. first \in StateOf(nextKey, Given(s))
      BY EncryptIs DEF Thread
<1>5. /\ st.base = first.base /\ st.us = first.us /\ st.theirs = first.theirs /\ st.n = first.n + 1
      /\ st.pk = first.pk /\ st.pid = first.pid /\ st.chains = first.chains /\ first.n \in Nat
      BY <1>4 DEF StateOf
<1> HIDE DEF st, work, first, new, m
<1>6. Renews(s, work, st, 1)
      BY <1>1, StartRenews DEF Moves, Roomy
<1>7. nextId' = nextId + 1 /\ nextId \in Nat
      BY DEF Encrypt, TInv, Counted
<1>8. p \in Side /\ Peer(p) = s
      BY SideIs
<1>9. first \in S
      BY <1>6 DEF Renews, first
<1>10. /\ Carries(s, S, M, R, Had(p)) /\ KeysApart(S, M, R) /\ Few(nextId, S, M, Had(s))
       /\ PreKeyThere(S, M, R, preKeys[p]) /\ OwnPreKey(S, M)
       /\ Carries(p, R, N, S, Had(s)) /\ KeysApart(R, N, S)
       BY <1>8 DEF LInv, LSide
<1>11. /\ Renewed(S, T, st) /\ preKeys' = preKeys /\ Made(s)' = M \cup {m} /\ Had(s)' = Had(s)
       /\ R' = R /\ Had(p)' = Had(p)
       BY <1>2, <1>6 DEF Renews
<1>12. /\ \A e : HasChain(st, e) <=> HasChain(first, e)
       /\ \A e, w : Follows(e, w, st) <=> Follows(e, w, first)
       BY <1>5 DEF HasChain, Follows
<1>13. LSide(p)'
  <2>1. ASSUME NEW A \in R, A.base = st.base PROVE Meets(A, st)
    <3>1. Meets(A, first)
          BY <1>5, <1>9, <1>10, <2>1 DEF Carries, CanSend
    <3>2. QED
          BY <1>5, <1>12, <3>1 DEF Meets
  <2>2. ASSUME NEW n \in N, n.base = st.base PROVE Reaches(n, R, st, Had(s)')
    <3>1. Reaches(n, R, first, Had(s))
          BY <1>5, <1>9, <1>10, <2>2 DEF Carries, CanOpen
    <3>2. QED
          BY <1>5, <1>11, <1>12, <3>1 DEF Reaches
  <2>3. ASSUME NEW c \in Range(st.chains)
        PROVE  /\ \A A \in R : c.eph = A.us => st.base = A.base
               /\ \A n \in N : c.eph = n.eph => st.base = n.base
        BY <1>5, <1>9, <1>10 DEF KeysApart
  <2>4. QED
        BY <1>6, <1>7, <2>1, <2>2, <2>3, PeerKeeps
<1>14. CanSend(s, first, R)
       BY <1>9, <1>10 DEF Carries
<1>15. \A A \in R : \A c \in Range(A.chains) : c.next \in Nat
  <2>1. \A A \in R : A.chains \in Seq(ChainOf(nextKey))
        BY <1>8, SidesAre DEF StateOf, ChainsOf
  <2>2. \A A \in R : \A c \in Range(A.chains) : c \in ChainOf(nextKey)
        BY <2>1 DEF Range
  <2>3. QED
        BY <2>2 DEF ChainOf
<1>16. CanSend(s, st, R)
  <2>1. ASSUME NEW A \in R, A.base = st.base PROVE Meets(st, A)
    <3>1. Meets(first, A)
          BY <1>5, <1>14, <2>1 DEF CanSend
    <3>2. QED
          BY <1>5, <1>15, <3>1 DEF Meets
  <2>2. QED
        BY <1>5, <1>12, <1>14, <2>1 DEF CanSend
<1> HIDE DEF p, R, S, T, M, N
<1>17. CanOpen(s, m, T, R, Had(p))
  <2>1. \A o \in T : o.base = m.base => o = st
        BY <1>3, <1>5, <1>11 DEF Renewed
  <2>2. ~NoneOf(T, m.base)
        BY <1>3, <1>5, <1>11 DEF Renewed, NoneOf
  <2>3. HasChain(st, m.with) /\ m.eph = st.us
        BY <1>3, <1>5, <1>12, <1>14 DEF CanSend
  <2>4. ASSUME NEW A \in R, A.base = m.base PROVE Reaches(m, T, A, Had(p))
    <3>1. Meets(first, A)
          BY <1>3, <1>14, <2>4 DEF CanSend
    <3>2. QED
          BY <1>3, <1>5, <1>15, <2>1, <2>3, <3>1 DEF Meets, Reaches
  <2>5. NoneOf(R, m.base) => m.pk /\ m.with = SignedPreKey(Peer(s))
        BY <1>3, <1>14 DEF CanSend
  <2>6. QED
        BY <2>1, <2>2, <2>3, <2>4, <2>5 DEF CanOpen
<1>18. Carries(s, T, M \cup {m}, R, Had(p))
  <2>1. ASSUME NEW n \in M, n.base = st.base
        PROVE  /\ HasChain(st, n.with)
               /\ NoneOf(R, n.base) => n.eph = st.us
               /\ \A A \in R : A.base = n.base => HasChain(A, n.eph) \/ n.eph = st.us
    <3>1. CanOpen(s, n, S, R, Had(p)) /\ first.base = n.base
          BY <1>5, <1>10, <2>1 DEF Carries
    <3>2. \A A \in R : A.base = n.base => HasChain(A, n.eph) \/ n.eph = first.us
          BY <1>9, <3>1 DEF CanOpen, Reaches
    <3>3. QED
          BY <1>5, <1>9, <1>12, <3>1, <3>2 DEF CanOpen
  <2>2. QED
        BY <1>10, <1>11, <1>16, <1>17, <2>1, SideRenewed
<1>19. KeysApart(T, M \cup {m}, R)
  <2>1. /\ st.us > 2 /\ \A n \in M : n.eph = st.us => n.base = st.base
        /\ \A o \in R : \A c \in Range(o.chains) : c.eph = st.us => o.base = st.base
        BY <1>5, <1>9, <1>10 DEF KeysApart
  <2>2. \A o \in S : o.us = st.us => o.base = st.base
        BY <1>5, <1>9, SidesAre DEF S
  <2>3. \A n \in M \cup {m} : n \in M \/ (n.eph = st.us /\ n.base = st.base)
        BY <1>3, <1>5
  <2>4. QED
        BY <1>10, <1>11, <2>1, <2>2, <2>3, SideApart
<1>20. Few(nextId + 1, T, M \cup {m}, Had(s))
  <2>1. /\ first.n < nextId /\ Len(first.chains) <= 1 + Cardinality(Had(s))
        /\ \A o \in S : o.n < nextId /\ Len(o.chains) <= 1 + Cardinality(Had(s))
        /\ \A n \in M : n.ctr + 1 < nextId
        BY <1>9, <1>10 DEF Few
  <2>2. (\A o \in S : o.n \in Nat) /\ (\A n \in M : n.ctr \in Nat)
        BY SidesAre DEF S, M, StateOf, MessageOf
  <2>3. \A o \in T : o = st \/ o \in S
        BY <1>11 DEF Renewed
  <2>4. \A o \in T : o.n < nextId + 1 /\ Len(o.chains) <= 1 + Cardinality(Had(s))
        BY <1>5, <1>7, <2>1, <2>2, <2>3
  <2>5. \A n \in M \cup {m} : n.ctr + 1 < nextId + 1
        BY <1>3, <1>5, <1>7, <2>1, <2>2
  <2>6. QED
        BY <2>4, <2>5 DEF Few
<1>21. PreKeyThere(T, M \cup {m}, R, preKeys[p]) /\ OwnPreKey(T, M \cup {m})
  <2>1. \A h \in T \cup (M \cup {m}) : \E g \in S \cup M : h.pk = g.pk /\ h.pid = g.pid /\ h.base = g.base
        BY <1>3, <1>5, <1>9, <1>11 DEF Renewed
  <2>2. PreKeyThere(T, M \cup {m}, R, preKeys[p])
        BY <1>10, <2>1 DEF PreKeyThere
  <2>3. OwnPreKey(T, M \cup {m})
        BY <1>10, <2>1 DEF OwnPreKey
  <2>4. QED
        BY <2>2, <2>3
<1>22. Removes(s)'
       BY <1>2, <1>6 DEF Renews, Removes
<1>23. LSide(s)'
  <2>1. States(Peer(s))' = R /\ States(s)' = T /\ Had(Peer(s))' = Had(p) /\ preKeys'[Peer(s)] = preKeys[p]
        BY <1>11 DEF p, R, T
  <2>2. QED
        BY <1>7, <1>11, <1>18, <1>19, <1>20, <1>21, <1>22, <2>1 DEF LSide
<1>24. QED
       BY <1>13, <1>23 DEF LInv, p, Peer, Side

\* The state that a message is read with, the i-th or that of a new session, decrypts what the
\* peer encrypts, and the peer has the chains of what was encrypted with it.
Reader(s, m, i) == IF i = 0 THEN BobState(s, m.base) ELSE sess[s][i]

LEMMA ReaderIs ==
    ASSUME TInv, KInv, DInv, LInv, NEW s \in Side, NEW work, NEW st, NEW i,
           StartsReceive(s, work, st, i), Renews(s, work, st, i)
    PROVE  LET o == Reader(s, work.msg, i)
               m == work.msg
               R == States(Peer(s)) IN
           /\ o \in StateOf(nextKey, Given(s)) /\ st = Opened(o, m) /\ Opens(o, m) /\ ~NoneOf(R, m.base)
           /\ \A A \in R : A.base = m.base => Meets(A, o) /\ HasChain(A, m.with)
           /\ \A n \in Made(Peer(s)) : n.base = m.base => Reaches(n, R, o, Had(s))
           /\ HasChain(o, m.eph) => o \in States(s)
           /\ o \in States(s) \/ o.chains = <<>>
           /\ \A n \in Made(s) : n.base = m.base =>
                 /\ HasChain(o, n.with)
                 /\ \A A \in R : A.base = m.base => HasChain(A, n.eph) \/ n.eph = o.us
<1> DEFINE p == Peer(s)
           m == work.msg
           o == Reader(s, m, i)
           R == States(p)
           N == Made(p)
           S == States(s)
           M == Made(s)
<1>1. /\ m \in network /\ m.by = p /\ st.base = m.base
      /\ i = 0 => Reads(BobState(s, m.base), m, st)
      /\ i # 0 => Reads(sess[s][i], m, st)
      BY DEF StartsReceive
<1>2. st = Opened(o, m) /\ Opens(o, m)
      BY <1>1 DEF Reader, Reads
<1>3. p \in Side /\ Peer(p) = s
      BY SideIs
<1>4. /\ Carries(p, R, N, S, Had(s)) /\ Carries(s, S, M, R, Had(p))
      BY <1>3 DEF LInv, LSide
<1>5. m \in N
      BY <1>1 DEF Made
<1>6. ~NoneOf(R, m.base) /\ \A A \in R : A.base = m.base => HasChain(A, m.with)
      BY <1>4, <1>5 DEF Carries, CanOpen
<1>7. m.base \in 0..(nextKey - 1)
      BY <1>3, <1>5, SidesAre DEF MessageOf
<1>8. S \subseteq StateOf(nextKey, Given(s))
      BY SidesAre
<1>9. CASE i = 0
  <2>1. /\ o.base = m.base /\ o.us = SignedPreKey(s) /\ o.chains = <<>> /\ o.theirs = None /\ o.n = 0
        /\ o.pid = None /\ o.pk = FALSE
        /\ o = [base |-> m.base, us |-> s, theirs |-> 0, n |-> 0, pk |-> FALSE, pid |-> 0, chains |-> <<>>]
        BY <1>9 DEF Reader, BobState, SignedPreKey, None
  <2>2. NoneOf(S, m.base)
        BY <1>1, <1>9 DEF Renews
  <2>3. \A e : ~HasChain(o, e)
        BY <2>1 DEF HasChain, Range
  <2>4. \A c \in Range(o.chains) : FALSE
        BY <2>1 DEF Range
  <2>5. o \in StateOf(nextKey, Given(s))
    <3>1. s \in 0..(nextKey - 1) /\ 0 \in 0..(nextKey - 1)
          BY DEF TInv, Counted, Side
    <3>2. 0 \in Given(s)
          BY Bounds, SideIs DEF Given, TInv, PreKeysKept
    <3>3. <<>> \in ChainsOf(nextKey)
          BY Bounds DEF ChainsOf
    <3>4. QED
          BY <1>7, <2>1, <3>1, <3>2, <3>3 DEF StateOf
  <2>6. ASSUME NEW A \in R, A.base = m.base PROVE Meets(A, o)
    <3>1. A.theirs = SignedPreKey(s)
          BY <1>3, <1>4, <2>2, <2>6 DEF Carries, CanSend
    <3>2. QED
          BY <2>1, <2>3, <2>4, <3>1 DEF Meets, Follows
  <2>7. ASSUME NEW n \in N, n.base = m.base PROVE Reaches(n, R, o, Had(s))
    <3>1. n.with = SignedPreKey(s) /\ \A A \in R : A.base = n.base => n.eph = A.us
          BY <1>3, <1>4, <2>2, <2>7 DEF Carries, CanOpen
    <3>2. QED
          BY <2>1, <2>3, <2>4, <3>1 DEF Reaches, Follows
  <2>8. \A n \in M : n.base # m.base
        BY <1>4, <2>2 DEF Carries, CanOpen
  <2> HIDE DEF o, m, p, R, S, N, M
  <2>9. QED
        BY <1>2, <1>6, <2>1, <2>3, <2>5, <2>6, <2>7, <2>8 DEF o, m, p, R, S, N, M
<1>10. CASE i # 0
  <2>1. o \in S /\ o.base = m.base
        BY <1>1, <1>10 DEF Renews, Reader
  <2>2. ASSUME NEW A \in R, A.base = m.base PROVE Meets(A, o)
        BY <1>4, <2>1, <2>2 DEF Carries, CanSend
  <2>3. ASSUME NEW n \in N, n.base = m.base PROVE Reaches(n, R, o, Had(s))
        BY <1>4, <2>1, <2>3 DEF Carries, CanOpen
  <2>4. ASSUME NEW n \in M, n.base = m.base
        PROVE  /\ HasChain(o, n.with)
               /\ \A A \in R : A.base = m.base => HasChain(A, n.eph) \/ n.eph = o.us
        BY <1>4, <2>1, <2>4 DEF Carries, CanOpen, Reaches
  <2> HIDE DEF o, m, p, R, S, N, M
  <2>5. QED
        BY <1>2, <1>6, <1>8, <2>1, <2>2, <2>3, <2>4 DEF o, m, p, R, S, N, M
<1>11. QED
       BY <1>9, <1>10

\* Decrypting a message keeps its chain, or leaves the peer's ratchet key with a chain and takes
\* the next turn.
LEMMA KeepsReceive ==
    ASSUME TInv, KInv, DInv, LInv, Roomy, RoomForKeys, NEW s \in Side, NEW l \in network, Decrypt(s, l)
    PROVE  LInv'
<1>1. PICK work, st, i : Starts(s, work, st, i) /\ StartsReceive(s, work, st, i)
      BY StartsDecrypt DEF Enough, Roomy
<1> DEFINE p == Peer(s)
           m == work.msg
           o == Reader(s, m, i)
           R == States(p)
           N == Made(p)
           S == States(s)
           T == States(s)'
           M == Made(s)
           H == Had(s)
<1>2. Renews(s, work, st, i)
      BY <1>1, StartRenews DEF Moves, Roomy
<1>3. /\ work.kind = "receive" /\ m \in network /\ m.by = p /\ got[m.id] = 0 /\ st.base = m.base /\ ~st.pk
      /\ i = 0 => work.msg.pk /\ work.pid = work.msg.pid
      /\ i # 0 => work.pid = None
      BY <1>1 DEF StartsReceive
<1>4. /\ o \in StateOf(nextKey, Given(s)) /\ st = Opened(o, m) /\ Opens(o, m) /\ ~NoneOf(R, m.base)
      /\ \A A \in R : A.base = m.base => Meets(A, o) /\ HasChain(A, m.with)
      /\ \A n \in N : n.base = m.base => Reaches(n, R, o, H)
      /\ HasChain(o, m.eph) => o \in S
      /\ o \in S \/ o.chains = <<>>
      /\ \A n \in M : n.base = m.base =>
            /\ HasChain(o, n.with)
            /\ \A A \in R : A.base = m.base => HasChain(A, n.eph) \/ n.eph = o.us
      BY <1>1, <1>2, ReaderIs
<1>5. /\ p \in Side /\ Peer(p) = s
      BY SideIs
<1>6. m \in N
      BY <1>3 DEF Made
<1>7. nextId' = nextId /\ nextKey \in Nat /\ nextKey > 2 /\ nextId \in Nat \ {0} /\ nextId <= MaxMsg + 1
      BY DEF Decrypt, TInv, Counted
<1>8. /\ Carries(s, S, M, R, Had(p)) /\ KeysApart(S, M, R) /\ KeysApart(R, N, S) /\ Few(nextId, S, M, H)
      /\ PreKeyThere(S, M, R, preKeys[p]) /\ OwnPreKey(S, M)
      BY <1>5 DEF LInv, LSide
<1>9. /\ Renewed(S, T, st) /\ preKeys' = preKeys /\ Made(s)' = M /\ Had(s)' = H \cup {m} /\ R' = R /\ Had(p)' = Had(p)
      BY <1>2, <1>3 DEF Renews
<1>10. /\ R \subseteq StateOf(nextKey, Given(p)) /\ N \subseteq MessageOf(p, nextKey, nextId, Given(p))
       /\ S \subseteq StateOf(nextKey, Given(s)) /\ M \subseteq MessageOf(s, nextKey, nextId, Given(s))
       /\ H \subseteq N
       /\ \A A \in R, n \in N : n.eph = A.us => n.ctr < A.n
       /\ \A n \in N : n.eph = m.eph /\ n.ctr = m.ctr => n = m
       BY <1>5, <1>6, SidesAre
<1>11. m \notin H
  <2>1. ~Receiving(s)
        BY <1>1 DEF Starts, Receiving, Idle
  <2>2. QED
        BY <1>3, <2>1 DEF Had
<1> HIDE DEF o, m, p, R, S, T, N, M, H
<1>12. IsFiniteSet(H) /\ Cardinality(H) \in Nat /\ Cardinality(H \cup {m}) = Cardinality(H) + 1
       /\ Cardinality(H) + 1 < nextId
  <2>1. /\ IsFiniteSet(H) /\ Cardinality(H) \in Nat
        BY <1>5, <1>10, HadFew DEF N
  <2>2. Cardinality(H \cup {m}) = Cardinality(H) + 1
        BY <1>11, <2>1, FS_AddElement
  <2>3. H \cup {m} \subseteq N
        BY <1>6, <1>10
  <2>4. Cardinality(H \cup {m}) < nextId
        BY <1>5, <2>3, HadFew DEF N
  <2>5. QED
        BY <2>1, <2>2, <2>4
<1>13. /\ Len(o.chains) <= 1 + Cardinality(H) /\ Len(o.chains) \in Nat
       /\ ~HasChain(o, m.eph) => Len(o.chains) < MaxChains
  <2>1. Len(o.chains) \in Nat
        BY <1>4 DEF StateOf, ChainsOf
  <2>2. CASE o \in S
    <3>1. o.base = m.base
          BY <1>4 DEF Opens
    <3>2. ~HasChain(o, m.eph) => Len(o.chains) < MaxChains
          BY <1>3, <2>2, <3>1 DEF RoomForKeys, S, p
    <3>3. QED
          BY <1>8, <2>1, <2>2, <3>2 DEF Few
  <2>3. CASE o.chains = <<>>
    <3>1. Len(o.chains) = 0
          BY <2>3
    <3>2. QED
          BY <1>12, <3>1, Bounds
  <2>4. QED
        BY <1>4, <2>2, <2>3
<1>14. m.eph \in 0..(nextKey - 1) /\ m.ctr \in Nat /\ m \in MessageOf(p, nextKey, nextId, Given(p)) /\ o.base = m.base
       BY <1>4, <1>6, <1>10 DEF MessageOf, Opens
<1>15. ~HasChain(o, m.eph) => \A A \in R : A.base = m.base => m.eph = A.us
       BY <1>4, <1>6 DEF Reaches
<1>16. /\ \A A \in R : A.base = m.base => Meets(A, st)
       /\ \A n \in N : n.base = m.base => Reaches(n, R, st, H \cup {m})
  <2>1. /\ R \in SUBSET StateOf(nextKey, Given(p)) /\ N \in SUBSET MessageOf(p, nextKey, nextId, Given(p))
        /\ o \in StateOf(nextKey, Given(s)) /\ m \in N /\ Opens(o, m) /\ ~NoneOf(R, m.base) /\ nextKey \in Nat
        BY <1>4, <1>6, <1>7, <1>10
  <2>2. \A A \in R : A.base = m.base => Meets(A, o)
        BY <1>4
  <2>3. \A n \in N : n.base = m.base => Reaches(n, R, o, H)
        BY <1>4
  <2>4. \A A \in R : m.eph = A.us => m.ctr < A.n
        BY <1>6, <1>10
  <2>5. \A n \in N : n.eph = m.eph /\ n.ctr = m.ctr => n = m
        BY <1>10
  <2>6. ~HasChain(o, m.eph) => Len(o.chains) < MaxChains
        BY <1>13
  <2>7. /\ \A A \in R : A.base = m.base => Meets(A, Opened(o, m))
        /\ \A n \in N : n.base = m.base => Reaches(n, R, Opened(o, m), H \cup {m})
        BY <2>1, <2>2, <2>3, <2>4, <2>5, <2>6, ReadOn
  <2>8. QED
        BY <1>4, <2>7
<1>17. /\ CanSend(s, st, R)
       /\ \A n \in M : n.base = m.base =>
             /\ HasChain(st, n.with)
             /\ \A A \in R : A.base = m.base => HasChain(A, n.eph) \/ n.eph = st.us
  <2>1. HasChain(o, m.eph) => CanSend(s, o, R)
        BY <1>4, <1>8 DEF Carries
  <2>2. \A A \in R : A.base = m.base => HasChain(A, m.with)
        BY <1>4
  <2>3. \A n \in M : n.base = m.base =>
           HasChain(o, n.with) /\ \A A \in R : A.base = m.base => HasChain(A, n.eph) \/ n.eph = o.us
        BY <1>4
  <2>4. /\ R \in SUBSET StateOf(nextKey, Given(p)) /\ o \in StateOf(nextKey, Given(s)) /\ Opens(o, m)
        /\ m \in MessageOf(p, nextKey, nextId, Given(p)) /\ ~NoneOf(R, m.base) /\ nextKey \in Nat
        BY <1>4, <1>7, <1>10, <1>14
  <2>5. ~HasChain(o, m.eph) => Len(o.chains) < MaxChains /\ \A A \in R : A.base = m.base => m.eph = A.us
        BY <1>13, <1>15
  <2>6. /\ CanSend(s, Opened(o, m), R)
        /\ \A n \in M : n.base = m.base =>
              /\ HasChain(Opened(o, m), n.with)
              /\ \A A \in R : A.base = m.base => HasChain(A, n.eph) \/ n.eph = Opened(o, m).us
        BY <2>1, <2>2, <2>3, <2>4, <2>5, AnswersOn
  <2>7. QED
        BY <1>4, <2>6
<1>18. /\ \A c \in Range(st.chains) : c.eph = m.eph \/ c \in Range(o.chains)
       /\ (st.us = nextKey /\ st.n = 0) \/ (o \in S /\ st.us = o.us /\ st.n = o.n)
       /\ Len(st.chains) \in {Len(o.chains), Len(o.chains) + 1}
  <2>1. Advanced(Chain(o, m.eph), m.ctr).eph = m.eph
    <3>1. o \in StateOf(nextKey, Given(s)) /\ m.eph \in 0..(nextKey - 1) /\ nextKey \in Nat /\ m.ctr \in Nat
          BY <1>4, <1>7, <1>14
    <3>2. Chain(o, m.eph) \in ChainOf(nextKey) /\ Chain(o, m.eph).eph = m.eph
          BY <3>1, ChainIs
    <3>3. QED
          BY <3>1, <3>2, AdvancedIs
  <2>2. CASE HasChain(o, m.eph)
    <3>1. /\ st.us = o.us /\ st.n = o.n /\ Len(st.chains) = Len(o.chains)
          /\ \A c \in Range(st.chains) : c = Advanced(Chain(o, m.eph), m.ctr) \/ (c \in Range(o.chains) /\ c.eph # m.eph)
          BY <1>4, <1>7, <1>14, <2>2, SameChain
    <3>2. QED
          BY <1>4, <1>13, <2>1, <2>2, <3>1
  <2>3. CASE ~HasChain(o, m.eph)
    <3>1. /\ st.us = nextKey /\ st.n = 0 /\ Len(st.chains) = Len(o.chains) + 1
          /\ Range(st.chains) = Range(o.chains) \cup {Advanced(Chain(o, m.eph), m.ctr)}
          BY <1>4, <1>7, <1>13, <1>14, <2>3, NewChain
    <3>2. QED
          BY <1>13, <2>1, <3>1
  <2>4. QED
        BY <2>2, <2>3
<1>19. LSide(p)'
  <2>1. ASSUME NEW c \in Range(st.chains)
        PROVE  /\ \A A \in R : c.eph = A.us => st.base = A.base
               /\ \A n \in N : c.eph = n.eph => st.base = n.base
    <3>1. CASE c.eph = m.eph
          BY <1>3, <1>6, <1>8, <3>1 DEF KeysApart
    <3>2. CASE c \in Range(o.chains)
      <4>1. o \in S
        <5>1. o.chains # <<>>
              BY <3>2 DEF Range
        <5>2. QED
              BY <1>4, <5>1
      <4>2. QED
            BY <1>3, <1>8, <1>14, <3>2, <4>1 DEF KeysApart
    <3>3. QED
          BY <1>18, <3>1, <3>2
  <2>2. Had(s)' = H \cup {m}
        BY <1>9
  <2>3. \A n \in N : n.base = st.base => Reaches(n, R, st, Had(s)')
        BY <1>3, <1>16, <2>2
  <2>4. \A A \in R : A.base = st.base => Meets(A, st)
        BY <1>3, <1>16
  <2>5. QED
        BY <1>2, <1>7, <2>1, <2>3, <2>4, PeerKeeps DEF p, R, N
<1>20. Carries(s, T, M, R, Had(p))
  <2>1. ASSUME NEW n \in M, n.base = st.base
        PROVE  /\ HasChain(st, n.with)
               /\ NoneOf(R, n.base) => n.eph = st.us
               /\ \A A \in R : A.base = n.base => HasChain(A, n.eph) \/ n.eph = st.us
        BY <1>3, <1>4, <1>17, <2>1
  <2>2. QED
        BY <1>8, <1>9, <1>17, <2>1, SideRenewed
<1>21. KeysApart(T, M, R)
  <2>1. CASE st.us = nextKey
    <3>1. \A n \in M : n.eph # st.us
          BY <1>7, <1>10, <2>1 DEF MessageOf
    <3>2. \A A \in R : \A c \in Range(A.chains) : c.eph # st.us
      <4>1. \A A \in R : A.chains \in Seq(ChainOf(nextKey))
            BY <1>10 DEF StateOf, ChainsOf
      <4>2. \A A \in R : \A c \in Range(A.chains) : c \in ChainOf(nextKey)
            BY <4>1 DEF Range
      <4>3. QED
            BY <1>7, <2>1, <4>2 DEF ChainOf
    <3>3. QED
          BY <1>7, <1>8, <1>9, <2>1, <3>1, <3>2, SideApart
  <2>2. CASE o \in S /\ st.us = o.us
    <3>1. /\ st.us > 2 /\ \A n \in M : n.eph = st.us => n.base = st.base
          /\ \A A \in R : \A c \in Range(A.chains) : c.eph = st.us => A.base = st.base
          BY <1>3, <1>8, <1>14, <2>2 DEF KeysApart
    <3>2. QED
          BY <1>8, <1>9, <3>1, SideApart
  <2>3. QED
        BY <1>18, <2>1, <2>2
<1>22. Few(nextId, T, M, H \cup {m})
  <2>1. \A A \in T : A = st \/ A \in S
        BY <1>9 DEF Renewed
  <2>2. st.n < nextId
        BY <1>7, <1>8, <1>18 DEF Few
  <2>3. Len(st.chains) <= 1 + Cardinality(H \cup {m})
        BY <1>12, <1>13, <1>18
  <2>4. \A A \in S : Len(A.chains) \in Nat
        BY <1>10 DEF StateOf, ChainsOf
  <2>5. QED
        BY <1>8, <1>12, <2>1, <2>2, <2>3, <2>4 DEF Few
<1>23. PreKeyThere(T, M, R, preKeys[p]) /\ OwnPreKey(T, M)
  <2>1. \A h \in T \cup M : h.pk => h \in S \cup M
        BY <1>3, <1>9 DEF Renewed
  <2>2. PreKeyThere(T, M, R, preKeys[p])
        BY <1>8, <2>1 DEF PreKeyThere
  <2>3. OwnPreKey(T, M)
        BY <1>8, <2>1 DEF OwnPreKey
  <2>4. QED
        BY <2>2, <2>3
<1>24. Removes(s)'
  <2>1. Work(s)' = work
        BY <1>2 DEF Renews
  <2>2. ~NoneOf(T, m.base)
        BY <1>3, <1>9 DEF Renewed, NoneOf
  <2>3. work.pid # None => m.pk /\ m.pid = work.pid
        BY <1>3 DEF m
  <2>4. QED
        BY <2>1, <2>2, <2>3 DEF Removes, T, m
<1>25. LSide(s)'
  <2>1. States(Peer(s))' = R /\ States(s)' = T /\ Had(Peer(s))' = Had(p) /\ preKeys'[Peer(s)] = preKeys[p]
        BY <1>9 DEF p, R, T
  <2>2. QED
        BY <1>7, <1>9, <1>20, <1>21, <1>22, <1>23, <1>24, <2>1 DEF LSide
<1>26. QED
       BY <1>19, <1>25 DEF LInv, p, Peer, Side

\* Going on with what was begun, or nothing, changes no side's states and messages to be.
LEMMA KeepsQuiet ==
    ASSUME LInv, nextId' = nextId,
           \A u \in Side : /\ States(u)' = States(u) /\ Made(u)' = Made(u) /\ Had(u)' = Had(u)
                           /\ Removes(u) => Removes(u)'
                           /\ PreKeyThere(States(u), Made(u), States(Peer(u)), preKeys'[Peer(u)])
    PROVE  LInv'
<1>1. ASSUME NEW u \in Side PROVE LSide(u)'
  <2>1. Peer(u) \in Side
        BY SideIs
  <2>2. States(Peer(u))' = States(Peer(u)) /\ Had(Peer(u))' = Had(Peer(u))
        BY <2>1
  <2>3. LSide(u)
        BY DEF LInv
  <2>4. QED
        BY <2>2, <2>3 DEF LSide
<1>2. QED
      BY <1>1 DEF LInv

\* Storing, removing a pre-key and finishing: the pre-key is of a session that is there.
LEMMA KeepsThread ==
    ASSUME TInv, KInv, DInv, LInv, NEW s \in Side, ThreadStep(s, "net")
    PROVE  LInv'
<1> DEFINE j == Work(s)
           p == Peer(s)
<1>1. j \in Job(s) /\ OneThread /\ p \in Side /\ Peer(p) = s
      BY SideIs, LoadedIs DEF KInv
<1>2. \A u \in Side : /\ LSide(u)
                      /\ PreKeyThere(States(u), Made(u), States(Peer(u)), preKeys[Peer(u)])
      BY DEF LInv, LSide
<1>3. nextId' = nextId
      BY DEF ThreadStep, Store, RemovePreKey, Finish, counters
<1>4. CASE Store(s, "net")
  <2>1. /\ j.at = "store" /\ sess' = [sess EXCEPT ![s] = j.rec] /\ UNCHANGED <<preKeys, network, got>>
        /\ Begin(s, "net", Going(j, IF j.pid = None THEN "finish" ELSE "remove"))
        BY <1>4 DEF Store, Going, Work
  <2>2. /\ Work(s)' = Going(j, IF j.pid = None THEN "finish" ELSE "remove")
        /\ \A u \in Side \ {s} : job'[u] = job[u]
        BY <1>1, <2>1, BegunIs
  <2>3. /\ Work(s)'.at \in {"finish", "remove"} /\ Work(s)'.kind = j.kind /\ Work(s)'.pid = j.pid
        /\ (j.kind \in {"send", "receive"} => Work(s)'.msg = j.msg)
        BY <1>1, <2>1, <2>2, WorkGoes
  <2>4. sess'[s] = j.rec /\ \A u \in Side \ {s} : sess'[u] = sess[u] /\ Work(u)' = Work(u)
        BY <2>1, <2>2 DEF TInv, Records, Work
  <2>5. /\ Sending(s)' <=> Sending(s)
        /\ Receiving(s)' <=> Receiving(s)
        BY <2>1, <2>3 DEF Sending, Receiving
  <2>6. ASSUME NEW u \in Side
        PROVE  /\ States(u)' = States(u) /\ Made(u)' = Made(u) /\ Had(u)' = Had(u)
               /\ Removes(u) => Removes(u)'
    <3>1. CASE u = s
      <4>1. States(s)' = States(s)
            BY <2>1, <2>3, <2>4 DEF States, Latest
      <4>2. Made(s)' = Made(s)
            BY <2>1, <2>3, <2>5 DEF Made, Sending
      <4>3. Had(s)' = Had(s)
            BY <2>1, <2>3, <2>5 DEF Had, Receiving
      <4>4. Removes(s) => Removes(s)'
            BY <2>3, <2>5, <4>1 DEF Removes, Receiving
      <4>5. QED
            BY <3>1, <4>1, <4>2, <4>3, <4>4
    <3>2. CASE u # s
      <4>1. Work(u)' = Work(u) /\ sess'[u] = sess[u]
            BY <2>4, <3>2
      <4>2. States(u)' = States(u) /\ (Sending(u)' <=> Sending(u)) /\ (Receiving(u)' <=> Receiving(u))
            BY <4>1 DEF States, Latest, Sending, Receiving
      <4>3. QED
            BY <2>1, <4>1, <4>2 DEF Made, Had, Removes
    <3>3. QED
          BY <3>1, <3>2
  <2>7. QED
        BY <1>2, <1>3, <2>1, <2>6, KeepsQuiet
<1>5. CASE RemovePreKey(s, "net")
  <2>1. /\ j.at = "remove" /\ preKeys' = [preKeys EXCEPT ![s] = @ \ {j.pid}] /\ UNCHANGED <<sess, network, got>>
        /\ Begin(s, "net", Going(j, "finish"))
        BY <1>5 DEF RemovePreKey, Going, Work
  <2>2. Work(s)' = Going(j, "finish") /\ \A u \in Side \ {s} : job'[u] = job[u]
        BY <1>1, <2>1, BegunIs
  <2>3. /\ Work(s)'.at = "finish" /\ Work(s)'.kind = j.kind /\ Work(s)'.pid = j.pid
        /\ (j.kind \in {"send", "receive"} => Work(s)'.msg = j.msg)
        BY <1>1, <2>1, <2>2, WorkGoes
  <2>4. j.kind = "receive" /\ j.pid # None
        BY <1>1, <2>1, WorkIs
  <2>5. ASSUME NEW u \in Side
        PROVE  /\ States(u)' = States(u) /\ Made(u)' = Made(u) /\ Had(u)' = Had(u)
               /\ Removes(u) => Removes(u)'
    <3>1. CASE u = s
      <4>1. States(s)' = States(s)
            BY <2>1, <2>3 DEF States, Latest
      <4>2. Made(s)' = Made(s) /\ Had(s)' = Had(s)
            BY <2>1, <2>3, <2>4 DEF Made, Had, Sending, Receiving
      <4>3. Removes(s) => Removes(s)'
            BY <2>1, <2>3, <2>4, <4>1 DEF Removes, Receiving
      <4>4. QED
            BY <3>1, <4>1, <4>2, <4>3
    <3>2. CASE u # s
      <4>1. Work(u)' = Work(u)
            BY <2>2, <3>2 DEF Work
      <4>2. States(u)' = States(u) /\ (Sending(u)' <=> Sending(u)) /\ (Receiving(u)' <=> Receiving(u))
            BY <2>1, <4>1 DEF States, Latest, Sending, Receiving
      <4>3. QED
            BY <2>1, <4>1, <4>2 DEF Made, Had, Removes
    <3>3. QED
          BY <3>1, <3>2
  <2>6. PreKeyThere(States(p), Made(p), States(s), preKeys'[s])
    <3>1. Receiving(s) /\ j.msg \in Made(p) /\ j.msg.pk /\ j.msg.pid = j.pid /\ ~NoneOf(States(s), j.msg.base)
      <4>1. Receiving(s)
            BY <2>1, <2>4 DEF Receiving
      <4>2. j.msg \in network /\ j.msg.by = p
            BY <1>1, <4>1, LoadedIs DEF Encrypted, MessageOf
      <4>3. Removes(s)
            BY <1>2 DEF LSide
      <4>4. QED
            BY <2>4, <4>1, <4>2, <4>3 DEF Removes, Made
    <3>2. OwnPreKey(States(p), Made(p)) /\ PreKeyThere(States(p), Made(p), States(s), preKeys[s])
          BY <1>1, <1>2 DEF LSide
    <3>3. preKeys'[s] = preKeys[s] \ {j.pid}
          BY <2>1 DEF TInv, PreKeysKept
    <3>4. \A h \in States(p) \cup Made(p) : h.pk /\ h.pid = j.pid => h.base = j.msg.base
          BY <2>4, <3>1, <3>2 DEF OwnPreKey
    <3>5. QED
          BY <3>1, <3>2, <3>3, <3>4 DEF PreKeyThere
  <2>7. \A u \in Side : PreKeyThere(States(u), Made(u), States(Peer(u)), preKeys'[Peer(u)])
    <3>1. preKeys'[p] = preKeys[p]
          BY <1>1, <2>1, SideIs DEF TInv, PreKeysKept
    <3>2. \A u \in Side : u = s \/ u = p
          BY DEF Peer, Side
    <3>3. QED
          BY <1>1, <1>2, <2>6, <3>1, <3>2
  <2>8. QED
        BY <1>3, <2>5, <2>7, KeepsQuiet
<1>6. CASE Finish(s, "net")
  <2>1. /\ Begin(s, "net", Idle) /\ j.at = "finish" /\ j.kind \in {"send", "session", "receive"}
        /\ UNCHANGED <<sess, preKeys>>
        /\ network' = IF j.kind = "send" THEN network \cup {j.msg} ELSE network
        /\ got' = IF j.kind = "receive" THEN [got EXCEPT ![j.msg.id] = 1] ELSE got
        /\ j.kind = "send" => Sending(s) /\ j.msg.by = s /\ got[j.msg.id] = 0
        /\ j.kind = "receive" => Receiving(s) /\ j.msg.by = p /\ j.msg.id \in Id /\ j.msg \in network
        BY <1>6, FinishIs
  <2>2. Work(s)' = Idle /\ \A u \in Side \ {s} : job'[u] = job[u]
        BY <1>1, <2>1, BegunIs
  <2>3. ~Sending(s)' /\ ~Receiving(s)' /\ (Sending(s) <=> j.kind = "send") /\ (Receiving(s) <=> j.kind = "receive")
        BY <2>1, <2>2 DEF Sending, Receiving, Idle
  <2>4. Work(p)' = Work(p) /\ (Sending(p)' <=> Sending(p)) /\ (Receiving(p)' <=> Receiving(p))
        BY <1>1, <2>2, SideIs DEF Work, Sending, Receiving
  <2>5. States(s)' = States(s) /\ States(p)' = States(p)
        BY <2>1, <2>2, <2>4 DEF States, Latest, Idle
  <2>6. Made(s)' = Made(s) /\ Made(p)' = Made(p)
    <3>1. CASE j.kind = "send"
      <4>1. j.msg.by # p /\ j.msg.by = s
            BY <1>1, <2>1, <3>1, SideIs
      <4>2. QED
            BY <2>1, <2>3, <2>4, <3>1, <4>1 DEF Made
    <3>2. CASE j.kind # "send"
          BY <2>1, <2>3, <2>4, <3>2 DEF Made
    <3>3. QED
          BY <3>1, <3>2
  <2>7. Had(s)' = Had(s) /\ Had(p)' = Had(p)
    <3>1. CASE j.kind = "send"
          BY <1>1, <2>1, <2>3, <2>4, <3>1 DEF Had
    <3>2. CASE j.kind = "session"
          BY <2>1, <2>3, <2>4, <3>2 DEF Had
    <3>3. CASE j.kind = "receive"
      <4>1. \A m \in network : m.id \in Id /\ (m.id = j.msg.id => m = j.msg)
        <5>1. \A m \in network : m \in Encrypted(1) \cup Encrypted(2)
              BY DEF TInv, Messages
        <5>2. 1..(nextId - 1) \subseteq Id
              BY Bounds DEF Id, TInv, Counted
        <5>3. \A m \in network : m.id = j.msg.id => m = j.msg
              BY <2>1, <3>3 DEF DInv, IdsOnce
        <5>4. QED
              BY <5>1, <5>2, <5>3 DEF Encrypted, MessageOf
      <4>2. \A m \in network : got'[m.id] = IF m = j.msg THEN 1 ELSE got[m.id]
            BY <2>1, <3>3, <4>1 DEF TInv, Messages
      <4>3. j.msg.by # s /\ Peer(p) = s
            BY <1>1, <2>1, <3>3, SideIs
      <4>4. {m \in network : m.by = p /\ got'[m.id] = 1} = {m \in network : m.by = p /\ got[m.id] = 1} \cup {j.msg}
            BY <2>1, <3>3, <4>2
      <4>5. {m \in network : m.by = s /\ got'[m.id] = 1} = {m \in network : m.by = s /\ got[m.id] = 1}
            BY <4>2, <4>3
      <4>6. QED
            BY <2>1, <2>3, <2>4, <3>3, <4>3, <4>4, <4>5 DEF Had
    <3>4. QED
          BY <2>1, <3>1, <3>2, <3>3
  <2>8. (Removes(s) => Removes(s)') /\ (Removes(p) => Removes(p)')
        BY <2>3, <2>4, <2>5 DEF Removes
  <2>9. \A u \in Side : u = s \/ u = p
        BY DEF Peer, Side
  <2>10. \A u \in Side : preKeys'[Peer(u)] = preKeys[Peer(u)]
         BY <2>1
  <2> HIDE DEF p
  <2>11. \A u \in Side : /\ States(u)' = States(u) /\ Made(u)' = Made(u) /\ Had(u)' = Had(u)
                         /\ Removes(u) => Removes(u)'
         BY <2>5, <2>6, <2>7, <2>8, <2>9
  <2>12. QED
         BY <1>2, <1>3, <2>10, <2>11, KeepsQuiet
<1>7. QED
      BY <1>4, <1>5, <1>6 DEF ThreadStep

\* Nothing was sent at first.
LEMMA NothingInit == Init => LInv
<1> SUFFICES ASSUME Init, NEW s \in Side PROVE LSide(s)
    BY DEF LInv
<1>1. \A u \in Side : Work(u) = Idle /\ sess[u] = <<>> /\ network = {}
      BY DEF Init, Work, Thread
<1>2. ASSUME NEW u \in Side PROVE States(u) = {} /\ Made(u) = {} /\ Had(u) = {} /\ ~Receiving(u)
  <2>1. Latest(u) = <<>>
        BY <1>1 DEF Latest, Idle
  <2>2. States(u) = {}
        BY <2>1 DEF States, Range
  <2>3. ~Sending(u) /\ ~Receiving(u)
        BY <1>1 DEF Sending, Receiving, Idle
  <2>4. QED
        BY <1>1, <2>2, <2>3 DEF Made, Had
<1>3. Peer(s) \in Side
      BY SideIs
<1>4. QED
      BY <1>2, <1>3 DEF LSide, Carries, KeysApart, Few, PreKeyThere, OwnPreKey, Removes

\* Every step keeps what decryption rests on, as long as there is room.
LEMMA NothingStep == TInv /\ KInv /\ DInv /\ LInv /\ Roomy /\ RoomForKeys /\ [Next]_vars => LInv'
<1> SUFFICES ASSUME TInv, KInv, DInv, LInv, Roomy, RoomForKeys, [Next]_vars PROVE LInv'
    OBVIOUS
<1>1. OneThread /\ ~DirectSends
      BY DEF KInv, Roomy
<1>2. ASSUME NEW s \in Side, ProcessBundle(s) PROVE LInv'
      BY <1>2, KeepsSession
<1>3. ASSUME NEW s \in Side, NEW t \in Thread, Encrypt(s, t) PROVE LInv'
  <2>1. t = "net"
        BY <1>1, <1>3, NetWorks
  <2>2. QED
        BY <1>3, <2>1, KeepsSend
<1>4. ASSUME NEW s \in Side, NEW m \in network, Decrypt(s, m) PROVE LInv'
      BY <1>4, KeepsReceive
<1>5. ASSUME NEW s \in Side, NEW t \in Thread, ThreadStep(s, t) PROVE LInv'
  <2>1. t = "net"
        BY <1>1, <1>5, NetWorks
  <2>2. QED
        BY <1>5, <2>1, KeepsThread
<1>6. ASSUME NEW s \in Side, Crash(s) PROVE LInv'
  <2>1. crashes < 0 /\ crashes \in Nat
        BY <1>6, Bounds DEF Crash, Roomy, TInv, Counted
  <2>2. QED
        BY <2>1
<1>7. CASE UNCHANGED vars
  <2>1. /\ UNCHANGED <<sess, preKeys, network, got, nextId>>
        /\ \A u \in Side : Work(u)' = Work(u)
        BY <1>7 DEF vars, local, counters, Work
  <2>2. \A u \in Side : (Sending(u)' <=> Sending(u)) /\ (Receiving(u)' <=> Receiving(u)) /\ Latest(u)' = Latest(u)
        BY <2>1 DEF Sending, Receiving, Latest
  <2>3. \A u \in Side : States(u)' = States(u)
        BY <2>2 DEF States
  <2>4. \A u \in Side : Made(u)' = Made(u) /\ Had(u)' = Had(u) /\ (Removes(u) => Removes(u)')
        BY <2>1, <2>2, <2>3 DEF Made, Had, Removes
  <2>5. \A u \in Side : PreKeyThere(States(u), Made(u), States(Peer(u)), preKeys'[Peer(u)])
        BY <2>1 DEF LInv, LSide
  <2>6. QED
        BY <2>1, <2>3, <2>4, <2>5, KeepsQuiet
<1>8. QED
      BY <1>2, <1>3, <1>4, <1>5, <1>6, <1>7 DEF Next

\* What the peer sent, a state of the record decrypts, and those before it call it invalid: they
\* do not know its ratchet key; or the first state of a new session does.
LEMMA NothingIs == TInv /\ KInv /\ DInv /\ LInv /\ RoomForKeys => NothingLost
<1> SUFFICES ASSUME TInv, KInv, DInv, LInv, RoomForKeys, NEW s \in Side, NEW m \in network,
                    m.by = Peer(s), got[m.id] = 0, Work(s) = Idle
             PROVE  Decryptable(s, m)
    BY DEF NothingLost
<1> DEFINE p == Peer(s)
           R == States(p)
           M == Made(p)
           S == States(s)
           H == Had(s)
           k == nextKey
<1>1. p \in Side /\ Peer(p) = s
      BY SideIs
<1>2. S = Range(sess[s]) /\ m \notin H /\ m \in M
      BY DEF States, Latest, Had, Made, Receiving, Idle
<1>3. /\ CanOpen(p, m, R, S, H) /\ KeysApart(R, M, S) /\ PreKeyThere(R, M, S, preKeys[s])
      BY <1>1, <1>2 DEF LInv, LSide, Carries
<1>4. /\ m.base \in 0..(k - 1) /\ m.eph \in 0..(k - 1) /\ m.with \in 0..(k - 1) /\ m.ctr \in Nat /\ m.ctr <= MaxSkip
      /\ k \in Nat /\ k > 2
      BY <1>1, <1>2, SidesAre DEF MessageOf, RoomForKeys, TInv, Counted
<1>5. sess[s] \in Seq(StateOf(k, Given(s))) /\ Len(sess[s]) <= MaxArchived + 1
      BY DEF TInv, Records, Record, RecordOf
<1>6. None \in Given(s)
      BY Bounds, SideIs DEF Given, None, TInv, PreKeysKept
<1>7. CASE NoneOf(S, m.base)
  <2> DEFINE bob == BobState(s, m.base)
             rec == Archive(sess[s], bob)
  <2>1. m.pk /\ m.with = SignedPreKey(s)
        BY <1>1, <1>3, <1>7 DEF CanOpen
  <2>2. m.pid # None => m.pid \in preKeys[s]
        BY <1>2, <1>3, <1>7, <2>1 DEF PreKeyThere
  <2>3. Processed(s, sess[s], m) = rec
        BY <1>2, <1>7, <2>1 DEF Processed, NoneOf
  <2>4. /\ bob = [base |-> m.base, us |-> s, theirs |-> 0, n |-> 0, pk |-> FALSE, pid |-> None, chains |-> <<>>]
        BY DEF BobState, SignedPreKey, None
  <2> HIDE DEF bob
  <2>5. bob \in StateOf(k, Given(s))
    <3>1. s \in 0..(k - 1) /\ 0 \in 0..(k - 1) /\ <<>> \in ChainsOf(k)
          BY <1>4, Bounds DEF Side, ChainsOf
    <3>2. QED
          BY <1>4, <1>6, <2>4, <3>1 DEF StateOf
  <2>6. rec \in Seq(StateOf(k, Given(s))) /\ Fronted(sess[s], rec, bob, 0)
        BY <1>5, <2>5, ArchiveIs
  <2> HIDE DEF rec
  <2>7. rec[1] = bob /\ 1 \in DOMAIN rec
    <3>1. rec[1] = bob
          BY <2>6 DEF Fronted
    <3>2. Len(rec) >= 1 /\ Len(rec) \in Nat
          BY <1>5, <2>6, Bounds DEF Fronted
    <3>3. QED
          BY <2>6, <3>1, <3>2
  <2>8. Opens(bob, m)
    <3>1. ~HasChain(bob, m.eph)
          BY <2>4 DEF HasChain, Range
    <3>2. Chain(bob, m.eph).with = s /\ Chain(bob, m.eph).next = 0
          BY <1>4, <2>4, <2>5, <3>1, ChainIs
    <3>3. QED
          BY <1>4, <2>1, <2>4, <3>2 DEF Opens, SignedPreKey
  <2>9. 1 \in Opening(rec, m)
        BY <2>7, <2>8 DEF Opening
  <2>10. QED
         BY <2>1, <2>2, <2>3, <2>9 DEF Decryptable
<1>8. CASE ~NoneOf(S, m.base)
  <2>1. PICK i \in DOMAIN sess[s] : sess[s][i].base = m.base
        BY <1>2, <1>8 DEF NoneOf, Range
  <2>2. i \in 1..Len(sess[s]) /\ Len(sess[s]) \in Nat /\ DOMAIN sess[s] = 1..Len(sess[s])
        BY <1>5, <2>1
  <2>3. \A j \in DOMAIN sess[s] : sess[s][j] \in S /\ sess[s][j] \in StateOf(k, Given(s))
        BY <1>2, <1>5 DEF Range
  <2>4. Processed(s, sess[s], m) = sess[s] /\ sess[s] # <<>>
        BY <1>2, <1>8, <2>2 DEF Processed, NoneOf
  <2>5. \A j \in DOMAIN sess[s] :
           LET c == Chain(sess[s][j], m.eph) IN
           /\ c \in ChainOf(k) /\ c.eph = m.eph /\ (HasChain(sess[s][j], m.eph) => c \in Range(sess[s][j].chains))
           /\ ~HasChain(sess[s][j], m.eph) => c.with = sess[s][j].us /\ c.next = 0
        BY <1>4, <2>3, ChainIs DEF Range
  <2>6. Opens(sess[s][i], m)
    <3> DEFINE c == Chain(sess[s][i], m.eph)
    <3>1. Reaches(m, R, sess[s][i], H)
          BY <1>3, <2>1, <2>3 DEF CanOpen
    <3>2. c \in ChainOf(k) /\ c.eph = m.eph /\ (HasChain(sess[s][i], m.eph) => c \in Range(sess[s][i].chains))
          /\ (~HasChain(sess[s][i], m.eph) => c.with = sess[s][i].us /\ c.next = 0)
          BY <2>1, <2>5
    <3>3. c.next \in Nat
          BY <3>2 DEF ChainOf
    <3> HIDE DEF c
    <3>4. m.with = c.with
          BY <3>1, <3>2 DEF Reaches, Follows
    <3>5. m.ctr < c.next => m.ctr \in c.saved
          BY <1>2, <1>4, <3>1, <3>2, <3>3 DEF Reaches
    <3>6. m.ctr - c.next <= MaxSkip
          BY <1>4, <3>3, Bounds
    <3>7. QED
          BY <2>1, <3>4, <3>5, <3>6 DEF Opens, c
  <2>7. ASSUME NEW j \in 1..(i - 1) PROVE ~Opens(sess[s][j], m) /\ ~Duplicate(sess[s][j], m)
    <3>1. j \in DOMAIN sess[s] /\ j # i
          BY <2>2
    <3>2. sess[s][j].base # m.base
          BY <2>1, <3>1 DEF DInv, OneBase, Loaded
    <3>3. ~HasChain(sess[s][j], m.eph)
          BY <1>2, <1>3, <2>3, <3>1, <3>2 DEF HasChain, KeysApart
    <3>4. Chain(sess[s][j], m.eph).next = 0
          BY <2>5, <3>1, <3>3
    <3>5. QED
          BY <1>4, <3>2, <3>4 DEF Opens, Duplicate
  <2>8. i \in Opening(sess[s], m)
        BY <2>1, <2>6, <2>7 DEF Opening
  <2>9. QED
        BY <1>2, <1>8, <2>4, <2>8 DEF Decryptable
<1>9. QED
      BY <1>7, <1>8

\* Whatever was sent can be decrypted when its receiver gets to it, however the messages of both
\* sides were delayed, reordered and repeated, and through ratchets, skipped keys, archived states
\* and sessions set up by both sides at the same time: where one thread encrypts and decrypts,
\* nothing crashes and the archive has room for every session; as long as each message's chain is
\* in its session or takes no other's place there, and is not longer than may be skipped.
THEOREM NothingIsLost == Roomy => (Spec /\ []RoomForKeys => []NothingLost)
<1> SUFFICES ASSUME Roomy PROVE Spec /\ []RoomForKeys => []NothingLost
    OBVIOUS
<1>1. ~DirectSends /\ Enough
      BY DEF Roomy, Enough
<1>2. Init => TInv /\ KInv /\ DInv /\ LInv
      BY TypeInit, KeysInit, OnceInit, NothingInit
<1>3. (TInv /\ KInv /\ DInv /\ LInv) /\ RoomForKeys /\ [Next]_vars => (TInv /\ KInv /\ DInv /\ LInv)'
      BY <1>1, TypeStep, KeysStep, OnceStep, NothingStep
<1>4. TInv /\ KInv /\ DInv /\ LInv /\ RoomForKeys => NothingLost
      BY NothingIs
<1>5. QED
      BY <1>2, <1>3, <1>4, PTL DEF Spec

\* A conversation has that room, whatever its order, when its messages are fewer than the chains
\* kept, the first of a session included, and no more than may be skipped.
THEOREM ShortHasRoom ==
    Roomy /\ MaxMsg + 1 < MaxChains /\ MaxMsg <= MaxSkip + 1 => (Spec => []RoomForKeys)
<1> SUFFICES ASSUME Roomy, MaxMsg + 1 < MaxChains, MaxMsg <= MaxSkip + 1 PROVE Spec => []RoomForKeys
    OBVIOUS
<1> DEFINE Inv == TInv /\ KInv /\ DInv /\ LInv
<1>1. ~DirectSends /\ Enough
      BY DEF Roomy, Enough
<1>2. Init => Inv
      BY TypeInit, KeysInit, OnceInit, NothingInit
<1>3. Inv => RoomForKeys
  <2> SUFFICES ASSUME Inv PROVE RoomForKeys
      OBVIOUS
  <2>1. nextId \in Nat /\ nextId <= MaxMsg + 1
        BY DEF TInv, Counted
  <2>2. ASSUME NEW s \in Side, NEW st \in States(s) PROVE Len(st.chains) < MaxChains
    <3>1. Len(st.chains) <= 1 + Cardinality(Had(s))
          BY DEF LInv, LSide, Few
    <3>2. Cardinality(Had(s)) < nextId /\ Cardinality(Had(s)) \in Nat
          BY HadFew, SidesAre, SideIs
    <3>3. Len(st.chains) \in Nat
          BY SidesAre DEF StateOf, ChainsOf
    <3>4. QED
          BY <2>1, <3>1, <3>2, <3>3, Bounds
  <2>3. ASSUME NEW m \in network PROVE m.ctr <= MaxSkip
    <3>1. PICK s \in Side : m \in Made(s) /\ m.ctr \in Nat
          BY DEF TInv, Messages, Encrypted, MessageOf, Made, Side
    <3>2. m.ctr + 1 < nextId
          BY <3>1 DEF LInv, LSide, Few
    <3>3. QED
          BY <2>1, <3>1, <3>2, Bounds
  <2>4. QED
        BY <2>2, <2>3 DEF RoomForKeys
<1>4. Inv /\ [Next]_vars => Inv'
      BY <1>1, <1>3, TypeStep, KeysStep, OnceStep, NothingStep
<1>5. QED
      BY <1>2, <1>3, <1>4, PTL DEF Spec

-----------------------------------------------------------------------------
(* The instance in which the devices crash.                                *)

\* Where the devices crash, the instance that is checked keeps its records within their
\* limits as well: its steps are Session's.
THEOREM CrashWithin == MCSpec => [](instance = "crash" => WithinLimits)
<1> DEFINE CrashInv == instance = "crash" => TInv
<1>1. MCInit => CrashInv
      BY TypeInit DEF MCInit
<1>2. CrashInv /\ [MCNext]_<<vars, instance>> => CrashInv'
  <2>1. CASE instance = "crash" /\ MCNext
        BY <2>1, TypeStep DEF MCNext
  <2>2. CASE UNCHANGED <<vars, instance>>
    <3>1. UNCHANGED vars /\ instance' = instance
          BY <2>2
    <3>2. QED
          BY <3>1, TypeStep
  <2>3. CASE instance # "crash" /\ MCNext
        BY <2>3 DEF MCNext
  <2>4. QED
        BY <2>1, <2>2, <2>3
<1>3. CrashInv => (instance = "crash" => WithinLimits)
      BY TypesAre DEF WithinLimits
<1>4. MCSpec => MCInit /\ [][MCNext]_<<vars, instance>>
      BY PTL DEF MCSpec
<1>5. QED
      BY <1>1, <1>2, <1>3, <1>4, PTL
=============================================================================
