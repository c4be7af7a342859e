--------------------------- MODULE AccountsProofs ---------------------------
(***************************************************************************)
(* Proofs about Accounts, for all accounts, threads and environments.      *)
(*                                                                         *)
(* The argument is one of ownership.  A client that is being added is      *)
(* known to nobody but the call that adds it, which keeps the lock until   *)
(* the client is in the table; the client that is removed is the one in    *)
(* the table, by the lock again; and a call that gives one bot for another *)
(* has told the first to quit.                                             *)
(***************************************************************************)
EXTENDS Accounts, TLAPS

Bot ==
    [at : {"new", "thread", "loop", "up", "closing", "down"}, inloop : BOOLEAN, quit : BOOLEAN,
     login : BOOLEAN, handshake : BOOLEAN, connected : BOOLEAN]
ClientRecord == [bot : Nat, started : BOOLEAN]
Calls ==
    {"add", "remove", "rotate", "load", "removeAll", "disconnectAll", "disconnect"}
Places ==
    {"lock", "lock to remove", "add", "insert", "connect", "started", "login", "verify", "renew",
     "quit", "stopped", "delete", "remove", "remove all", "disconnect all", "get", "end", "known",
     "next", "clean", "read"}
Calling ==
    [op : Calls, at : Places, account : Account, flag : BOOLEAN, client : Nat, envs : Nat,
     again : BOOLEAN, made : SUBSET Nat, todo : SUBSET Account]
Called == [Thread -> {Idle} \cup Calling]
Busy(t) == call[t] # Idle

\* Where a call can be.
AddPlaces == {"lock", "add", "insert", "connect", "started", "login", "quit", "stopped", "renew"}
RemovePlaces == {"lock to remove", "remove", "quit", "stopped", "delete"}
PlacesOf(op) ==
    CASE op = "add" -> AddPlaces
      [] op = "load" -> AddPlaces \cup {"next", "read"}
      [] op = "rotate" -> {"known", "next", "lock", "add", "clean", "insert", "connect", "started",
                           "login", "verify"} \cup RemovePlaces
      [] op = "remove" -> RemovePlaces
      [] op = "removeAll" -> {"lock", "remove all", "lock to remove"}
      [] op = "disconnectAll" -> {"lock", "disconnect all", "quit", "stopped"}
      [] op = "disconnect" -> {"get", "quit", "stopped", "end"}

\* What the argument needs of the variables' types.
Typed ==
    /\ bots \in Seq(Bot) /\ clients \in Seq(ClientRecord) /\ call \in Called
    /\ \A c \in DOMAIN clients : BotOf(c) \in DOMAIN bots
    /\ table \in [Account -> 0..Len(clients)]

\* A call is where its operation goes, with the clients it has.
Placed(t) ==
    Busy(t) =>
       /\ At(t) \in PlacesOf(Op(t)) /\ Client(t) \in 0..Len(clients)
       /\ call[t].made \subseteq DOMAIN clients
       /\ At(t) \in {"insert", "connect", "started", "login", "verify", "quit", "stopped", "renew",
                     "delete"} => Client(t) # None

\* The places a call is at with the lock.
Locked(t) ==
    \/ At(t) \in {"add", "insert", "remove", "delete", "remove all", "disconnect all"}
    \/ Op(t) \in {"add", "load"} /\ At(t) \in {"connect", "started", "login", "renew"}
    \/ Op(t) # "disconnect" /\ At(t) \in {"quit", "stopped"}
    \/ Op(t) = "removeAll" /\ At(t) = "lock to remove"

\* A call that has made a client and not put it into the table yet: nobody else
\* knows the client.
Adding(t) ==
    \/ Op(t) \in {"add", "load"}
       /\ At(t) \in {"insert", "connect", "started", "login", "quit", "stopped", "renew"}
    \/ Op(t) = "rotate" /\ At(t) = "insert"
Private(t) ==
    Adding(t) =>
       /\ \A a \in Account : table[a] # Client(t)
       /\ \A u \in Thread \ {t} : Busy(u) => Client(u) # Client(t) /\ Client(t) \notin call[u].made

\* A call that adds leaves a bot for the next one only when it was told to quit.
Quits(c) == bots[BotOf(c)].quit
Renewing(t) ==
    Op(t) \in {"add", "load"} =>
       /\ At(t) \in {"login", "quit"} => clients[Client(t)].started
       /\ At(t) \in {"stopped", "renew"} => Quits(Client(t))

\* The client that is added takes no other client's place, and the one that is removed
\* is the one in the table.
InPlace(t) ==
    /\ Adding(t) => table[Of(t)] = None
    /\ Op(t) \in {"remove", "rotate"} /\ At(t) \in {"quit", "stopped", "delete"} =>
          table[Of(t)] = Client(t)

\* Between two environments a rotation has no client of its own in the table, but
\* one whose bot was told to quit.
Cleaned(t) ==
    Op(t) = "rotate" /\ At(t) \in {"known", "next", "lock", "add", "clean"} =>
        (table[Of(t)] \in call[t].made => Quits(table[Of(t)]))

Fine(t) ==
    /\ Placed(t) /\ (Locked(t) => lock = t)
    /\ Private(t) /\ Renewing(t) /\ InPlace(t) /\ Cleaned(t)

\* A bot is of a client in the table or in a call that adds it, or was told to quit, or
\* its client was removed without a quit.
Kept(b) ==
    \/ bots[b].quit \/ b \in loose
    \/ \E a \in Account : table[a] # None /\ BotOf(table[a]) = b
    \/ \E t \in Thread : Adding(t) /\ BotOf(Client(t)) = b

IInv == Typed /\ (\A t \in Thread : Fine(t)) /\ \A b \in DOMAIN bots : Kept(b)

-----------------------------------------------------------------------------
(* Steps of bots.                                                          *)

\* A bot that was told to quit stays so.
BotsGoOn ==
    /\ bots' \in Seq(Bot) /\ DOMAIN bots' = DOMAIN bots
    /\ \A b \in DOMAIN bots : bots[b].quit => bots'[b].quit

\* What a bot becomes.
LEMMA BecomesIs ==
    ASSUME bots \in Seq(Bot), NEW b \in DOMAIN bots, NEW r \in Bot, bots[b].quit => r.quit, Becomes(b, r)
    PROVE  BotsGoOn /\ bots'[b] = r
<1>1. bots' = [bots EXCEPT ![b] = r]
      BY DEF Becomes
<1>2. bots' \in Seq(Bot) /\ DOMAIN bots' = DOMAIN bots
      BY <1>1
<1>3. \A c \in DOMAIN bots : bots'[c] = IF c = b THEN r ELSE bots[c]
      BY <1>1
<1>4. QED
      BY <1>2, <1>3 DEF BotsGoOn

\* What becomes of the flags of a bot does not take back a quit.
LEMMA Flags ==
    ASSUME NEW r \in Bot, NEW p \in {"thread", "up", "down"}
    PROVE  /\ [r EXCEPT !.at = p] \in Bot /\ [r EXCEPT !.at = p].quit = r.quit
           /\ [r EXCEPT !.at = "loop", !.inloop = TRUE] \in Bot
           /\ [r EXCEPT !.at = "loop", !.inloop = TRUE].quit = r.quit
           /\ [r EXCEPT !.connected = TRUE, !.login = TRUE] \in Bot
           /\ [r EXCEPT !.connected = TRUE, !.login = TRUE].quit = r.quit
           /\ [r EXCEPT !.login = TRUE, !.at = "down"] \in Bot
           /\ [r EXCEPT !.login = TRUE, !.at = "down"].quit = r.quit
           /\ [r EXCEPT !.handshake = TRUE, !.login = FALSE] \in Bot
           /\ [r EXCEPT !.handshake = TRUE, !.login = FALSE].quit = r.quit
           /\ [r EXCEPT !.connected = FALSE, !.login = FALSE] \in Bot
           /\ [r EXCEPT !.connected = FALSE, !.login = FALSE].quit = r.quit
           /\ [r EXCEPT !.connected = FALSE, !.at = "down"] \in Bot
           /\ [r EXCEPT !.connected = FALSE, !.at = "down"].quit = r.quit
BY DEF Bot

\* What becomes of the bot that is told to quit.
LEMMA QuitFlags ==
    ASSUME NEW r \in Bot
    PROVE  /\ [r EXCEPT !.at = "down", !.inloop = FALSE, !.quit = TRUE] \in Bot
           /\ [r EXCEPT !.at = "down", !.inloop = FALSE, !.quit = TRUE].quit
           /\ [r EXCEPT !.quit = TRUE, !.at = IF @ = "up" THEN "closing" ELSE @] \in Bot
           /\ [r EXCEPT !.quit = TRUE, !.at = IF @ = "up" THEN "closing" ELSE @].quit
           /\ [r EXCEPT !.quit = TRUE, !.connected = FALSE] \in Bot
           /\ [r EXCEPT !.quit = TRUE, !.connected = FALSE].quit
BY DEF Bot

\* What the thread of a bot does.
LEMMA BotSteps ==
    ASSUME bots \in Seq(Bot), NEW b \in DOMAIN bots, BotStep(b) \/ BotLoses(b)
    PROVE  BotsGoOn /\ UNCHANGED <<table, lock, clients, call, calls, loose>>
<1>1. bots[b] \in Bot
      OBVIOUS
<1>2. \E r \in Bot : (bots[b].quit => r.quit) /\ Becomes(b, r)
  <2>1. CASE BotRuns(b)
        BY <1>1, <2>1, Flags DEF BotRuns
  <2>2. CASE BotConnects(b)
        BY <1>1, <2>2, Flags, QuitFlags DEF BotConnects
  <2>3. CASE BotHears(b)
        BY <1>1, <2>3, Flags DEF BotHears
  <2>4. CASE BotLoses(b)
        BY <1>1, <2>4, Flags DEF BotLoses
  <2>5. CASE BotEnds(b)
        BY <1>1, <2>5, Flags DEF BotEnds
  <2>6. QED
        BY <2>1, <2>2, <2>3, <2>4, <2>5 DEF BotStep
<1>3. UNCHANGED <<table, lock, clients, call, calls, loose>>
      BY DEF BotStep, BotRuns, BotConnects, BotHears, BotEnds, BotLoses, OfBots
<1>4. QED
      BY <1>2, <1>3, BecomesIs

-----------------------------------------------------------------------------
(* Steps of calls.                                                         *)

Others(t) == call' \in Called /\ \A u \in Thread \ {t} : call'[u] = call[u]
Moves(t, p) ==
    /\ Others(t) /\ Busy(t)'
    /\ At(t)' = p /\ Op(t)' = Op(t) /\ Of(t)' = Of(t) /\ Client(t)' = Client(t)
    /\ call'[t].made = call[t].made
Stops(t) == Others(t) /\ call'[t] = Idle

\* A call that is going on has all its fields.
LEMMA BusyIs ==
    ASSUME call \in Called, NEW t \in Thread
    PROVE  /\ At(t) # "idle" <=> Busy(t)
           /\ Busy(t) <=> call[t] \in Calling
           /\ ~Busy(t) => Op(t) = "none"
<1>1. call[t] \in {Idle} \cup Calling
      BY DEF Called
<1>2. Idle.at = "idle" /\ Idle.op = "none"
      BY DEF Idle
<1>3. \A r \in Calling : r.at # "idle"
      BY DEF Calling, Places
<1>4. QED
      BY <1>1, <1>2, <1>3 DEF At, Op, Busy

\* What Goto does.
LEMMA GotoIs ==
    ASSUME call \in Called, NEW t \in Thread, At(t) # "idle", NEW p \in Places, Goto(t, p)
    PROVE  Moves(t, p)
<1>1. call[t] \in Calling
      BY BusyIs
<1> DEFINE r == [call[t] EXCEPT !.at = p]
<1>2. r \in Calling
      BY <1>1 DEF Calling
<1>3. /\ r.at = p /\ r.op = call[t].op /\ r.account = call[t].account
      /\ r.client = call[t].client /\ r.made = call[t].made
      BY <1>1 DEF Calling
<1>4. call' = [call EXCEPT ![t] = r]
      BY DEF Goto
<1> HIDE DEF r
<1>5. call' \in Called /\ call'[t] = r /\ \A u \in Thread \ {t} : call'[u] = call[u]
      BY <1>2, <1>4 DEF Called
<1>6. r # Idle
  <2>1. p # "idle"
        BY DEF Places
  <2>2. Idle.at = "idle"
        BY DEF Idle
  <2>3. QED
        BY <1>3, <2>1, <2>2
<1>7. QED
      BY <1>3, <1>5, <1>6 DEF Moves, Others, Busy, At, Op, Of, Client

\* What Finish does.
LEMMA FinishIs ==
    ASSUME call \in Called, NEW t \in Thread, Finish(t)
    PROVE  Stops(t)
BY DEF Finish, Stops, Others, Called

\* Clients keep their bots.
ClientsStay ==
    /\ clients' \in Seq(ClientRecord) /\ DOMAIN clients' = DOMAIN clients /\ Len(clients') = Len(clients)
    /\ \A c \in DOMAIN clients : BotOf(c)' = BotOf(c)

\* What a call that takes no step is left with.
LEMMA OtherFine ==
    ASSUME Typed, NEW u \in Thread, Fine(u), call' \in Called, call'[u] = call[u], table' = table,
           BotsGoOn, ClientsStay, Locked(u) => lock' = lock,
           Adding(u) => /\ clients'[Client(u)].started = clients[Client(u)].started
                        /\ \A v \in Thread \ {u} : Busy(v)' =>
                              Client(v)' # Client(u) /\ Client(u) \notin call'[v].made
    PROVE  Fine(u)'
<1>1. /\ At(u)' = At(u) /\ Op(u)' = Op(u) /\ Of(u)' = Of(u) /\ Client(u)' = Client(u)
      /\ Busy(u)' = Busy(u) /\ call'[u].made = call[u].made
      BY DEF At, Op, Of, Client, Busy
<1>2. Locked(u)' = Locked(u) /\ Adding(u)' = Adding(u)
      BY <1>1 DEF Locked, Adding
<1>3. Busy(u) => Of(u) \in Account /\ table[Of(u)] \in 0..Len(clients)
      BY BusyIs DEF Typed, Calling, Of
<1>4. \A c \in DOMAIN clients : Quits(c) => Quits(c)'
      BY DEF Quits, BotsGoOn, ClientsStay, Typed
<1>5. ~Busy(u) => Op(u) = "none"
      BY BusyIs DEF Typed
<1>6. DOMAIN clients = 1..Len(clients) /\ Len(clients) \in Nat
      BY DEF Typed
<1>7. Placed(u)'
      BY <1>1 DEF Fine, Placed, ClientsStay
<1>8. Locked(u)' => lock' = u
      BY <1>2 DEF Fine
<1>9. Private(u)'
      BY <1>1, <1>2 DEF Fine, Private
<1>10. Renewing(u)'
  <2>1. Op(u) \in {"add", "load"} /\ At(u) \in {"login", "quit"} => Adding(u)
        BY DEF Adding
  <2>2. Op(u) \in {"add", "load"} /\ At(u) \in {"stopped", "renew"} => Client(u) \in DOMAIN clients
        BY <1>5, <1>6 DEF Fine, Placed, None
  <2>3. QED
        BY <1>1, <1>4, <2>1, <2>2 DEF Fine, Renewing
<1>11. InPlace(u)'
       BY <1>1, <1>2 DEF Fine, InPlace
<1>12. Cleaned(u)'
  <2>1. Busy(u) /\ table[Of(u)] \in call[u].made => table[Of(u)] \in DOMAIN clients
        BY DEF Fine, Placed
  <2>2. QED
        BY <1>1, <1>4, <1>5, <2>1 DEF Fine, Cleaned
<1>13. QED
       BY <1>7, <1>8, <1>9, <1>10, <1>11, <1>12 DEF Fine

\* A bot stays where it is as long as tables and calls do.
LEMMA KeptStays ==
    ASSUME Typed, \A u \in Thread : Fine(u), table' = table, BotsGoOn, ClientsStay, loose \subseteq loose',
           \A u \in Thread : Adding(u) => Adding(u)' /\ Client(u)' = Client(u),
           NEW b \in DOMAIN bots, Kept(b)
    PROVE  Kept(b)'
<1>1. DOMAIN clients = 1..Len(clients) /\ Len(clients) \in Nat
      BY DEF Typed
<1>2. CASE bots[b].quit \/ b \in loose
      BY <1>2 DEF Kept, BotsGoOn
<1>3. CASE \E a \in Account : table[a] # None /\ BotOf(table[a]) = b
      BY <1>1, <1>3 DEF Kept, ClientsStay, Typed, None
<1>4. CASE \E t \in Thread : Adding(t) /\ BotOf(Client(t)) = b
  <2>1. PICK t \in Thread : Adding(t) /\ BotOf(Client(t)) = b
        BY <1>4
  <2>2. Client(t) \in DOMAIN clients
    <3>1. Busy(t)
          BY <2>1, BusyIs DEF Adding, Typed
    <3>2. QED
          BY <1>1, <2>1, <3>1 DEF Fine, Placed, Adding, None
  <2>3. QED
        BY <2>1, <2>2 DEF Kept, ClientsStay
<1>5. QED
      BY <1>2, <1>3, <1>4 DEF Kept

\* What a call can learn of clients: those of the table.
Learns(t) ==
    Busy(t)' =>
       /\ \/ Client(t)' = None
          \/ Busy(t) /\ Client(t)' = Client(t)
          \/ \E a \in Account : Client(t)' = table[a]
       /\ \A c \in call'[t].made : (Busy(t) /\ c \in call[t].made) \/ \E a \in Account : c = table[a]

\* What a step of a call must see to.
Right(t) ==
    /\ Placed(t)' /\ (Adding(t)' <=> Adding(t)) /\ (Locked(t)' => lock' = t)
    /\ Renewing(t)' /\ InPlace(t)' /\ Cleaned(t)'
Returns(t) == lock' = lock \/ {lock, lock'} \subseteq {t, Nobody}
Starts(t) ==
    \A c \in DOMAIN clients : clients'[c].started = clients[c].started \/ (Busy(t) /\ c = Client(t))
KeepsClient(t) == Adding(t) => Client(t)' = Client(t) /\ Of(t)' = Of(t)

\* A step of a call that leaves the table leaves the other calls as they are.
LEMMA CallStep ==
    ASSUME IInv, NEW t \in Thread, Others(t), table' = table, loose' = loose, BotsGoOn, ClientsStay,
           Returns(t), Starts(t), Learns(t), KeepsClient(t), Right(t), Nobody \notin Thread
    PROVE  IInv'
<1>1. Typed'
      BY DEF IInv, Typed, Others, BotsGoOn, ClientsStay, BotOf
<1>2. DOMAIN clients = 1..Len(clients) /\ Len(clients) \in Nat
      BY DEF IInv, Typed
<1>3. ASSUME NEW u \in Thread, Adding(u)
      PROVE  Client(u) \in DOMAIN clients /\ Client(u) # None /\ Busy(u)
  <2>1. Busy(u)
        BY <1>3, BusyIs DEF Adding, IInv, Typed
  <2>2. Client(u) # None /\ Client(u) \in 0..Len(clients)
        BY <1>3, <2>1 DEF IInv, Fine, Placed, Adding
  <2>3. QED
        BY <1>2, <2>1, <2>2 DEF None
<1>4. ASSUME NEW u \in Thread \ {t}
      PROVE  Fine(u)'
  <2>1. Locked(u) => lock' = lock
        BY DEF IInv, Fine, Returns
  <2>2. ASSUME Adding(u)
        PROVE  /\ clients'[Client(u)].started = clients[Client(u)].started
               /\ \A v \in Thread \ {u} : Busy(v)' =>
                     Client(v)' # Client(u) /\ Client(u) \notin call'[v].made
    <3>1. \A a \in Account : table[a] # Client(u)
          BY <2>2 DEF IInv, Fine, Private
    <3>2. \A v \in Thread \ {u} : Busy(v) => Client(v) # Client(u) /\ Client(u) \notin call[v].made
          BY <2>2 DEF IInv, Fine, Private
    <3>3. Client(u) \in DOMAIN clients /\ Client(u) # None
          BY <1>3, <2>2
    <3>4. clients'[Client(u)].started = clients[Client(u)].started
          BY <3>2, <3>3 DEF Starts
    <3>5. ASSUME NEW v \in Thread \ {u}, Busy(v)'
          PROVE  Client(v)' # Client(u) /\ Client(u) \notin call'[v].made
      <4>1. CASE v = t
            BY <3>1, <3>2, <3>3, <3>5, <4>1 DEF Learns
      <4>2. CASE v # t
            BY <3>2, <3>5, <4>2 DEF Others, Client, Busy
      <4>3. QED
            BY <4>1, <4>2
    <3>6. QED
          BY <3>4, <3>5
  <2>3. call' \in Called /\ call'[u] = call[u]
        BY DEF Others
  <2>4. QED
        BY <2>1, <2>2, <2>3, OtherFine DEF IInv
<1>5. Private(t)'
  <2>1. ASSUME Adding(t)
        PROVE  \A u \in Thread \ {t} : Busy(u)' => Client(u)' # Client(t)' /\ Client(t)' \notin call'[u].made
        BY <2>1 DEF IInv, Fine, Private, Others, Client, Busy, KeepsClient
  <2>2. ASSUME Adding(t)
        PROVE  \A a \in Account : table'[a] # Client(t)'
        BY <2>2 DEF IInv, Fine, Private, KeepsClient
  <2>3. QED
        BY <2>1, <2>2 DEF Private, Right
<1>6. \A u \in Thread : Fine(u)'
      BY <1>4, <1>5 DEF Fine, Right
<1>7. \A u \in Thread : Adding(u) => Adding(u)' /\ Client(u)' = Client(u)
      BY DEF Others, Adding, At, Op, Client, KeepsClient, Right
<1>8. \A b \in DOMAIN bots : Kept(b)'
      BY <1>7, KeptStays DEF IInv
<1>9. DOMAIN bots' = DOMAIN bots
      BY DEF BotsGoOn
<1>10. QED
       BY <1>1, <1>6, <1>8, <1>9 DEF IInv

\* What is at which place.
LEMMA OpsAt ==
    ASSUME NEW op \in Calls, NEW p \in PlacesOf(op)
    PROVE  /\ p = "lock" => op \in {"add", "load", "rotate", "removeAll", "disconnectAll"}
           /\ p \in {"add", "insert", "connect", "started", "login"} =>
                 op \in {"add", "load", "rotate"}
           /\ p = "renew" => op \in {"add", "load"}
           /\ p \in {"quit", "stopped"} =>
                 op \in {"add", "load", "remove", "rotate", "disconnectAll", "disconnect"}
           /\ p \in {"remove", "delete"} => op \in {"remove", "rotate"}
           /\ p = "lock to remove" => op \in {"remove", "rotate", "removeAll"}
           /\ p \in {"known", "clean", "verify"} => op = "rotate"
           /\ p = "next" => op \in {"rotate", "load"}
           /\ p = "read" => op = "load"
           /\ p = "remove all" => op = "removeAll"
           /\ p = "disconnect all" => op = "disconnectAll"
           /\ p \in {"get", "end"} => op = "disconnect"
<1>1. CASE op = "add"
      BY <1>1 DEF PlacesOf, AddPlaces
<1>2. CASE op = "load"
      BY <1>2 DEF PlacesOf, AddPlaces
<1>3. CASE op = "rotate"
      BY <1>3 DEF PlacesOf, RemovePlaces
<1>4. CASE op = "remove"
      BY <1>4 DEF PlacesOf, RemovePlaces
<1>5. CASE op = "removeAll"
      BY <1>5 DEF PlacesOf
<1>6. CASE op = "disconnectAll"
      BY <1>6 DEF PlacesOf
<1>7. CASE op = "disconnect"
      BY <1>7 DEF PlacesOf
<1>8. QED
      BY <1>1, <1>2, <1>3, <1>4, <1>5, <1>6, <1>7 DEF Calls

\* Where each operation can go.
LEMMA PlacesAre ==
    /\ PlacesOf("add") = AddPlaces
    /\ PlacesOf("load") = AddPlaces \cup {"next", "read"}
    /\ PlacesOf("rotate") = {"known", "next", "lock", "add", "clean", "insert", "connect", "started",
                             "login", "verify"} \cup RemovePlaces
    /\ PlacesOf("remove") = RemovePlaces
    /\ PlacesOf("removeAll") = {"lock", "remove all", "lock to remove"}
    /\ PlacesOf("disconnectAll") = {"lock", "disconnect all", "quit", "stopped"}
    /\ PlacesOf("disconnect") = {"get", "quit", "stopped", "end"}
BY DEF PlacesOf

\* What is known of a call that is going on.
LEMMA CallIs ==
    ASSUME IInv, NEW t \in Thread, At(t) # "idle"
    PROVE  /\ Busy(t) /\ Op(t) \in Calls /\ At(t) \in PlacesOf(Op(t)) /\ At(t) \in Places
           /\ Of(t) \in Account /\ Client(t) \in 0..Len(clients) /\ call[t].made \subseteq DOMAIN clients
           /\ DOMAIN clients = 1..Len(clients) /\ Len(clients) \in Nat
           /\ Client(t) # None => Client(t) \in DOMAIN clients /\ BotOf(Client(t)) \in DOMAIN bots
           /\ Fine(t)
<1>1. call[t] \in Calling /\ Busy(t)
      BY BusyIs DEF IInv, Typed
<1>2. DOMAIN clients = 1..Len(clients) /\ Len(clients) \in Nat
      BY DEF IInv, Typed
<1>3. Op(t) \in Calls /\ At(t) \in Places /\ Of(t) \in Account
      BY <1>1 DEF Calling, Op, At, Of
<1>4. Fine(t)
      BY DEF IInv
<1>5. At(t) \in PlacesOf(Op(t)) /\ Client(t) \in 0..Len(clients) /\ call[t].made \subseteq DOMAIN clients
      BY <1>1, <1>4 DEF Fine, Placed
<1>6. Client(t) # None => Client(t) \in DOMAIN clients /\ BotOf(Client(t)) \in DOMAIN bots
      BY <1>2, <1>5 DEF None, IInv, Typed
<1>7. QED
      BY <1>1, <1>2, <1>3, <1>4, <1>5, <1>6

\* What a call is that is at some place.
LEMMA OpIs ==
    ASSUME IInv, NEW t \in Thread, At(t) # "idle"
    PROVE  /\ At(t) = "lock" => Op(t) \in {"add", "load", "rotate", "removeAll", "disconnectAll"}
           /\ At(t) \in {"add", "insert", "connect", "started", "login"} =>
                 Op(t) \in {"add", "load", "rotate"}
           /\ At(t) = "renew" => Op(t) \in {"add", "load"}
           /\ At(t) \in {"quit", "stopped"} =>
                 Op(t) \in {"add", "load", "remove", "rotate", "disconnectAll", "disconnect"}
           /\ At(t) \in {"remove", "delete"} => Op(t) \in {"remove", "rotate"}
           /\ At(t) = "lock to remove" => Op(t) \in {"remove", "rotate", "removeAll"}
           /\ At(t) \in {"known", "clean", "verify"} => Op(t) = "rotate"
           /\ At(t) = "next" => Op(t) \in {"rotate", "load"}
           /\ At(t) = "read" => Op(t) = "load"
           /\ At(t) = "remove all" => Op(t) = "removeAll"
           /\ At(t) = "disconnect all" => Op(t) = "disconnectAll"
           /\ At(t) \in {"get", "end"} => Op(t) = "disconnect"
<1>1. Op(t) \in Calls /\ At(t) \in PlacesOf(Op(t))
      BY CallIs
<1>2. QED
      BY <1>1, OpsAt

\* A step that goes to another place.
LEMMA MoveStep ==
    ASSUME IInv, NEW t \in Thread, At(t) # "idle", NEW p, Moves(t, p), Right(t), Returns(t),
           table' = table, loose' = loose, BotsGoOn, ClientsStay, Nobody \notin Thread,
           Starts(t)
    PROVE  IInv'
<1>1. Busy(t)
      BY CallIs
<1>2. Learns(t)
      BY <1>1 DEF Learns, Moves
<1>3. Others(t) /\ KeepsClient(t)
      BY DEF Moves, KeepsClient
<1>4. QED
      BY <1>2, <1>3, CallStep

\* A step that ends the call.
LEMMA StopStep ==
    ASSUME IInv, NEW t \in Thread, Stops(t), ~Adding(t), Returns(t),
           table' = table, loose' = loose, BotsGoOn, clients' = clients, Nobody \notin Thread
    PROVE  IInv'
<1>1. ~Busy(t)' /\ Op(t)' = "none" /\ At(t)' = "idle"
      BY DEF Stops, Idle, Op, At, Busy
<1>2. Others(t) /\ Learns(t)
      BY <1>1 DEF Stops, Learns
<1>3. Right(t)
      BY <1>1 DEF Right, Placed, Adding, Locked, Renewing, InPlace, Cleaned
<1>4. ClientsStay
      BY DEF ClientsStay, IInv, Typed, BotOf
<1>5. Starts(t) /\ KeepsClient(t)
  <2>1. \A c \in DOMAIN clients : clients'[c] = clients[c]
        OBVIOUS
  <2>2. Starts(t)
        BY <2>1 DEF Starts
  <2>3. QED
        BY <2>2 DEF KeepsClient
<1>6. QED
      BY <1>2, <1>3, <1>4, <1>5, CallStep

\* The bots and clients are as they were.
LEMMA Same ==
    ASSUME IInv
    PROVE  /\ bots' = bots => BotsGoOn
           /\ clients' = clients => ClientsStay
BY DEF IInv, Typed, BotsGoOn, ClientsStay, BotOf

-----------------------------------------------------------------------------
(* Calls go on, without a change of the table.                             *)

\* A step that only goes to another place.
LEMMA WalkStep ==
    ASSUME IInv, NEW t \in Thread, At(t) # "idle", NEW p, Moves(t, p), Right(t), Returns(t),
           UNCHANGED <<table, clients, bots, loose>>, Nobody \notin Thread
    PROVE  IInv'
<1>1. BotsGoOn /\ ClientsStay
      BY Same
<1>2. Starts(t)
  <2>1. \A c \in DOMAIN clients : clients'[c] = clients[c]
        OBVIOUS
  <2>2. QED
        BY <2>1 DEF Starts
<1>3. QED
      BY <1>1, <1>2, MoveStep

\* A call ends that holds nothing.
LEMMA EndStep ==
    ASSUME IInv, NEW t \in Thread, Finish(t), ~Adding(t), Returns(t),
           UNCHANGED <<table, clients, bots, loose>>, Nobody \notin Thread
    PROVE  IInv'
<1>1. BotsGoOn
      BY Same
<1>2. Stops(t)
      BY FinishIs DEF IInv, Typed
<1>3. QED
      BY <1>1, <1>2, StopStep

\* A call has got the lock.
LEMMA TakeLockStep ==
    ASSUME IInv, NEW t \in Thread, TakeLock(t), Nobody \notin Thread
    PROVE  IInv'
<1> DEFINE p == CASE At(t) = "lock to remove" -> "remove"
                  [] Op(t) = "removeAll" -> "remove all"
                  [] Op(t) = "disconnectAll" -> "disconnect all"
                  [] OTHER -> "add"
<1>1. At(t) \in {"lock", "lock to remove"} /\ lock = Nobody /\ lock' = t /\ Goto(t, p)
      BY DEF TakeLock
<1>2. At(t) # "idle"
      BY <1>1
<1>3. p \in Places
      BY DEF Places
<1>4. Moves(t, p)
      BY <1>1, <1>2, <1>3, GotoIs DEF IInv, Typed
<1>5. /\ Op(t) \in Calls /\ At(t) \in PlacesOf(Op(t)) /\ Fine(t)
      /\ Client(t) \in 0..Len(clients) /\ call[t].made \subseteq DOMAIN clients
      BY <1>2, CallIs
<1>6. ~Locked(t)
      BY <1>1, <1>5 DEF Fine
<1>7. \/ At(t) = "lock to remove" /\ Op(t) \in {"remove", "rotate"} /\ p = "remove"
      \/ At(t) = "lock" /\ Op(t) \in {"add", "load", "rotate"} /\ p = "add"
      \/ At(t) = "lock" /\ Op(t) = "removeAll" /\ p = "remove all"
      \/ At(t) = "lock" /\ Op(t) = "disconnectAll" /\ p = "disconnect all"
  <2>1. CASE At(t) = "lock to remove"
    <3>1. Op(t) \in {"remove", "rotate"}
          BY <1>2, <1>5, <1>6, <2>1, OpIs DEF Locked
    <3>2. p = "remove"
          BY <2>1, <3>1
    <3>3. QED
          BY <2>1, <3>1, <3>2
  <2>2. CASE At(t) = "lock"
        BY <1>2, <2>2, OpIs
  <2>3. QED
        BY <1>1, <2>1, <2>2
<1> HIDE DEF p
<1>8. Right(t)
  <2>1. Placed(t)'
    <3>1. p \in PlacesOf(Op(t))
          BY <1>7, PlacesAre DEF AddPlaces, RemovePlaces
    <3>2. QED
          BY <1>4, <1>5, <1>7, <3>1 DEF Placed, Moves, TakeLock
  <2>2. ~Adding(t)' /\ ~Adding(t)
        BY <1>4, <1>7 DEF Adding, Moves
  <2>3. Renewing(t)' /\ InPlace(t)'
        BY <1>4, <1>7, <2>2 DEF Renewing, InPlace, Moves
  <2>4. Cleaned(t)'
        BY <1>4, <1>5, <1>7 DEF Cleaned, Moves, TakeLock, Fine, Quits, BotOf
  <2>5. QED
        BY <1>1, <2>1, <2>2, <2>3, <2>4 DEF Right
<1>9. Returns(t) /\ UNCHANGED <<table, clients, bots, loose>>
      BY <1>1 DEF Returns, TakeLock
<1>10. QED
       BY <1>2, <1>4, <1>8, <1>9, WalkStep

\* The account is there already.
LEMMA AddKnownStep ==
    ASSUME IInv, NEW t \in Thread, AddKnown(t), Nobody \notin Thread
    PROVE  IInv'
<1>1. At(t) = "add" /\ At(t) # "idle" /\ lock' = Nobody /\ UNCHANGED <<table, clients, bots, loose>>
      BY DEF AddKnown
<1>2. /\ Op(t) \in Calls /\ At(t) \in PlacesOf(Op(t)) /\ Fine(t)
      /\ Client(t) \in 0..Len(clients) /\ call[t].made \subseteq DOMAIN clients
      BY <1>1, CallIs
<1>3. Op(t) \in {"add", "load", "rotate"}
      BY <1>1, <1>2, OpIs
<1>4. Returns(t)
      BY <1>1, <1>2 DEF Returns, Fine, Locked
<1>5. ~Adding(t)
      BY <1>1 DEF Adding
<1>6. CASE Op(t) = "add"
  <2>1. Finish(t)
        BY <1>6 DEF AddKnown
  <2>2. QED
        BY <1>1, <1>4, <1>5, <2>1, EndStep
<1>7. CASE Op(t) \in {"load", "rotate"}
  <2> DEFINE p == IF Op(t) = "rotate" THEN "clean" ELSE "next"
  <2>1. Goto(t, p) /\ p \in Places
        BY <1>7 DEF AddKnown, Places
  <2>2. Moves(t, p)
        BY <1>1, <2>1, GotoIs DEF IInv, Typed
  <2>3. Placed(t)'
    <3>1. p \in PlacesOf(Op(t)) /\ p \in {"clean", "next"}
          BY <1>7, PlacesAre
    <3> HIDE DEF p
    <3>2. QED
          BY <1>1, <1>2, <2>2, <3>1 DEF Placed, Moves
  <2>4. ~Adding(t)' /\ ~Locked(t)' /\ Renewing(t)' /\ InPlace(t)'
        BY <1>7, <2>2 DEF Adding, Locked, Renewing, InPlace, Moves
  <2>5. Cleaned(t)'
        BY <1>1, <1>2, <1>7, <2>2 DEF Cleaned, Moves, Fine, Quits, BotOf
  <2>6. Right(t)
        BY <1>5, <2>3, <2>4, <2>5 DEF Right
  <2> HIDE DEF p
  <2>7. QED
        BY <1>1, <1>4, <2>2, <2>6, WalkStep
<1>8. QED
      BY <1>3, <1>6, <1>7

\* The wait for a login ends, one way or the other.
LEMMA LoginStep ==
    ASSUME IInv, NEW t \in Thread, WaitLogin(t) \/ LoginTimeout(t) \/ GiveUp(t), Nobody \notin Thread
    PROVE  IInv'
<1>1. /\ At(t) \in {"login", "renew"} /\ At(t) # "idle" /\ lock' = lock
      /\ UNCHANGED <<table, clients, bots, loose>>
      BY DEF WaitLogin, LoginTimeout, GiveUp
<1>2. /\ Op(t) \in Calls /\ At(t) \in PlacesOf(Op(t)) /\ Fine(t)
      /\ Client(t) \in 0..Len(clients) /\ call[t].made \subseteq DOMAIN clients
      BY <1>1, CallIs
<1>3. Client(t) # None
      BY <1>1, <1>2, CallIs DEF Fine, Placed
<1>4. PICK p \in {"verify", "lock to remove", "quit", "insert"} :
         /\ Goto(t, p)
         /\ \/ Op(t) = "rotate" /\ At(t) = "login" /\ p \in {"verify", "lock to remove"}
            \/ Op(t) \in {"add", "load"} /\ p \in {"quit", "insert"} /\ (p = "quit" => At(t) = "login")
  <2>1. CASE GiveUp(t)
        BY <1>1, <2>1, OpIs DEF GiveUp
  <2>2. CASE WaitLogin(t)
    <3>1. Op(t) \in {"add", "load", "rotate"} /\ At(t) = "login"
          BY <1>1, <2>2, OpIs DEF WaitLogin
    <3>2. QED
          BY <2>2, <3>1 DEF WaitLogin
  <2>3. CASE LoginTimeout(t)
    <3>1. Op(t) \in {"add", "load", "rotate"} /\ At(t) = "login"
          BY <1>1, <2>3, OpIs DEF LoginTimeout
    <3>2. QED
          BY <2>3, <3>1 DEF LoginTimeout
  <2>4. QED
        BY <2>1, <2>2, <2>3
<1>5. Moves(t, p)
  <2>1. p \in Places
        BY DEF Places
  <2>2. QED
        BY <1>1, <1>4, <2>1, GotoIs DEF IInv, Typed
<1>6. Placed(t)'
  <2>1. p \in PlacesOf(Op(t))
        BY <1>4, PlacesAre DEF AddPlaces, RemovePlaces
  <2>2. QED
        BY <1>1, <1>2, <1>3, <1>5, <2>1 DEF Placed, Moves
<1>7. Adding(t)' <=> Adding(t)
      BY <1>1, <1>4, <1>5 DEF Adding, Moves
<1>8. Locked(t)' => lock' = t
      BY <1>1, <1>2, <1>4, <1>5 DEF Locked, Moves, Fine
<1>9. Renewing(t)'
      BY <1>1, <1>2, <1>4, <1>5 DEF Renewing, Moves, Fine
<1>10. InPlace(t)'
       BY <1>1, <1>2, <1>4, <1>5, <1>7 DEF InPlace, Moves, Fine
<1>11. Cleaned(t)'
       BY <1>4, <1>5 DEF Cleaned, Moves
<1>12. Right(t) /\ Returns(t)
       BY <1>1, <1>6, <1>7, <1>8, <1>9, <1>10, <1>11 DEF Right, Returns
<1>13. QED
       BY <1>1, <1>5, <1>12, WalkStep

\* Where a call goes after the quit.
LEMMA AfterQuitIs ==
    ASSUME IInv, NEW t \in Thread, At(t) \in {"quit", "stopped"}
    PROVE  /\ AfterQuit(t) \in Places /\ AfterQuit(t) \in PlacesOf(Op(t))
           /\ \/ Op(t) \in {"add", "load"} /\ AfterQuit(t) = "renew"
              \/ Op(t) \in {"remove", "rotate"} /\ AfterQuit(t) = "delete"
              \/ Op(t) = "disconnectAll" /\ AfterQuit(t) = "disconnect all"
              \/ Op(t) = "disconnect" /\ AfterQuit(t) = "end"
<1>1. Op(t) \in {"add", "load", "remove", "rotate", "disconnectAll", "disconnect"}
  <2>1. At(t) # "idle"
        OBVIOUS
  <2>2. QED
        BY <2>1, OpIs
<1>2. \/ Op(t) \in {"add", "load"} /\ AfterQuit(t) = "renew"
      \/ Op(t) \in {"remove", "rotate"} /\ AfterQuit(t) = "delete"
      \/ Op(t) = "disconnectAll" /\ AfterQuit(t) = "disconnect all"
      \/ Op(t) = "disconnect" /\ AfterQuit(t) = "end"
      BY <1>1 DEF AfterQuit
<1>3. QED
      BY <1>2, PlacesAre DEF Places, AddPlaces, RemovePlaces

\* A client counts as started or not.
LEMMA StartedIs ==
    ASSUME Typed, NEW c \in DOMAIN clients, NEW f \in BOOLEAN,
           clients' = [clients EXCEPT ![c].started = f]
    PROVE  /\ ClientsStay /\ clients'[c].started = f
           /\ \A d \in DOMAIN clients : d # c => clients'[d] = clients[d]
<1>1. clients \in Seq(ClientRecord)
      BY DEF Typed
<1>2. clients[c] \in ClientRecord
      BY <1>1
<1> DEFINE r == [clients[c] EXCEPT !.started = f]
<1>3. r \in ClientRecord /\ r.bot = clients[c].bot /\ r.started = f
      BY <1>2 DEF ClientRecord
<1>4. clients' = [clients EXCEPT ![c] = r]
      OBVIOUS
<1> HIDE DEF r
<1>5. clients' \in Seq(ClientRecord) /\ DOMAIN clients' = DOMAIN clients /\ Len(clients') = Len(clients)
      BY <1>1, <1>3, <1>4
<1>6. clients'[c] = r /\ \A d \in DOMAIN clients : d # c => clients'[d] = clients[d]
      BY <1>1, <1>4
<1>7. QED
      BY <1>3, <1>5, <1>6 DEF ClientsStay, BotOf

\* The quit is over, or there was nothing to quit.
LEMMA QuitEndStep ==
    ASSUME IInv, NEW t \in Thread, QuitNothing(t) \/ Stopped(t), Nobody \notin Thread
    PROVE  IInv'
<1> DEFINE p == AfterQuit(t)
<1>1. /\ At(t) \in {"quit", "stopped"} /\ At(t) # "idle" /\ lock' = lock /\ Goto(t, p)
      /\ UNCHANGED <<table, bots, loose>>
      BY DEF QuitNothing, Stopped
<1>2. /\ Op(t) \in Calls /\ At(t) \in PlacesOf(Op(t)) /\ Fine(t) /\ Busy(t)
      /\ Client(t) \in 0..Len(clients) /\ call[t].made \subseteq DOMAIN clients
      BY <1>1, CallIs
<1>3. Client(t) # None /\ Client(t) \in DOMAIN clients
      BY <1>1, <1>2, CallIs DEF Fine, Placed
<1>4. /\ p \in Places /\ p \in PlacesOf(Op(t))
      /\ \/ Op(t) \in {"add", "load"} /\ p = "renew"
         \/ Op(t) \in {"remove", "rotate"} /\ p = "delete"
         \/ Op(t) = "disconnectAll" /\ p = "disconnect all"
         \/ Op(t) = "disconnect" /\ p = "end"
      BY <1>1, AfterQuitIs
<1>5. Moves(t, p)
      BY <1>1, <1>4, GotoIs DEF IInv, Typed
<1> HIDE DEF p
<1>6. ClientsStay /\ Starts(t)
  <2>1. CASE QuitNothing(t)
    <3>1. \A c \in DOMAIN clients : clients'[c] = clients[c]
          BY <2>1 DEF QuitNothing
    <3>2. clients' = clients
          BY <2>1 DEF QuitNothing
    <3>3. Starts(t)
          BY <3>1 DEF Starts
    <3>4. ClientsStay
          BY <3>2, Same
    <3>5. QED
          BY <3>3, <3>4
  <2>2. CASE Stopped(t)
    <3>1. ClientsStay /\ \A c \in DOMAIN clients : c # Client(t) => clients'[c] = clients[c]
          BY <1>3, <2>2, StartedIs DEF Stopped, IInv
    <3>2. Starts(t)
          BY <1>2, <3>1 DEF Starts
    <3>3. QED
          BY <3>1, <3>2
  <2>3. QED
        BY <2>1, <2>2
<1>7. Placed(t)'
      BY <1>2, <1>3, <1>4, <1>5, <1>6 DEF Placed, Moves, ClientsStay
<1>8. Adding(t)' <=> Adding(t)
      BY <1>1, <1>4, <1>5 DEF Adding, Moves
<1>9. Locked(t)' => lock' = t
      BY <1>1, <1>2, <1>4, <1>5 DEF Locked, Moves, Fine
<1>10. Renewing(t)'
  <2>1. Op(t) \in {"add", "load"} => Quits(Client(t))
        BY <1>1, <1>2 DEF QuitNothing, Stopped, Fine, Renewing
  <2>2. Quits(Client(t))' = Quits(Client(t))
        BY <1>1, <1>3, <1>5, <1>6 DEF Quits, ClientsStay, Moves
  <2>3. QED
        BY <1>4, <1>5, <2>1, <2>2 DEF Renewing, Moves
<1>11. InPlace(t)'
       BY <1>1, <1>2, <1>4, <1>5, <1>8 DEF InPlace, Moves, Fine
<1>12. Cleaned(t)'
       BY <1>4, <1>5 DEF Cleaned, Moves
<1>13. Right(t) /\ Returns(t)
       BY <1>1, <1>7, <1>8, <1>9, <1>10, <1>11, <1>12 DEF Right, Returns
<1>14. BotsGoOn
       BY <1>1, Same
<1>15. QED
       BY <1>1, <1>5, <1>6, <1>13, <1>14, MoveStep

\* The bot of a client is told to run or to quit.
LEMMA ToldIs ==
    ASSUME IInv, NEW t \in Thread, At(t) # "idle", Client(t) # None
    PROVE  /\ BotOf(Client(t)) \in DOMAIN bots /\ bots[BotOf(Client(t))] \in Bot
           /\ Client(t) \in DOMAIN clients
BY CallIs DEF IInv, Typed

\* connect starts the thread of the bot.
LEMMA RunStep ==
    ASSUME IInv, NEW t \in Thread, Run(t), Nobody \notin Thread
    PROVE  IInv'
<1>1. /\ At(t) = "connect" /\ At(t) # "idle" /\ lock' = lock /\ Goto(t, "started")
      /\ UNCHANGED <<table, clients, loose>>
      BY DEF Run
<1>2. /\ Op(t) \in Calls /\ At(t) \in PlacesOf(Op(t)) /\ Fine(t) /\ Busy(t)
      /\ Client(t) \in 0..Len(clients) /\ call[t].made \subseteq DOMAIN clients
      BY <1>1, CallIs
<1>3. Client(t) # None
      BY <1>1, <1>2 DEF Fine, Placed
<1>4. BotsGoOn
  <2> DEFINE b == BotOf(Client(t))
             r == [bots[b] EXCEPT !.at = "thread"]
  <2>1. b \in DOMAIN bots /\ bots[b] \in Bot /\ Becomes(b, r) /\ bots \in Seq(Bot)
        BY <1>1, <1>3, ToldIs DEF Run, IInv, Typed
  <2> HIDE DEF b
  <2>2. r \in Bot /\ r.quit = bots[b].quit
        BY <2>1, Flags
  <2> HIDE DEF r
  <2>3. QED
        BY <2>1, <2>2, BecomesIs
<1>5. ClientsStay /\ Starts(t)
  <2>1. \A c \in DOMAIN clients : clients'[c] = clients[c]
        BY <1>1
  <2>2. Starts(t)
        BY <2>1 DEF Starts
  <2>3. QED
        BY <1>1, <2>2, Same
<1>6. Op(t) \in {"add", "load", "rotate"}
      BY <1>1, <1>2, OpIs
<1>7. Moves(t, "started")
      BY <1>1, GotoIs DEF IInv, Typed, Places
<1>8. Placed(t)'
  <2>1. "started" \in PlacesOf(Op(t))
        BY <1>6, PlacesAre DEF AddPlaces
  <2>2. QED
        BY <1>1, <1>2, <1>3, <1>7, <2>1 DEF Placed, Moves
<1>9. Adding(t)' <=> Adding(t)
      BY <1>1, <1>6, <1>7 DEF Adding, Moves
<1>10. Locked(t)' => lock' = t
       BY <1>1, <1>2, <1>7 DEF Locked, Moves, Fine
<1>11. Renewing(t)' /\ Cleaned(t)'
       BY <1>7 DEF Renewing, Cleaned, Moves
<1>12. InPlace(t)'
       BY <1>1, <1>2, <1>7, <1>9 DEF InPlace, Moves, Fine
<1>13. Right(t) /\ Returns(t)
       BY <1>1, <1>8, <1>9, <1>10, <1>11, <1>12 DEF Right, Returns
<1>14. QED
       BY <1>1, <1>4, <1>5, <1>7, <1>13, MoveStep

\* The client counts as started.
LEMMA StartedStep ==
    ASSUME IInv, NEW t \in Thread, Started(t), Nobody \notin Thread
    PROVE  IInv'
<1>1. /\ At(t) = "started" /\ At(t) # "idle" /\ lock' = lock /\ Goto(t, "login")
      /\ UNCHANGED <<table, bots, loose>> /\ clients' = [clients EXCEPT ![Client(t)].started = TRUE]
      BY DEF Started
<1>2. /\ Op(t) \in Calls /\ At(t) \in PlacesOf(Op(t)) /\ Fine(t) /\ Busy(t)
      /\ Client(t) \in 0..Len(clients) /\ call[t].made \subseteq DOMAIN clients
      BY <1>1, CallIs
<1>3. Client(t) # None /\ Client(t) \in DOMAIN clients
      BY <1>1, <1>2, CallIs DEF Fine, Placed
<1>4. /\ ClientsStay /\ clients'[Client(t)].started
      /\ \A c \in DOMAIN clients : c # Client(t) => clients'[c] = clients[c]
      BY <1>1, <1>3, StartedIs DEF IInv
<1>5. Starts(t)
      BY <1>2, <1>4 DEF Starts
<1>6. Op(t) \in {"add", "load", "rotate"}
      BY <1>1, <1>2, OpIs
<1>7. Moves(t, "login")
      BY <1>1, GotoIs DEF IInv, Typed, Places
<1>8. Placed(t)'
  <2>1. "login" \in PlacesOf(Op(t))
        BY <1>6, PlacesAre DEF AddPlaces
  <2>2. QED
        BY <1>1, <1>2, <1>3, <1>4, <1>7, <2>1 DEF Placed, Moves, ClientsStay
<1>9. Adding(t)' <=> Adding(t)
      BY <1>1, <1>6, <1>7 DEF Adding, Moves
<1>10. Locked(t)' => lock' = t
       BY <1>1, <1>2, <1>7 DEF Locked, Moves, Fine
<1>11. Renewing(t)' /\ Cleaned(t)'
       BY <1>4, <1>7 DEF Renewing, Cleaned, Moves
<1>12. InPlace(t)'
       BY <1>1, <1>2, <1>7, <1>9 DEF InPlace, Moves, Fine
<1>13. Right(t) /\ Returns(t)
       BY <1>1, <1>8, <1>9, <1>10, <1>11, <1>12 DEF Right, Returns
<1>14. BotsGoOn
       BY <1>1, Same
<1>15. QED
       BY <1>1, <1>4, <1>5, <1>7, <1>13, <1>14, MoveStep

\* The client tells its bot to quit, or that exits.
LEMMA QuitIs ==
    ASSUME IInv, NEW t \in Thread, Quit(t) \/ QuitExits(t)
    PROVE  /\ At(t) = "quit" /\ At(t) # "idle" /\ Client(t) # None /\ Client(t) \in DOMAIN clients
           /\ BotsGoOn /\ ClientsStay /\ Starts(t) /\ bots'[BotOf(Client(t))].quit
           /\ UNCHANGED <<table, clients, loose>>
<1>1. At(t) = "quit" /\ At(t) # "idle" /\ UNCHANGED <<table, clients, loose>>
      BY DEF Quit, QuitExits
<1>2. Client(t) # None
      BY <1>1, CallIs DEF Fine, Placed
<1> DEFINE b == BotOf(Client(t))
<1>3. b \in DOMAIN bots /\ bots[b] \in Bot /\ bots \in Seq(Bot) /\ Client(t) \in DOMAIN clients
      BY <1>1, <1>2, ToldIs DEF IInv, Typed
<1>4. PICK r \in Bot : r.quit /\ Becomes(b, r)
  <2>1. \/ Becomes(b, [bots[b] EXCEPT !.quit = TRUE, !.at = IF @ = "up" THEN "closing" ELSE @])
        \/ Becomes(b, [bots[b] EXCEPT !.quit = TRUE, !.connected = FALSE])
        BY DEF Quit, QuitExits
  <2> HIDE DEF b
  <2>2. QED
        BY <1>3, <2>1, QuitFlags
<1> HIDE DEF b
<1>5. BotsGoOn /\ bots'[b] = r
      BY <1>3, <1>4, BecomesIs
<1>6. ClientsStay
      BY <1>1, Same
<1>7. \A c \in DOMAIN clients : clients'[c] = clients[c]
      BY <1>1
<1>8. Starts(t)
      BY <1>7 DEF Starts
<1>9. QED
      BY <1>1, <1>2, <1>3, <1>4, <1>5, <1>6, <1>8 DEF b

\* The bot closes its connection.
LEMMA QuitStep ==
    ASSUME IInv, NEW t \in Thread, Quit(t), Nobody \notin Thread
    PROVE  IInv'
<1>1. /\ At(t) = "quit" /\ At(t) # "idle" /\ Client(t) # None /\ Client(t) \in DOMAIN clients
      /\ BotsGoOn /\ ClientsStay /\ Starts(t) /\ bots'[BotOf(Client(t))].quit
      /\ UNCHANGED <<table, clients, loose>>
      BY QuitIs
<1>2. Goto(t, "stopped") /\ lock' = lock
      BY DEF Quit
<1>3. /\ Op(t) \in Calls /\ At(t) \in PlacesOf(Op(t)) /\ Fine(t) /\ Busy(t)
      /\ Client(t) \in 0..Len(clients) /\ call[t].made \subseteq DOMAIN clients
      BY <1>1, CallIs
<1>4. Op(t) \in {"add", "load", "remove", "rotate", "disconnectAll", "disconnect"}
      BY <1>1, <1>3, OpIs
<1>5. Moves(t, "stopped")
      BY <1>1, <1>2, GotoIs DEF IInv, Typed, Places
<1>6. Placed(t)'
  <2>1. "stopped" \in PlacesOf(Op(t))
        BY <1>4, PlacesAre DEF AddPlaces, RemovePlaces
  <2>2. QED
        BY <1>1, <1>3, <1>5, <2>1 DEF Placed, Moves
<1>7. Adding(t)' <=> Adding(t)
      BY <1>1, <1>4, <1>5 DEF Adding, Moves
<1>8. Locked(t)' => lock' = t
      BY <1>1, <1>2, <1>3, <1>5 DEF Locked, Moves, Fine
<1>9. Renewing(t)'
  <2>1. Quits(Client(t))'
        BY <1>1, <1>5 DEF Quits, BotOf, Moves
  <2>2. QED
        BY <1>5, <2>1 DEF Renewing, Moves
<1>10. InPlace(t)'
       BY <1>1, <1>3, <1>5, <1>7 DEF InPlace, Moves, Fine
<1>11. Cleaned(t)'
       BY <1>5 DEF Cleaned, Moves
<1>12. Right(t) /\ Returns(t)
       BY <1>2, <1>6, <1>7, <1>8, <1>9, <1>10, <1>11 DEF Right, Returns
<1>13. QED
       BY <1>1, <1>5, <1>12, MoveStep

\* SystemExit goes through the call.
LEMMA QuitExitsStep ==
    ASSUME IInv, NEW t \in Thread, QuitExits(t), Nobody \notin Thread
    PROVE  IInv'
<1>1. /\ At(t) = "quit" /\ At(t) # "idle" /\ Client(t) # None /\ Client(t) \in DOMAIN clients
      /\ BotsGoOn /\ ClientsStay /\ Starts(t) /\ bots'[BotOf(Client(t))].quit
      /\ UNCHANGED <<table, clients, loose>>
      BY QuitIs
<1>2. /\ Op(t) \in Calls /\ At(t) \in PlacesOf(Op(t)) /\ Fine(t) /\ Busy(t)
      /\ Client(t) \in 0..Len(clients) /\ call[t].made \subseteq DOMAIN clients
      BY <1>1, CallIs
<1>3. Op(t) # "disconnect" => lock = t
      BY <1>1, <1>2 DEF Fine, Locked
<1>4. CASE Op(t) \notin {"add", "load", "rotate"}
  <2>1. Finish(t) /\ lock' = IF lock = t THEN Nobody ELSE lock
        BY <1>4 DEF QuitExits
  <2>2. Returns(t)
        BY <2>1 DEF Returns
  <2>3. ~Adding(t)
        BY <1>4 DEF Adding
  <2>4. Stops(t)
        BY <2>1, FinishIs DEF IInv, Typed
  <2>5. QED
        BY <1>1, <2>2, <2>3, <2>4, StopStep
<1>5. CASE Op(t) \in {"add", "load"}
  <2>1. Goto(t, "renew") /\ lock' = lock
        BY <1>5 DEF QuitExits
  <2>2. Moves(t, "renew")
        BY <1>1, <2>1, GotoIs DEF IInv, Typed, Places
  <2>3. Placed(t)'
    <3>1. "renew" \in PlacesOf(Op(t))
          BY <1>5, PlacesAre DEF AddPlaces
    <3>2. QED
          BY <1>1, <1>2, <2>2, <3>1 DEF Placed, Moves
  <2>4. (Adding(t)' <=> Adding(t)) /\ (Locked(t)' => lock' = t)
        BY <1>1, <1>3, <1>5, <2>1, <2>2 DEF Adding, Locked, Moves
  <2>5. Renewing(t)'
    <3>1. Quits(Client(t))'
          BY <1>1, <2>2 DEF Quits, BotOf, Moves
    <3>2. QED
          BY <2>2, <3>1 DEF Renewing, Moves
  <2>6. InPlace(t)' /\ Cleaned(t)'
        BY <1>1, <1>2, <1>5, <2>2, <2>4 DEF InPlace, Cleaned, Moves, Fine
  <2>7. Right(t) /\ Returns(t)
        BY <2>1, <2>3, <2>4, <2>5, <2>6 DEF Right, Returns
  <2>8. QED
        BY <1>1, <2>2, <2>7, MoveStep
<1>6. CASE Op(t) = "rotate"
  <2>1. Goto(t, "next") /\ lock' = Nobody
        BY <1>6 DEF QuitExits
  <2>2. Moves(t, "next")
        BY <1>1, <2>1, GotoIs DEF IInv, Typed, Places
  <2>3. Placed(t)'
    <3>1. "next" \in PlacesOf(Op(t))
          BY <1>6, PlacesAre
    <3>2. QED
          BY <1>1, <1>2, <2>2, <3>1 DEF Placed, Moves
  <2>4. ~Adding(t)' /\ ~Adding(t) /\ ~Locked(t)' /\ Renewing(t)' /\ InPlace(t)'
        BY <1>1, <1>6, <2>2 DEF Adding, Locked, Renewing, InPlace, Moves
  <2>5. Cleaned(t)'
    <3>1. table[Of(t)] = Client(t)
          BY <1>1, <1>2, <1>6 DEF Fine, InPlace
    <3>2. Quits(table[Of(t)])'
          BY <1>1, <2>2, <3>1 DEF Quits, BotOf, Moves
    <3>3. QED
          BY <1>1, <2>2, <3>2 DEF Cleaned, Moves
  <2>6. Right(t) /\ Returns(t)
        BY <1>3, <1>6, <2>1, <2>3, <2>4, <2>5 DEF Right, Returns
  <2>7. QED
        BY <1>1, <2>2, <2>6, MoveStep
<1>7. QED
      BY <1>4, <1>5, <1>6

\* A call gets another record.
LEMMA CallBecomes ==
    ASSUME call \in Called, NEW t \in Thread, NEW r \in Calling, call' = [call EXCEPT ![t] = r]
    PROVE  Others(t) /\ Busy(t)' /\ call'[t] = r
<1>1. call' \in Called /\ call'[t] = r /\ \A u \in Thread \ {t} : call'[u] = call[u]
      BY DEF Called
<1>2. r.at # "idle"
      BY DEF Calling, Places
<1>3. Idle.at = "idle"
      BY DEF Idle
<1>4. r # Idle
      BY <1>2, <1>3
<1>5. QED
      BY <1>1, <1>4 DEF Others, Busy

\* A call gets a client.
LEMMA GetsIs ==
    ASSUME call \in Called, NEW t \in Thread, At(t) # "idle", NEW c \in Nat, NEW p \in Places,
           call' = [call EXCEPT ![t].client = c, ![t].at = p]
    PROVE  /\ Others(t) /\ Busy(t)'
           /\ At(t)' = p /\ Op(t)' = Op(t) /\ Of(t)' = Of(t) /\ Client(t)' = c
           /\ call'[t].made = call[t].made
<1>1. call[t] \in Calling
      BY BusyIs
<1> DEFINE r == [call[t] EXCEPT !.client = c, !.at = p]
<1>2. r \in Calling
      BY <1>1 DEF Calling
<1>3. /\ r.at = p /\ r.op = call[t].op /\ r.account = call[t].account
      /\ r.client = c /\ r.made = call[t].made
      BY <1>1 DEF Calling
<1>4. call' = [call EXCEPT ![t] = r]
      BY <1>1
<1> HIDE DEF r
<1>5. Others(t) /\ Busy(t)' /\ call'[t] = r
      BY <1>2, <1>4, CallBecomes
<1>6. QED
      BY <1>3, <1>5 DEF At, Op, Of, Client

\* A step that leaves all but the calls and the lock.
LEMMA LearnStep ==
    ASSUME IInv, NEW t \in Thread, Others(t), Right(t), Returns(t), Learns(t), KeepsClient(t),
           UNCHANGED <<table, clients, bots, loose>>, Nobody \notin Thread
    PROVE  IInv'
<1>1. BotsGoOn /\ ClientsStay
      BY Same
<1>2. Starts(t)
  <2>1. \A c \in DOMAIN clients : clients'[c] = clients[c]
        OBVIOUS
  <2>2. QED
        BY <2>1 DEF Starts
<1>3. QED
      BY <1>1, <1>2, CallStep

\* A client is looked for to be removed.
LEMMA RemoveStep ==
    ASSUME IInv, NEW t \in Thread, Remove(t), Nobody \notin Thread
    PROVE  IInv'
<1>1. At(t) = "remove" /\ At(t) # "idle" /\ UNCHANGED <<table, clients, bots, loose>>
      BY DEF Remove
<1>2. /\ Op(t) \in Calls /\ At(t) \in PlacesOf(Op(t)) /\ Fine(t) /\ Busy(t) /\ Of(t) \in Account
      /\ Client(t) \in 0..Len(clients) /\ call[t].made \subseteq DOMAIN clients
      /\ DOMAIN clients = 1..Len(clients) /\ Len(clients) \in Nat
      BY <1>1, CallIs
<1>3. Op(t) \in {"remove", "rotate"} /\ lock = t
      BY <1>1, <1>2, OpIs DEF Fine, Locked
<1>4. ~Adding(t)
      BY <1>1 DEF Adding
<1>5. table[Of(t)] \in 0..Len(clients)
      BY <1>2 DEF IInv, Typed
<1>6. CASE table[Of(t)] # None
  <2> DEFINE p == IF Op(t) = "rotate" \/ call[t].flag THEN "quit" ELSE "delete"
  <2>1. call' = [call EXCEPT ![t].client = table[Of(t)], ![t].at = p] /\ lock' = lock
        BY <1>6 DEF Remove
  <2>2. p \in Places /\ p \in {"quit", "delete"}
        BY DEF Places
  <2> HIDE DEF p
  <2>3. table[Of(t)] \in Nat
        BY <1>2, <1>5
  <2>4. /\ Others(t) /\ Busy(t)'
        /\ At(t)' = p /\ Op(t)' = Op(t) /\ Of(t)' = Of(t) /\ Client(t)' = table[Of(t)]
        /\ call'[t].made = call[t].made
        BY <1>1, <2>1, <2>2, <2>3, GetsIs DEF IInv, Typed
  <2>5. Placed(t)'
    <3>1. p \in PlacesOf(Op(t))
          BY <1>3, <2>2, PlacesAre DEF RemovePlaces
    <3>2. QED
          BY <1>1, <1>2, <1>5, <1>6, <2>4, <3>1 DEF Placed
  <2>6. ~Adding(t)' /\ Renewing(t)' /\ Cleaned(t)' /\ InPlace(t)' /\ lock' = t
        BY <1>1, <1>3, <2>1, <2>2, <2>4 DEF Adding, Renewing, Cleaned, InPlace
  <2>7. Right(t) /\ Returns(t)
        BY <1>4, <2>1, <2>5, <2>6 DEF Right, Returns
  <2>8. Learns(t) /\ KeepsClient(t)
        BY <1>2, <1>4, <2>4 DEF Learns, KeepsClient
  <2>9. QED
        BY <1>1, <2>4, <2>7, <2>8, LearnStep
<1>7. CASE table[Of(t)] = None
  <2>1. lock' = Nobody /\ Returns(t)
        BY <1>3, <1>7 DEF Remove, Returns
  <2>2. CASE Op(t) = "rotate"
    <3>1. Goto(t, "next")
          BY <1>7, <2>2 DEF Remove
    <3>2. Moves(t, "next")
          BY <1>1, <3>1, GotoIs DEF IInv, Typed, Places
    <3>3. Placed(t)'
      <4>1. "next" \in PlacesOf(Op(t))
            BY <2>2, PlacesAre
      <4>2. QED
            BY <1>1, <1>2, <3>2, <4>1 DEF Placed, Moves
    <3>4. ~Adding(t)' /\ ~Locked(t)' /\ Renewing(t)' /\ InPlace(t)'
          BY <2>2, <3>2 DEF Adding, Locked, Renewing, InPlace, Moves
    <3>5. Cleaned(t)'
      <4>1. table[Of(t)] \notin call[t].made
            BY <1>2, <1>7 DEF None
      <4>2. QED
            BY <1>1, <3>2, <4>1 DEF Cleaned, Moves
    <3>6. Right(t)
          BY <1>4, <3>3, <3>4, <3>5 DEF Right
    <3>7. QED
          BY <1>1, <2>1, <3>2, <3>6, WalkStep
  <2>3. CASE Op(t) # "rotate"
    <3>1. Finish(t)
          BY <1>7, <2>3 DEF Remove
    <3>2. QED
          BY <1>1, <1>4, <2>1, <3>1, EndStep
  <2>4. QED
        BY <2>2, <2>3
<1>8. QED
      BY <1>6, <1>7

\* The application gets a client of the table.
LEMMA GetStep ==
    ASSUME IInv, NEW t \in Thread, Get(t), Nobody \notin Thread
    PROVE  IInv'
<1>1. At(t) = "get" /\ At(t) # "idle" /\ lock' = lock /\ UNCHANGED <<table, clients, bots, loose>>
      BY DEF Get
<1>2. /\ Op(t) \in Calls /\ At(t) \in PlacesOf(Op(t)) /\ Busy(t) /\ Of(t) \in Account
      /\ Client(t) \in 0..Len(clients) /\ call[t].made \subseteq DOMAIN clients
      /\ DOMAIN clients = 1..Len(clients) /\ Len(clients) \in Nat
      BY <1>1, CallIs
<1>3. Op(t) = "disconnect"
      BY <1>1, <1>2, OpIs
<1>4. ~Adding(t) /\ Returns(t)
      BY <1>1 DEF Adding, Returns
<1>5. CASE table[Of(t)] = None
  <2>1. Finish(t)
        BY <1>5 DEF Get
  <2>2. QED
        BY <1>1, <1>4, <2>1, EndStep
<1>6. CASE table[Of(t)] # None
  <2>1. call' = [call EXCEPT ![t].client = table[Of(t)], ![t].at = "quit"]
        BY <1>6 DEF Get
  <2>2. table[Of(t)] \in 0..Len(clients) /\ table[Of(t)] \in Nat
        BY <1>2 DEF IInv, Typed
  <2>3. /\ Others(t) /\ Busy(t)'
        /\ At(t)' = "quit" /\ Op(t)' = Op(t) /\ Of(t)' = Of(t) /\ Client(t)' = table[Of(t)]
        /\ call'[t].made = call[t].made
        BY <1>1, <2>1, <2>2, GetsIs DEF IInv, Typed, Places
  <2>4. Placed(t)'
    <3>1. "quit" \in PlacesOf(Op(t))
          BY <1>3, PlacesAre
    <3>2. QED
          BY <1>1, <1>2, <1>6, <2>2, <2>3, <3>1 DEF Placed
  <2>5. ~Adding(t)' /\ ~Locked(t)' /\ Renewing(t)' /\ Cleaned(t)' /\ InPlace(t)'
        BY <1>3, <2>3 DEF Adding, Locked, Renewing, Cleaned, InPlace
  <2>6. Right(t)
        BY <1>4, <2>4, <2>5 DEF Right
  <2>7. Learns(t) /\ KeepsClient(t)
        BY <1>2, <1>4, <2>3 DEF Learns, KeepsClient
  <2>8. QED
        BY <1>1, <1>4, <2>3, <2>6, <2>7, LearnStep
<1>7. QED
      BY <1>5, <1>6

\* disconnect_all goes on with the next client.
LEMMA DisconnectAllStep ==
    ASSUME IInv, NEW t \in Thread, DisconnectAll(t), Nobody \notin Thread
    PROVE  IInv'
<1> DEFINE left == {table[a] : a \in Account} \ ({None} \cup call[t].made)
<1>1. /\ At(t) = "disconnect all" /\ At(t) # "idle" /\ UNCHANGED <<table, clients, bots, loose>>
      /\ \/ Finish(t) /\ lock' = Nobody
         \/ /\ lock' = lock
            /\ \E c \in left :
                  call' = [call EXCEPT ![t].client = c, ![t].made = @ \cup {c}, ![t].at = "quit"]
      BY DEF DisconnectAll
<1>2. /\ Op(t) \in Calls /\ At(t) \in PlacesOf(Op(t)) /\ Busy(t) /\ Fine(t)
      /\ Client(t) \in 0..Len(clients) /\ call[t].made \subseteq DOMAIN clients
      /\ DOMAIN clients = 1..Len(clients) /\ Len(clients) \in Nat
      BY <1>1, CallIs
<1>3. Op(t) = "disconnectAll" /\ lock = t
      BY <1>1, <1>2, OpIs DEF Fine, Locked
<1>4. ~Adding(t) /\ Returns(t)
      BY <1>1, <1>3 DEF Adding, Returns
<1>5. CASE Finish(t) /\ lock' = Nobody
      BY <1>1, <1>4, <1>5, EndStep
<1>6. ASSUME NEW c \in left, lock' = lock,
             call' = [call EXCEPT ![t].client = c, ![t].made = @ \cup {c}, ![t].at = "quit"]
      PROVE  IInv'
  <2>1. PICK a \in Account : c = table[a]
        OBVIOUS
  <2>2. c # None /\ c \in 0..Len(clients) /\ c \in Nat /\ c \in DOMAIN clients
        BY <1>2, <2>1 DEF IInv, Typed, None
  <2> HIDE DEF left
  <2>3. call[t] \in Calling
        BY <1>2, BusyIs DEF IInv, Typed
  <2> DEFINE r == [call[t] EXCEPT !.client = c, !.made = @ \cup {c}, !.at = "quit"]
  <2>4. r \in Calling
        BY <2>2, <2>3 DEF Calling, Places
  <2>5. /\ r.at = "quit" /\ r.op = call[t].op /\ r.account = call[t].account
        /\ r.client = c /\ r.made = call[t].made \cup {c}
        BY <2>3 DEF Calling
  <2>6. call' = [call EXCEPT ![t] = r]
        BY <1>6
  <2> HIDE DEF r
  <2>7. Others(t) /\ Busy(t)' /\ call'[t] = r
        BY <2>4, <2>6, CallBecomes DEF IInv, Typed
  <2>8. /\ At(t)' = "quit" /\ Op(t)' = "disconnectAll" /\ Client(t)' = c
        /\ call'[t].made = call[t].made \cup {c}
        BY <1>3, <2>5, <2>7 DEF At, Op, Client
  <2>9. Placed(t)'
    <3>1. "quit" \in PlacesOf("disconnectAll")
          BY PlacesAre
    <3>2. QED
          BY <1>1, <1>2, <2>2, <2>8, <3>1 DEF Placed
  <2>10. ~Adding(t)' /\ Renewing(t)' /\ Cleaned(t)' /\ InPlace(t)' /\ lock' = t
         BY <1>3, <1>6, <2>8 DEF Adding, Renewing, Cleaned, InPlace
  <2>11. Right(t)
         BY <1>4, <2>9, <2>10 DEF Right
  <2>12. Learns(t) /\ KeepsClient(t)
         BY <1>2, <1>4, <2>1, <2>8 DEF Learns, KeepsClient
  <2>13. QED
         BY <1>1, <1>4, <2>7, <2>11, <2>12, LearnStep
<1>7. QED
      BY <1>1, <1>5, <1>6

\* The steps that only look at the table, or end a call.
LEMMA LookStep ==
    ASSUME IInv, NEW t \in Thread, Nobody \notin Thread,
           RemoveAll(t) \/ End(t) \/ RotationFails(t) \/ Verify(t) \/ LoadRead(t)
    PROVE  IInv'
<1>1. /\ At(t) \in {"remove all", "end", "next", "verify", "read"} /\ At(t) # "idle"
      /\ UNCHANGED <<table, clients, bots, loose>>
      BY DEF RemoveAll, End, RotationFails, Verify, LoadRead
<1>2. /\ Op(t) \in Calls /\ At(t) \in PlacesOf(Op(t)) /\ Fine(t) /\ Busy(t)
      /\ Client(t) \in 0..Len(clients) /\ call[t].made \subseteq DOMAIN clients
      BY <1>1, CallIs
<1>3. /\ At(t) = "remove all" => Op(t) = "removeAll" /\ lock = t
      /\ At(t) = "verify" => Op(t) = "rotate"
      /\ At(t) = "read" => Op(t) = "load"
      BY <1>1, <1>2, OpIs DEF Fine, Locked
<1>4. ~Adding(t)
      BY <1>1 DEF Adding
<1>5. Returns(t)
      BY <1>3 DEF Returns, RemoveAll, End, RotationFails, Verify, LoadRead
<1>6. \/ Finish(t)
      \/ At(t) = "remove all" /\ lock' = lock /\ Goto(t, "lock to remove")
      \/ At(t) = "verify" /\ Goto(t, "lock to remove")
      \/ At(t) = "read" /\ Goto(t, "next")
      BY DEF RemoveAll, End, RotationFails, Verify, LoadRead
<1>7. CASE Finish(t)
      BY <1>1, <1>4, <1>5, <1>7, EndStep
<1>8. ASSUME NEW p \in {"lock to remove", "next"}, Goto(t, p),
             \/ At(t) = "remove all" /\ lock' = lock /\ p = "lock to remove"
             \/ At(t) = "verify" /\ p = "lock to remove"
             \/ At(t) = "read" /\ p = "next"
      PROVE  IInv'
  <2>1. Moves(t, p)
        BY <1>1, <1>8, GotoIs DEF IInv, Typed, Places
  <2>2. Placed(t)'
    <3>1. p \in PlacesOf(Op(t))
          BY <1>3, <1>8, PlacesAre DEF RemovePlaces
    <3>2. QED
          BY <1>1, <1>2, <1>8, <2>1, <3>1 DEF Placed, Moves
  <2>3. ~Adding(t)' /\ Renewing(t)' /\ InPlace(t)'
        BY <1>8, <2>1 DEF Adding, Renewing, InPlace, Moves
  <2>4. (Locked(t)' => lock' = t) /\ Cleaned(t)'
        BY <1>3, <1>8, <2>1 DEF Locked, Cleaned, Moves
  <2>5. Right(t)
        BY <1>4, <2>2, <2>3, <2>4 DEF Right
  <2>6. QED
        BY <1>1, <1>5, <2>1, <2>5, WalkStep
<1>9. QED
      BY <1>6, <1>7, <1>8

\* The rotation looks whether the account is in the table.
LEMMA KnownStep ==
    ASSUME IInv, NEW t \in Thread, Known(t), Nobody \notin Thread
    PROVE  IInv'
<1> DEFINE p == IF table[Of(t)] # None THEN "lock to remove" ELSE "next"
<1>1. /\ At(t) \in {"known", "clean"} /\ At(t) # "idle" /\ lock' = lock /\ Goto(t, p)
      /\ UNCHANGED <<table, clients, bots, loose>>
      BY DEF Known
<1>2. /\ Op(t) \in Calls /\ At(t) \in PlacesOf(Op(t)) /\ Fine(t) /\ Busy(t)
      /\ Client(t) \in 0..Len(clients) /\ call[t].made \subseteq DOMAIN clients
      BY <1>1, CallIs
<1>3. Op(t) = "rotate"
      BY <1>1, <1>2, OpIs
<1>4. p \in {"lock to remove", "next"}
      OBVIOUS
<1> HIDE DEF p
<1>5. Moves(t, p)
      BY <1>1, <1>4, GotoIs DEF IInv, Typed, Places
<1>6. Placed(t)'
  <2>1. p \in PlacesOf(Op(t))
        BY <1>3, <1>4, PlacesAre DEF RemovePlaces
  <2>2. QED
        BY <1>1, <1>2, <1>4, <1>5, <2>1 DEF Placed, Moves
<1>7. ~Adding(t)' /\ ~Adding(t) /\ ~Locked(t)' /\ Renewing(t)' /\ InPlace(t)'
      BY <1>1, <1>3, <1>4, <1>5 DEF Adding, Locked, Renewing, InPlace, Moves
<1>8. Cleaned(t)'
      BY <1>1, <1>2, <1>3, <1>5 DEF Cleaned, Moves, Fine, Quits, BotOf
<1>9. Right(t) /\ Returns(t)
      BY <1>1, <1>6, <1>7, <1>8 DEF Right, Returns
<1>10. QED
       BY <1>1, <1>5, <1>9, WalkStep

\* The next environment.
LEMMA NextEnvStep ==
    ASSUME IInv, NEW t \in Thread, NextEnv(t), Nobody \notin Thread
    PROVE  IInv'
<1>1. /\ At(t) = "next" /\ At(t) # "idle" /\ Op(t) = "rotate" /\ lock' = lock /\ call[t].envs > 0
      /\ call' = [call EXCEPT ![t].at = "lock", ![t].envs = @ - 1]
      /\ UNCHANGED <<table, clients, bots, loose>>
      BY DEF NextEnv
<1>2. /\ Fine(t) /\ Busy(t) /\ Client(t) \in 0..Len(clients) /\ call[t].made \subseteq DOMAIN clients
      BY <1>1, CallIs
<1>3. call[t] \in Calling
      BY <1>2, BusyIs DEF IInv, Typed
<1> DEFINE r == [call[t] EXCEPT !.at = "lock", !.envs = @ - 1]
<1>4. r \in Calling
  <2>1. call[t].envs \in Nat
        BY <1>3 DEF Calling
  <2>2. call[t].envs - 1 \in Nat
        BY <1>1, <2>1
  <2>3. QED
        BY <1>3, <2>2 DEF Calling, Places
<1>5. /\ r.at = "lock" /\ r.op = call[t].op /\ r.account = call[t].account
      /\ r.client = call[t].client /\ r.made = call[t].made
      BY <1>3 DEF Calling
<1>6. call' = [call EXCEPT ![t] = r]
      BY <1>1, <1>3
<1> HIDE DEF r
<1>7. Others(t) /\ Busy(t)' /\ call'[t] = r
      BY <1>4, <1>6, CallBecomes DEF IInv, Typed
<1>8. Moves(t, "lock")
      BY <1>5, <1>7 DEF Moves, At, Op, Of, Client
<1>9. Placed(t)'
  <2>1. "lock" \in PlacesOf(Op(t))
        BY <1>1, PlacesAre
  <2>2. QED
        BY <1>1, <1>2, <1>8, <2>1 DEF Placed, Moves
<1>10. ~Adding(t)' /\ ~Adding(t) /\ ~Locked(t)' /\ Renewing(t)' /\ InPlace(t)'
       BY <1>1, <1>8 DEF Adding, Locked, Renewing, InPlace, Moves
<1>11. Cleaned(t)'
       BY <1>1, <1>2, <1>8 DEF Cleaned, Moves, Fine, Quits, BotOf
<1>12. Right(t) /\ Returns(t)
       BY <1>1, <1>9, <1>10, <1>11 DEF Right, Returns
<1>13. QED
       BY <1>1, <1>8, <1>12, WalkStep

\* The next account of a load.
LEMMA LoadNextStep ==
    ASSUME IInv, NEW t \in Thread, LoadNext(t), Nobody \notin Thread
    PROVE  IInv'
<1>1. /\ At(t) = "next" /\ At(t) # "idle" /\ Op(t) = "load" /\ lock' = lock
      /\ UNCHANGED <<table, clients, bots, loose>>
      BY DEF LoadNext
<1>2. /\ Fine(t) /\ Busy(t) /\ Client(t) \in 0..Len(clients) /\ call[t].made \subseteq DOMAIN clients
      BY <1>1, CallIs
<1>3. ~Adding(t) /\ Returns(t)
      BY <1>1 DEF Adding, Returns
<1>4. CASE call[t].todo = {}
  <2>1. Finish(t)
        BY <1>4 DEF LoadNext
  <2>2. QED
        BY <1>1, <1>3, <2>1, EndStep
<1>5. CASE call[t].todo # {}
  <2>1. call[t] \in Calling
        BY <1>2, BusyIs DEF IInv, Typed
  <2>2. PICK a \in call[t].todo, p \in {"read", "lock"} :
           call' = [call EXCEPT ![t].account = a, ![t].todo = @ \ {a}, ![t].envs = Envs, ![t].at = p]
        BY <1>5 DEF LoadNext
  <2>3. a \in Account /\ Envs \in Nat
        BY <2>1, AccountsAssumption DEF Calling
  <2> DEFINE r == [call[t] EXCEPT !.account = a, !.todo = @ \ {a}, !.envs = Envs, !.at = p]
  <2>4. r \in Calling
        BY <2>1, <2>3 DEF Calling, Places
  <2>5. /\ r.at = p /\ r.op = call[t].op /\ r.client = call[t].client /\ r.made = call[t].made
        BY <2>1 DEF Calling
  <2>6. call' = [call EXCEPT ![t] = r]
        BY <2>2
  <2> HIDE DEF r
  <2>7. Others(t) /\ Busy(t)' /\ call'[t] = r
        BY <2>4, <2>6, CallBecomes DEF IInv, Typed
  <2>8. At(t)' = p /\ Op(t)' = "load" /\ Client(t)' = Client(t) /\ call'[t].made = call[t].made
        BY <1>1, <2>5, <2>7 DEF At, Op, Client
  <2>9. Placed(t)'
    <3>1. p \in PlacesOf("load")
          BY PlacesAre DEF AddPlaces
    <3>2. QED
          BY <1>1, <1>2, <2>8, <3>1 DEF Placed
  <2>10. ~Adding(t)' /\ ~Locked(t)' /\ Renewing(t)' /\ InPlace(t)' /\ Cleaned(t)'
         BY <2>8 DEF Adding, Locked, Renewing, InPlace, Cleaned
  <2>11. Right(t)
         BY <1>3, <2>9, <2>10 DEF Right
  <2>12. Learns(t) /\ KeepsClient(t)
         BY <1>2, <1>3, <2>8 DEF Learns, KeepsClient
  <2>13. QED
         BY <1>1, <1>3, <2>7, <2>11, <2>12, LearnStep
<1>6. QED
      BY <1>4, <1>5

\* A call begins.
LEMMA BeginStep ==
    ASSUME IInv, NEW t \in Thread, NEW op \in Ops, NEW a \in Account, NEW flag \in BOOLEAN,
           Begin(t, op, a, flag), Nobody \notin Thread
    PROVE  IInv'
<1>1. /\ At(t) = "idle" /\ lock' = lock /\ UNCHANGED <<table, clients, bots, loose>>
      BY DEF Begin
<1>2. op \in Calls /\ Envs \in Nat
      BY AccountsAssumption DEF Calls
<1>3. Entry(op) \in PlacesOf(op) /\ Entry(op) \in {"lock", "lock to remove", "known", "next", "get"}
      /\ (op = "removeAll" => Entry(op) = "lock")
      BY <1>2, PlacesAre DEF Entry, Calls, AddPlaces, RemovePlaces
<1> DEFINE r == [op |-> op, at |-> Entry(op), account |-> a, flag |-> flag, client |-> None,
                 envs |-> Envs, again |-> FALSE, made |-> {},
                 todo |-> IF op = "load" THEN Account ELSE {}]
<1>4. r \in Calling
      BY <1>2, <1>3 DEF Calling, Places, None
<1>5. call' = [call EXCEPT ![t] = r]
      BY DEF Begin
<1>6. r.at = Entry(op) /\ r.op = op /\ r.client = None /\ r.made = {}
      OBVIOUS
<1> HIDE DEF r
<1>7. Others(t) /\ Busy(t)' /\ call'[t] = r
      BY <1>4, <1>5, CallBecomes DEF IInv, Typed
<1>8. At(t)' = Entry(op) /\ Op(t)' = op /\ Client(t)' = None /\ call'[t].made = {}
      BY <1>6, <1>7 DEF At, Op, Client
<1>9. ~Busy(t) /\ ~Adding(t)
      BY <1>1, BusyIs DEF IInv, Typed, Adding
<1>10. Placed(t)'
  <2>1. None \in 0..Len(clients)
        BY DEF None, IInv, Typed
  <2>2. QED
        BY <1>1, <1>3, <1>8, <2>1 DEF Placed
<1>11. ~Adding(t)' /\ ~Locked(t)' /\ Renewing(t)' /\ InPlace(t)' /\ Cleaned(t)'
       BY <1>3, <1>8 DEF Adding, Locked, Renewing, InPlace, Cleaned
<1>12. Right(t) /\ Returns(t)
       BY <1>1, <1>9, <1>10, <1>11 DEF Right, Returns
<1>13. Learns(t) /\ KeepsClient(t)
       BY <1>8, <1>9 DEF Learns, KeepsClient
<1>14. QED
       BY <1>1, <1>7, <1>12, <1>13, LearnStep

-----------------------------------------------------------------------------
(* Steps that change the table or make bots.                               *)

\* A thread with the lock is the only one that is anywhere with it.
LEMMA HoldsLock ==
    ASSUME IInv, NEW t \in Thread, Locked(t)
    PROVE  lock = t /\ \A u \in Thread \ {t} : ~Locked(u) /\ ~Adding(u)
<1>1. \A u \in Thread : Adding(u) => Locked(u)
      BY DEF Adding, Locked
<1>2. \A u \in Thread : Locked(u) => lock = u
      BY DEF IInv, Fine
<1>3. QED
      BY <1>1, <1>2

\* What the others are left with while a thread has the lock.
LEMMA OthersFine ==
    ASSUME IInv, NEW t \in Thread, Locked(t), NEW u \in Thread \ {t}, Others(t),
           Len(clients') \in Nat, Len(clients) <= Len(clients'), DOMAIN clients \subseteq DOMAIN clients',
           Cleaned(u)'
    PROVE  Fine(u)'
<1>1. /\ At(u)' = At(u) /\ Op(u)' = Op(u) /\ Of(u)' = Of(u) /\ Client(u)' = Client(u)
      /\ Busy(u)' = Busy(u) /\ call'[u].made = call[u].made
      BY DEF Others, At, Op, Of, Client, Busy
<1>2. ~Locked(u) /\ ~Adding(u)
      BY HoldsLock
<1>3. ~Locked(u)' /\ ~Adding(u)'
      BY <1>1, <1>2 DEF Locked, Adding
<1>4. Placed(u)'
  <2>1. 0..Len(clients) \subseteq 0..Len(clients')
        BY DEF IInv, Typed
  <2>2. QED
        BY <1>1, <2>1 DEF IInv, Fine, Placed
<1>5. Renewing(u)'
      BY <1>3 DEF Renewing, Adding, Locked
<1>6. InPlace(u)' /\ Private(u)'
      BY <1>3 DEF InPlace, Private, Locked
<1>7. QED
      BY <1>3, <1>4, <1>5, <1>6 DEF Fine

\* What is put into the table is known to no other call.
LEMMA InsertStep ==
    ASSUME IInv, NEW t \in Thread, Insert(t), Nobody \notin Thread
    PROVE  IInv'
<1> DEFINE p == IF Op(t) = "rotate" THEN "connect" ELSE "next"
<1>1. /\ At(t) = "insert" /\ At(t) # "idle" /\ lock' = Nobody /\ UNCHANGED <<clients, bots, loose>>
      /\ table' = [table EXCEPT ![Of(t)] = Client(t)]
      BY DEF Insert
<1>2. /\ Op(t) \in Calls /\ At(t) \in PlacesOf(Op(t)) /\ Fine(t) /\ Busy(t) /\ Of(t) \in Account
      /\ Client(t) \in 0..Len(clients) /\ call[t].made \subseteq DOMAIN clients
      /\ DOMAIN clients = 1..Len(clients) /\ Len(clients) \in Nat
      BY <1>1, CallIs
<1>3. Op(t) \in {"add", "load", "rotate"} /\ Adding(t) /\ Locked(t)
      BY <1>1, <1>2, OpIs DEF Adding, Locked
<1>4. Client(t) # None /\ Client(t) \in DOMAIN clients
      BY <1>1, <1>2, CallIs DEF Fine, Placed
<1>5. table[Of(t)] = None
      BY <1>2, <1>3 DEF Fine, InPlace
<1>6. \A u \in Thread \ {t} : Busy(u) => Client(u) # Client(t) /\ Client(t) \notin call[u].made
      BY <1>2, <1>3 DEF Fine, Private
<1>7. /\ table' \in [Account -> 0..Len(clients)] /\ table'[Of(t)] = Client(t)
      /\ \A a \in Account : a # Of(t) => table'[a] = table[a]
      BY <1>1, <1>2 DEF IInv, Typed
<1>8. \/ Stops(t) /\ ~Busy(t)' /\ Op(t)' = "none" /\ At(t)' = "idle"
      \/ Moves(t, p) /\ Op(t) \in {"load", "rotate"} /\ p \in {"connect", "next"}
  <2>1. CASE Op(t) = "add"
    <3>1. Stops(t)
          BY <2>1, FinishIs DEF Insert, IInv, Typed
    <3>2. QED
          BY <3>1 DEF Stops, Idle, Op, At, Busy
  <2>2. CASE Op(t) \in {"load", "rotate"}
    <3>1. Goto(t, p) /\ p \in Places
          BY <2>2 DEF Insert, Places
    <3>2. QED
          BY <1>1, <2>2, <3>1, GotoIs DEF IInv, Typed
  <2>3. QED
        BY <1>3, <2>1, <2>2
<1>9. Others(t)
      BY <1>8 DEF Stops, Moves
<1>10. Typed'
       BY <1>1, <1>7, <1>9 DEF IInv, Typed, Others, BotOf
<1>11. ASSUME NEW u \in Thread \ {t}
       PROVE  Fine(u)'
  <2>1. Cleaned(u)'
    <3>1. Busy(u) => Of(u) \in Account
          BY BusyIs DEF IInv, Typed, Calling, Of
    <3>2. ~Busy(u) => Op(u) = "none"
          BY BusyIs DEF IInv, Typed
    <3>3. Cleaned(u)
          BY DEF IInv, Fine
    <3>4. call'[u] = call[u]
          BY <1>9 DEF Others
    <3>5. \A c : Quits(c)' = Quits(c)
          BY <1>1 DEF Quits, BotOf
    <3>6. QED
          BY <1>6, <1>7, <3>1, <3>2, <3>3, <3>4, <3>5 DEF Cleaned, Op, At, Of
  <2>2. QED
        BY <1>1, <1>2, <1>3, <1>9, <2>1, OthersFine
<1>12. Fine(t)'
  <2>1. CASE ~Busy(t)' /\ Op(t)' = "none" /\ At(t)' = "idle"
        BY <2>1 DEF Fine, Placed, Locked, Private, Adding, Renewing, InPlace, Cleaned
  <2>2. CASE Moves(t, p) /\ Op(t) \in {"load", "rotate"}
    <3>1. Placed(t)'
      <4>1. p \in PlacesOf(Op(t)) /\ p \in {"connect", "next"}
            BY <2>2, PlacesAre
      <4> HIDE DEF p
      <4>2. QED
            BY <1>1, <1>2, <1>4, <2>2, <4>1 DEF Placed, Moves
    <3>2. ~Adding(t)' /\ ~Locked(t)'
          BY <2>2 DEF Adding, Locked, Moves
    <3>3. Private(t)' /\ Renewing(t)' /\ InPlace(t)' /\ Cleaned(t)'
          BY <2>2, <3>2 DEF Private, Renewing, InPlace, Cleaned, Moves
    <3>4. QED
          BY <3>1, <3>2, <3>3 DEF Fine
  <2>3. QED
        BY <1>8, <2>1, <2>2
<1>13. ASSUME NEW b \in DOMAIN bots
       PROVE  Kept(b)'
  <2>1. Kept(b)
        BY DEF IInv
  <2>2. CASE bots[b].quit \/ b \in loose
        BY <1>1, <2>2 DEF Kept
  <2>3. CASE \E a \in Account : table[a] # None /\ BotOf(table[a]) = b
    <3>1. PICK a \in Account : table[a] # None /\ BotOf(table[a]) = b
          BY <2>3
    <3>2. table'[a] = table[a]
          BY <1>5, <1>7, <3>1
    <3>3. QED
          BY <1>1, <3>1, <3>2 DEF Kept, BotOf
  <2>4. CASE \E u \in Thread : Adding(u) /\ BotOf(Client(u)) = b
    <3>1. BotOf(Client(t)) = b
          BY <1>3, <2>4, HoldsLock
    <3>2. QED
          BY <1>1, <1>2, <1>4, <1>7, <3>1 DEF Kept, BotOf
  <2>5. QED
        BY <2>1, <2>2, <2>3, <2>4 DEF Kept
<1>14. QED
       BY <1>1, <1>10, <1>11, <1>12, <1>13 DEF IInv

\* What is removed from the table was told to quit, or counts as loose.
LEMMA DeleteStep ==
    ASSUME IInv, NEW t \in Thread, Delete(t), Nobody \notin Thread
    PROVE  IInv'
<1>1. /\ At(t) = "delete" /\ At(t) # "idle" /\ lock' = Nobody /\ UNCHANGED <<clients, bots>>
      /\ table' = [table EXCEPT ![Of(t)] = None]
      /\ loose' = IF bots[BotOf(Client(t))].quit THEN loose ELSE loose \cup {BotOf(Client(t))}
      BY DEF Delete
<1>2. /\ Op(t) \in Calls /\ At(t) \in PlacesOf(Op(t)) /\ Fine(t) /\ Busy(t) /\ Of(t) \in Account
      /\ Client(t) \in 0..Len(clients) /\ call[t].made \subseteq DOMAIN clients
      /\ DOMAIN clients = 1..Len(clients) /\ Len(clients) \in Nat
      BY <1>1, CallIs
<1>3. Op(t) \in {"remove", "rotate"} /\ Locked(t)
      BY <1>1, <1>2, OpIs DEF Locked
<1>4. table[Of(t)] = Client(t)
      BY <1>1, <1>2, <1>3 DEF Fine, InPlace
<1>5. /\ table' \in [Account -> 0..Len(clients)] /\ table'[Of(t)] = None
      /\ \A a \in Account : a # Of(t) => table'[a] = table[a]
      BY <1>1, <1>2 DEF IInv, Typed, None
<1>6. \/ Stops(t) /\ ~Busy(t)' /\ Op(t)' = "none" /\ At(t)' = "idle"
      \/ Moves(t, "next") /\ Op(t) = "rotate"
  <2>1. CASE Op(t) = "remove"
    <3>1. Stops(t)
          BY <2>1, FinishIs DEF Delete, IInv, Typed
    <3>2. QED
          BY <3>1 DEF Stops, Idle, Op, At, Busy
  <2>2. CASE Op(t) = "rotate"
    <3>1. Goto(t, "next")
          BY <2>2 DEF Delete
    <3>2. QED
          BY <1>1, <2>2, <3>1, GotoIs DEF IInv, Typed, Places
  <2>3. QED
        BY <1>3, <2>1, <2>2
<1>7. Others(t)
      BY <1>6 DEF Stops, Moves
<1>8. Typed'
      BY <1>1, <1>5, <1>7 DEF IInv, Typed, Others, BotOf
<1>9. ASSUME NEW u \in Thread \ {t}
      PROVE  Fine(u)'
  <2>1. Cleaned(u)'
    <3>1. Busy(u) => Of(u) \in Account /\ None \notin call[u].made
          BY <1>2, BusyIs DEF IInv, Typed, Calling, Of, Fine, Placed, None
    <3>2. ~Busy(u) => Op(u) = "none"
          BY BusyIs DEF IInv, Typed
    <3>3. Cleaned(u)
          BY DEF IInv, Fine
    <3>4. call'[u] = call[u]
          BY <1>7 DEF Others
    <3>5. \A c : Quits(c)' = Quits(c)
          BY <1>1 DEF Quits, BotOf
    <3>6. QED
          BY <1>5, <3>1, <3>2, <3>3, <3>4, <3>5 DEF Cleaned, Op, At, Of
  <2>2. QED
        BY <1>1, <1>2, <1>3, <1>7, <2>1, OthersFine
<1>10. Fine(t)'
  <2>1. CASE ~Busy(t)' /\ Op(t)' = "none" /\ At(t)' = "idle"
        BY <2>1 DEF Fine, Placed, Locked, Private, Adding, Renewing, InPlace, Cleaned
  <2>2. CASE Moves(t, "next") /\ Op(t) = "rotate"
    <3>1. Placed(t)'
      <4>1. "next" \in PlacesOf(Op(t))
            BY <2>2, PlacesAre
      <4>2. QED
            BY <1>1, <1>2, <2>2, <4>1 DEF Placed, Moves
    <3>2. ~Adding(t)' /\ ~Locked(t)'
          BY <2>2 DEF Adding, Locked, Moves
    <3>3. Private(t)' /\ Renewing(t)' /\ InPlace(t)'
          BY <2>2, <3>2 DEF Private, Renewing, InPlace, Moves
    <3>4. Cleaned(t)'
      <4>1. None \notin call[t].made
            BY <1>2 DEF None
      <4>2. QED
            BY <1>5, <2>2, <4>1 DEF Cleaned, Moves
    <3>5. QED
          BY <3>1, <3>2, <3>3, <3>4 DEF Fine
  <2>3. QED
        BY <1>6, <2>1, <2>2
<1>11. ASSUME NEW b \in DOMAIN bots
       PROVE  Kept(b)'
  <2>1. Kept(b)
        BY DEF IInv
  <2>2. CASE bots[b].quit \/ b \in loose
        BY <1>1, <2>2 DEF Kept
  <2>3. CASE \E a \in Account : table[a] # None /\ BotOf(table[a]) = b
    <3>1. PICK a \in Account : table[a] # None /\ BotOf(table[a]) = b
          BY <2>3
    <3>2. CASE a = Of(t)
      <4>1. BotOf(Client(t)) = b
            BY <1>4, <3>1, <3>2
      <4>2. bots[b].quit \/ b \in loose'
            BY <1>1, <4>1
      <4>3. QED
            BY <1>1, <4>2 DEF Kept
    <3>3. CASE a # Of(t)
          BY <1>1, <1>5, <3>1, <3>3 DEF Kept, BotOf
    <3>4. QED
          BY <3>2, <3>3
  <2>4. CASE \E u \in Thread : Adding(u) /\ BotOf(Client(u)) = b
    <3>1. ~Adding(t)
          BY <1>1 DEF Adding
    <3>2. QED
          BY <1>3, <2>4, <3>1, HoldsLock
  <2>5. QED
        BY <2>1, <2>2, <2>3, <2>4 DEF Kept
<1>12. QED
       BY <1>1, <1>8, <1>9, <1>10, <1>11 DEF IInv

\* A new bot is told nothing yet.
LEMMA NewBotIs == NewBot \in Bot
BY DEF NewBot, Bot

\* A client that is made is new to everyone.
LEMMA AddClientStep ==
    ASSUME IInv, NEW t \in Thread, AddClient(t), Nobody \notin Thread
    PROVE  IInv'
<1> DEFINE c == Len(clients')
           n == Len(bots')
           p == IF Op(t) # "rotate" /\ call[t].flag THEN "connect" ELSE "insert"
<1>1. /\ At(t) = "add" /\ At(t) # "idle" /\ UNCHANGED <<table, lock, loose>>
      /\ bots' = Append(bots, NewBot) /\ clients' = Append(clients, [bot |-> n, started |-> FALSE])
      /\ call' = [call EXCEPT ![t].client = c, ![t].again = FALSE, ![t].made = @ \cup {c}, ![t].at = p]
      /\ table[Of(t)] = None
      BY DEF AddClient
<1>2. /\ Op(t) \in Calls /\ At(t) \in PlacesOf(Op(t)) /\ Fine(t) /\ Busy(t) /\ Of(t) \in Account
      /\ Client(t) \in 0..Len(clients) /\ call[t].made \subseteq DOMAIN clients
      /\ DOMAIN clients = 1..Len(clients) /\ Len(clients) \in Nat
      BY <1>1, CallIs
<1>3. Op(t) \in {"add", "load", "rotate"} /\ Locked(t) /\ lock = t
      BY <1>1, <1>2, OpIs DEF Locked, Fine
<1>4. /\ bots \in Seq(Bot) /\ bots' \in Seq(Bot) /\ n = Len(bots) + 1 /\ n \in Nat
      /\ DOMAIN bots' = DOMAIN bots \cup {n} /\ \A b \in DOMAIN bots : bots'[b] = bots[b]
      BY <1>1, NewBotIs DEF IInv, Typed
<1> HIDE DEF n
<1>5. [bot |-> n, started |-> FALSE] \in ClientRecord
      BY <1>4 DEF ClientRecord
<1>6. /\ clients \in Seq(ClientRecord) /\ clients' \in Seq(ClientRecord)
      /\ c = Len(clients) + 1 /\ DOMAIN clients' = DOMAIN clients \cup {c} /\ c \notin DOMAIN clients
      /\ \A d \in DOMAIN clients : clients'[d] = clients[d]
      /\ clients'[c].bot = n
      BY <1>1, <1>5 DEF IInv, Typed
<1>7. c \in Nat /\ c # None /\ Len(clients) <= c /\ 0..Len(clients) \subseteq 0..c /\ c \notin 0..Len(clients)
      BY <1>2, <1>6 DEF None
<1>8. call[t] \in Calling
      BY <1>2, BusyIs DEF IInv, Typed
<1> DEFINE r == [call[t] EXCEPT !.client = c, !.again = FALSE, !.made = @ \cup {c}, !.at = p]
<1>9. p \in {"connect", "insert"} /\ (Op(t) = "rotate" => p = "insert")
      OBVIOUS
<1> HIDE DEF c, p
<1>10. r \in Calling
       BY <1>7, <1>8, <1>9 DEF Calling, Places
<1>11. /\ r.at = p /\ r.op = call[t].op /\ r.account = call[t].account
       /\ r.client = c /\ r.made = call[t].made \cup {c}
       BY <1>8 DEF Calling
<1>12. call' = [call EXCEPT ![t] = r]
       BY <1>1, <1>8
<1> HIDE DEF r
<1>13. Others(t) /\ Busy(t)' /\ call'[t] = r
       BY <1>10, <1>12, CallBecomes DEF IInv, Typed
<1>14. /\ At(t)' = p /\ Op(t)' = Op(t) /\ Of(t)' = Of(t) /\ Client(t)' = c
       /\ call'[t].made = call[t].made \cup {c}
       BY <1>11, <1>13 DEF At, Op, Of, Client
<1>15. Len(clients') = c
       BY DEF c
<1>16. /\ BotOf(Client(t))' = n
       /\ \A d \in DOMAIN clients : BotOf(d)' = BotOf(d) /\ BotOf(d) \in DOMAIN bots
       BY <1>6, <1>14 DEF BotOf, IInv, Typed
<1>17. Typed'
  <2>1. table' \in [Account -> 0..c]
        BY <1>1, <1>7 DEF IInv, Typed
  <2>2. \A d \in DOMAIN clients' : clients'[d].bot \in DOMAIN bots'
    <3>1. \A d \in DOMAIN clients : clients'[d].bot \in DOMAIN bots
          BY <1>16 DEF BotOf
    <3>2. QED
          BY <1>4, <1>6, <3>1
  <2>3. QED
        BY <1>4, <1>6, <1>13, <1>15, <2>1, <2>2 DEF Typed, Others, BotOf
<1>18. \A d \in DOMAIN clients : Quits(d)' = Quits(d)
       BY <1>4, <1>16 DEF Quits
<1>19. ASSUME NEW u \in Thread \ {t}
       PROVE  Fine(u)'
  <2>1. Cleaned(u)'
    <3>1. Busy(u) => call[u].made \subseteq DOMAIN clients
          BY DEF IInv, Fine, Placed
    <3>2. ~Busy(u) => Op(u) = "none"
          BY BusyIs DEF IInv, Typed
    <3>3. Cleaned(u)
          BY DEF IInv, Fine
    <3>4. call'[u] = call[u]
          BY <1>13 DEF Others
    <3>5. table' = table
          BY <1>1
    <3>6. QED
          BY <1>18, <3>1, <3>2, <3>3, <3>4, <3>5 DEF Cleaned, Op, At, Of
  <2>2. QED
        BY <1>3, <1>6, <1>7, <1>13, <1>15, <2>1, OthersFine
<1>20. Placed(t)'
  <2>1. p \in PlacesOf(Op(t))
        BY <1>3, <1>9, PlacesAre DEF AddPlaces
  <2>2. Client(t)' \in 0..Len(clients')
        BY <1>7, <1>14, <1>15
  <2>3. QED
        BY <1>2, <1>6, <1>7, <1>14, <2>1, <2>2 DEF Placed
<1>21. lock' = t /\ Adding(t)'
       BY <1>1, <1>3, <1>9, <1>14 DEF Adding
<1>22. Private(t)'
  <2>1. \A a \in Account : table'[a] # Client(t)'
        BY <1>1, <1>7, <1>14 DEF IInv, Typed
  <2>2. ASSUME NEW u \in Thread \ {t}, Busy(u)
        PROVE  Client(u) # c /\ c \notin call[u].made
        BY <1>6, <1>7, <2>2 DEF IInv, Fine, Placed
  <2>3. QED
        BY <1>13, <1>14, <2>1, <2>2 DEF Private, Others, Busy, Client
<1>23. Renewing(t)' /\ Cleaned(t)' /\ InPlace(t)'
       BY <1>1, <1>9, <1>14 DEF Renewing, Cleaned, InPlace
<1>24. ASSUME NEW b \in DOMAIN bots'
       PROVE  Kept(b)'
  <2>1. CASE b = n
        BY <1>14, <1>16, <1>21, <2>1 DEF Kept
  <2>2. CASE b \in DOMAIN bots
    <3>1. Kept(b)
          BY <2>2 DEF IInv
    <3>2. CASE bots[b].quit \/ b \in loose
          BY <1>1, <1>4, <2>2, <3>2 DEF Kept
    <3>3. CASE \E a \in Account : table[a] # None /\ BotOf(table[a]) = b
          BY <1>1, <1>2, <1>16, <3>3 DEF Kept, IInv, Typed, None
    <3>4. CASE \E u \in Thread : Adding(u) /\ BotOf(Client(u)) = b
      <4>1. ~Adding(t)
            BY <1>1 DEF Adding
      <4>2. QED
            BY <1>3, <3>4, <4>1, HoldsLock
    <3>5. QED
          BY <3>1, <3>2, <3>3, <3>4 DEF Kept
  <2>3. QED
        BY <1>4, <2>1, <2>2
<1>25. QED
       BY <1>17, <1>19, <1>20, <1>21, <1>22, <1>23, <1>24 DEF IInv, Fine

\* The bot that a new one replaces was told to quit.
LEMMA RenewStep ==
    ASSUME IInv, NEW t \in Thread, Renew(t), Nobody \notin Thread
    PROVE  IInv'
<1> DEFINE n == Len(bots')
           k == Client(t)
           s == [bot |-> n, started |-> FALSE]
<1>1. /\ At(t) = "renew" /\ At(t) # "idle" /\ UNCHANGED <<table, lock, loose>> /\ call[t].envs > 0
      /\ bots' = Append(bots, NewBot) /\ clients' = [clients EXCEPT ![k] = s]
      /\ call' = [call EXCEPT ![t].at = "connect", ![t].again = TRUE, ![t].envs = @ - 1]
      BY DEF Renew
<1>2. /\ Op(t) \in Calls /\ At(t) \in PlacesOf(Op(t)) /\ Fine(t) /\ Busy(t) /\ Of(t) \in Account
      /\ Client(t) \in 0..Len(clients) /\ call[t].made \subseteq DOMAIN clients
      /\ DOMAIN clients = 1..Len(clients) /\ Len(clients) \in Nat
      BY <1>1, CallIs
<1>3. Op(t) \in {"add", "load"} /\ Adding(t) /\ Locked(t) /\ lock = t
      BY <1>1, <1>2, OpIs DEF Adding, Locked, Fine
<1>4. k # None /\ k \in DOMAIN clients /\ Quits(k)
      BY <1>1, <1>2, <1>3, CallIs DEF Fine, Placed, Renewing
<1>5. /\ \A a \in Account : table[a] # k
      /\ \A u \in Thread \ {t} : Busy(u) => Client(u) # k /\ k \notin call[u].made
      BY <1>2, <1>3 DEF Fine, Private
<1>6. /\ bots \in Seq(Bot) /\ bots' \in Seq(Bot) /\ n = Len(bots) + 1 /\ n \in Nat
      /\ DOMAIN bots' = DOMAIN bots \cup {n} /\ \A b \in DOMAIN bots : bots'[b] = bots[b]
      BY <1>1, NewBotIs DEF IInv, Typed
<1> HIDE DEF n
<1>7. s \in ClientRecord /\ s.bot = n
      BY <1>6 DEF ClientRecord
<1> HIDE DEF s
<1>8. /\ clients \in Seq(ClientRecord) /\ clients' \in Seq(ClientRecord)
      /\ DOMAIN clients' = DOMAIN clients /\ Len(clients') = Len(clients) /\ clients'[k] = s
      /\ \A d \in DOMAIN clients : d # k => clients'[d] = clients[d]
      BY <1>1, <1>4, <1>7 DEF IInv, Typed
<1>9. call[t] \in Calling
      BY <1>2, BusyIs DEF IInv, Typed
<1> DEFINE r == [call[t] EXCEPT !.at = "connect", !.again = TRUE, !.envs = @ - 1]
<1>10. r \in Calling
  <2>1. call[t].envs \in Nat
        BY <1>9 DEF Calling
  <2>2. call[t].envs - 1 \in Nat
        BY <1>1, <2>1
  <2>3. QED
        BY <1>9, <2>2 DEF Calling, Places
<1>11. /\ r.at = "connect" /\ r.op = call[t].op /\ r.account = call[t].account
       /\ r.client = call[t].client /\ r.made = call[t].made
       BY <1>9 DEF Calling
<1>12. call' = [call EXCEPT ![t] = r]
       BY <1>1, <1>9
<1> HIDE DEF r
<1>13. Others(t) /\ Busy(t)' /\ call'[t] = r
       BY <1>10, <1>12, CallBecomes DEF IInv, Typed
<1>14. Moves(t, "connect")
       BY <1>11, <1>13 DEF Moves, At, Op, Of, Client
<1>15. /\ BotOf(Client(t))' = n
       /\ \A d \in DOMAIN clients : d # k => BotOf(d)' = BotOf(d)
       /\ \A d \in DOMAIN clients : BotOf(d) \in DOMAIN bots
       BY <1>7, <1>8, <1>14 DEF BotOf, IInv, Typed, Moves
<1>16. Typed'
  <2>1. \A d \in DOMAIN clients' : BotOf(d)' \in DOMAIN bots'
        BY <1>6, <1>7, <1>8, <1>15 DEF BotOf
  <2>2. QED
        BY <1>1, <1>6, <1>8, <1>13, <2>1 DEF IInv, Typed, Others
<1>17. \A d \in DOMAIN clients : d # k => Quits(d)' = Quits(d)
       BY <1>6, <1>15 DEF Quits
<1>18. ASSUME NEW u \in Thread \ {t}
       PROVE  Fine(u)'
  <2>1. Cleaned(u)'
    <3>1. Busy(u) => call[u].made \subseteq DOMAIN clients /\ k \notin call[u].made
          BY <1>5 DEF IInv, Fine, Placed
    <3>2. ~Busy(u) => Op(u) = "none"
          BY BusyIs DEF IInv, Typed
    <3>3. Cleaned(u)
          BY DEF IInv, Fine
    <3>4. call'[u] = call[u]
          BY <1>13 DEF Others
    <3>5. table' = table
          BY <1>1
    <3>6. QED
          BY <1>17, <3>1, <3>2, <3>3, <3>4, <3>5 DEF Cleaned, Op, At, Of
  <2>2. Len(clients') \in Nat /\ Len(clients) <= Len(clients')
        BY <1>2, <1>8
  <2>3. QED
        BY <1>3, <1>8, <1>13, <2>1, <2>2, OthersFine
<1>19. Placed(t)'
  <2>1. "connect" \in PlacesOf(Op(t))
        BY <1>3, PlacesAre DEF AddPlaces
  <2>2. QED
        BY <1>2, <1>4, <1>8, <1>14, <2>1 DEF Placed, Moves
<1>20. lock' = t /\ Adding(t)'
       BY <1>1, <1>3, <1>14 DEF Adding, Moves
<1>21. Private(t)'
       BY <1>1, <1>5, <1>13, <1>14 DEF Private, Moves, Others, Busy, Client
<1>22. Renewing(t)' /\ Cleaned(t)' /\ InPlace(t)'
       BY <1>1, <1>2, <1>3, <1>14 DEF Renewing, Cleaned, InPlace, Moves, Fine
<1>23. ASSUME NEW b \in DOMAIN bots'
       PROVE  Kept(b)'
  <2>1. CASE b = n
        BY <1>15, <1>20, <2>1 DEF Kept
  <2>2. CASE b \in DOMAIN bots
    <3>1. Kept(b)
          BY <2>2 DEF IInv
    <3>2. CASE bots[b].quit \/ b \in loose
          BY <1>1, <1>6, <2>2, <3>2 DEF Kept
    <3>3. CASE \E a \in Account : table[a] # None /\ BotOf(table[a]) = b
          BY <1>1, <1>2, <1>5, <1>15, <3>3 DEF Kept, IInv, Typed, None
    <3>4. CASE \E u \in Thread : Adding(u) /\ BotOf(Client(u)) = b
      <4>1. BotOf(k) = b
            BY <1>3, <3>4, HoldsLock
      <4>2. bots'[b].quit
            BY <1>4, <1>6, <2>2, <4>1 DEF Quits
      <4>3. QED
            BY <4>2 DEF Kept
    <3>5. QED
          BY <3>1, <3>2, <3>3, <3>4 DEF Kept
  <2>3. QED
        BY <1>6, <2>1, <2>2
<1>24. QED
       BY <1>16, <1>18, <1>19, <1>20, <1>21, <1>22, <1>23 DEF IInv, Fine

-----------------------------------------------------------------------------
(* The theorems.                                                           *)

\* A bot's step leaves all calls as they are.
LEMMA BotStepKeeps ==
    ASSUME IInv, NEW b \in DOMAIN bots, BotStep(b) \/ BotLoses(b)
    PROVE  IInv'
<1>1. BotsGoOn /\ UNCHANGED <<table, lock, clients, call, calls, loose>>
      BY BotSteps DEF IInv, Typed
<1>2. ClientsStay
      BY <1>1, Same
<1>3. Typed'
      BY <1>1 DEF IInv, Typed, BotsGoOn, BotOf
<1>4. ASSUME NEW u \in Thread
      PROVE  Fine(u)'
  <2>1. Adding(u) => /\ clients'[Client(u)].started = clients[Client(u)].started
                     /\ \A v \in Thread \ {u} : Busy(v)' =>
                           Client(v)' # Client(u) /\ Client(u) \notin call'[v].made
        BY <1>1 DEF IInv, Fine, Private, Busy, Client
  <2>2. call' \in Called
        BY <1>1 DEF IInv, Typed
  <2>3. QED
        BY <1>1, <1>2, <2>1, <2>2, OtherFine DEF IInv
<1>5. \A u \in Thread : Adding(u) => Adding(u)' /\ Client(u)' = Client(u)
      BY <1>1 DEF Adding, At, Op, Client
<1>6. \A c \in DOMAIN bots : Kept(c)'
      BY <1>1, <1>2, <1>5, KeptStays DEF IInv
<1>7. QED
      BY <1>1, <1>3, <1>4, <1>6 DEF IInv, BotsGoOn

\* The lock, the table and the calls agree on whose each client is: a call that adds has
\* the lock as long as nobody else knows its client, and every bot is of a client in the
\* table or being added, or was told to quit, or its client was removed without that
\* (AccountManager's add_account and remove_account, and ZowsupClient.connect).
THEOREM ClientsInPlace == Spec => []IInv
<1>1. Init => IInv
  <2> SUFFICES ASSUME Init PROVE IInv
      OBVIOUS
  <2>1. \A t \in Thread : call[t] = Idle /\ ~Busy(t)
        BY DEF Init, Busy
  <2>2. \A t \in Thread : Op(t) = "none" /\ At(t) = "idle"
        BY <2>1 DEF Op, At, Idle
  <2>3. bots = <<>> /\ clients = <<>> /\ table = [a \in Account |-> None] /\ call = [t \in Thread |-> Idle]
        BY DEF Init
  <2>4. Typed
        BY <2>3 DEF Typed, Called, None
  <2>5. \A t \in Thread : Fine(t)
        BY <2>1, <2>2 DEF Fine, Placed, Locked, Private, Adding, Renewing, InPlace, Cleaned
  <2>6. QED
        BY <2>3, <2>4, <2>5 DEF IInv
<1>2. IInv /\ [Next]_vars => IInv'
  <2> SUFFICES ASSUME IInv, [Next]_vars PROVE IInv'
      OBVIOUS
  <2>1. Nobody \notin Thread
        BY AccountsAssumption
  <2>2. ASSUME NEW t \in Thread, ThreadStep(t)
        PROVE  IInv'
        BY <2>1, <2>2, TakeLockStep, AddKnownStep, AddClientStep, InsertStep, RunStep, StartedStep,
           LoginStep, RenewStep, QuitEndStep, QuitStep, QuitExitsStep, RemoveStep, DeleteStep,
           DisconnectAllStep, GetStep, LookStep, KnownStep, NextEnvStep, LoadNextStep DEF ThreadStep
  <2>3. ASSUME NEW t \in Thread, NEW op \in Ops, NEW a \in Account, NEW flag \in BOOLEAN,
               Begin(t, op, a, flag)
        PROVE  IInv'
        BY <2>1, <2>3, BeginStep
  <2>4. ASSUME NEW b \in DOMAIN bots, BotStep(b) \/ BotLoses(b)
        PROVE  IInv'
        BY <2>4, BotStepKeeps
  <2>5. CASE UNCHANGED vars
    <3>1. UNCHANGED <<table, lock, clients, bots, call, loose>>
          BY <2>5 DEF vars
    <3>2. Typed' = Typed /\ (\A t \in Thread : Fine(t)' = Fine(t)) /\ \A b \in DOMAIN bots : Kept(b)' = Kept(b)
          BY <3>1 DEF Typed, Fine, Placed, Locked, Private, Adding, Renewing, InPlace, Cleaned, Kept, Quits,
                      Busy, At, Op, Of, Client, BotOf
    <3>3. QED
          BY <3>1, <3>2 DEF IInv
  <2>6. QED
        BY <2>2, <2>3, <2>4, <2>5 DEF Next
<1>3. QED
      BY <1>1, <1>2, PTL DEF Spec

\* No bot is left behind: a bot whose thread goes on belongs to a client of the table or
\* to a call that goes on, or was told to quit, or its client was removed without that
\* (ZowsupClient.connect and _retry_connect_with_env_rotation under the manager's lock,
\* remove_account and connect_with_env_rotation).
THEOREM NoOrphans == Spec => []NoOrphan
<1>1. IInv => NoOrphan
  <2> SUFFICES ASSUME IInv, NEW b \in DOMAIN bots PROVE InHand(b) \/ Registered(b) \/ bots[b].quit \/ b \in loose
      BY DEF NoOrphan
  <2>1. Kept(b)
        BY DEF IInv
  <2>2. ASSUME NEW t \in Thread, Adding(t), BotOf(Client(t)) = b
        PROVE  InHand(b)
    <3>1. At(t) # "idle"
          BY <2>2 DEF Adding
    <3>2. Client(t) # None
          BY <2>2, <3>1, CallIs DEF Fine, Placed, Adding
    <3>3. QED
          BY <2>2, <3>1, <3>2 DEF InHand
  <2>3. QED
        BY <2>1, <2>2 DEF Kept, Registered
<1>2. QED
      BY <1>1, ClientsInPlace, PTL

\* A rotation that fails leaves none of its clients in the table, but one whose bot was
\* told to quit (connect_with_env_rotation removes the client of each environment).
THEOREM RotationCleans == Spec => FailureCleans
<1>1. ASSUME IInv, NEW t \in Thread, RotationFails(t), table[Of(t)] \in call[t].made
      PROVE  bots[BotOf(table[Of(t)])].quit
  <2>1. Cleaned(t) /\ Op(t) = "rotate" /\ At(t) = "next"
        BY <1>1 DEF RotationFails, IInv, Fine
  <2>2. QED
        BY <1>1, <2>1 DEF Cleaned, Quits
<1>2. IInv => [\A t \in Thread : RotationFails(t) /\ table[Of(t)] \in call[t].made
                  => bots[BotOf(table[Of(t)])].quit]_vars
      BY <1>1
<1>3. QED
      BY <1>2, ClientsInPlace, PTL DEF FailureCleans
=============================================================================
