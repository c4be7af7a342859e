------------------------------ MODULE Accounts ------------------------------
(***************************************************************************)
(* The manager of accounts and the login of their clients.                 *)
(*                                                                         *)
(* Threads of the application call the manager, which keeps the clients in *)
(* a table under a lock that is not re-entrant.  A client starts the       *)
(* thread of its bot and waits for the login, under the manager's lock     *)
(* when it connects as it is added, without it when environments are       *)
(* rotated.                                                                *)
(*                                                                         *)
(* A client is connected by the call that made it.  Calls that only read   *)
(* the table are left out.                                                 *)
(***************************************************************************)
EXTENDS Naturals, Sequences, FiniteSets

CONSTANTS
    Account, Thread,
    Envs,       \* how many environments a rotation tries (4)
    Ops,        \* the calls that threads make
    MaxCalls    \* bound: calls in a behaviour

Nobody == "nobody"
None == 0
ASSUME AccountsAssumption ==
    /\ IsFiniteSet(Account) /\ IsFiniteSet(Thread) /\ Nobody \notin Thread
    /\ {Envs, MaxCalls} \subseteq Nat /\ Envs > 0
    /\ Ops \subseteq {"add", "remove", "rotate", "load", "removeAll", "disconnectAll",
                      "disconnect"}

VARIABLES
    table,    \* _accounts
    lock,     \* the thread that holds _lock
    clients,  \* all clients ever made
    bots,     \* all bots ever made
    call,     \* what each thread is at
    calls,
    loose     \* bots of clients that were removed before they counted as started
vars == <<table, lock, clients, bots, call, calls, loose>>

NewBot ==
    [at |-> "new", inloop |-> FALSE, quit |-> FALSE, login |-> FALSE, handshake |-> FALSE,
     connected |-> FALSE]
Idle == [op |-> "none", at |-> "idle"]

Init ==
    /\ table = [a \in Account |-> None] /\ lock = Nobody
    /\ clients = <<>> /\ bots = <<>>
    /\ call = [t \in Thread |-> Idle]
    /\ calls = 0 /\ loose = {}

-----------------------------------------------------------------------------
(* The thread of a bot.                                                    *)

Becomes(b, r) == bots' = [bots EXCEPT ![b] = r]
OfBots == UNCHANGED <<table, lock, clients, call, calls, loose>>

\* run: the flag is set, then the connection made.
BotRuns(b) ==
    /\ bots[b].at = "thread"
    /\ Becomes(b, [bots[b] EXCEPT !.at = "loop", !.inloop = TRUE])
    /\ OfBots

\* OSError: the thread disconnects itself, and that exits.  A proxy's error is caught
\* by code that raises again.
BotConnects(b) ==
    /\ bots[b].at = "loop"
    /\ \/ Becomes(b, [bots[b] EXCEPT !.at = "up"])
       \/ Becomes(b, [bots[b] EXCEPT !.at = "down", !.inloop = FALSE, !.quit = TRUE])
       \/ Becomes(b, [bots[b] EXCEPT !.at = "down"])
    /\ OfBots

\* Login; or one that is refused, which counts as a login and ends the thread; or a
\* handshake that failed, which the same bot tries again.
BotHears(b) ==
    /\ bots[b].at = "up" /\ ~bots[b].connected
    /\ \/ Becomes(b, [bots[b] EXCEPT !.connected = TRUE, !.login = TRUE])
       \/ Becomes(b, [bots[b] EXCEPT !.login = TRUE, !.at = "down"])
       \/ Becomes(b, IF bots[b].quit THEN [bots[b] EXCEPT !.at = "down"]
                     ELSE [bots[b] EXCEPT !.handshake = TRUE, !.login = FALSE])
    /\ OfBots

BotLoses(b) ==
    /\ bots[b].at = "up" /\ bots[b].connected
    /\ Becomes(b, IF bots[b].quit THEN [bots[b] EXCEPT !.connected = FALSE, !.at = "down"]
                  ELSE [bots[b] EXCEPT !.connected = FALSE, !.login = FALSE])
    /\ OfBots

\* The DISCONNECTED that follows a quit exits.
BotEnds(b) ==
    /\ bots[b].at = "closing"
    /\ Becomes(b, [bots[b] EXCEPT !.connected = FALSE, !.at = "down"])
    /\ OfBots

BotStep(b) == BotRuns(b) \/ BotConnects(b) \/ BotHears(b) \/ BotEnds(b)

-----------------------------------------------------------------------------
(* Calls.                                                                  *)

Op(t) == call[t].op
At(t) == call[t].at
Of(t) == call[t].account
Client(t) == call[t].client
BotOf(c) == clients[c].bot
Goto(t, place) == call' = [call EXCEPT ![t].at = place]
Finish(t) == call' = [call EXCEPT ![t] = Idle]

\* The first step of each call.
Entry(op) ==
    CASE op \in {"add", "removeAll", "disconnectAll"} -> "lock"
      [] op = "remove" -> "lock to remove"
      [] op = "rotate" -> "known"
      [] op = "load" -> "next"
      [] op = "disconnect" -> "get"

\* flag: auto_connect of what adds, disconnect of what removes.
Begin(t, op, a, flag) ==
    /\ At(t) = "idle" /\ calls < MaxCalls /\ calls' = calls + 1
    /\ op \in Ops /\ (flag \/ op \in {"add", "load", "remove"})
    /\ call' = [call EXCEPT ![t] =
                   [op |-> op, at |-> Entry(op), account |-> a, flag |-> flag, client |-> None,
                    envs |-> Envs, again |-> FALSE, made |-> {},
                    todo |-> IF op = "load" THEN Account ELSE {}]]
    /\ UNCHANGED <<table, lock, clients, bots, loose>>

TakeLock(t) ==
    /\ At(t) \in {"lock", "lock to remove"} /\ lock = Nobody /\ lock' = t
    /\ Goto(t, CASE At(t) = "lock to remove" -> "remove"
                 [] Op(t) = "removeAll" -> "remove all"
                 [] Op(t) = "disconnectAll" -> "disconnect all"
                 [] OTHER -> "add")
    /\ UNCHANGED <<table, clients, bots, calls, loose>>

(* add_account, also for a rotation and for a load.                        *)

\* ValueError ends a call, is cleaned up after in a rotation, and logged in a load.
AddKnown(t) ==
    /\ At(t) = "add" /\ table[Of(t)] # None
    /\ lock' = Nobody
    /\ CASE Op(t) = "add" -> Finish(t)
         [] Op(t) = "rotate" -> Goto(t, "clean")
         [] Op(t) = "load" -> Goto(t, "next")
    /\ UNCHANGED <<table, clients, bots, calls, loose>>

\* The lock is kept while the client connects.
AddClient(t) ==
    /\ At(t) = "add" /\ table[Of(t)] = None
    /\ bots' = Append(bots, NewBot)
    /\ clients' = Append(clients, [bot |-> Len(bots'), started |-> FALSE])
    /\ call' = [call EXCEPT ![t].client = Len(clients'), ![t].again = FALSE,
                            ![t].made = @ \cup {Len(clients')},
                            ![t].at = IF Op(t) # "rotate" /\ call[t].flag
                                      THEN "connect" ELSE "insert"]
    /\ UNCHANGED <<table, lock, calls, loose>>

Insert(t) ==
    /\ At(t) = "insert"
    /\ table' = [table EXCEPT ![Of(t)] = Client(t)] /\ lock' = Nobody
    /\ CASE Op(t) = "add" -> Finish(t)
         [] Op(t) = "rotate" -> Goto(t, "connect")
         [] Op(t) = "load" -> Goto(t, "next")
    /\ UNCHANGED <<clients, bots, calls, loose>>

(* ZowsupClient.connect.                                                   *)

Run(t) ==
    /\ At(t) = "connect"
    /\ LET b == BotOf(Client(t)) IN Becomes(b, [bots[b] EXCEPT !.at = "thread"])
    /\ Goto(t, "started")
    /\ UNCHANGED <<table, lock, clients, calls, loose>>

Started(t) ==
    /\ At(t) = "started"
    /\ clients' = [clients EXCEPT ![Client(t)].started = TRUE]
    /\ Goto(t, "login")
    /\ UNCHANGED <<table, lock, bots, calls, loose>>

WaitLogin(t) ==
    /\ At(t) = "login" /\ bots[BotOf(Client(t))].login
    /\ Goto(t, IF Op(t) = "rotate" THEN "verify" ELSE "insert")
    /\ UNCHANGED <<table, lock, clients, bots, calls, loose>>

\* Mutant of LoginTimeout: the next environment is tried at once.
LoginTimeoutOnly(t) ==
    /\ At(t) = "login" /\ ~bots[BotOf(Client(t))].login
    /\ Goto(t, IF Op(t) = "rotate" THEN "lock to remove"
               ELSE IF call[t].again \/ bots[BotOf(Client(t))].handshake THEN "renew"
               ELSE "insert")
    /\ UNCHANGED <<table, lock, clients, bots, calls, loose>>

\* Without a login the client tries the other environments itself, if a handshake has
\* failed, unless it is the manager that rotates them: it removes the client.
LoginTimeout(t) ==
    /\ At(t) = "login" /\ ~bots[BotOf(Client(t))].login
    /\ Goto(t, IF Op(t) = "rotate" THEN "lock to remove"
               ELSE IF call[t].again \/ bots[BotOf(Client(t))].handshake THEN "quit"
               ELSE "insert")
    /\ UNCHANGED <<table, lock, clients, bots, calls, loose>>

\* _retry_connect_with_env_rotation: a new bot for each environment.
Renew(t) ==
    /\ At(t) = "renew" /\ call[t].envs > 0
    /\ bots' = Append(bots, NewBot)
    /\ clients' = [clients EXCEPT ![Client(t)] = [bot |-> Len(bots'), started |-> FALSE]]
    /\ call' = [call EXCEPT ![t].at = "connect", ![t].again = TRUE, ![t].envs = @ - 1]
    /\ UNCHANGED <<table, lock, calls, loose>>

GiveUp(t) ==
    /\ At(t) = "renew" /\ call[t].envs = 0
    /\ Goto(t, "insert")
    /\ UNCHANGED <<table, lock, clients, bots, calls, loose>>

(* ZowsupClient.disconnect, in remove_account and disconnect_all, between two    *)
(* environments, or by the application.                                    *)

AfterQuit(t) ==
    CASE Op(t) \in {"add", "load"} -> "renew"
      [] Op(t) \in {"remove", "rotate"} -> "delete"
      [] Op(t) = "disconnectAll" -> "disconnect all"
      [] Op(t) = "disconnect" -> "end"

\* A bot that is not in its loop handles the event on the caller's thread, and exits.
Exits(b) == ~bots[b].inloop

\* Nothing is done for a client that does not count as started.
QuitNothing(t) ==
    /\ At(t) = "quit" /\ ~clients[Client(t)].started
    /\ Goto(t, AfterQuit(t))
    /\ UNCHANGED <<table, lock, clients, bots, calls, loose>>

\* Before the bot has its connection there is nothing to close: the error is caught.
Quit(t) ==
    LET b == BotOf(Client(t)) IN
    /\ At(t) = "quit" /\ clients[Client(t)].started /\ ~Exits(b)
    /\ Becomes(b, [bots[b] EXCEPT !.quit = TRUE, !.at = IF @ = "up" THEN "closing" ELSE @])
    /\ Goto(t, "stopped")
    /\ UNCHANGED <<table, lock, clients, calls, loose>>

Stopped(t) ==
    /\ At(t) = "stopped"
    /\ clients' = [clients EXCEPT ![Client(t)].started = FALSE]
    /\ Goto(t, AfterQuit(t))
    /\ UNCHANGED <<table, lock, bots, calls, loose>>

\* Mutant of QuitExits: the lock is kept.
QuitExitsLocked(t) ==
    LET b == BotOf(Client(t)) IN
    /\ At(t) = "quit" /\ clients[Client(t)].started /\ Exits(b)
    /\ Becomes(b, [bots[b] EXCEPT !.quit = TRUE, !.connected = FALSE])
    /\ CASE Op(t) \in {"add", "load"} -> Goto(t, "renew") /\ UNCHANGED lock
         [] Op(t) = "rotate" -> Goto(t, "next") /\ UNCHANGED lock
         [] OTHER -> Finish(t) /\ UNCHANGED lock
    /\ UNCHANGED <<table, clients, calls, loose>>

\* SystemExit is no Exception: it ends the call, with the account where it was, unless
\* a rotation catches everything.  The lock is given back.
QuitExits(t) ==
    LET b == BotOf(Client(t)) IN
    /\ At(t) = "quit" /\ clients[Client(t)].started /\ Exits(b)
    /\ Becomes(b, [bots[b] EXCEPT !.quit = TRUE, !.connected = FALSE])
    /\ CASE Op(t) \in {"add", "load"} -> Goto(t, "renew") /\ UNCHANGED lock
         [] Op(t) = "rotate" -> Goto(t, "next") /\ lock' = Nobody
         [] OTHER -> Finish(t) /\ lock' = IF lock = t THEN Nobody ELSE lock
    /\ UNCHANGED <<table, clients, calls, loose>>

(* remove_account, also for a rotation.                                    *)

Remove(t) ==
    /\ At(t) = "remove"
    /\ IF table[Of(t)] # None
       THEN /\ call' = [call EXCEPT ![t].client = table[Of(t)],
                                    ![t].at = IF Op(t) = "rotate" \/ call[t].flag
                                              THEN "quit" ELSE "delete"]
            /\ UNCHANGED lock
       ELSE /\ IF Op(t) = "rotate" THEN Goto(t, "next") ELSE Finish(t)
            /\ lock' = Nobody
    /\ UNCHANGED <<table, clients, bots, calls, loose>>

Delete(t) ==
    /\ At(t) = "delete"
    /\ table' = [table EXCEPT ![Of(t)] = None] /\ lock' = Nobody
    /\ loose' = IF bots[BotOf(Client(t))].quit THEN loose ELSE loose \cup {BotOf(Client(t))}
    /\ IF Op(t) = "rotate" THEN Goto(t, "next") ELSE Finish(t)
    /\ UNCHANGED <<clients, bots, calls>>

(* remove_all calls remove_account for each, with the lock.                *)
RemoveAll(t) ==
    /\ At(t) = "remove all"
    /\ IF \E a \in Account : table[a] # None
       THEN Goto(t, "lock to remove") /\ UNCHANGED lock
       ELSE Finish(t) /\ lock' = Nobody
    /\ UNCHANGED <<table, clients, bots, calls, loose>>

(* disconnect_all.  "made" holds the clients that have been disconnected.  *)
DisconnectAll(t) ==
    /\ At(t) = "disconnect all"
    /\ LET left == {table[a] : a \in Account} \ ({None} \cup call[t].made)
       IN  IF left = {} THEN Finish(t) /\ lock' = Nobody
           ELSE /\ UNCHANGED lock
                /\ \E c \in left :
                      call' = [call EXCEPT ![t].client = c, ![t].made = @ \cup {c},
                                           ![t].at = "quit"]
    /\ UNCHANGED <<table, clients, bots, calls, loose>>

(* The application disconnects a client it got from the manager.           *)
Get(t) ==
    /\ At(t) = "get" /\ lock = Nobody
    /\ IF table[Of(t)] = None THEN Finish(t)
       ELSE call' = [call EXCEPT ![t].client = table[Of(t)], ![t].at = "quit"]
    /\ UNCHANGED <<table, lock, clients, bots, calls, loose>>

End(t) ==
    /\ At(t) = "end"
    /\ Finish(t)
    /\ UNCHANGED <<table, lock, clients, bots, calls, loose>>

(* connect_with_env_rotation.                                              *)

\* The table is looked at without the lock.
Known(t) ==
    /\ At(t) \in {"known", "clean"}
    /\ Goto(t, IF table[Of(t)] # None THEN "lock to remove" ELSE "next")
    /\ UNCHANGED <<table, lock, clients, bots, calls, loose>>

NextEnv(t) ==
    /\ Op(t) = "rotate" /\ At(t) = "next" /\ call[t].envs > 0
    /\ call' = [call EXCEPT ![t].at = "lock", ![t].envs = @ - 1]
    /\ UNCHANGED <<table, lock, clients, bots, calls, loose>>

RotationFails(t) ==
    /\ Op(t) = "rotate" /\ At(t) = "next" /\ call[t].envs = 0
    /\ Finish(t)
    /\ UNCHANGED <<table, lock, clients, bots, calls, loose>>

IsConnected(c) == clients[c].started /\ bots[BotOf(c)].connected

\* Mutant of Verify: a client that does not connect is left where it is.
VerifyOnly(t) ==
    /\ At(t) = "verify"
    /\ IF IsConnected(Client(t)) THEN Finish(t) ELSE Goto(t, "next")
    /\ UNCHANGED <<table, lock, clients, bots, calls, loose>>

Verify(t) ==
    /\ At(t) = "verify"
    /\ IF IsConnected(Client(t)) THEN Finish(t) ELSE Goto(t, "lock to remove")
    /\ UNCHANGED <<table, lock, clients, bots, calls, loose>>

(* load_all_imported_accounts.                                             *)

\* The table is looked at without the lock ...
LoadNext(t) ==
    /\ Op(t) = "load" /\ At(t) = "next"
    /\ IF call[t].todo = {} THEN Finish(t)
       ELSE \E a \in call[t].todo :
               call' = [call EXCEPT ![t].account = a, ![t].todo = @ \ {a}, ![t].envs = Envs,
                                    ![t].at = IF table[a] # None THEN "read" ELSE "lock"]
    /\ UNCHANGED <<table, lock, clients, bots, calls, loose>>

\* ... and read again: KeyError ends the load if the account has gone.
LoadRead(t) ==
    /\ At(t) = "read"
    /\ IF table[Of(t)] # None THEN Goto(t, "next") ELSE Finish(t)
    /\ UNCHANGED <<table, lock, clients, bots, calls, loose>>

-----------------------------------------------------------------------------
ThreadStep(t) ==
    \/ TakeLock(t) \/ AddKnown(t) \/ AddClient(t) \/ Insert(t)
    \/ Run(t) \/ Started(t) \/ WaitLogin(t) \/ LoginTimeout(t)
    \/ Renew(t) \/ GiveUp(t)
    \/ QuitNothing(t) \/ Quit(t) \/ Stopped(t) \/ QuitExits(t)
    \/ Remove(t) \/ Delete(t) \/ RemoveAll(t) \/ DisconnectAll(t) \/ Get(t) \/ End(t)
    \/ Known(t) \/ NextEnv(t) \/ RotationFails(t) \/ Verify(t) \/ LoadNext(t) \/ LoadRead(t)

Next ==
    \/ \E t \in Thread :
          \/ ThreadStep(t)
          \/ \E op \in Ops, a \in Account, flag \in BOOLEAN : Begin(t, op, a, flag)
    \/ \E b \in DOMAIN bots : BotStep(b) \/ BotLoses(b)

Spec == Init /\ [][Next]_vars

\* A thread goes on with its call.  Waiting for the lock needs no more than that: the
\* other threads make a bounded number of calls.
FairSpec == Spec /\ \A t \in Thread : WF_vars(ThreadStep(t))

-----------------------------------------------------------------------------
(* Properties.                                                             *)

Alive(b) == bots[b].at \in {"thread", "loop", "up"}
InHand(b) == \E t \in Thread : At(t) # "idle" /\ Client(t) # None /\ BotOf(Client(t)) = b
Registered(b) == \E a \in Account : table[a] # None /\ BotOf(table[a]) = b

\* A bot whose thread goes on belongs to a client of the table or to a call that goes
\* on, also after clients tried several environments and threads added and removed
\* the account meanwhile.  The exceptions: it was told to quit before it had its
\* connection, or its client was removed without a quit, by choice or because it did
\* not count as started yet.
NoOrphan == \A b \in DOMAIN bots : Alive(b) => InHand(b) \/ Registered(b) \/ bots[b].quit \/ b \in loose

\* A rotation that fails leaves behind no client it made, unless quitting the client's
\* bot raised SystemExit in the rotation itself, which goes on as if it were removed.
FailureCleans ==
    [][\A t \in Thread :
          RotationFails(t) /\ table[Of(t)] \in call[t].made => bots[BotOf(table[Of(t)])].quit]_vars

SelfBlocked(t) == Op(t) = "removeAll" /\ At(t) = "lock to remove"
\* Every call ends, whatever becomes of the bots it waits for, unless a thread is in
\* remove_all with accounts to remove: the lock is always given back.
CallsEnd ==
    \A t \in Thread : At(t) # "idle" ~> (At(t) = "idle" \/ \E u \in Thread : SelfBlocked(u))

\* The clean-up of an application is "manager.disconnect_all()", "manager.remove_all()"
\* (docs/MULTIPLE_ACCOUNTS.md:96): a thread that calls remove_all gets to its end.
RemoveAllEnds == \A t \in Thread : Op(t) = "removeAll" ~> At(t) = "idle"
=============================================================================
