----------------------------- MODULE ClientManager -----------------------------
(***************************************************************************)
(* The clients of agents and their processes: client_manager.go, and Start,*)
(* EnsureReady, the session requests and shutdown of client.go, called by  *)
(* any number of goroutines.                                               *)
(*                                                                         *)
(* The manager keeps a table of clients, one for each agent, and gives out *)
(* clients of its own making.  A client may be shut down and made ready    *)
(* again, with another process.  The reader of a process, and what an agent*)
(* asks of its client, is in AgentRequests; a prompt is in Client.         *)
(***************************************************************************)
EXTENDS Naturals, FiniteSets

CONSTANTS
  Clients,     \* clients that may be made
  Registered,  \* those the manager made for the agents it has found
  Users,       \* goroutines that call clients and manager
  MaxProcs     \* bound: agent processes started

ASSUME ClientsAssumption == Registered \subseteq Clients /\ MaxProcs \in Nat
ASSUME NoUserIsZero      == 0 \notin Users

Procs  == 1..MaxProcs
Styles == {"acp", "factory"}

VARIABLES
  style,     \* the wire protocol of the agents, which never changes
  known,     \* who has each client: nobody, the table, a Get under way, callers, or
             \* nobody any more
  client,    \* the fields of each client
  lock,      \* who holds the setupMu of each client, or 0
  user,      \* what each goroutine is doing
  starts,    \* processes started so far
  home,      \* the client each process was started by, as a set of one
  alive,     \* the processes that run
  stopped,   \* the processes whose reader has been told to stop
  panicked,  \* a nil transport was used: the program is dead
  crossed,   \* history: clients shut down while they were being made ready
  due        \* history: what was alive when each goroutine began to close all
procVars == <<starts, home, alive, stopped>>
lifeVars == <<style, known, client, lock, user, procVars, panicked, crossed, due>>

\* running, the process of cmd and transport or 0, that of the session or 0, and that which
\* the cached title, modes and commands of the session came from or 0.
NewClient == [running |-> FALSE, proc |-> 0, session |-> 0, told |-> 0]
\* on: the client it calls; get: for Get; todo: clients it has to close yet.
Idle == [pc |-> "idle", on |-> {}, proc |-> 0, get |-> FALSE, todo |-> {}]

LifeInit ==
  /\ style \in Styles
  /\ known = [c \in Clients |-> IF c \in Registered THEN "table" ELSE "unmade"]
  /\ client = [c \in Clients |-> NewClient] /\ lock = [c \in Clients |-> 0]
  /\ user = [u \in Users |-> Idle]
  /\ starts = 0 /\ home = [p \in Procs |-> {}] /\ alive = {} /\ stopped = {}
  /\ panicked = FALSE /\ crossed = {} /\ due = [u \in Users |-> {}]

At(u, pc) == user[u].pc = pc
GoTo(u, pc) == user' = [user EXCEPT ![u].pc = pc]
On(u, c, pc) == user[u].pc = pc /\ user[u].on = {c}

\* A client is made ready and shut down at the same time.
Shutting(c) == \E u \in Users, pc \in {"kill", "clear"} : On(u, c, pc)
Readying(c) == lock[c] # 0 \/ \E u \in Users, pc \in {"new", "wait"} : On(u, c, pc)
Crosses(c, yes) == crossed' = IF yes THEN crossed \cup {c} ELSE crossed

-----------------------------------------------------------------------------
\* EnsureReady and Get.

\* Get makes a client, and does not keep it.
Get(u, c) ==
  /\ At(u, "idle") /\ known[c] = "unmade"
  /\ known' = [known EXCEPT ![c] = "get"]
  /\ user' = [user EXCEPT ![u] = [Idle EXCEPT !.pc = "lock", !.on = {c}, !.get = TRUE]]
  /\ UNCHANGED <<style, client, lock, procVars, panicked, crossed, due>>

\* On a client of NewClient or one that Get has returned.
EnsureReady(u, c) ==
  /\ At(u, "idle") /\ known[c] \in {"unmade", "held"}
  /\ known' = [known EXCEPT ![c] = "held"]
  /\ user' = [user EXCEPT ![u] = [Idle EXCEPT !.pc = "lock", !.on = {c}]]
  /\ UNCHANGED <<style, client, lock, procVars, panicked, crossed, due>>

\* Mutant: Start never minds what it has started before.
StartsBlindly(u, c) ==
  /\ On(u, c, "lock") /\ lock[c] = 0
  /\ lock' = [lock EXCEPT ![c] = u] /\ Crosses(c, Shutting(c))
  /\ GoTo(u, "launch")
  /\ UNCHANGED <<style, known, client, procVars, panicked, due>>
\* Start looks at running only, which a process that ends leaves as it is.
Starts(u, c) ==
  /\ On(u, c, "lock") /\ lock[c] = 0
  /\ lock' = [lock EXCEPT ![c] = u] /\ Crosses(c, Shutting(c))
  /\ GoTo(u, IF client[c].running THEN "session" ELSE "launch")
  /\ UNCHANGED <<style, known, client, procVars, panicked, due>>

\* A call returns; a Get that fails forgets its client.
Returns(u, c, well) ==
  /\ user' = [user EXCEPT ![u] = Idle]
  /\ lock' = [lock EXCEPT ![c] = IF @ = u THEN 0 ELSE @]
  /\ known' = [known EXCEPT ![c] = IF user[u].get THEN IF well THEN "held" ELSE "lost" ELSE @]

LaunchFails(u, c) ==
  /\ On(u, c, "launch")
  /\ Returns(u, c, FALSE)
  /\ UNCHANGED <<style, client, procVars, panicked, crossed, due>>

Launch(u, c) ==
  LET p == starts + 1 IN
  /\ On(u, c, "launch") /\ p \in Procs
  /\ starts' = p /\ home' = [home EXCEPT ![p] = {c}] /\ alive' = alive \cup {p}
  /\ client' = [client EXCEPT ![c].proc = p]
  /\ user' = [user EXCEPT ![u] = [@ EXCEPT !.proc = p, !.pc = IF style = "factory" THEN "started" ELSE "init"]]
  /\ UNCHANGED <<style, known, lock, stopped, panicked, crossed, due>>

\* sendRequest takes the transport without asking whether there is one.
Panics(u, c) ==
  /\ On(u, c, "init") \/ On(u, c, "new")
  /\ client[c].proc = 0
  /\ panicked' = TRUE
  /\ UNCHANGED <<style, known, client, lock, user, procVars, crossed, due>>

Initialize(u, c) ==
  /\ On(u, c, "init") /\ client[c].proc \in alive
  /\ GoTo(u, "started")
  /\ UNCHANGED <<style, known, client, lock, procVars, panicked, crossed, due>>

\* An error, a timeout, or an agent that has ended, or whose transport a shutdown has
\* cleared since the request took it: Start takes everything down again.
InitFails(u, c) ==
  /\ On(u, c, "init")
  /\ stopped' = stopped \cup {user[u].proc} /\ alive' = alive \ {user[u].proc}
  /\ client' = [client EXCEPT ![c].proc = 0] /\ Returns(u, c, FALSE)
  /\ UNCHANGED <<style, starts, home, panicked, crossed, due>>

SetRunning(u, c) ==
  /\ On(u, c, "started")
  /\ client' = [client EXCEPT ![c].running = TRUE] /\ GoTo(u, "session")
  /\ UNCHANGED <<style, known, lock, procVars, panicked, crossed, due>>

\* The Factory protocol has no session before the caller makes one.
KeepSession(u, c) ==
  /\ On(u, c, "session") /\ (style = "factory" \/ client[c].session # 0)
  /\ Returns(u, c, TRUE)
  /\ UNCHANGED <<style, client, procVars, panicked, crossed, due>>

\* A session of another working directory is closed, if need be without an answer.
LeaveSession(u, c) ==
  /\ On(u, c, "session") /\ (style = "factory" => client[c].session # 0)
  /\ client' = [client EXCEPT ![c].session = 0]
  /\ IF style = "acp" /\ client[c].running THEN GoTo(u, "new") /\ UNCHANGED <<known, lock>>
     ELSE Returns(u, c, style = "factory")
  /\ UNCHANGED <<style, procVars, panicked, crossed, due>>

\* NewSession, ResumeSession and their Factory forms, by a caller of their own.
OpenSession(u, c) ==
  /\ At(u, "idle") /\ known[c] = "held" /\ client[c].running
  /\ user' = [user EXCEPT ![u] = [@ EXCEPT !.pc = "new", !.on = {c}]] /\ Crosses(c, Shutting(c))
  /\ UNCHANGED <<style, known, client, lock, procVars, panicked, due>>

AskSession(u, c) ==
  /\ On(u, c, "new") /\ client[c].proc \in alive
  /\ user' = [user EXCEPT ![u] = [@ EXCEPT !.pc = "wait", !.proc = client[c].proc]]
  /\ UNCHANGED <<style, known, client, lock, procVars, panicked, crossed, due>>

Opened(u, c) ==
  /\ On(u, c, "wait")
  /\ client' = [client EXCEPT ![c].session = user[u].proc] /\ Returns(u, c, TRUE)
  /\ UNCHANGED <<style, procVars, panicked, crossed, due>>

\* The agent has ended, refuses or is late.
NotOpened(u, c) ==
  /\ On(u, c, "wait") \/ (On(u, c, "new") /\ client[c].proc \notin alive \cup {0})
  /\ Returns(u, c, FALSE)
  /\ UNCHANGED <<style, client, procVars, panicked, crossed, due>>

AgentExits(p) ==
  /\ p \in alive /\ alive' = alive \ {p}
  /\ UNCHANGED <<style, known, client, lock, user, starts, home, stopped, panicked, crossed, due>>

-----------------------------------------------------------------------------
\* Close, Disconnect and CloseAll.

\* shutdown takes the fields, with or without a session/close ...
Snapshot(u, c) ==
  /\ user' = [user EXCEPT ![u] = [@ EXCEPT !.pc = "kill", !.on = {c}, !.proc = client[c].proc,
                                        !.todo = user[u].todo \ {c}]]
  /\ Crosses(c, Readying(c))
Close(u, c) ==
  /\ At(u, "idle") /\ known[c] = "held"
  /\ Snapshot(u, c)
  /\ UNCHANGED <<style, known, client, lock, procVars, panicked, due>>

\* Mutant: nobody asks whether there is a process.
KillUnchecked(u, c) ==
  /\ On(u, c, "kill")
  /\ stopped' = stopped \cup {user[u].proc} /\ alive' = alive \ {user[u].proc}
  /\ GoTo(u, "clear")
  /\ UNCHANGED <<style, known, client, lock, starts, home, panicked, crossed, due>>
\* ... stops the reader and ends the process ...
Kill(u, c) ==
  /\ On(u, c, "kill")
  /\ stopped' = stopped \cup ({user[u].proc} \ {0}) /\ alive' = alive \ {user[u].proc}
  /\ GoTo(u, "clear")
  /\ UNCHANGED <<style, known, client, lock, starts, home, panicked, crossed, due>>

\* ... and clears the fields, whatever they hold by now.
Clear(u, c) ==
  /\ On(u, c, "clear")
  /\ client' = [client EXCEPT ![c] = NewClient]
  /\ user' = [user EXCEPT ![u] = IF c \notin Registered THEN Idle
                                 ELSE [Idle EXCEPT !.pc = "closing", !.todo = user[u].todo]]
  /\ UNCHANGED <<style, known, lock, procVars, panicked, crossed, due>>

\* CloseAll closes what is in the table: a program's last call, in this goroutine.
CloseAll(u) ==
  /\ At(u, "idle")
  /\ user' = [user EXCEPT ![u] = [@ EXCEPT !.pc = "closing", !.todo = Registered]]
  /\ due' = [due EXCEPT ![u] = alive]
  /\ UNCHANGED <<style, known, client, lock, procVars, panicked, crossed>>
CloseNext(u, c) ==
  /\ At(u, "closing") /\ c \in user[u].todo
  /\ Snapshot(u, c)
  /\ UNCHANGED <<style, known, client, lock, procVars, panicked, due>>
AllClosed(u) ==
  /\ At(u, "closing") /\ user[u].todo = {}
  /\ GoTo(u, "closedAll")
  /\ UNCHANGED <<style, known, client, lock, procVars, panicked, crossed, due>>

UserStep(u) ==
  \/ CloseAll(u) \/ AllClosed(u)
  \/ \E c \in Clients :
       \/ Get(u, c) \/ EnsureReady(u, c) \/ Starts(u, c) \/ LaunchFails(u, c) \/ Launch(u, c)
       \/ Initialize(u, c) \/ InitFails(u, c) \/ SetRunning(u, c) \/ Panics(u, c)
       \/ KeepSession(u, c) \/ LeaveSession(u, c) \/ OpenSession(u, c) \/ AskSession(u, c)
       \/ Opened(u, c) \/ NotOpened(u, c)
       \/ Close(u, c) \/ CloseNext(u, c) \/ Kill(u, c) \/ Clear(u, c)

LifeNext == ~panicked /\ ((\E u \in Users : UserStep(u)) \/ (\E p \in Procs : AgentExits(p)))
LifeSpec == LifeInit /\ [][LifeNext]_lifeVars

-----------------------------------------------------------------------------
Pcs == {"idle", "lock", "launch", "init", "started", "session", "new", "wait", "kill", "clear",
        "closing", "closedAll"}

Fields(n) == [running : BOOLEAN, proc : 0..n, session : 0..n, told : 0..n]
Locals(n) == [pc : Pcs, on : SUBSET Clients, proc : 0..n, get : BOOLEAN, todo : SUBSET Registered]

\* The types of the variables; every process that was started has one client.
LifeTypeOK ==
  /\ style \in Styles /\ starts \in 0..MaxProcs /\ panicked \in BOOLEAN
  /\ known \in [Clients -> {"unmade", "table", "get", "held", "lost"}]
  /\ client \in [Clients -> Fields(starts)]
  /\ lock \in [Clients -> Users \cup {0}]
  /\ user \in [Users -> Locals(starts)]
  /\ home \in [Procs -> SUBSET Clients] /\ \A p \in 1..starts : \E c \in Clients : home[p] = {c}
  /\ alive \subseteq 1..starts /\ stopped \subseteq 1..starts
  /\ crossed \subseteq Clients /\ due \in [Users -> SUBSET (1..starts)]

(***************************************************************************)
(* A client that is not shut down while it is being made ready has at most *)
(* one process, its own: a restart or a failed start leaves no other behind*)
(* (client.go:291, 1139), running is never true without a process, and the *)
(* session it holds is one of that process (client.go:1150).               *)
(***************************************************************************)
OwnsItsAgent ==
  \A c \in Clients \ crossed :
    /\ client[c].running => client[c].proc # 0
    /\ \A p \in alive : home[p] = {c} => client[c].proc = p
    /\ client[c].session \in {0, client[c].proc}

(***************************************************************************)
(* "CloseAll shuts down all running agent processes": what ran when it was *)
(* called has ended when it returns.                                       *)
(***************************************************************************)
CloseAllClosesAll == \A u \in Users : At(u, "closedAll") => due[u] \cap alive = {}
=============================================================================
