------------------------- MODULE ClientManager_proofs -------------------------
(***************************************************************************)
(* Proofs about ClientManager, for any clients, goroutines and number of   *)
(* processes: the types of its variables, and that a client which is not   *)
(* shut down while it is being made ready owns its agent.  They are stated *)
(* of single steps, so that AgentRequests_proofs can use them for a client *)
(* whose readers run too.                                                  *)
(***************************************************************************)
EXTENDS ClientManager, TLAPS

USE ClientsAssumption, NoUserIsZero

-----------------------------------------------------------------------------
\* The inductive invariant.

\* A start that waits for initialize has a process.
InitHasProc == \A u \in Users : At(u, "init") => user[u].proc # 0

\* setupMu is held by who starts the process and sets up the session.
LockIsHeld ==
  \A u \in Users, c \in Clients, pc \in {"launch", "init", "started", "session"} :
    On(u, c, pc) => lock[c] = u

CrossingIsKnown == \A c \in Clients \ crossed : ~(Shutting(c) /\ Readying(c))

\* The process of a client is one it has started.
ProcIsHome == \A c \in Clients : client[c].proc # 0 => home[client[c].proc] = {c}

\* It has no other that runs.
ProcIsKnown(c) == \A p \in 1..starts : home[p] = {c} => client[c].proc = p \/ p \in stopped \ alive

\* A client that is not running has nothing, but for the process of a start under way.
Asleep(c) ==
  ~client[c].running =>
    /\ client[c].session = 0
    /\ client[c].proc # 0 => \E u \in Users : On(u, c, "init") \/ On(u, c, "started")

\* What the local variables of Start, NewSession and shutdown still say of the client.
LocalsAreTrue(c) ==
  \A u \in Users :
    /\ On(u, c, "launch") => ~client[c].running
    /\ On(u, c, "init") \/ On(u, c, "started") =>
         ~client[c].running /\ user[u].proc = client[c].proc /\ client[c].proc # 0
    /\ On(u, c, "new") \/ On(u, c, "wait") => client[c].running
    /\ On(u, c, "wait") => user[u].proc = client[c].proc
    /\ On(u, c, "kill") => client[c].proc \in {0, user[u].proc}
    /\ On(u, c, "clear") => client[c].proc = 0 \/ client[c].proc \in stopped \ alive

Whole(c) == /\ client[c].running => client[c].proc # 0
            /\ client[c].session \in {0, client[c].proc}
            /\ ProcIsKnown(c) /\ Asleep(c) /\ LocalsAreTrue(c)

LifeInv == /\ LifeTypeOK /\ InitHasProc /\ LockIsHeld /\ CrossingIsKnown /\ ProcIsHome
           /\ \A c \in Clients \ crossed : Whole(c)

-----------------------------------------------------------------------------
\* What a step does to the goroutine that makes it, to its client, and to the others.
Becomes(u, pc, on, proc) ==
  /\ user' \in [Users -> Locals(starts')]
  /\ \A v \in Users \ {u} : user'[v] = user[v]
  /\ user'[u].pc = pc /\ user'[u].on = on /\ user'[u].proc = proc
Shows(c, running, proc, session) ==
  /\ client' \in [Clients -> Fields(starts')]
  /\ \A d \in Clients \ {c} : client'[d] = client[d]
  /\ client'[c].running = running /\ client'[c].proc = proc /\ client'[c].session = session

Busy == {"lock", "launch", "init", "started", "session", "new", "wait", "kill", "clear"}
Locked == {"launch", "init", "started", "session"}

\* A step of goroutine u has to do with client c only: what LifeInv asks of it for all
\* other clients, and for the lock.
StepOf(u, c) ==
  /\ user[u].on = {c} \/ user[u].pc \notin Busy
  /\ user' \in [Users -> Locals(starts')] /\ \A v \in Users \ {u} : user'[v] = user[v]
  /\ user'[u].on = {c} \/ user'[u].pc \notin Busy
  /\ user'[u].pc = "init" => user'[u].proc # 0
  /\ user'[u].pc \in Locked => lock'[c] = u
  /\ client' \in [Clients -> Fields(starts')] /\ \A d \in Clients \ {c} : client'[d] = client[d]
  /\ client'[c].proc # 0 => home'[client'[c].proc] = {c}
  /\ lock' \in [Clients -> Users \cup {0}] /\ \A d \in Clients \ {c} : lock'[d] = lock[d]
  /\ lock[c] \in {0, u, lock'[c]}
  /\ style' = style /\ panicked' = panicked /\ due' = due
  /\ known' \in [Clients -> {"unmade", "table", "get", "held", "lost"}]
  /\ starts' \in 0..MaxProcs /\ starts <= starts'
  /\ home' \in [Procs -> SUBSET Clients]
  /\ \A p \in 1..starts' : home'[p] = IF p <= starts THEN home[p] ELSE {c}
  /\ alive' \subseteq 1..starts' /\ stopped' \subseteq 1..starts'
  /\ \A p \in 1..starts : p \in stopped \ alive => p \in stopped' \ alive'
  /\ crossed \subseteq crossed' /\ crossed' \subseteq crossed \cup {c}

LEMMA Typed ==
  ASSUME LifeInv
  PROVE  /\ starts \in Nat /\ starts <= MaxProcs /\ starts \in 0..MaxProcs
         /\ user \in [Users -> Locals(starts)] /\ client \in [Clients -> Fields(starts)]
         /\ lock \in [Clients -> Users \cup {0}] /\ home \in [Procs -> SUBSET Clients]
         /\ known \in [Clients -> {"unmade", "table", "get", "held", "lost"}]
         /\ alive \subseteq 1..starts /\ stopped \subseteq 1..starts
         /\ \A u \in Users : /\ user[u] \in Locals(starts) /\ user[u].proc \in 0..starts
                             /\ user[u].todo \in SUBSET Registered /\ user[u].pc \in Pcs
         /\ \A c \in Clients : /\ client[c] \in Fields(starts) /\ client[c].proc \in 0..starts
                               /\ client[c].session \in 0..starts /\ client[c].running \in BOOLEAN
<1>1. starts \in Nat /\ starts <= MaxProcs
  BY DEF LifeInv, LifeTypeOK
<1>2. user \in [Users -> Locals(starts)] /\ client \in [Clients -> Fields(starts)]
  BY DEF LifeInv, LifeTypeOK
<1>3. \A r \in Locals(starts) : r.proc \in 0..starts /\ r.todo \in SUBSET Registered /\ r.pc \in Pcs
  BY DEF Locals
<1>4. \A r \in Fields(starts) : r.proc \in 0..starts /\ r.session \in 0..starts /\ r.running \in BOOLEAN
  BY DEF Fields
<1> QED
  BY <1>1, <1>2, <1>3, <1>4 DEF LifeInv, LifeTypeOK

LEMMA IdleTyped ==
  ASSUME NEW n \in Nat
  PROVE  Idle \in Locals(n) /\ Idle.pc = "idle" /\ Idle.on = {} /\ Idle.proc = 0
BY DEF Locals, Idle, Pcs

LEMMA NewClientTyped ==
  ASSUME NEW n \in Nat
  PROVE  /\ NewClient \in Fields(n) /\ NewClient.running = FALSE
         /\ NewClient.proc = 0 /\ NewClient.session = 0
BY DEF Fields, NewClient

LEMMA UserBecomes ==
  ASSUME LifeInv, NEW u \in Users, NEW r \in Locals(starts'), starts' = starts,
         user' = [user EXCEPT ![u] = r]
  PROVE  Becomes(u, r.pc, r.on, r.proc)
BY Typed DEF Becomes

LEMMA ClientShows ==
  ASSUME LifeInv, NEW c \in Clients, NEW r \in Fields(starts'), starts' = starts,
         client' = [client EXCEPT ![c] = r]
  PROVE  Shows(c, r.running, r.proc, r.session)
BY Typed DEF Shows

LEMMA GoesTo ==
  ASSUME LifeInv, NEW u \in Users, NEW pc \in Pcs, starts' = starts, GoTo(u, pc)
  PROVE  Becomes(u, pc, user[u].on, user[u].proc)
<1> DEFINE r == [user[u] EXCEPT !.pc = pc]
<1>1. user[u] \in Locals(starts)
  BY Typed
<1>2. r \in Locals(starts') /\ r.pc = pc /\ r.on = user[u].on /\ r.proc = user[u].proc
  BY <1>1 DEF Locals
<1>3. user' = [user EXCEPT ![u] = r]
  BY DEF GoTo
<1> HIDE DEF r
<1>4. Becomes(u, r.pc, r.on, r.proc)
  BY <1>2, <1>3, UserBecomes
<1> QED
  BY <1>2, <1>4 DEF Becomes

LEMMA GoesIdle ==
  ASSUME LifeInv, NEW u \in Users, starts' = starts, user' = [user EXCEPT ![u] = Idle]
  PROVE  Becomes(u, "idle", {}, 0)
<1>1. Becomes(u, Idle.pc, Idle.on, Idle.proc) /\ Idle.pc = "idle" /\ Idle.on = {} /\ Idle.proc = 0
  BY Typed, IdleTyped, UserBecomes
<1> QED
  BY <1>1 DEF Becomes

LEMMA GoesToKill ==
  ASSUME LifeInv, NEW u \in Users, NEW c \in Clients, starts' = starts, Snapshot(u, c)
  PROVE  Becomes(u, "kill", {c}, client[c].proc)
<1> DEFINE r == [user[u] EXCEPT !.pc = "kill", !.on = {c}, !.proc = client[c].proc, !.todo = user[u].todo \ {c}]
<1>1. user[u] \in Locals(starts) /\ client[c].proc \in 0..starts
  BY Typed
<1>2. r \in Locals(starts') /\ r.pc = "kill" /\ r.on = {c} /\ r.proc = client[c].proc
  BY <1>1 DEF Locals, Pcs
<1>3. user' = [user EXCEPT ![u] = r]
  BY DEF Snapshot
<1> HIDE DEF r
<1>4. Becomes(u, r.pc, r.on, r.proc)
  BY <1>2, <1>3, UserBecomes
<1> QED
  BY <1>2, <1>4 DEF Becomes

LEMMA Crossed ==
  ASSUME NEW c \in Clients, NEW yes \in BOOLEAN, Crosses(c, yes)
  PROVE  /\ crossed \subseteq crossed' /\ crossed' \subseteq crossed \cup {c}
         /\ c \notin crossed' => ~yes
<1>1. CASE yes
  BY <1>1 DEF Crosses
<1>2. CASE ~yes
  BY <1>2 DEF Crosses
<1> QED
  BY <1>1, <1>2

-----------------------------------------------------------------------------
\* A step that nobody under way notices.
LEMMA Unnoticed ==
  ASSUME LifeInv, LifeTypeOK', lock' = lock, starts' = starts, home' = home, stopped' = stopped,
         crossed' = crossed, alive' \subseteq alive,
         \A v \in Users, q \in Busy, d \in Clients : On(v, d, q)' <=> On(v, d, q),
         \A v \in Users : user'[v].pc \in Busy => user'[v] = user[v],
         \A d \in Clients : /\ client'[d].running = client[d].running
                            /\ client'[d].proc = client[d].proc
                            /\ client'[d].session = client[d].session
  PROVE  LifeInv'
<1>1. InitHasProc'
  BY DEF LifeInv, InitHasProc, At, Busy
<1>2. LockIsHeld'
  BY DEF LifeInv, LockIsHeld, Busy
<1>3. CrossingIsKnown'
  BY DEF LifeInv, CrossingIsKnown, Shutting, Readying, Busy
<1>4. ProcIsHome'
  BY DEF LifeInv, ProcIsHome
<1>5. ASSUME NEW c \in Clients \ crossed PROVE Whole(c)'
  <2>1. Whole(c)
    BY DEF LifeInv
  <2>2. ProcIsKnown(c)'
    BY <2>1 DEF Whole, ProcIsKnown
  <2>3. Asleep(c)'
    BY <2>1 DEF Whole, Asleep, Busy
  <2>4. LocalsAreTrue(c)'
    BY <2>1 DEF Whole, LocalsAreTrue, Busy, On
  <2> QED
    BY <2>1, <2>2, <2>3, <2>4 DEF Whole
<1> QED
  BY <1>1, <1>2, <1>3, <1>4, <1>5 DEF LifeInv

\* The clients a step has nothing to do with.
LEMMA OthersKept ==
  ASSUME LifeInv, NEW u \in Users, NEW c \in Clients, StepOf(u, c), NEW d \in Clients \ crossed, d # c
  PROVE  Whole(d)' /\ ~(Shutting(d) /\ Readying(d))'
<1>1. \A v \in Users, q \in Busy : On(v, d, q)' <=> On(v, d, q)
  BY DEF On, StepOf
<1>2. \A v \in Users, q \in Busy : On(v, d, q) => user'[v] = user[v]
  BY DEF On, StepOf
<1>3. Whole(d) /\ client[d].proc \in 0..starts /\ starts \in Nat
  BY Typed DEF LifeInv
<1>4. /\ client'[d] = client[d] /\ lock'[d] = lock[d]
      /\ \A p \in 1..starts' : home'[p] = {d} => p \in 1..starts /\ home[p] = {d}
      /\ \A p \in 1..starts : p \in stopped \ alive => p \in stopped' \ alive'
  BY <1>3 DEF StepOf
<1>5. ProcIsKnown(d)'
  BY <1>3, <1>4 DEF ProcIsKnown, Whole
<1>6. Asleep(d)'
  BY <1>1, <1>3, <1>4 DEF Asleep, Whole, Busy
<1>7. LocalsAreTrue(d)'
  BY <1>1, <1>2, <1>3, <1>4 DEF LocalsAreTrue, Whole, Busy
<1>8. ~(Shutting(d) /\ Readying(d))'
  BY <1>1, <1>4 DEF LifeInv, CrossingIsKnown, Shutting, Readying, Busy
<1> QED
  BY <1>3, <1>4, <1>5, <1>6, <1>7, <1>8 DEF Whole

LEMMA StepKeeps ==
  ASSUME LifeInv, NEW u \in Users, NEW c \in Clients, StepOf(u, c),
         c \notin crossed' => Whole(c)' /\ ~(Shutting(c) /\ Readying(c))'
  PROVE  LifeInv'
<1>1. LifeTypeOK'
  <2>1. \A p \in 1..starts : \E d \in Clients : home[p] = {d}
    BY DEF LifeInv, LifeTypeOK
  <2>2. \A p \in 1..starts' : \E d \in Clients : home'[p] = {d}
    BY <2>1, Typed DEF StepOf
  <2>3. due' \in [Users -> SUBSET (1..starts')] /\ style' \in Styles /\ panicked' \in BOOLEAN
        /\ crossed' \subseteq Clients
    BY Typed DEF StepOf, LifeInv, LifeTypeOK
  <2> QED
    BY <2>2, <2>3 DEF StepOf, LifeTypeOK
<1>2. InitHasProc'
  BY DEF StepOf, LifeInv, InitHasProc, At
<1>3. LockIsHeld'
  <2> SUFFICES ASSUME NEW v \in Users, NEW d \in Clients, NEW pc \in Locked, On(v, d, pc)'
               PROVE  lock'[d] = v
    BY DEF LockIsHeld, Locked
  <2>1. CASE v = u
    BY <2>1 DEF On, StepOf, Locked, Busy
  <2>2. CASE v # u
    <3>1. On(v, d, pc)
      BY <2>2 DEF On, StepOf
    <3>2. lock[d] = v
      BY <3>1 DEF LifeInv, LockIsHeld, Locked
    <3> QED
      BY <2>2, <3>2 DEF StepOf
  <2> QED
    BY <2>1, <2>2
<1>4. ProcIsHome'
  <2>1. \A d \in Clients \ {c} : client[d].proc # 0 => client[d].proc \in 1..starts /\ home[client[d].proc] = {d}
    BY Typed DEF LifeInv, ProcIsHome
  <2>2. ASSUME NEW d \in Clients \ {c}, client'[d].proc # 0 PROVE home'[client'[d].proc] = {d}
    <3>1. client'[d] = client[d] /\ starts \in Nat /\ starts' \in Nat /\ starts <= starts'
          /\ \A p \in 1..starts' : p <= starts => home'[p] = home[p]
      BY Typed DEF StepOf
    <3> QED
      BY <2>1, <2>2, <3>1
  <2> QED
    BY <2>2 DEF StepOf, ProcIsHome
<1>5. \A d \in Clients \ crossed' : Whole(d)' /\ ~(Shutting(d) /\ Readying(d))'
  <2> SUFFICES ASSUME NEW d \in Clients \ crossed'
               PROVE  Whole(d)' /\ ~(Shutting(d) /\ Readying(d))'
    OBVIOUS
  <2>1. crossed \subseteq crossed'
    BY DEF StepOf
  <2>2. CASE d = c
    BY <2>2
  <2>3. CASE d # c
    <3>1. d \in Clients \ crossed
      BY <2>1
    <3> QED
      BY <2>3, <3>1, OthersKept
  <2> QED
    BY <2>2, <2>3
<1> QED
  BY <1>1, <1>2, <1>3, <1>4, <1>5 DEF LifeInv, CrossingIsKnown

-----------------------------------------------------------------------------
\* The steps of a goroutine on its client.
LEMMA GetKeeps ==
  ASSUME LifeInv, NEW u \in Users, NEW c \in Clients, Get(u, c)
  PROVE  LifeInv'
<1>1. starts' = starts
  BY DEF Get, procVars
<1>2. Becomes(u, "lock", {c}, 0)
  <2> DEFINE r == [Idle EXCEPT !.pc = "lock", !.on = {c}, !.get = TRUE]
  <2>1. Idle \in Locals(starts) /\ Idle.proc = 0
    BY Typed, IdleTyped
  <2>2. r \in Locals(starts') /\ r.pc = "lock" /\ r.on = {c} /\ r.proc = 0
    BY <1>1, <2>1 DEF Locals, Pcs, Get
  <2>3. user' = [user EXCEPT ![u] = r]
    BY DEF Get
  <2> HIDE DEF r
  <2>4. Becomes(u, r.pc, r.on, r.proc)
    BY <1>1, <2>2, <2>3, UserBecomes
  <2> QED
    BY <2>2, <2>4 DEF Becomes
<1>3. Shows(c, client[c].running, client[c].proc, client[c].session) /\ client' = client
  BY <1>1, Typed DEF Get, Shows
<1>5. StepOf(u, c)
  <2>1. /\ user[u].on = {c} \/ user[u].pc \notin Busy
        /\ user[u].proc \in 0..starts /\ (At(u, "init") => user[u].proc \in 1..starts)
        /\ On(u, c, "launch") \/ On(u, c, "init") \/ On(u, c, "started") \/ On(u, c, "session") => lock[c] = u
    BY Typed DEF Get, On, At, Busy, LifeInv, InitHasProc, LockIsHeld
  <2>2. client'[c].proc # 0 => home'[client'[c].proc] = {c}
    BY <1>1, <1>3, Typed DEF Get, procVars, Shows, LifeInv, ProcIsHome, Procs
  <2> QED
    BY <1>1, <1>2, <1>3, <2>1, <2>2, Typed
       DEF Get, StepOf, Becomes, Shows, Busy, Locked, At, On, procVars, Procs
<1>6. ASSUME c \notin crossed' PROVE Whole(c)' /\ ~(Shutting(c) /\ Readying(c))'
  <2>1. /\ Whole(c) /\ ~(Shutting(c) /\ Readying(c)) /\ client[c].proc \in 0..starts
        /\ user[u].proc \in 0..starts /\ starts \in Nat
    BY <1>5, <1>6, Typed DEF LifeInv, CrossingIsKnown, StepOf
  <2> USE <1>1, <1>2, <1>3, <1>6, <2>1 DEF Get, On, At, procVars, Becomes, Shows
  <2>2. ~(Shutting(c) /\ Readying(c))'
    BY Typed DEF LifeInv, Shutting, Readying, LockIsHeld
  <2> QED
    BY <2>2 DEF Whole, ProcIsKnown, Asleep, LocalsAreTrue, LifeInv, LockIsHeld, Shutting, Readying
<1> QED
  BY <1>5, <1>6, StepKeeps

LEMMA EnsureReadyKeeps ==
  ASSUME LifeInv, NEW u \in Users, NEW c \in Clients, EnsureReady(u, c)
  PROVE  LifeInv'
<1>1. starts' = starts
  BY DEF EnsureReady, procVars
<1>2. Becomes(u, "lock", {c}, 0)
  <2> DEFINE r == [Idle EXCEPT !.pc = "lock", !.on = {c}]
  <2>1. Idle \in Locals(starts) /\ Idle.proc = 0
    BY Typed, IdleTyped
  <2>2. r \in Locals(starts') /\ r.pc = "lock" /\ r.on = {c} /\ r.proc = 0
    BY <1>1, <2>1 DEF Locals, Pcs, EnsureReady
  <2>3. user' = [user EXCEPT ![u] = r]
    BY DEF EnsureReady
  <2> HIDE DEF r
  <2>4. Becomes(u, r.pc, r.on, r.proc)
    BY <1>1, <2>2, <2>3, UserBecomes
  <2> QED
    BY <2>2, <2>4 DEF Becomes
<1>3. Shows(c, client[c].running, client[c].proc, client[c].session) /\ client' = client
  BY <1>1, Typed DEF EnsureReady, Shows
<1>5. StepOf(u, c)
  <2>1. /\ user[u].on = {c} \/ user[u].pc \notin Busy
        /\ user[u].proc \in 0..starts /\ (At(u, "init") => user[u].proc \in 1..starts)
        /\ On(u, c, "launch") \/ On(u, c, "init") \/ On(u, c, "started") \/ On(u, c, "session") => lock[c] = u
    BY Typed DEF EnsureReady, On, At, Busy, LifeInv, InitHasProc, LockIsHeld
  <2>2. client'[c].proc # 0 => home'[client'[c].proc] = {c}
    BY <1>1, <1>3, Typed DEF EnsureReady, procVars, Shows, LifeInv, ProcIsHome, Procs
  <2> QED
    BY <1>1, <1>2, <1>3, <2>1, <2>2, Typed
       DEF EnsureReady, StepOf, Becomes, Shows, Busy, Locked, At, On, procVars, Procs
<1>6. ASSUME c \notin crossed' PROVE Whole(c)' /\ ~(Shutting(c) /\ Readying(c))'
  <2>1. /\ Whole(c) /\ ~(Shutting(c) /\ Readying(c)) /\ client[c].proc \in 0..starts
        /\ user[u].proc \in 0..starts /\ starts \in Nat
    BY <1>5, <1>6, Typed DEF LifeInv, CrossingIsKnown, StepOf
  <2> USE <1>1, <1>2, <1>3, <1>6, <2>1 DEF EnsureReady, On, At, procVars, Becomes, Shows
  <2>2. ~(Shutting(c) /\ Readying(c))'
    BY Typed DEF LifeInv, Shutting, Readying, LockIsHeld
  <2> QED
    BY <2>2 DEF Whole, ProcIsKnown, Asleep, LocalsAreTrue, LifeInv, LockIsHeld, Shutting, Readying
<1> QED
  BY <1>5, <1>6, StepKeeps

LEMMA Starts1Keeps ==
  ASSUME LifeInv, NEW u \in Users, NEW c \in Clients, Starts(u, c), client[c].running
  PROVE  LifeInv'
<1>1. starts' = starts
  BY DEF Starts, procVars
<1>2. Becomes(u, "session", {c}, user[u].proc)
  BY Typed, <1>1, GoesTo DEF Starts, On, Pcs
<1>3. Shows(c, client[c].running, client[c].proc, client[c].session) /\ client' = client
  BY <1>1, Typed DEF Starts, Shows
<1>4. crossed \subseteq crossed' /\ crossed' \subseteq crossed \cup {c} /\ (c \notin crossed' => ~Shutting(c))
  BY Crossed DEF Starts, Shutting
<1>5. StepOf(u, c)
  <2>1. /\ user[u].on = {c} \/ user[u].pc \notin Busy
        /\ user[u].proc \in 0..starts /\ (At(u, "init") => user[u].proc \in 1..starts)
        /\ On(u, c, "launch") \/ On(u, c, "init") \/ On(u, c, "started") \/ On(u, c, "session") => lock[c] = u
    BY Typed DEF Starts, On, At, Busy, LifeInv, InitHasProc, LockIsHeld
  <2>2. client'[c].proc # 0 => home'[client'[c].proc] = {c}
    BY <1>1, <1>3, Typed DEF Starts, procVars, Shows, LifeInv, ProcIsHome, Procs
  <2> QED
    BY <1>1, <1>2, <1>3, <1>4, <2>1, <2>2, Typed
       DEF Starts, StepOf, Becomes, Shows, Busy, Locked, At, On, procVars, Procs
<1>6. ASSUME c \notin crossed' PROVE Whole(c)' /\ ~(Shutting(c) /\ Readying(c))'
  <2>1. /\ Whole(c) /\ ~(Shutting(c) /\ Readying(c)) /\ client[c].proc \in 0..starts
        /\ user[u].proc \in 0..starts /\ starts \in Nat
    BY <1>4, <1>5, <1>6, Typed DEF LifeInv, CrossingIsKnown, StepOf
  <2> USE <1>1, <1>2, <1>3, <1>4, <1>6, <2>1 DEF Starts, On, At, procVars, Becomes, Shows
  <2>2. ~(Shutting(c) /\ Readying(c))'
    BY Typed DEF LifeInv, Shutting, Readying, LockIsHeld
  <2> QED
    BY <2>2 DEF Whole, ProcIsKnown, Asleep, LocalsAreTrue, LifeInv, LockIsHeld, Shutting, Readying
<1> QED
  BY <1>5, <1>6, StepKeeps

LEMMA Starts2Keeps ==
  ASSUME LifeInv, NEW u \in Users, NEW c \in Clients, Starts(u, c), ~client[c].running
  PROVE  LifeInv'
<1>1. starts' = starts
  BY DEF Starts, procVars
<1>2. Becomes(u, "launch", {c}, user[u].proc)
  BY Typed, <1>1, GoesTo DEF Starts, On, Pcs
<1>3. Shows(c, client[c].running, client[c].proc, client[c].session) /\ client' = client
  BY <1>1, Typed DEF Starts, Shows
<1>4. crossed \subseteq crossed' /\ crossed' \subseteq crossed \cup {c} /\ (c \notin crossed' => ~Shutting(c))
  BY Crossed DEF Starts, Shutting
<1>5. StepOf(u, c)
  <2>1. /\ user[u].on = {c} \/ user[u].pc \notin Busy
        /\ user[u].proc \in 0..starts /\ (At(u, "init") => user[u].proc \in 1..starts)
        /\ On(u, c, "launch") \/ On(u, c, "init") \/ On(u, c, "started") \/ On(u, c, "session") => lock[c] = u
    BY Typed DEF Starts, On, At, Busy, LifeInv, InitHasProc, LockIsHeld
  <2>2. client'[c].proc # 0 => home'[client'[c].proc] = {c}
    BY <1>1, <1>3, Typed DEF Starts, procVars, Shows, LifeInv, ProcIsHome, Procs
  <2> QED
    BY <1>1, <1>2, <1>3, <1>4, <2>1, <2>2, Typed
       DEF Starts, StepOf, Becomes, Shows, Busy, Locked, At, On, procVars, Procs
<1>6. ASSUME c \notin crossed' PROVE Whole(c)' /\ ~(Shutting(c) /\ Readying(c))'
  <2>1. /\ Whole(c) /\ ~(Shutting(c) /\ Readying(c)) /\ client[c].proc \in 0..starts
        /\ user[u].proc \in 0..starts /\ starts \in Nat
    BY <1>4, <1>5, <1>6, Typed DEF LifeInv, CrossingIsKnown, StepOf
  <2> USE <1>1, <1>2, <1>3, <1>4, <1>6, <2>1 DEF Starts, On, At, procVars, Becomes, Shows
  <2>2. ~(Shutting(c) /\ Readying(c))'
    BY Typed DEF LifeInv, Shutting, Readying, LockIsHeld
  <2> QED
    BY <2>2 DEF Whole, ProcIsKnown, Asleep, LocalsAreTrue, LifeInv, LockIsHeld, Shutting, Readying
<1> QED
  BY <1>5, <1>6, StepKeeps

LEMMA LaunchFailsKeeps ==
  ASSUME LifeInv, NEW u \in Users, NEW c \in Clients, LaunchFails(u, c)
  PROVE  LifeInv'
<1>1. starts' = starts
  BY DEF LaunchFails, procVars
<1>2. Becomes(u, "idle", {}, 0)
  BY <1>1, GoesIdle DEF LaunchFails, Returns
<1>3. Shows(c, client[c].running, client[c].proc, client[c].session) /\ client' = client
  BY <1>1, Typed DEF LaunchFails, Returns, Shows
<1>5. StepOf(u, c)
  <2>1. /\ user[u].on = {c} \/ user[u].pc \notin Busy
        /\ user[u].proc \in 0..starts /\ (At(u, "init") => user[u].proc \in 1..starts)
        /\ On(u, c, "launch") \/ On(u, c, "init") \/ On(u, c, "started") \/ On(u, c, "session") => lock[c] = u
    BY Typed DEF LaunchFails, Returns, On, At, Busy, LifeInv, InitHasProc, LockIsHeld
  <2>2. client'[c].proc # 0 => home'[client'[c].proc] = {c}
    BY <1>1, <1>3, Typed DEF LaunchFails, Returns, procVars, Shows, LifeInv, ProcIsHome, Procs
  <2> QED
    BY <1>1, <1>2, <1>3, <2>1, <2>2, Typed
       DEF LaunchFails, Returns, StepOf, Becomes, Shows, Busy, Locked, At, On, procVars, Procs
<1>6. ASSUME c \notin crossed' PROVE Whole(c)' /\ ~(Shutting(c) /\ Readying(c))'
  <2>1. /\ Whole(c) /\ ~(Shutting(c) /\ Readying(c)) /\ client[c].proc \in 0..starts
        /\ user[u].proc \in 0..starts /\ starts \in Nat
    BY <1>5, <1>6, Typed DEF LifeInv, CrossingIsKnown, StepOf
  <2> USE <1>1, <1>2, <1>3, <1>6, <2>1 DEF LaunchFails, Returns, On, At, procVars, Becomes, Shows
  <2>2. ~(Shutting(c) /\ Readying(c))'
    BY Typed DEF LifeInv, Shutting, Readying, LockIsHeld
  <2> QED
    BY <2>2 DEF Whole, ProcIsKnown, Asleep, LocalsAreTrue, LifeInv, LockIsHeld, Shutting, Readying
<1> QED
  BY <1>5, <1>6, StepKeeps

LEMMA Launch1Keeps ==
  ASSUME LifeInv, NEW u \in Users, NEW c \in Clients, Launch(u, c), style = "factory"
  PROVE  LifeInv'
<1>1. starts' = starts + 1 /\ starts + 1 \in Procs
  BY DEF Launch, procVars
<1>2. Becomes(u, "started", {c}, starts + 1)
  <2> DEFINE r == [user[u] EXCEPT !.proc = starts + 1, !.pc = "started"]
  <2>1. user[u] \in Locals(starts) /\ user[u].on = {c} /\ starts \in Nat /\ starts' = starts + 1
    BY Typed DEF Launch, On
  <2>2. r \in Locals(starts') /\ r.pc = "started" /\ r.on = {c} /\ r.proc = starts + 1
    <3>1. starts + 1 \in 0..starts' /\ user[u] \in Locals(starts')
      BY <2>1 DEF Locals
    <3> QED
      BY <2>1, <3>1 DEF Locals, Pcs
  <2>3. user' = [user EXCEPT ![u] = r]
    BY DEF Launch
  <2>4. \A l \in Locals(starts) : l \in Locals(starts')
    BY <2>1 DEF Locals
  <2> HIDE DEF r
  <2> QED
    BY <2>2, <2>3, <2>4, Typed DEF Becomes
<1>3. Shows(c, client[c].running, starts + 1, client[c].session)
  <2> DEFINE r == [client[c] EXCEPT !.proc = starts + 1]
  <2>1. client[c] \in Fields(starts) /\ starts \in Nat /\ starts' = starts + 1
    BY Typed DEF Launch
  <2>2. r \in Fields(starts') /\ r.running = client[c].running /\ r.proc = starts + 1 /\ r.session = client[c].session
    BY <2>1 DEF Fields
  <2>3. client' = [client EXCEPT ![c] = r]
    BY DEF Launch
  <2>4. \A l \in Fields(starts) : l \in Fields(starts')
    BY <2>1 DEF Fields
  <2> HIDE DEF r
  <2> QED
    BY <2>2, <2>3, <2>4, Typed DEF Shows
<1>5. StepOf(u, c)
  <2>1. /\ user[u].on = {c} \/ user[u].pc \notin Busy
        /\ user[u].proc \in 0..starts /\ (At(u, "init") => user[u].proc \in 1..starts)
        /\ On(u, c, "launch") \/ On(u, c, "init") \/ On(u, c, "started") \/ On(u, c, "session") => lock[c] = u
    BY Typed DEF Launch, On, At, Busy, LifeInv, InitHasProc, LockIsHeld
  <2>2. client'[c].proc # 0 => home'[client'[c].proc] = {c}
    BY <1>1, <1>3, Typed DEF Launch, procVars, Shows, LifeInv, ProcIsHome, Procs
  <2> QED
    BY <1>1, <1>2, <1>3, <2>1, <2>2, Typed
       DEF Launch, StepOf, Becomes, Shows, Busy, Locked, At, On, procVars, Procs
<1>6. ASSUME c \notin crossed' PROVE Whole(c)' /\ ~(Shutting(c) /\ Readying(c))'
  <2>1. /\ Whole(c) /\ ~(Shutting(c) /\ Readying(c)) /\ client[c].proc \in 0..starts
        /\ user[u].proc \in 0..starts /\ starts \in Nat
    BY <1>5, <1>6, Typed DEF LifeInv, CrossingIsKnown, StepOf
  <2> USE <1>1, <1>2, <1>3, <1>6, <2>1 DEF Launch, On, At, procVars, Becomes, Shows
  <2>2. ~(Shutting(c) /\ Readying(c))'
    BY Typed DEF LifeInv, Shutting, Readying, LockIsHeld
  <2>3. client[c].proc = 0
    BY DEF Whole, Asleep, LocalsAreTrue, LifeInv, LockIsHeld
  <2> QED
    BY <2>2, <2>3, Typed DEF Whole, ProcIsKnown, Asleep, LocalsAreTrue, LifeInv, LockIsHeld, Shutting, Readying, Procs
<1> QED
  BY <1>5, <1>6, StepKeeps

LEMMA Launch2Keeps ==
  ASSUME LifeInv, NEW u \in Users, NEW c \in Clients, Launch(u, c), style # "factory"
  PROVE  LifeInv'
<1>1. starts' = starts + 1 /\ starts + 1 \in Procs
  BY DEF Launch, procVars
<1>2. Becomes(u, "init", {c}, starts + 1)
  <2> DEFINE r == [user[u] EXCEPT !.proc = starts + 1, !.pc = "init"]
  <2>1. user[u] \in Locals(starts) /\ user[u].on = {c} /\ starts \in Nat /\ starts' = starts + 1
    BY Typed DEF Launch, On
  <2>2. r \in Locals(starts') /\ r.pc = "init" /\ r.on = {c} /\ r.proc = starts + 1
    <3>1. starts + 1 \in 0..starts' /\ user[u] \in Locals(starts')
      BY <2>1 DEF Locals
    <3> QED
      BY <2>1, <3>1 DEF Locals, Pcs
  <2>3. user' = [user EXCEPT ![u] = r]
    BY DEF Launch
  <2>4. \A l \in Locals(starts) : l \in Locals(starts')
    BY <2>1 DEF Locals
  <2> HIDE DEF r
  <2> QED
    BY <2>2, <2>3, <2>4, Typed DEF Becomes
<1>3. Shows(c, client[c].running, starts + 1, client[c].session)
  <2> DEFINE r == [client[c] EXCEPT !.proc = starts + 1]
  <2>1. client[c] \in Fields(starts) /\ starts \in Nat /\ starts' = starts + 1
    BY Typed DEF Launch
  <2>2. r \in Fields(starts') /\ r.running = client[c].running /\ r.proc = starts + 1 /\ r.session = client[c].session
    BY <2>1 DEF Fields
  <2>3. client' = [client EXCEPT ![c] = r]
    BY DEF Launch
  <2>4. \A l \in Fields(starts) : l \in Fields(starts')
    BY <2>1 DEF Fields
  <2> HIDE DEF r
  <2> QED
    BY <2>2, <2>3, <2>4, Typed DEF Shows
<1>5. StepOf(u, c)
  <2>1. /\ user[u].on = {c} \/ user[u].pc \notin Busy
        /\ user[u].proc \in 0..starts /\ (At(u, "init") => user[u].proc \in 1..starts)
        /\ On(u, c, "launch") \/ On(u, c, "init") \/ On(u, c, "started") \/ On(u, c, "session") => lock[c] = u
    BY Typed DEF Launch, On, At, Busy, LifeInv, InitHasProc, LockIsHeld
  <2>2. client'[c].proc # 0 => home'[client'[c].proc] = {c}
    BY <1>1, <1>3, Typed DEF Launch, procVars, Shows, LifeInv, ProcIsHome, Procs
  <2> QED
    BY <1>1, <1>2, <1>3, <2>1, <2>2, Typed
       DEF Launch, StepOf, Becomes, Shows, Busy, Locked, At, On, procVars, Procs
<1>6. ASSUME c \notin crossed' PROVE Whole(c)' /\ ~(Shutting(c) /\ Readying(c))'
  <2>1. /\ Whole(c) /\ ~(Shutting(c) /\ Readying(c)) /\ client[c].proc \in 0..starts
        /\ user[u].proc \in 0..starts /\ starts \in Nat
    BY <1>5, <1>6, Typed DEF LifeInv, CrossingIsKnown, StepOf
  <2> USE <1>1, <1>2, <1>3, <1>6, <2>1 DEF Launch, On, At, procVars, Becomes, Shows
  <2>2. ~(Shutting(c) /\ Readying(c))'
    BY Typed DEF LifeInv, Shutting, Readying, LockIsHeld
  <2>3. client[c].proc = 0
    BY DEF Whole, Asleep, LocalsAreTrue, LifeInv, LockIsHeld
  <2> QED
    BY <2>2, <2>3, Typed DEF Whole, ProcIsKnown, Asleep, LocalsAreTrue, LifeInv, LockIsHeld, Shutting, Readying, Procs
<1> QED
  BY <1>5, <1>6, StepKeeps

LEMMA InitializeKeeps ==
  ASSUME LifeInv, NEW u \in Users, NEW c \in Clients, Initialize(u, c)
  PROVE  LifeInv'
<1>1. starts' = starts
  BY DEF Initialize, procVars
<1>2. Becomes(u, "started", {c}, user[u].proc)
  BY Typed, <1>1, GoesTo DEF Initialize, On, Pcs
<1>3. Shows(c, client[c].running, client[c].proc, client[c].session) /\ client' = client
  BY <1>1, Typed DEF Initialize, Shows
<1>5. StepOf(u, c)
  <2>1. /\ user[u].on = {c} \/ user[u].pc \notin Busy
        /\ user[u].proc \in 0..starts /\ (At(u, "init") => user[u].proc \in 1..starts)
        /\ On(u, c, "launch") \/ On(u, c, "init") \/ On(u, c, "started") \/ On(u, c, "session") => lock[c] = u
    BY Typed DEF Initialize, On, At, Busy, LifeInv, InitHasProc, LockIsHeld
  <2>2. client'[c].proc # 0 => home'[client'[c].proc] = {c}
    BY <1>1, <1>3, Typed DEF Initialize, procVars, Shows, LifeInv, ProcIsHome, Procs
  <2> QED
    BY <1>1, <1>2, <1>3, <2>1, <2>2, Typed
       DEF Initialize, StepOf, Becomes, Shows, Busy, Locked, At, On, procVars, Procs
<1>6. ASSUME c \notin crossed' PROVE Whole(c)' /\ ~(Shutting(c) /\ Readying(c))'
  <2>1. /\ Whole(c) /\ ~(Shutting(c) /\ Readying(c)) /\ client[c].proc \in 0..starts
        /\ user[u].proc \in 0..starts /\ starts \in Nat
    BY <1>5, <1>6, Typed DEF LifeInv, CrossingIsKnown, StepOf
  <2> USE <1>1, <1>2, <1>3, <1>6, <2>1 DEF Initialize, On, At, procVars, Becomes, Shows
  <2>2. ~(Shutting(c) /\ Readying(c))'
    BY Typed DEF LifeInv, Shutting, Readying, LockIsHeld
  <2> QED
    BY <2>2 DEF Whole, ProcIsKnown, Asleep, LocalsAreTrue, LifeInv, LockIsHeld, Shutting, Readying
<1> QED
  BY <1>5, <1>6, StepKeeps

LEMMA InitFailsKeeps ==
  ASSUME LifeInv, NEW u \in Users, NEW c \in Clients, InitFails(u, c)
  PROVE  LifeInv'
<1>1. starts' = starts
  BY DEF InitFails, procVars
<1>2. Becomes(u, "idle", {}, 0)
  BY <1>1, GoesIdle DEF InitFails, Returns
<1>3. Shows(c, client[c].running, 0, client[c].session)
  <2> DEFINE r == [client[c] EXCEPT !.proc = 0]
  <2>1. r \in Fields(starts') /\ r.running = client[c].running /\ r.proc = 0 /\ r.session = client[c].session
    <3>1. client[c] \in Fields(starts) /\ user[u].proc \in 0..starts /\ 0 \in 0..starts
      BY Typed
    <3> QED
      BY <1>1, <3>1 DEF Fields
  <2>2. client' = [client EXCEPT ![c] = r]
    BY DEF InitFails
  <2> HIDE DEF r
  <2>3. Shows(c, r.running, r.proc, r.session)
    BY <1>1, <2>1, <2>2, ClientShows
  <2> QED
    BY <2>1, <2>3 DEF Shows
<1>5. StepOf(u, c)
  <2>1. /\ user[u].on = {c} \/ user[u].pc \notin Busy
        /\ user[u].proc \in 0..starts /\ (At(u, "init") => user[u].proc \in 1..starts)
        /\ On(u, c, "launch") \/ On(u, c, "init") \/ On(u, c, "started") \/ On(u, c, "session") => lock[c] = u
    BY Typed DEF InitFails, Returns, On, At, Busy, LifeInv, InitHasProc, LockIsHeld
  <2>2. client'[c].proc # 0 => home'[client'[c].proc] = {c}
    BY <1>1, <1>3, Typed DEF InitFails, Returns, procVars, Shows, LifeInv, ProcIsHome, Procs
  <2> QED
    BY <1>1, <1>2, <1>3, <2>1, <2>2, Typed
       DEF InitFails, Returns, StepOf, Becomes, Shows, Busy, Locked, At, On, procVars, Procs
<1>6. ASSUME c \notin crossed' PROVE Whole(c)' /\ ~(Shutting(c) /\ Readying(c))'
  <2>1. /\ Whole(c) /\ ~(Shutting(c) /\ Readying(c)) /\ client[c].proc \in 0..starts
        /\ user[u].proc \in 0..starts /\ starts \in Nat
    BY <1>5, <1>6, Typed DEF LifeInv, CrossingIsKnown, StepOf
  <2> USE <1>1, <1>2, <1>3, <1>6, <2>1 DEF InitFails, Returns, On, At, procVars, Becomes, Shows
  <2>2. ~(Shutting(c) /\ Readying(c))'
    BY Typed DEF LifeInv, Shutting, Readying, LockIsHeld
  <2> QED
    BY <2>2 DEF Whole, ProcIsKnown, Asleep, LocalsAreTrue, LifeInv, LockIsHeld, Shutting, Readying
<1> QED
  BY <1>5, <1>6, StepKeeps

LEMMA SetRunningKeeps ==
  ASSUME LifeInv, NEW u \in Users, NEW c \in Clients, SetRunning(u, c)
  PROVE  LifeInv'
<1>1. starts' = starts
  BY DEF SetRunning, procVars
<1>2. Becomes(u, "session", {c}, user[u].proc)
  BY Typed, <1>1, GoesTo DEF SetRunning, On, Pcs
<1>3. Shows(c, TRUE, client[c].proc, client[c].session)
  <2> DEFINE r == [client[c] EXCEPT !.running = TRUE]
  <2>1. r \in Fields(starts') /\ r.running = TRUE /\ r.proc = client[c].proc /\ r.session = client[c].session
    <3>1. client[c] \in Fields(starts) /\ user[u].proc \in 0..starts /\ 0 \in 0..starts
      BY Typed
    <3> QED
      BY <1>1, <3>1 DEF Fields
  <2>2. client' = [client EXCEPT ![c] = r]
    BY DEF SetRunning
  <2> HIDE DEF r
  <2>3. Shows(c, r.running, r.proc, r.session)
    BY <1>1, <2>1, <2>2, ClientShows
  <2> QED
    BY <2>1, <2>3 DEF Shows
<1>5. StepOf(u, c)
  <2>1. /\ user[u].on = {c} \/ user[u].pc \notin Busy
        /\ user[u].proc \in 0..starts /\ (At(u, "init") => user[u].proc \in 1..starts)
        /\ On(u, c, "launch") \/ On(u, c, "init") \/ On(u, c, "started") \/ On(u, c, "session") => lock[c] = u
    BY Typed DEF SetRunning, On, At, Busy, LifeInv, InitHasProc, LockIsHeld
  <2>2. client'[c].proc # 0 => home'[client'[c].proc] = {c}
    BY <1>1, <1>3, Typed DEF SetRunning, procVars, Shows, LifeInv, ProcIsHome, Procs
  <2> QED
    BY <1>1, <1>2, <1>3, <2>1, <2>2, Typed
       DEF SetRunning, StepOf, Becomes, Shows, Busy, Locked, At, On, procVars, Procs
<1>6. ASSUME c \notin crossed' PROVE Whole(c)' /\ ~(Shutting(c) /\ Readying(c))'
  <2>1. /\ Whole(c) /\ ~(Shutting(c) /\ Readying(c)) /\ client[c].proc \in 0..starts
        /\ user[u].proc \in 0..starts /\ starts \in Nat
    BY <1>5, <1>6, Typed DEF LifeInv, CrossingIsKnown, StepOf
  <2> USE <1>1, <1>2, <1>3, <1>6, <2>1 DEF SetRunning, On, At, procVars, Becomes, Shows
  <2>2. ~(Shutting(c) /\ Readying(c))'
    BY Typed DEF LifeInv, Shutting, Readying, LockIsHeld
  <2> QED
    BY <2>2 DEF Whole, ProcIsKnown, Asleep, LocalsAreTrue, LifeInv, LockIsHeld, Shutting, Readying
<1> QED
  BY <1>5, <1>6, StepKeeps

LEMMA KeepSessionKeeps ==
  ASSUME LifeInv, NEW u \in Users, NEW c \in Clients, KeepSession(u, c)
  PROVE  LifeInv'
<1>1. starts' = starts
  BY DEF KeepSession, procVars
<1>2. Becomes(u, "idle", {}, 0)
  BY <1>1, GoesIdle DEF KeepSession, Returns
<1>3. Shows(c, client[c].running, client[c].proc, client[c].session) /\ client' = client
  BY <1>1, Typed DEF KeepSession, Returns, Shows
<1>5. StepOf(u, c)
  <2>1. /\ user[u].on = {c} \/ user[u].pc \notin Busy
        /\ user[u].proc \in 0..starts /\ (At(u, "init") => user[u].proc \in 1..starts)
        /\ On(u, c, "launch") \/ On(u, c, "init") \/ On(u, c, "started") \/ On(u, c, "session") => lock[c] = u
    BY Typed DEF KeepSession, Returns, On, At, Busy, LifeInv, InitHasProc, LockIsHeld
  <2>2. client'[c].proc # 0 => home'[client'[c].proc] = {c}
    BY <1>1, <1>3, Typed DEF KeepSession, Returns, procVars, Shows, LifeInv, ProcIsHome, Procs
  <2> QED
    BY <1>1, <1>2, <1>3, <2>1, <2>2, Typed
       DEF KeepSession, Returns, StepOf, Becomes, Shows, Busy, Locked, At, On, procVars, Procs
<1>6. ASSUME c \notin crossed' PROVE Whole(c)' /\ ~(Shutting(c) /\ Readying(c))'
  <2>1. /\ Whole(c) /\ ~(Shutting(c) /\ Readying(c)) /\ client[c].proc \in 0..starts
        /\ user[u].proc \in 0..starts /\ starts \in Nat
    BY <1>5, <1>6, Typed DEF LifeInv, CrossingIsKnown, StepOf
  <2> USE <1>1, <1>2, <1>3, <1>6, <2>1 DEF KeepSession, Returns, On, At, procVars, Becomes, Shows
  <2>2. ~(Shutting(c) /\ Readying(c))'
    BY Typed DEF LifeInv, Shutting, Readying, LockIsHeld
  <2> QED
    BY <2>2 DEF Whole, ProcIsKnown, Asleep, LocalsAreTrue, LifeInv, LockIsHeld, Shutting, Readying
<1> QED
  BY <1>5, <1>6, StepKeeps

LEMMA LeaveSession1Keeps ==
  ASSUME LifeInv, NEW u \in Users, NEW c \in Clients, LeaveSession(u, c), style = "acp", client[c].running
  PROVE  LifeInv'
<1>1. starts' = starts
  BY DEF LeaveSession, procVars
<1>2. Becomes(u, "new", {c}, user[u].proc)
  BY Typed, <1>1, GoesTo DEF LeaveSession, Returns, On, Pcs
<1>3. Shows(c, client[c].running, client[c].proc, 0)
  <2> DEFINE r == [client[c] EXCEPT !.session = 0]
  <2>1. r \in Fields(starts') /\ r.running = client[c].running /\ r.proc = client[c].proc /\ r.session = 0
    <3>1. client[c] \in Fields(starts) /\ user[u].proc \in 0..starts /\ 0 \in 0..starts
      BY Typed
    <3> QED
      BY <1>1, <3>1 DEF Fields
  <2>2. client' = [client EXCEPT ![c] = r]
    BY DEF LeaveSession
  <2> HIDE DEF r
  <2>3. Shows(c, r.running, r.proc, r.session)
    BY <1>1, <2>1, <2>2, ClientShows
  <2> QED
    BY <2>1, <2>3 DEF Shows
<1>5. StepOf(u, c)
  <2>1. /\ user[u].on = {c} \/ user[u].pc \notin Busy
        /\ user[u].proc \in 0..starts /\ (At(u, "init") => user[u].proc \in 1..starts)
        /\ On(u, c, "launch") \/ On(u, c, "init") \/ On(u, c, "started") \/ On(u, c, "session") => lock[c] = u
    BY Typed DEF LeaveSession, Returns, On, At, Busy, LifeInv, InitHasProc, LockIsHeld
  <2>2. client'[c].proc # 0 => home'[client'[c].proc] = {c}
    BY <1>1, <1>3, Typed DEF LeaveSession, Returns, procVars, Shows, LifeInv, ProcIsHome, Procs
  <2>3. /\ known' \in [Clients -> {"unmade", "table", "get", "held", "lost"}]
        /\ style' = style /\ panicked' = panicked /\ due' = due
    BY Typed DEF LeaveSession, Returns
  <2>4. /\ lock' \in [Clients -> Users \cup {0}] /\ \A d \in Clients \ {c} : lock'[d] = lock[d]
        /\ lock[c] \in {0, u, lock'[c]} /\ (user'[u].pc \in Locked => lock'[c] = u)
    BY <1>2, <2>1, Typed DEF LeaveSession, Returns, On, Locked, Becomes
  <2> QED
    BY <1>1, <1>2, <1>3, <2>1, <2>2, <2>3, <2>4, Typed
       DEF LeaveSession, Returns, StepOf, Becomes, Shows, Busy, Locked, At, On, procVars, Procs
<1>6. ASSUME c \notin crossed' PROVE Whole(c)' /\ ~(Shutting(c) /\ Readying(c))'
  <2>1. /\ Whole(c) /\ ~(Shutting(c) /\ Readying(c)) /\ client[c].proc \in 0..starts
        /\ user[u].proc \in 0..starts /\ starts \in Nat
    BY <1>5, <1>6, Typed DEF LifeInv, CrossingIsKnown, StepOf
  <2> USE <1>1, <1>2, <1>3, <1>6, <2>1 DEF LeaveSession, Returns, On, At, procVars, Becomes, Shows
  <2>2. ~(Shutting(c) /\ Readying(c))'
    BY Typed DEF LifeInv, Shutting, Readying, LockIsHeld
  <2> QED
    BY <2>2 DEF Whole, ProcIsKnown, Asleep, LocalsAreTrue, LifeInv, LockIsHeld, Shutting, Readying
<1> QED
  BY <1>5, <1>6, StepKeeps

LEMMA LeaveSession2Keeps ==
  ASSUME LifeInv, NEW u \in Users, NEW c \in Clients, LeaveSession(u, c), ~(style = "acp" /\ client[c].running)
  PROVE  LifeInv'
<1>1. starts' = starts
  BY DEF LeaveSession, procVars
<1>2. Becomes(u, "idle", {}, 0)
  BY <1>1, GoesIdle DEF LeaveSession, Returns
<1>3. Shows(c, client[c].running, client[c].proc, 0)
  <2> DEFINE r == [client[c] EXCEPT !.session = 0]
  <2>1. r \in Fields(starts') /\ r.running = client[c].running /\ r.proc = client[c].proc /\ r.session = 0
    <3>1. client[c] \in Fields(starts) /\ user[u].proc \in 0..starts /\ 0 \in 0..starts
      BY Typed
    <3> QED
      BY <1>1, <3>1 DEF Fields
  <2>2. client' = [client EXCEPT ![c] = r]
    BY DEF LeaveSession
  <2> HIDE DEF r
  <2>3. Shows(c, r.running, r.proc, r.session)
    BY <1>1, <2>1, <2>2, ClientShows
  <2> QED
    BY <2>1, <2>3 DEF Shows
<1>5. StepOf(u, c)
  <2>1. /\ user[u].on = {c} \/ user[u].pc \notin Busy
        /\ user[u].proc \in 0..starts /\ (At(u, "init") => user[u].proc \in 1..starts)
        /\ On(u, c, "launch") \/ On(u, c, "init") \/ On(u, c, "started") \/ On(u, c, "session") => lock[c] = u
    BY Typed DEF LeaveSession, Returns, On, At, Busy, LifeInv, InitHasProc, LockIsHeld
  <2>2. client'[c].proc # 0 => home'[client'[c].proc] = {c}
    BY <1>1, <1>3, Typed DEF LeaveSession, Returns, procVars, Shows, LifeInv, ProcIsHome, Procs
  <2>3. /\ known' \in [Clients -> {"unmade", "table", "get", "held", "lost"}]
        /\ style' = style /\ panicked' = panicked /\ due' = due
    BY Typed DEF LeaveSession, Returns
  <2>4. /\ lock' \in [Clients -> Users \cup {0}] /\ \A d \in Clients \ {c} : lock'[d] = lock[d]
        /\ lock[c] \in {0, u, lock'[c]} /\ (user'[u].pc \in Locked => lock'[c] = u)
    BY <1>2, <2>1, Typed DEF LeaveSession, Returns, On, Locked, Becomes
  <2> QED
    BY <1>1, <1>2, <1>3, <2>1, <2>2, <2>3, <2>4, Typed
       DEF LeaveSession, Returns, StepOf, Becomes, Shows, Busy, Locked, At, On, procVars, Procs
<1>6. ASSUME c \notin crossed' PROVE Whole(c)' /\ ~(Shutting(c) /\ Readying(c))'
  <2>1. /\ Whole(c) /\ ~(Shutting(c) /\ Readying(c)) /\ client[c].proc \in 0..starts
        /\ user[u].proc \in 0..starts /\ starts \in Nat
    BY <1>5, <1>6, Typed DEF LifeInv, CrossingIsKnown, StepOf
  <2> USE <1>1, <1>2, <1>3, <1>6, <2>1 DEF LeaveSession, Returns, On, At, procVars, Becomes, Shows
  <2>2. ~(Shutting(c) /\ Readying(c))'
    BY Typed DEF LifeInv, Shutting, Readying, LockIsHeld
  <2> QED
    BY <2>2 DEF Whole, ProcIsKnown, Asleep, LocalsAreTrue, LifeInv, LockIsHeld, Shutting, Readying
<1> QED
  BY <1>5, <1>6, StepKeeps

LEMMA OpenSessionKeeps ==
  ASSUME LifeInv, NEW u \in Users, NEW c \in Clients, OpenSession(u, c)
  PROVE  LifeInv'
<1>1. starts' = starts
  BY DEF OpenSession, procVars
<1>2. Becomes(u, "new", {c}, user[u].proc)
  <2> DEFINE r == [user[u] EXCEPT !.pc = "new", !.on = {c}]
  <2>1. user[u] \in Locals(starts) /\ client[c].proc \in 0..starts
    BY Typed
  <2>2. r \in Locals(starts') /\ r.pc = "new" /\ r.on = {c} /\ r.proc = user[u].proc
    BY <1>1, <2>1 DEF Locals, Pcs, OpenSession
  <2>3. user' = [user EXCEPT ![u] = r]
    BY DEF OpenSession
  <2> HIDE DEF r
  <2>4. Becomes(u, r.pc, r.on, r.proc)
    BY <1>1, <2>2, <2>3, UserBecomes
  <2> QED
    BY <2>2, <2>4 DEF Becomes
<1>3. Shows(c, client[c].running, client[c].proc, client[c].session) /\ client' = client
  BY <1>1, Typed DEF OpenSession, Shows
<1>4. crossed \subseteq crossed' /\ crossed' \subseteq crossed \cup {c} /\ (c \notin crossed' => ~Shutting(c))
  BY Crossed DEF OpenSession, Shutting
<1>5. StepOf(u, c)
  <2>1. /\ user[u].on = {c} \/ user[u].pc \notin Busy
        /\ user[u].proc \in 0..starts /\ (At(u, "init") => user[u].proc \in 1..starts)
        /\ On(u, c, "launch") \/ On(u, c, "init") \/ On(u, c, "started") \/ On(u, c, "session") => lock[c] = u
    BY Typed DEF OpenSession, On, At, Busy, LifeInv, InitHasProc, LockIsHeld
  <2>2. client'[c].proc # 0 => home'[client'[c].proc] = {c}
    BY <1>1, <1>3, Typed DEF OpenSession, procVars, Shows, LifeInv, ProcIsHome, Procs
  <2> QED
    BY <1>1, <1>2, <1>3, <1>4, <2>1, <2>2, Typed
       DEF OpenSession, StepOf, Becomes, Shows, Busy, Locked, At, On, procVars, Procs
<1>6. ASSUME c \notin crossed' PROVE Whole(c)' /\ ~(Shutting(c) /\ Readying(c))'
  <2>1. /\ Whole(c) /\ ~(Shutting(c) /\ Readying(c)) /\ client[c].proc \in 0..starts
        /\ user[u].proc \in 0..starts /\ starts \in Nat
    BY <1>4, <1>5, <1>6, Typed DEF LifeInv, CrossingIsKnown, StepOf
  <2> USE <1>1, <1>2, <1>3, <1>4, <1>6, <2>1 DEF OpenSession, On, At, procVars, Becomes, Shows
  <2>2. ~(Shutting(c) /\ Readying(c))'
    BY Typed DEF LifeInv, Shutting, Readying, LockIsHeld
  <2> QED
    BY <2>2 DEF Whole, ProcIsKnown, Asleep, LocalsAreTrue, LifeInv, LockIsHeld, Shutting, Readying
<1> QED
  BY <1>5, <1>6, StepKeeps

LEMMA AskSessionKeeps ==
  ASSUME LifeInv, NEW u \in Users, NEW c \in Clients, AskSession(u, c)
  PROVE  LifeInv'
<1>1. starts' = starts
  BY DEF AskSession, procVars
<1>2. Becomes(u, "wait", {c}, client[c].proc)
  <2> DEFINE r == [user[u] EXCEPT !.pc = "wait", !.proc = client[c].proc]
  <2>1. user[u] \in Locals(starts) /\ client[c].proc \in 0..starts
    BY Typed
  <2>2. r \in Locals(starts') /\ r.pc = "wait" /\ r.on = {c} /\ r.proc = client[c].proc
    BY <1>1, <2>1 DEF Locals, Pcs, AskSession, On
  <2>3. user' = [user EXCEPT ![u] = r]
    BY DEF AskSession, On
  <2> HIDE DEF r
  <2>4. Becomes(u, r.pc, r.on, r.proc)
    BY <1>1, <2>2, <2>3, UserBecomes
  <2> QED
    BY <2>2, <2>4 DEF Becomes
<1>3. Shows(c, client[c].running, client[c].proc, client[c].session) /\ client' = client
  BY <1>1, Typed DEF AskSession, Shows
<1>5. StepOf(u, c)
  <2>1. /\ user[u].on = {c} \/ user[u].pc \notin Busy
        /\ user[u].proc \in 0..starts /\ (At(u, "init") => user[u].proc \in 1..starts)
        /\ On(u, c, "launch") \/ On(u, c, "init") \/ On(u, c, "started") \/ On(u, c, "session") => lock[c] = u
    BY Typed DEF AskSession, On, At, Busy, LifeInv, InitHasProc, LockIsHeld
  <2>2. client'[c].proc # 0 => home'[client'[c].proc] = {c}
    BY <1>1, <1>3, Typed DEF AskSession, procVars, Shows, LifeInv, ProcIsHome, Procs
  <2> QED
    BY <1>1, <1>2, <1>3, <2>1, <2>2, Typed
       DEF AskSession, StepOf, Becomes, Shows, Busy, Locked, At, On, procVars, Procs
<1>6. ASSUME c \notin crossed' PROVE Whole(c)' /\ ~(Shutting(c) /\ Readying(c))'
  <2>1. /\ Whole(c) /\ ~(Shutting(c) /\ Readying(c)) /\ client[c].proc \in 0..starts
        /\ user[u].proc \in 0..starts /\ starts \in Nat
    BY <1>5, <1>6, Typed DEF LifeInv, CrossingIsKnown, StepOf
  <2> USE <1>1, <1>2, <1>3, <1>6, <2>1 DEF AskSession, On, At, procVars, Becomes, Shows
  <2>2. ~(Shutting(c) /\ Readying(c))'
    BY Typed DEF LifeInv, Shutting, Readying, LockIsHeld
  <2> QED
    BY <2>2 DEF Whole, ProcIsKnown, Asleep, LocalsAreTrue, LifeInv, LockIsHeld, Shutting, Readying
<1> QED
  BY <1>5, <1>6, StepKeeps

LEMMA OpenedKeeps ==
  ASSUME LifeInv, NEW u \in Users, NEW c \in Clients, Opened(u, c)
  PROVE  LifeInv'
<1>1. starts' = starts
  BY DEF Opened, procVars
<1>2. Becomes(u, "idle", {}, 0)
  BY <1>1, GoesIdle DEF Opened, Returns
<1>3. Shows(c, client[c].running, client[c].proc, user[u].proc)
  <2> DEFINE r == [client[c] EXCEPT !.session = user[u].proc]
  <2>1. r \in Fields(starts') /\ r.running = client[c].running /\ r.proc = client[c].proc /\ r.session = user[u].proc
    <3>1. client[c] \in Fields(starts) /\ user[u].proc \in 0..starts /\ 0 \in 0..starts
      BY Typed
    <3> QED
      BY <1>1, <3>1 DEF Fields
  <2>2. client' = [client EXCEPT ![c] = r]
    BY DEF Opened
  <2> HIDE DEF r
  <2>3. Shows(c, r.running, r.proc, r.session)
    BY <1>1, <2>1, <2>2, ClientShows
  <2> QED
    BY <2>1, <2>3 DEF Shows
<1>5. StepOf(u, c)
  <2>1. /\ user[u].on = {c} \/ user[u].pc \notin Busy
        /\ user[u].proc \in 0..starts /\ (At(u, "init") => user[u].proc \in 1..starts)
        /\ On(u, c, "launch") \/ On(u, c, "init") \/ On(u, c, "started") \/ On(u, c, "session") => lock[c] = u
    BY Typed DEF Opened, Returns, On, At, Busy, LifeInv, InitHasProc, LockIsHeld
  <2>2. client'[c].proc # 0 => home'[client'[c].proc] = {c}
    BY <1>1, <1>3, Typed DEF Opened, Returns, procVars, Shows, LifeInv, ProcIsHome, Procs
  <2> QED
    BY <1>1, <1>2, <1>3, <2>1, <2>2, Typed
       DEF Opened, Returns, StepOf, Becomes, Shows, Busy, Locked, At, On, procVars, Procs
<1>6. ASSUME c \notin crossed' PROVE Whole(c)' /\ ~(Shutting(c) /\ Readying(c))'
  <2>1. /\ Whole(c) /\ ~(Shutting(c) /\ Readying(c)) /\ client[c].proc \in 0..starts
        /\ user[u].proc \in 0..starts /\ starts \in Nat
    BY <1>5, <1>6, Typed DEF LifeInv, CrossingIsKnown, StepOf
  <2> USE <1>1, <1>2, <1>3, <1>6, <2>1 DEF Opened, Returns, On, At, procVars, Becomes, Shows
  <2>2. ~(Shutting(c) /\ Readying(c))'
    BY Typed DEF LifeInv, Shutting, Readying, LockIsHeld
  <2> QED
    BY <2>2 DEF Whole, ProcIsKnown, Asleep, LocalsAreTrue, LifeInv, LockIsHeld, Shutting, Readying
<1> QED
  BY <1>5, <1>6, StepKeeps

LEMMA NotOpenedKeeps ==
  ASSUME LifeInv, NEW u \in Users, NEW c \in Clients, NotOpened(u, c)
  PROVE  LifeInv'
<1>1. starts' = starts
  BY DEF NotOpened, procVars
<1>2. Becomes(u, "idle", {}, 0)
  BY <1>1, GoesIdle DEF NotOpened, Returns
<1>3. Shows(c, client[c].running, client[c].proc, client[c].session) /\ client' = client
  BY <1>1, Typed DEF NotOpened, Returns, Shows
<1>5. StepOf(u, c)
  <2>1. /\ user[u].on = {c} \/ user[u].pc \notin Busy
        /\ user[u].proc \in 0..starts /\ (At(u, "init") => user[u].proc \in 1..starts)
        /\ On(u, c, "launch") \/ On(u, c, "init") \/ On(u, c, "started") \/ On(u, c, "session") => lock[c] = u
    BY Typed DEF NotOpened, Returns, On, At, Busy, LifeInv, InitHasProc, LockIsHeld
  <2>2. client'[c].proc # 0 => home'[client'[c].proc] = {c}
    BY <1>1, <1>3, Typed DEF NotOpened, Returns, procVars, Shows, LifeInv, ProcIsHome, Procs
  <2> QED
    BY <1>1, <1>2, <1>3, <2>1, <2>2, Typed
       DEF NotOpened, Returns, StepOf, Becomes, Shows, Busy, Locked, At, On, procVars, Procs
<1>6. ASSUME c \notin crossed' PROVE Whole(c)' /\ ~(Shutting(c) /\ Readying(c))'
  <2>1. /\ Whole(c) /\ ~(Shutting(c) /\ Readying(c)) /\ client[c].proc \in 0..starts
        /\ user[u].proc \in 0..starts /\ starts \in Nat
    BY <1>5, <1>6, Typed DEF LifeInv, CrossingIsKnown, StepOf
  <2> USE <1>1, <1>2, <1>3, <1>6, <2>1 DEF NotOpened, Returns, On, At, procVars, Becomes, Shows
  <2>2. ~(Shutting(c) /\ Readying(c))'
    BY Typed DEF LifeInv, Shutting, Readying, LockIsHeld
  <2> QED
    BY <2>2 DEF Whole, ProcIsKnown, Asleep, LocalsAreTrue, LifeInv, LockIsHeld, Shutting, Readying
<1> QED
  BY <1>5, <1>6, StepKeeps

LEMMA CloseKeeps ==
  ASSUME LifeInv, NEW u \in Users, NEW c \in Clients, Close(u, c)
  PROVE  LifeInv'
<1>1. starts' = starts
  BY DEF Close, procVars
<1>2. Becomes(u, "kill", {c}, client[c].proc)
  BY <1>1, GoesToKill DEF Close
<1>3. Shows(c, client[c].running, client[c].proc, client[c].session) /\ client' = client
  BY <1>1, Typed DEF Close, Snapshot, Shows
<1>4. crossed \subseteq crossed' /\ crossed' \subseteq crossed \cup {c} /\ (c \notin crossed' => ~Readying(c))
  BY Crossed DEF Close, Snapshot, Readying
<1>5. StepOf(u, c)
  <2>1. /\ user[u].on = {c} \/ user[u].pc \notin Busy
        /\ user[u].proc \in 0..starts /\ (At(u, "init") => user[u].proc \in 1..starts)
        /\ On(u, c, "launch") \/ On(u, c, "init") \/ On(u, c, "started") \/ On(u, c, "session") => lock[c] = u
    BY Typed DEF Close, Snapshot, On, At, Busy, LifeInv, InitHasProc, LockIsHeld
  <2>2. client'[c].proc # 0 => home'[client'[c].proc] = {c}
    BY <1>1, <1>3, Typed DEF Close, Snapshot, procVars, Shows, LifeInv, ProcIsHome, Procs
  <2> QED
    BY <1>1, <1>2, <1>3, <1>4, <2>1, <2>2, Typed
       DEF Close, Snapshot, StepOf, Becomes, Shows, Busy, Locked, At, On, procVars, Procs
<1>6. ASSUME c \notin crossed' PROVE Whole(c)' /\ ~(Shutting(c) /\ Readying(c))'
  <2>1. /\ Whole(c) /\ ~(Shutting(c) /\ Readying(c)) /\ client[c].proc \in 0..starts
        /\ user[u].proc \in 0..starts /\ starts \in Nat
    BY <1>4, <1>5, <1>6, Typed DEF LifeInv, CrossingIsKnown, StepOf
  <2> USE <1>1, <1>2, <1>3, <1>4, <1>6, <2>1 DEF Close, Snapshot, On, At, procVars, Becomes, Shows
  <2>2. ~(Shutting(c) /\ Readying(c))'
    BY Typed DEF LifeInv, Shutting, Readying, LockIsHeld
  <2> QED
    BY <2>2 DEF Whole, ProcIsKnown, Asleep, LocalsAreTrue, LifeInv, LockIsHeld, Shutting, Readying
<1> QED
  BY <1>5, <1>6, StepKeeps

LEMMA CloseNextKeeps ==
  ASSUME LifeInv, NEW u \in Users, NEW c \in Clients, CloseNext(u, c)
  PROVE  LifeInv'
<1>1. starts' = starts
  BY DEF CloseNext, procVars
<1>2. Becomes(u, "kill", {c}, client[c].proc)
  BY <1>1, GoesToKill DEF CloseNext
<1>3. Shows(c, client[c].running, client[c].proc, client[c].session) /\ client' = client
  BY <1>1, Typed DEF CloseNext, Snapshot, Shows
<1>4. crossed \subseteq crossed' /\ crossed' \subseteq crossed \cup {c} /\ (c \notin crossed' => ~Readying(c))
  BY Crossed DEF CloseNext, Snapshot, Readying
<1>5. StepOf(u, c)
  <2>1. /\ user[u].on = {c} \/ user[u].pc \notin Busy
        /\ user[u].proc \in 0..starts /\ (At(u, "init") => user[u].proc \in 1..starts)
        /\ On(u, c, "launch") \/ On(u, c, "init") \/ On(u, c, "started") \/ On(u, c, "session") => lock[c] = u
    BY Typed DEF CloseNext, Snapshot, On, At, Busy, LifeInv, InitHasProc, LockIsHeld
  <2>2. client'[c].proc # 0 => home'[client'[c].proc] = {c}
    BY <1>1, <1>3, Typed DEF CloseNext, Snapshot, procVars, Shows, LifeInv, ProcIsHome, Procs
  <2> QED
    BY <1>1, <1>2, <1>3, <1>4, <2>1, <2>2, Typed
       DEF CloseNext, Snapshot, StepOf, Becomes, Shows, Busy, Locked, At, On, procVars, Procs
<1>6. ASSUME c \notin crossed' PROVE Whole(c)' /\ ~(Shutting(c) /\ Readying(c))'
  <2>1. /\ Whole(c) /\ ~(Shutting(c) /\ Readying(c)) /\ client[c].proc \in 0..starts
        /\ user[u].proc \in 0..starts /\ starts \in Nat
    BY <1>4, <1>5, <1>6, Typed DEF LifeInv, CrossingIsKnown, StepOf
  <2> USE <1>1, <1>2, <1>3, <1>4, <1>6, <2>1 DEF CloseNext, Snapshot, On, At, procVars, Becomes, Shows
  <2>2. ~(Shutting(c) /\ Readying(c))'
    BY Typed DEF LifeInv, Shutting, Readying, LockIsHeld
  <2> QED
    BY <2>2 DEF Whole, ProcIsKnown, Asleep, LocalsAreTrue, LifeInv, LockIsHeld, Shutting, Readying
<1> QED
  BY <1>5, <1>6, StepKeeps

LEMMA KillKeeps ==
  ASSUME LifeInv, NEW u \in Users, NEW c \in Clients, Kill(u, c)
  PROVE  LifeInv'
<1>1. starts' = starts
  BY DEF Kill, procVars
<1>2. Becomes(u, "clear", {c}, user[u].proc)
  BY Typed, <1>1, GoesTo DEF Kill, On, Pcs
<1>3. Shows(c, client[c].running, client[c].proc, client[c].session) /\ client' = client
  BY <1>1, Typed DEF Kill, Shows
<1>5. StepOf(u, c)
  <2>1. /\ user[u].on = {c} \/ user[u].pc \notin Busy
        /\ user[u].proc \in 0..starts /\ (At(u, "init") => user[u].proc \in 1..starts)
        /\ On(u, c, "launch") \/ On(u, c, "init") \/ On(u, c, "started") \/ On(u, c, "session") => lock[c] = u
    BY Typed DEF Kill, On, At, Busy, LifeInv, InitHasProc, LockIsHeld
  <2>2. client'[c].proc # 0 => home'[client'[c].proc] = {c}
    BY <1>1, <1>3, Typed DEF Kill, procVars, Shows, LifeInv, ProcIsHome, Procs
  <2> QED
    BY <1>1, <1>2, <1>3, <2>1, <2>2, Typed
       DEF Kill, StepOf, Becomes, Shows, Busy, Locked, At, On, procVars, Procs
<1>6. ASSUME c \notin crossed' PROVE Whole(c)' /\ ~(Shutting(c) /\ Readying(c))'
  <2>1. /\ Whole(c) /\ ~(Shutting(c) /\ Readying(c)) /\ client[c].proc \in 0..starts
        /\ user[u].proc \in 0..starts /\ starts \in Nat
    BY <1>5, <1>6, Typed DEF LifeInv, CrossingIsKnown, StepOf
  <2> USE <1>1, <1>2, <1>3, <1>6, <2>1 DEF Kill, On, At, procVars, Becomes, Shows
  <2>2. ~(Shutting(c) /\ Readying(c))'
    BY Typed DEF LifeInv, Shutting, Readying, LockIsHeld
  <2> QED
    BY <2>2 DEF Whole, ProcIsKnown, Asleep, LocalsAreTrue, LifeInv, LockIsHeld, Shutting, Readying
<1> QED
  BY <1>5, <1>6, StepKeeps

LEMMA Clear1Keeps ==
  ASSUME LifeInv, NEW u \in Users, NEW c \in Clients, Clear(u, c), c \notin Registered
  PROVE  LifeInv'
<1>1. starts' = starts
  BY DEF Clear, procVars
<1>2. Becomes(u, "idle", {}, 0)
  BY <1>1, GoesIdle DEF Clear
<1>3. Shows(c, FALSE, 0, 0)
  <2>1. Shows(c, NewClient.running, NewClient.proc, NewClient.session)
    BY <1>1, Typed, NewClientTyped, ClientShows DEF Clear
  <2> QED
    BY <2>1, Typed, NewClientTyped DEF Shows
<1>5. StepOf(u, c)
  <2>1. /\ user[u].on = {c} \/ user[u].pc \notin Busy
        /\ user[u].proc \in 0..starts /\ (At(u, "init") => user[u].proc \in 1..starts)
        /\ On(u, c, "launch") \/ On(u, c, "init") \/ On(u, c, "started") \/ On(u, c, "session") => lock[c] = u
    BY Typed DEF Clear, On, At, Busy, LifeInv, InitHasProc, LockIsHeld
  <2>2. client'[c].proc # 0 => home'[client'[c].proc] = {c}
    BY <1>1, <1>3, Typed DEF Clear, procVars, Shows, LifeInv, ProcIsHome, Procs
  <2> QED
    BY <1>1, <1>2, <1>3, <2>1, <2>2, Typed
       DEF Clear, StepOf, Becomes, Shows, Busy, Locked, At, On, procVars, Procs
<1>6. ASSUME c \notin crossed' PROVE Whole(c)' /\ ~(Shutting(c) /\ Readying(c))'
  <2>1. /\ Whole(c) /\ ~(Shutting(c) /\ Readying(c)) /\ client[c].proc \in 0..starts
        /\ user[u].proc \in 0..starts /\ starts \in Nat
    BY <1>5, <1>6, Typed DEF LifeInv, CrossingIsKnown, StepOf
  <2> USE <1>1, <1>2, <1>3, <1>6, <2>1 DEF Clear, On, At, procVars, Becomes, Shows
  <2>2. ~(Shutting(c) /\ Readying(c))'
    BY Typed DEF LifeInv, Shutting, Readying, LockIsHeld
  <2> QED
    BY <2>2 DEF Whole, ProcIsKnown, Asleep, LocalsAreTrue, LifeInv, LockIsHeld, Shutting, Readying
<1> QED
  BY <1>5, <1>6, StepKeeps

LEMMA Clear2Keeps ==
  ASSUME LifeInv, NEW u \in Users, NEW c \in Clients, Clear(u, c), c \in Registered
  PROVE  LifeInv'
<1>1. starts' = starts
  BY DEF Clear, procVars
<1>2. Becomes(u, "closing", {}, 0)
  <2> DEFINE r == [Idle EXCEPT !.pc = "closing", !.todo = user[u].todo]
  <2>1. Idle \in Locals(starts) /\ Idle.proc = 0 /\ Idle.on = {} /\ user[u].todo \in SUBSET Registered
    BY Typed, IdleTyped
  <2>2. r \in Locals(starts') /\ r.pc = "closing" /\ r.on = {} /\ r.proc = 0
    BY <1>1, <2>1 DEF Locals, Pcs
  <2>3. user' = [user EXCEPT ![u] = r]
    BY DEF Clear
  <2> HIDE DEF r
  <2>4. Becomes(u, r.pc, r.on, r.proc)
    BY <1>1, <2>2, <2>3, UserBecomes
  <2> QED
    BY <2>2, <2>4 DEF Becomes
<1>3. Shows(c, FALSE, 0, 0)
  <2>1. Shows(c, NewClient.running, NewClient.proc, NewClient.session)
    BY <1>1, Typed, NewClientTyped, ClientShows DEF Clear
  <2> QED
    BY <2>1, Typed, NewClientTyped DEF Shows
<1>5. StepOf(u, c)
  <2>1. /\ user[u].on = {c} \/ user[u].pc \notin Busy
        /\ user[u].proc \in 0..starts /\ (At(u, "init") => user[u].proc \in 1..starts)
        /\ On(u, c, "launch") \/ On(u, c, "init") \/ On(u, c, "started") \/ On(u, c, "session") => lock[c] = u
    BY Typed DEF Clear, On, At, Busy, LifeInv, InitHasProc, LockIsHeld
  <2>2. client'[c].proc # 0 => home'[client'[c].proc] = {c}
    BY <1>1, <1>3, Typed DEF Clear, procVars, Shows, LifeInv, ProcIsHome, Procs
  <2> QED
    BY <1>1, <1>2, <1>3, <2>1, <2>2, Typed
       DEF Clear, StepOf, Becomes, Shows, Busy, Locked, At, On, procVars, Procs
<1>6. ASSUME c \notin crossed' PROVE Whole(c)' /\ ~(Shutting(c) /\ Readying(c))'
  <2>1. /\ Whole(c) /\ ~(Shutting(c) /\ Readying(c)) /\ client[c].proc \in 0..starts
        /\ user[u].proc \in 0..starts /\ starts \in Nat
    BY <1>5, <1>6, Typed DEF LifeInv, CrossingIsKnown, StepOf
  <2> USE <1>1, <1>2, <1>3, <1>6, <2>1 DEF Clear, On, At, procVars, Becomes, Shows
  <2>2. ~(Shutting(c) /\ Readying(c))'
    BY Typed DEF LifeInv, Shutting, Readying, LockIsHeld
  <2> QED
    BY <2>2 DEF Whole, ProcIsKnown, Asleep, LocalsAreTrue, LifeInv, LockIsHeld, Shutting, Readying
<1> QED
  BY <1>5, <1>6, StepKeeps

LEMMA CloseAllKeeps ==
  ASSUME LifeInv, NEW u \in Users, CloseAll(u) \/ AllClosed(u)
  PROVE  LifeInv'
<1> DEFINE r == [user[u] EXCEPT !.pc = "closing", !.todo = Registered]
           s == [user[u] EXCEPT !.pc = "closedAll"]
<1>1. user[u] \in Locals(starts) /\ alive \subseteq 1..starts /\ user \in [Users -> Locals(starts)]
  BY Typed
<1>2. r \in Locals(starts) /\ r.pc \notin Busy /\ s \in Locals(starts) /\ s.pc \notin Busy
  BY <1>1 DEF Locals, Pcs, Busy
<1>3. (user' = [user EXCEPT ![u] = r] \/ user' = [user EXCEPT ![u] = s]) /\ user[u].pc \notin Busy
  BY DEF CloseAll, AllClosed, GoTo, At, Busy
<1> HIDE DEF r, s
<1>4. UNCHANGED <<style, known, client, lock, procVars, panicked, crossed>>
      /\ due' \in [Users -> SUBSET (1..starts)]
  BY <1>1 DEF CloseAll, AllClosed, LifeInv, LifeTypeOK
<1>5. /\ user' \in [Users -> Locals(starts)] /\ user'[u].pc \notin Busy
      /\ \A v \in Users \ {u} : user'[v] = user[v]
  BY <1>1, <1>2, <1>3
<1>6. LifeTypeOK'
  BY <1>4, <1>5 DEF LifeInv, LifeTypeOK, procVars
<1>7. \A v \in Users, q \in Busy, d \in Clients : On(v, d, q)' <=> On(v, d, q)
  BY <1>3, <1>5 DEF On
<1> QED
  BY <1>3, <1>4, <1>5, <1>6, <1>7, Unnoticed DEF procVars

LEMMA PanicsKeeps ==
  ASSUME LifeInv, NEW u \in Users, NEW c \in Clients, Panics(u, c)
  PROVE  LifeInv'
<1>1. UNCHANGED <<style, known, client, lock, user, procVars, crossed, due>> /\ panicked' = TRUE
  BY DEF Panics
<1>2. LifeTypeOK'
  BY <1>1 DEF LifeInv, LifeTypeOK, procVars
<1> QED
  BY <1>1, <1>2, Unnoticed DEF procVars, On

LEMMA AgentExitsKeeps ==
  ASSUME LifeInv, NEW p \in Procs, AgentExits(p)
  PROVE  LifeInv'
<1>1. UNCHANGED <<style, known, client, lock, user, starts, home, stopped, panicked, crossed, due>>
      /\ alive' \subseteq alive
  BY DEF AgentExits
<1>2. LifeTypeOK'
  BY <1>1 DEF LifeInv, LifeTypeOK
<1> QED
  BY <1>1, <1>2, Unnoticed DEF On

-----------------------------------------------------------------------------
\* LifeInv holds at the start, is kept by every step, and says more than OwnsItsAgent.
LEMMA LifeInvInit ==
  ASSUME LifeInit
  PROVE  LifeInv
<1>1. starts = 0 /\ 0 \in Nat /\ 0 \in 0..MaxProcs /\ 1..starts = {}
  BY DEF LifeInit
<1>2. \A u \in Users : user[u] = Idle /\ user[u].pc = "idle"
  BY IdleTyped, 0 \in Nat DEF LifeInit
<1>3. \A c \in Clients : client[c] = NewClient /\ client[c].running = FALSE
                         /\ client[c].proc = 0 /\ client[c].session = 0
  BY NewClientTyped, 0 \in Nat DEF LifeInit
<1>4. LifeTypeOK
  <2>1. user \in [Users -> Locals(starts)] /\ client \in [Clients -> Fields(starts)]
    BY <1>1, IdleTyped, NewClientTyped DEF LifeInit
  <2> QED
    BY <1>1, <2>1 DEF LifeInit, LifeTypeOK
<1>5. InitHasProc /\ LockIsHeld /\ CrossingIsKnown /\ ProcIsHome
  BY <1>2, <1>3 DEF InitHasProc, LockIsHeld, CrossingIsKnown, ProcIsHome, Shutting, On, At
<1>6. \A c \in Clients : Whole(c)
  BY <1>1, <1>2, <1>3 DEF Whole, ProcIsKnown, Asleep, LocalsAreTrue, On
<1> QED
  BY <1>4, <1>5, <1>6 DEF LifeInv

LEMMA LifeInvStep ==
  ASSUME LifeInv, LifeNext
  PROVE  LifeInv'
<1>1. ASSUME NEW u \in Users, UserStep(u) PROVE LifeInv'
  <2>1. CASE CloseAll(u) \/ AllClosed(u)
    BY <2>1, CloseAllKeeps
  <2>2. ASSUME NEW c \in Clients, Starts(u, c) PROVE LifeInv'
    BY <2>2, Starts1Keeps, Starts2Keeps
  <2>3. ASSUME NEW c \in Clients, Launch(u, c) PROVE LifeInv'
    BY <2>3, Launch1Keeps, Launch2Keeps
  <2>4. ASSUME NEW c \in Clients, LeaveSession(u, c) PROVE LifeInv'
    BY <2>4, LeaveSession1Keeps, LeaveSession2Keeps
  <2>5. ASSUME NEW c \in Clients, Clear(u, c) PROVE LifeInv'
    BY <2>5, Clear1Keeps, Clear2Keeps
  <2> QED
    BY <1>1, <2>1, <2>2, <2>3, <2>4, <2>5, GetKeeps, EnsureReadyKeeps, LaunchFailsKeeps,
       InitializeKeeps, InitFailsKeeps, SetRunningKeeps, PanicsKeeps, KeepSessionKeeps,
       OpenSessionKeeps, AskSessionKeeps, OpenedKeeps, NotOpenedKeeps, CloseKeeps, CloseNextKeeps,
       KillKeeps DEF UserStep
<1> QED
  BY <1>1, AgentExitsKeeps DEF LifeNext

LEMMA OwnsByInv ==
  ASSUME LifeInv
  PROVE  OwnsItsAgent
<1> SUFFICES ASSUME NEW c \in Clients \ crossed
             PROVE  /\ client[c].running => client[c].proc # 0
                    /\ \A p \in alive : home[p] = {c} => client[c].proc = p
                    /\ client[c].session \in {0, client[c].proc}
  BY DEF OwnsItsAgent
<1>1. Whole(c) /\ alive \subseteq 1..starts
  BY Typed DEF LifeInv
<1> QED
  BY <1>1 DEF Whole, ProcIsKnown

\* Whoever calls the clients and in whatever order: one that is not shut down while it is
\* being made ready has at most one process, its own, and no session of another (Start,
\* client.go:224; shutdown, client.go:1109).
THEOREM ClientOwnsItsAgent == LifeSpec => []OwnsItsAgent
<1>1. LifeInit => LifeInv
  BY LifeInvInit
<1>2. LifeInv /\ [LifeNext]_lifeVars => LifeInv'
  <2>1. ASSUME LifeInv, UNCHANGED lifeVars PROVE LifeInv'
    <3>1. LifeTypeOK'
      BY <2>1 DEF LifeInv, LifeTypeOK, lifeVars, procVars
    <3> QED
      BY <2>1, <3>1, Unnoticed DEF lifeVars, procVars, On
  <2> QED
    BY <2>1, LifeInvStep
<1>3. LifeInv => OwnsItsAgent
  BY OwnsByInv
<1> QED
  BY <1>1, <1>2, <1>3, PTL DEF LifeSpec
=============================================================================
