------------------------------ MODULE OwnerLease ------------------------------
(***************************************************************************)
(* The owner lease of one session (queue.go, and the parts of              *)
(* cmd/acp-go/main.go that acquire, refresh and give it up).               *)
(*                                                                         *)
(* A session's queue is drained by one background process, started with    *)
(* `internal-owner`.  Which process that is, is decided by one file: it is *)
(* created with O_EXCL, carries the pid, a heartbeat, a generation and a   *)
(* socket path, and any process may read it, overwrite it or remove it.    *)
(* One action below is one file operation, so that every interleaving of   *)
(* the processes' file operations is explored.                             *)
(*                                                                         *)
(* Time advances in heartbeat intervals (5s).  An owner between prompts    *)
(* handles its heartbeat ticker before the next tick; an owner inside a    *)
(* prompt, or closing its session on the way out, does not look at the     *)
(* ticker.                                                                 *)
(***************************************************************************)
EXTENDS Naturals, FiniteSets

CONSTANTS
  Proc,        \* internal-owner processes, each with its own pid, started once
  Cli,         \* commands, and handlers of an owner's socket, that probe the owner
  StaleTicks,  \* heartbeat intervals after which a lease is stale (15s / 5s)
  Nobody,      \* no process; as a generation: 0, not known
  ReGen        \* a generation drawn by SaveLease for a lease that had none

ASSUME StaleAssumption == StaleTicks \in Nat \ {0}
ASSUME NamesAssumption == Nobody \notin Proc /\ ReGen \notin Proc /\ Nobody # ReGen
ASSUME CliAssumption == Proc \cap Cli = {}

VARIABLES
  file,     \* the lease file of the session
  sock,     \* the process whose listener the socket path leads to
  pc,       \* where each internal-owner process is
  attempt,  \* failed attempts of TryAcquireLease so far
  look,     \* the lease each process read last, or is about to save
  born,     \* heartbeat intervals from the process's first HeartbeatAt to the
            \* lease that carries it, until that lease is refreshed
  due,      \* the heartbeat ticker holds a tick
  ipcGen,   \* the generation given to the process's ownerIPCServer
  zombie,   \* ended processes whose pid still answers signal 0 (not yet reaped)
  cpc,      \* where each caller of ProbeOwner is: the commands and, in its own
            \* manager.CloseSession, the loop of each internal-owner process
  overdue,  \* history: a lease outlived StaleTicks without a heartbeat, in the
            \* file or in the hands of a process that read it
  robbed    \* history: processes whose lease another process removed or replaced

owners == <<pc, attempt, born, due, ipcGen, zombie>>
vars == <<file, sock, owners, look, cpc, overdue, robbed>>

NoFile == [kind |-> "none", pid |-> Nobody, gen |-> Nobody, socket |-> FALSE, age |-> 0]
TornFile(p) == [kind |-> "torn", pid |-> p, gen |-> p, socket |-> FALSE, age |-> 0]
NewLease(p) ==
  [kind |-> "lease", pid |-> p, gen |-> p, socket |-> TRUE, age |-> born[p]]

\* Mutant: the refreshed lease is built anew, with the pid and the heartbeat only.
RefreshedWithoutSocket(p, f) ==
  [kind |-> "lease", pid |-> p, gen |-> IF f.kind = "none" THEN ReGen ELSE f.gen,
   socket |-> FALSE, age |-> 0]

\* What RefreshLease makes of the lease f it read, with the heartbeat of that
\* moment: a lease that was missing is made anew, with its own generation and
\* without a socket path.
Refreshed(p, f) ==
  [kind |-> "lease", pid |-> p, gen |-> IF f.kind = "none" THEN ReGen ELSE f.gen,
   socket |-> f.socket, age |-> 0]

\* A heartbeat interval later (ages beyond StaleTicks are not told apart).
Later(n) == IF n <= StaleTicks THEN n + 1 ELSE n
Older(f) == [f EXCEPT !.age = IF f.kind = "lease" THEN Later(@) ELSE @]

LeaseFile == [kind : {"none", "torn", "lease"}, pid : Proc \cup {Nobody},
              gen : Proc \cup {Nobody, ReGen}, socket : BOOLEAN, age : 0 .. StaleTicks + 1]

\* Not yet started; trying to acquire; holding the lease; ended after holding
\* it ("gone"); ended without ever holding it ("exited").
Acquiring == {"open", "load", "judge", "clear"}
Starting == {"startup", "listen", "requeue"}
Serving == {"idle", "busy", "saveIdle", "saveBusy", "closing"}
Holding == Serving \cup Starting \cup {"write", "release"}
Ended == {"gone", "exited"}

Callers == Cli \cup Proc
Calling == {"judge", "clear", "kill", "killed"}  \* inside ProbeOwner, or killing
Running(p) == p \in Proc /\ pc[p] \in Acquiring \cup Holding
HasEnded == {p \in Proc : pc[p] = "gone"}

\* The lease of p as p wrote it, whatever its age.
Mine(p, f) == f.kind # "none" /\ f.pid = p /\ f.gen = p

\* isPIDRunning: kill(pid, 0) also succeeds on a zombie.
IsPIDRunning(p) == Running(p) \/ p \in zombie

\* What a prober and a contender look at in a lease: the pid and the heartbeat.
Seen(f) == [f EXCEPT !.gen = Nobody, !.socket = FALSE]
PidOf(f) == [f EXCEPT !.age = 0]  \* ... and who goes on to kill its owner: the pid

\* queueOwnerLeaseStale and QueueOwnerLeaseAlive, of a lease read some time ago.
Stale(f) == f.age > StaleTicks
\* Mutant: the staleness of the heartbeat is not looked at.
AliveByPidOnly(f) == f.kind = "lease" /\ IsPIDRunning(f.pid)
QueueOwnerLeaseAlive(f) == f.kind = "lease" /\ IsPIDRunning(f.pid) /\ ~Stale(f)

\* Replacing the file by f takes it from every other process that holds it.
WriteFile(actor, f) ==
  /\ file' = f
  /\ robbed' = robbed \cup {q \in Proc \ {actor} :
                              pc[q] \in Holding /\ Mine(q, file) /\ ~Mine(q, f)}

\* The process is gone with all it kept in memory; its pid answers until reaped
\* (nobody looks up the pid of a process that never held the lease).
End(p, where) ==
  /\ pc' = [pc EXCEPT ![p] = where]
  /\ zombie' = IF where = "gone" THEN zombie \cup {p} ELSE zombie
  /\ attempt' = [attempt EXCEPT ![p] = 0]
  /\ born' = [born EXCEPT ![p] = 0]
  /\ due' = [due EXCEPT ![p] = FALSE]
  /\ ipcGen' = [ipcGen EXCEPT ![p] = Nobody]

-----------------------------------------------------------------------------
\* TryAcquireLease, one file operation at a time.

\* Mutant: O_CREATE without O_EXCL.
OpenLeaseShared(p) ==
  /\ pc[p] = "open"
  /\ WriteFile(p, TornFile(p))
  /\ pc' = [pc EXCEPT ![p] = "write"]
  /\ UNCHANGED <<sock, attempt, born, look, due, ipcGen, zombie, cpc, overdue>>

\* O_CREATE|O_EXCL: the winner owns an empty file until it writes the payload.
OpenLease(p) ==
  /\ pc[p] = "open"
  /\ IF file.kind = "none"
       THEN /\ WriteFile(p, TornFile(p))
            /\ pc' = [pc EXCEPT ![p] = "write"]
       ELSE /\ pc' = [pc EXCEPT ![p] = "load"]
            /\ UNCHANGED <<file, robbed>>
  /\ UNCHANGED <<sock, attempt, born, look, due, ipcGen, zombie, cpc, overdue>>

\* The write goes to the file that was created, which may be unlinked by now.
\* The heartbeat it carries was fixed before the first attempt.
WriteLease(p) ==
  /\ pc[p] = "write"
  /\ IF file.kind = "torn" /\ file.gen = p
       THEN WriteFile(p, NewLease(p)) /\ overdue' = (overdue \/ Stale(NewLease(p)))
       ELSE UNCHANGED <<file, overdue, robbed>>
  /\ pc' = [pc EXCEPT ![p] = "startup"]
  /\ UNCHANGED <<sock, attempt, born, look, due, ipcGen, zombie, cpc>>

\* The write fails (a full disk): the file is removed and the error returned.
WriteFails(p) ==
  /\ pc[p] = "write"
  /\ WriteFile(p, NoFile)
  /\ End(p, "gone")
  /\ UNCHANGED <<sock, look, cpc, overdue>>

\* An empty file does not decode: TryAcquireLease returns the error.
LoadExisting(p) ==
  /\ pc[p] = "load"
  /\ IF file.kind = "torn"
       THEN End(p, "exited") /\ UNCHANGED look
       ELSE /\ look' = [look EXCEPT ![p] = Seen(file)]
            /\ pc' = [pc EXCEPT ![p] = "judge"]
            /\ UNCHANGED <<attempt, born, due, ipcGen, zombie>>
  /\ UNCHANGED <<file, sock, cpc, overdue, robbed>>

\* Mutant: runInternalOwner ignores that the lease was not acquired.
JudgeExistingAndServe(p) ==
  /\ pc[p] = "judge"
  /\ pc' = [pc EXCEPT ![p] = IF QueueOwnerLeaseAlive(look[p]) THEN "startup" ELSE "clear"]
  /\ look' = [look EXCEPT ![p] = NoFile]
  /\ UNCHANGED <<file, sock, attempt, born, due, ipcGen, zombie, cpc, overdue, robbed>>

\* Mutant: the test is inverted, a live lease is cleared.
JudgeExistingInverted(p) ==
  /\ pc[p] = "judge"
  /\ IF ~QueueOwnerLeaseAlive(look[p])
       THEN End(p, "exited")
       ELSE /\ pc' = [pc EXCEPT ![p] = "clear"]
            /\ UNCHANGED <<attempt, born, due, ipcGen, zombie>>
  /\ look' = [look EXCEPT ![p] = NoFile]
  /\ UNCHANGED <<file, sock, cpc, overdue, robbed>>

\* A lease that is alive means that this process does not become the owner.
JudgeExisting(p) ==
  /\ pc[p] = "judge"
  /\ IF QueueOwnerLeaseAlive(look[p])
       THEN End(p, "exited")
       ELSE /\ pc' = [pc EXCEPT ![p] = "clear"]
            /\ UNCHANGED <<attempt, born, due, ipcGen, zombie>>
  /\ look' = [look EXCEPT ![p] = NoFile]
  /\ UNCHANGED <<file, sock, cpc, overdue, robbed>>

\* Mutant: the attempts are not bounded.
ClearExistingForever(p) ==
  /\ pc[p] = "clear"
  /\ WriteFile(p, NoFile)
  /\ attempt' = [attempt EXCEPT ![p] = @ + 1]
  /\ pc' = [pc EXCEPT ![p] = "open"]
  /\ UNCHANGED <<sock, born, look, due, ipcGen, zombie, cpc, overdue>>

\* ClearLease removes whatever is there now; two attempts in all.
ClearExisting(p) ==
  /\ pc[p] = "clear"
  /\ WriteFile(p, NoFile)
  /\ IF attempt[p] = 0
       THEN /\ pc' = [pc EXCEPT ![p] = "open"]
            /\ attempt' = [attempt EXCEPT ![p] = 1]
            /\ UNCHANGED <<born, due, ipcGen, zombie>>
       ELSE End(p, "exited")
  /\ UNCHANGED <<sock, look, cpc, overdue>>

-----------------------------------------------------------------------------
\* The life of an owner: runInternalOwner after the acquisition.

\* queueLeaseGeneration reads the generation of the ownerIPCServer back from
\* the file; 0 if there is none to read.
ReadGeneration(p) ==
  /\ pc[p] = "startup"
  /\ ipcGen' = [ipcGen EXCEPT ![p] = IF file.kind = "lease" THEN file.gen ELSE Nobody]
  /\ pc' = [pc EXCEPT ![p] = "listen"]
  /\ UNCHANGED <<file, sock, attempt, born, look, due, zombie, cpc, overdue, robbed>>

\* ownerIPCServer.Start takes over the socket path.
StartServer(p) ==
  /\ pc[p] = "listen"
  /\ sock' = p
  /\ pc' = [pc EXCEPT ![p] = "requeue"]
  /\ UNCHANGED <<file, attempt, born, look, due, ipcGen, zombie, cpc, overdue, robbed>>

\* Start fails, before or after it removed the socket path: the lease is cleared.
StartFails(p) ==
  /\ pc[p] = "listen"
  /\ sock' \in {sock, Nobody}
  /\ WriteFile(p, NoFile)
  /\ End(p, "gone")
  /\ UNCHANGED <<look, cpc, overdue>>

\* RequeueOrphanedRunningRequests, then the loop.
EnterLoop(p) ==
  /\ pc[p] = "requeue"
  /\ pc' = [pc EXCEPT ![p] = "idle"]
  /\ UNCHANGED <<file, sock, attempt, born, look, due, ipcGen, zombie, cpc, overdue, robbed>>

\* It fails before the deferred ClearLease exists: the socket is closed, the
\* lease stays.
RequeueFails(p) ==
  /\ pc[p] = "requeue"
  /\ sock' = Nobody
  /\ End(p, "gone")
  /\ UNCHANGED <<file, look, cpc, overdue, robbed>>

\* The first half of RefreshLease, up to the new heartbeat; an undecodable file
\* ends it, unreported.
LoadForRefresh(p, next) ==
  IF file.kind = "torn"
    THEN /\ pc' = [pc EXCEPT ![p] = next]
         /\ UNCHANGED look
    ELSE /\ look' = [look EXCEPT ![p] = Refreshed(p, file)]
         /\ pc' = [pc EXCEPT ![p] = IF next = "idle" THEN "saveIdle" ELSE "saveBusy"]

Heartbeat(p) ==
  /\ pc[p] = "idle" /\ due[p]
  /\ due' = [due EXCEPT ![p] = FALSE]
  /\ LoadForRefresh(p, "idle")
  /\ UNCHANGED <<file, sock, attempt, born, ipcGen, zombie, cpc, overdue, robbed>>

BeginRequest(p) ==
  /\ pc[p] = "idle"
  /\ LoadForRefresh(p, "busy")
  /\ UNCHANGED <<file, sock, attempt, born, due, ipcGen, zombie, cpc, overdue, robbed>>

\* Mutant: no RefreshLease when the request is finished.
FinishRequestUnrefreshed(p) ==
  /\ pc[p] = "busy" /\ cpc[p] \notin Calling
  /\ pc' = [pc EXCEPT ![p] = "idle"]
  /\ cpc' = [cpc EXCEPT ![p] = "ready"]
  /\ UNCHANGED <<file, sock, attempt, born, look, due, ipcGen, zombie, overdue, robbed>>

\* A request is a prompt, a control, or a close, whose manager.CloseSession probes
\* the owner (ProbeLoad and the actions after it) and has to be over.
FinishRequest(p) ==
  /\ pc[p] = "busy" /\ cpc[p] \notin Calling
  /\ LoadForRefresh(p, "idle")
  /\ cpc' = [cpc EXCEPT ![p] = "ready"]
  /\ UNCHANGED <<file, sock, attempt, born, due, ipcGen, zombie, overdue, robbed>>

\* The second half of RefreshLease: SaveLease renames a file over the lease.
SaveLease(p) ==
  /\ pc[p] \in {"saveIdle", "saveBusy"}
  /\ WriteFile(p, look[p])
  /\ pc' = [pc EXCEPT ![p] = IF @ = "saveIdle" THEN "idle" ELSE "busy"]
  /\ look' = [look EXCEPT ![p] = NoFile]
  /\ born' = [born EXCEPT ![p] = 0]
  /\ UNCHANGED <<sock, attempt, due, ipcGen, zombie, cpc, overdue>>

\* ShouldClose: the loop calls manager.CloseSession and then returns.  It probes
\* the owner; where the record is not Closed (an old copy of it may have been
\* saved again) it starts an agent, loads the session and closes it: as long as
\* that takes, the loop is not at its ticker.
BeginClosing(p) ==
  /\ pc[p] = "idle"
  /\ pc' = [pc EXCEPT ![p] = "closing"]
  /\ due' = [due EXCEPT ![p] = FALSE]
  /\ UNCHANGED <<file, sock, attempt, born, look, ipcGen, zombie, cpc, overdue, robbed>>

\* The owner returns (idle timeout, a finished close request, an error of the loop,
\* or that CloseSession done): the deferred cleanup closes the server, which
\* removes the socket path, ...
CloseServer(p) ==
  /\ \/ pc[p] = "idle"
     \/ pc[p] = "busy" /\ cpc[p] \notin Calling
     \/ pc[p] = "closing" /\ cpc[p] = "probed"
  /\ sock' = Nobody
  /\ pc' = [pc EXCEPT ![p] = "release"]
  /\ cpc' = [cpc EXCEPT ![p] = "ready"]
  /\ due' = [due EXCEPT ![p] = FALSE]
  /\ UNCHANGED <<file, attempt, born, look, ipcGen, zombie, overdue, robbed>>

\* ... and then the lease file, whoever it belongs to by now.
ReleaseLease(p) ==
  /\ pc[p] = "release"
  /\ WriteFile(p, NoFile)
  /\ End(p, "gone")
  /\ UNCHANGED <<sock, look, cpc, overdue>>

\* A process dies where it stands, without its deferred calls.
Die(p) ==
  /\ Running(p)
  /\ End(p, IF pc[p] \in Holding THEN "gone" ELSE "exited")

Crash(p) ==
  /\ Die(p)
  /\ look' = [look EXCEPT ![p] = NoFile]
  /\ cpc' = [cpc EXCEPT ![p] = "ready"]
  /\ UNCHANGED <<file, sock, overdue, robbed>>

\* The parent command ends, and init reaps the owner it never waited for.
Reap(p) ==
  /\ p \in zombie
  /\ zombie' = zombie \ {p}
  /\ UNCHANGED <<file, sock, pc, attempt, born, look, due, ipcGen, cpc, overdue, robbed>>

-----------------------------------------------------------------------------
\* ProbeOwner and what follows it.  ensureOwnerProcess, status and CloseSession
\* all begin with it, and part only when it has answered.  A caller is a command
\* or a handler of an owner's socket (Cli), or an owner's own loop (Proc), in a
\* close request or on the way out.

\* Where CloseSession is done with the lease: the loop still has the agent to close.
Probed(x) == IF x \in Cli THEN "ready" ELSE "probed"

\* LoadLease of ProbeOwner.  No lease, or one that does not decode, ends it.
ProbeLoad(x) ==
  /\ cpc[x] = "ready"
  /\ x \in Proc => pc[x] \in {"busy", "closing"}
  /\ look' = [look EXCEPT ![x] = IF file.kind = "lease" THEN Seen(file) ELSE NoFile]
  /\ cpc' = [cpc EXCEPT ![x] = CASE file.kind = "torn" -> Probed(x)
                                 [] file.kind = "none" -> "probed"
                                 [] OTHER -> "judge"]
  /\ UNCHANGED <<file, sock, owners, overdue, robbed>>

\* A healthy lease satisfies ensureOwnerProcess and status; CloseSession goes on to
\* terminate its owner, unless that is its own process.  Any other lease is to be
\* removed.
ProbeJudge(x) ==
  /\ cpc[x] = "judge"
  /\ IF QueueOwnerLeaseAlive(look[x])
       THEN \/ /\ x \in Cli \/ look[x].pid = x
               /\ cpc' = [cpc EXCEPT ![x] = Probed(x)]
               /\ look' = [look EXCEPT ![x] = NoFile]
            \/ /\ look[x].pid # x
               /\ cpc' = [cpc EXCEPT ![x] = "kill"]
               /\ look' = [look EXCEPT ![x] = PidOf(@)]
       ELSE /\ cpc' = [cpc EXCEPT ![x] = "clear"]
            /\ look' = [look EXCEPT ![x] = NoFile]
  /\ UNCHANGED <<file, sock, owners, overdue, robbed>>

\* A process that removes its own lease has lost it as well.
ProbeClear(x) ==
  /\ cpc[x] = "clear"
  /\ WriteFile(Nobody, NoFile)
  /\ cpc' = [cpc EXCEPT ![x] = "probed"]
  /\ UNCHANGED <<sock, owners, look, overdue>>

\* ensureOwnerProcess found no healthy owner: it starts one and does not wait.
SpawnOwner(c, p) ==
  /\ cpc[c] = "probed"
  /\ pc[p] = "new"
  /\ pc' = [pc EXCEPT ![p] = "open"]
  /\ cpc' = [cpc EXCEPT ![c] = "ready"]
  /\ UNCHANGED <<file, sock, attempt, born, look, due, ipcGen, zombie, overdue, robbed>>

\* Status and CloseSession need nothing more.
ProbeDone(c) ==
  /\ cpc[c] = "probed"
  /\ cpc' = [cpc EXCEPT ![c] = "ready"]
  /\ UNCHANGED <<file, sock, owners, look, overdue, robbed>>

\* CloseSession of another process: SIGTERM (then SIGKILL) to the owner, ...
TerminateOwner(x) ==
  /\ cpc[x] = "kill"
  /\ LET p == look[x].pid
     IN  IF Running(p)
           THEN /\ Die(p)
                /\ look' = [look EXCEPT ![p] = NoFile, ![x] = NoFile]
                /\ cpc' = [cpc EXCEPT ![p] = "ready", ![x] = "killed"]
           ELSE /\ look' = [look EXCEPT ![x] = NoFile]
                /\ cpc' = [cpc EXCEPT ![x] = "killed"]
                /\ UNCHANGED owners
  /\ UNCHANGED <<file, sock, overdue, robbed>>

\* ... then ClearLease.
ClearKilled(x) ==
  /\ cpc[x] = "killed"
  /\ WriteFile(Nobody, NoFile)
  /\ cpc' = [cpc EXCEPT ![x] = Probed(x)]
  /\ UNCHANGED <<sock, owners, look, overdue>>

-----------------------------------------------------------------------------
\* 5s pass: no owner outside a request and its closing leaves a file operation, or
\* its ticker, for that long.  Every ticker fires (their channels hold one tick)
\* and every heartbeat, in the file or already read, is one interval older; of a
\* lease whose owner is to be killed only the pid still counts.
Tick ==
  /\ \A p \in Proc : /\ pc[p] \notin Starting \cup {"saveIdle"}
                     /\ pc[p] = "idle" => ~due[p]
  /\ due' = [p \in Proc |-> pc[p] \in Serving \ {"closing"}]
  /\ born' = [p \in Proc |-> IF pc[p] \in Acquiring \cup {"write"} THEN Later(born[p])
                                                                 ELSE born[p]]
  /\ file' = Older(file)
  /\ look' = [x \in Callers |-> IF cpc[x] = "kill" THEN look[x] ELSE Older(look[x])]
  /\ overdue' = (overdue \/ Stale(file') \/ \E x \in Callers : Stale(look'[x]))
  /\ UNCHANGED <<sock, pc, attempt, ipcGen, zombie, cpc, robbed>>

Init ==
  /\ file = NoFile
  /\ sock = Nobody
  /\ pc = [p \in Proc |-> "new"]
  /\ attempt = [p \in Proc |-> 0]
  /\ born = [p \in Proc |-> 0]
  /\ look = [x \in Callers |-> NoFile]
  /\ due = [p \in Proc |-> FALSE]
  /\ ipcGen = [p \in Proc |-> Nobody]
  /\ zombie = {}
  /\ cpc = [x \in Callers |-> "ready"]
  /\ overdue = FALSE
  /\ robbed = {}

Acquire(p) == \/ OpenLease(p) \/ WriteLease(p) \/ WriteFails(p)
              \/ LoadExisting(p) \/ JudgeExisting(p) \/ ClearExisting(p)
Start(p) == ReadGeneration(p) \/ StartServer(p) \/ StartFails(p) \/ EnterLoop(p) \/ RequeueFails(p)
Serve(p) == Heartbeat(p) \/ BeginRequest(p) \/ FinishRequest(p) \/ SaveLease(p)
Leave(p) == BeginClosing(p) \/ CloseServer(p) \/ ReleaseLease(p)
Probe(x) == ProbeLoad(x) \/ ProbeJudge(x) \/ ProbeClear(x) \/ TerminateOwner(x) \/ ClearKilled(x)
Command(c) == Probe(c) \/ ProbeDone(c) \/ \E p \in Proc : SpawnOwner(c, p)

Next ==
  \/ \E p \in Proc : Acquire(p) \/ Start(p) \/ Serve(p) \/ Leave(p) \/ Probe(p) \/ Crash(p) \/ Reap(p)
  \/ \E c \in Cli : Command(c)
  \/ Tick

Spec == Init /\ [][Next]_vars

\* Owners start up and keep their heartbeat, time passes, and commands keep asking for the owner
\* (every prompt, status and cancel does).  Nothing is assumed of failures, and
\* nothing of a request: BeginRequest may never be followed by FinishRequest.
FairSpec ==
  /\ Spec
  /\ \A p \in Proc : WF_vars(ReadGeneration(p) \/ StartServer(p) \/ EnterLoop(p)
                             \/ Heartbeat(p) \/ SaveLease(p))
  /\ \A c \in Cli : WF_vars(Command(c))
  /\ SF_vars(Tick)

-----------------------------------------------------------------------------
TypeOK ==
  /\ file \in LeaseFile
  /\ sock \in Proc \cup {Nobody}
  /\ pc \in [Proc -> {"new"} \cup Acquiring \cup Holding \cup Ended]
  /\ attempt \in [Proc -> 0 .. 1]
  /\ born \in [Proc -> 0 .. StaleTicks + 1]
  /\ look \in [Callers -> LeaseFile]
  /\ due \in [Proc -> BOOLEAN]
  /\ ipcGen \in [Proc -> Proc \cup {Nobody, ReGen}]
  /\ zombie \in SUBSET Proc
  /\ cpc \in [Callers -> {"ready", "probed"} \cup Calling]
  /\ overdue \in BOOLEAN
  /\ robbed \in SUBSET Proc

\* A process that won O_EXCL and was not robbed still owns the file: nobody
\* else's lease can be in place, and the file is empty only until it has written
\* its payload.  (TryAcquireLease, RefreshLease, ClearLease.)
HolderIsNamed ==
  \A p \in Proc : pc[p] \in Holding /\ p \notin robbed =>
    Mine(p, file) /\ (file.kind = "torn" <=> pc[p] = "write")

\* Until the first holder ends or outlives its heartbeat, no lease is taken from
\* a live process, however acquisitions, probes and refreshes interleave.
NoRobberyBeforeTrouble == HasEnded = {} /\ ~overdue => robbed = {}

\* Hence one owner at a time, up to that point.
ExclusiveBeforeTrouble ==
  HasEnded = {} /\ ~overdue =>
    \A p, q \in Proc : pc[p] \in Holding /\ pc[q] \in Holding => p = q

\* Up to that point the lease also leads to its owner: a client that reads it
\* finds the socket of the owner's server, and the generation it checks the
\* server's answers against is the server's.
LeaseLeadsToOwner ==
  \A p \in Proc : pc[p] \in Serving /\ HasEnded = {} /\ ~overdue =>
    file.socket /\ sock = p /\ ipcGen[p] = file.gen

\* A lease carrying one process's pid under another's generation is the trace of
\* a RefreshLease by an owner that had already lost its own lease.
MixedLeaseMeansRobbed ==
  file.kind = "lease" /\ file.pid # file.gen => file.pid \in robbed

\* From its start to the end of its loop an owner's lease is fresh whenever it is
\* between requests.  So a live owner's lease gets stale only where the loop is not
\* at its ticker, inside a long request and in its own CloseSession on the way out,
\* or if the acquisition itself took StaleTicks intervals.
IdleOwnerIsFresh ==
  \A p \in Proc :
    pc[p] \in Starting \cup {"idle"} /\ p \notin robbed /\ born[p] < StaleTicks =>
      ~Stale(file)

\* The lease of an ended owner does not stay, even while its pid still answers
\* signal 0 because the command that started it never waits for it.
DeadLeaseIsCleared ==
  \A p \in Proc :
    (file.kind = "lease" /\ file.pid = p /\ pc[p] \in Ended)
      ~> ~(file.kind = "lease" /\ file.pid = p /\ pc[p] \in Ended)

\* docs/architecture.md:113-114: the owner acquires a per-session lease and
\* queued prompts are drained sequentially, so one process at a time serves.
OneServingOwner ==
  \A p, q \in Proc : pc[p] \in Serving /\ pc[q] \in Serving => p = q

\* The same while no request has outlasted the lease.
OneServingOwnerInTime == ~overdue => OneServingOwner
=============================================================================
