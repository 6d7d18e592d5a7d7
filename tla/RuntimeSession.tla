---------------------------- MODULE RuntimeSession ----------------------------
(***************************************************************************)
(* The session records: the files of store.go, the operations of manager.go*)
(* on them, and the processes that run these operations side by side: the  *)
(* commands of cmd/acp-go/main.go, the owner of each session and, in it,   *)
(* the handlers of its socket (owner_ipc.go).                              *)
(*                                                                         *)
(* A save replaces the whole file by a rename, but every operation loads a *)
(* record, works on its copy, often for as long as an agent runs, and saves*)
(* the copy.  Such an operation is a job here: one step loads, a later one *)
(* saves.  OwnerLease and OwnerQueue have the parts of leases and requests *)
(* that are taken as one step here.                                        *)
(***************************************************************************)
EXTENDS Naturals, Sequences, FiniteSets

CONSTANTS
  Ids,          \* record ids; List returns the record of a greater id first
  Cmds,         \* commands, each run once
  Does,         \* Does[c]: what command c may be
  AgentModes,   \* the session modes of an agent that has some
  MaxCrashes,   \* bound: owners that crash
  None          \* no record

Ops == {"ensure", "new", "exec", "prompt", "set-mode", "set-config", "close",
        "cancel", "prune", "export", "import"}

ASSUME IdsAssumption   == Ids \subseteq Nat \ {0} /\ Cmds \cap ({"loop", "exit"} \X Ids) = {}
ASSUME DoesAssumption  == Does \in [Cmds -> SUBSET Ops]
ASSUME ModesAssumption == AgentModes \cap {"persistent", "oneshot"} = {}
ASSUME BoundAssumption == MaxCrashes \in Nat

VARIABLES
  rec,       \* the session records
  agent,     \* what the agent reports of a session: "plain", "modes" or "options"
  archive,   \* the exported session
  cmd,       \* the commands
  job,       \* the operation each process works on, with its copy of the record
  own,       \* the owner of each session
  queue,     \* the commands whose requests wait or run
  claimed,   \* the first of them is marked running
  lease,     \* there is a lease file
  crashes,   \* owners that crashed so far
  lost,      \* history: ids over which a copy was saved that was no longer current
  told,      \* history: what commands were told had been done
  cause,     \* history: ids something was asked of that may close them
  twins,     \* history: ids created beside an open record, or imported
  late,      \* history: ids whose owner ended before it unmarked, or did so too late
  pruned,    \* history: ids that were pruned
  imported   \* history: ids that were imported
ownVars  == <<own, queue, claimed, lease>>
history  == <<lost, told, cause, twins, late, pruned, imported>>
vars == <<rec, agent, archive, cmd, job, ownVars, crashes, history>>

Loop(i) == <<"loop", i>>
Exit(i) == <<"exit", i>>
Proc == Cmds \cup {Loop(i) : i \in Ids} \cup {Exit(i) : i \in Ids}

Modes  == {"persistent", "oneshot", "plan"} \cup AgentModes
Record == [key : {"named", "exec"}, mode : Modes, closed : BOOLEAN, active : BOOLEAN,
           config : {"unset", "set", "agent's"}]
ASSUME NoneAssumption == None \notin Record
NoJob  == [what |-> "none", pc |-> "none", id |-> 0, copy |-> None, fresh |-> TRUE]

OfKey(key) == {i \in Ids : rec[i] # None /\ rec[i].key = key}
\* Loading stamps UpdatedAt, by which List sorts: the last file is the first in the list,
\* closed or not.
FindByKey(key) == {i \in OfKey(key) : \A j \in OfKey(key) : j <= i}
\* The scope (agent, cwd and name) of a session is its key.
FindSession == FindByKey("named")
Open(i) == rec[i] # None /\ ~rec[i].closed

-----------------------------------------------------------------------------
\* What an operation saves for the record r it has loaded.

\* applyClientSessionState
Reported(r) ==
  CASE agent = "modes"   -> {[r EXCEPT !.mode = m] : m \in AgentModes}
    [] agent = "options" -> {[r EXCEPT !.config = "agent's"]}
    [] OTHER             -> {r}

\* prepareClientForRecordObserved fails, or it applies what the agent reports.
Prepared(r) == {r} \cup Reported(r)

\* Mutant: every turn that ends well closes its session.
TurnEndOnce(r) == [r EXCEPT !.closed = TRUE]
TurnEnd(r) == [r EXCEPT !.closed = @ \/ r.mode # "persistent"]
\* RunTurnWithCancelObserved: no agent, a failed prompt, or an answer.
Turn(r) == Prepared(r) \cup {TurnEnd(s) : s \in Reported(r)}

\* SetSessionMode; SetSessionConfigOption and SetSessionModel.
SetMode(r)   == Prepared([r EXCEPT !.mode = "plan"])
SetConfig(r) == Prepared([r EXCEPT !.config = "set"])

\* CloseSession
CloseRecord(r) == IF r.closed THEN {r} ELSE {[s EXCEPT !.closed = TRUE] : s \in Prepared(r)}

\* Mutant: the mode is not persisted beside a running prompt.
PersistNoMode(op, r) ==
  CASE op = "set-config" -> [r EXCEPT !.config = "set"]
    [] op = "close"      -> [r EXCEPT !.closed = TRUE]
    [] OTHER             -> r
\* persistQueuedControlState
Persist(op, r) ==
  CASE op = "set-mode"   -> [r EXCEPT !.mode = "plan"]
    [] op = "set-config" -> [r EXCEPT !.config = "set"]
    [] op = "close"      -> [r EXCEPT !.closed = TRUE]
    [] OTHER             -> r

\* Mutant: the end of a request leaves its mark in the record.
UnmarkNothing(r) == r
Unmark(r) == [r EXCEPT !.active = FALSE]

Saves(p, r) ==
  LET what == job[p].what IN
  CASE what = "prompt"     -> Turn(r)
    [] what = "set-mode"   -> SetMode(r)
    [] what = "set-config" -> SetConfig(r)
    [] what = "close"      -> CloseRecord(r)
    [] what = "cancel"     -> Prepared(r)
    [] what = "persist"    -> {Persist(cmd[p].op, r)}
    [] what = "mark"       -> {[r EXCEPT !.active = TRUE]}
    [] OTHER               -> {Unmark(r)}

Start(what, i) == [what |-> what, pc |-> "load", id |-> i, copy |-> None, fresh |-> TRUE]

\* The copies of record i that other processes hold are no longer current.
Outdated(jobs, i, p) ==
  [q \in Proc |-> IF q # p /\ jobs[q].id = i /\ jobs[q].copy # None
                    THEN [jobs[q] EXCEPT !.fresh = FALSE] ELSE jobs[q]]
-----------------------------------------------------------------------------
Down == [pc |-> "down", closeReq |-> FALSE, leave |-> FALSE]
FirstPc(op) == CASE op = "ensure" -> "find"   [] op = "new"    -> "lookup" [] op = "exec" -> "exec"
                 [] op = "prune"  -> "list"   [] op = "import" -> "import" [] OTHER -> "resolve"

\* Earlier commands have left any records, open or closed, at most one open.
Init ==
  /\ agent \in {"plain", "modes", "options"}
  /\ LET mode == IF agent = "modes" THEN AgentModes ELSE {"persistent"} IN
     rec \in [Ids -> {None} \cup {r \in Record : /\ r.key = "named" /\ r.mode \in mode
                                                 /\ ~r.active /\ r.config = "unset"}]
  /\ \A i, j \in Ids : Open(i) /\ Open(j) => i = j
  /\ archive = None
  /\ \E ops \in [Cmds -> Ops] :
       /\ \A c \in Cmds : ops[c] \in Does[c]
       /\ cmd = [c \in Cmds |-> [op |-> ops[c], pc |-> FirstPc(ops[c]), id |-> 0, via |-> "self",
                                 live |-> FALSE, alone |-> TRUE, beside |-> FALSE, left |-> {}]]
  /\ job = [p \in Proc |-> NoJob]
  /\ own = [i \in Ids |-> Down]
  /\ queue = [i \in Ids |-> <<>>] /\ claimed = [i \in Ids |-> FALSE] /\ lease = [i \in Ids |-> FALSE]
  /\ crashes = 0
  /\ lost = {} /\ told = [i \in Ids |-> {}] /\ twins = {} /\ late = {} /\ pruned = {} /\ imported = {}
  /\ cause = {i \in Ids : rec[i] # None /\ rec[i].closed}

-----------------------------------------------------------------------------
\* An operation on a record.

\* Mutant: nobody looks whether there is a record.
LoadedBlindly(p, r) == [job[p] EXCEPT !.copy = r, !.pc = "save"]
\* Mutant: a record that is missing is made anew.
LoadedOrNew(p, r) ==
  [job[p] EXCEPT !.pc = "save",
     !.copy = IF r # None THEN r ELSE [key |-> "named", mode |-> "persistent", closed |-> FALSE,
                                       active |-> FALSE, config |-> "unset"]]
\* Without a record there is nothing to do; on a closed session there is no turn.
Loaded(p, r) ==
  LET what == job[p].what IN
  IF r = None THEN [job[p] EXCEPT !.pc = IF what = "unmark" THEN "ok" ELSE "error"]
  ELSE IF what = "prompt" /\ r.closed THEN [job[p] EXCEPT !.pc = "error"]
  ELSE [job[p] EXCEPT !.copy = r,
          !.pc = IF what = "close" /\ p \in Cmds /\ cmd[p].via # "owner" THEN "probe" ELSE "save"]

\* The owner saves its request as running before it marks the record.
Load(p) ==
  LET i == job[p].id IN
  /\ job[p].pc = "load"
  /\ job' = [job EXCEPT ![p] = Loaded(p, rec[i])]
  /\ claimed' = [claimed EXCEPT ![i] = @ \/ (job[p].what = "mark" /\ rec[i] # None)]
  /\ UNCHANGED <<rec, agent, archive, cmd, own, queue, lease, crashes, history>>

Up(i) == own[i].pc \notin {"down", "spawned"}

\* The owner's process is gone.  A command whose socket it was serves itself.
Handled(i, via) == {c \in Cmds : cmd[c].via = via /\ cmd[c].id = i /\ cmd[c].pc \in {"handler", "job"}}
Unserved(C) == cmd' = [c \in Cmds |-> IF c \in C THEN [cmd[c] EXCEPT !.pc = "enqueue", !.via = "self"]
                                                 ELSE cmd[c]]
OwnerDies(i) ==
  /\ own' = [own EXCEPT ![i] = Down]
  /\ Unserved(Handled(i, "owner"))
  /\ late' = IF own[i].pc \in {"clear", "unmark"} THEN late \cup {i} ELSE late
JobsOfOwner(i) == {Loop(i)} \cup Handled(i, "owner")

\* CloseSession ends the owner, unless it runs in it, and clears the lease.
Probe(p) ==
  LET i == job[p].id
      jobs == IF lease[i] /\ Up(i) THEN [q \in Proc |-> IF q \in JobsOfOwner(i) THEN NoJob ELSE job[q]] ELSE job IN
  /\ job[p].pc = "probe"
  /\ job' = [jobs EXCEPT ![p].pc = "save"]
  /\ IF lease[i] /\ Up(i) THEN OwnerDies(i) ELSE UNCHANGED <<own, cmd, late>>
  /\ lease' = [lease EXCEPT ![i] = FALSE]
  /\ UNCHANGED <<rec, agent, archive, queue, claimed, crashes, lost, told, cause, twins, pruned, imported>>

\* The record of the copy replaces the file, whatever the file holds by now.
Save(p) ==
  LET i == job[p].id IN
  /\ job[p].pc = "save"
  /\ \E r \in Saves(p, job[p].copy) : rec' = [rec EXCEPT ![i] = r]
  /\ job' = Outdated([job EXCEPT ![p].pc = "ok", ![p].copy = None, ![p].fresh = TRUE], i, p)
  /\ lost' = IF job[p].fresh THEN lost ELSE lost \cup {i}
  /\ late' = IF p = Exit(i) /\ Up(i) THEN late \cup {i} ELSE late
  /\ UNCHANGED <<agent, archive, cmd, ownVars, crashes, told, cause, twins, pruned, imported>>

-----------------------------------------------------------------------------
\* Commands that find or create sessions.

Goto(c, pc) == cmd' = [cmd EXCEPT ![c].pc = pc]
Tells(op) == CASE op = "set-mode" -> {"mode"} [] op = "set-config" -> {"config"}
               [] op \in {"close", "new"} -> {"close"} [] OTHER -> {}

\* sessions new: an open session of this name is closed first, in this process.
Lookup(c) ==
  /\ cmd[c].pc = "lookup"
  /\ \/ /\ \A i \in FindSession : ~Open(i)
        /\ Goto(c, "find")
        /\ UNCHANGED <<job, cause>>
     \/ \E i \in FindSession :
          /\ Open(i)
          /\ cmd' = [cmd EXCEPT ![c].pc = "job", ![c].id = i]
          /\ job' = [job EXCEPT ![c] = Start("close", i)]
          /\ cause' = cause \cup {i}
  /\ UNCHANGED <<rec, agent, archive, ownVars, crashes, lost, told, twins, late, pruned, imported>>

\* Mutant: a session is found only while its recorded mode is persistent.
FindPersistent(c) ==
  /\ cmd[c].pc = "find"
  /\ \/ \E i \in FindByKey("named") :
          /\ Open(i) /\ rec[i].mode = "persistent"
          /\ cmd' = [cmd EXCEPT ![c].pc = IF cmd[c].op = "prompt" THEN "decide" ELSE "done", ![c].id = i]
     \/ /\ \A i \in FindByKey("named") : ~Open(i) \/ rec[i].mode # "persistent"
        /\ cmd' = [cmd EXCEPT ![c].pc = "create", ![c].alone = TRUE,
                              ![c].beside = \E i \in OfKey("named") : Open(i) /\ i \notin FindByKey("named")]
  /\ UNCHANGED <<rec, agent, archive, job, ownVars, crashes, history>>

\* EnsureSession looks at one record of the key only: beside is set when another is open.
Find(c) ==
  /\ cmd[c].pc = "find"
  /\ \/ \E i \in FindByKey("named") :
          /\ Open(i)
          /\ cmd' = [cmd EXCEPT ![c].pc = IF cmd[c].op = "prompt" THEN "decide" ELSE "done", ![c].id = i]
     \/ /\ \A i \in FindByKey("named") : ~Open(i)
        /\ cmd' = [cmd EXCEPT ![c].pc = "create", ![c].alone = TRUE,
                              ![c].beside = \E i \in OfKey("named") : Open(i)]
  /\ UNCHANGED <<rec, agent, archive, job, ownVars, crashes, history>>

\* Every command that is about to create a session is no longer alone in doing so.
NotAlone(cmds) == [c \in Cmds |-> [cmds[c] EXCEPT !.alone = @ /\ cmds[c].pc # "create"]]

\* The agent has started a session.  Ids are random and never used twice.
NewSession(c, i, key, mode) ==
  /\ rec[i] = None /\ i \notin pruned \cup imported
  /\ \E r \in Reported([key |-> key, mode |-> mode, closed |-> FALSE, active |-> FALSE,
                        config |-> "unset"]) : rec' = [rec EXCEPT ![i] = r]
  /\ twins' = IF cmd[c].beside \/ ~cmd[c].alone THEN twins \cup {i} ELSE twins
  /\ UNCHANGED <<agent, archive, ownVars, crashes, lost, told, late, pruned, imported>>

Create(c) ==
  /\ cmd[c].pc = "create"
  /\ \E i \in Ids :
       /\ NewSession(c, i, "named", "persistent")
       /\ cmd' = NotAlone([cmd EXCEPT ![c].id = i,
                                      ![c].pc = IF cmd[c].op = "prompt" THEN "decide" ELSE "done"])
  /\ UNCHANGED <<job, cause>>

\* exec: RunOnce never looks for a session, and goes on with the turn.
Exec(c) ==
  /\ cmd[c].pc = "exec"
  /\ \E i \in Ids :
       /\ NewSession(c, i, "exec", "oneshot")
       /\ cmd' = NotAlone([cmd EXCEPT ![c].id = i, ![c].pc = "job"])
       /\ job' = [job EXCEPT ![c] = Start("prompt", i)]
       /\ cause' = cause \cup {i}

\* The agent does not start.
NoAgent(c) ==
  /\ cmd[c].pc \in {"create", "exec"}
  /\ Goto(c, "done")
  /\ UNCHANGED <<rec, agent, archive, job, ownVars, crashes, history>>

\* ImportSession keeps the archived id when no record has it and no scope is given.
Import(c) ==
  /\ cmd[c].pc = "import" /\ archive # None
  /\ \E i \in {j \in Ids : rec[j] = None} : \E r \in {archive.record, [archive.record EXCEPT !.key = "named"]} :
       /\ IF i = archive.id THEN r = archive.record ELSE i \notin pruned \cup imported
       /\ rec' = [rec EXCEPT ![i] = r]
       /\ job' = Outdated(job, i, c)
       /\ cmd' = NotAlone([cmd EXCEPT ![c].pc = "done"])
       /\ twins' = twins \cup {i}
       /\ imported' = imported \cup {i}
       /\ cause' = IF archive.id \in cause THEN cause \cup {i} ELSE cause
  /\ UNCHANGED <<agent, archive, ownVars, crashes, lost, told, late, pruned>>

\* PruneClosedSessions lists the records; those closed long enough ago it deletes.
List(c) ==
  /\ cmd[c].pc = "list"
  /\ \E S \in SUBSET {i \in Ids : rec[i] # None /\ rec[i].closed} :
       cmd' = [cmd EXCEPT ![c].pc = IF S = {} THEN "done" ELSE "delete", ![c].left = S]
  /\ UNCHANGED <<rec, agent, archive, job, ownVars, crashes, history>>

Delete(c, i) ==
  /\ cmd[c].pc = "delete" /\ i \in cmd[c].left
  /\ rec' = [rec EXCEPT ![i] = None]
  /\ job' = Outdated(job, i, c)
  /\ cmd' = [cmd EXCEPT ![c].left = @ \ {i}, ![c].pc = IF cmd[c].left = {i} THEN "done" ELSE @]
  /\ pruned' = pruned \cup {i}
  /\ UNCHANGED <<agent, archive, ownVars, crashes, lost, told, cause, twins, late, imported>>

-----------------------------------------------------------------------------
\* Commands on one session.

\* resolveHandle: by --record-id, or what FindSession returns; a prompt then creates one.
Resolve(c) ==
  /\ cmd[c].pc = "resolve"
  /\ \/ \E i \in {j \in Ids : rec[j] # None} :
          /\ cmd' = [cmd EXCEPT ![c].pc = IF cmd[c].op = "export" THEN "export" ELSE "decide", ![c].id = i]
          /\ cause' = IF cmd[c].op \in {"set-mode", "close"} THEN cause \cup {i} ELSE cause
     \/ /\ FindSession = {}
        /\ Goto(c, IF cmd[c].op = "prompt" THEN "find" ELSE "done")
        /\ UNCHANGED cause
  /\ UNCHANGED <<rec, agent, archive, job, ownVars, crashes, lost, told, twins, late, pruned, imported>>

\* After a crash the lease looks alive until its heartbeat is stale.  ProbeOwner clears
\* one that it finds dead.
LeaseAlive(i) == IF ~lease[i] THEN {FALSE} ELSE IF Up(i) THEN {TRUE} ELSE BOOLEAN

\* ExportSession
Export(c) ==
  /\ cmd[c].pc = "export"
  /\ \E alive \in LeaseAlive(cmd[c].id) :
       /\ lease' = [lease EXCEPT ![cmd[c].id] = alive]
       /\ archive' = IF alive \/ rec[cmd[c].id] = None THEN archive
                     ELSE [id |-> cmd[c].id, record |-> rec[cmd[c].id]]
  /\ Goto(c, "done")
  /\ UNCHANGED <<rec, agent, job, own, queue, claimed, crashes, history>>

\* Status, which looks after the lease.
Status(i, alive) == [active |-> rec[i] # None /\ rec[i].active, alive |-> alive, depth |-> Len(queue[i])]
\* sessionShouldUseQueue and sessionHasActiveOwnerPrompt
UseQueue(status)     == status.alive \/ status.depth > 0
ActivePrompt(status) == status.alive /\ status.active

\* A command that sees no owner and no request works on the record itself.
Self(c, status) ==
  /\ ~UseQueue(status)
  /\ Goto(c, "job")
  /\ job' = [job EXCEPT ![c] = Start(cmd[c].op, cmd[c].id)]

\* Otherwise it turns to the owner's socket or, when nobody listens there, to the queue.
ViaOwner(c, status) ==
  LET dialled == status.alive /\ Up(cmd[c].id) IN
  /\ UseQueue(status)
  /\ cmd' = [cmd EXCEPT ![c].pc   = IF dialled THEN "handler" ELSE "enqueue",
                        ![c].via  = IF dialled THEN "owner" ELSE "self",
                        ![c].live = ActivePrompt(status)]
  /\ UNCHANGED job

\* A command looks where its session is at work.
Looks(c, op, alive) ==
  /\ cmd[c].pc = "decide" /\ cmd[c].op = op
  /\ alive \in LeaseAlive(cmd[c].id)
  /\ lease' = [lease EXCEPT ![cmd[c].id] = alive]
  /\ UNCHANGED <<rec, agent, archive, own, queue, claimed, crashes, history>>

Either(c, status) == Self(c, status) \/ ViaOwner(c, status)
RunSetMode(c) ==
  \E alive \in BOOLEAN : Looks(c, "set-mode", alive) /\ Either(c, Status(cmd[c].id, alive))
RunSetConfig(c) ==
  \E alive \in BOOLEAN : Looks(c, "set-config", alive) /\ Either(c, Status(cmd[c].id, alive))
RunClose(c) ==
  \E alive \in BOOLEAN : Looks(c, "close", alive) /\ Either(c, Status(cmd[c].id, alive))

\* A prompt is queued as soon as it need not wait, or when there is an owner.
SelfOrQueue(c, status) == Self(c, status) \/ (Goto(c, "enqueue") /\ UNCHANGED job)
RunPrompt(c) ==
  \E alive \in BOOLEAN : Looks(c, "prompt", alive) /\ SelfOrQueue(c, Status(cmd[c].id, alive))

\* Marking a request in the queue, the owner's or the latest, leaves the record alone.
SelfOrMark(c, status) ==
  \/ ~status.active /\ Self(c, status)
  \/ (status.active \/ UseQueue(status)) /\ Goto(c, "done") /\ UNCHANGED job
RunCancel(c) ==
  \E alive \in BOOLEAN : Looks(c, "cancel", alive) /\ SelfOrMark(c, Status(cmd[c].id, alive))

\* RegisterActiveController to UnregisterActiveController.  After its save a turn of the
\* owner stays there until a cancel (OwnerQueue).
Controlled(i) ==
  \/ own[i].pc = "turned"
  \/ own[i].pc = "run" /\ job[Loop(i)].what = "prompt" /\ job[Loop(i)].pc = "save"

\* The owner's handler.  With a running prompt the agent is told (it may refuse) and the
\* record is changed beside the turn; without, or before the turn has its agent, it is an
\* operation of its own.
Handle(c, op) ==
  LET i == cmd[c].id
      Act(what) == Goto(c, "job") /\ job' = [job EXCEPT ![c] = Start(what, i)] IN
  /\ cmd[c].pc = "handler" /\ cmd[c].op = op
  /\ \/ (cmd[c].via = "leaver" \/ own[i].pc # "turned") /\ Act(op)
     \/ cmd[c].via = "owner" /\ Controlled(i) /\ Act("persist")
     \/ cmd[c].via = "owner" /\ Controlled(i) /\ Goto(c, "done") /\ UNCHANGED job
  /\ UNCHANGED <<rec, agent, archive, ownVars, crashes, history>>

HandleSetMode(c)   == Handle(c, "set-mode")
HandleSetConfig(c) == Handle(c, "set-config")
HandleClose(c)     == Handle(c, "close")

\* A request in the queue, and an owner for it.  Beside a running prompt the command does
\* not wait but changes the record itself.
Enqueue(c) ==
  LET i == cmd[c].id
      beside == cmd[c].live /\ cmd[c].op \in {"set-mode", "set-config"} IN
  /\ cmd[c].pc = "enqueue"
  /\ queue' = [queue EXCEPT ![i] = Append(@, c)]
  /\ \E alive \in LeaseAlive(i) :
       /\ lease' = [lease EXCEPT ![i] = alive]
       /\ own' = IF ~alive /\ own[i].pc = "down" THEN [own EXCEPT ![i].pc = "spawned"] ELSE own
  /\ job' = IF beside THEN [job EXCEPT ![c] = Start("persist", i)] ELSE job
  /\ Goto(c, IF beside THEN "job" ELSE "waiting")
  /\ UNCHANGED <<rec, agent, archive, claimed, crashes, history>>

Tell(c, i) == told' = [told EXCEPT ![i] = @ \cup Tells(cmd[c].op)]

\* The command has done the operation itself, or could not.
CommandReturns(c) ==
  LET ok == job[c].pc = "ok" IN
  /\ cmd[c].pc = "job" /\ cmd[c].via = "self" /\ job[c].pc \in {"ok", "error"}
  /\ Goto(c, IF ok /\ cmd[c].op = "new" THEN "find" ELSE "done")
  /\ IF ok THEN Tell(c, job[c].id) ELSE UNCHANGED told
  /\ job' = [job EXCEPT ![c] = NoJob]
  /\ UNCHANGED <<rec, agent, archive, ownVars, crashes, lost, cause, twins, late, pruned, imported>>

\* The handler answers, and the owner is to close after a close.
HandlerReturns(c) ==
  LET i  == job[c].id
      ok == job[c].pc = "ok" IN
  /\ cmd[c].pc = "job" /\ cmd[c].via # "self" /\ job[c].pc \in {"ok", "error"}
  /\ Goto(c, "done")
  /\ IF ok THEN Tell(c, i) ELSE UNCHANGED told
  /\ own' = IF ok /\ cmd[c].op = "close" /\ cmd[c].via = "owner"
              THEN [own EXCEPT ![i].closeReq = TRUE] ELSE own
  /\ job' = [job EXCEPT ![c] = NoJob]
  /\ UNCHANGED <<rec, agent, archive, queue, claimed, lease, crashes, lost, cause, twins, late, pruned, imported>>

-----------------------------------------------------------------------------
\* The owner of a session (runInternalOwner).

LoopStarts(i, what, pc) ==
  /\ job' = [job EXCEPT ![Loop(i)] = Start(what, i)]
  /\ own' = [own EXCEPT ![i].pc = pc]

\* A request that was running is queued again, and then the record is unmarked.
Acquire(i) ==
  /\ own[i].pc = "spawned" /\ ~lease[i]
  /\ lease' = [lease EXCEPT ![i] = TRUE]
  /\ claimed' = [claimed EXCEPT ![i] = FALSE]
  /\ IF claimed[i] THEN LoopStarts(i, "unmark", "clear")
                   ELSE own' = [own EXCEPT ![i].pc = "top"] /\ UNCHANGED job
  /\ UNCHANGED <<rec, agent, archive, cmd, queue, crashes, history>>

TakeRequest(i) ==
  /\ own[i].pc = "top" /\ ~own[i].closeReq /\ queue[i] # <<>>
  /\ LoopStarts(i, "mark", "mark")
  /\ UNCHANGED <<rec, agent, archive, cmd, queue, claimed, lease, crashes, history>>

\* ShouldClose: a handler has closed the session, the owner does so again.
CloseOnLeave(i) ==
  /\ own[i].pc = "top" /\ own[i].closeReq
  /\ LoopStarts(i, "close", "closing")
  /\ UNCHANGED <<rec, agent, archive, cmd, queue, claimed, lease, crashes, history>>

IdleExit(i) ==
  /\ own[i].pc = "top" /\ ~own[i].closeReq /\ queue[i] = <<>>
  /\ own' = [own EXCEPT ![i].pc = "exit"]
  /\ UNCHANGED <<rec, agent, archive, cmd, job, queue, claimed, lease, crashes, history>>

Returned(i, pc) == own[i].pc = pc /\ job[Loop(i)].pc \in {"ok", "error"}
Succeeded(i) == job[Loop(i)].pc = "ok"

\* Marked, the request runs; without a record the owner leaves.
RunRequest(i) ==
  /\ Returned(i, "mark")
  /\ IF Succeeded(i) THEN LoopStarts(i, cmd[Head(queue[i])].op, "run")
       ELSE own' = [own EXCEPT ![i].pc = "exit"] /\ job' = [job EXCEPT ![Loop(i)] = NoJob]
  /\ UNCHANGED <<rec, agent, archive, cmd, queue, claimed, lease, crashes, history>>

\* <-cancelDone
TurnSaved(i) ==
  /\ Returned(i, "run") /\ Succeeded(i) /\ job[Loop(i)].what = "prompt"
  /\ own' = [own EXCEPT ![i].pc = "turned"]
  /\ UNCHANGED <<rec, agent, archive, cmd, job, queue, claimed, lease, crashes, history>>

\* The request file is saved with its outcome, then the record is unmarked.
SaveRequest(i) ==
  LET c == Head(queue[i]) IN
  /\ \/ Returned(i, "turned")
     \/ Returned(i, "run") /\ ~(Succeeded(i) /\ job[Loop(i)].what = "prompt")
  /\ queue' = [queue EXCEPT ![i] = Tail(@)]
  /\ claimed' = [claimed EXCEPT ![i] = FALSE]
  /\ cmd' = IF cmd[c].pc = "waiting" THEN [cmd EXCEPT ![c].pc = "done"] ELSE cmd
  /\ told' = IF cmd[c].pc = "waiting" /\ Succeeded(i)
               THEN [told EXCEPT ![i] = @ \cup Tells(cmd[c].op)] ELSE told
  /\ own' = [own EXCEPT ![i].pc = "unmark", ![i].leave = Succeeded(i) /\ cmd[c].op = "close"]
  /\ job' = [job EXCEPT ![Loop(i)] = Start("unmark", i)]
  /\ UNCHANGED <<rec, agent, archive, lease, crashes, lost, cause, twins, late, pruned, imported>>

\* The next round, or the end of the loop.
NextRound(i) ==
  /\ \E pc \in {"clear", "unmark", "closing"} : Returned(i, pc)
  /\ own' = [own EXCEPT ![i].pc = IF own[i].leave \/ @ = "closing" THEN "exit" ELSE "top"]
  /\ job' = [job EXCEPT ![Loop(i)] = NoJob]
  /\ UNCHANGED <<rec, agent, archive, cmd, queue, claimed, lease, crashes, history>>

\* The deferred exit: the socket and the lease go first, and then the record is unmarked,
\* by when another owner may be at work.  (Bound: one such process a session.)
LeaveOwner(i) ==
  /\ own[i].pc = "exit" /\ job[Exit(i)].pc = "none"
  /\ own' = [own EXCEPT ![i] = Down]
  /\ lease' = [lease EXCEPT ![i] = FALSE]
  /\ job' = [job EXCEPT ![Exit(i)] = Start("unmark", i)]
  /\ cmd' = [c \in Cmds |-> IF c \in Handled(i, "owner") THEN [cmd[c] EXCEPT !.via = "leaver"] ELSE cmd[c]]
  /\ UNCHANGED <<rec, agent, archive, queue, claimed, crashes, history>>

Exited(i) ==
  /\ job[Exit(i)].pc \in {"ok", "error"}
  /\ job' = [p \in Proc |-> IF p = Exit(i) \/ p \in Handled(i, "leaver") THEN NoJob ELSE job[p]]
  /\ Unserved(Handled(i, "leaver"))
  /\ UNCHANGED <<rec, agent, archive, ownVars, crashes, history>>

Crash(i) ==
  /\ Up(i) /\ crashes < MaxCrashes
  /\ crashes' = crashes + 1
  /\ job' = [p \in Proc |-> IF p \in JobsOfOwner(i) THEN NoJob ELSE job[p]]
  /\ OwnerDies(i)
  /\ UNCHANGED <<rec, agent, archive, queue, claimed, lease, lost, told, cause, twins, pruned, imported>>

-----------------------------------------------------------------------------
Next ==
  \/ \E p \in Proc : Load(p) \/ Probe(p) \/ Save(p)
  \/ \E c \in Cmds : \/ Lookup(c) \/ Find(c) \/ Create(c) \/ Exec(c) \/ NoAgent(c) \/ Import(c)
                     \/ List(c) \/ (\E i \in Ids : Delete(c, i)) \/ Resolve(c) \/ Export(c)
                     \/ RunSetMode(c) \/ RunSetConfig(c) \/ RunClose(c) \/ RunPrompt(c) \/ RunCancel(c)
                     \/ HandleSetMode(c) \/ HandleSetConfig(c) \/ HandleClose(c)
                     \/ Enqueue(c) \/ CommandReturns(c) \/ HandlerReturns(c)
  \/ \E i \in Ids : \/ Acquire(i) \/ TakeRequest(i) \/ CloseOnLeave(i) \/ IdleExit(i)
                    \/ RunRequest(i) \/ TurnSaved(i) \/ SaveRequest(i) \/ NextRound(i)
                    \/ LeaveOwner(i) \/ Exited(i) \/ Crash(i)

Spec == Init /\ [][Next]_vars

-----------------------------------------------------------------------------
Cmd == [op : Ops, pc : {"lookup", "find", "create", "exec", "list", "delete", "import", "export", "resolve",
                        "decide", "handler", "enqueue", "job", "waiting", "done"},
        id : Ids \cup {0}, via : {"self", "owner", "leaver"}, live : BOOLEAN, alone : BOOLEAN,
        beside : BOOLEAN, left : SUBSET Ids]
Job == [what : Ops \cup {"none", "persist", "mark", "unmark"},
        pc : {"none", "load", "probe", "save", "ok", "error"}, id : Ids \cup {0},
        copy : Record \cup {None}, fresh : BOOLEAN]
Owner == [pc : {"down", "spawned", "clear", "top", "mark", "run", "turned", "unmark", "closing", "exit"},
          closeReq : BOOLEAN, leave : BOOLEAN]

\* Every variable has its type; a job that is to save has a copy.
TypeOK ==
  /\ rec \in [Ids -> Record \cup {None}]
  /\ agent \in {"plain", "modes", "options"}
  /\ archive \in [id : Ids, record : Record] \cup {None}
  /\ cmd \in [Cmds -> Cmd]
  /\ job \in [Proc -> Job]
  /\ \A p \in Proc : /\ job[p].pc \in {"probe", "save"} => job[p].copy # None
                     /\ job[p].pc # "none" => job[p].id # 0
  /\ own \in [Ids -> Owner]
  /\ queue \in [Ids -> Seq(Cmds)]
  /\ claimed \in [Ids -> BOOLEAN] /\ lease \in [Ids -> BOOLEAN]
  /\ crashes \in 0..MaxCrashes
  /\ told \in [Ids -> SUBSET {"mode", "config", "close"}]
  /\ {lost, cause, twins, late, pruned, imported} \subseteq SUBSET Ids

\* A session is closed only after a command that may close it: a close, a sessions new, an
\* exec or a set-mode (record.Mode is what RunTurnWithCancelObserved goes by), or under an
\* agent that reports modes.  No copy that somebody holds, however old, says otherwise.
ClosedForAReason ==
  agent # "modes" =>
    \A i \in Ids : Open(i) \/ rec[i] = None \/ i \in cause

\* The record shows a change, or what the agent has put over it.
Shows(tag, r) ==
  /\ tag = "close" => r.closed
  /\ tag = "mode" /\ agent # "modes" => r.mode = "plan"
  /\ tag = "config" /\ agent # "options" => r.config # "unset"

\* What set-mode, set and close have told the user is in the record of a session as long
\* as it exists, whoever else was at work on it, unless somebody saved a copy over it that
\* he had loaded before the change: RunTurnWithCancelObserved, persistQueuedControlState
\* and the operations of the manager all may.  (An agent with modes or options has the last
\* word on these.)
ToldIsKept ==
  \A i \in Ids \ (lost \cup imported) : rec[i] # None =>
    \A tag \in told[i] : Shows(tag, rec[i])

\* EnsureSession and sessions new leave one open session of a name, however many commands
\* run, but for one created while another was, one whose twin was hidden from FindByKey by
\* a closed record, an imported one, and one that a save of an old copy has reopened.
OneOpenSession ==
  \A i, j \in OfKey("named") : Open(i) /\ Open(j) /\ i # j =>
    {i, j} \cap (twins \cup lost) # {}

\* ActiveRequestID, by which commands choose between waiting and changing the record
\* themselves and which cancel takes for its target, is that of a running request: while
\* the owner runs one, and otherwise only if the next owner will find that request running
\* and clear it.  Not so after a save of an old copy, an import, an owner that ended before
\* it could clear, or one that cleared the mark of its successor.
ActiveIsRunning ==
  \A i \in Ids \ (lost \cup late \cup imported) : rec[i] # None =>
    /\ rec[i].active => \/ own[i].pc \in {"clear", "mark", "run", "turned", "unmark"}
                        \/ ~Up(i) /\ claimed[i]
    /\ own[i].pc \in {"run", "turned"} => rec[i].active

\* A pruned session comes back only by an import, or by the save of a copy that was
\* loaded before the prune deleted the record.
PrunedIsGone ==
  \A i \in pruned : rec[i] # None => i \in lost \cup imported

\* What SessionLife sees of the records.
LifeOf == [i \in Ids |-> IF i \in lost \cup imported THEN "contested"
                         ELSE IF rec[i] # None THEN "kept"
                         ELSE IF i \in pruned THEN "gone" ELSE "absent"]
HasOf == [i \in Ids |-> IF rec[i] = None \/ i \in lost \cup imported THEN {}
                        ELSE {tag \in {"mode", "config", "close"} : Shows(tag, rec[i])}]
Session == INSTANCE SessionLife WITH life <- LifeOf, has <- HasOf, heard <- told

\* Whoever works on a record beside whom, for how long ever, and whatever owner dies: each
\* operation is one change of the record that no other undoes, and a prune, which looks at
\* the records long before it deletes them, deletes closed ones only, unless a copy was saved
\* over a change or the record was imported (manager.go:592-650, 1003-1068).
ImplementsSession == Session!SessionSpec

\* README.md:70: "Durable named session"; docs/architecture.md:84: "map scoped (agent, cwd,
\* name) identities to persistent records".  A session created as persistent stays open
\* until a command that closes sessions, or sets its mode, is run on it.
DurableStaysOpen ==
  \A i \in Ids : Open(i) \/ rec[i] = None \/ i \in cause
=============================================================================
