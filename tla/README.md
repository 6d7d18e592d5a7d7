# TLA+ models of acp-go

acp-go starts an ACP agent (a child process that speaks JSON-RPC over stdio), keeps
sessions with it as files, and runs queued work in a background process. This directory
holds TLA+ modules of the parts where order, failure and concurrency decide whether it
works, TLC configurations that check them on small instances, and TLAPS proofs of the
main invariants for instances of any size.

    tlc -workers 2 -config MCOwnerLease.cfg MCOwnerLease.tla
    tlapm OwnerLease_proofs.tla

## The system

| part | code | state | operations | how it meets the others |
|---|---|---|---|---|
| owner lease | `queue.go`, `pid_unix.go` | one JSON file per session: pid, heartbeat, generation, socket path | TryAcquireLease, RefreshLease, ClearLease, ProbeOwner | every command probes it; `internal-owner` acquires, refreshes, clears |
| request queue | `queue.go` | one JSON file per request: kind, status, cancel mark, result; a stream file | Enqueue*, NextPending, RequestCancel, RequeueOrphanedRunningRequests, Save, Load, AppendRawMessage | commands enqueue, cancel and poll; the owner claims and finishes |
| owner loop | `cmd/acp-go/main.go`: runInternalOwner | the request in hand, heartbeat ticker, idle clock | acquire, requeue, claim, run, save, leave | calls the runtime manager, is called back by it, shares a mutex with the socket server |
| owner socket server | `cmd/acp-go/owner_ipc.go` | subscribers, cancelers, active controller, closeRequested | submit, cancel, set mode/model/config, close, Emit* | one goroutine per connection, beside the loop |
| runtime manager | `manager.go`, `session.go`, `store.go`, `history.go` | one record file per session, a history file | EnsureSession, RunTurn*, SetSession*, Status, Cancel, CloseSession, import, export, prune | used by commands and owner at once; a client per call |
| ACP client | `client.go`, `client_manager.go` | process, session id, prompt state, activity | Start, initialize, NewSession, ResumeSession, Prompt, shutdown, read loop, permission and file requests | goroutines: read loop, request sender, handlers, caller |
| transport | `transport.go` | next id, pending responses | SendRequest, DeliverResponse, Read/Write | read loop delivers what callers wait for |
| permissions | `permission.go`, `client.go` | policy, handlers | decide, select an option, authorise a path | called by the read loop's handlers |
| buffers | `activity_trail.go`, `output_tail.go` | bounded lists | add, snapshot | |
| the rest | `types.go`, `droid_types.go`, `errors.go`, `discovery.go`, `registry.go`, `codex_launch.go`, `process_*.go`, `config_store.go`, `runtime.go`, `prompt.go`, `logger.go` | | data types, JSON forms, looking for executables, argument lists, configuration | no interaction between steps |

What is hard: files are the only thing processes share, and every update of one is a load
followed by a save or a remove; the owner may crash, be killed, be slow or be replaced;
the loop, the turn, two helper goroutines and the socket handlers run at once in the
owner; a cancel, a close, an answer and a restart can meet at any point.

What would make each part correct:

- lease: one owner at a time; whoever acts on a lease acts on the one it judged; a dead
  owner is replaced; the lease leads to the owner that serves.
- queue and loop: a request is executed once, its end is final, it is never left behind;
  a cancel reaches the request it was meant for and no other.
- sockets: every subscriber gets the result of its prompt and is released.
- session records: no update is lost; one record per key; closed stays closed.
- client and transport: each call gets its own answer or an error; a prompt ends with its
  own completion; nothing waits for ever after the process has gone.

## Modules

| module | models |
|---|---|
| `OwnerLease` | the lease file, the life of owner processes, those that probe, spawn and terminate: commands, socket handlers and owners that close their session |
| `OwnerLease_proofs` | its invariants proved |
| `RequestLife` | what the queue promises: the life of a request, and what who waits is told of it |
| `OwnerQueue` | the request files, the active request in the session record, the owner loop, the turn with its goroutines, cancels and closes; implements `RequestLife` |
| `OwnerQueue_proofs` | its invariants and the refinement proved |
| `OwnerIPC` | a prompt on its way to the owner and back: socket, subscribers, streams, the fallback to request file and log, and the owner that leaves, dies or is replaced; implements `RequestLife` too |
| `OwnerIPC_proofs` | its invariants and the refinement proved |
| `SessionLife` | what the manager promises of a session record to those who work on it side by side |
| `RuntimeSession` | the session records under commands, owners and socket handlers that load, work and save side by side; implements `SessionLife` |
| `RuntimeSession_proofs` | its invariants and the refinement proved |
| `Rpc` | what the transport promises: one answer of its own, or a failure, per call |
| `Transport` | ids, the pending table, concurrent SendRequest calls, the read loop's delivery; implements `Rpc` |
| `Transport_proofs` | its invariants and the refinement proved |
| `Client` | promptInternal, its sender, the read loop, cancels and shutdown, over what `Rpc` promises |
| `Client_proofs` | its invariants proved |
| `ClientManager` | clients and their agent processes: Get, EnsureReady, Start, the session requests, shutdown, CloseAll |
| `Permissions` | the policy and the choice among an agent's options, as operators |
| `ClientManager_proofs` | that a client owns its agent, proved of its steps |
| `AgentRequests` | composes `ClientManager` and `Permissions`: the readers of all processes, and what agents ask of a client that is started, closed and restarted meanwhile |
| `AgentRequests_proofs` | its invariants proved |
| `MCOwnerLease`, `MCOwnerQueue`, `MCOwnerIPC`, `MCRuntimeSession`, `MCTransport`, `MCClient`, `MCClientManager`, `MCAgentRequests` | instances for TLC |

### OwnerLease

One action is one file operation: `OpenLease`, `WriteLease`, `LoadExisting`,
`JudgeExisting`, `ClearExisting` are TryAcquireLease; `Heartbeat`, `BeginRequest` and
`FinishRequest` load the lease for RefreshLease and `SaveLease` replaces it; `ProbeLoad`,
`ProbeJudge`, `ProbeClear` are ProbeOwner, which ensureOwnerProcess (`SpawnOwner`), Status
(`ProbeDone`) and CloseSession (`TerminateOwner`, `ClearKilled`) begin with. Its callers are
commands, the handlers of an owner's socket (`Cli`, both: they share nothing with the loop),
and the loop of an owner itself, which calls manager.CloseSession in a close request (`busy`)
and when it was asked to close (`BeginClosing`, main.go:2239, 2426). There it may clear a
lease that has gone stale, its own too, or terminate another process that has taken over,
and then start an agent and close its session, all of it away from its ticker. A process
holds the file it created even after another has unlinked it, as on Unix (`WriteLease`).

`file` is the lease; its `gen` names the process whose random generation it carries, so
"my lease" is `Mine(p, file)`. `file.age` counts heartbeat intervals since HeartbeatAt; a
lease is stale when it is older than `StaleTicks` (15s / 5s = 3). `Tick` advances time. An
owner outside a request handles its ticker within an interval; one in a request, or in its
own CloseSession, does not look at it (main.go:2245), and a contender may take any time.
That is all the timing the model assumes. Who reads a lease remembers pid and heartbeat
(`Seen`), and judges the age when he comes to it: it grows in his hands, too. The heartbeat
of a new lease is fixed before the first attempt (main.go:2197); `born` is how old it is by
the time it is written. `zombie` holds the pids of dead owners that still answer signal 0,
since the command that started them never waits.

`overdue` and `robbed` are history variables: a lease has gone stale, in the file or in
somebody's hands; the processes whose lease another process removed or replaced while they
held it (or they themselves, by their own probe). Not modelled: reuse of pids,
the queue depth in the lease, the failure of a load or a rename by the file system.

### OwnerQueue

One session's requests, one owner at a time (what `OwnerLease` shows to hold until
trouble). `req` is the files; `Save` replaces one. `mem` is the owner's copy from
NextPending to the last Save: of it only the cancel mark is ever used again. `own` is the
place in the loop and `turn` the place in RunTurnWithCancelObserved; `sig` is the closed
cancelCh, `told` the end of the goroutine that forwards it, `poller` the goroutine that
polls the file. A cancel is `CancelLoads` then `CancelSaves` (RequestCancel); by a command
directly, or by the socket handlers CancelPrompt and CloseSession, which check before and
signal after. Handlers die with the owner, at once with its lease; a command does not, and
when its handler has died it marks the file itself.

Whom a cancel or close hits is read from the session record: `active` is its ActiveRequestID.
The owner names the request in its hand (`Mark`) and unnames it (`NextRound`, `Unmark` after
a requeue, and `Exited`, the end of the deferred clean-up, which comes when the lease is free
and a successor may have named its own: `exiting`). It is wrong in between whenever somebody
saves a copy he loaded before: the turn (`tcopy`, saved by `TurnSaves`, manager.go:639) or
anybody else who loads, works and saves (`OldCopySaved`: any value the record has ever had,
`named`; main.go:610). An owner that dies leaves it as it is. `astray` remembers that one of
these happened. `CommandAims` is runCancel, which takes the request named, or else the
latest pending one; `CloseActive` takes the controller and `CloseAims` reads the record.

`ran`, `asked`, `aimed` and `strays` are history variables: executions by the present owner
process; requests a cancel has reached (it has loaded the file, or the agent has stopped);
requests a cancel or close was meant for, and those the record named to one that was meant
for another. A cancel is meant for the request it finds, unless the owner has named another
one; a close, which is of the session, also for the prompt whose controller it took, so that
a close which takes the controller of one prompt and reads the record when the next is named
is meant for both. What the agent answers, whether it can be started, whether a control
succeeds and whether a file operation fails are choices. Of the session record only the
active request is here, the rest is in `RuntimeSession`; result texts, stop reasons and
events are left out.

### RequestLife

What both modules of the queue implement. `life` is the status of each request, or
"contested" once somebody tries to cancel it: of those nothing is promised, since a cancel may
undo an outcome (queue.go:384). `heard` is what who waits was told, `up` that an owner is at
work. `Start` takes a queued request while nothing else runs, `Finish` gives it its outcome for
good, `Recover` is a new owner that puts back what it finds running, one file at a time and all
of it before it goes to work, and `Tell` tells no other outcome than the one there is.
`OwnerQueue` maps it to the owner in its loop, with cancels, closes and errors anywhere;
`OwnerIPC` maps a prompt to its two requests, of which only the one its command followed is
told about. What either does beside, the sockets, logs, signals and goroutines, is a stutter.

### OwnerIPC

A command is one call of runPrompt. `LoadLease`, `Dial`, `ReadEnvelope` and `StreamEnds`
are streamQueuedPromptViaOwnerSocket; `Enqueue`, `EnsureOwner`, then `LoadRequest` and
`PollLog` in turns are the way through the file. `HandlerEnqueues`, `HandlerRegisters` and
`HandlerAccepts` are handleSubmitPrompt, a goroutine of the owner, whose loop goes on between
any two of them; `HandlerRefuses` is the request that cannot be saved, which the client is
told of by an error envelope, with nothing queued. `EmitEvent`, `EndTurn` (which saves the outcome) and `EmitOutcome` are the
owner's side; `CloseServer`, `EndOwner` and `Crash` its ends. A connection keeps both its
ends apart: `open` is the owner's, `read` the command's, `wire` what is between.

The requests of a command are named by the way they took, <<c, "socket">> and
<<c, "file">>; nothing in the code links the two. `log` stands for the session's history
and for the raw messages of every request: `Fresh` is what a command of either mode takes
from it. `started` is the place in the log where StartedAt falls. `conn.missed`, `via` and
`told` are history: events before the registration, the way an outcome came, the outcome.

One owner runs at a time and no lease goes stale: `OwnerLease` has what happens otherwise.
How a turn ends is left open here; `OwnerQueue` shows that it takes a cancel. Left out: the
record of the session, the other socket requests, and commands that run their prompt
themselves because nobody holds the session.

### RuntimeSession

`rec` is the record files; a save replaces a whole file by a rename. Every operation of
manager.go loads a record, works on its copy, often as long as an agent runs, and saves it:
a `job`, of a command, of an owner's loop (`Loop(i)`, `Exit(i)`) or of a socket handler, with
one step that loads and a later one that saves. What it saves is an operator of what it has
loaded (`Turn`, `SetMode`, `CloseRecord`, `Persist`, `Unmark`), so each part of the record
that it does not mean to change is saved as it was when loaded. The owner is its place in
the loop (`own`), with the requests of the session in order (`queue`) and the first of them
marked running (`claimed`); leases and request files are taken in one step here, since
`OwnerLease` and `OwnerQueue` have their races.

A record has the four fields others decide by: mode, closed, ActiveRequestID (`active`: there
is one) and the options. `agent` says whether the agent reports modes or options of its own,
which applyClientSessionState puts over the record. The history variables name what the
exceptions of the invariants speak of: `lost` are the records over which a copy was saved
that somebody had changed since it was loaded, and so on.

### SessionLife

What `RuntimeSession` implements: a record is created, changed, pruned, and one is told what
was done, each in one step, though the code takes a load, a long piece of work and a save.
`has` is which changes a record shows (the mode that was set, the options that were set, that
it is closed), `heard` which of them somebody was told of. `Change` takes none of them away,
`Prune` takes a closed record only, and for good, and `Tell` tells of what the record shows.
`life` is "contested" once a copy that was no longer current has been saved over the record,
or it was imported: of those nothing is promised any more. That there is such a state is the
hazard of this code (manager.go:639, cmd/acp-go/main.go:610); that there is no other way for
a change to be undone, nor for a prune to take an open session, is what the refinement says.
Owners, leases, requests and the mark of the active request are stutters.

### Transport and Rpc

A call of SendRequest is a process: `Register`, `Write` or `WriteFails`, `TakeResponse` or
`TimerFires`, and `Leave` (the deferred delete). DeliverResponse is two steps, as in the
code: `Lookup` under pendingMu, `Deliver` after it; between them the call may have left.
A response carries, beside the id it names, the call it answers, which the code cannot see;
that is what lets `RefinesRpc` say that an answer is one's own. `answered` is history. The
peer may answer late, out of order and `MaxAnswers` times; it never invents an id.

### Client

It begins where EnsureReady ends: a process, a session, a read loop. A prompt is `Enter`
(execMu, running), `Reset` (prompt state, goroutine started) and one of the cases of the
select; `SendPrompt` and `SenderGets` are the goroutine, which promises what `Rpc` says.
The read loop is `CheckContext`, `FetchTransport`, `ReadLine` and a handler; session/update
is `HandleText` under promptMu and `Emit` after it. shutdown is four steps, each one visible
to the others. A behaviour has one of the `Settings`: whether the agent ends a turn by its
response or by session/prompt_complete, which failures may happen, how much text there is.

A chunk of text and an ending carry the prompt the agent meant, which the code does not
know. A session/cancel only writes to the agent, which may end a turn at any time, so it
changes nothing here. Left out: session/close before shutdown and tool calls.

The runtime manager starts a client per turn and sends it one prompt, so what one prompt
does to the next concerns users of the library (README of the repository: "a reusable ACP
library layer"); the rest concerns the queue's owner too.

### ClientManager, Permissions, AgentRequests

`ClientManager` has one record per client with the fields that Start, the session requests
and shutdown read and write, and the goroutines that run these. setupMu is `lock`; a
goroutine in Start goes through `Starts`, `Launch`, `Initialize`, `SetRunning`, and
EnsureSession's `KeepSession` or `LeaveSession`, `AskSession`, `Opened`, with each way to fail
beside them. shutdown is `Snapshot`, `Kill` and `Clear`, and takes setupMu nowhere: so it may
cross a Start, which `crossed` remembers of the client. `known` says who has a client: the
manager's table, a Get under way, callers, nobody. `home` is the client that started a
process. An agent may exit at any time (`AgentExits`), and nobody restarts it unasked.

`Permissions` has no variables: `Check`, `AllowedPath`, `FileDecision` and `PolicyDecision`
are the policy; `Select` is selectPermissionOptionID with its lists of kinds and ids in the
code's order.

`AgentRequests` adds a reader per process. It looks its client's transport up again before
each message (`FetchTransport`), handles the message itself, and answers over whatever
transport the client has when it is done (`Answer`): a user may take long to decide
(`AskUser`, `Decide`, `Pick`), with the client shut down and made ready again in between. The
policy is asked before the user and once more after (`Pick`), and callers may change it at any
time (`ChangePolicy`). An agent makes one request per process; options are `Sincere`: an
option whose kind says it allows does not bear the name of a rejection, and the reverse.

## Runs

| run | shows | bounds |
|---|---|---|
| `lease` | seven invariants of the lease | 2 owner processes (each can be crashed), 1 command or handler, staleness 1 |
| `lease_recovery` | a dead owner's lease is cleared | 1 process, 2 commands: one clears while the other may terminate, staleness 3 |
| `lease_race` | violated: one owner at a time, with no delay at all | 3 processes: the dead owner and two contenders |
| `queue` | types, at most one execution, running files, targets of cancels, refinement of `RequestLife`; a cancel mark ends the turn of the running prompt; the owner reaches every queued request or ends | a prompt before a close request, 1 cancel or close call, 2 starts of an owner, 1 crash or error |
| `queue_hang` | violated: an answered turn ends | 2 prompts, no cancel, no failure |
| `ipc` | types, prompts queued twice, streams without gaps, whole logs, refinement of `RequestLife`, nobody waits for what has ended | a waiting command in either mode and one that does not wait, 1 event logged, 1 failure: an owner that crashes, fails or closes, or a request that a handler cannot save |
| `session` | types, what closes a session, which changes are lost, twins, the mark of the active request, refinement of `SessionLife` | 3 record ids, 2 commands of any kind and an import, 1 crash of an owner, agents with modes, with options or with neither |
| `session_durable` | violated: a persistent session stays open | 2 ids, the same commands, no crash |
| `transport` | types, exact table, free reader, refinement of `Rpc`, calls end | 2 calls, 2 kinds of answers, 2 answers per request |
| `client` | a prompt's text is whole and streamed as returned; whose ending and text it takes; the end of the process is noticed without a timer | 2 prompts, up to 2 text messages each; timeouts and refusals with both styles of agent; cancels, exit, garbage and shutdown with one |
| `agent` | types, what is done was consented to, each client has to do with one process | 1 caller, 1 process, five policies and handlers with eight sets of options; 1 caller and a restart; 2 callers whose calls cross, and a restart |
| `manager_close` | violated: CloseAll closes all | 1 caller, 1 process, 1 client in the table and 1 made by Get |

The bounds are the least at which the races have all their actors. In `lease` two
processes are enough for a robbery of each kind but the one of `lease_race`, where the
first owner has to be dead and two others meet over its lease; with staleness 1 a lease is
fresh, at the limit or stale at every step at which it may be read or judged, and longer
counts only repeat the middle. In `queue` two requests give a cancel a wrong target and a
running request a successor; a close call is two cancels at once; one failure and two starts
give a requeue, a record left astray and a late clean-up. Several calls at once and further
failures are covered by the proofs. In `transport` a second call is
what an answer could go to by mistake, and a second answer what fills a channel. In `ipc` the
command that does not wait brings a request ahead of or behind the other's and the next
owner; one event is enough to be missed, dropped or left unread, and one failure to lose an
owner anywhere. In `session` two commands and the owners they start meet over one record and
over one key; the third id is for the twin of an imported one. In `client` the second prompt
is the one that meets what the first left. In `agent` a decision takes one request: more
would repeat it, since a reader keeps nothing from one to the next; the second process is the
one an answer or a notice may reach by mistake, and two callers are what a Start and a Close
need to cross.

Deadlock is not checked: owners, commands and callers come to their end.

### What the violations say

- `lease_race` (queue.go:491-498): the second of two contenders for a dead owner's lease
  removes the first's new lease, and both serve.
- `queue_hang` (manager.go:643, main.go:2353): the turn waits for a goroutine that waits
  for a channel its caller closes after the turn. Its lease goes stale (next list), so that
  a queued prompt, though answered, is run again by the owner the next command starts.
- `session_durable` (manager.go:628): one field holds the life of the session and the agent's
  mode, so that a turn of an agent with modes closes a persistent session.
- `manager_close` (client_manager.go:124): the clients that Get has started are not in the
  table that CloseAll goes through.

Other weaknesses that the models reach and that no run is spent on; the invariants say what
holds around them. Owner and queue:

- a request of more than 15s makes the lease of a live owner stale (main.go:2245), and the
  next command's probe clears it; so does the owner's own CloseSession on the way out, when
  an old copy has undone Closed and it starts an agent again (main.go:2240, 2427;
  manager.go:984), and an acquisition that takes as long. `IdleOwnerIsFresh` says that
  nothing else does, and `overdue` in the "until trouble" invariants is about that;
- a cancel or close goes to the request the session record names, which the save of an old
  copy, a dead owner or its late clean-up leaves wrong (owner_ipc.go:519, main.go:1053): the
  running prompt is not cancelled, or another request is. `CancelledOnlyIfAsked` has it as
  `astray`, and says that nothing else misleads a cancel;
- a crash between creation and write of the lease file (queue.go:475-477) leaves a file no
  load can decode and no step removes;
- a cancel loads, the owner saves the outcome, the cancel saves (queue.go:384): a finished
  request is back as it was, which is why `RequestLife` promises nothing of it;
- a claim saved from the copy NextPending loaded (main.go:2287) erases a cancel mark;
- the owner decides to leave before it gives up the lease (main.go:2262, 2160): a request
  enqueued in between waits for the next command;
- a command that has seen the end of its connection before `accepted` queues its prompt a
  second time (owner_ipc.go:674), and both may be run: `SubmittedOnce` says when;
- a command that falls back to polling prints again what it had streamed, and one in text
  mode prints the events of later prompts too (main.go:557-568).

Session records:

- the save at the end of a turn (manager.go:639) puts the record back to what it was before
  the prompt: a set-mode or a close in between is undone (`lost` in `ToldIsKept`);
- two commands that find no record create one each, and a closed record whose file is later
  in the list hides an open one from FindByKey, so that every ensure makes another
  (manager.go:345; `twins`);
- a leaving owner clears the lease before it unmarks the record (main.go:2229), by which
  time the mark may be its successor's; one that is killed leaves it; an import brings one
  along (`late`, `imported` in `ActiveIsRunning`).

Client and transport:

- an ending is attributed to whatever prompt is active when it arrives (client.go:1965),
  so that the prompt after a cancelled one may return at once; text that arrives after its
  prompt was given up becomes part of the next one's result (client.go:1447):
  `ForeignMeansAbandoned` bounds both;
- the select of promptInternal may take the end of the process before an answer that is
  ready (client.go:1096);
- the goroutine that writes a prompt may be overtaken by the cancel of that prompt
  (client.go:1009);
- shutdown clears a field that the read loop, the sender and a session request use without
  its lock (client.go:1150): `panicked`, the exception in `ProcessEndIsNoticed`;
- a shutdown that crosses a Start leaves a client that says it is running and has no process,
  or a process that no client has: `crossed`, the exception in `OwnsItsAgent`;
- a Get whose EnsureReady fails after Start leaves the process to nobody
  (client_manager.go:154);
- an approval that outlives a restart is written to the new process (client.go:1411), and a
  notice read before it is taken by a client that has no session yet: `late` and `stopped`
  in `AgentIsItsOwn`;
- a denial takes the first option without a kind, even one named "allow", when none says it
  rejects (client.go:2460), and a Factory option with an unknown name counts as allow_once
  (client.go:2368): the exception in `ActsByConsent`.

### Fairness

`OwnerLease!FairSpec`: owners start up and keep their heartbeat, commands keep probing
(status, prompt and cancel all do), time passes. Nothing is assumed of requests, which may
last for ever, nor of crashes. Time (`Tick`) is strongly fair because it waits for owners
that are between two file operations.

`OwnerQueue!FairSpec`: an owner that runs goes on: its loop, the turn, the cancel goroutine
and the poller. A prompt ends since the client gives up after its idle timeout. Nobody has to
enqueue, wait, cancel, close or fail. `AllFairSpec` (run `queue_hang`) also lets commands and
cancel calls under way go on, so that the hang is not for want of them.

`OwnerIPC!FairSpec`: the owner, its handlers and the commands go on, and an owner without
work ends (its idle timeout). No turn has to end and no event has to come, which is why
`EndedIsNoticed` excuses a subscriber whose owner is in another turn.

`Transport!FairSpec`: a call in its select leaves it, by its timer at the latest. A write may
block for ever (the peer need not read), so nothing is assumed of it.

`Client!FairSpec`: the read loop and a prompt that can go on do; the callback returns.
Nothing is assumed of timers, of the agent or of anybody who gives up. An exit here is one
that closes the pipe: a child that inherited the agent's output would hold it open.

`RuntimeSession`, `ClientManager` and `AgentRequests` state safety only: a command, a user or
an agent may stop anywhere.

## Proofs

`OwnerLease_proofs` and `OwnerQueue_proofs` prove, for any sets of processes, commands,
requests and calls, every invariant of the runs `lease` and `queue`, that an end is final
(`FinalUnlessCancelled`) and that `OwnerQueue` implements `RequestLife`. They assume the ASSUMEs of the two modules only: the bounds
are natural numbers, names are distinct.

`OwnerLease`. HolderIsNamed is almost inductive: between the two halves of RefreshLease the
owner carries a copy, so the copy must be its own (`RefreshCarriesOwn`). IdleOwnerIsFresh
needs the exact age while the ticker is due or not and before the loop, which starts from
`born` (`HeartbeatKept`), and that an owner's own probe falls within a request or its closing
(`LoopCalls`). That the judgement comes after the load is why the leases in everybody's hands
are counted in `overdue` (`AgeIsRecorded`).
The three "until trouble" invariants need more: while no holder has ended and no lease has
gone stale, the file always belongs to a holder (`FileIsHeld`), so every process that lost
O_EXCL finds it alive and gives up (`ContendersGiveUp`), and no caller of ProbeOwner comes to
clear it (`CallersKeepLease`). Neither holds without the other. These are stated under `Quiet` and
a step keeps them if `Quiet` still holds after it.

`OwnerQueue`. `Shape` ties variables to the place of the owner. `CancelTrail` follows a
cancel: mark in the file, copy, signal, answer, outcome; each belongs to a request in
`asked`. `AimTrail` follows it from the other end: wherever the mark, the signal or the answer
of a cancel is, the request is one that a cancel or close was meant for or strayed to
(`Hit`), and while nothing has led the record astray it names what the owner has in hand, so
that nothing strays (`RecordTrue`). `FileTrail` says what the file of a request that no
cancel has reached is at each place of the owner, which is where
`RequeueOrphanedRunningRequests` is needed. `RanTrail` then bounds executions.
The refinement takes the steps in groups, by what they do to a file: `FileTrail` says that the
only uncontested request that runs is the one in the owner's hand, so that a claim finds none
running and a requeue leaves none; `Present` adds that neither the owner nor a cancel saves a
request that was never in the queue, which needs it of all that the record has named
(`NamedPresent`) and of the calls that took their target from it (`CallsPresent`).
`WordKept` draws from it what `RequestLife` implies for the waiting commands: what one was
told is not undone by a restart.

`Transport_proofs` proves, for any calls, answers and number of answers, the three
invariants and `Spec => RefinesRpc`. The refinement needs that whatever lies in the table,
on the wire, in the pipe, in the reader's hand or in a channel belongs to the call it will
reach (`IdsAreOwn` to `HandIsOwn`), which rests on ids never being drawn twice; that the
reader is free needs that an answer is in one place at a time (`*Unrepeated`). They assume
`MaxAnswersAssumption` and `OutcomesAssumption` only.

`Client_proofs` proves, for any prompts, settings and number of messages, the four
invariants of the run `client`. `StreamInv` carries what a callback was told, or is about to
be told by the read loop which already holds it, along with the text collected while the
prompt still asks. `StoryInv` speaks of `Line`, the message in the read loop's hand followed
by the pipe, of which a step takes the first message, to which the agent adds one, or which
it leaves alone (`Shifts`, `SendsAppends`). In it the end of a turn is the last message of
the turn, and of the prompt that asks every message is in the text or in `Line`
(`TextCovers`); whoever knows of the end of a turn, a channel, a sender or a result, is past
all its messages (`PastInv`), hence has all its text. A message that comes to another prompt
belongs to one that returned without its end (`Lost`), and that one can no longer get it: it
may have been given up, or been ended by another's ending itself.
They assume the ASSUMEs of the module only.

`OwnerIPC_proofs` proves, for any commands, events and failures, the invariants of the run
`ipc`, that an outcome told is the one saved (`ToldIsSaved`), and that `OwnerIPC` implements
`RequestLife`. Its first invariant is the story of one
command: where the command, its connection, the handler and its two request files can be
together (`Places`); that an outcome on the wire, or told, is the terminal status in the file
(`Truth`); and that a stream which is closed without an outcome has lost its owner, so that a
command which is back at the queue was left by that owner, or had read the lease of another
(`Once`). A step of the owner or of another command keeps the story because it submits nothing,
changes no terminal status (`FilesKept`), brings no lost owner back (`GenKept`), and adds to a
connection only what is true (`ConnKept`). That no outcome is put on the wire before it is in
the file rests on the request the owner has in hand (`InHand`). A connection may also tell,
and then it tells nothing else, that nothing was queued, by a handler that is done
(`Outcome`).

On the story rest two more. `StreamInv` numbers what is on the wire: the events follow those
that were missed or read, with `accepted` anywhere between them (the owner may write before the
handler does) and an outcome at the end only; and while the command is subscribed and its
connection whole, missed, read and wire together are all that its owner has logged. An outcome
that arrives is read last, so the stream is complete. `PollInv` says that what a command has
printed grows and covers all of its request up to the place it has read the log to (`Covered`),
and that the last start of a request lies at or after the place it reads from. A request is
started before its events are logged and ends after them (`Begun`, `LogMoves`), nothing is
logged for one that was never queued (`LogInv`), and a status is
loaded before the log is read: a command that saw the end has all events when it has read the
log once more. `InOrderIs` is the lemma about the order of what is printed. The refinement needs
beside the story that an owner at work finds nothing running but what is in its hand
(`NoneBehind`), and that a step of one command leaves what others heard alone (`HeardSame`). They
assume the ASSUMEs of the module only.

`ClientManager_proofs` proves, for any clients, goroutines and processes, that a client which
no shutdown crosses owns its agent. The invariant `LifeInv` says of every such client what
the goroutines on it believe: who is in Start holds setupMu and has the client's process in
its local variable, who sets up a session finds the client running, a shutdown under way has
the client's process in hand or has ended it (`LocalsAreTrue`), and all other processes the
client ever had are stopped (`ProcIsKnown`). It is inductive since a step has to do with one
client (`StepOf`, `OthersKept`), and on that client with one goroutine, or else the client is
in `crossed`. `AgentRequests_proofs` builds on it: a reader reads from a process of its own
client (`Fits`), so that an answer goes to the process that asked or to one that has replaced
it, and then the first was stopped. Consent needs what is proved of `Select` for any list of
options: the least pair of wish and option exists, an option that is selected for an approval
allows, one that is selected for a denial does not unless nothing rejects, and one for good
is taken only when the policy agrees or nothing else is there (`SelectAllows`,
`SelectDenies`). They assume the ASSUMEs of the modules, `SettingsAssumption` above all: the
options of agents are `Sincere`. Without that assumption an option could say two things at
once, and the theorem says nothing of it. Nor does it of a denial that finds no option to
reject by: one without a kind is then selected, whatever it is called.

`RuntimeSession_proofs` proves all five invariants of the run `session`, that a pruned record
stays away (`PrunedIsGone`) and that `RuntimeSession` implements `SessionLife`, for any records,
commands, kinds of agent and crashes. What makes them inductive is a statement about the
copies (`JobOK`): one that is fresh is the record, so that a save of it changes only what
its operation is for (`SavesIs`), and a save of any other puts the id into `lost`, about
which nothing is promised (`Faithful`). An operation that has ended well has its change in
the record until somebody else's old copy replaces it, so the answer that follows is true;
a queued request leaves the queue only after its operation ended, hence the same of the
owner's answer (`LoopOK`). A copy, fresh or not, is closed or has another mode only if its
id is in `cause` (but for agents that report modes), which is why an old copy can reopen a
session, but closes only one that something was asked to close.
`MarkOK` follows the mark through the owner's loop beside `claimed`, which is saved before
it and survives a crash; `CmdOK` says of a command that is about to create a session alone
that every other open one was reopened. A step of a command, or of the owner's loop, that
touches no record keeps the parts of everybody else (`CommandStep`, `LoopStep`); the steps
that create, import or delete one share `RecordStep`. The refinement takes each save by its
copy: of one that is fresh `SavesIs` says that it shows what the record showed, and any other
contests the record. For a prune it needs one invariant more (`LeftOK`): what a prune has
listed and not deleted yet is closed still, was deleted by another prune, or is contested, and
no step but the listing itself adds to what is left (`LeftStays`). They assume the ASSUMEs of
the module only.

Only model-checked: `DeadLeaseIsCleared`, `RunningCancelTakesEffect`, `OwnerDrains`,
`EndedIsNoticed`, `CallsEnd` and `ProcessEndIsNoticed`, which are liveness under fairness and
out of the prover's reach, and the violations, each of which is one counterexample. Every
invariant and every refinement the runs check is proved.

## Not modelled, and why

- `OwnerQueue`: a socket handler that outlives its owner's lease by the few steps between the
  deferred ClearLease and the end of the process. Handlers end with the lease there.
- `OwnerQueue`, `RuntimeSession`: files that cannot be decoded, and two writers of one `.tmp`
  file at once (queue.go:275). Both are a matter of bytes: an action that splits each save in
  two, with a mixture as an outcome, doubles the steps of every actor and puts the instances
  past what TLC can do in minutes.
- The composition of lease and queue with two owners that serve one session at once. The
  lease's invariants say when there are none; with two of them, every property of the queue
  fails at the first step, as `lease_race` and the list above show.
- `Client`: the handlers of an agent's requests, which run in the read loop (client.go:1332,
  2229) and hold it up as long as a user decides. They are in `AgentRequests`;
  `ProcessEndIsNoticed`, which is about `Client`, so assumes that they return. Tool calls and the Factory protocol's turn states, which change what events are
  emitted and not which prompt they go to; ListSessions and the mode and config requests, which
  are each one call of SendRequest (`Transport`).
- `ClientManager`: Register, which replaces a client of the table that nobody has started, the
  setters (whose handlers do not reach the clients Get has made) and the queries.
- `RuntimeSession`: ListSessions, ListAgentSessions and ReadHistory, which change nothing;
  FindSession's walk to the parent directories; summaries.
- History and stream files: the limits of a line (history.go:96) and Delete.
- Activity trail and output tail: two bounded lists, each behind one mutex, with every
  operation in one critical section.
- JSON forms and protocol types, discovery and launch of agents, argument lists, the
  configuration file, flows, rendering, logging: no state that steps of different actors share.
