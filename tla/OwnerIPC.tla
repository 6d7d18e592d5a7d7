------------------------------- MODULE OwnerIPC -------------------------------
(***************************************************************************)
(* How a prompt reaches the owner of a session and its outcome comes back  *)
(* (cmd/acp-go/owner_ipc.go, and runPrompt in main.go): over the owner's   *)
(* socket, as a stream of events that ends with a result, or through a     *)
(* request file, which the command polls together with the log of the      *)
(* session; and every way from the one to the other when an owner leaves,  *)
(* dies or is replaced on the way.                                         *)
(*                                                                         *)
(* A command submits one prompt.  By the socket the owner's handler writes *)
(* the request <<c, "socket">>, by itself the command writes <<c, "file">>.*)
(* One owner runs at a time, as OwnerLease shows while leases are fresh,   *)
(* and turns end when they will: OwnerQueue has their parts and cancels.   *)
(***************************************************************************)
EXTENDS Naturals, Sequences, FiniteSets

CONSTANTS
  Cmds,         \* prompt commands
  Waiting,      \* those that wait for the outcome (--wait, the default)
  MaxEvents,    \* bound: events logged
  MaxFailures   \* bound: owners that crash, meet an error or are told to close,
                \*   and requests a handler cannot save

ASSUME WaitAssumption  == Waiting \subseteq Cmds
ASSUME BoundAssumption == MaxEvents \in Nat /\ MaxFailures \in Nat

VARIABLES
  file,      \* the request files
  log,       \* the events of all executions: session history and raw messages
  own,       \* where the owner process is
  gen,       \* the generation of the latest owner that acquired the lease
  lease,     \* the generation in the lease file, 0 without a file
  cur,       \* the request the owner runs
  out,       \* the status it has saved and not announced
  subs,      \* ownerIPCServer.subscribers: the commands whose connection is one
  conn,      \* the connection of each command
  cmd,       \* the commands
  failures   \* how many so far
ownVars == <<own, gen, lease, cur, out>>
vars == <<file, log, ownVars, subs, conn, cmd, failures>>

Req   == Cmds \X {"socket", "file"}
NoReq == <<>>

Statuses == {"absent", "queued", "running", "completed", "failed"}
Terminal(s) == s \in {"completed", "failed"}

\* started is the place in the log from which events are not before StartedAt;
\* order is that of the CreatedAt.
NoFile == [status |-> "absent", order |-> 0, started |-> 0]

Holding == own \notin {"down", "spawned"}
\* From net.Listen to ipcServer.Close.
Listening == own \in {"idle", "running", "saved", "leaving"}

Envelope(type, nth, status) == [type |-> type, nth |-> nth, status |-> status]

NoConn == [gen |-> 0, srv |-> "none", missed |-> 0, open |-> FALSE, read |-> FALSE, wire |-> <<>>]

NewCmd == [pc |-> "lease", json |-> FALSE, read |-> 0, mine |-> NoReq, streamed |-> <<>>, polled |-> <<>>,
           seen |-> 0, since |-> 0, via |-> "none", told |-> "absent"]

\* The number of events owner g has logged for a request, and the present owner.
Logged(r, g) == Cardinality({i \in 1..Len(log) : log[i].of = r /\ log[i].gen = g})
Executed(r) == Logged(r, gen)

\* The elements of a finite set of numbers from the least to the greatest.
InOrder(S) == [k \in 1..Cardinality(S) |->
                 CHOOSE i \in S : Cardinality({j \in S : j <= i}) = k]

\* The queued request with the earliest CreatedAt.
NextPending(r) ==
  /\ file[r].status = "queued"
  /\ \A s \in Req : file[s].status = "queued" => file[r].order <= file[s].order

Enqueued(r) ==
  file' = [file EXCEPT ![r] =
    [status  |-> "queued", started |-> 0,
     order   |-> Cardinality({s \in Req : file[s].status # "absent"}) + 1]]
-----------------------------------------------------------------------------
\* An owner waits for work, and sessionShouldUseQueue has sent every waiting command
\* its way, long ago perhaps.  With --json a command prints raw messages.
Init ==
  /\ file = [r \in Req |-> NoFile] /\ log = <<>>
  /\ own = "idle" /\ gen = 1 /\ lease = 1 /\ cur = NoReq /\ out = "absent"
  /\ subs = {} /\ conn = [c \in Cmds |-> NoConn]
  /\ \E json \in SUBSET Waiting :
       cmd = [c \in Cmds |-> [NewCmd EXCEPT !.pc = IF c \in Waiting THEN @ ELSE "enqueue",
                                            !.json = c \in json]]
  /\ failures = 0

-----------------------------------------------------------------------------
\* The command.

Goto(c, pc) == cmd' = [cmd EXCEPT ![c].pc = pc]

\* What a look at the lease may find: a dead owner's pid answers as long as the
\* command that started it has not waited for it (OwnerLease).
LeaseAlive == IF lease = 0 THEN {FALSE} ELSE IF Holding THEN {TRUE} ELSE BOOLEAN

\* ProbeOwner clears a lease it finds dead.
Probe(alive) == lease' = IF alive THEN lease ELSE 0

LoadLease(c) ==
  /\ cmd[c].pc = "lease"
  /\ \E alive \in LeaseAlive :
       cmd' = [cmd EXCEPT ![c].pc = IF alive THEN "dial" ELSE "enqueue",
                          ![c].read = IF alive THEN lease ELSE 0]
  /\ UNCHANGED <<file, log, ownVars, subs, conn, failures>>

\* The socket path is the session's: it leads to whatever owner listens now.
Dial(c) ==
  /\ cmd[c].pc = "dial"
  /\ IF Listening
       THEN /\ conn' = [conn EXCEPT ![c] = [gen |-> gen, srv |-> "called", missed |-> 0, open |-> TRUE,
                                            read |-> TRUE, wire |-> <<>>]]
            /\ Goto(c, "reading")
       ELSE Goto(c, "enqueue") /\ UNCHANGED conn
  /\ UNCHANGED <<file, log, ownVars, subs, failures>>

\* Back to the queue, for the request that was accepted or with one of its own.
LeaveStream(c) == IF cmd[c].mine # NoReq THEN "ensure" ELSE "enqueue"

\* A plausible bug: a failed prompt is queued once more.
ReadEnvelopeRetrying(c) ==
  /\ cmd[c].pc = "reading" /\ conn[c].wire # <<>>
  /\ LET e == Head(conn[c].wire)
         mismatch == conn[c].gen # cmd[c].read
         final == mismatch \/ e.type \in {"result", "error"}
     IN /\ conn' = [conn EXCEPT ![c].wire = IF final THEN <<>> ELSE Tail(@), ![c].read = ~final]
        /\ cmd' = [cmd EXCEPT ![c] =
             IF mismatch THEN [@ EXCEPT !.pc = LeaveStream(c)] ELSE
             CASE e.type = "accepted" -> [@ EXCEPT !.mine = <<c, "socket">>]
               [] e.type = "event"    -> [@ EXCEPT !.streamed = Append(@, e.nth)]
               [] e.type = "result"   -> [@ EXCEPT !.pc = "done", !.via = "stream",
                                                   !.told = e.status]
               [] e.type = "error"    -> [@ EXCEPT !.pc = "enqueue"]]
  /\ UNCHANGED <<file, log, ownVars, subs, failures>>

\* The loop of streamQueuedPromptViaOwnerSocket.  An error after `accepted` is read
\* again from the request file; one without it ends the command: its prompt failed
\* before it was acknowledged, or could not be queued at all.
ReadEnvelope(c) ==
  /\ cmd[c].pc = "reading" /\ conn[c].wire # <<>>
  /\ LET e == Head(conn[c].wire)
         mismatch == conn[c].gen # cmd[c].read
         final == mismatch \/ e.type \in {"result", "error"}
     IN /\ conn' = [conn EXCEPT ![c].wire = IF final THEN <<>> ELSE Tail(@), ![c].read = ~final]
        /\ cmd' = [cmd EXCEPT ![c] =
             IF mismatch THEN [@ EXCEPT !.pc = LeaveStream(c)] ELSE
             CASE e.type = "accepted" -> [@ EXCEPT !.mine = <<c, "socket">>]
               [] e.type = "event"    -> [@ EXCEPT !.streamed = Append(@, e.nth)]
               [] e.type = "result"   -> [@ EXCEPT !.pc = "done", !.via = "stream",
                                                   !.told = e.status]
               [] e.type = "error"    ->
                    IF @.mine # NoReq THEN [@ EXCEPT !.pc = "ensure"]
                    ELSE [@ EXCEPT !.pc = "done", !.via = "stream", !.told = e.status]]
  /\ UNCHANGED <<file, log, ownVars, subs, failures>>

StreamEnds(c) ==
  /\ cmd[c].pc = "reading" /\ conn[c].wire = <<>> /\ ~conn[c].open
  /\ conn' = [conn EXCEPT ![c].read = FALSE]
  /\ Goto(c, LeaveStream(c))
  /\ UNCHANGED <<file, log, ownVars, subs, failures>>

Enqueue(c) ==
  /\ cmd[c].pc = "enqueue"
  /\ Enqueued(<<c, "file">>)
  /\ cmd' = [cmd EXCEPT ![c].pc = "ensure", ![c].mine = <<c, "file">>]
  /\ UNCHANGED <<log, ownVars, subs, conn, failures>>

\* ensureOwnerProcess.  A process spawned beside another ends at once.
EnsureOwner(c) ==
  /\ cmd[c].pc = "ensure"
  /\ \E alive \in LeaseAlive :
       /\ Probe(alive)
       /\ own' = IF ~alive /\ own = "down" THEN "spawned" ELSE own
  /\ Goto(c, IF c \notin Waiting THEN "done" ELSE IF cmd[c].json THEN "flush" ELSE "load")
  /\ UNCHANGED <<file, log, gen, cur, out, subs, conn, failures>>

\* What is new in the log: a request's own raw messages, or the history of the
\* session since the request was started, whoever it belongs to.
New(c) == {i \in 1..Len(log) :
             /\ i > cmd[c].seen
             /\ IF cmd[c].json THEN log[i].of = cmd[c].mine
                ELSE cmd[c].since # 0 /\ i >= cmd[c].since}
Fresh(c) == InOrder(New(c))

Flush(c, pc) == cmd' = [cmd EXCEPT ![c].polled = @ \o Fresh(c), ![c].pc = pc,
                          ![c].seen = IF cmd[c].json \/ cmd[c].since # 0 THEN Len(log) ELSE @]

\* A plausible bug: nothing is flushed once the request has ended.
LoadRequestOnce(c) ==
  /\ cmd[c].pc = "load"
  /\ LET f    == file[cmd[c].mine]
         ends == Terminal(f.status)
     IN  cmd' = [cmd EXCEPT
           ![c].pc    = IF ends THEN "done" ELSE IF cmd[c].json THEN "flush" ELSE "history",
           ![c].via   = IF ends THEN "poll" ELSE @,
           ![c].told  = IF ends THEN f.status ELSE @,
           ![c].since = IF @ = 0 THEN f.started ELSE @]
  /\ UNCHANGED <<file, log, ownVars, subs, conn, failures>>

\* waitForQueuedPromptJSON and waitForQueuedPromptResult load the status first.
LoadRequest(c) ==
  /\ cmd[c].pc = "load"
  /\ LET f    == file[cmd[c].mine]
         ends == Terminal(f.status)
     IN  cmd' = [cmd EXCEPT
           ![c].pc    = IF ends THEN "last" ELSE IF cmd[c].json THEN "flush" ELSE "history",
           ![c].told  = IF ends THEN f.status ELSE @,
           ![c].since = IF @ = 0 THEN f.started ELSE @]
  /\ UNCHANGED <<file, log, ownVars, subs, conn, failures>>

\* Between two looks at the status.
PollLog(c) ==
  /\ cmd[c].pc \in {"flush", "history"}
  /\ Flush(c, "load")
  /\ UNCHANGED <<file, log, ownVars, subs, conn, failures>>

\* After a terminal status.
PollLast(c) ==
  /\ cmd[c].pc = "last"
  /\ cmd' = [cmd EXCEPT ![c].polled = @ \o Fresh(c), ![c].pc = "done", ![c].via = "poll"]
  /\ UNCHANGED <<file, log, ownVars, subs, conn, failures>>

Command(c) == \/ LoadLease(c) \/ Dial(c) \/ ReadEnvelope(c) \/ StreamEnds(c) \/ Enqueue(c)
              \/ EnsureOwner(c) \/ LoadRequest(c) \/ PollLog(c) \/ PollLast(c)

-----------------------------------------------------------------------------
\* handleConn and handleSubmitPrompt, a goroutine of the owner per connection.

HandlerEnqueues(c) ==
  /\ conn[c].srv = "called"
  /\ Enqueued(<<c, "socket">>)
  /\ conn' = [conn EXCEPT ![c].srv = "register"]
  /\ UNCHANGED <<log, ownVars, subs, cmd, failures>>

HandlerRegisters(c) ==
  /\ conn[c].srv = "register"
  /\ subs' = subs \cup {c}
  /\ conn' = [conn EXCEPT ![c].srv = "accept",
                          ![c].missed = Executed(<<c, "socket">>)]
  /\ UNCHANGED <<file, log, ownVars, cmd, failures>>

\* writeEnvelope: a write to a connection either side has closed finishes the subscriber.
Written(c, e) == IF conn[c].open /\ conn[c].read
                   THEN [conn[c] EXCEPT !.wire = Append(@, e)]
                   ELSE [conn[c] EXCEPT !.open = FALSE]
WriteFails(c) == ~conn[c].open \/ ~conn[c].read

\* The request cannot be saved: the client is told, and nothing is queued.
HandlerRefuses(c) ==
  /\ conn[c].srv = "called" /\ failures < MaxFailures
  /\ failures' = failures + 1
  /\ conn' = [conn EXCEPT ![c] = [Written(c, Envelope("error", 0, "absent")) EXCEPT
                                     !.srv = "gone", !.open = FALSE]]
  /\ UNCHANGED <<file, log, ownVars, subs, cmd>>

HandlerAccepts(c) ==
  /\ conn[c].srv = "accept"
  /\ conn' = [conn EXCEPT ![c] = [Written(c, Envelope("accepted", 0, "absent")) EXCEPT
                                     !.srv = IF WriteFails(c) THEN "gone" ELSE "waiting"]]
  /\ subs' = IF WriteFails(c) THEN subs \ {c} ELSE subs
  /\ UNCHANGED <<file, log, ownVars, cmd, failures>>

Handler(c) == HandlerEnqueues(c) \/ HandlerRegisters(c) \/ HandlerAccepts(c)

-----------------------------------------------------------------------------
\* The owner.

\* TryAcquireLease; a process is spawned only after the lease has been cleared.
Acquire ==
  /\ own = "spawned"
  /\ own' = "acquired" /\ gen' = gen + 1 /\ lease' = gen + 1
  /\ UNCHANGED <<file, log, cur, out, subs, conn, cmd, failures>>

\* ownerIPCServer.Start takes the socket path over, and
\* RequeueOrphanedRunningRequests puts back what a dead owner left running.
Listen ==
  /\ own = "acquired"
  /\ own' = "idle"
  /\ file' = [r \in Req |-> IF file[r].status = "running"
                 THEN [file[r] EXCEPT !.status = "queued", !.started = 0] ELSE file[r]]
  /\ UNCHANGED <<log, gen, lease, cur, out, subs, conn, cmd, failures>>

Claim(r) ==
  /\ own = "idle" /\ NextPending(r)
  /\ file' = [file EXCEPT ![r].status = "running", ![r].started = Len(log) + 1]
  /\ own' = "running" /\ cur' = r
  /\ UNCHANGED <<log, gen, lease, out, subs, conn, cmd, failures>>

Subscribed == cur[2] = "socket" /\ cur[1] \in subs

\* The callbacks of the turn: an event is logged, then written to the subscriber
\* (EmitEvent, or EmitRawMessage for --json); nobody looks at both.
Event(subscribed) ==
  LET c == cur[1]
      n == Executed(cur) + 1
  IN  /\ own = "running" /\ Len(log) < MaxEvents
      /\ log' = Append(log, [of |-> cur, gen |-> gen, nth |-> n])
      /\ IF subscribed
           THEN /\ conn' = [conn EXCEPT ![c] = Written(c, Envelope("event", n, "absent"))]
                /\ subs' = IF WriteFails(c) THEN subs \ {c} ELSE subs
           ELSE UNCHANGED <<conn, subs>>
      /\ UNCHANGED <<file, own, gen, lease, cur, out, cmd, failures>>

\* A plausible bug: an event is dropped while the handler writes to the subscriber.
EmitEventOrDrop == Event(Subscribed /\ conn[cur[1]].srv = "waiting")

EmitEvent == Event(Subscribed)

\* A plausible bug: the error of the save is ignored.
EndTurnUnsaved(s) ==
  /\ own = "running"
  /\ \/ file' = [file EXCEPT ![cur].status = s] /\ UNCHANGED failures
     \/ failures < MaxFailures /\ failures' = failures + 1 /\ UNCHANGED file
  /\ own' = "saved" /\ out' = s
  /\ UNCHANGED <<log, gen, lease, cur, subs, conn, cmd>>

\* The turn is over and its status saved.  (Once its prompt was sent, it is over when
\* somebody cancels it and not before: OwnerQueue, AnsweredTurnEnds.)  "completed"
\* stands for "cancelled" too, which is told and polled like it.
EndTurn(s) ==
  /\ own = "running"
  /\ file' = [file EXCEPT ![cur].status = s]
  /\ own' = "saved" /\ out' = s
  /\ UNCHANGED <<log, gen, lease, cur, subs, conn, cmd, failures>>

\* A plausible bug: the next round begins only after somebody was told.
EmitOutcomeEarlyReturn ==
  LET c == cur[1]
      e == Envelope(IF out = "failed" THEN "error" ELSE "result", 0, out)
  IN  /\ own = "saved"
      /\ IF Subscribed
           THEN /\ conn' = [conn EXCEPT ![c] = [Written(c, e) EXCEPT !.open = FALSE]]
                /\ subs' = subs \ {c} /\ cur' = NoReq
           ELSE UNCHANGED <<conn, subs, cur>>
      /\ own' = "idle" /\ out' = "absent"
      /\ UNCHANGED <<file, log, gen, lease, cmd, failures>>

\* EmitResult or EmitError, and unregisterSubscriber, which closes the connection.
EmitOutcome ==
  LET c == cur[1]
      e == Envelope(IF out = "failed" THEN "error" ELSE "result", 0, out)
  IN  /\ own = "saved"
      /\ IF Subscribed
           THEN /\ conn' = [conn EXCEPT ![c] = [Written(c, e) EXCEPT !.open = FALSE]]
                /\ subs' = subs \ {c}
           ELSE UNCHANGED <<conn, subs>>
      /\ own' = "idle" /\ cur' = NoReq /\ out' = "absent"
      /\ UNCHANGED <<file, log, gen, lease, cmd, failures>>

Leave == own' = "leaving" /\ cur' = NoReq
         /\ UNCHANGED <<file, log, gen, lease, out, subs, conn, cmd>>

\* A plausible bug: an owner with subscribers does not leave.
IdleExitUnsubscribed ==
  /\ own = "idle" /\ \A r \in Req : file[r].status # "queued"
  /\ subs = {}
  /\ Leave /\ UNCHANGED failures

\* Nothing pending, and the idle timeout has passed.
IdleExit ==
  /\ own = "idle" /\ \A r \in Req : file[r].status # "queued"
  /\ Leave /\ UNCHANGED failures

\* ShouldClose: the session has been closed through the socket.  Or a file cannot be read.
CloseExit ==
  /\ own = "idle" /\ failures < MaxFailures
  /\ failures' = failures + 1 /\ Leave

\* The outcome of a turn cannot be saved.
ErrorExit ==
  /\ own = "running" /\ failures < MaxFailures
  /\ failures' = failures + 1 /\ Leave

\* ipcServer.Close: the subscribers are finished, the connections nobody has
\* accepted yet are reset; handlers go on.
CloseServer ==
  /\ own = "leaving"
  /\ own' = "closed" /\ subs' = {}
  /\ \E reset \in SUBSET {c \in Cmds : conn[c].srv = "called"} :
       conn' = [c \in Cmds |->
         IF c \in reset \cup subs
           THEN [conn[c] EXCEPT !.open = FALSE, !.srv = IF @ = "accept" THEN @ ELSE "gone"]
           ELSE conn[c]]
  /\ UNCHANGED <<file, log, gen, lease, cur, out, cmd, failures>>

\* The process takes its handlers and connections with it.
Dies ==
  /\ own' = "down" /\ cur' = NoReq /\ out' = "absent" /\ subs' = {}
  /\ conn' = [c \in Cmds |-> [conn[c] EXCEPT !.open = FALSE,
                                 !.srv = IF @ = "none" THEN @ ELSE "gone"]]

\* ClearLease and the end of the process.
EndOwner ==
  /\ own = "closed"
  /\ lease' = 0 /\ Dies
  /\ UNCHANGED <<file, log, gen, cmd, failures>>

\* A crash, a kill, or an error on the way to the loop: the lease stays.
Crash ==
  /\ own # "down" /\ failures < MaxFailures
  /\ failures' = failures + 1 /\ Dies
  /\ UNCHANGED <<file, log, gen, lease, cmd>>

OwnerStep ==
  \/ Acquire \/ Listen \/ \E r \in Req : Claim(r)
  \/ EmitOutcome \/ CloseServer \/ EndOwner

Next ==
  \/ OwnerStep \/ EmitEvent \/ IdleExit \/ CloseExit \/ ErrorExit \/ Crash
  \/ \E s \in {"completed", "failed"} : EndTurn(s)
  \/ \E c \in Cmds : Command(c) \/ Handler(c) \/ HandlerRefuses(c)

Spec == Init /\ [][Next]_vars

\* The owner's process and the commands go on, and an owner without work ends.  No
\* turn has to end, and no event has to come.
FairSpec ==
  /\ Spec
  /\ WF_vars(OwnerStep) /\ WF_vars(IdleExit)
  /\ \A c \in Cmds : WF_vars(Command(c)) /\ WF_vars(Handler(c))

-----------------------------------------------------------------------------
\* Every variable has its type, and an owner has a request in hand exactly while it runs one.
TypeOK ==
  /\ file \in [Req -> [status : Statuses, order : Nat, started : Nat]]
  /\ log \in Seq([of : Req, gen : Nat, nth : Nat])
  /\ own \in {"down", "spawned", "acquired", "idle", "running",
              "saved", "leaving", "closed"}
  /\ gen \in Nat /\ lease \in Nat /\ out \in Statuses
  /\ cur \in Req \cup {NoReq}
  /\ own \in {"running", "saved"} <=> cur # NoReq
  /\ subs \subseteq Cmds
  /\ conn \in [Cmds -> [gen : Nat, open : BOOLEAN, read : BOOLEAN,
       srv : {"none", "called", "register", "accept", "waiting", "gone"}, missed : Nat,
       wire : Seq([type : {"accepted", "event", "result", "error"}, nth : Nat,
                   status : Statuses])]]
  /\ cmd \in [Cmds -> [json : BOOLEAN, mine : Req \cup {NoReq}, read : Nat, seen : Nat, since : Nat,
       pc : {"lease", "dial", "reading", "enqueue", "ensure", "flush", "load",
             "history", "last", "done"},
       streamed : Seq(Nat), polled : Seq(Nat), via : {"none", "stream", "poll"},
       told : Statuses]]
  /\ failures \in 0..MaxFailures

\* The owner behind connection c has been replaced, or has closed its server.
ServerIsGone(c) == conn[c].gen # gen \/ own \in {"closed", "down", "spawned"}

\* A prompt is queued twice, by the socket and by the file, only if the owner that
\* took it was not the one whose lease the command had read, or was on its way out
\* before it could say `accepted` (owner_ipc.go:230-263, 632-678; main.go:729-741).
SubmittedOnce ==
  \A c \in Cmds :
    file[<<c, "socket">>].status # "absent" /\ file[<<c, "file">>].status # "absent" =>
      ServerIsGone(c) \/ conn[c].gen # cmd[c].read

\* A command that was answered by the stream has seen every event of its request
\* from the moment its subscriber was registered to the last, in order; those before
\* it has missed, as the request is queued first (owner_ipc.go:230-246).
StreamHasNoGap ==
  \A c \in Cmds : cmd[c].via = "stream" =>
    LET events == Logged(<<c, "socket">>, conn[c].gen)
    IN  cmd[c].streamed = [i \in 1..events - conn[c].missed |-> conn[c].missed + i]

\* A command that polled has printed every event of the execution that ended its
\* request, each once and in order (main.go:504-578): events are logged before the
\* status is saved, and read after it is loaded.
PollIsWhole ==
  \A c \in Cmds : cmd[c].via = "poll" =>
    LET p == cmd[c].polled IN
    /\ \A i \in 1..Len(p) - 1 : p[i] < p[i + 1]
    /\ \A i \in 1..Len(log) :
         log[i].of = cmd[c].mine /\ i >= file[cmd[c].mine].started =>
           \E j \in 1..Len(p) : p[j] = i

\* The request whose outcome a command was told.
Heard(c) == IF cmd[c].via = "stream" THEN <<c, "socket">> ELSE cmd[c].mine

\* What a command was told of its prompt is what the request file says, and stays
\* so: no later owner runs a prompt again whose outcome was announced
\* (main.go:2399-2406).
ToldIsSaved ==
  \A c \in Cmds : cmd[c].via # "none" =>
    file[Heard(c)].status = cmd[c].told

\* What the queue promises of a request holds of both ways to the owner: nothing a
\* command, a handler, a connection or a new owner does runs a request twice, or tells
\* an outcome that is not for good (main.go:647-801 and 2196-2433, owner_ipc.go:167-263).
Life == INSTANCE RequestLife WITH
  life  <- [r \in Req |-> file[r].status],
  heard <- [r \in Req |-> IF cmd[r[1]].via # "none" /\ Heard(r[1]) = r THEN cmd[r[1]].told
                          ELSE "absent"],
  up    <- own \in {"idle", "running", "saved"}
ImplementsLife == Life!LifeSpec

\* A command whose request has ended does not wait for ever, by whatever way it
\* waits: a subscriber registered too late for its result is let go by the end of
\* the owner (owner_ipc.go:150-163), unless that owner hangs in another turn.
EndedIsNoticed ==
  \A c \in Waiting :
    /\ cmd[c].pc = "reading" /\ Terminal(file[<<c, "socket">>].status) ~>
         cmd[c].pc # "reading" \/ own = "running"
    /\ cmd[c].pc \in {"flush", "load", "history"} /\ Terminal(file[cmd[c].mine].status) ~>
         cmd[c].pc = "done"
=============================================================================
