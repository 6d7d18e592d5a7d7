------------------------------ MODULE OwnerQueue ------------------------------
(***************************************************************************)
(* One session's request queue and the process that drains it: the request *)
(* files of queue.go, the loop of runInternalOwner (cmd/acp-go/main.go),   *)
(* the turn it runs (RunTurnWithCancelObserved in manager.go) with the     *)
(* goroutine that forwards a cancel, the goroutine that polls the request  *)
(* file for a cancel mark, and the commands and socket handlers that       *)
(* enqueue, wait, cancel and close.                                        *)
(*                                                                         *)
(* Every request is one file, replaced as a whole by a rename.  Owner and  *)
(* cancellers each load it, change their copy and save the copy.  Of the   *)
(* session record, which others save too, one field matters here: the      *)
(* request the owner works on, by which cancels and closes find it.  At    *)
(* most one owner runs at a time; OwnerLease says when that is so.         *)
(***************************************************************************)
EXTENDS Naturals, FiniteSets

CONSTANTS
  Req,          \* request ids, in the order of their CreatedAt
  Kind,         \* Kind[r]: "prompt", "control" (mode, model, config) or "close"
  Canceller,    \* cancel and close calls, each made once
  MaxStarts,    \* bound: owner processes started
  MaxFailures,  \* bound: crashes and I/O errors of owners
  None          \* no request

ASSUME ReqAssumption == Req \subseteq Nat /\ None \notin Req
ASSUME KindAssumption == Kind \in [Req -> {"prompt", "control", "close"}]
ASSUME BoundAssumption == MaxStarts \in Nat /\ MaxFailures \in Nat

VARIABLES
  req,       \* the request files: status and cancelRequested
  cl,        \* the command that enqueued each request
  active,    \* ActiveRequestID in the session record
  named,     \* all it has named so far: somebody may hold a copy that names it
  tcopy,     \* what the turn's copy of the record names
  exiting,   \* owners that gave up the lease and have yet to clean the record
  own,       \* where the owner process is
  orphans,   \* running requests it still has to requeue
  mem,       \* its copy of the request it works on
  outcome,   \* the status it is about to save
  turn,      \* where RunTurnWithCancelObserved is
  answer,    \* what the agent answered
  sig,       \* cancelCh is closed
  told,      \* the turn's cancel goroutine has cancelled the prompt and ended
  poller,    \* the goroutine polling the request file is running
  closeReq,  \* ownerIPCServer.closeRequested
  can,       \* the cancel and close calls: place, target and what they loaded
  starts,    \* owners started
  failures,  \* crashes and I/O errors so far
  ran,       \* history: executions of each request by the present owner
  asked,     \* history: requests a cancel has reached: it loaded the file, the agent stopped
  aimed,     \* history: requests a cancel or a close was meant for
  strays,    \* history: requests the record named to a cancel meant for another
  astray     \* history: the record has named what it should not, or failed to name

turnVars == <<turn, answer, sig, told, poller>>
aimVars == <<aimed, strays>>
recordVars == <<active, named, tcopy, exiting, astray>>
vars == <<req, cl, own, orphans, mem, outcome, turn, answer, sig, told, poller,
          closeReq, can, starts, failures, ran, asked, aimed, strays,
          active, named, tcopy, exiting, astray>>

Status == {"absent", "queued", "running", "completed", "failed", "cancelled"}
\* queueRequestTerminal
Terminal(s) == s \in {"completed", "failed", "cancelled"}
File == [status : Status, cancel : BOOLEAN]
NoFile == [status |-> "absent", cancel |-> FALSE]

Queued == {r \in Req : req[r].status = "queued"}
Running == {r \in Req : req[r].status = "running"}
Target == mem.id

\* The lease is held from TryAcquireLease to the deferred ClearLease.
Healthy == own \notin {"down", "spawned"}
\* RegisterActiveController to UnregisterActiveController
ActiveTurn == own = "turn" /\ turn \in {"prompting", "answered"}
\* The owner has named the request in its hand in the session record.
Marked == {"marked", "turn", "settle", "ended", "saved"}
\* What a cancel finds: the request the record names, otherwise the latest pending one.
Found(r) ==
  IF active # None THEN r = active
                   ELSE r \in Queued \cup Running /\ \A s \in Queued \cup Running : s <= r
\* Mutant: whatever prompt is running, not the one the cancel was aimed at.
CancelerForAny(r) == own = "turn"
\* RegisterPromptCanceler to UnregisterPromptCanceler
CancelerFor(r) == own = "turn" /\ Target = r

Save(r, status, cancel) == req' = [req EXCEPT ![r] = [status |-> status, cancel |-> cancel]]

\* The record is saved by the owner, which names t, or with an old copy, which does.
Name(t) == active' = t /\ named' = named \cup {t}

\* A cancel or close that finds t is meant for it, unless the owner has by then named
\* another request: then it is a stray.  (A close that took the controller of one prompt
\* and finds the next one named is meant for both: it is the session that it closes.)
AimAt(t) ==
  IF own \in Marked /\ t # mem.id
    THEN strays' = strays \cup {t} /\ UNCHANGED aimed
    ELSE aimed' = aimed \cup {t} /\ UNCHANGED strays

\* A call that has not begun, and one that has ended.
NoCall == [via |-> "file", pc |-> "ready", target |-> None, turn |-> None, seen |-> NoFile]
Done == [NoCall EXCEPT !.pc = "done"]

\* A socket handler dies with the owner process.  A command does not: it reads the
\* end of the stream and marks the file itself.
HandlersEnd ==
  can' = [x \in Canceller |->
            CASE can[x].via = "socket" ->
                   [can[x] EXCEPT !.via = "file", !.pc = "load", !.seen = NoFile]
              [] can[x].via = "close" -> Done
              [] OTHER -> can[x]]

-----------------------------------------------------------------------------
\* Commands that enqueue a request, make sure of an owner, and wait.

Enqueue(r) ==
  /\ cl[r] = "idle"
  /\ Save(r, "queued", FALSE)
  /\ cl' = [cl EXCEPT ![r] = "enqueued"]
  /\ UNCHANGED <<own, orphans, mem, outcome, turnVars, closeReq, can, starts, failures, ran, asked,
                 recordVars, aimVars>>

\* ensureOwnerProcess.  (A process spawned beside another ends at once.)  The lease
\* of an owner that crashed may look alive for as long as its heartbeat is fresh.
EnsureOwner(r) ==
  /\ cl[r] = "enqueued"
  /\ \/ own = "down" /\ starts < MaxStarts /\ own' = "spawned"
     \/ (own # "down" \/ starts = MaxStarts \/ failures > 0) /\ UNCHANGED own
  /\ cl' = [cl EXCEPT ![r] = "waiting"]
  /\ UNCHANGED <<req, orphans, mem, outcome, turnVars, closeReq, can, starts, failures, ran, asked,
                 recordVars, aimVars>>

\* waitForQueueRequest returns the first terminal status it loads.
WaitReturns(r) ==
  /\ cl[r] = "waiting" /\ Terminal(req[r].status)
  /\ cl' = [cl EXCEPT ![r] = req[r].status]
  /\ UNCHANGED <<req, own, orphans, mem, outcome, turnVars, closeReq, can, starts, failures, ran,
                 asked, recordVars, aimVars>>

-----------------------------------------------------------------------------
\* The owner: acquisition and the requests a dead owner left running.

\* Mutant: every request that has not completed is taken for an orphan.
AcquireUnfinished ==
  /\ own = "spawned"
  /\ own' = "requeue"
  /\ orphans' = {r \in Req : req[r].status \notin {"absent", "completed"}}
  /\ starts' = starts + 1
  /\ ran' = [r \in Req |-> 0]
  /\ UNCHANGED <<req, cl, mem, outcome, turnVars, closeReq, can, failures, asked, recordVars,
                 aimVars>>

\* Mutant: RequeueOrphanedRunningRequests is left out.
AcquireOnly ==
  /\ own = "spawned"
  /\ own' = "requeue"
  /\ orphans' = {}
  /\ starts' = starts + 1
  /\ ran' = [r \in Req |-> 0]
  /\ UNCHANGED <<req, cl, mem, outcome, turnVars, closeReq, can, failures, asked, recordVars,
                 aimVars>>

Acquire ==
  /\ own = "spawned"
  /\ own' = "requeue"
  /\ orphans' = Running
  /\ starts' = starts + 1
  /\ ran' = [r \in Req |-> 0]
  /\ UNCHANGED <<req, cl, mem, outcome, turnVars, closeReq, can, failures, asked, recordVars,
                 aimVars>>

\* RequeueOrphanedRunningRequests, one Save at a time.
RequeueOne(r) ==
  /\ own = "requeue" /\ r \in orphans
  /\ Save(r, "queued", FALSE)
  /\ orphans' = orphans \ {r}
  /\ own' = IF orphans' = {} THEN "unmark" ELSE own
  /\ UNCHANGED <<cl, mem, outcome, turnVars, closeReq, can, starts, failures, ran, asked,
                 recordVars, aimVars>>

\* After a requeue the record is made to name nothing; that this fails is ignored.
Unmark ==
  /\ own = "unmark"
  /\ Name(None) \/ UNCHANGED <<active, named>>
  /\ own' = "top"
  /\ UNCHANGED <<req, cl, orphans, mem, outcome, turnVars, closeReq, can, starts, failures, ran,
                 asked, tcopy, exiting, astray, aimVars>>

EnterLoop ==
  /\ own = "requeue" /\ orphans = {}
  /\ own' = "top"
  /\ UNCHANGED <<req, cl, orphans, mem, outcome, turnVars, closeReq, can, starts, failures, ran,
                 asked, recordVars, aimVars>>

-----------------------------------------------------------------------------
\* The owner: its loop.

\* Mutant: a request already marked cancelled is passed over.
NextPendingUnmarked(r) ==
  /\ own = "top" /\ ~closeReq
  /\ r \in Queued /\ ~req[r].cancel /\ \A s \in Queued : req[s].cancel \/ r <= s
  /\ mem' = [id |-> r, cancel |-> req[r].cancel]
  /\ own' = "picked"
  /\ UNCHANGED <<req, cl, orphans, outcome, turnVars, closeReq, can, starts, failures, ran, asked,
                 recordVars, aimVars>>

\* NextPending: the oldest queued request, whether or not it is marked cancelled.
NextPending(r) ==
  /\ own = "top" /\ ~closeReq
  /\ r \in Queued /\ \A s \in Queued : r <= s
  /\ mem' = [id |-> r, cancel |-> req[r].cancel]
  /\ own' = "picked"
  /\ UNCHANGED <<req, cl, orphans, outcome, turnVars, closeReq, can, starts, failures, ran, asked,
                 recordVars, aimVars>>

\* Nothing pending for the idle timeout.
IdleExit ==
  /\ own = "top" /\ ~closeReq /\ Queued = {}
  /\ own' = "leave"
  /\ UNCHANGED <<req, cl, orphans, mem, outcome, turnVars, closeReq, can, starts, failures, ran,
                 asked, recordVars, aimVars>>

\* The copy read by NextPending is saved as running.
Claim ==
  /\ own = "picked"
  /\ Save(Target, "running", mem.cancel)
  /\ own' = "claimed"
  /\ UNCHANGED <<cl, orphans, mem, outcome, turnVars, closeReq, can, starts, failures, ran, asked,
                 recordVars, aimVars>>

\* The record, loaded just before, names the request from here to NextRound.
Mark ==
  /\ own = "claimed"
  /\ Name(Target)
  /\ own' = "marked"
  /\ UNCHANGED <<req, cl, orphans, mem, outcome, turnVars, closeReq, can, starts, failures, ran,
                 asked, tcopy, exiting, astray, aimVars>>

\* set_mode, set_config, set_model and close run in the loop.
RunControl(status) ==
  /\ own = "marked" /\ Kind[Target] # "prompt"
  /\ ran' = [ran EXCEPT ![Target] = @ + 1]
  /\ outcome' = status
  /\ own' = "ended"
  /\ UNCHANGED <<req, cl, orphans, mem, turnVars, closeReq, can, starts, failures, asked,
                 recordVars, aimVars>>

\* RunTurnWithCancelObserved loads its copy of the record.
StartTurn ==
  /\ own = "marked" /\ Kind[Target] = "prompt"
  /\ tcopy' = active
  /\ ran' = [ran EXCEPT ![Target] = @ + 1]
  /\ own' = "turn"
  /\ turn' = "preparing"
  /\ poller' = TRUE
  /\ UNCHANGED <<req, cl, orphans, mem, outcome, answer, sig, told, closeReq, can, starts, failures,
                 asked, active, named, exiting, astray, aimVars>>

\* signalCancel, UnregisterPromptCanceler.
SettleTurn ==
  /\ own = "turn" /\ turn = "returned"
  /\ sig' = TRUE
  /\ own' = "settle"
  /\ UNCHANGED <<req, cl, orphans, mem, outcome, turn, answer, told, poller, closeReq, can, starts,
                 failures, ran, asked, recordVars, aimVars>>

\* Mutant: the status is left as it is when the turn returns an error.
JudgeTurnWithoutError ==
  /\ own = "settle" /\ ~poller
  /\ outcome' = CASE answer = "error" -> "running"
                  [] answer = "cancelled" \/ (answer = "end" /\ mem.cancel) -> "cancelled"
                  [] OTHER -> "completed"
  /\ own' = "ended"
  /\ turn' = "none" /\ answer' = "none" /\ sig' = FALSE /\ told' = FALSE
  /\ UNCHANGED <<req, cl, orphans, mem, poller, closeReq, can, starts, failures, ran, asked,
                 recordVars, aimVars>>

\* The poller has ended; the in-memory copy says whether a cancel was requested.
JudgeTurn ==
  /\ own = "settle" /\ ~poller
  /\ outcome' = CASE answer = "error" -> "failed"
                  [] answer = "cancelled" \/ (answer = "end" /\ mem.cancel) -> "cancelled"
                  [] OTHER -> "completed"
  /\ own' = "ended"
  /\ turn' = "none" /\ answer' = "none" /\ sig' = FALSE /\ told' = FALSE
  /\ UNCHANGED <<req, cl, orphans, mem, poller, closeReq, can, starts, failures, ran, asked,
                 recordVars, aimVars>>

\* Mutant: a request that failed goes back to the queue.
SaveOutcomeRetrying ==
  /\ own = "ended"
  /\ Save(Target, IF outcome = "failed" THEN "queued" ELSE outcome, mem.cancel)
  /\ own' = "saved"
  /\ UNCHANGED <<cl, orphans, mem, outcome, turnVars, closeReq, can, starts, failures, ran, asked,
                 recordVars, aimVars>>

SaveOutcome ==
  /\ own = "ended"
  /\ Save(Target, outcome, mem.cancel)
  /\ own' = "saved"
  /\ UNCHANGED <<cl, orphans, mem, outcome, turnVars, closeReq, can, starts, failures, ran, asked,
                 recordVars, aimVars>>

\* The record names nothing again.  A completed close, or a close requested over the
\* socket, ends the loop.
NextRound ==
  /\ own = "saved"
  /\ Name(None)
  /\ own' = IF closeReq \/ (Kind[Target] = "close" /\ outcome = "completed")
              THEN "leave" ELSE "top"
  /\ mem' = [id |-> None, cancel |-> FALSE]
  /\ outcome' = "absent"
  /\ UNCHANGED <<req, cl, orphans, turnVars, closeReq, can, starts, failures, ran, asked, tcopy,
                 exiting, astray, aimVars>>

CloseExit ==
  /\ own = "top" /\ closeReq
  /\ own' = "leave"
  /\ UNCHANGED <<req, cl, orphans, mem, outcome, turnVars, closeReq, can, starts, failures, ran,
                 asked, recordVars, aimVars>>

\* The process is gone and its memory with it, but not what it named in the record.
OwnerEnds ==
  /\ own' = "down"
  /\ tcopy' = None
  /\ astray' = (astray \/ active # None)
  /\ UNCHANGED <<active, named>>
  /\ orphans' = {}
  /\ mem' = [id |-> None, cancel |-> FALSE]
  /\ outcome' = "absent"
  /\ turn' = "none" /\ answer' = "none" /\ sig' = FALSE /\ told' = FALSE /\ poller' = FALSE
  /\ closeReq' = FALSE
  /\ HandlersEnd
  /\ UNCHANGED <<req, cl, starts, ran, asked, aimVars>>

\* The deferred clean-up gives up the lease first ...
Leave ==
  /\ own = "leave"
  /\ OwnerEnds
  /\ exiting' = exiting + 1
  /\ UNCHANGED failures

\* ... and then makes the record name nothing, whatever its successor has named by now.
Exited ==
  /\ exiting > 0
  /\ exiting' = exiting - 1
  /\ Name(None)
  /\ astray' = (astray \/ active # None)
  /\ UNCHANGED <<req, cl, own, orphans, mem, outcome, turnVars, closeReq, can, starts, failures,
                 ran, asked, tcopy, aimVars>>

\* An error of RequeueOrphanedRunningRequests ends the owner in the same way: the
\* clean-up is deferred after it only.
Crash ==
  /\ own # "down" /\ failures < MaxFailures
  /\ OwnerEnds
  /\ failures' = failures + 1
  /\ UNCHANGED exiting

\* A request, session or lease file cannot be read or written: the loop returns.
ErrorExit ==
  /\ own \in {"top", "picked", "claimed", "ended", "saved"}
  /\ failures < MaxFailures
  /\ own' = "leave"
  /\ outcome' = "absent"
  /\ failures' = failures + 1
  /\ UNCHANGED <<req, cl, orphans, mem, turnVars, closeReq, can, starts, ran, asked, recordVars,
                 aimVars>>

-----------------------------------------------------------------------------
\* RunTurnWithCancelObserved, and the poller beside it.

\* The turn saves its copy of the record.
TurnSaves ==
  /\ Name(tcopy)
  /\ astray' = (astray \/ tcopy # active)

\* The session is closed, or the agent cannot be started, which the record is told:
\* no goroutine yet.
TurnFails ==
  /\ own = "turn" /\ turn = "preparing"
  /\ turn' = "returned" /\ answer' = "error"
  /\ TurnSaves \/ UNCHANGED <<active, named, astray>>
  /\ tcopy' = None
  /\ UNCHANGED <<req, cl, own, orphans, mem, outcome, sig, told, poller, closeReq, can, starts,
                 failures, ran, asked, exiting, aimVars>>

SendPrompt ==
  /\ own = "turn" /\ turn = "preparing"
  /\ turn' = "prompting"
  /\ UNCHANGED <<req, cl, own, orphans, mem, outcome, answer, sig, told, poller, closeReq, can,
                 starts, failures, ran, asked, recordVars, aimVars>>

\* PromptStream returns (its idle timeout sees to that).  The agent reports
\* "cancelled" only when it was told to stop, or to close its session.  (A record that
\* cannot be saved makes an error of any answer, and is as if saved and overwritten.)
AgentAnswers(a) ==
  /\ own = "turn" /\ turn = "prompting"
  /\ a = "cancelled" =>
       told \/ \E x \in Canceller : can[x].pc = "mark" /\ can[x].turn = Target
  /\ asked' = IF a = "cancelled" THEN asked \cup {Target} ELSE asked
  /\ turn' = "answered" /\ answer' = a
  /\ TurnSaves /\ tcopy' = None
  /\ UNCHANGED <<req, cl, own, orphans, mem, outcome, sig, told, poller, closeReq, can, starts,
                 failures, ran, exiting, aimVars>>

\* The cancel goroutine: only cancelCh wakes it, the context is Background.
ForwardCancel ==
  /\ ActiveTurn /\ sig /\ ~told
  /\ told' = TRUE
  /\ UNCHANGED <<req, cl, own, orphans, mem, outcome, turn, answer, sig, poller, closeReq, can,
                 starts, failures, ran, asked, recordVars, aimVars>>

\* <-cancelDone
TurnReturns ==
  /\ own = "turn" /\ turn = "answered" /\ told
  /\ turn' = "returned"
  /\ UNCHANGED <<req, cl, own, orphans, mem, outcome, answer, sig, told, poller, closeReq, can,
                 starts, failures, ran, asked, recordVars, aimVars>>

\* Mutant: the request file is not polled, only the socket's signal is heard.
PollSignalOnly ==
  /\ poller /\ sig
  /\ poller' = FALSE
  /\ UNCHANGED <<req, cl, own, orphans, mem, outcome, turn, answer, sig, told, closeReq, can,
                 starts, failures, ran, asked, recordVars, aimVars>>

\* The poller loads the request file; a mark, or a closed cancelCh, ends it.
Poll ==
  /\ poller
  /\ sig \/ req[Target].cancel
  /\ sig' = TRUE
  /\ poller' = FALSE
  /\ UNCHANGED <<req, cl, own, orphans, mem, outcome, turn, answer, told, closeReq, can, starts,
                 failures, ran, asked, recordVars, aimVars>>

-----------------------------------------------------------------------------
\* Cancels.  A command looks up whom to cancel and asks the owner's socket handler,
\* which checks first and signals afterwards (CancelPrompt), or marks the file itself
\* if no owner answers.

\* The target may end before the next step.
CommandAims(x, r) ==
  /\ can[x].pc = "ready" /\ Found(r)
  /\ AimAt(r)
  /\ \/ can' = [can EXCEPT ![x] = [NoCall EXCEPT !.pc = "load", !.target = r]]
     \/ /\ Healthy
        /\ can' = [can EXCEPT ![x] = [NoCall EXCEPT !.via = "socket", !.pc = "ask", !.target = r]]
  /\ UNCHANGED <<req, cl, own, orphans, mem, outcome, turnVars, closeReq, starts, failures, ran,
                 asked, recordVars>>

CancelPrompt(x) ==
  /\ can[x].pc = "ask"
  /\ can' = [can EXCEPT ![x] = IF Terminal(req[can[x].target].status)
                                 THEN Done ELSE [can[x] EXCEPT !.pc = "load"]]
  /\ UNCHANGED <<req, cl, own, orphans, mem, outcome, turnVars, closeReq, starts, failures, ran,
                 asked, recordVars, aimVars>>

\* CloseSession with an active controller: the close is meant for the prompt of that
\* turn ...
CloseActive(x) ==
  /\ can[x].pc = "ready" /\ ActiveTurn
  /\ can' = [can EXCEPT ![x].via = "close", ![x].pc = "aim", ![x].turn = Target]
  /\ AimAt(Target)
  /\ UNCHANGED <<req, cl, own, orphans, mem, outcome, turnVars, closeReq, starts, failures, ran,
                 asked, recordVars>>

\* ... but first cancels the request that the session record calls active by now.
CloseAims(x) ==
  /\ can[x].pc = "aim"
  /\ can' = [can EXCEPT ![x] = IF active = None \/ Terminal(req[active].status)
                                 THEN [can[x] EXCEPT !.pc = "mark"]
                                 ELSE [can[x] EXCEPT !.pc = "load", !.target = active]]
  /\ IF active = None THEN UNCHANGED aimVars ELSE AimAt(active)
  /\ UNCHANGED <<req, cl, own, orphans, mem, outcome, turnVars, closeReq, starts, failures, ran,
                 asked, recordVars>>

\* CloseSession without one closes the stored session.
CloseIdle(x) ==
  /\ can[x].pc = "ready" /\ Healthy /\ ~ActiveTurn
  /\ closeReq' = TRUE
  /\ can' = [can EXCEPT ![x] = Done]
  /\ UNCHANGED <<req, cl, own, orphans, mem, outcome, turnVars, starts, failures, ran, asked,
                 recordVars, aimVars>>

\* RequestCancel, first half ...
CancelLoads(x) ==
  /\ can[x].pc = "load"
  /\ can' = [can EXCEPT ![x].pc = "save", ![x].seen = req[can[x].target]]
  /\ asked' = asked \cup {can[x].target}
  /\ UNCHANGED <<req, cl, own, orphans, mem, outcome, turnVars, closeReq, starts, failures, ran,
                 recordVars, aimVars>>

\* ... and second half: the loaded copy, with the mark, replaces the file.
CancelSaves(x) ==
  /\ can[x].pc = "save"
  /\ Save(can[x].target, can[x].seen.status, TRUE)
  /\ can' = [can EXCEPT ![x] = IF can[x].via = "file"
                                 THEN Done ELSE [can[x] EXCEPT !.pc = "signal", !.seen = NoFile]]
  /\ UNCHANGED <<cl, own, orphans, mem, outcome, turnVars, closeReq, starts, failures, ran, asked,
                 recordVars, aimVars>>

\* The registered canceler, if the request is still the one being run.
CancelSignals(x) ==
  /\ can[x].pc = "signal"
  /\ sig' = (sig \/ CancelerFor(can[x].target))
  /\ can' = [can EXCEPT ![x] = IF can[x].via = "close"
                                 THEN [can[x] EXCEPT !.pc = "mark", !.target = None] ELSE Done]
  /\ UNCHANGED <<req, cl, own, orphans, mem, outcome, turn, answer, told, poller, closeReq, starts,
                 failures, ran, asked, recordVars, aimVars>>

\* active.CloseSession (which fails once the turn's client is disconnected), the
\* session record (OldCopySaved), and markCloseRequested.
CloseMarks(x) ==
  /\ can[x].pc = "mark"
  /\ closeReq' \in {closeReq, TRUE}
  /\ can' = [can EXCEPT ![x] = Done]
  /\ UNCHANGED <<req, cl, own, orphans, mem, outcome, turnVars, starts, failures, ran, asked,
                 recordVars, aimVars>>

-----------------------------------------------------------------------------
\* Whoever loads the record, works and saves his copy: commands, the socket handlers
\* (persistQueuedControlState) and the loop's own controls.  What he loaded is what the
\* record named at some time; if it still does his save changes nothing here.
OldCopySaved(t) ==
  /\ t \in named \ {active}
  /\ Name(t)
  /\ astray' = TRUE
  /\ UNCHANGED <<req, cl, own, orphans, mem, outcome, turnVars, closeReq, can, starts, failures,
                 ran, asked, tcopy, exiting, aimVars>>

-----------------------------------------------------------------------------
Init ==
  /\ active = None /\ named = {None} /\ tcopy = None /\ exiting = 0
  /\ req = [r \in Req |-> NoFile]
  /\ cl = [r \in Req |-> "idle"]
  /\ own = "down" /\ orphans = {} /\ mem = [id |-> None, cancel |-> FALSE]
  /\ outcome = "absent"
  /\ turn = "none" /\ answer = "none" /\ sig = FALSE /\ told = FALSE /\ poller = FALSE
  /\ closeReq = FALSE
  /\ can = [x \in Canceller |-> NoCall]
  /\ starts = 0 /\ failures = 0
  /\ ran = [r \in Req |-> 0] /\ asked = {}
  /\ aimed = {} /\ strays = {} /\ astray = FALSE

Command(r) == Enqueue(r) \/ EnsureOwner(r) \/ WaitReturns(r)
Cancel(x) == (\E r \in Req : CommandAims(x, r)) \/ CloseActive(x) \/ CloseIdle(x)
Canceling(x) == \/ CancelPrompt(x) \/ CloseAims(x) \/ CancelLoads(x)
                \/ CancelSaves(x) \/ CancelSignals(x) \/ CloseMarks(x)
Loop == \/ Acquire \/ (\E r \in Req : RequeueOne(r) \/ NextPending(r)) \/ Unmark \/ EnterLoop
        \/ Claim \/ Mark \/ StartTurn \/ SettleTurn \/ JudgeTurn
        \/ (\E s \in {"completed", "failed"} : RunControl(s))
        \/ SaveOutcome \/ NextRound \/ CloseExit \/ Leave
Turn == \/ TurnFails \/ SendPrompt \/ (\E a \in {"end", "error", "cancelled"} : AgentAnswers(a))
        \/ TurnReturns

Next ==
  \/ \E r \in Req : Command(r)
  \/ \E x \in Canceller : Cancel(x) \/ Canceling(x)
  \/ Loop \/ Turn \/ ForwardCancel \/ Poll
  \/ IdleExit \/ Exited \/ Crash \/ ErrorExit
  \/ \E t \in named : OldCopySaved(t)

Spec == Init /\ [][Next]_vars

\* The owner goes on: its loop, the turn (a prompt ends, by its idle timeout if not
\* otherwise) and their goroutines.  Nobody has to enqueue, to wait, to start an owner
\* or to cancel, and nothing has to fail.
FairSpec ==
  /\ Spec
  /\ WF_vars(Loop) /\ WF_vars(Turn) /\ WF_vars(ForwardCancel) /\ WF_vars(Poll)

\* The commands and the cancel calls under way go on as well.
AllFairSpec ==
  /\ FairSpec
  /\ \A x \in Canceller : WF_vars(Canceling(x))
  /\ \A r \in Req : WF_vars(EnsureOwner(r)) /\ WF_vars(WaitReturns(r))

-----------------------------------------------------------------------------
InLoop == {"top", "picked", "claimed", "marked", "turn", "settle", "ended", "saved"}
Working == {"claimed", "marked", "turn", "settle", "ended"}
Call == [via : {"file", "socket", "close"},
         pc : {"ready", "ask", "aim", "load", "save", "signal", "mark", "done"},
         target : Req \cup {None}, turn : Req \cup {None}, seen : File]

TypeOK ==
  /\ req \in [Req -> File]
  /\ cl \in [Req -> {"idle", "enqueued", "waiting", "completed", "failed", "cancelled"}]
  /\ own \in {"down", "spawned", "requeue", "unmark", "leave"} \cup InLoop
  /\ orphans \in SUBSET Req
  /\ mem \in [id : Req \cup {None}, cancel : BOOLEAN]
  /\ outcome \in {"absent", "completed", "failed", "cancelled"}
  /\ turn \in {"none", "preparing", "prompting", "answered", "returned"}
  /\ answer \in {"none", "end", "error", "cancelled"}
  /\ sig \in BOOLEAN /\ told \in BOOLEAN /\ poller \in BOOLEAN /\ closeReq \in BOOLEAN
  /\ can \in [Canceller -> Call]
  /\ starts \in 0 .. MaxStarts /\ failures \in 0 .. MaxFailures
  /\ ran \in [Req -> Nat] /\ asked \in SUBSET Req
  /\ aimed \in SUBSET Req /\ strays \in SUBSET Req /\ astray \in BOOLEAN
  /\ active \in Req \cup {None} /\ tcopy \in Req \cup {None}
  /\ named \in SUBSET (Req \cup {None}) /\ exiting \in Nat

\* A request nobody tries to cancel is executed at most once by an owner process,
\* whatever is enqueued, cancelled, closed or fails beside it.
OncePerStart == \A r \in Req \ asked : ran[r] <= 1

\* While the owner is in its loop, the file of a request nobody tries to cancel
\* says "running" exactly while the owner is at work on that request: what a dead
\* owner left running has been requeued, and nothing is left running behind.
RunningIsCurrent ==
  own \in InLoop => \A r \in Req \ asked :
    req[r].status = "running" <=> own \in Working /\ mem.id = r

\* A request ends as cancelled only if a cancel or a close was meant for it: a cancel of
\* one prompt never hits the prompt that follows it (the cancelers registered by request
\* id, cancelCh, the poller), and a close, which is of the session, hits the prompt whose
\* controller it took and the one the owner works on when it reads the record, no other.
\* They can hit another only once the session record has been led astray, by the save of
\* an old copy, by an owner that ended with a request named or by the late clean-up of
\* one (manager.go:639, main.go:610 and 2229), and then only what the record named.
CancelledOnlyIfAsked ==
  \A r \in Req : req[r].status = "cancelled" => r \in aimed \/ (astray /\ r \in strays)

\* What a waiting command has been told is final: the terminal status of a
\* request nobody tries to cancel never changes, not by restarts either.
FinalUnlessCancelled ==
  [][\A r \in Req \ asked' : Terminal(req[r].status) => req'[r] = req[r]]_vars

\* What the queue promises of a request holds of the loop, of the turns and of the
\* requeue across crashes, errors and restarts, until a cancel reaches the request
\* (main.go:2207-2433, queue.go:334-390 and 519-552).
Life == INSTANCE RequestLife WITH
  life  <- [r \in Req |-> IF r \in asked THEN "contested" ELSE req[r].status],
  heard <- [r \in Req |-> IF Terminal(cl[r]) THEN cl[r] ELSE "absent"],
  up    <- own \in InLoop
ImplementsLife == Life!LifeSpec

\* A cancel mark in the file of the prompt being run ends the turn, whether the
\* prompt is still unanswered, answered, or not yet sent.
RunningCancelTakesEffect ==
  (own = "turn" /\ req[Target].cancel) ~> own # "turn"

\* An owner in its loop gets to every queued request, or ends, unless an answered
\* prompt never returns (AnsweredTurnEnds says how it can).
OwnerDrains ==
  \/ <>[](own = "turn" /\ turn = "answered")
  \/ \A r \in Req : (own \in InLoop /\ req[r].status = "queued")
                       ~> (own = "down" \/ req[r].status # "queued")

\* docs/architecture.md:114: queued prompts are drained sequentially.  So the turn
\* of a prompt that the agent has answered ends and the next prompt has its turn.
AnsweredTurnEnds == (own = "turn" /\ turn = "answered") ~> own # "turn"
=============================================================================
