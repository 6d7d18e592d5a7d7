----------------------------- MODULE AgentRequests -----------------------------
(***************************************************************************)
(* What an agent asks of its client: the read loop of each process and     *)
(* handleAgentRequest with the file tools and the permission requests of   *)
(* client.go, the policy of permission.go and the handlers of the caller,  *)
(* while ClientManager starts, closes and restarts the processes.          *)
(*                                                                         *)
(* A process makes one request.  The reader of a process may be held up by *)
(* a user who decides, while the client is shut down and made ready again; *)
(* what it writes then goes to the process the client has by now.  Answers *)
(* to the client's own requests are in Transport and Client.               *)
(***************************************************************************)
EXTENDS ClientManager, Permissions

CONSTANTS
  Settings,   \* what a run looks at: the agents' protocol, the policy they meet, the caller's
              \* handler, the requests that agents make; as bounds, the processes started and
              \* the goroutines that call at a time
  MaxOptions  \* bound: options in a request

Tools    == {"read_file", "write_file", "delegate"}
Handlers == {"none", "approval", "permission"}
Policies == [set : BOOLEAN, bypass : BOOLEAN, limited : BOOLEAN, over : [Tools -> Decisions \cup {"unset"}]]

\* A request: what it is (a notice of the session's state, a permission request, one for a
\* file, or one that is refused or cancelled at once), the tool it is checked as, whether
\* its path is under the allowed directories, and the options it offers.
Requests == [kind : STRING, tool : Tools, inside : BOOLEAN, options : Seq([kind : STRING, id : STRING])]

\* An agent does not offer an option by a name that belies its kind.
AllowKinds == {"allow_once", "allow_always"}
AllowIds   == {"allow", "allow_once", "allow_always", "approve_for_session"}
RejectIds  == {"reject_once", "deny_once", "reject_always", "deny_always", "reject", "deny", "cancel"}
Sincere(option) ==
  /\ option.kind \in AllowKinds => option.id \notin RejectIds
  /\ option.kind \notin AllowKinds \cup {""} => option.id \notin AllowIds

ASSUME SettingsAssumption ==
  \A s \in Settings :
    /\ s.style \in Styles /\ s.policy \in Policies /\ s.handler \in Handlers
    /\ s.procs \in Nat /\ s.callers \in Nat
    /\ \A request \in s.requests :
         /\ request \in Requests /\ Len(request.options) <= MaxOptions
         /\ \A n \in DOMAIN request.options : Sincere(request.options[n])
ASSUME MaxOptionsAssumption == MaxOptions \in Nat

VARIABLES
  setting,  \* which of them
  policy,   \* the policy, which callers may change
  changes,  \* the overrides set so far
  asked,    \* the processes that have made their request
  inbox,    \* what each process has written that nobody has read, a set of one request
  reader,   \* the goroutine that reads for each process
  answers   \* history: the answers given
askVars == <<setting, policy, changes, asked, inbox, reader, answers>>
vars    == <<lifeVars, askVars>>

\* from: the process it read the request from; word: who has allowed it.
Free == [pc |-> "check", from |-> 0, asks |-> {}, word |-> "nobody"]

Init ==
  /\ LifeInit
  /\ setting \in Settings /\ style = setting.style /\ policy = setting.policy /\ changes = 0
  /\ asked = {} /\ inbox = [p \in Procs |-> {}] /\ reader = [p \in Procs |-> Free]
  /\ answers = {}

Standing(p, pc) == p <= starts /\ reader[p].pc = pc
Moves(p, pc)    == reader' = [reader EXCEPT ![p].pc = pc]
ClientOf(p)     == CHOOSE c \in Clients : home[p] = {c}

-----------------------------------------------------------------------------
\* readLoop

\* An agent asks when it likes.
Asks(p) ==
  /\ p \in alive \ asked /\ asked' = asked \cup {p}
  /\ \E request \in setting.requests : inbox' = [inbox EXCEPT ![p] = {request}]
  /\ UNCHANGED <<lifeVars, setting, policy, changes, reader, answers>>

CheckContext(p) ==
  /\ Standing(p, "check")
  /\ Moves(p, IF p \in stopped THEN "ended" ELSE "fetch")
  /\ UNCHANGED <<lifeVars, setting, policy, changes, asked, inbox, answers>>

\* The loop reads from the transport its client has by now, or from none.
FetchTransport(p) ==
  LET now == client[ClientOf(p)].proc IN
  /\ Standing(p, "fetch")
  /\ reader' = [reader EXCEPT ![p].pc = "read", ![p].from = now]
  /\ panicked' = (now = 0)
  /\ UNCHANGED <<style, known, client, lock, user, procVars, crossed, due, setting, policy, changes,
                 asked, inbox, answers>>

ReadMessage(p) ==
  LET q == reader[p].from IN
  /\ Standing(p, "read")
  /\ \E request \in inbox[q] :
       reader' = [reader EXCEPT ![p].pc = "handle", ![p].asks = {request}]
  /\ inbox' = [inbox EXCEPT ![q] = {}]
  /\ UNCHANGED <<lifeVars, setting, policy, changes, asked, answers>>

\* The process has ended; what it had written may be lost.
ReadEnds(p) ==
  /\ Standing(p, "read") /\ reader[p].from \notin alive
  /\ Moves(p, "ended")
  /\ UNCHANGED <<lifeVars, setting, policy, changes, asked, inbox, answers>>

-----------------------------------------------------------------------------
\* handleAgentRequest

\* An answer goes to the process the client has now, or nowhere.  Option 0 is none; done:
\* the file was read or written.
Answer(p, request, option, word, done) ==
  /\ answers' = answers \cup
       {[of |-> reader[p].from, to |-> client[ClientOf(p)].proc, request |-> request, option |-> option,
         word |-> word, standing |-> PolicyDecision(policy, request.tool), done |-> done,
         late |-> reader[p].from \in stopped]}
  /\ reader' = [reader EXCEPT ![p] = Free]
  /\ UNCHANGED <<client, policy, changes>>

\* handleSessionInfoUpdate and its like: taken when the client has no session, or this one.
HandleNotice(p) ==
  LET c == ClientOf(p) IN
  /\ client' = IF client[c].session \in {0, reader[p].from}
               THEN [client EXCEPT ![c].told = reader[p].from] ELSE client
  /\ reader' = [reader EXCEPT ![p] = Free]
  /\ UNCHANGED <<policy, changes, answers>>

AskUser(p) == Moves(p, "ask") /\ UNCHANGED <<client, policy, changes, answers>>

\* authorizeFileTool
HandleFile(p, request) ==
  LET decision == FileDecision(policy, request.tool, request.inside) IN
  CASE decision = "allow" -> Answer(p, request, 0, "policy", TRUE)
    [] decision = "ask" /\ setting.handler = "approval" -> AskUser(p)
    [] OTHER -> Answer(p, request, 0, "nobody", FALSE)

\* permissionRequestResponse
HandlePermission(p, request) ==
  LET decision == PolicyDecision(policy, request.tool)
      word     == IF decision = "allow" THEN "policy" ELSE "nobody"
  IN  CASE setting.handler = "permission" -> AskUser(p)
        [] setting.handler # "permission" /\ decision # "ask" ->
             Answer(p, request, Select(request.options, decision, TRUE), word, FALSE)
        [] setting.handler = "approval" /\ decision = "ask" -> AskUser(p)
        [] OTHER -> Answer(p, request, 0, "nobody", FALSE)

Handle(p) ==
  /\ Standing(p, "handle")
  /\ \E request \in reader[p].asks :
       CASE request.kind = "notice"     -> HandleNotice(p)
         [] request.kind = "file"       -> HandleFile(p, request)
         [] request.kind = "permission" -> HandlePermission(p, request)
         [] OTHER                       -> Answer(p, request, 0, "nobody", FALSE)
  /\ UNCHANGED <<style, known, lock, user, procVars, panicked, crossed, due, setting, asked, inbox>>

\* Anybody may change the policy, once.
SetOverride(tool, decision) ==
  /\ policy.set /\ changes = 0 /\ changes' = 1
  /\ policy' = [policy EXCEPT !.over[tool] = decision]
ChangePolicy ==
  /\ \E tool \in Tools, decision \in {"allow", "deny"} : SetOverride(tool, decision)
  /\ UNCHANGED <<lifeVars, setting, asked, inbox, reader, answers>>

\* The approval handler returns what the user says, who may have had it remembered, or a
\* denial when the client is shut down meanwhile.
Decide(p) ==
  /\ Standing(p, "ask") /\ setting.handler = "approval"
  /\ \E decision \in {"allow", "deny"}, request \in reader[p].asks :
       /\ reader' = [reader EXCEPT ![p].pc = "pick", ![p].word = IF decision = "allow" THEN "user" ELSE @]
       /\ SetOverride(request.tool, decision) \/ UNCHANGED <<policy, changes>>
  /\ UNCHANGED <<lifeVars, setting, asked, inbox, answers>>

\* An option for good is preferred when the policy agrees with the user by now.
Pick(p) ==
  LET decision == IF reader[p].word = "user" THEN "allow" ELSE "deny" IN
  /\ Standing(p, "pick")
  /\ \E request \in reader[p].asks :
       IF request.kind = "file" THEN Answer(p, request, 0, reader[p].word, decision = "allow")
       ELSE Answer(p, request,
                   Select(request.options, decision, PolicyDecision(policy, request.tool) = decision),
                   reader[p].word, FALSE)
  /\ UNCHANGED <<lifeVars, setting, asked, inbox>>

\* A permission handler answers as it likes.
HandlerAnswers(p) ==
  /\ Standing(p, "ask") /\ setting.handler = "permission"
  /\ \E request \in reader[p].asks, option \in 0..MaxOptions :
       option <= Len(request.options) /\ Answer(p, request, option, "handler", FALSE)
  /\ UNCHANGED <<lifeVars, setting, asked, inbox>>

ReaderStep(p) ==
  \/ Asks(p) \/ CheckContext(p) \/ FetchTransport(p) \/ ReadMessage(p) \/ ReadEnds(p) \/ Handle(p)
  \/ Decide(p) \/ Pick(p) \/ HandlerAnswers(p)

Within == starts <= setting.procs /\ Cardinality({u \in Users : ~At(u, "idle")}) <= setting.callers

Next ==
  \/ LifeNext /\ UNCHANGED askVars /\ Within'
  \/ ~panicked /\ (ChangePolicy \/ \E p \in Procs : ReaderStep(p))
Spec == Init /\ [][Next]_vars

-----------------------------------------------------------------------------
\* The types of the variables.
TypeOK ==
  /\ LifeTypeOK
  /\ setting \in Settings /\ policy \in Policies /\ changes \in 0..1
  /\ asked \subseteq 1..starts
  /\ inbox \in [Procs -> SUBSET setting.requests]
  /\ reader \in [Procs -> [pc : {"check", "fetch", "read", "handle", "ask", "pick", "ended"},
                           from : 0..starts, asks : SUBSET setting.requests, word : {"nobody", "user"}]]
  /\ answers \subseteq
       [of : 1..starts, to : 0..starts, request : setting.requests, option : 0..MaxOptions,
        word : {"nobody", "policy", "user", "handler"}, standing : Decisions, done : BOOLEAN, late : BOOLEAN]

RejectKinds == {"reject_once", "reject_always", "deny_once", "deny_always"}
Allows(option)  == option.kind \in AllowKinds \/ (option.kind = "" /\ option.id \in AllowIds)
Rejects(option) == option.kind \in RejectKinds \/ (option.kind = "" /\ option.id \in RejectIds)

\* An option for good is chosen over one for this time only if the policy agrees by then.
NotForGood(a) ==
  LET options == a.request.options
      Among(kinds) == \E n \in DOMAIN options : options[n].kind \in kinds
      chosen == options[a.option].kind
  IN  /\ chosen = "allow_always" /\ Among({"allow_once"}) => a.standing = "allow"
      /\ chosen = "reject_always" /\ Among({"reject_once", "deny_once"}) => a.standing = "deny"

(***************************************************************************)
(* The agent gets what was consented to, however long the user takes and   *)
(* whatever becomes of policy and client meanwhile: a file is touched only *)
(* where the policy lets it and if policy or user said yes; an option that *)
(* allows is chosen if and only if they did, except that a denial takes an *)
(* option without a kind when none says it rejects (client.go:2458); and no*)
(* option for good unless the policy says the same (client.go:2232).       *)
(***************************************************************************)
ActsByConsent ==
  \A a \in answers :
    /\ a.done => a.word # "nobody" /\ (policy.set => AllowedPath(policy, a.request.inside))
    /\ a.option # 0 /\ a.word # "handler" =>
         LET options == a.request.options
             chosen  == options[a.option]
         IN  /\ a.word # "nobody" => Allows(chosen)
             /\ a.word = "nobody" /\ Allows(chosen) =>
                  chosen.kind = "" /\ \A n \in DOMAIN options : ~Rejects(options[n])
             /\ NotForGood(a)

\* An answer goes to the process that asked, unless that was told to stop before.
AnswersTheAsker ==
  \A a \in answers : a.to = a.of \/ a.late \/ home[a.of] \subseteq crossed

\* What is known of the session came from the agent, or from one that was told to stop.
KnowsItsAgent ==
  \A c \in Clients \ crossed : client[c].told \in {0, client[c].proc} \cup stopped

(***************************************************************************)
(* A client that is not shut down while it is being made ready has to do   *)
(* with one process, its own (OwnsItsAgent); what it answers goes to the   *)
(* process that asked, and what it shows of its session came from there,   *)
(* unless an approval or a reader outlives the process (client.go:1411).   *)
(***************************************************************************)
AgentIsItsOwn == OwnsItsAgent /\ AnswersTheAsker /\ KnowsItsAgent
=============================================================================
