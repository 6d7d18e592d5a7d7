------------------------------- MODULE Client -------------------------------
(***************************************************************************)
(* The ACP client of one agent process (client.go), from the moment        *)
(* EnsureReady has returned: prompts, one at a time behind execMu; for     *)
(* each the goroutine that sends session/prompt; the read loop with the    *)
(* handlers that change the state of a prompt; shutdown, which another     *)
(* goroutine may call at any time; and the agent, outside this repository. *)
(*                                                                         *)
(* The prompt state behind promptMu (activePromptID, promptDone,           *)
(* promptOnEvent, ...) is set and cleared as a whole: current names the    *)
(* prompt it belongs to.  All prompts share one session, so the session id *)
(* in a prompt_complete does not tell them apart.  SendRequest is used as  *)
(* Rpc promises it.  Timers have no length: they may fire at any time.     *)
(***************************************************************************)
EXTENDS Naturals, Sequences

CONSTANTS Prompts,     \* the calls of Prompt and PromptStream
          MaxChunks,   \* bound: text messages of the agent for one prompt
          Settings     \* settings a behaviour may have, each with
                       \*   style: how the agent ends a turn, by the response to
                       \*     session/prompt or by prompt_complete after an ack,
                       \*   trouble: what may happen beside prompts that are answered,
                       \*   chunks: the bound on text messages in it

Troubles == {"cancel", "idle", "refusal", "exit", "garbage", "shutdown"}
ASSUME MaxChunksAssumption == MaxChunks \in Nat
ASSUME SettingsAssumption ==
  Settings \subseteq [style : {"response", "notify"}, trouble : SUBSET Troubles, chunks : 0..MaxChunks]

None == "none"
ASSUME PromptsAssumption == None \notin Prompts

VARIABLES pc,        \* [Prompts -> {"idle", "entered", "asking", "done"}]
          sender,    \* [Prompts -> ...]: the goroutine that calls sendRequest
          respCh,    \* [Prompts -> Seq(Replies)]: promptRespCh, capacity 1
          doneCh,    \* [Prompts -> Seq(Prompts)]: promptDone, capacity 1
          current,   \* the prompt the state behind promptMu belongs to
          text,      \* promptText: the chunks written since the last reset
          events,    \* [Prompts -> Seq(Chunks)]: what onEvent was called with
          result,    \* [Prompts -> Results]
          loop,      \* the read loop's pc
          hand,      \* the message it handles: <<>> or <<message>>
          onEvent,   \* whose callback its handler has taken
          done,      \* c.done is closed
          readErr,   \* c.readErr is set
          stopRead,  \* the read loop's context is cancelled
          transport, \* c.transport is not nil
          running,   \* c.running
          stdin,     \* the pipe to the agent is open
          shut,      \* the pc of the goroutine in shutdown
          panicked,  \* a nil transport was used: the process is dead
          agent,     \* "up" or "gone"
          setting,   \* the setting, which never changes
          heard,     \* Seq(Prompts): the prompts the agent has received
          sent,      \* [Prompts -> 0..MaxChunks]: its text messages so far
          replied,   \* [Prompts -> BOOLEAN]: it has answered session/prompt
          completed, \* [Prompts -> BOOLEAN]: it has sent prompt_complete
          pipe       \* its messages on the way to the read loop
promptVars == <<pc, respCh, doneCh, current, text, result>>
loopVars   == <<loop, hand, onEvent, done, readErr>>
lifeVars   == <<stopRead, transport, running, stdin, shut, panicked>>
agentVars  == <<setting, heard, sent, replied, completed>>
worldVars  == <<agent, agentVars, pipe>>
vars == <<promptVars, sender, events, loopVars, lifeVars, worldVars>>

Chunks  == [of : Prompts, nth : 1..MaxChunks]
Replies == {"error", "ack", "stop"}
Kinds   == {"none", "answered", "failed", "cancelled", "idle", "exited",
            "readError", "notRunning"}
\* How a prompt ended, whose ending it took, and the text collected.
Results == [kind : Kinds, by : Prompts \cup {None}, text : Seq(Chunks)]
NoResult == [kind |-> "none", by |-> None, text |-> <<>>]

Text(c)     == [kind |-> "text", of |-> c.of, nth |-> c.nth]
Response(p) == [kind |-> "response", of |-> p, nth |-> 0]
Complete(p) == [kind |-> "complete", of |-> p, nth |-> 0]
Garbage     == [kind |-> "garbage", of |-> None, nth |-> 0]
Msgs == [kind : {"text", "response", "complete", "garbage"},
         of : Prompts \cup {None}, nth : 0..MaxChunks]
----------------------------------------------------------------------------
Init ==
  /\ pc = [p \in Prompts |-> "idle"] /\ sender = [p \in Prompts |-> "off"]
  /\ respCh = [p \in Prompts |-> <<>>] /\ doneCh = [p \in Prompts |-> <<>>]
  /\ current = None /\ text = <<>>
  /\ events = [p \in Prompts |-> <<>>] /\ result = [p \in Prompts |-> NoResult]
  /\ loop = "check" /\ hand = <<>> /\ onEvent = None
  /\ done = FALSE /\ readErr = FALSE /\ stopRead = FALSE
  /\ transport = TRUE /\ running = TRUE /\ stdin = TRUE
  /\ shut = "off" /\ panicked = FALSE
  /\ agent = "up" /\ setting \in Settings /\ heard = <<>> /\ sent = [p \in Prompts |-> 0]
  /\ replied = [p \in Prompts |-> FALSE] /\ completed = [p \in Prompts |-> FALSE]
  /\ pipe = <<>>

\* promptInternal takes execMu and looks at running ...
Enter(p) ==
  /\ pc[p] = "idle"
  /\ \A q \in Prompts : pc[q] \in {"idle", "done"}
  /\ IF running
       THEN /\ pc' = [pc EXCEPT ![p] = "entered"]
            /\ UNCHANGED result
       ELSE /\ pc' = [pc EXCEPT ![p] = "done"]
            /\ result' = [result EXCEPT ![p].kind = "notRunning"]
  /\ UNCHANGED <<sender, respCh, doneCh, current, text, events, loopVars, lifeVars,
                 worldVars>>

\* ... then resets the prompt state and starts the goroutine that sends.
Reset(p) ==
  /\ pc[p] = "entered"
  /\ pc'      = [pc EXCEPT ![p] = "asking"]
  /\ current' = p
  /\ text'    = <<>>
  /\ sender'  = [sender EXCEPT ![p] = "start"]
  /\ UNCHANGED <<respCh, doneCh, events, result, loopVars, lifeVars, worldVars>>

\* The select of promptInternal returns: the state is cleared, execMu released.
Return(p, kind, by, collected) ==
  /\ pc[p] = "asking"
  /\ pc'      = [pc EXCEPT ![p] = "done"]
  /\ result'  = [result EXCEPT ![p] = [kind |-> kind, by |-> by, text |-> collected]]
  /\ current' = None
  /\ UNCHANGED <<sender, text, events, loopVars, lifeVars, worldVars>>

TakeDone(p) ==
  /\ doneCh[p] # <<>>
  /\ Return(p, "answered", Head(doneCh[p]), text)
  /\ doneCh' = [doneCh EXCEPT ![p] = Tail(@)]
  /\ UNCHANGED respCh

\* A plausible bug: The answer to session/prompt ends the prompt, whatever it says.
TakeReplyAnswered(p) ==
  /\ respCh[p] # <<>>
  /\ IF Head(respCh[p]) = "error" THEN Return(p, "failed", None, <<>>)
                                   ELSE Return(p, "answered", p, text)
  /\ respCh' = [respCh EXCEPT ![p] = Tail(@)]
  /\ UNCHANGED doneCh

TakeReply(p) ==
  /\ respCh[p] # <<>>
  /\ CASE Head(respCh[p]) = "error" -> Return(p, "failed", None, <<>>)
       [] Head(respCh[p]) = "stop"  -> Return(p, "answered", p, text)
       [] OTHER -> /\ pc[p] = "asking"
                   /\ UNCHANGED <<pc, result, current, sender, text, events, loopVars,
                                  lifeVars, worldVars>>
  /\ respCh' = [respCh EXCEPT ![p] = Tail(@)]
  /\ UNCHANGED doneCh

\* The caller's context ends, or the idle timer fires.  The session/cancel it
\* writes changes nothing here: the agent may end a turn at any time.
GiveUp(p) ==
  /\ \/ "cancel" \in setting.trouble /\ Return(p, "cancelled", None, <<>>)
     \/ "idle" \in setting.trouble /\ Return(p, "idle", None, <<>>)
  /\ UNCHANGED <<respCh, doneCh>>

NoticeExit(p) ==
  /\ done
  /\ Return(p, IF readErr THEN "readError" ELSE "exited", None, <<>>)
  /\ UNCHANGED <<respCh, doneCh>>

PromptStep(p) == \/ Enter(p) \/ Reset(p) \/ TakeDone(p) \/ TakeReply(p)
                 \/ GiveUp(p) \/ NoticeExit(p)
----------------------------------------------------------------------------
\* The goroutine of a prompt: sendRequest uses c.transport as it is then.
SendPrompt(p) ==
  /\ sender[p] = "start"
  /\ transport
  /\ \/ /\ stdin /\ agent = "up"
        /\ sender' = [sender EXCEPT ![p] = "waiting"]
        /\ heard'  = Append(heard, p)
        /\ UNCHANGED respCh
     \/ /\ ~stdin \/ agent = "gone"
        /\ sender' = [sender EXCEPT ![p] = "over"]
        /\ respCh' = [respCh EXCEPT ![p] = <<"error">>]
        /\ UNCHANGED heard
  /\ UNCHANGED <<pc, doneCh, current, text, events, result, loopVars, lifeVars, agent,
                 setting, sent, replied, completed, pipe>>

SendPanics(p) ==
  /\ sender[p] = "start"
  /\ ~transport
  /\ panicked' = TRUE
  /\ UNCHANGED <<promptVars, sender, events, loopVars, stopRead, transport, running,
                 stdin, shut, worldVars>>

\* SendRequest returns with the delivered response, which may be an error.
Given == {IF setting.style = "notify" THEN "ack" ELSE "stop"}
           \cup (IF "refusal" \in setting.trouble THEN {"error"} ELSE {})

SenderGets(p) ==
  /\ sender[p] = "given"
  /\ sender' = [sender EXCEPT ![p] = "over"]
  /\ \E r \in Given : respCh' = [respCh EXCEPT ![p] = <<r>>]
  /\ UNCHANGED <<pc, doneCh, current, text, events, result, loopVars, lifeVars, worldVars>>

\* ... or with its timeout.
SenderTimesOut(p) ==
  /\ "idle" \in setting.trouble
  /\ sender[p] \in {"waiting", "given"}
  /\ sender' = [sender EXCEPT ![p] = "over"]
  /\ respCh' = [respCh EXCEPT ![p] = <<"error">>]
  /\ UNCHANGED <<pc, doneCh, current, text, events, result, loopVars, lifeVars, worldVars>>

SenderStep(p) == SendPrompt(p) \/ SendPanics(p) \/ SenderGets(p) \/ SenderTimesOut(p)
----------------------------------------------------------------------------
\* A plausible bug: Only an error is taken for the end of the loop's work.
LoopEndsOnError(failed) ==
  /\ loop'    = "closed"
  /\ done'    = failed
  /\ readErr' = (readErr \/ failed)

\* The read loop.  Its deferred close(c.done) is the last thing it does.
LoopEnds(failed) ==
  /\ loop'    = "closed"
  /\ done'    = TRUE
  /\ readErr' = (readErr \/ failed)

CheckContext ==
  /\ loop = "check"
  /\ IF stopRead THEN LoopEnds(FALSE)
                 ELSE loop' = "fetch" /\ UNCHANGED <<done, readErr>>
  /\ UNCHANGED <<promptVars, sender, events, hand, onEvent, lifeVars, worldVars>>

\* c.transport.ReadAnyMessage(): the field is read without c.mu.
FetchTransport ==
  /\ loop = "fetch"
  /\ IF transport THEN loop' = "read" /\ UNCHANGED panicked
                  ELSE panicked' = TRUE /\ UNCHANGED loop
  /\ UNCHANGED <<promptVars, sender, events, hand, onEvent, done, readErr, stopRead,
                 transport, running, stdin, shut, worldVars>>

\* A plausible bug: Responses are handled ahead of notifications, by a goroutine
\* of their own.
ReadLineResponsesFirst ==
  /\ loop = "read"
  /\ pipe # <<>>
  /\ LET first == {i \in 1..Len(pipe) : pipe[i].kind = "response"}
         i == IF first = {} THEN 1 ELSE CHOOSE j \in first : \A k \in first : j <= k
     IN  /\ pipe' = SubSeq(pipe, 1, i - 1) \o SubSeq(pipe, i + 1, Len(pipe))
         /\ IF pipe[i].kind = "garbage"
              THEN LoopEnds(TRUE) /\ UNCHANGED hand
              ELSE hand' = <<pipe[i]>> /\ loop' = "handle" /\ UNCHANGED <<done, readErr>>
  /\ UNCHANGED <<promptVars, sender, events, onEvent, lifeVars, agent, agentVars>>

\* A line is read and parsed; a line that is not JSON-RPC ends the loop.
ReadLine ==
  /\ loop = "read"
  /\ pipe # <<>>
  /\ pipe' = Tail(pipe)
  /\ IF Head(pipe).kind = "garbage"
       THEN LoopEnds(TRUE) /\ UNCHANGED hand
       ELSE /\ hand' = <<Head(pipe)>>
            /\ loop' = "handle"
            /\ UNCHANGED <<done, readErr>>
  /\ UNCHANGED <<promptVars, sender, events, onEvent, lifeVars, agent, agentVars>>

\* The stream ends: EOF, or a read error once cmd.Wait has closed the pipe.
ReadEnds ==
  /\ loop = "read"
  /\ agent = "gone"
  /\ \/ pipe = <<>> /\ LoopEnds(FALSE)
     \/ shut \in {"waited", "over"} /\ LoopEnds(TRUE)
  /\ UNCHANGED <<promptVars, sender, events, hand, onEvent, lifeVars, worldVars>>

Handled == hand' = <<>> /\ loop' = "check"

\* DeliverResponse, on c.transport as it is then: to a caller that still waits.
HandleResponse ==
  /\ loop = "handle" /\ Head(hand).kind = "response"
  /\ LET p == Head(hand).of
     IN  IF transport
           THEN /\ Handled
                /\ sender' = IF sender[p] = "waiting" THEN [sender EXCEPT ![p] = "given"]
                                                     ELSE sender
                /\ UNCHANGED panicked
           ELSE panicked' = TRUE /\ UNCHANGED <<hand, loop, sender>>
  /\ UNCHANGED <<promptVars, events, onEvent, done, readErr, stopRead, transport,
                 running, stdin, shut, worldVars>>

\* A plausible bug: The channel is taken to have room.
HandleCompleteUnchecked ==
  /\ loop = "handle" /\ Head(hand).kind = "complete"
  /\ Handled
  /\ doneCh' = IF current # None
                 THEN [doneCh EXCEPT ![current] = Append(@, Head(hand).of)] ELSE doneCh
  /\ UNCHANGED <<pc, sender, respCh, current, text, events, result, onEvent, done,
                 readErr, lifeVars, worldVars>>

\* handlePromptComplete: for whatever prompt is active in the session.
HandleComplete ==
  /\ loop = "handle" /\ Head(hand).kind = "complete"
  /\ Handled
  /\ doneCh' = IF current # None /\ doneCh[current] = <<>>
                 THEN [doneCh EXCEPT ![current] = <<Head(hand).of>>] ELSE doneCh
  /\ UNCHANGED <<pc, sender, respCh, current, text, events, result, onEvent, done,
                 readErr, lifeVars, worldVars>>

\* handleSessionUpdate: the text is appended under promptMu ...
HandleText ==
  /\ loop = "handle" /\ Head(hand).kind = "text"
  /\ text'    = Append(text, [of |-> Head(hand).of, nth |-> Head(hand).nth])
  /\ onEvent' = current
  /\ loop'    = "emit"
  /\ UNCHANGED <<pc, sender, respCh, doneCh, current, events, result, hand, done,
                 readErr, lifeVars, worldVars>>

\* A plausible bug: The callback is read again when it is called.
EmitToCurrent ==
  /\ loop = "emit"
  /\ Handled
  /\ events' = IF current = None THEN events
               ELSE [events EXCEPT ![current] =
                       Append(@, [of |-> Head(hand).of, nth |-> Head(hand).nth])]
  /\ onEvent' = None
  /\ UNCHANGED <<promptVars, sender, done, readErr, lifeVars, worldVars>>

\* ... and the callback is called after it is released.
Emit ==
  /\ loop = "emit"
  /\ Handled
  /\ events' = IF onEvent = None THEN events
               ELSE [events EXCEPT ![onEvent] =
                       Append(@, [of |-> Head(hand).of, nth |-> Head(hand).nth])]
  /\ onEvent' = None
  /\ UNCHANGED <<promptVars, sender, done, readErr, lifeVars, worldVars>>

LoopStep == \/ CheckContext \/ FetchTransport \/ ReadLine \/ ReadEnds
            \/ HandleResponse \/ HandleComplete \/ HandleText \/ Emit
----------------------------------------------------------------------------
\* shutdown: close the pipe to the agent, cancel the read loop, kill, wait ...
ShutStep(from, to) ==
  /\ "shutdown" \in setting.trouble
  /\ shut = from
  /\ shut' = to
  /\ UNCHANGED <<promptVars, sender, events, loopVars, panicked, agentVars, pipe>>

CloseWriter ==
  /\ ShutStep("off", "writerClosed")
  /\ stdin' = FALSE
  /\ UNCHANGED <<stopRead, transport, running, agent>>

CancelRead ==
  /\ ShutStep("writerClosed", "readCancelled")
  /\ stopRead' = TRUE
  /\ UNCHANGED <<transport, running, stdin, agent>>

KillAndWait ==
  /\ ShutStep("readCancelled", "waited")
  /\ agent' = "gone"
  /\ UNCHANGED <<stopRead, transport, running, stdin>>

\* ... and forget everything about the process, whoever still uses it.
ClearFields ==
  /\ "shutdown" \in setting.trouble
  /\ shut = "waited"
  /\ shut'      = "over"
  /\ transport' = FALSE
  /\ running'   = FALSE
  /\ readErr'   = FALSE
  /\ UNCHANGED <<promptVars, sender, events, loop, hand, onEvent, done, stopRead, stdin,
                 panicked, worldVars>>

Shutdown == CloseWriter \/ CancelRead \/ KillAndWait \/ ClearFields
----------------------------------------------------------------------------
\* The agent, outside this repository, works on the prompts it has heard one
\* after the other.  It ends a turn by its response to session/prompt, or
\* acknowledges it at any time and ends it by prompt_complete.
Ended(p)    == IF setting.style = "notify" THEN completed[p] ELSE replied[p]
Finished(p) == Ended(p) /\ replied[p]
MyTurn(p)   == \E i \in 1..Len(heard) :
                 heard[i] = p /\ \A j \in 1..(i - 1) : Finished(heard[j])

AgentSends(m) ==
  /\ agent = "up"
  /\ pipe' = Append(pipe, m)
  /\ UNCHANGED <<promptVars, sender, events, loopVars, lifeVars, agent, setting, heard>>

AgentWrites(p) ==
  /\ MyTurn(p) /\ ~Ended(p) /\ sent[p] < setting.chunks
  /\ sent' = [sent EXCEPT ![p] = @ + 1]
  /\ AgentSends(Text([of |-> p, nth |-> sent[p] + 1]))
  /\ UNCHANGED <<replied, completed>>

AgentReplies(p) ==
  /\ MyTurn(p) /\ ~replied[p]
  /\ replied' = [replied EXCEPT ![p] = TRUE]
  /\ AgentSends(Response(p))
  /\ UNCHANGED <<sent, completed>>

AgentCompletes(p) ==
  /\ MyTurn(p) /\ ~completed[p] /\ setting.style = "notify"
  /\ completed' = [completed EXCEPT ![p] = TRUE]
  /\ AgentSends(Complete(p))
  /\ UNCHANGED <<sent, replied>>

AgentGarbles ==
  /\ "garbage" \in setting.trouble
  /\ AgentSends(Garbage)
  /\ \A i \in 1..Len(pipe) : pipe[i] # Garbage
  /\ UNCHANGED <<sent, replied, completed>>

AgentExits ==
  /\ "exit" \in setting.trouble
  /\ agent = "up"
  /\ agent' = "gone"
  /\ UNCHANGED <<promptVars, sender, events, loopVars, lifeVars, agentVars, pipe>>

AgentStep == \/ \E p \in Prompts : AgentWrites(p) \/ AgentReplies(p) \/ AgentCompletes(p)
             \/ AgentGarbles \/ AgentExits
----------------------------------------------------------------------------
Next == /\ ~panicked
        /\ \/ \E p \in Prompts : PromptStep(p) \/ SenderStep(p)
           \/ LoopStep \/ Shutdown \/ AgentStep

Spec == Init /\ [][Next]_vars

\* A goroutine of this process that can go on does.  Nothing is assumed of the
\* agent, of timers or of anybody who gives up.
FairSpec == /\ Spec
            /\ WF_vars(LoopStep)
            /\ \A p \in Prompts :
                 /\ WF_vars(Reset(p))
                 /\ WF_vars(TakeDone(p) \/ TakeReply(p) \/ NoticeExit(p))
----------------------------------------------------------------------------
TypeOK ==
  /\ pc \in [Prompts -> {"idle", "entered", "asking", "done"}]
  /\ sender \in [Prompts -> {"off", "start", "waiting", "given", "over"}]
  /\ respCh \in [Prompts -> Seq(Replies)] /\ \A p \in Prompts : Len(respCh[p]) <= 1
  /\ doneCh \in [Prompts -> Seq(Prompts)] /\ \A p \in Prompts : Len(doneCh[p]) <= 1
  /\ \A p \in Prompts : current = p <=> pc[p] = "asking"
  /\ current \in Prompts \cup {None}
  /\ text \in Seq(Chunks)
  /\ events \in [Prompts -> Seq(Chunks)]
  /\ result \in [Prompts -> Results]
  /\ loop \in {"check", "fetch", "read", "handle", "emit", "closed"}
  /\ hand \in Seq(Msgs) /\ Len(hand) = IF loop \in {"handle", "emit"} THEN 1 ELSE 0
  /\ onEvent \in Prompts \cup {None}
  /\ {done, readErr, stopRead, transport, running, stdin, panicked} \subseteq BOOLEAN
  /\ done <=> loop = "closed"
  /\ shut \in {"off", "writerClosed", "readCancelled", "waited", "over"}
  /\ agent \in {"up", "gone"} /\ setting \in Settings
  /\ heard \in Seq(Prompts)
  /\ sent \in [Prompts -> 0..MaxChunks]
  /\ replied \in [Prompts -> BOOLEAN] /\ completed \in [Prompts -> BOOLEAN]
  /\ pipe \in Seq(Msgs)

Answered(p) == result[p].kind = "answered" /\ result[p].by = p
Own(p, s)   == {i \in DOMAIN s : s[i].of = p}

\* The full response: a prompt that returns with its own ending returns all the
\* text the agent sent for it, in order, however the goroutine that receives
\* the response and the read loop that handles the text are scheduled.
AnswerIsWhole ==
  \A p \in Prompts : Answered(p) =>
    LET s == result[p].text
    IN  /\ {s[i].nth : i \in Own(p, s)} = 1..sent[p]
        /\ \A i, j \in Own(p, s) : i < j => s[i].nth < s[j].nth

\* The callback of PromptStream is told what PromptStream returns, in order and
\* nothing else; at most its last piece comes after the return.
StreamIsResult ==
  \A p \in Prompts :
    result[p].kind = "answered" =>
      result[p].text = IF loop = "emit" /\ onEvent = p
                         THEN Append(events[p], [of |-> Head(hand).of, nth |-> Head(hand).nth])
                         ELSE events[p]

\* The ending or the text of another prompt is taken for one's own only when
\* that other prompt never got its own ending (handlePromptComplete, client.go:1954).
ForeignMeansAbandoned ==
  \A p, q \in Prompts :
    /\ p # q
    /\ \/ result[p].by = q
       \/ Own(q, result[p].text) # {}
    => ~Answered(q)

\* When the process has gone a prompt ends without waiting for a timer, even
\* though SendRequest waits on.  (A nil transport ends the program.)
ProcessEndIsNoticed ==
  \A p \in Prompts :
    agent = "gone" /\ pc[p] = "asking" ~> pc[p] = "done" \/ panicked
=============================================================================
