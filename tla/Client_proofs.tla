---------------------------- MODULE Client_proofs ----------------------------
(***************************************************************************)
(* Proofs about Client, for any prompts, settings and number of messages,  *)
(* of its types and its three safety invariants.  Three invariants in      *)
(* turn: TypeInv, the types together with what the messages under way may  *)
(* be; StreamInv, what a callback was told while its prompt still asks;    *)
(* StoryInv, on top of TypeInv, what the messages still to be handled, the *)
(* text collected and the channels say of turns that have ended.           *)
(***************************************************************************)
EXTENDS Client, TLAPS

-----------------------------------------------------------------------------
\* Types, with what the messages say, by the groups of variables.

Posted == {Text(c) : c \in Chunks} \cup {Response(p) : p \in Prompts} \cup {Complete(p) : p \in Prompts}
PromptTypes ==
  /\ pc \in [Prompts -> {"idle", "entered", "asking", "done"}]
  /\ respCh \in [Prompts -> Seq(Replies)] /\ \A p \in Prompts : Len(respCh[p]) <= 1
  /\ doneCh \in [Prompts -> Seq(Prompts)] /\ \A p \in Prompts : Len(doneCh[p]) <= 1
  /\ \A p \in Prompts : current = p <=> pc[p] = "asking"
  /\ \A p, q \in Prompts : pc[p] \in {"entered", "asking"} /\ pc[q] \in {"entered", "asking"} => p = q
  /\ current \in Prompts \cup {None}
  /\ text \in Seq(Chunks) /\ result \in [Prompts -> Results]
SenderTypes == sender \in [Prompts -> {"off", "start", "waiting", "given", "over"}]
EventTypes  == events \in [Prompts -> Seq(Chunks)]
LoopTypes ==
  /\ loop \in {"check", "fetch", "read", "handle", "emit", "closed"}
  /\ hand \in Seq(Posted) /\ Len(hand) = IF loop \in {"handle", "emit"} THEN 1 ELSE 0
  /\ loop = "emit" => Head(hand).kind = "text"
  /\ onEvent \in Prompts \cup {None} /\ (loop # "emit" => onEvent = None)
  /\ done \in BOOLEAN /\ readErr \in BOOLEAN /\ (done <=> loop = "closed")
LifeTypes ==
  /\ stopRead \in BOOLEAN /\ transport \in BOOLEAN /\ running \in BOOLEAN /\ stdin \in BOOLEAN
  /\ panicked \in BOOLEAN
  /\ shut \in {"off", "writerClosed", "readCancelled", "waited", "over"}
WorldTypes ==
  /\ agent \in {"up", "gone"} /\ setting \in Settings /\ heard \in Seq(Prompts)
  /\ sent \in [Prompts -> 0..MaxChunks]
  /\ replied \in [Prompts -> BOOLEAN] /\ completed \in [Prompts -> BOOLEAN]
  /\ pipe \in Seq(Posted \cup {Garbage})
TypeInv == PromptTypes /\ SenderTypes /\ EventTypes /\ LoopTypes /\ LifeTypes /\ WorldTypes

LEMMA PostedIs ==
  /\ Posted \subseteq Msgs /\ Posted \cup {Garbage} \subseteq Msgs
  /\ \A m \in Posted : /\ m.of \in Prompts /\ m.kind \in {"text", "response", "complete"}
                       /\ m.kind = "text" => m.nth \in 1..MaxChunks
                       /\ m.kind = "text" => m = Text([of |-> m.of, nth |-> m.nth])
                       /\ m.kind = "response" => m = Response(m.of)
                       /\ m.kind = "complete" => m = Complete(m.of)
  /\ Garbage.kind = "garbage"
BY MaxChunksAssumption DEF Posted, Msgs, Text, Response, Complete, Garbage, Chunks

LEMMA HandIs ==
  ASSUME LoopTypes, loop \in {"handle", "emit"}
  PROVE  /\ Head(hand) \in Posted /\ hand = <<Head(hand)>>
         /\ Head(hand).kind = "text" => [of |-> Head(hand).of, nth |-> Head(hand).nth] \in Chunks
<1>1. hand \in Seq(Posted) /\ Len(hand) = 1
  BY DEF LoopTypes
<1>2. Head(hand) \in Posted /\ hand = <<Head(hand)>>
  BY <1>1
<1>3. Head(hand).kind = "text" => [of |-> Head(hand).of, nth |-> Head(hand).nth] \in Chunks
  BY <1>2, PostedIs DEF Chunks
<1> QED
  BY <1>2, <1>3

LEMMA ReturnTypes ==
  ASSUME PromptTypes, NEW p \in Prompts, NEW kind \in Kinds, NEW by \in Prompts \cup {None},
         NEW collected \in Seq(Chunks), Return(p, kind, by, collected)
  PROVE  /\ pc' \in [Prompts -> {"idle", "entered", "asking", "done"}]
         /\ \A q \in Prompts : current' = q <=> pc'[q] = "asking"
         /\ \A q \in Prompts : pc'[q] \notin {"entered", "asking"}
         /\ current' \in Prompts \cup {None}
         /\ text' \in Seq(Chunks) /\ result' \in [Prompts -> Results]
<1>1. pc[p] = "asking" /\ pc' = [pc EXCEPT ![p] = "done"] /\ current' = None /\ text' = text
      /\ result' = [result EXCEPT ![p] = [kind |-> kind, by |-> by, text |-> collected]]
  BY DEF Return
<1>2. [kind |-> kind, by |-> by, text |-> collected] \in Results
  BY DEF Results
<1>3. current = p
  BY <1>1 DEF PromptTypes
<1>4. result' \in [Prompts -> Results]
  BY <1>1, <1>2 DEF PromptTypes
<1>5. \A q \in Prompts : current' = q <=> pc'[q] = "asking"
  BY <1>1, <1>3, PromptsAssumption DEF PromptTypes
<1>6. \A q \in Prompts : pc'[q] \notin {"entered", "asking"}
  BY <1>1 DEF PromptTypes
<1> QED
  BY <1>1, <1>4, <1>5, <1>6 DEF PromptTypes

LEMMA SentIs ==
  ASSUME WorldTypes, NEW p \in Prompts, AgentWrites(p)
  PROVE  sent[p] + 1 \in 1..MaxChunks
<1>1. setting.chunks \in 0..MaxChunks
  BY SettingsAssumption DEF WorldTypes
<1> QED
  BY <1>1, MaxChunksAssumption DEF WorldTypes, AgentWrites

LEMMA EnterTypes ==
  ASSUME TypeInv, NEW p \in Prompts, Enter(p)
  PROVE  TypeInv'
<1>1. PromptTypes'
  <2>1. result' \in [Prompts -> Results]
    <3>1. result[p] \in Results /\ "notRunning" \in Kinds
      BY DEF TypeInv, PromptTypes, Kinds
    <3>2. PICK r : r = [result[p] EXCEPT !.kind = "notRunning"]
      OBVIOUS
    <3>3. r \in Results
      BY <3>1, <3>2 DEF Results
    <3>4. result' = result \/ result' = [result EXCEPT ![p] = r]
      BY <3>2 DEF Enter
    <3> QED
      BY <3>3, <3>4 DEF TypeInv, PromptTypes
  <2>2. UNCHANGED <<respCh, doneCh, current, text>> /\ pc[p] = "idle"
        /\ (pc' = [pc EXCEPT ![p] = "entered"] \/ pc' = [pc EXCEPT ![p] = "done"])
    BY DEF Enter
  <2>3. pc' \in [Prompts -> {"idle", "entered", "asking", "done"}]
        /\ \A q \in Prompts : current' = q <=> pc'[q] = "asking"
    BY <2>2 DEF TypeInv, PromptTypes
  <2>4. \A q, r \in Prompts :
          pc'[q] \in {"entered", "asking"} /\ pc'[r] \in {"entered", "asking"} => q = r
    <3>1. \A q \in Prompts : pc[q] \in {"idle", "done"}
      BY DEF Enter
    <3> QED
      BY <2>2, <3>1 DEF TypeInv, PromptTypes
  <2> QED
    BY <2>1, <2>2, <2>3, <2>4 DEF TypeInv, PromptTypes
<1>2. SenderTypes' /\ EventTypes' /\ LoopTypes' /\ LifeTypes' /\ WorldTypes'
  BY DEF TypeInv, SenderTypes, EventTypes, LoopTypes, LifeTypes, WorldTypes, loopVars,
     lifeVars, worldVars, agentVars, Enter, Results, Kinds
<1> QED
  BY <1>1, <1>2 DEF TypeInv

LEMMA ResetTypes ==
  ASSUME TypeInv, NEW p \in Prompts, Reset(p)
  PROVE  TypeInv'
<1>1. PromptTypes'
  <2>1. pc[p] = "entered" /\ pc' = [pc EXCEPT ![p] = "asking"] /\ current' = p /\ text' = <<>>
        /\ UNCHANGED <<respCh, doneCh, result>>
    BY DEF Reset
  <2>2. \A q \in Prompts : q # p => pc[q] \notin {"entered", "asking"}
    BY <2>1 DEF TypeInv, PromptTypes
  <2>3. \A q \in Prompts : current' = q <=> pc'[q] = "asking"
    BY <2>1, <2>2 DEF TypeInv, PromptTypes
  <2>4. text' \in Seq(Chunks)
    BY <2>1
  <2>5. \A q, r \in Prompts :
          pc'[q] \in {"entered", "asking"} /\ pc'[r] \in {"entered", "asking"} => q = r
    BY <2>1, <2>2 DEF TypeInv, PromptTypes
  <2> QED
    BY <2>1, <2>3, <2>4, <2>5 DEF TypeInv, PromptTypes
<1>2. SenderTypes'
  BY PostedIs, PromptsAssumption DEF TypeInv, SenderTypes, Reset
<1>3. EventTypes' /\ LoopTypes' /\ LifeTypes' /\ WorldTypes'
  BY DEF TypeInv, EventTypes, LoopTypes, LifeTypes, WorldTypes, loopVars, lifeVars, worldVars,
     agentVars, Reset
<1> QED
  BY <1>1, <1>2, <1>3 DEF TypeInv

LEMMA TakeDoneTypes ==
  ASSUME TypeInv, NEW p \in Prompts, TakeDone(p)
  PROVE  TypeInv'
<1>1. PromptTypes'
  <2>1. Head(doneCh[p]) \in Prompts /\ Tail(doneCh[p]) \in Seq(Prompts) /\ Len(Tail(doneCh[p])) <= 1
    BY DEF TypeInv, PromptTypes, TakeDone
  <2>2. /\ Return(p, "answered", Head(doneCh[p]), text) /\ respCh' = respCh
        /\ doneCh' = [doneCh EXCEPT ![p] = Tail(doneCh[p])]
    BY DEF TakeDone
  <2>3. "answered" \in Kinds /\ text \in Seq(Chunks) /\ PromptTypes
    BY DEF Kinds, TypeInv, PromptTypes
  <2>4. doneCh' \in [Prompts -> Seq(Prompts)] /\ \A q \in Prompts : Len(doneCh'[q]) <= 1
    BY <2>1, <2>2 DEF TypeInv, PromptTypes
  <2>5. respCh' \in [Prompts -> Seq(Replies)] /\ \A q \in Prompts : Len(respCh'[q]) <= 1
    BY <2>2 DEF TypeInv, PromptTypes
  <2> QED
    BY <2>1, <2>2, <2>3, <2>4, <2>5, ReturnTypes DEF PromptTypes
<1>2. SenderTypes' /\ EventTypes' /\ LoopTypes' /\ LifeTypes' /\ WorldTypes'
  BY DEF TypeInv, SenderTypes, EventTypes, LoopTypes, LifeTypes, WorldTypes, loopVars,
     lifeVars, worldVars, agentVars, TakeDone, Return, Results, Kinds
<1> QED
  BY <1>1, <1>2 DEF TypeInv

LEMMA TakeReplyTypes ==
  ASSUME TypeInv, NEW p \in Prompts, TakeReply(p)
  PROVE  TypeInv'
<1>1. PromptTypes'
  <2>1. Tail(respCh[p]) \in Seq(Replies) /\ Len(Tail(respCh[p])) <= 1
    BY DEF TypeInv, PromptTypes, TakeReply
  <2>2. /\ \/ Return(p, "failed", None, <<>>) \/ Return(p, "answered", p, text)
           \/ UNCHANGED <<pc, result, current, text>>
        /\ doneCh' = doneCh /\ respCh' = [respCh EXCEPT ![p] = Tail(respCh[p])]
    BY DEF TakeReply
  <2>3. "answered" \in Kinds /\ "failed" \in Kinds /\ text \in Seq(Chunks) /\ <<>> \in Seq(Chunks)
        /\ PromptTypes /\ None \in Prompts \cup {None} /\ p \in Prompts \cup {None}
    BY DEF Kinds, TypeInv, PromptTypes
  <2>4. respCh' \in [Prompts -> Seq(Replies)] /\ \A q \in Prompts : Len(respCh'[q]) <= 1
    BY <2>1, <2>2 DEF TypeInv, PromptTypes
  <2>5. /\ pc' \in [Prompts -> {"idle", "entered", "asking", "done"}]
        /\ \A q \in Prompts : current' = q <=> pc'[q] = "asking"
        /\ \A q, r \in Prompts :
             pc'[q] \in {"entered", "asking"} /\ pc'[r] \in {"entered", "asking"} => q = r
        /\ current' \in Prompts \cup {None}
        /\ text' \in Seq(Chunks) /\ result' \in [Prompts -> Results]
    <3>1. CASE Return(p, "failed", None, <<>>)
      BY <2>3, <3>1, ReturnTypes
    <3>2. CASE Return(p, "answered", p, text)
      BY <2>3, <3>2, ReturnTypes
    <3>3. CASE UNCHANGED <<pc, result, current, text>>
      BY <3>3 DEF TypeInv, PromptTypes
    <3> QED
      BY <2>2, <3>1, <3>2, <3>3
  <2> QED
    BY <2>2, <2>4, <2>5 DEF TypeInv, PromptTypes
<1>2. SenderTypes' /\ EventTypes' /\ LoopTypes' /\ LifeTypes' /\ WorldTypes'
  BY DEF TypeInv, SenderTypes, EventTypes, LoopTypes, LifeTypes, WorldTypes, loopVars,
     lifeVars, worldVars, agentVars, TakeReply, Return, Results, Kinds, Replies
<1> QED
  BY <1>1, <1>2 DEF TypeInv

LEMMA GiveUpTypes ==
  ASSUME TypeInv, NEW p \in Prompts, GiveUp(p)
  PROVE  TypeInv'
<1>1. PromptTypes'
  <2>1. PICK kind \in {"cancelled", "idle"} : Return(p, kind, None, <<>>)
    BY DEF GiveUp
  <2>2. kind \in Kinds /\ <<>> \in Seq(Chunks) /\ PromptTypes /\ None \in Prompts \cup {None}
    BY DEF Kinds, TypeInv
  <2>3. UNCHANGED <<respCh, doneCh>>
    BY DEF GiveUp
  <2>4. /\ doneCh' \in [Prompts -> Seq(Prompts)] /\ \A q \in Prompts : Len(doneCh'[q]) <= 1
        /\ respCh' \in [Prompts -> Seq(Replies)] /\ \A q \in Prompts : Len(respCh'[q]) <= 1
    BY <2>3 DEF TypeInv, PromptTypes
  <2> QED
    BY <2>1, <2>2, <2>4, ReturnTypes DEF PromptTypes
<1>2. SenderTypes' /\ EventTypes' /\ LoopTypes' /\ LifeTypes' /\ WorldTypes'
  BY DEF TypeInv, SenderTypes, EventTypes, LoopTypes, LifeTypes, WorldTypes, loopVars,
     lifeVars, worldVars, agentVars, GiveUp, Return, Results, Kinds
<1> QED
  BY <1>1, <1>2 DEF TypeInv

LEMMA NoticeExitTypes ==
  ASSUME TypeInv, NEW p \in Prompts, NoticeExit(p)
  PROVE  TypeInv'
<1>1. PromptTypes'
  <2>1. PICK kind \in {"readError", "exited"} : Return(p, kind, None, <<>>)
    BY DEF NoticeExit
  <2>2. kind \in Kinds /\ <<>> \in Seq(Chunks) /\ PromptTypes /\ None \in Prompts \cup {None}
    BY DEF Kinds, TypeInv
  <2>3. UNCHANGED <<respCh, doneCh>>
    BY DEF NoticeExit
  <2>4. /\ doneCh' \in [Prompts -> Seq(Prompts)] /\ \A q \in Prompts : Len(doneCh'[q]) <= 1
        /\ respCh' \in [Prompts -> Seq(Replies)] /\ \A q \in Prompts : Len(respCh'[q]) <= 1
    BY <2>3 DEF TypeInv, PromptTypes
  <2> QED
    BY <2>1, <2>2, <2>4, ReturnTypes DEF PromptTypes
<1>2. SenderTypes' /\ EventTypes' /\ LoopTypes' /\ LifeTypes' /\ WorldTypes'
  BY DEF TypeInv, SenderTypes, EventTypes, LoopTypes, LifeTypes, WorldTypes, loopVars,
     lifeVars, worldVars, agentVars, NoticeExit, Return, Results, Kinds
<1> QED
  BY <1>1, <1>2 DEF TypeInv

LEMMA SendPromptTypes ==
  ASSUME TypeInv, NEW p \in Prompts, SendPrompt(p)
  PROVE  TypeInv'
<1>1. PromptTypes'
  <2>1. <<"error">> \in Seq(Replies) /\ Len(<<"error">>) <= 1
    BY DEF Replies
  <2>2. respCh' = respCh \/ respCh' = [respCh EXCEPT ![p] = <<"error">>]
    BY DEF SendPrompt
  <2>3. respCh' \in [Prompts -> Seq(Replies)] /\ \A q \in Prompts : Len(respCh'[q]) <= 1
    BY <2>1, <2>2 DEF TypeInv, PromptTypes
  <2>4. UNCHANGED <<pc, doneCh, current, text, result>>
    BY DEF SendPrompt
  <2> QED
    BY <2>3, <2>4 DEF TypeInv, PromptTypes
<1>2. SenderTypes'
  BY PostedIs, PromptsAssumption DEF TypeInv, SenderTypes, SendPrompt, Replies
<1>3. WorldTypes'
  <2>1. heard' = heard \/ heard' = Append(heard, p)
    BY DEF SendPrompt
  <2>2. heard' \in Seq(Prompts)
    <3>1. heard \in Seq(Prompts) /\ Append(heard, p) \in Seq(Prompts)
      BY DEF TypeInv, WorldTypes
    <3> QED
      BY <2>1, <3>1
  <2>3. UNCHANGED <<agent, setting, sent, replied, completed, pipe>>
    BY DEF SendPrompt
  <2> QED
    BY <2>2, <2>3 DEF TypeInv, WorldTypes
<1>4. EventTypes' /\ LoopTypes' /\ LifeTypes'
  BY DEF TypeInv, EventTypes, LoopTypes, LifeTypes, loopVars, lifeVars, SendPrompt, Replies
<1> QED
  BY <1>1, <1>2, <1>3, <1>4 DEF TypeInv

LEMMA SendPanicsTypes ==
  ASSUME TypeInv, NEW p \in Prompts, SendPanics(p)
  PROVE  TypeInv'
<1>1. LifeTypes'
  BY PostedIs, PromptsAssumption DEF TypeInv, LifeTypes, lifeVars, SendPanics
<1>2. PromptTypes' /\ SenderTypes' /\ EventTypes' /\ LoopTypes' /\ WorldTypes'
  BY DEF TypeInv, PromptTypes, SenderTypes, EventTypes, LoopTypes, WorldTypes, promptVars,
     loopVars, worldVars, agentVars, SendPanics
<1> QED
  BY <1>1, <1>2 DEF TypeInv

LEMMA SenderGetsTypes ==
  ASSUME TypeInv, NEW p \in Prompts, SenderGets(p)
  PROVE  TypeInv'
<1>1. PromptTypes'
  BY PostedIs, PromptsAssumption DEF TypeInv, PromptTypes, promptVars, SenderGets, Given, Replies
<1>2. SenderTypes'
  BY PostedIs, PromptsAssumption DEF TypeInv, SenderTypes, SenderGets, Given, Replies
<1>3. EventTypes' /\ LoopTypes' /\ LifeTypes' /\ WorldTypes'
  BY DEF TypeInv, EventTypes, LoopTypes, LifeTypes, WorldTypes, loopVars, lifeVars, worldVars,
     agentVars, SenderGets, Given, Replies
<1> QED
  BY <1>1, <1>2, <1>3 DEF TypeInv

LEMMA SenderTimesOutTypes ==
  ASSUME TypeInv, NEW p \in Prompts, SenderTimesOut(p)
  PROVE  TypeInv'
<1>1. PromptTypes'
  <2>1. <<"error">> \in Seq(Replies) /\ Len(<<"error">>) <= 1
    BY DEF Replies
  <2>2. respCh' = respCh \/ respCh' = [respCh EXCEPT ![p] = <<"error">>]
    BY DEF SenderTimesOut
  <2>3. respCh' \in [Prompts -> Seq(Replies)] /\ \A q \in Prompts : Len(respCh'[q]) <= 1
    BY <2>1, <2>2 DEF TypeInv, PromptTypes
  <2>4. UNCHANGED <<pc, doneCh, current, text, result>>
    BY DEF SenderTimesOut
  <2> QED
    BY <2>3, <2>4 DEF TypeInv, PromptTypes
<1>2. SenderTypes'
  BY PostedIs, PromptsAssumption DEF TypeInv, SenderTypes, SenderTimesOut, Replies
<1>3. EventTypes' /\ LoopTypes' /\ LifeTypes' /\ WorldTypes'
  BY DEF TypeInv, EventTypes, LoopTypes, LifeTypes, WorldTypes, loopVars, lifeVars, worldVars,
     agentVars, SenderTimesOut, Replies
<1> QED
  BY <1>1, <1>2, <1>3 DEF TypeInv

LEMMA CheckContextTypes ==
  ASSUME TypeInv, CheckContext
  PROVE  TypeInv'
<1>1. LoopTypes'
  BY PostedIs, PromptsAssumption DEF TypeInv, LoopTypes, loopVars, CheckContext, LoopEnds
<1>2. PromptTypes' /\ SenderTypes' /\ EventTypes' /\ LifeTypes' /\ WorldTypes'
  BY DEF TypeInv, PromptTypes, SenderTypes, EventTypes, LifeTypes, WorldTypes, promptVars,
     lifeVars, worldVars, agentVars, CheckContext, LoopEnds
<1> QED
  BY <1>1, <1>2 DEF TypeInv

LEMMA FetchTransportTypes ==
  ASSUME TypeInv, FetchTransport
  PROVE  TypeInv'
<1>1. LoopTypes'
  BY PostedIs, PromptsAssumption DEF TypeInv, LoopTypes, loopVars, FetchTransport
<1>2. LifeTypes'
  BY PostedIs, PromptsAssumption DEF TypeInv, LifeTypes, lifeVars, FetchTransport
<1>3. PromptTypes' /\ SenderTypes' /\ EventTypes' /\ WorldTypes'
  BY DEF TypeInv, PromptTypes, SenderTypes, EventTypes, WorldTypes, promptVars, worldVars,
     agentVars, FetchTransport
<1> QED
  BY <1>1, <1>2, <1>3 DEF TypeInv

LEMMA ReadLineTypes ==
  ASSUME TypeInv, ReadLine
  PROVE  TypeInv'
<1>1. LoopTypes'
  <2>1. pipe \in Seq(Posted \cup {Garbage}) /\ pipe # <<>> /\ loop = "read" /\ onEvent' = onEvent
    BY DEF TypeInv, WorldTypes, ReadLine
  <2>2. Head(pipe) \in Posted \cup {Garbage}
    BY <2>1
  <2>3. CASE Head(pipe).kind = "garbage"
    BY <2>1, <2>3 DEF TypeInv, LoopTypes, ReadLine, LoopEnds
  <2>4. CASE Head(pipe).kind # "garbage"
    <3>1. Head(pipe) \in Posted
      BY <2>2, <2>4, PostedIs
    <3>2. hand' = <<Head(pipe)>> /\ loop' = "handle" /\ UNCHANGED <<done, readErr>>
      BY <2>4 DEF ReadLine
    <3>3. hand' \in Seq(Posted) /\ Len(hand') = 1
      BY <3>1, <3>2
    <3> QED
      BY <2>1, <3>2, <3>3 DEF TypeInv, LoopTypes
  <2> QED
    BY <2>3, <2>4
<1>2. WorldTypes'
  BY PostedIs, PromptsAssumption DEF TypeInv, WorldTypes, worldVars, agentVars, ReadLine, LoopEnds
<1>3. PromptTypes' /\ SenderTypes' /\ EventTypes' /\ LifeTypes'
  BY DEF TypeInv, PromptTypes, SenderTypes, EventTypes, LifeTypes, promptVars, lifeVars,
     ReadLine, LoopEnds
<1> QED
  BY <1>1, <1>2, <1>3 DEF TypeInv

LEMMA ReadEndsTypes ==
  ASSUME TypeInv, ReadEnds
  PROVE  TypeInv'
<1>1. LoopTypes'
  BY PostedIs, PromptsAssumption DEF TypeInv, LoopTypes, loopVars, ReadEnds, LoopEnds
<1>2. PromptTypes' /\ SenderTypes' /\ EventTypes' /\ LifeTypes' /\ WorldTypes'
  BY DEF TypeInv, PromptTypes, SenderTypes, EventTypes, LifeTypes, WorldTypes, promptVars,
     lifeVars, worldVars, agentVars, ReadEnds, LoopEnds
<1> QED
  BY <1>1, <1>2 DEF TypeInv

LEMMA HandleResponseTypes ==
  ASSUME TypeInv, HandleResponse
  PROVE  TypeInv'
<1>1. LoopTypes'
  <2>1. loop = "handle" /\ UNCHANGED <<onEvent, done, readErr>>
        /\ (UNCHANGED <<hand, loop>> \/ (hand' = <<>> /\ loop' = "check"))
    BY DEF HandleResponse, Handled
  <2>2. <<>> \in Seq(Posted) /\ Len(<<>>) = 0
    OBVIOUS
  <2>3. ~done /\ done \in BOOLEAN /\ readErr \in BOOLEAN /\ LoopTypes
    BY <2>1 DEF TypeInv, LoopTypes
  <2>4. CASE hand' = <<>> /\ loop' = "check" /\ onEvent' = None
    BY <2>1, <2>2, <2>3, <2>4 DEF LoopTypes
  <2>5. CASE UNCHANGED <<hand, loop, onEvent>>
    BY <2>1, <2>3, <2>5 DEF LoopTypes
  <2>6. loop # "emit" => onEvent = None
    BY DEF TypeInv, LoopTypes
  <2> QED
    BY <2>1, <2>4, <2>5, <2>6
<1>2. SenderTypes'
  BY PostedIs, PromptsAssumption DEF TypeInv, SenderTypes, HandleResponse, Handled
<1>3. LifeTypes'
  BY PostedIs, PromptsAssumption DEF TypeInv, LifeTypes, lifeVars, HandleResponse, Handled
<1>4. PromptTypes' /\ EventTypes' /\ WorldTypes'
  BY DEF TypeInv, PromptTypes, EventTypes, WorldTypes, promptVars, worldVars, agentVars,
     HandleResponse, Handled
<1> QED
  BY <1>1, <1>2, <1>3, <1>4 DEF TypeInv

LEMMA HandleCompleteTypes ==
  ASSUME TypeInv, HandleComplete
  PROVE  TypeInv'
<1>1. LoopTypes'
  <2>1. loop = "handle" /\ UNCHANGED <<onEvent, done, readErr>>
        /\ (UNCHANGED <<hand, loop>> \/ (hand' = <<>> /\ loop' = "check"))
    BY DEF HandleComplete, Handled
  <2>2. <<>> \in Seq(Posted) /\ Len(<<>>) = 0
    OBVIOUS
  <2>3. ~done /\ done \in BOOLEAN /\ readErr \in BOOLEAN /\ LoopTypes
    BY <2>1 DEF TypeInv, LoopTypes
  <2>4. CASE hand' = <<>> /\ loop' = "check" /\ onEvent' = None
    BY <2>1, <2>2, <2>3, <2>4 DEF LoopTypes
  <2>5. CASE UNCHANGED <<hand, loop, onEvent>>
    BY <2>1, <2>3, <2>5 DEF LoopTypes
  <2>6. loop # "emit" => onEvent = None
    BY DEF TypeInv, LoopTypes
  <2> QED
    BY <2>1, <2>4, <2>5, <2>6
<1>2. PromptTypes'
  <2>1. loop = "handle"
    BY DEF HandleComplete
  <2>2. Head(hand).of \in Prompts
    BY <2>1, HandIs, PostedIs DEF TypeInv
  <2>3. <<Head(hand).of>> \in Seq(Prompts) /\ Len(<<Head(hand).of>>) <= 1
    BY <2>2
  <2>4. doneCh' = doneCh \/ (current \in Prompts /\ doneCh' = [doneCh EXCEPT ![current] = <<Head(hand).of>>])
    BY DEF HandleComplete, TypeInv, PromptTypes
  <2>5. doneCh' \in [Prompts -> Seq(Prompts)] /\ \A q \in Prompts : Len(doneCh'[q]) <= 1
    BY <2>3, <2>4 DEF TypeInv, PromptTypes
  <2>6. UNCHANGED <<pc, respCh, current, text, result>>
    BY DEF HandleComplete
  <2> QED
    BY <2>5, <2>6 DEF TypeInv, PromptTypes
<1>3. SenderTypes' /\ EventTypes' /\ LifeTypes' /\ WorldTypes'
  BY DEF TypeInv, SenderTypes, EventTypes, LifeTypes, WorldTypes, lifeVars, worldVars,
     agentVars, HandleComplete, Handled
<1> QED
  BY <1>1, <1>2, <1>3 DEF TypeInv

LEMMA HandleTextTypes ==
  ASSUME TypeInv, HandleText
  PROVE  TypeInv'
<1>1. LoopTypes'
  <2>1. loop = "handle" /\ loop' = "emit" /\ onEvent' = current /\ Head(hand).kind = "text"
        /\ UNCHANGED <<hand, done, readErr>>
    BY DEF HandleText
  <2> QED
    BY <2>1 DEF TypeInv, LoopTypes, PromptTypes
<1>2. PromptTypes'
  <2>1. loop = "handle" /\ text' = Append(text, [of |-> Head(hand).of, nth |-> Head(hand).nth])
        /\ Head(hand).kind = "text" /\ UNCHANGED <<pc, respCh, doneCh, current, result>>
    BY DEF HandleText
  <2>2. [of |-> Head(hand).of, nth |-> Head(hand).nth] \in Chunks
    BY <2>1, HandIs DEF TypeInv
  <2>3. text' \in Seq(Chunks)
    BY <2>1, <2>2 DEF TypeInv, PromptTypes
  <2> QED
    BY <2>1, <2>3 DEF TypeInv, PromptTypes
<1>3. SenderTypes' /\ EventTypes' /\ LifeTypes' /\ WorldTypes'
  BY DEF TypeInv, SenderTypes, EventTypes, LifeTypes, WorldTypes, lifeVars, worldVars,
     agentVars, HandleText
<1> QED
  BY <1>1, <1>2, <1>3 DEF TypeInv

LEMMA EmitTypes ==
  ASSUME TypeInv, Emit
  PROVE  TypeInv'
<1>1. LoopTypes'
  <2>1. loop = "emit" /\ UNCHANGED <<done, readErr>> /\ onEvent' = None
        /\ hand' = <<>> /\ loop' = "check"
    BY DEF Emit, Handled
  <2>2. <<>> \in Seq(Posted) /\ Len(<<>>) = 0
    OBVIOUS
  <2>3. ~done /\ done \in BOOLEAN /\ readErr \in BOOLEAN /\ LoopTypes
    BY <2>1 DEF TypeInv, LoopTypes
  <2>4. CASE hand' = <<>> /\ loop' = "check" /\ onEvent' = None
    BY <2>1, <2>2, <2>3, <2>4 DEF LoopTypes
  <2>5. CASE UNCHANGED <<hand, loop, onEvent>>
    BY <2>1, <2>3, <2>5 DEF LoopTypes
  <2>6. loop # "emit" => onEvent = None
    BY DEF TypeInv, LoopTypes
  <2> QED
    BY <2>1, <2>4, <2>5, <2>6
<1>2. EventTypes'
  <2> DEFINE piece == [of |-> Head(hand).of, nth |-> Head(hand).nth]
  <2>1. piece \in Chunks
    BY HandIs DEF TypeInv, LoopTypes, Emit
  <2>2. events' = events \/ (onEvent \in Prompts /\ events' = [events EXCEPT ![onEvent] = Append(events[onEvent], piece)])
    BY DEF Emit, TypeInv, LoopTypes
  <2> HIDE DEF piece
  <2>3. onEvent \in Prompts => Append(events[onEvent], piece) \in Seq(Chunks)
    BY <2>1 DEF TypeInv, EventTypes
  <2> QED
    BY <2>2, <2>3 DEF TypeInv, EventTypes
<1>3. PromptTypes' /\ SenderTypes' /\ LifeTypes' /\ WorldTypes'
  BY DEF TypeInv, PromptTypes, SenderTypes, LifeTypes, WorldTypes, promptVars, lifeVars,
     worldVars, agentVars, Emit, Handled
<1> QED
  BY <1>1, <1>2, <1>3 DEF TypeInv

LEMMA ShutdownTypes ==
  ASSUME TypeInv, Shutdown
  PROVE  TypeInv'
<1>1. LoopTypes'
  <2>1. UNCHANGED <<loop, hand, onEvent, done>> /\ readErr' \in BOOLEAN
    BY DEF Shutdown, CloseWriter, CancelRead, KillAndWait, ClearFields, ShutStep, loopVars,
       TypeInv,
           LoopTypes
  <2> QED
    BY <2>1 DEF TypeInv, LoopTypes
<1>2. LifeTypes'
  BY PostedIs, PromptsAssumption DEF TypeInv, LifeTypes, lifeVars, Shutdown, CloseWriter,
     CancelRead, KillAndWait, ClearFields, ShutStep
<1>3. WorldTypes'
  BY PostedIs, PromptsAssumption DEF TypeInv, WorldTypes, worldVars, agentVars, Shutdown,
     CloseWriter, CancelRead, KillAndWait, ClearFields, ShutStep
<1>4. PromptTypes' /\ SenderTypes' /\ EventTypes'
  BY DEF TypeInv, PromptTypes, SenderTypes, EventTypes, promptVars, Shutdown, CloseWriter,
     CancelRead, KillAndWait, ClearFields, ShutStep
<1> QED
  BY <1>1, <1>2, <1>3, <1>4 DEF TypeInv

LEMMA AgentWritesTypes ==
  ASSUME TypeInv, NEW p \in Prompts, AgentWrites(p)
  PROVE  TypeInv'
<1>1. WorldTypes'
  <2>1. Text([of |-> p, nth |-> sent[p] + 1]) \in Posted \cup {Garbage}
    BY SentIs DEF Posted, Chunks, TypeInv
  <2>2. pipe' = Append(pipe, Text([of |-> p, nth |-> sent[p] + 1])) /\ UNCHANGED <<agent, setting, heard>>
    BY DEF AgentWrites, AgentSends
  <2>3. pipe' \in Seq(Posted \cup {Garbage})
    BY <2>1, <2>2 DEF TypeInv, WorldTypes
  <2>4. sent' \in [Prompts -> 0..MaxChunks] /\ replied' \in [Prompts -> BOOLEAN]
        /\ completed' \in [Prompts -> BOOLEAN]
    <3>1. sent[p] + 1 \in 0..MaxChunks /\ sent' = [sent EXCEPT ![p] = sent[p] + 1]
        /\ UNCHANGED <<replied, completed>>
      <4>1. WorldTypes
        BY DEF TypeInv
      <4>2. sent[p] + 1 \in 1..MaxChunks
        BY <4>1, SentIs
      <4> QED
        BY <4>2, MaxChunksAssumption DEF AgentWrites
    <3> QED
      BY <3>1 DEF TypeInv, WorldTypes
  <2> QED
    BY <2>2, <2>3, <2>4 DEF TypeInv, WorldTypes
<1>2. PromptTypes' /\ SenderTypes' /\ EventTypes' /\ LoopTypes' /\ LifeTypes'
  BY DEF TypeInv, PromptTypes, SenderTypes, EventTypes, LoopTypes, LifeTypes, promptVars,
     loopVars, lifeVars, AgentWrites, AgentSends
<1> QED
  BY <1>1, <1>2 DEF TypeInv

LEMMA AgentRepliesTypes ==
  ASSUME TypeInv, NEW p \in Prompts, AgentReplies(p)
  PROVE  TypeInv'
<1>1. WorldTypes'
  <2>1. Response(p) \in Posted \cup {Garbage}
    BY DEF Posted
  <2>2. pipe' = Append(pipe, Response(p)) /\ UNCHANGED <<agent, setting, heard>>
    BY DEF AgentReplies, AgentSends
  <2>3. pipe' \in Seq(Posted \cup {Garbage})
    BY <2>1, <2>2 DEF TypeInv, WorldTypes
  <2>4. sent' \in [Prompts -> 0..MaxChunks] /\ replied' \in [Prompts -> BOOLEAN]
        /\ completed' \in [Prompts -> BOOLEAN]
    BY DEF AgentReplies, TypeInv, WorldTypes
  <2> QED
    BY <2>2, <2>3, <2>4 DEF TypeInv, WorldTypes
<1>2. PromptTypes' /\ SenderTypes' /\ EventTypes' /\ LoopTypes' /\ LifeTypes'
  BY DEF TypeInv, PromptTypes, SenderTypes, EventTypes, LoopTypes, LifeTypes, promptVars,
     loopVars, lifeVars, AgentReplies, AgentSends
<1> QED
  BY <1>1, <1>2 DEF TypeInv

LEMMA AgentCompletesTypes ==
  ASSUME TypeInv, NEW p \in Prompts, AgentCompletes(p)
  PROVE  TypeInv'
<1>1. WorldTypes'
  <2>1. Complete(p) \in Posted \cup {Garbage}
    BY DEF Posted
  <2>2. pipe' = Append(pipe, Complete(p)) /\ UNCHANGED <<agent, setting, heard>>
    BY DEF AgentCompletes, AgentSends
  <2>3. pipe' \in Seq(Posted \cup {Garbage})
    BY <2>1, <2>2 DEF TypeInv, WorldTypes
  <2>4. sent' \in [Prompts -> 0..MaxChunks] /\ replied' \in [Prompts -> BOOLEAN]
        /\ completed' \in [Prompts -> BOOLEAN]
    BY DEF AgentCompletes, TypeInv, WorldTypes
  <2> QED
    BY <2>2, <2>3, <2>4 DEF TypeInv, WorldTypes
<1>2. PromptTypes' /\ SenderTypes' /\ EventTypes' /\ LoopTypes' /\ LifeTypes'
  BY DEF TypeInv, PromptTypes, SenderTypes, EventTypes, LoopTypes, LifeTypes, promptVars,
     loopVars, lifeVars, AgentCompletes, AgentSends
<1> QED
  BY <1>1, <1>2 DEF TypeInv

LEMMA AgentGarblesTypes ==
  ASSUME TypeInv, AgentGarbles
  PROVE  TypeInv'
<1>1. WorldTypes'
  <2>1. Garbage \in Posted \cup {Garbage}
    OBVIOUS
  <2>2. pipe' = Append(pipe, Garbage) /\ UNCHANGED <<agent, setting, heard>>
    BY DEF AgentGarbles, AgentSends
  <2>3. pipe' \in Seq(Posted \cup {Garbage})
    BY <2>1, <2>2 DEF TypeInv, WorldTypes
  <2>4. sent' \in [Prompts -> 0..MaxChunks] /\ replied' \in [Prompts -> BOOLEAN]
        /\ completed' \in [Prompts -> BOOLEAN]
    BY DEF AgentGarbles, TypeInv, WorldTypes
  <2> QED
    BY <2>2, <2>3, <2>4 DEF TypeInv, WorldTypes
<1>2. PromptTypes' /\ SenderTypes' /\ EventTypes' /\ LoopTypes' /\ LifeTypes'
  BY DEF TypeInv, PromptTypes, SenderTypes, EventTypes, LoopTypes, LifeTypes, promptVars,
     loopVars, lifeVars, AgentGarbles, AgentSends
<1> QED
  BY <1>1, <1>2 DEF TypeInv

LEMMA AgentExitsTypes ==
  ASSUME TypeInv, AgentExits
  PROVE  TypeInv'
<1>1. WorldTypes'
  BY PostedIs, PromptsAssumption DEF TypeInv, WorldTypes, worldVars, agentVars, AgentExits
<1>2. PromptTypes' /\ SenderTypes' /\ EventTypes' /\ LoopTypes' /\ LifeTypes'
  BY DEF TypeInv, PromptTypes, SenderTypes, EventTypes, LoopTypes, LifeTypes, promptVars,
     loopVars, lifeVars, AgentExits
<1> QED
  BY <1>1, <1>2 DEF TypeInv

-----------------------------------------------------------------------------
\* The types hold in every state.

LEMMA InitTypes == Init => TypeInv
<1> SUFFICES ASSUME Init PROVE TypeInv
  OBVIOUS
<1>1. PromptTypes
  <2>1. NoResult \in Results
    BY DEF NoResult, Results, Kinds
  <2> QED
    BY <2>1, PromptsAssumption DEF Init, PromptTypes
<1>2. SenderTypes /\ EventTypes /\ LifeTypes
  <2>1. SenderTypes
    BY DEF Init, SenderTypes
  <2>2. EventTypes
    BY DEF Init, EventTypes
  <2>3. LifeTypes
    BY Zenon DEF Init, LifeTypes
  <2> QED
    BY <2>1, <2>2, <2>3
<1>4. LoopTypes
  <2>1. loop = "check" /\ hand = <<>> /\ onEvent = None /\ done = FALSE /\ readErr = FALSE
    BY DEF Init
  <2>2. <<>> \in Seq(Posted) /\ Len(<<>>) = 0
    OBVIOUS
  <2>3. hand \in Seq(Posted) /\ Len(hand) = 0
    BY <2>1, <2>2
  <2>4. done \in BOOLEAN /\ readErr \in BOOLEAN /\ (done <=> loop = "closed")
    <3>1. loop # "closed"
      BY <2>1
    <3> QED
      BY <2>1, <3>1, Zenon
  <2>5. loop \notin {"handle", "emit"} /\ loop \in {"check", "fetch", "read", "handle", "emit", "closed"}
    BY <2>1
  <2> QED
    BY <2>1, <2>3, <2>4, <2>5 DEF LoopTypes
<1>3. WorldTypes
  BY MaxChunksAssumption DEF Init, WorldTypes
<1> QED
  BY <1>1, <1>2, <1>3, <1>4 DEF TypeInv

LEMMA NextTypes == TypeInv /\ [Next]_vars => TypeInv'
<1> SUFFICES ASSUME TypeInv, [Next]_vars PROVE TypeInv'
  OBVIOUS
<1>1. CASE \E p \in Prompts : PromptStep(p)
  BY <1>1, EnterTypes, ResetTypes, TakeDoneTypes, TakeReplyTypes, GiveUpTypes, NoticeExitTypes
     DEF PromptStep
<1>2. CASE \E p \in Prompts : SenderStep(p)
  BY <1>2, SendPromptTypes, SendPanicsTypes, SenderGetsTypes, SenderTimesOutTypes DEF SenderStep
<1>3. CASE LoopStep
  BY <1>3, CheckContextTypes, FetchTransportTypes, ReadLineTypes, ReadEndsTypes,
     HandleResponseTypes, HandleCompleteTypes, HandleTextTypes, EmitTypes DEF LoopStep
<1>4. CASE Shutdown
  BY <1>4, ShutdownTypes
<1>5. CASE AgentStep
  BY <1>5, AgentWritesTypes, AgentRepliesTypes, AgentCompletesTypes, AgentGarblesTypes,
     AgentExitsTypes DEF AgentStep
<1>6. CASE UNCHANGED vars
  BY <1>6 DEF vars, promptVars, loopVars, lifeVars, worldVars, agentVars, TypeInv, PromptTypes,
     SenderTypes, EventTypes, LoopTypes, LifeTypes, WorldTypes
<1> QED
  BY <1>1, <1>2, <1>3, <1>4, <1>5, <1>6 DEF Next

\* Every variable keeps its type; a prompt asks exactly while the state behind
\* promptMu is its own, and done is closed exactly by the end of the read loop
\* (promptInternal, client.go:958; readLoop, client.go:1262).
THEOREM TypeCorrect == Spec => []TypeOK
<1>1. TypeInv => TypeOK
  <2> SUFFICES ASSUME TypeInv PROVE TypeOK
    OBVIOUS
  <2>1. hand \in Seq(Msgs) /\ pipe \in Seq(Msgs)
    <3>1. hand \in Seq(Posted) /\ pipe \in Seq(Posted \cup {Garbage})
      BY DEF TypeInv, LoopTypes, WorldTypes
    <3>2. Posted \subseteq Msgs /\ Posted \cup {Garbage} \subseteq Msgs
      BY PostedIs
    <3> HIDE DEF Posted
    <3> QED
      BY <3>1, <3>2
  <2>2. PromptTypes /\ SenderTypes /\ EventTypes /\ LoopTypes /\ LifeTypes /\ WorldTypes
    BY DEF TypeInv
  <2> QED
    BY <2>1, <2>2 DEF TypeOK, PromptTypes, SenderTypes, EventTypes, LoopTypes, LifeTypes,
       WorldTypes
<1> QED
  BY InitTypes, NextTypes, <1>1, PTL DEF Spec

-----------------------------------------------------------------------------
\* What the callback of a prompt has been told, or is about to be.

Piece   == [of |-> Head(hand).of, nth |-> Head(hand).nth]
Told(p) == IF loop = "emit" /\ onEvent = p THEN Append(events[p], Piece) ELSE events[p]

StreamInv ==
  \A p \in Prompts :
    /\ pc[p] = "asking" => text = Told(p)
    /\ result[p].kind = "answered" => pc[p] = "done" /\ result[p].text = Told(p)
    /\ pc[p] \in {"idle", "entered"} => events[p] = <<>> /\ onEvent # p

LEMMA EnterStreams ==
  ASSUME TypeInv, StreamInv, NEW p \in Prompts, Enter(p)
  PROVE  StreamInv'
<1>1. \A q \in Prompts : Told(q)' = Told(q)
  BY DEF Enter, Results, Kinds, Told, Piece, loopVars
<1>2. pc[p] = "idle" /\ \A q \in Prompts : q # p => result'[q] = result[q] /\ pc'[q] = pc[q]
  BY DEF Enter, TypeInv, PromptTypes
<1>3. result'[p].kind # "answered" /\ pc'[p] \in {"entered", "done"}
  <2>1. result[p].kind # "answered" /\ result[p] \in Results
    BY <1>2 DEF StreamInv, TypeInv, PromptTypes
  <2>2. result'[p].kind = "notRunning" \/ result' = result
    BY <2>1 DEF Enter, TypeInv, PromptTypes, Results
  <2>3. pc'[p] \in {"entered", "done"}
    BY DEF Enter, TypeInv, PromptTypes
  <2> QED
    BY <2>1, <2>2, <2>3
<1>4. UNCHANGED <<text, events, onEvent>>
  BY DEF Enter, loopVars
<1> QED
  BY <1>1, <1>2, <1>3, <1>4 DEF StreamInv

LEMMA ResetStreams ==
  ASSUME TypeInv, StreamInv, NEW p \in Prompts, Reset(p)
  PROVE  StreamInv'
<1>1. \A q \in Prompts : Told(q)' = Told(q)
  BY DEF Reset, Told, Piece, loopVars
<1>2. pc' = [pc EXCEPT ![p] = "asking"] /\ pc[p] = "entered" /\ text' = <<>>
  BY DEF Reset
<1>3. \A q \in Prompts : q # p => pc[q] # "asking"
  BY <1>2 DEF TypeInv, PromptTypes
<1>4. Told(p) = <<>>
  BY <1>2 DEF StreamInv, Told
<1>5. UNCHANGED <<result, events, onEvent>>
  BY DEF Reset, loopVars
<1> QED
  BY <1>1, <1>2, <1>3, <1>4, <1>5 DEF StreamInv, TypeInv, PromptTypes

LEMMA TakeDoneStreams ==
  ASSUME TypeInv, StreamInv, NEW p \in Prompts, TakeDone(p)
  PROVE  StreamInv'
<1>1. \A q \in Prompts : Told(q)' = Told(q)
  BY DEF TakeDone, Return, Results, Kinds, Told, Piece, loopVars
<1>2. PICK kind \in Kinds, by \in Prompts \cup {None}, collected \in Seq(Chunks) :
        Return(p, kind, by, collected) /\ (kind = "answered" => collected = text)
  <2>1. Head(doneCh[p]) \in Prompts /\ text \in Seq(Chunks) /\ Return(p, "answered", Head(doneCh[p]), text)
    BY DEF TakeDone, TypeInv, PromptTypes
  <2> QED
    BY <2>1 DEF Kinds
<1>3. result' = [result EXCEPT ![p] = [kind |-> kind, by |-> by, text |-> collected]]
      /\ pc' = [pc EXCEPT ![p] = "done"] /\ pc[p] = "asking" /\ UNCHANGED <<text, events, onEvent>>
  BY <1>2 DEF Return, loopVars
<1>4. pc'[p] = "done" /\ result'[p] = [kind |-> kind, by |-> by, text |-> collected]
      /\ \A q \in Prompts : q # p => pc'[q] = pc[q] /\ result'[q] = result[q]
  BY <1>3 DEF TypeInv, PromptTypes
<1>5. result'[p].kind = "answered" => result'[p].text = Told(p)'
  <2>1. result'[p].kind = kind /\ result'[p].text = collected
    BY <1>4
  <2>2. text = Told(p)
    BY <1>3 DEF StreamInv
  <2> QED
    BY <1>1, <1>2, <2>1, <2>2
<1> QED
  BY <1>1, <1>3, <1>4, <1>5 DEF StreamInv

LEMMA TakeReplyStreams ==
  ASSUME TypeInv, StreamInv, NEW p \in Prompts, TakeReply(p)
  PROVE  StreamInv'
<1>1. \A q \in Prompts : Told(q)' = Told(q)
  BY DEF TakeReply, Return, Results, Kinds, Replies, Told, Piece, loopVars
<1>2. \/ Return(p, "failed", None, <<>>) \/ Return(p, "answered", p, text)
      \/ UNCHANGED <<pc, result, text, events, onEvent>>
  BY DEF TakeReply, loopVars
<1>3. CASE Return(p, "failed", None, <<>>) \/ Return(p, "answered", p, text)
  <2>2. PICK kind \in Kinds, by \in Prompts \cup {None}, collected \in Seq(Chunks) :
          Return(p, kind, by, collected) /\ (kind = "answered" => collected = text)
    <3>1. text \in Seq(Chunks) /\ <<>> \in Seq(Chunks)
      BY DEF TypeInv, PromptTypes
    <3>2. "failed" \in Kinds /\ "answered" \in Kinds
      BY DEF Kinds
    <3> QED
      BY <1>3, <3>1, <3>2
  <2>3. result' = [result EXCEPT ![p] = [kind |-> kind, by |-> by, text |-> collected]]
        /\ pc' = [pc EXCEPT ![p] = "done"] /\ pc[p] = "asking" /\ UNCHANGED <<text, events, onEvent>>
    BY <2>2 DEF Return, loopVars
  <2>4. pc'[p] = "done" /\ result'[p] = [kind |-> kind, by |-> by, text |-> collected]
        /\ \A q \in Prompts : q # p => pc'[q] = pc[q] /\ result'[q] = result[q]
    BY <2>3 DEF TypeInv, PromptTypes
  <2>5. result'[p].kind = "answered" => result'[p].text = Told(p)'
    <3>1. result'[p].kind = kind /\ result'[p].text = collected
      BY <2>4
    <3>2. text = Told(p)
      BY <2>3 DEF StreamInv
    <3> QED
      BY <1>1, <2>2, <3>1, <3>2
  <2> QED
    BY <1>1, <2>3, <2>4, <2>5 DEF StreamInv
<1>4. CASE UNCHANGED <<pc, result, text, events, onEvent>>
  BY <1>1, <1>4 DEF StreamInv
<1> QED
  BY <1>2, <1>3, <1>4

LEMMA GiveUpStreams ==
  ASSUME TypeInv, StreamInv, NEW p \in Prompts, GiveUp(p)
  PROVE  StreamInv'
<1>1. \A q \in Prompts : Told(q)' = Told(q)
  BY DEF GiveUp, Return, Results, Kinds, Told, Piece, loopVars
<1>2. PICK kind \in Kinds, by \in Prompts \cup {None}, collected \in Seq(Chunks) :
        Return(p, kind, by, collected) /\ (kind = "answered" => collected = text)
  <2>1. PICK kind \in {"cancelled", "idle"} : Return(p, kind, None, <<>>)
    BY DEF GiveUp
  <2>2. kind \in Kinds /\ kind # "answered"
    BY DEF Kinds
  <2>3. <<>> \in Seq(Chunks) /\ None \in Prompts \cup {None}
    OBVIOUS
  <2> QED
    BY <2>1, <2>2, <2>3
<1>3. result' = [result EXCEPT ![p] = [kind |-> kind, by |-> by, text |-> collected]]
      /\ pc' = [pc EXCEPT ![p] = "done"] /\ pc[p] = "asking" /\ UNCHANGED <<text, events, onEvent>>
  BY <1>2 DEF Return, loopVars
<1>4. pc'[p] = "done" /\ result'[p] = [kind |-> kind, by |-> by, text |-> collected]
      /\ \A q \in Prompts : q # p => pc'[q] = pc[q] /\ result'[q] = result[q]
  BY <1>3 DEF TypeInv, PromptTypes
<1>5. result'[p].kind = "answered" => result'[p].text = Told(p)'
  <2>1. result'[p].kind = kind /\ result'[p].text = collected
    BY <1>4
  <2>2. text = Told(p)
    BY <1>3 DEF StreamInv
  <2> QED
    BY <1>1, <1>2, <2>1, <2>2
<1> QED
  BY <1>1, <1>3, <1>4, <1>5 DEF StreamInv

LEMMA NoticeExitStreams ==
  ASSUME TypeInv, StreamInv, NEW p \in Prompts, NoticeExit(p)
  PROVE  StreamInv'
<1>1. \A q \in Prompts : Told(q)' = Told(q)
  BY DEF NoticeExit, Return, Results, Kinds, Told, Piece, loopVars
<1>2. PICK kind \in Kinds, by \in Prompts \cup {None}, collected \in Seq(Chunks) :
        Return(p, kind, by, collected) /\ (kind = "answered" => collected = text)
  <2>1. PICK kind \in {"readError", "exited"} : Return(p, kind, None, <<>>)
    BY DEF NoticeExit
  <2>2. kind \in Kinds /\ kind # "answered"
    BY DEF Kinds
  <2>3. <<>> \in Seq(Chunks) /\ None \in Prompts \cup {None}
    OBVIOUS
  <2> QED
    BY <2>1, <2>2, <2>3
<1>3. result' = [result EXCEPT ![p] = [kind |-> kind, by |-> by, text |-> collected]]
      /\ pc' = [pc EXCEPT ![p] = "done"] /\ pc[p] = "asking" /\ UNCHANGED <<text, events, onEvent>>
  BY <1>2 DEF Return, loopVars
<1>4. pc'[p] = "done" /\ result'[p] = [kind |-> kind, by |-> by, text |-> collected]
      /\ \A q \in Prompts : q # p => pc'[q] = pc[q] /\ result'[q] = result[q]
  BY <1>3 DEF TypeInv, PromptTypes
<1>5. result'[p].kind = "answered" => result'[p].text = Told(p)'
  <2>1. result'[p].kind = kind /\ result'[p].text = collected
    BY <1>4
  <2>2. text = Told(p)
    BY <1>3 DEF StreamInv
  <2> QED
    BY <1>1, <1>2, <2>1, <2>2
<1> QED
  BY <1>1, <1>3, <1>4, <1>5 DEF StreamInv

LEMMA SendPromptStreams ==
  ASSUME TypeInv, StreamInv, NEW p \in Prompts, SendPrompt(p)
  PROVE  StreamInv'
<1>1. \A q \in Prompts : Told(q)' = Told(q)
  BY DEF SendPrompt, Replies, Told, Piece, loopVars
<1>2. UNCHANGED <<pc, text, result, events, onEvent>>
  BY DEF SendPrompt, Replies, promptVars, loopVars
<1> QED
  BY <1>1, <1>2 DEF StreamInv

LEMMA SendPanicsStreams ==
  ASSUME TypeInv, StreamInv, NEW p \in Prompts, SendPanics(p)
  PROVE  StreamInv'
<1>1. \A q \in Prompts : Told(q)' = Told(q)
  BY DEF SendPanics, Told, Piece, loopVars
<1>2. UNCHANGED <<pc, text, result, events, onEvent>>
  BY DEF SendPanics, promptVars, loopVars
<1> QED
  BY <1>1, <1>2 DEF StreamInv

LEMMA SenderGetsStreams ==
  ASSUME TypeInv, StreamInv, NEW p \in Prompts, SenderGets(p)
  PROVE  StreamInv'
<1>1. \A q \in Prompts : Told(q)' = Told(q)
  BY DEF SenderGets, Given, Replies, Told, Piece, loopVars
<1>2. UNCHANGED <<pc, text, result, events, onEvent>>
  BY DEF SenderGets, Given, Replies, promptVars, loopVars
<1> QED
  BY <1>1, <1>2 DEF StreamInv

LEMMA SenderTimesOutStreams ==
  ASSUME TypeInv, StreamInv, NEW p \in Prompts, SenderTimesOut(p)
  PROVE  StreamInv'
<1>1. \A q \in Prompts : Told(q)' = Told(q)
  BY DEF SenderTimesOut, Replies, Told, Piece, loopVars
<1>2. UNCHANGED <<pc, text, result, events, onEvent>>
  BY DEF SenderTimesOut, Replies, promptVars, loopVars
<1> QED
  BY <1>1, <1>2 DEF StreamInv

LEMMA CheckContextStreams ==
  ASSUME TypeInv, StreamInv, CheckContext
  PROVE  StreamInv'
<1>1. \A q \in Prompts : Told(q)' = Told(q)
  BY DEF CheckContext, LoopEnds, Told, Piece
<1>2. UNCHANGED <<pc, text, result, events, onEvent>>
  BY DEF CheckContext, LoopEnds, promptVars, loopVars
<1> QED
  BY <1>1, <1>2 DEF StreamInv

LEMMA FetchTransportStreams ==
  ASSUME TypeInv, StreamInv, FetchTransport
  PROVE  StreamInv'
<1>1. \A q \in Prompts : Told(q)' = Told(q)
  BY DEF FetchTransport, Told, Piece
<1>2. UNCHANGED <<pc, text, result, events, onEvent>>
  BY DEF FetchTransport, promptVars, loopVars
<1> QED
  BY <1>1, <1>2 DEF StreamInv

LEMMA ReadLineStreams ==
  ASSUME TypeInv, StreamInv, ReadLine
  PROVE  StreamInv'
<1>1. \A q \in Prompts : Told(q)' = Told(q)
  BY DEF ReadLine, LoopEnds, Told, Piece
<1>2. UNCHANGED <<pc, text, result, events, onEvent>>
  BY DEF ReadLine, LoopEnds, promptVars, loopVars
<1> QED
  BY <1>1, <1>2 DEF StreamInv

LEMMA ReadEndsStreams ==
  ASSUME TypeInv, StreamInv, ReadEnds
  PROVE  StreamInv'
<1>1. \A q \in Prompts : Told(q)' = Told(q)
  BY DEF ReadEnds, LoopEnds, Told, Piece
<1>2. UNCHANGED <<pc, text, result, events, onEvent>>
  BY DEF ReadEnds, LoopEnds, promptVars, loopVars
<1> QED
  BY <1>1, <1>2 DEF StreamInv

LEMMA HandleResponseStreams ==
  ASSUME TypeInv, StreamInv, HandleResponse
  PROVE  StreamInv'
<1>1. \A q \in Prompts : Told(q)' = Told(q)
  BY DEF HandleResponse, Handled, Told, Piece
<1>2. UNCHANGED <<pc, text, result, events, onEvent>>
  BY DEF HandleResponse, Handled, promptVars, loopVars
<1> QED
  BY <1>1, <1>2 DEF StreamInv

LEMMA HandleCompleteStreams ==
  ASSUME TypeInv, StreamInv, HandleComplete
  PROVE  StreamInv'
<1>1. \A q \in Prompts : Told(q)' = Told(q)
  BY DEF HandleComplete, Handled, Told, Piece
<1>2. UNCHANGED <<pc, text, result, events, onEvent>>
  BY DEF HandleComplete, Handled, promptVars, loopVars
<1> QED
  BY <1>1, <1>2 DEF StreamInv

LEMMA HandleTextStreams ==
  ASSUME TypeInv, StreamInv, HandleText
  PROVE  StreamInv'
<1>1. loop = "handle" /\ text' = Append(text, Piece) /\ onEvent' = current /\ loop' = "emit"
      /\ UNCHANGED <<pc, events, result, hand>>
  BY DEF HandleText, Piece
<1>2. \A q \in Prompts : Told(q) = events[q]
  BY <1>1 DEF Told
<1>3. \A q \in Prompts : Told(q)' = IF q = current THEN Append(events[q], Piece) ELSE events[q]
  <2>1. Piece' = Piece
    BY <1>1 DEF Piece
  <2> QED
    BY <1>1, <2>1 DEF Told
<1>4. \A q \in Prompts : current = q <=> pc[q] = "asking"
  BY DEF TypeInv, PromptTypes
<1> QED
  BY <1>1, <1>2, <1>3, <1>4 DEF StreamInv

LEMMA EmitStreams ==
  ASSUME TypeInv, StreamInv, Emit
  PROVE  StreamInv'
<1>1. \A q \in Prompts : Told(q)' = Told(q)
  <2>1. loop = "emit" /\ loop' = "check" /\ events' = IF onEvent = None THEN events
               ELSE [events EXCEPT ![onEvent] = Append(@, Piece)]
    BY DEF Emit, Handled, Piece
  <2>2. CASE onEvent = None
    BY <2>1, <2>2, PromptsAssumption DEF Told
  <2>3. CASE onEvent # None
    <3>1. onEvent \in Prompts /\ events' = [events EXCEPT ![onEvent] = Append(events[onEvent], Piece)]
      BY <2>1, <2>3 DEF TypeInv, LoopTypes
    <3> QED
      BY <2>1, <3>1 DEF Told, TypeInv, EventTypes
  <2> QED
    BY <2>2, <2>3
<1>2. UNCHANGED <<pc, text, result>> /\ onEvent' = None
  BY DEF Emit, promptVars
<1>3. \A q \in Prompts : pc[q] \in {"idle", "entered"} => events'[q] = events[q]
  BY DEF Emit, StreamInv, TypeInv, EventTypes, LoopTypes
<1> QED
  BY <1>1, <1>2, <1>3, PromptsAssumption DEF StreamInv

LEMMA ShutdownStreams ==
  ASSUME TypeInv, StreamInv, Shutdown
  PROVE  StreamInv'
<1>1. \A q \in Prompts : Told(q)' = Told(q)
  BY DEF Shutdown, CloseWriter, CancelRead, KillAndWait, ClearFields, ShutStep, Told, Piece,
     loopVars
<1>2. UNCHANGED <<pc, text, result, events, onEvent>>
  BY DEF Shutdown, CloseWriter, CancelRead, KillAndWait, ClearFields, ShutStep, promptVars,
     loopVars
<1> QED
  BY <1>1, <1>2 DEF StreamInv

LEMMA AgentWritesStreams ==
  ASSUME TypeInv, StreamInv, NEW p \in Prompts, AgentWrites(p)
  PROVE  StreamInv'
<1>1. \A q \in Prompts : Told(q)' = Told(q)
  BY DEF AgentWrites, AgentSends, Told, Piece, loopVars
<1>2. UNCHANGED <<pc, text, result, events, onEvent>>
  BY DEF AgentWrites, AgentSends, promptVars, loopVars
<1> QED
  BY <1>1, <1>2 DEF StreamInv

LEMMA AgentRepliesStreams ==
  ASSUME TypeInv, StreamInv, NEW p \in Prompts, AgentReplies(p)
  PROVE  StreamInv'
<1>1. \A q \in Prompts : Told(q)' = Told(q)
  BY DEF AgentReplies, AgentSends, Told, Piece, loopVars
<1>2. UNCHANGED <<pc, text, result, events, onEvent>>
  BY DEF AgentReplies, AgentSends, promptVars, loopVars
<1> QED
  BY <1>1, <1>2 DEF StreamInv

LEMMA AgentCompletesStreams ==
  ASSUME TypeInv, StreamInv, NEW p \in Prompts, AgentCompletes(p)
  PROVE  StreamInv'
<1>1. \A q \in Prompts : Told(q)' = Told(q)
  BY DEF AgentCompletes, AgentSends, Told, Piece, loopVars
<1>2. UNCHANGED <<pc, text, result, events, onEvent>>
  BY DEF AgentCompletes, AgentSends, promptVars, loopVars
<1> QED
  BY <1>1, <1>2 DEF StreamInv

LEMMA AgentGarblesStreams ==
  ASSUME TypeInv, StreamInv, AgentGarbles
  PROVE  StreamInv'
<1>1. \A q \in Prompts : Told(q)' = Told(q)
  BY DEF AgentGarbles, AgentSends, Told, Piece, loopVars
<1>2. UNCHANGED <<pc, text, result, events, onEvent>>
  BY DEF AgentGarbles, AgentSends, promptVars, loopVars
<1> QED
  BY <1>1, <1>2 DEF StreamInv

LEMMA AgentExitsStreams ==
  ASSUME TypeInv, StreamInv, AgentExits
  PROVE  StreamInv'
<1>1. \A q \in Prompts : Told(q)' = Told(q)
  BY DEF AgentExits, Told, Piece, loopVars
<1>2. UNCHANGED <<pc, text, result, events, onEvent>>
  BY DEF AgentExits, promptVars, loopVars
<1> QED
  BY <1>1, <1>2 DEF StreamInv

\* The callback of PromptStream is told what PromptStream returns, though it is
\* called after promptMu is released (handleSessionUpdate, client.go:1429).
THEOREM StreamsFaithful == Spec => []StreamIsResult
<1>1. Init => StreamInv
  <2> SUFFICES ASSUME Init, NEW p \in Prompts
               PROVE  pc[p] = "idle" /\ result[p].kind = "none" /\ events[p] = <<>> /\ onEvent # p
    BY DEF StreamInv
  <2> QED
    BY PromptsAssumption DEF Init, NoResult
<1>2. TypeInv /\ StreamInv /\ [Next]_vars => StreamInv'
  <2> SUFFICES ASSUME TypeInv, StreamInv, [Next]_vars PROVE StreamInv'
    OBVIOUS
  <2>1. CASE \E p \in Prompts : PromptStep(p)
    BY <2>1, EnterStreams, ResetStreams, TakeDoneStreams, TakeReplyStreams, GiveUpStreams,
       NoticeExitStreams DEF PromptStep
  <2>2. CASE \E p \in Prompts : SenderStep(p)
    BY <2>2, SendPromptStreams, SendPanicsStreams, SenderGetsStreams, SenderTimesOutStreams
       DEF SenderStep
  <2>3. CASE LoopStep
    BY <2>3, CheckContextStreams, FetchTransportStreams, ReadLineStreams, ReadEndsStreams,
       HandleResponseStreams, HandleCompleteStreams, HandleTextStreams, EmitStreams DEF LoopStep
  <2>4. CASE Shutdown
    BY <2>4, ShutdownStreams
  <2>5. CASE AgentStep
    BY <2>5, AgentWritesStreams, AgentRepliesStreams, AgentCompletesStreams, AgentGarblesStreams,
       AgentExitsStreams DEF AgentStep
  <2>6. CASE UNCHANGED vars
    <3>1. UNCHANGED <<pc, text, result, events, onEvent, loop, hand>>
      BY <2>6 DEF vars, promptVars, loopVars
    <3> QED
      BY <3>1 DEF StreamInv, Told, Piece
  <2> QED
    BY <2>1, <2>2, <2>3, <2>4, <2>5, <2>6 DEF Next
<1>3. StreamInv => StreamIsResult
  BY DEF StreamInv, StreamIsResult, Told, Piece
<1> QED
  BY InitTypes, NextTypes, <1>1, <1>2, <1>3, PTL DEF Spec

-----------------------------------------------------------------------------
\* The story of the messages: Line is what the read loop has still to handle,
\* the message in its hand and then what is in the pipe.

Line         == (IF loop = "handle" THEN hand ELSE <<>>) \o pipe
Begun(p)     == pc[p] \in {"asking", "done"}
IsText(m, p) == m.kind = "text" /\ m.of = p
IsEnd(m, p)  == m.kind = (IF setting.style = "notify" THEN "complete" ELSE "response") /\ m.of = p
Past(p)      == Ended(p) /\ \A i \in 1..Len(Line) : ~IsText(Line[i], p) /\ ~IsEnd(Line[i], p)
Lost(p)      == pc[p] = "done" /\ ~Answered(p)

\* A message says what the agent has done for a prompt that has begun ...
Truthful(m) ==
  m.kind # "garbage" =>
    /\ Begun(m.of)
    /\ m.kind = "text" => m.nth <= sent[m.of]
    /\ m.kind = "response" => replied[m.of]
    /\ m.kind = "complete" => completed[m.of] /\ setting.style = "notify"
LineTrue == \A i \in 1..Len(Line) : Truthful(Line[i])
\* ... the end of a turn is its last message, and text is in order.
LineOrdered ==
  \A i, j \in 1..Len(Line), p \in Prompts : i < j =>
    /\ IsEnd(Line[i], p) => ~IsText(Line[j], p) /\ ~IsEnd(Line[j], p)
    /\ IsText(Line[i], p) /\ IsText(Line[j], p) => Line[i].nth < Line[j].nth

HeardBegun ==
  /\ \A i \in 1..Len(heard), p \in Prompts : heard[i] = p => Begun(p)
  /\ \A p \in Prompts : sender[p] # "off" \/ replied[p] \/ completed[p] \/ sent[p] > 0 => Begun(p)

\* The text collected was sent, in order and before what is in the line.
TextOrdered ==
  /\ \A i \in 1..Len(text) : text[i].nth <= sent[text[i].of]
  /\ \A i, j \in 1..Len(text) : i < j /\ text[i].of = text[j].of => text[i].nth < text[j].nth
  /\ \A i \in 1..Len(text), j \in 1..Len(Line) :
       IsText(Line[j], text[i].of) => text[i].nth < Line[j].nth
\* Of the prompt that asks nothing is missing.
TextCovers ==
  \A p \in Prompts : pc[p] = "asking" =>
    \A n \in 1..sent[p] :
      \/ \E i \in 1..Len(text) : text[i].of = p /\ text[i].nth = n
      \/ \E i \in 1..Len(Line) : IsText(Line[i], p) /\ Line[i].nth = n

\* Who knows of the end of a turn is past all its text.
AnswersPast == \A p \in Prompts : Answered(p) => pc[p] = "done" /\ Past(p)
DonePast ==
  \A p, q \in Prompts : doneCh[p] # <<>> /\ Head(doneCh[p]) = q =>
    setting.style = "notify" /\ Past(q) /\ (q # p => Lost(q))
ReplyPast ==
  \A p \in Prompts :
    /\ setting.style # "notify" /\ sender[p] = "given" => Past(p)
    /\ respCh[p] # <<>> /\ Head(respCh[p]) = "stop" => setting.style # "notify" /\ Past(p)

\* What is another prompt's belongs to one that was given up.
TextLost ==
  \A i \in 1..Len(text), q \in Prompts :
    current # None /\ text[i].of = q /\ q # current => Lost(q)
ResultLost ==
  \A p, q \in Prompts : p # q =>
    /\ result[p].by = q => Lost(q)
    /\ \A i \in 1..Len(result[p].text) : result[p].text[i].of = q => Lost(q)
\* A result with its own end has the n messages of the prompt, in order.
Whole(p, s, n) ==
  /\ \A i \in 1..Len(s) : s[i].of = p => s[i].nth <= n
  /\ \A k \in 1..n : \E i \in 1..Len(s) : s[i].of = p /\ s[i].nth = k
  /\ \A i, j \in 1..Len(s) : i < j /\ s[i].of = p /\ s[j].of = p => s[i].nth < s[j].nth
ResultWhole == \A p \in Prompts : Answered(p) => Whole(p, result[p].text, sent[p])

LineInv   == LineTrue /\ LineOrdered
TextInv   == TextOrdered /\ TextCovers /\ TextLost
PastInv   == AnswersPast /\ DonePast /\ ReplyPast
ResultInv == ResultLost /\ ResultWhole
StoryInv  == LineInv /\ HeardBegun /\ TextInv /\ PastInv /\ ResultInv

LEMMA LineType ==
  ASSUME TypeInv
  PROVE  /\ Line \in Seq(Posted \cup {Garbage}) /\ Len(Line) \in Nat
         /\ \A i \in 1..Len(Line) : Line[i].kind # "garbage" =>
              /\ Line[i] \in Posted /\ Line[i].of \in Prompts
              /\ Line[i].kind = "text" => Line[i].nth \in 1..MaxChunks
<1>1. hand \in Seq(Posted \cup {Garbage}) /\ pipe \in Seq(Posted \cup {Garbage})
  <2>1. hand \in Seq(Posted) /\ pipe \in Seq(Posted \cup {Garbage})
    BY DEF TypeInv, LoopTypes, WorldTypes
  <2> HIDE DEF Posted
  <2> QED
    BY <2>1
<1>2. Line \in Seq(Posted \cup {Garbage})
  BY <1>1 DEF Line
<1>3. ASSUME NEW i \in 1..Len(Line), Line[i].kind # "garbage"
      PROVE  /\ Line[i] \in Posted /\ Line[i].of \in Prompts
             /\ Line[i].kind = "text" => Line[i].nth \in 1..MaxChunks
  <2>1. Line[i] \in Posted \cup {Garbage}
    BY <1>2
  <2>2. Line[i] \in Posted
    BY <1>3, <2>1, PostedIs
  <2> QED
    BY <2>2, PostedIs
<1> QED
  BY <1>2, <1>3

\* A step of the program leaves the line alone or takes its first message.
Shifts(k) == /\ k \in {0, 1} /\ k <= Len(Line) /\ Len(Line') = Len(Line) - k
             /\ \A j \in 1..Len(Line') : Line'[j] = Line[j + k]

LEMMA SameShifts ==
  ASSUME TypeInv, Line' = Line
  PROVE  Shifts(0)
BY LineType DEF Shifts

LEMMA TailShifts ==
  ASSUME TypeInv, Line # <<>>, Line' = Tail(Line)
  PROVE  Shifts(1)
<1>1. Line \in Seq(Posted \cup {Garbage})
  BY LineType
<1> HIDE DEF Line
<1> QED
  BY <1>1 DEF Shifts

\* The read loop takes the message in its hand from the line.
LEMMA TakenShifts ==
  ASSUME TypeInv, loop = "handle", loop' # "handle", pipe' = pipe
  PROVE  /\ Shifts(1) /\ Len(Line) > 0 /\ Line[1] = Head(hand)
         /\ Line[1] \in Posted /\ Line[1].of \in Prompts
         /\ Line[1].kind = "text" => Line[1].nth \in 1..MaxChunks
<1>1. Head(hand) \in Posted /\ hand = <<Head(hand)>>
  BY HandIs DEF TypeInv
<1>2. Line = <<Head(hand)>> \o pipe
  BY <1>1 DEF Line
<1>3. Line' = <<>> \o pipe
  BY DEF Line
<1>4. pipe \in Seq(Posted \cup {Garbage})
  BY DEF TypeInv, WorldTypes
<1>5. Line' = pipe
  BY <1>3, <1>4
<1>6. Len(Line) = Len(pipe) + 1 /\ Line[1] = Head(hand) /\ \A j \in 1..Len(pipe) : pipe[j] = Line[j + 1]
  BY <1>1, <1>2, <1>4
<1>7. Shifts(1) /\ Len(Line) > 0
  <2>1. Len(pipe) \in Nat
    BY <1>4
  <2> QED
    BY <1>5, <1>6, <2>1 DEF Shifts
<1> QED
  BY <1>1, <1>6, <1>7, PostedIs

LEMMA ReadShifts ==
  ASSUME TypeInv, ReadLine
  PROVE  \/ Shifts(0)
         \/ Shifts(1) /\ Line[1].kind = "garbage"
<1>1. loop = "read" /\ pipe # <<>> /\ pipe' = Tail(pipe) /\ pipe \in Seq(Posted \cup {Garbage})
  BY DEF ReadLine, TypeInv, WorldTypes
<1>2. Line = pipe
  <2>1. Line = <<>> \o pipe
    BY <1>1 DEF Line
  <2> QED
    BY <1>1, <2>1
<1>3. CASE Head(pipe).kind = "garbage"
  <2>1. loop' = "closed"
    BY <1>3 DEF ReadLine, LoopEnds
  <2>2. Line' = <<>> \o Tail(pipe)
    BY <1>1, <2>1 DEF Line
  <2>3. Line' = Tail(Line) /\ Line # <<>> /\ Line[1].kind = "garbage"
    BY <1>1, <1>2, <1>3, <2>2
  <2> QED
    BY <2>3, TailShifts
<1>4. CASE Head(pipe).kind # "garbage"
  <2>1. loop' = "handle" /\ hand' = <<Head(pipe)>>
    BY <1>4 DEF ReadLine
  <2>2. Line' = <<Head(pipe)>> \o Tail(pipe)
    BY <1>1, <2>1 DEF Line
  <2>3. Line' = Line
    BY <1>1, <1>2, <2>2
  <2> QED
    BY <2>3, SameShifts
<1> QED
  BY <1>3, <1>4

LEMMA SendsAppends ==
  ASSUME TypeInv, NEW m \in Posted \cup {Garbage}, AgentSends(m)
  PROVE  /\ Len(Line') = Len(Line) + 1 /\ Line'[Len(Line) + 1] = m
         /\ \A j \in 1..Len(Line) : Line'[j] = Line[j]
<1>1. pipe' = Append(pipe, m) /\ loop' = loop /\ hand' = hand
  BY DEF AgentSends, loopVars
<1>2. pipe \in Seq(Posted \cup {Garbage})
  BY DEF TypeInv, WorldTypes
<1>3. hand \in Seq(Posted \cup {Garbage})
  <2>1. hand \in Seq(Posted)
    BY DEF TypeInv, LoopTypes
  <2> HIDE DEF Posted
  <2> QED
    BY <2>1
<1> DEFINE first == IF loop = "handle" THEN hand ELSE <<>>
<1>4. Line = first \o pipe /\ Line' = first \o Append(pipe, m)
  BY <1>1 DEF Line
<1>5. first \in Seq(Posted \cup {Garbage})
  BY <1>3
<1> HIDE DEF first, Posted
<1>6. Line' = Append(Line, m) /\ Line \in Seq(Posted \cup {Garbage})
  BY <1>2, <1>4, <1>5
<1> QED
  BY <1>6

-----------------------------------------------------------------------------
\* What holds of the line and of those who are past it outlives such a step.

LEMMA ShiftKeeps ==
  ASSUME TypeInv, LineInv, NEW k, Shifts(k), UNCHANGED <<setting, sent, replied, completed>>,
         \A p \in Prompts : Begun(p) => Begun(p)'
  PROVE  /\ LineInv' /\ \A p \in Prompts : Past(p) => Past(p)'
         /\ \A j \in 1..Len(Line') : j + k \in 1..Len(Line) /\ Line'[j] = Line[j + k]
<1>1. \A j \in 1..Len(Line') : j + k \in 1..Len(Line) /\ Line'[j] = Line[j + k]
  <2>1. Len(Line) \in Nat
    BY LineType
  <2> QED
    BY <2>1 DEF Shifts
<1>2. LineTrue'
  <2>1. ASSUME NEW j \in 1..Len(Line'), Line'[j].kind # "garbage"
        PROVE  /\ pc'[Line'[j].of] \in {"asking", "done"}
               /\ Line'[j].kind = "text" => Line'[j].nth <= sent'[Line'[j].of]
               /\ Line'[j].kind = "response" => replied'[Line'[j].of]
               /\ Line'[j].kind = "complete" => completed'[Line'[j].of] /\ setting'.style = "notify"
    <3>1. j + k \in 1..Len(Line) /\ Line'[j] = Line[j + k]
      BY <1>1
    <3>2. Truthful(Line[j + k]) /\ Line[j + k].of \in Prompts /\ Line[j + k].kind # "garbage"
      BY <2>1, <3>1, LineType DEF LineInv, LineTrue
    <3> QED
      BY <3>1, <3>2 DEF Truthful, Begun
  <2> QED
    BY <2>1 DEF LineTrue, Truthful, Begun
<1>3. LineOrdered'
  <2> SUFFICES ASSUME NEW i \in 1..Len(Line'), NEW j \in 1..Len(Line'), NEW p \in Prompts, i < j
               PROVE  /\ IsEnd(Line[i + k], p) => ~IsText(Line[j + k], p) /\ ~IsEnd(Line[j + k], p)
                      /\ IsText(Line[i + k], p) /\ IsText(Line[j + k], p)
                           => Line[i + k].nth < Line[j + k].nth
    BY <1>1 DEF LineOrdered, IsEnd, IsText
  <2>1. i + k \in 1..Len(Line) /\ j + k \in 1..Len(Line) /\ i + k < j + k
    BY <1>1 DEF Shifts
  <2> QED
    BY <2>1 DEF LineInv, LineOrdered
<1>4. ASSUME NEW p \in Prompts, Past(p)
      PROVE  Past(p)'
  BY <1>1, <1>4 DEF Past, Ended, IsEnd, IsText
<1> QED
  BY <1>1, <1>2, <1>3, <1>4 DEF LineInv

\* A step of the program that changes no text and no result.
LEMMA QuietKeeps ==
  ASSUME TypeInv, StoryInv, NEW k, Shifts(k), k = 1 => Line[1].kind # "text",
         UNCHANGED <<pc, current, text, result, setting, sent, replied, completed>>
  PROVE  /\ LineInv' /\ TextInv' /\ AnswersPast' /\ ResultInv'
         /\ \A p \in Prompts : (Past(p) => Past(p)') /\ (Lost(p) => Lost(p)') /\ (Begun(p) => Begun(p)')
<1>1. \A p \in Prompts : (Begun(p) <=> Begun(p)') /\ (Answered(p) <=> Answered(p)') /\ (Lost(p) <=> Lost(p)')
  BY DEF Begun, Answered, Lost
<1>2. /\ LineInv' /\ \A p \in Prompts : Past(p) => Past(p)'
      /\ \A j \in 1..Len(Line') : j + k \in 1..Len(Line) /\ Line'[j] = Line[j + k]
  BY <1>1, ShiftKeeps DEF StoryInv
<1>3. TextOrdered'
  <2>1. TextOrdered
    BY DEF StoryInv, TextInv
  <2> QED
    BY <1>2, <2>1 DEF TextOrdered, IsText
<1>4. TextCovers'
  <2> SUFFICES ASSUME NEW p \in Prompts, pc[p] = "asking", NEW n \in 1..sent[p],
                      ~ \E i \in 1..Len(text) : text[i].of = p /\ text[i].nth = n
               PROVE  \E i \in 1..Len(Line') : IsText(Line'[i], p) /\ Line'[i].nth = n
    BY DEF TextCovers, IsText
  <2>1. PICK i \in 1..Len(Line) : IsText(Line[i], p) /\ Line[i].nth = n
    BY DEF StoryInv, TextInv, TextCovers
  <2>2. i - k \in 1..Len(Line')
    <3>1. i > k
      BY <2>1, LineType DEF Shifts, IsText
    <3> QED
      BY <3>1, LineType DEF Shifts
  <2>3. Line'[i - k] = Line[i]
    <3>1. (i - k) + k = i
      BY LineType DEF Shifts
    <3> QED
      BY <1>2, <2>2, <3>1
  <2> QED
    BY <2>1, <2>2, <2>3
<1>5. TextLost'
  <2>1. TextLost
    BY DEF StoryInv, TextInv
  <2> QED
    BY <2>1 DEF TextLost, Lost, Answered
<1>6. AnswersPast'
  <2>1. AnswersPast
    BY DEF StoryInv, PastInv
  <2> QED
    BY <1>1, <1>2, <2>1 DEF AnswersPast
<1>7. ResultInv'
  <2>1. ResultLost /\ ResultWhole
    BY DEF StoryInv, ResultInv
  <2>2. ResultLost'
    BY <2>1 DEF ResultLost, Lost, Answered
  <2>3. ResultWhole'
    BY <2>1 DEF ResultWhole, Answered
  <2> QED
    BY <2>2, <2>3 DEF ResultInv
<1> QED
  BY <1>1, <1>2, <1>3, <1>4, <1>5, <1>6, <1>7 DEF TextInv

\* A step that changes neither text, results nor who is at work: the channels
\* tell of ends that are past.
LEMMA QuietStory ==
  ASSUME TypeInv, StoryInv, NEW k, Shifts(k), k = 1 => Line[1].kind # "text",
         UNCHANGED <<pc, current, text, result, setting, sent, replied, completed>>,
         HeardBegun',
         \A p, q \in Prompts : doneCh'[p] # <<>> /\ Head(doneCh'[p]) = q =>
           \/ doneCh'[p] = doneCh[p]
           \/ setting.style = "notify" /\ Past(q)' /\ (q # p => Lost(q)),
         \A p \in Prompts : sender'[p] = "given" /\ setting.style # "notify" =>
           sender[p] = "given" \/ Past(p)',
         \A p \in Prompts : respCh'[p] # <<>> /\ Head(respCh'[p]) = "stop" =>
           \/ respCh'[p] = respCh[p]
           \/ setting.style # "notify" /\ Past(p)
  PROVE  StoryInv'
<1>1. /\ LineInv' /\ TextInv' /\ AnswersPast' /\ ResultInv'
      /\ \A p \in Prompts : (Past(p) => Past(p)') /\ (Lost(p) => Lost(p)') /\ (Begun(p) => Begun(p)')
  BY QuietKeeps
<1>2. DonePast /\ ReplyPast
  BY DEF StoryInv, PastInv
<1>3. DonePast'
  <2>1. ASSUME NEW p \in Prompts, NEW q \in Prompts, doneCh'[p] # <<>>, Head(doneCh'[p]) = q
        PROVE  setting'.style = "notify" /\ Past(q)' /\ (q # p => Lost(q)')
    <3>1. CASE doneCh'[p] = doneCh[p]
      <4>1. setting.style = "notify" /\ Past(q) /\ (q # p => Lost(q))
        BY <1>2, <2>1, <3>1 DEF DonePast
      <4> QED
        BY <1>1, <4>1
    <3>2. CASE doneCh'[p] # doneCh[p]
      BY <1>1, <2>1, <3>2
    <3> QED
      BY <3>1, <3>2
  <2> QED
    BY <2>1 DEF DonePast
<1>4. ReplyPast'
  <2>1. ASSUME NEW p \in Prompts
        PROVE  /\ setting'.style # "notify" /\ sender'[p] = "given" => Past(p)'
               /\ respCh'[p] # <<>> /\ Head(respCh'[p]) = "stop" => setting'.style # "notify" /\ Past(p)'
    BY <1>1, <1>2 DEF ReplyPast
  <2> QED
    BY <2>1 DEF ReplyPast
<1> QED
  BY <1>1, <1>3, <1>4 DEF StoryInv, PastInv

LEMMA SameStory ==
  ASSUME TypeInv, StoryInv, NEW k, Shifts(k), k = 1 => Line[1].kind # "text",
         UNCHANGED <<promptVars, sender, agentVars>>
  PROVE  StoryInv'
<1>1. UNCHANGED <<pc, respCh, doneCh, current, text, result, sender, setting, heard, sent, replied,
                  completed>>
  BY DEF promptVars, agentVars
<1>2. HeardBegun'
  BY <1>1 DEF StoryInv, HeardBegun, Begun
<1> QED
  BY <1>1, <1>2, QuietStory

-----------------------------------------------------------------------------
\* The prompts.

\* A prompt enters, is reset or returns: the line and the agent stay as they are.
LEMMA TurnKeeps ==
  ASSUME TypeInv, StoryInv, Line' = Line, UNCHANGED <<setting, heard, sent, replied, completed>>,
         \A p \in Prompts : Begun(p) => Begun(p)'
  PROVE  /\ LineInv' /\ \A p \in Prompts : Past(p) => Past(p)'
         /\ (\A p \in Prompts : sender'[p] # sender[p] => Begun(p)') => HeardBegun'
<1>1. Shifts(0)
  BY SameShifts
<1>2. LineInv' /\ \A p \in Prompts : Past(p) => Past(p)'
  BY <1>1, ShiftKeeps DEF StoryInv
<1>3. ASSUME \A p \in Prompts : sender'[p] # sender[p] => Begun(p)'
      PROVE  HeardBegun'
  <2>1. HeardBegun
    BY DEF StoryInv
  <2> QED
    BY <1>3, <2>1 DEF HeardBegun
<1> QED
  BY <1>2, <1>3

\* The answers of a prompt that is not the one that moves stay what they were.
LEMMA ChannelsKeep ==
  ASSUME TypeInv, StoryInv, UNCHANGED setting,
         \A p \in Prompts : (Past(p) => Past(p)') /\ (Lost(p) => Lost(p)'),
         \A p \in Prompts : doneCh'[p] # <<>> => doneCh'[p] = doneCh[p],
         \A p \in Prompts : respCh'[p] # <<>> => respCh'[p] = respCh[p],
         \A p \in Prompts : sender'[p] = "given" => sender[p] = "given"
  PROVE  DonePast' /\ ReplyPast'
<1>1. DonePast /\ ReplyPast
  BY DEF StoryInv, PastInv
<1>2. DonePast'
  BY <1>1 DEF DonePast
<1>3. ReplyPast'
  BY <1>1 DEF ReplyPast
<1> QED
  BY <1>2, <1>3

LEMMA EnterStory ==
  ASSUME TypeInv, StoryInv, NEW p \in Prompts, Enter(p)
  PROVE  StoryInv'
<1>1. /\ pc[p] = "idle" /\ UNCHANGED <<respCh, doneCh, current, text, sender, setting, heard, sent,
                                         replied, completed>>
      /\ Line' = Line
  BY DEF Enter, loopVars, worldVars, agentVars, Line
<1>2. pc'[p] \in {"entered", "done"} /\ \A q \in Prompts : q # p => pc'[q] = pc[q] /\ result'[q] = result[q]
  BY DEF Enter, TypeInv, PromptTypes
<1>3. result'[p].by = result[p].by /\ result'[p].text = result[p].text
      /\ (result'[p].kind = "answered" => result[p].kind = "answered")
  <2>1. result \in [Prompts -> Results]
    BY DEF TypeInv, PromptTypes
  <2>2. result' = result \/ result' = [result EXCEPT ![p].kind = "notRunning"]
    BY DEF Enter
  <2> QED
    BY <2>1, <2>2 DEF Results
<1>4. ~Answered(p)
  BY <1>1 DEF StoryInv, PastInv, AnswersPast
<1>5. \A q \in Prompts : Begun(q) => Begun(q)'
  BY <1>1, <1>2 DEF Begun
<1>6. \A q \in Prompts : Answered(q)' => q # p /\ Answered(q)
  BY <1>2, <1>3, <1>4 DEF Answered
<1>7. \A q \in Prompts : Lost(q) => Lost(q)'
  BY <1>1, <1>2, <1>6 DEF Lost
<1>8. LineInv' /\ (\A q \in Prompts : Past(q) => Past(q)') /\ HeardBegun'
  BY <1>1, <1>5, TurnKeeps
<1>9. DonePast' /\ ReplyPast'
  BY <1>1, <1>7, <1>8, ChannelsKeep
<1>10. AnswersPast'
  <2>1. AnswersPast
    BY DEF StoryInv, PastInv
  <2> QED
    BY <1>2, <1>6, <1>8, <2>1 DEF AnswersPast
<1>11. TextInv'
  <2>1. TextOrdered /\ TextCovers /\ TextLost
    BY DEF StoryInv, TextInv
  <2>2. TextOrdered'
    BY <1>1, <2>1 DEF TextOrdered, IsText
  <2>3. TextCovers'
    <3>1. \A q \in Prompts : pc'[q] = "asking" => pc[q] = "asking"
      BY <1>1, <1>2
    <3> QED
      BY <1>1, <2>1, <3>1 DEF TextCovers, IsText
  <2>4. TextLost'
    BY <1>1, <1>7, <2>1 DEF TextLost
  <2> QED
    BY <2>2, <2>3, <2>4 DEF TextInv
<1>12. ResultInv'
  <2>1. ResultLost /\ ResultWhole
    BY DEF StoryInv, ResultInv
  <2>2. \A q \in Prompts : result'[q].by = result[q].by /\ result'[q].text = result[q].text
    BY <1>2, <1>3
  <2>3. ResultLost'
    BY <1>7, <2>1, <2>2 DEF ResultLost
  <2>4. ResultWhole'
    BY <1>1, <1>6, <2>1, <2>2 DEF ResultWhole
  <2> QED
    BY <2>3, <2>4 DEF ResultInv
<1> QED
  BY <1>8, <1>9, <1>10, <1>11, <1>12 DEF StoryInv, PastInv

LEMMA ResetStory ==
  ASSUME TypeInv, StoryInv, NEW p \in Prompts, Reset(p)
  PROVE  StoryInv'
<1>1. /\ pc[p] = "entered" /\ pc' = [pc EXCEPT ![p] = "asking"] /\ current' = p /\ text' = <<>>
      /\ sender' = [sender EXCEPT ![p] = "start"]
      /\ UNCHANGED <<respCh, doneCh, result, setting, heard, sent, replied, completed>>
      /\ Line' = Line
  BY DEF Reset, loopVars, worldVars, agentVars, Line
<1>2. pc'[p] = "asking" /\ \A q \in Prompts : q # p => pc'[q] = pc[q] /\ sender'[q] = sender[q]
  BY <1>1 DEF TypeInv, PromptTypes, SenderTypes
<1>3. \A q \in Prompts : q # p => pc[q] \notin {"entered", "asking"}
  BY <1>1 DEF TypeInv, PromptTypes
<1>4. sender'[p] = "start"
  BY <1>1 DEF TypeInv, SenderTypes
<1>5. \A q \in Prompts : Begun(q) => Begun(q)'
  BY <1>2 DEF Begun
<1>6. \A q \in Prompts : Answered(q)' <=> Answered(q)
  BY <1>1 DEF Answered
<1>7. \A q \in Prompts : Lost(q) => Lost(q)'
  BY <1>1, <1>2, <1>6 DEF Lost
<1>8. LineInv' /\ (\A q \in Prompts : Past(q) => Past(q)') /\ HeardBegun'
  <2>1. \A q \in Prompts : sender'[q] # sender[q] => Begun(q)'
    BY <1>2 DEF Begun
  <2> QED
    BY <1>1, <1>5, <2>1, TurnKeeps
<1>9. DonePast' /\ ReplyPast'
  BY <1>1, <1>2, <1>4, <1>7, <1>8, ChannelsKeep
<1>10. AnswersPast'
  <2>1. AnswersPast
    BY DEF StoryInv, PastInv
  <2> QED
    BY <1>1, <1>2, <1>6, <1>8, <2>1 DEF AnswersPast
<1>11. TextInv'
  <2>1. Len(text') = 0
    BY <1>1
  <2>2. TextOrdered' /\ TextLost'
    BY <2>1 DEF TextOrdered, TextLost
  <2>3. sent[p] = 0
    <3>1. ~(sent[p] > 0)
      BY <1>1 DEF StoryInv, HeardBegun, Begun
    <3>2. sent[p] \in 0..MaxChunks
      BY DEF TypeInv, WorldTypes
    <3> QED
      BY <3>1, <3>2, MaxChunksAssumption
  <2>4. \A q \in Prompts : pc'[q] = "asking" => q = p
    BY <1>2, <1>3
  <2>5. TextCovers'
    BY <1>1, <2>3, <2>4 DEF TextCovers
  <2> QED
    BY <2>2, <2>5 DEF TextInv
<1>12. ResultInv'
  <2>1. ResultLost /\ ResultWhole
    BY DEF StoryInv, ResultInv
  <2>2. ResultLost'
    BY <1>1, <1>7, <2>1 DEF ResultLost
  <2>3. ResultWhole'
    BY <1>1, <1>6, <2>1 DEF ResultWhole
  <2> QED
    BY <2>2, <2>3 DEF ResultInv
<1> QED
  BY <1>8, <1>9, <1>10, <1>11, <1>12 DEF StoryInv, PastInv

\* The select returns, with the text collected if there is an answer.
LEMMA ReturnStory ==
  ASSUME TypeInv, StoryInv, NEW p \in Prompts, NEW kind \in Kinds, NEW by \in Prompts \cup {None},
         NEW collected \in Seq(Chunks), Return(p, kind, by, collected),
         collected = text \/ collected = <<>>,
         kind = "answered" => by # None /\ collected = text,
         by # None => kind = "answered",
         by = p => Past(p), by \notin {p, None} => Lost(by),
         \A q \in Prompts : doneCh'[q] # <<>> => doneCh'[q] = doneCh[q],
         \A q \in Prompts : respCh'[q] # <<>> => respCh'[q] = respCh[q]
  PROVE  StoryInv'
<1>1. /\ pc[p] = "asking" /\ pc' = [pc EXCEPT ![p] = "done"] /\ current' = None
      /\ result' = [result EXCEPT ![p] = [kind |-> kind, by |-> by, text |-> collected]]
      /\ UNCHANGED <<sender, text, setting, heard, sent, replied, completed>> /\ Line' = Line
  BY DEF Return, loopVars, worldVars, agentVars, Line
<1>2. /\ pc'[p] = "done" /\ result'[p] = [kind |-> kind, by |-> by, text |-> collected]
      /\ \A q \in Prompts : q # p => pc'[q] = pc[q] /\ result'[q] = result[q]
  BY <1>1 DEF TypeInv, PromptTypes
<1>3. current = p /\ \A q \in Prompts : pc'[q] # "asking"
  BY <1>1, <1>2 DEF TypeInv, PromptTypes
<1>4. \A q \in Prompts : Begun(q) => Begun(q)'
  BY <1>2 DEF Begun
<1>5. \A q \in Prompts : q # p => (Answered(q)' <=> Answered(q))
  BY <1>2 DEF Answered
<1>6. \A q \in Prompts : Lost(q) => q # p /\ Lost(q)'
  BY <1>1, <1>2, <1>5 DEF Lost
<1>7. Answered(p)' => by = p /\ collected = text
  BY <1>2 DEF Answered
<1>8. LineInv' /\ (\A q \in Prompts : Past(q) => Past(q)') /\ HeardBegun'
  BY <1>1, <1>4, TurnKeeps
<1>9. DonePast' /\ ReplyPast'
  BY <1>1, <1>6, <1>8, ChannelsKeep
<1>10. AnswersPast'
  <2>1. AnswersPast
    BY DEF StoryInv, PastInv
  <2>2. ASSUME NEW q \in Prompts, Answered(q)'
        PROVE  pc'[q] = "done" /\ Past(q)'
    <3>1. CASE q = p
      BY <1>2, <1>7, <1>8, <2>2, <3>1
    <3>2. CASE q # p
      BY <1>2, <1>5, <1>8, <2>1, <2>2, <3>2 DEF AnswersPast
    <3> QED
      BY <3>1, <3>2
  <2> QED
    BY <2>2 DEF AnswersPast
<1>11. TextOrdered /\ TextCovers /\ TextLost
  BY DEF StoryInv, TextInv
<1>12. TextInv'
  <2>1. TextOrdered'
    BY <1>1, <1>11 DEF TextOrdered, IsText
  <2>2. TextCovers'
    BY <1>3 DEF TextCovers
  <2>3. TextLost'
    BY <1>1 DEF TextLost
  <2> QED
    BY <2>1, <2>2, <2>3 DEF TextInv
<1>13. ResultLost /\ ResultWhole
  BY DEF StoryInv, ResultInv
<1>14. ResultLost'
  <2>1. ASSUME NEW r \in Prompts, NEW q \in Prompts, r # q
        PROVE  /\ result'[r].by = q => Lost(q)'
               /\ \A i \in 1..Len(result'[r].text) : result'[r].text[i].of = q => Lost(q)'
    <3>1. CASE r # p
      BY <1>2, <1>6, <1>13, <2>1, <3>1 DEF ResultLost
    <3>2. CASE r = p
      <4>1. result'[p].by = by /\ result'[p].text = collected
        BY <1>2
      <4>2. by = q => Lost(q)
        BY <2>1, <3>2, PromptsAssumption
      <4>3. ASSUME NEW i \in 1..Len(collected), collected[i].of = q
            PROVE  Lost(q)
        <5>1. collected = text
          <6>1. collected # <<>>
            BY <4>3
          <6> QED
            BY <6>1
        <5>2. current # None /\ q # current
          BY <1>3, <2>1, <3>2, PromptsAssumption
        <5> QED
          BY <1>11, <4>3, <5>1, <5>2 DEF TextLost
      <4> QED
        BY <1>6, <3>2, <4>1, <4>2, <4>3
    <3> QED
      BY <3>1, <3>2
  <2> QED
    BY <2>1 DEF ResultLost
<1>15. ResultWhole'
  <2>1. ASSUME Answered(p)'
        PROVE  Whole(p, text, sent[p])
    <3>1. Past(p)
      BY <1>7, <2>1
    <3>2. \A n \in 1..sent[p] : \E i \in 1..Len(text) : text[i].of = p /\ text[i].nth = n
      BY <1>1, <1>11, <3>1 DEF TextCovers, Past
    <3> QED
      BY <1>11, <3>2 DEF Whole, TextOrdered
  <2>2. \A q \in Prompts : Answered(q)' => Whole(q, result'[q].text, sent'[q])
    <3>1. Answered(p)' => result'[p].text = text
      BY <1>2, <1>7
    <3> QED
      BY <1>1, <1>2, <1>5, <1>13, <2>1, <3>1 DEF ResultWhole
  <2> QED
    BY <2>2 DEF ResultWhole
<1> QED
  BY <1>8, <1>9, <1>10, <1>12, <1>14, <1>15 DEF StoryInv, PastInv, ResultInv

LEMMA TakeDoneStory ==
  ASSUME TypeInv, StoryInv, NEW p \in Prompts, TakeDone(p)
  PROVE  StoryInv'
<1>1. doneCh[p] # <<>> /\ doneCh \in [Prompts -> Seq(Prompts)] /\ \A q \in Prompts : Len(doneCh[q]) <= 1
  BY DEF TakeDone, TypeInv, PromptTypes
<1>2. PICK by \in Prompts : by = Head(doneCh[p])
  BY <1>1
<1>3. Return(p, "answered", by, text) /\ respCh' = respCh /\ doneCh' = [doneCh EXCEPT ![p] = Tail(doneCh[p])]
  BY <1>2 DEF TakeDone
<1>4. Past(by) /\ (by # p => Lost(by))
  BY <1>1, <1>2 DEF StoryInv, PastInv, DonePast
<1>5. \A q \in Prompts : doneCh'[q] # <<>> => doneCh'[q] = doneCh[q]
  BY <1>1, <1>3
<1>6. "answered" \in Kinds /\ text \in Seq(Chunks) /\ by # None /\ by \in Prompts \cup {None}
  BY <1>2, PromptsAssumption DEF Kinds, TypeInv, PromptTypes
<1> QED
  BY <1>3, <1>4, <1>5, <1>6, ReturnStory

LEMMA TakeReplyStory ==
  ASSUME TypeInv, StoryInv, NEW p \in Prompts, TakeReply(p)
  PROVE  StoryInv'
<1>1. respCh[p] # <<>> /\ respCh \in [Prompts -> Seq(Replies)] /\ \A q \in Prompts : Len(respCh[q]) <= 1
  BY DEF TakeReply, TypeInv, PromptTypes
<1>2. doneCh' = doneCh /\ respCh' = [respCh EXCEPT ![p] = Tail(respCh[p])]
  BY DEF TakeReply
<1>3. \A q \in Prompts : respCh'[q] # <<>> => respCh'[q] = respCh[q]
  BY <1>1, <1>2
<1>4. {"failed", "answered"} \subseteq Kinds /\ text \in Seq(Chunks) /\ <<>> \in Seq(Chunks)
      /\ p \in Prompts \cup {None} /\ p # None /\ None \in Prompts \cup {None}
  BY PromptsAssumption DEF Kinds, TypeInv, PromptTypes
<1>5. CASE Return(p, "failed", None, <<>>)
  BY <1>2, <1>3, <1>4, <1>5, ReturnStory
<1>6. CASE Head(respCh[p]) = "stop" /\ Return(p, "answered", p, text)
  <2>1. Past(p)
    BY <1>1, <1>6 DEF StoryInv, PastInv, ReplyPast
  <2> QED
    BY <1>2, <1>3, <1>4, <1>6, <2>1, ReturnStory
<1>7. CASE UNCHANGED <<pc, result, current, sender, text, events, loopVars, lifeVars, worldVars>>
  <2>1. UNCHANGED <<pc, current, text, result, sender, setting, heard, sent, replied, completed>>
        /\ Line' = Line
    BY <1>7 DEF loopVars, worldVars, agentVars, Line
  <2>2. Shifts(0)
    BY <2>1, SameShifts
  <2>3. HeardBegun'
    BY <2>1 DEF StoryInv, HeardBegun, Begun
  <2> QED
    BY <1>2, <1>3, <2>1, <2>2, <2>3, QuietStory
<1> QED
  BY <1>5, <1>6, <1>7 DEF TakeReply

LEMMA GiveUpStory ==
  ASSUME TypeInv, StoryInv, NEW p \in Prompts, GiveUp(p) \/ NoticeExit(p)
  PROVE  StoryInv'
<1>1. PICK kind \in {"cancelled", "idle", "readError", "exited"} : Return(p, kind, None, <<>>)
  BY DEF GiveUp, NoticeExit
<1>2. kind \in Kinds /\ kind # "answered" /\ <<>> \in Seq(Chunks) /\ None \in Prompts \cup {None}
  BY DEF Kinds
<1>3. UNCHANGED <<doneCh, respCh>> /\ p # None
  BY PromptsAssumption DEF GiveUp, NoticeExit
<1> QED
  BY <1>1, <1>2, <1>3, ReturnStory

-----------------------------------------------------------------------------
\* The goroutines that send.

LEMMA SendPromptStory ==
  ASSUME TypeInv, StoryInv, NEW p \in Prompts, SendPrompt(p)
  PROVE  StoryInv'
<1>1. /\ sender[p] = "start" /\ UNCHANGED <<pc, doneCh, current, text, result, setting, sent, replied,
                                             completed>> /\ Line' = Line
      /\ (heard' = heard \/ heard' = Append(heard, p))
      /\ (respCh' = respCh \/ respCh' = [respCh EXCEPT ![p] = <<"error">>])
      /\ (sender' = [sender EXCEPT ![p] = "waiting"] \/ sender' = [sender EXCEPT ![p] = "over"])
  BY DEF SendPrompt, loopVars, Line
<1>2. Begun(p)
  BY <1>1 DEF StoryInv, HeardBegun
<1>3. /\ sender'[p] \in {"waiting", "over"} /\ \A q \in Prompts : q # p => sender'[q] = sender[q]
  BY <1>1 DEF TypeInv, SenderTypes
<1>4. \A q \in Prompts : respCh'[q] # <<>> /\ Head(respCh'[q]) = "stop" => respCh'[q] = respCh[q]
  BY <1>1 DEF TypeInv, PromptTypes
<1>5. HeardBegun'
  <2>1. HeardBegun /\ heard \in Seq(Prompts)
    BY DEF StoryInv, TypeInv, WorldTypes
  <2>2. \A i \in 1..Len(heard') : heard'[i] = p \/ (i \in 1..Len(heard) /\ heard'[i] = heard[i])
    BY <1>1, <2>1
  <2> QED
    BY <1>1, <1>2, <1>3, <2>1, <2>2 DEF HeardBegun, Begun
<1>6. Shifts(0)
  BY <1>1, SameShifts
<1> QED
  BY <1>1, <1>3, <1>4, <1>5, <1>6, QuietStory

LEMMA SenderReturnsStory ==
  ASSUME TypeInv, StoryInv, NEW p \in Prompts, SenderGets(p) \/ SenderTimesOut(p)
  PROVE  StoryInv'
<1>1. /\ sender[p] \in {"waiting", "given"} /\ sender' = [sender EXCEPT ![p] = "over"]
      /\ UNCHANGED <<pc, doneCh, current, text, result, setting, heard, sent, replied, completed>>
      /\ Line' = Line
  BY DEF SenderGets, SenderTimesOut, loopVars, worldVars, agentVars, Line
<1>2. PICK r \in Replies : /\ respCh' = [respCh EXCEPT ![p] = <<r>>]
                           /\ r = "stop" => setting.style # "notify" /\ sender[p] = "given"
  BY DEF SenderGets, SenderTimesOut, Given, Replies
<1>3. Begun(p)
  BY <1>1 DEF StoryInv, HeardBegun
<1>4. /\ sender'[p] = "over" /\ \A q \in Prompts : q # p => sender'[q] = sender[q]
  BY <1>1 DEF TypeInv, SenderTypes
<1>5. HeardBegun'
  BY <1>1, <1>3, <1>4 DEF StoryInv, HeardBegun, Begun
<1>6. \A q \in Prompts : respCh'[q] # <<>> /\ Head(respCh'[q]) = "stop" =>
        respCh'[q] = respCh[q] \/ (setting.style # "notify" /\ Past(q))
  <2>1. ReplyPast
    BY DEF StoryInv, PastInv
  <2>2. respCh'[p] = <<r>> /\ \A q \in Prompts : q # p => respCh'[q] = respCh[q]
    BY <1>2 DEF TypeInv, PromptTypes
  <2>3. Head(<<r>>) = r
    OBVIOUS
  <2>4. r = "stop" => setting.style # "notify" /\ Past(p)
    BY <1>2, <2>1 DEF ReplyPast
  <2> QED
    BY <2>2, <2>3, <2>4
<1>7. Shifts(0)
  BY <1>1, SameShifts
<1> QED
  BY <1>1, <1>4, <1>5, <1>6, <1>7, QuietStory

-----------------------------------------------------------------------------
\* The read loop.

LEMMA HandleResponseStory ==
  ASSUME TypeInv, StoryInv, HandleResponse
  PROVE  StoryInv'
<1>1. /\ loop = "handle" /\ Head(hand).kind = "response" /\ pipe' = pipe
      /\ UNCHANGED <<pc, current, text, result, doneCh, respCh, setting, heard, sent, replied, completed>>
  BY DEF HandleResponse, promptVars, worldVars, agentVars
<1>2. HeardBegun
  BY DEF StoryInv
<1>3. CASE UNCHANGED <<hand, loop, sender>>
  <2>1. Shifts(0)
    BY <1>1, <1>3, SameShifts DEF Line
  <2>2. HeardBegun'
    BY <1>1, <1>2, <1>3 DEF HeardBegun, Begun
  <2> QED
    BY <1>1, <1>3, <2>1, <2>2, QuietStory
<1>4. CASE Handled /\ sender' = IF sender[Head(hand).of] = "waiting"
                               THEN [sender EXCEPT ![Head(hand).of] = "given"] ELSE sender
  <2>1. loop' = "check"
    BY <1>4 DEF Handled
  <2>2. /\ Shifts(1) /\ Len(Line) > 0 /\ Line[1] = Head(hand) /\ Line[1].of \in Prompts
    BY <1>1, <2>1, TakenShifts
  <2>3. PICK p \in Prompts : p = Head(hand).of
    BY <2>2
  <2>4. \A q \in Prompts : \/ sender'[q] = sender[q]
                           \/ q = p /\ sender[q] = "waiting" /\ sender'[q] = "given"
    BY <1>4, <2>3 DEF TypeInv, SenderTypes
  <2>5. HeardBegun'
    BY <1>1, <1>2, <2>4 DEF HeardBegun, Begun
  <2>6. setting.style # "notify" => Past(p)'
    <3> SUFFICES ASSUME setting.style # "notify" PROVE Past(p)'
      OBVIOUS
    <3>1. IsEnd(Line[1], p) /\ replied[p]
      BY <1>1, <2>2, <2>3, LineType DEF StoryInv, LineInv, LineTrue, Truthful, IsEnd
    <3>2. \A j \in 1..Len(Line') : j + 1 \in 1..Len(Line) /\ 1 < j + 1 /\ Line'[j] = Line[j + 1]
      BY <2>2, LineType DEF Shifts
    <3>3. \A j \in 1..Len(Line') : ~IsText(Line'[j], p) /\ ~IsEnd(Line'[j], p)
      BY <2>2, <3>1, <3>2, LineType DEF StoryInv, LineInv, LineOrdered
    <3>4. Ended(p)'
      BY <1>1, <3>1 DEF Ended
    <3> QED
      BY <1>1, <3>3, <3>4 DEF Past, IsEnd, IsText
  <2> QED
    BY <1>1, <2>2, <2>4, <2>5, <2>6, QuietStory
<1> QED
  BY <1>3, <1>4 DEF HandleResponse

LEMMA HandleCompleteStory ==
  ASSUME TypeInv, StoryInv, HandleComplete
  PROVE  StoryInv'
<1>1. /\ loop = "handle" /\ Head(hand).kind = "complete" /\ pipe' = pipe /\ loop' = "check"
      /\ UNCHANGED <<pc, current, text, result, sender, respCh, setting, heard, sent, replied, completed>>
  BY DEF HandleComplete, Handled, worldVars, agentVars
<1>2. Shifts(1) /\ Len(Line) > 0 /\ Line[1] = Head(hand) /\ Line[1].of \in Prompts
  BY <1>1, TakenShifts
<1>3. PICK e \in Prompts : e = Head(hand).of
  BY <1>2
<1>4. HeardBegun'
  BY <1>1 DEF StoryInv, HeardBegun, Begun
<1>5. Begun(e) /\ completed[e] /\ setting.style = "notify" /\ IsEnd(Line[1], e)
  BY <1>1, <1>2, <1>3, LineType DEF StoryInv, LineInv, LineTrue, Truthful, IsEnd
<1>6. Past(e)'
  <2>1. \A j \in 1..Len(Line') : j + 1 \in 1..Len(Line) /\ 1 < j + 1 /\ Line'[j] = Line[j + 1]
    BY <1>2, LineType DEF Shifts
  <2>2. \A j \in 1..Len(Line') : ~IsText(Line'[j], e) /\ ~IsEnd(Line'[j], e)
    BY <1>2, <1>5, <2>1, LineType DEF StoryInv, LineInv, LineOrdered
  <2>3. Ended(e)'
    BY <1>1, <1>5 DEF Ended
  <2> QED
    BY <1>1, <2>2, <2>3 DEF Past, IsEnd, IsText
<1>7. e # current => current = None \/ Lost(e)
  <2> SUFFICES ASSUME e # current, current # None PROVE Lost(e)
    OBVIOUS
  <2>1. pc[e] = "done"
    BY <1>5 DEF Begun, TypeInv, PromptTypes
  <2>2. ~Past(e)
    BY <1>2, <1>5, LineType DEF Past
  <2> QED
    BY <2>1, <2>2 DEF Lost, StoryInv, PastInv, AnswersPast
<1>8. \A p, q \in Prompts : doneCh'[p] # <<>> /\ Head(doneCh'[p]) = q =>
        \/ doneCh'[p] = doneCh[p]
        \/ setting.style = "notify" /\ Past(q)' /\ (q # p => Lost(q))
  <2> SUFFICES ASSUME NEW p \in Prompts, NEW q \in Prompts, Head(doneCh'[p]) = q, doneCh'[p] # doneCh[p]
               PROVE  setting.style = "notify" /\ Past(q)' /\ (q # p => Lost(q))
    OBVIOUS
  <2>1. current \in Prompts \cup {None} /\ doneCh \in [Prompts -> Seq(Prompts)]
    BY DEF TypeInv, PromptTypes
  <2>2. current \in Prompts /\ doneCh' = [doneCh EXCEPT ![current] = <<e>>]
    BY <1>3, <2>1 DEF HandleComplete
  <2>3. p = current /\ doneCh'[p] = <<e>>
    BY <2>1, <2>2
  <2>4. q = e
    BY <2>3
  <2> QED
    BY <1>5, <1>6, <1>7, <2>2, <2>3, <2>4, PromptsAssumption
<1> QED
  BY <1>1, <1>2, <1>4, <1>8, QuietStory

LEMMA HandleTextStory ==
  ASSUME TypeInv, StoryInv, HandleText
  PROVE  StoryInv'
<1>1. /\ loop = "handle" /\ Head(hand).kind = "text" /\ pipe' = pipe /\ loop' = "emit"
      /\ text' = Append(text, Piece)
      /\ UNCHANGED <<pc, current, doneCh, respCh, result, sender, setting, heard, sent, replied, completed>>
  BY DEF HandleText, worldVars, agentVars, Piece
<1>2. Shifts(1) /\ Len(Line) > 0 /\ Line[1] = Head(hand) /\ Line[1].of \in Prompts
      /\ Line[1].nth \in 1..MaxChunks
  BY <1>1, TakenShifts
<1>3. PICK o \in Prompts : o = Line[1].of
  BY <1>2
<1>4. IsText(Line[1], o) /\ Begun(o) /\ Line[1].nth <= sent[o]
  BY <1>1, <1>2, <1>3, LineType DEF StoryInv, LineInv, LineTrue, Truthful, IsText
<1>5. \A p \in Prompts : (Begun(p) => Begun(p)') /\ (Answered(p)' <=> Answered(p)) /\ (Lost(p) => Lost(p)')
  BY <1>1 DEF Begun, Answered, Lost
<1>6. /\ LineInv' /\ \A p \in Prompts : Past(p) => Past(p)'
      /\ \A j \in 1..Len(Line') : j + 1 \in 1..Len(Line) /\ Line'[j] = Line[j + 1]
  BY <1>1, <1>2, <1>5, ShiftKeeps DEF StoryInv
<1>7. /\ Len(text) \in Nat /\ Len(text') = Len(text) + 1
      /\ \A i \in 1..Len(text) : text'[i] = text[i] /\ text[i].of \in Prompts /\ text[i].nth \in Nat
      /\ text'[Len(text) + 1].of = o /\ text'[Len(text) + 1].nth = Line[1].nth
  <2>1. text \in Seq(Chunks)
    BY DEF TypeInv, PromptTypes
  <2>2. Piece.of = o /\ Piece.nth = Line[1].nth
    BY <1>2, <1>3 DEF Piece
  <2>3. \A c \in Chunks : c.of \in Prompts /\ c.nth \in Nat
    BY MaxChunksAssumption DEF Chunks
  <2>4. \A i \in 1..Len(text) : text[i] \in Chunks
    BY <2>1
  <2> HIDE DEF Piece, Chunks
  <2> QED
    BY <1>1, <2>1, <2>2, <2>3, <2>4
<1>8. HeardBegun'
  BY <1>1 DEF StoryInv, HeardBegun, Begun
<1>9. PastInv'
  <2>1. AnswersPast /\ DonePast /\ ReplyPast
    BY DEF StoryInv, PastInv
  <2>2. AnswersPast'
    BY <1>1, <1>5, <1>6, <2>1 DEF AnswersPast
  <2>3. DonePast'
    BY <1>1, <1>5, <1>6, <2>1 DEF DonePast
  <2>4. ReplyPast'
    BY <1>1, <1>6, <2>1 DEF ReplyPast
  <2> QED
    BY <2>2, <2>3, <2>4 DEF PastInv
<1>10. ResultInv'
  <2>1. ResultLost /\ ResultWhole
    BY DEF StoryInv, ResultInv
  <2>2. ResultLost'
    BY <1>1, <1>5, <2>1 DEF ResultLost
  <2>3. ResultWhole'
    BY <1>1, <1>5, <2>1 DEF ResultWhole
  <2> QED
    BY <2>2, <2>3 DEF ResultInv
<1>11. TextOrdered /\ TextCovers /\ TextLost
  BY DEF StoryInv, TextInv
<1>12. TextOrdered'
  <2>1. ASSUME NEW i \in 1..Len(text')
        PROVE  text'[i].nth <= sent'[text'[i].of]
    <3>1. CASE i \in 1..Len(text)
      BY <1>1, <1>7, <1>11, <3>1 DEF TextOrdered
    <3>2. CASE i = Len(text) + 1
      BY <1>1, <1>4, <1>7, <3>2
    <3> QED
      BY <1>7, <3>1, <3>2
  <2>2. ASSUME NEW i \in 1..Len(text'), NEW j \in 1..Len(text'), i < j, text'[i].of = text'[j].of
        PROVE  text'[i].nth < text'[j].nth
    <3>1. i \in 1..Len(text)
      BY <1>7, <2>2
    <3>2. CASE j \in 1..Len(text)
      BY <1>7, <1>11, <2>2, <3>1, <3>2 DEF TextOrdered
    <3>3. CASE j = Len(text) + 1
      <4>1. text[i].of = o
        BY <1>7, <2>2, <3>1, <3>3
      <4>2. 1 \in 1..Len(Line) /\ IsText(Line[1], text[i].of)
        BY <1>2, <1>4, <4>1, LineType
      <4>3. text[i].nth < Line[1].nth
        BY <1>11, <3>1, <4>2 DEF TextOrdered
      <4> QED
        BY <1>7, <3>1, <3>3, <4>3
    <3> QED
      BY <1>7, <3>2, <3>3
  <2>3. ASSUME NEW i \in 1..Len(text'), NEW j \in 1..Len(Line'), IsText(Line'[j], text'[i].of)
        PROVE  text'[i].nth < Line'[j].nth
    <3>1. j + 1 \in 1..Len(Line) /\ Line'[j] = Line[j + 1] /\ 1 \in 1..Len(Line) /\ 1 < j + 1
      BY <1>2, <1>6, LineType
    <3>2. CASE i \in 1..Len(text)
      BY <1>7, <1>11, <2>3, <3>1, <3>2 DEF TextOrdered
    <3>3. CASE i = Len(text) + 1
      <4>1. IsText(Line[j + 1], o)
        BY <1>7, <2>3, <3>1, <3>3
      <4>2. Line[1].nth < Line[j + 1].nth
        BY <1>4, <3>1, <4>1 DEF StoryInv, LineInv, LineOrdered
      <4> QED
        BY <1>7, <3>1, <3>3, <4>2
    <3> QED
      BY <1>7, <3>2, <3>3
  <2> QED
    BY <2>1, <2>2, <2>3 DEF TextOrdered, IsText
<1>13. TextCovers'
  <2> SUFFICES ASSUME NEW p \in Prompts, pc[p] = "asking", NEW n \in 1..sent[p]
               PROVE  \/ \E i \in 1..Len(text') : text'[i].of = p /\ text'[i].nth = n
                      \/ \E i \in 1..Len(Line') : IsText(Line'[i], p) /\ Line'[i].nth = n
    BY <1>1 DEF TextCovers, IsText
  <2>1. CASE \E i \in 1..Len(text) : text[i].of = p /\ text[i].nth = n
    BY <1>7, <2>1
  <2>2. CASE \E i \in 1..Len(Line) : IsText(Line[i], p) /\ Line[i].nth = n
    <3>1. PICK i \in 1..Len(Line) : IsText(Line[i], p) /\ Line[i].nth = n
      BY <2>2
    <3>2. CASE i = 1
      <4>1. p = o
        BY <1>3, <3>1, <3>2 DEF IsText
      <4>2. Len(text) + 1 \in 1..Len(text')
        BY <1>7
      <4> QED
        BY <1>7, <3>1, <3>2, <4>1, <4>2
    <3>3. CASE i # 1
      <4>1. i - 1 \in 1..Len(Line') /\ (i - 1) + 1 = i
        BY <1>2, <3>3, LineType DEF Shifts
      <4>2. Line'[i - 1] = Line[i]
        BY <1>6, <4>1
      <4> QED
        BY <3>1, <4>1, <4>2
    <3> QED
      BY <3>2, <3>3
  <2> QED
    BY <1>11, <2>1, <2>2 DEF TextCovers
<1>14. TextLost'
  <2> SUFFICES ASSUME NEW i \in 1..Len(text'), NEW q \in Prompts, current # None, text'[i].of = q, q # current
               PROVE  Lost(q)
    BY <1>1, <1>5 DEF TextLost
  <2>1. CASE i \in 1..Len(text)
    BY <1>7, <1>11, <2>1 DEF TextLost
  <2>2. CASE i = Len(text) + 1
    <3>1. q = o
      BY <1>7, <2>2
    <3>2. pc[q] = "done"
      BY <1>4, <3>1 DEF Begun, TypeInv, PromptTypes
    <3>3. ~Past(q)
      BY <1>2, <1>4, <3>1, LineType DEF Past
    <3> QED
      BY <3>2, <3>3 DEF Lost, StoryInv, PastInv, AnswersPast
  <2> QED
    BY <1>7, <2>1, <2>2
<1> QED
  BY <1>6, <1>8, <1>9, <1>10, <1>12, <1>13, <1>14 DEF StoryInv, TextInv

LEMMA LoopStory ==
  ASSUME TypeInv, StoryInv, LoopStep
  PROVE  StoryInv'
<1>1. CASE CheckContext \/ FetchTransport \/ ReadEnds \/ Emit
  <2>1. UNCHANGED <<promptVars, sender, agentVars, pipe>> /\ loop # "handle" /\ loop' # "handle"
    BY <1>1 DEF CheckContext, FetchTransport, ReadEnds, Emit, LoopEnds, Handled, worldVars
  <2>2. Line' = Line
    BY <2>1 DEF Line
  <2> QED
    BY <2>1, <2>2, SameShifts, SameStory
<1>2. CASE ReadLine
  <2>1. UNCHANGED <<promptVars, sender, agentVars>>
    BY <1>2 DEF ReadLine
  <2> QED
    BY <1>2, <2>1, ReadShifts, SameStory
<1> QED
  BY <1>1, <1>2, HandleResponseStory, HandleCompleteStory, HandleTextStory DEF LoopStep

-----------------------------------------------------------------------------
\* The agent: nothing is sent for a turn that has ended.

LEMMA NthIsNat ==
  /\ \A m \in Posted : m.kind = "text" => m.nth \in Nat
  /\ \A c \in Chunks : c.of \in Prompts /\ c.nth \in Nat
<1>1. \A n \in 1..MaxChunks : n \in Nat
  BY MaxChunksAssumption
<1>2. \A m \in Posted : m.kind = "text" => m.nth \in Nat
  BY <1>1, PostedIs
<1>3. \A c \in Chunks : c.of \in Prompts /\ c.nth \in Nat
  BY <1>1 DEF Chunks
<1> QED
  BY <1>2, <1>3

LEMMA TurnIsBegun ==
  ASSUME TypeInv, StoryInv, NEW p \in Prompts, MyTurn(p)
  PROVE  Begun(p)
<1>1. PICK i \in 1..Len(heard) : heard[i] = p
  BY DEF MyTurn
<1> QED
  BY <1>1 DEF StoryInv, HeardBegun

LEMMA SendStory ==
  ASSUME TypeInv, StoryInv, NEW m \in Posted \cup {Garbage}, AgentSends(m),
         \A p \in Prompts : /\ replied[p] => replied'[p]
                            /\ completed[p] => completed'[p]
                            /\ sent[p] <= sent'[p] /\ sent[p] \in Nat /\ sent'[p] \in Nat
                            /\ Ended(p) => sent'[p] = sent[p] /\ ~IsText(m, p) /\ ~IsEnd(m, p)
                            /\ sent'[p] # sent[p] => IsText(m, p) /\ m.nth = sent'[p]
                                                     /\ sent'[p] = sent[p] + 1
                            /\ IsText(m, p) => sent[p] < m.nth
                            /\ replied'[p] \/ completed'[p] \/ sent'[p] > 0 => Begun(p),
         m.kind # "garbage" =>
           /\ m.of \in Prompts /\ pc'[m.of] \in {"asking", "done"}
           /\ m.kind = "text" => m.nth <= sent'[m.of]
           /\ m.kind = "response" => replied'[m.of]
           /\ m.kind = "complete" => completed'[m.of] /\ setting.style = "notify"
  PROVE  StoryInv'
<1>1. UNCHANGED <<pc, current, text, doneCh, respCh, result, sender, setting, heard>>
  BY DEF AgentSends, promptVars
<1>2. /\ Len(Line') = Len(Line) + 1 /\ Line'[Len(Line) + 1] = m /\ Len(Line) \in Nat
      /\ \A j \in 1..Len(Line) : Line'[j] = Line[j]
  BY SendsAppends, LineType
<1>3. \A p \in Prompts : (Begun(p)' <=> Begun(p)) /\ (Answered(p)' <=> Answered(p)) /\ (Lost(p)' <=> Lost(p))
  BY <1>1 DEF Begun, Answered, Lost
<1>4. \A p \in Prompts : Past(p) => Past(p)'
  <2> SUFFICES ASSUME NEW p \in Prompts, Past(p) PROVE Past(p)'
    OBVIOUS
  <2>1. Ended(p) /\ Ended(p)'
    BY <1>1 DEF Past, Ended
  <2>2. \A j \in 1..Len(Line') : ~IsText(Line'[j], p) /\ ~IsEnd(Line'[j], p)
    BY <1>2, <2>1 DEF Past
  <2> QED
    BY <1>1, <2>1, <2>2 DEF Past, IsText, IsEnd
<1>5. \A j \in 1..Len(Line) : Truthful(Line[j])
  BY DEF StoryInv, LineInv, LineTrue
<1>6. LineTrue'
  <2>1. ASSUME NEW j \in 1..Len(Line'), Line'[j].kind # "garbage"
        PROVE  /\ pc'[Line'[j].of] \in {"asking", "done"}
               /\ Line'[j].kind = "text" => Line'[j].nth <= sent'[Line'[j].of]
               /\ Line'[j].kind = "response" => replied'[Line'[j].of]
               /\ Line'[j].kind = "complete" => completed'[Line'[j].of] /\ setting'.style = "notify"
    <3>1. CASE j \in 1..Len(Line)
      <4>1. Truthful(Line[j]) /\ Line[j].of \in Prompts /\ Line'[j] = Line[j]
            /\ (Line[j].kind = "text" => Line[j].nth \in 1..MaxChunks)
        BY <1>2, <1>5, <2>1, <3>1, LineType
      <4> QED
        BY <1>1, <2>1, <4>1, MaxChunksAssumption DEF Truthful, Begun
    <3>2. CASE j = Len(Line) + 1
      BY <1>1, <1>2, <2>1, <3>2
    <3> QED
      BY <1>2, <3>1, <3>2
  <2> QED
    BY <2>1 DEF LineTrue, Truthful, Begun
<1>7. \A i \in 1..Len(Line), p \in Prompts :
        /\ IsEnd(Line[i], p) => Ended(p)
        /\ IsText(Line[i], p) => Line[i].nth <= sent[p] /\ Line[i].nth \in Nat
  <2> SUFFICES ASSUME NEW i \in 1..Len(Line), NEW p \in Prompts, Line[i].of = p
               PROVE  /\ IsEnd(Line[i], p) => Ended(p)
                      /\ IsText(Line[i], p) => Line[i].nth <= sent[p] /\ Line[i].nth \in Nat
    BY DEF IsEnd, IsText
  <2> QED
    BY <1>5, LineType, MaxChunksAssumption DEF Truthful, IsEnd, IsText, Ended
<1>8. LineOrdered'
  <2> SUFFICES ASSUME NEW i \in 1..Len(Line'), NEW j \in 1..Len(Line'), NEW p \in Prompts, i < j
               PROVE  /\ IsEnd(Line'[i], p) => ~IsText(Line'[j], p) /\ ~IsEnd(Line'[j], p)
                      /\ IsText(Line'[i], p) /\ IsText(Line'[j], p) => Line'[i].nth < Line'[j].nth
    BY <1>1 DEF LineOrdered, IsEnd, IsText
  <2>1. i \in 1..Len(Line) /\ Line'[i] = Line[i]
    BY <1>2
  <2>2. CASE j \in 1..Len(Line)
    BY <1>2, <2>1, <2>2 DEF StoryInv, LineInv, LineOrdered
  <2>3. CASE j = Len(Line) + 1
    <3>1. Line'[j] = m
      BY <1>2, <2>3
    <3>2. IsText(m, p) /\ IsText(Line[i], p) => Line[i].nth < m.nth
      <4> SUFFICES ASSUME IsText(m, p), IsText(Line[i], p) PROVE Line[i].nth < m.nth
        OBVIOUS
      <4>1. Line[i].nth <= sent[p] /\ Line[i].nth \in Nat /\ sent[p] \in Nat /\ sent[p] < m.nth
        BY <1>7, <2>1
      <4>2. m.nth \in Nat
        <5>1. m \in Posted
          BY PostedIs DEF IsText
        <5> QED
          BY <5>1, NthIsNat DEF IsText
      <4> QED
        BY <4>1, <4>2
    <3> QED
      BY <1>7, <2>1, <3>1, <3>2
  <2> QED
    BY <1>2, <2>2, <2>3
<1>9. HeardBegun'
  BY <1>1 DEF StoryInv, HeardBegun, Begun
<1>10. PastInv'
  <2>1. AnswersPast /\ DonePast /\ ReplyPast
    BY DEF StoryInv, PastInv
  <2>2. AnswersPast'
    BY <1>1, <1>3, <1>4, <2>1 DEF AnswersPast
  <2>3. DonePast'
    BY <1>1, <1>3, <1>4, <2>1 DEF DonePast
  <2>4. ReplyPast'
    BY <1>1, <1>4, <2>1 DEF ReplyPast
  <2> QED
    BY <2>2, <2>3, <2>4 DEF PastInv
<1>11. ResultInv'
  <2>1. ResultLost /\ ResultWhole
    BY DEF StoryInv, ResultInv
  <2>2. ResultLost'
    BY <1>1, <1>3, <2>1 DEF ResultLost
  <2>3. \A p \in Prompts : Answered(p) => sent'[p] = sent[p]
    BY DEF StoryInv, PastInv, AnswersPast, Past
  <2>4. ResultWhole'
    BY <1>1, <1>3, <2>1, <2>3 DEF ResultWhole
  <2> QED
    BY <2>2, <2>4 DEF ResultInv
<1>12. TextOrdered /\ TextCovers /\ TextLost
  BY DEF StoryInv, TextInv
<1>13. \A i \in 1..Len(text) : text[i].of \in Prompts /\ text[i].nth \in Nat
  <2>1. text \in Seq(Chunks)
    BY DEF TypeInv, PromptTypes
  <2>2. \A i \in 1..Len(text) : text[i] \in Chunks
    BY <2>1
  <2> QED
    BY <2>2, NthIsNat
<1>14. TextOrdered'
  <2>1. \A i \in 1..Len(text) : text[i].nth <= sent'[text[i].of]
    BY <1>12, <1>13 DEF TextOrdered
  <2>2. ASSUME NEW i \in 1..Len(text), NEW j \in 1..Len(Line'), IsText(Line'[j], text[i].of)
        PROVE  text[i].nth < Line'[j].nth
    <3>1. CASE j \in 1..Len(Line)
      BY <1>2, <1>12, <2>2, <3>1 DEF TextOrdered
    <3>2. CASE j = Len(Line) + 1
      <4>1. IsText(m, text[i].of) /\ Line'[j] = m
        BY <1>2, <2>2, <3>2
      <4>2. sent[text[i].of] < m.nth /\ sent[text[i].of] \in Nat /\ text[i].nth <= sent[text[i].of]
        BY <1>12, <1>13, <4>1 DEF TextOrdered
      <4>3. m.nth \in Nat
        <5>1. m \in Posted
          BY <4>1, PostedIs DEF IsText
        <5> QED
          BY <4>1, <5>1, NthIsNat DEF IsText
      <4> QED
        BY <1>13, <4>1, <4>2, <4>3
    <3> QED
      BY <1>2, <3>1, <3>2
  <2> QED
    BY <1>1, <1>12, <2>1, <2>2 DEF TextOrdered, IsText
<1>15. TextCovers'
  <2> SUFFICES ASSUME NEW p \in Prompts, pc[p] = "asking", NEW n \in 1..sent'[p]
               PROVE  \/ \E i \in 1..Len(text) : text[i].of = p /\ text[i].nth = n
                      \/ \E i \in 1..Len(Line') : IsText(Line'[i], p) /\ Line'[i].nth = n
    BY <1>1 DEF TextCovers, IsText
  <2>1. CASE n \in 1..sent[p]
    <3>1. CASE \E i \in 1..Len(text) : text[i].of = p /\ text[i].nth = n
      BY <3>1
    <3>2. CASE \E i \in 1..Len(Line) : IsText(Line[i], p) /\ Line[i].nth = n
      BY <1>2, <3>2
    <3> QED
      BY <1>12, <2>1, <3>1, <3>2 DEF TextCovers
  <2>2. CASE n \notin 1..sent[p]
    <3>1. IsText(m, p) /\ m.nth = n
      BY <2>2
    <3>2. Len(Line) + 1 \in 1..Len(Line')
      BY <1>2
    <3> QED
      BY <1>2, <3>1, <3>2
  <2> QED
    BY <2>1, <2>2
<1>16. TextLost'
  BY <1>1, <1>3, <1>12 DEF TextLost
<1> QED
  BY <1>6, <1>8, <1>9, <1>10, <1>11, <1>14, <1>15, <1>16 DEF StoryInv, LineInv, TextInv

LEMMA AgentStory ==
  ASSUME TypeInv, StoryInv, AgentStep
  PROVE  StoryInv'
<1>0. /\ sent \in [Prompts -> 0..MaxChunks] /\ replied \in [Prompts -> BOOLEAN]
      /\ completed \in [Prompts -> BOOLEAN] /\ MaxChunks \in Nat
      /\ \A p \in Prompts : sent[p] \in Nat /\ (replied[p] \/ completed[p] \/ sent[p] > 0 => Begun(p))
  BY MaxChunksAssumption DEF TypeInv, WorldTypes, StoryInv, HeardBegun
<1>1. ASSUME NEW p \in Prompts, AgentWrites(p)
      PROVE  StoryInv'
  <2>1. sent[p] + 1 \in 1..MaxChunks
    BY <1>1, SentIs DEF TypeInv
  <2>2. Text([of |-> p, nth |-> sent[p] + 1]) \in Posted
    BY <2>1 DEF Posted, Chunks
  <2>3. PICK m \in Posted : m = Text([of |-> p, nth |-> sent[p] + 1])
    BY <2>2
  <2>4. m.kind = "text" /\ m.of = p /\ m.nth = sent[p] + 1
    BY <2>3 DEF Text
  <2>5. AgentSends(m) /\ ~Ended(p) /\ UNCHANGED <<replied, completed>> /\ Begun(p)
    BY <1>1, <2>3, TurnIsBegun DEF AgentWrites
  <2>6. sent'[p] = sent[p] + 1 /\ \A q \in Prompts : q # p => sent'[q] = sent[q]
    BY <1>0, <1>1 DEF AgentWrites
  <2>7. \A q \in Prompts : (IsText(m, q) <=> q = p) /\ ~IsEnd(m, q)
    BY <2>4 DEF IsText, IsEnd
  <2>8. pc'[p] \in {"asking", "done"}
    BY <2>5 DEF AgentSends, promptVars, Begun
  <2>9. \A q \in Prompts : sent[q] <= sent'[q] /\ sent'[q] \in Nat
    BY <1>0, <2>6
  <2> QED
    BY <1>0, <2>4, <2>5, <2>6, <2>7, <2>8, <2>9, SendStory
<1>2. ASSUME NEW p \in Prompts, AgentReplies(p)
      PROVE  StoryInv'
  <2>1. Response(p) \in Posted
    BY DEF Posted
  <2>2. PICK m \in Posted : m = Response(p)
    BY <2>1
  <2>3. m.kind = "response" /\ m.of = p
    BY <2>2 DEF Response
  <2>4. AgentSends(m) /\ ~replied[p] /\ UNCHANGED <<sent, completed>> /\ Begun(p)
    BY <1>2, <2>2, TurnIsBegun DEF AgentReplies
  <2>5. replied'[p] /\ \A q \in Prompts : q # p => replied'[q] = replied[q]
    BY <1>0, <1>2 DEF AgentReplies
  <2>6. \A q \in Prompts : ~IsText(m, q) /\ (IsEnd(m, q) => q = p /\ ~Ended(q))
    BY <2>3, <2>4 DEF IsText, IsEnd, Ended
  <2>7. pc'[p] \in {"asking", "done"}
    BY <2>4 DEF AgentSends, promptVars, Begun
  <2> QED
    BY <1>0, <2>3, <2>4, <2>5, <2>6, <2>7, SendStory
<1>3. ASSUME NEW p \in Prompts, AgentCompletes(p)
      PROVE  StoryInv'
  <2>1. Complete(p) \in Posted
    BY DEF Posted
  <2>2. PICK m \in Posted : m = Complete(p)
    BY <2>1
  <2>3. m.kind = "complete" /\ m.of = p
    BY <2>2 DEF Complete
  <2>4. AgentSends(m) /\ ~completed[p] /\ setting.style = "notify" /\ UNCHANGED <<sent, replied>> /\ Begun(p)
    BY <1>3, <2>2, TurnIsBegun DEF AgentCompletes
  <2>5. completed'[p] /\ \A q \in Prompts : q # p => completed'[q] = completed[q]
    BY <1>0, <1>3 DEF AgentCompletes
  <2>6. \A q \in Prompts : ~IsText(m, q) /\ (IsEnd(m, q) => q = p /\ ~Ended(q))
    BY <2>3, <2>4 DEF IsText, IsEnd, Ended
  <2>7. pc'[p] \in {"asking", "done"}
    BY <2>4 DEF AgentSends, promptVars, Begun
  <2> QED
    BY <1>0, <2>3, <2>4, <2>5, <2>6, <2>7, SendStory
<1>4. CASE AgentGarbles
  <2>1. PICK m \in Posted \cup {Garbage} : m = Garbage
    OBVIOUS
  <2>2. AgentSends(m) /\ UNCHANGED <<sent, replied, completed>>
    BY <1>4, <2>1 DEF AgentGarbles
  <2>3. m.kind = "garbage"
    BY <2>1, PostedIs
  <2>4. \A q \in Prompts : ~IsText(m, q) /\ ~IsEnd(m, q)
    BY <2>3 DEF IsText, IsEnd
  <2> QED
    BY <1>0, <2>2, <2>3, <2>4, SendStory
<1>5. CASE AgentExits
  <2>1. UNCHANGED <<promptVars, sender, agentVars>> /\ Line' = Line
    BY <1>5 DEF AgentExits, loopVars, Line
  <2> QED
    BY <2>1, SameShifts, SameStory
<1> QED
  BY <1>1, <1>2, <1>3, <1>4, <1>5 DEF AgentStep

-----------------------------------------------------------------------------
\* The theorems.

LEMMA InitStory == Init => StoryInv
<1> SUFFICES ASSUME Init PROVE StoryInv
  OBVIOUS
<1>1. Line = <<>> \o <<>> /\ heard = <<>> /\ text = <<>>
  BY DEF Init, Line
<1>2. Len(Line) = 0 /\ Len(heard) = 0 /\ Len(text) = 0
  BY <1>1
<1>3. \A p \in Prompts : /\ pc[p] = "idle" /\ sender[p] = "off" /\ respCh[p] = <<>> /\ doneCh[p] = <<>>
                         /\ ~replied[p] /\ ~completed[p] /\ sent[p] = 0 /\ result[p] = NoResult
  BY DEF Init
<1>0. NoResult.kind = "none" /\ NoResult.by = None /\ Len(NoResult.text) = 0
  BY DEF NoResult
<1>4. \A p \in Prompts : ~Answered(p)
  BY <1>0, <1>3 DEF Answered
<1>5. LineInv /\ HeardBegun
  BY <1>2, <1>3 DEF LineInv, LineTrue, LineOrdered, HeardBegun
<1>6. TextInv
  BY <1>2, <1>3 DEF TextInv, TextOrdered, TextCovers, TextLost
<1>7. PastInv
  BY <1>3, <1>4 DEF PastInv, AnswersPast, DonePast, ReplyPast
<1>8. ResultInv
  <2>1. \A p \in Prompts : result[p].by = None /\ Len(result[p].text) = 0
    BY <1>0, <1>3
  <2> QED
    BY <1>4, <2>1, PromptsAssumption DEF ResultInv, ResultLost, ResultWhole
<1> QED
  BY <1>5, <1>6, <1>7, <1>8 DEF StoryInv

LEMMA NextStory == TypeInv /\ StoryInv /\ [Next]_vars => StoryInv'
<1> SUFFICES ASSUME TypeInv, StoryInv, [Next]_vars PROVE StoryInv'
  OBVIOUS
<1>1. CASE \E p \in Prompts : PromptStep(p)
  BY <1>1, EnterStory, ResetStory, TakeDoneStory, TakeReplyStory, GiveUpStory DEF PromptStep
<1>2. CASE \E p \in Prompts : SenderStep(p)
  <2>1. PICK p \in Prompts : SenderStep(p)
    BY <1>2
  <2>2. CASE SendPanics(p)
    <3>1. UNCHANGED <<promptVars, sender, agentVars>> /\ Line' = Line
      BY <2>2 DEF SendPanics, loopVars, worldVars, Line
    <3> QED
      BY <3>1, SameShifts, SameStory
  <2> QED
    BY <2>1, <2>2, SendPromptStory, SenderReturnsStory DEF SenderStep
<1>3. CASE LoopStep
  BY <1>3, LoopStory
<1>4. CASE Shutdown
  <2>1. UNCHANGED <<promptVars, sender, agentVars, loop, hand, pipe>>
    BY <1>4 DEF Shutdown, CloseWriter, CancelRead, KillAndWait, ClearFields, ShutStep,
       loopVars, worldVars
  <2>2. Line' = Line
    BY <2>1 DEF Line
  <2> QED
    BY <2>1, <2>2, SameShifts, SameStory
<1>5. CASE AgentStep
  BY <1>5, AgentStory
<1>6. CASE UNCHANGED vars
  <2>1. UNCHANGED <<promptVars, sender, agentVars>> /\ Line' = Line
    BY <1>6 DEF vars, loopVars, worldVars, Line
  <2> QED
    BY <2>1, SameShifts, SameStory
<1> QED
  BY <1>1, <1>2, <1>3, <1>4, <1>5, <1>6 DEF Next

LEMMA StoryCorrect == Spec => [](TypeInv /\ StoryInv)
<1>1. TypeInv /\ StoryInv /\ [Next]_vars => TypeInv' /\ StoryInv'
  BY NextTypes, NextStory
<1> QED
  BY InitTypes, InitStory, <1>1, PTL DEF Spec

\* A prompt that returns with its own ending returns all its text, whichever of the
\* channels of its select was ready first (promptInternal, client.go:958).
THEOREM AnswersWhole == Spec => []AnswerIsWhole
<1>1. TypeInv /\ StoryInv => AnswerIsWhole
  <2> SUFFICES ASSUME TypeInv, StoryInv, NEW p \in Prompts, Answered(p)
               PROVE  LET s == result[p].text
                      IN  /\ {s[i].nth : i \in Own(p, s)} = 1..sent[p]
                          /\ \A i, j \in Own(p, s) : i < j => s[i].nth < s[j].nth
    BY DEF AnswerIsWhole
  <2> DEFINE s == result[p].text
  <2>1. Whole(p, s, sent[p])
    BY DEF StoryInv, ResultInv, ResultWhole
  <2>2. s \in Seq(Chunks) /\ sent[p] \in Nat
    BY MaxChunksAssumption DEF TypeInv, PromptTypes, WorldTypes, Results
  <2> HIDE DEF s, Chunks
  <2>3. DOMAIN s = 1..Len(s)
    BY <2>2
  <2>4. \A i \in Own(p, s) : i \in 1..Len(s) /\ s[i].of = p
    BY <2>3 DEF Own
  <2>5. \A i \in 1..Len(s) : s[i].of = p => i \in Own(p, s)
    BY <2>3 DEF Own
  <2>6. \A i \in Own(p, s) : s[i].nth \in 1..sent[p]
    <3>1. \A i \in 1..Len(s) : s[i] \in Chunks
      BY <2>2
    <3>2. \A c \in Chunks : c.nth \in Nat /\ c.nth >= 1
      BY MaxChunksAssumption DEF Chunks
    <3> QED
      BY <2>1, <2>2, <2>4, <3>1, <3>2 DEF Whole
  <2>7. \A k \in 1..sent[p] : \E i \in Own(p, s) : s[i].nth = k
    BY <2>1, <2>5 DEF Whole
  <2>8. {s[i].nth : i \in Own(p, s)} = 1..sent[p]
    BY <2>6, <2>7
  <2>9. \A i, j \in Own(p, s) : i < j => s[i].nth < s[j].nth
    BY <2>1, <2>4 DEF Whole
  <2> QED
    BY <2>8, <2>9 DEF s
<1> QED
  BY StoryCorrect, <1>1, PTL

\* Only of a prompt that never got its own ending can another one take the ending or the
\* text (handlePromptComplete, client.go:1954).
THEOREM ForeignIsAbandoned == Spec => []ForeignMeansAbandoned
<1>1. TypeInv /\ StoryInv => ForeignMeansAbandoned
  <2> SUFFICES ASSUME TypeInv, StoryInv, NEW p \in Prompts, NEW q \in Prompts, p # q,
                      result[p].by = q \/ Own(q, result[p].text) # {}
               PROVE  ~Answered(q)
    BY DEF ForeignMeansAbandoned
  <2>1. \A i \in Own(q, result[p].text) : i \in 1..Len(result[p].text) /\ result[p].text[i].of = q
    <3>1. result[p].text \in Seq(Chunks)
      BY DEF TypeInv, PromptTypes, Results
    <3> HIDE DEF Chunks
    <3>2. DOMAIN result[p].text = 1..Len(result[p].text)
      BY <3>1
    <3> QED
      BY <3>2 DEF Own
  <2> QED
    BY <2>1 DEF StoryInv, ResultInv, ResultLost, Lost
<1> QED
  BY StoryCorrect, <1>1, PTL
=============================================================================
