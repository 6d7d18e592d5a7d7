-------------------------- MODULE OwnerQueue_proofs ---------------------------
(***************************************************************************)
(* Proofs about OwnerQueue, for every set of requests and cancel calls,    *)
(* every assignment of kinds and every number of restarts and failures.    *)
(*                                                                         *)
(* The inductive invariant has these parts beside the types.  Shape says   *)
(* which variables mean something where the owner is.  CancelTrail follows *)
(* a cancel from the file it marks to the status: what it leaves belongs   *)
(* to a request in asked.  AimTrail follows it from the look it takes at   *)
(* the session record: what it leaves belongs to a request it was meant    *)
(* for or strayed to, and until the record is led astray it names what the *)
(* owner runs and nothing strays.  FileTrail says, of the requests outside *)
(* asked, what their files say while the owner is where it is.             *)
(* With Present, that a request which is at work is in its file, each step *)
(* is one of RequestLife or leaves what RequestLife speaks of alone.       *)
(***************************************************************************)
EXTENDS OwnerQueue, TLAPS

\* The owner has a request in hand.
Busy == {"picked", "claimed", "marked", "turn", "settle", "ended", "saved"}

\* The types, without those of the session record and the aims.
CoreOK ==
  /\ req \in [Req -> File]
  /\ cl \in [Req -> {"idle", "enqueued", "waiting", "completed", "failed", "cancelled"}]
  /\ own \in {"down", "spawned", "requeue", "unmark", "leave"} \cup InLoop
  /\ orphans \in SUBSET Req
  /\ mem \in [id : Req \cup {None}, cancel : BOOLEAN]
  /\ outcome \in {"absent", "completed", "failed", "cancelled"}
  /\ turn \in {"none", "preparing", "prompting", "answered", "returned"}
  /\ answer \in {"none", "end", "error", "cancelled"}
  /\ sig \in BOOLEAN /\ told \in BOOLEAN /\ poller \in BOOLEAN /\ closeReq \in BOOLEAN
  /\ can \in [Canceller -> Call]
  /\ starts \in 0 .. MaxStarts /\ failures \in 0 .. MaxFailures
  /\ ran \in [Req -> Nat] /\ asked \in SUBSET Req

RecordOK ==
  /\ aimed \in SUBSET Req /\ strays \in SUBSET Req /\ astray \in BOOLEAN
  /\ active \in Req \cup {None} /\ tcopy \in Req \cup {None}
  /\ named \in SUBSET (Req \cup {None}) /\ exiting \in Nat

Shape ==
  /\ own \in Busy => mem.id \in Req
  /\ own \notin Busy \cup {"leave"} => mem.id = None
  /\ own = "spawned" => starts < MaxStarts
  /\ own \notin {"turn", "settle"} =>
       turn = "none" /\ answer = "none" /\ ~sig /\ ~told /\ ~poller
  /\ own = "turn" => turn # "none"
  /\ own = "settle" => turn = "returned"
  /\ answer # "none" <=> turn \in {"answered", "returned"}
  /\ own # "requeue" => orphans = {}
  /\ own = "ended" => outcome # "absent"
  /\ own \notin {"ended", "saved"} => outcome = "absent"
  /\ \A x \in Canceller :
       /\ can[x].pc \in {"ask", "load", "save", "signal"} => can[x].target \in Req
       /\ can[x].via = "socket" => can[x].pc \in {"ask", "load", "save", "signal"}

CancelTrail ==
  /\ \A r \in Req : req[r].cancel \/ req[r].status = "cancelled" => r \in asked
  /\ mem.cancel => mem.id \in asked
  /\ answer = "cancelled" => mem.id \in asked
  /\ outcome = "cancelled" => mem.id \in asked
  /\ \A x \in Canceller : can[x].pc \in {"save", "signal"} => can[x].target \in asked

\* The requests a cancel or a close was meant for or strayed to.
Hit == aimed \cup strays

\* While nothing led it astray the record names what the owner runs.
RecordTrue ==
  /\ strays = {}
  /\ own \in Marked => active = mem.id
  /\ own \notin Marked \cup {"leave"} => active = None
  /\ own = "leave" => active \in {None, mem.id}

AimTrail ==
  /\ \A r \in Req : req[r].cancel \/ req[r].status = "cancelled" => r \in Hit
  /\ mem.cancel => mem.id \in Hit
  /\ own = "turn" /\ (sig \/ told) => mem.id \in Hit
  /\ answer = "cancelled" => mem.id \in Hit
  /\ outcome = "cancelled" => mem.id \in Hit
  /\ \A x \in Canceller : can[x].pc \in {"ask", "load", "save", "signal"} => can[x].target \in Hit
  /\ \A x \in Canceller : can[x].turn # None => can[x].turn \in Hit
  /\ ~astray => RecordTrue

FileTrail ==
  \A r \in Req \ asked :
    /\ cl[r] = "idle" => req[r].status = "absent"
    /\ own \in {"requeue", "unmark"} => (req[r].status = "running" <=> r \in orphans)
    /\ own = "picked" /\ mem.id = r => req[r].status = "queued"
    /\ own \in InLoop =>
         (req[r].status = "running" <=> own \in Working /\ mem.id = r)

RanTrail ==
  \A r \in Req \ asked :
    /\ ran[r] <= 1
    /\ own \in {"requeue", "unmark"} => ran[r] = 0
    /\ own \in InLoop /\ req[r].status \in {"absent", "queued"} => ran[r] = 0
    /\ own \in {"claimed", "marked"} /\ mem.id = r => ran[r] = 0

IInv == TypeOK /\ Shape /\ CancelTrail /\ AimTrail /\ FileTrail /\ RanTrail

LEMMA TypeParts == TypeOK <=> CoreOK /\ RecordOK
BY DEF TypeOK, CoreOK, RecordOK

\* The calls of cancellers and closers: one that has ended, one that has just aimed, and
\* what the owner's end makes of them.
LEMMA DoneCall ==
  Done \in Call /\ Done.pc = "done" /\ Done.via = "file" /\ Done.target = None /\ Done.turn = None
BY DEF Done, NoCall, NoFile, Call, File, Status

LEMMA AimedCall ==
  ASSUME CoreOK, NEW x \in Canceller, NEW r \in Req, CommandAims(x, r)
  PROVE  \E y \in Call : /\ can' = [can EXCEPT ![x] = y] /\ y.target = r /\ y.turn = None
                         /\ \/ y.pc = "load" /\ y.via = "file"
                            \/ y.pc = "ask" /\ y.via = "socket"
<1> DEFINE y1 == [NoCall EXCEPT !.pc = "load", !.target = r]
           y2 == [NoCall EXCEPT !.via = "socket", !.pc = "ask", !.target = r]
<1>1. y1 \in Call /\ y1.target = r /\ y1.turn = None /\ y1.pc = "load" /\ y1.via = "file"
  BY DEF NoCall, NoFile, Call, File, Status
<1>2. y2 \in Call /\ y2.target = r /\ y2.turn = None /\ y2.pc = "ask" /\ y2.via = "socket"
  BY DEF NoCall, NoFile, Call, File, Status
<1>3. can' = [can EXCEPT ![x] = y1] \/ can' = [can EXCEPT ![x] = y2]
  BY DEF CommandAims
<1> HIDE DEF y1, y2
<1> QED
  BY <1>1, <1>2, <1>3

LEMMA EndedCalls ==
  ASSUME CoreOK, HandlersEnd
  PROVE  /\ can' \in [Canceller -> Call]
         /\ \A x \in Canceller :
              \/ can'[x] = can[x] /\ can[x].via # "socket"
              \/ can'[x] = Done
              \/ /\ can[x].via = "socket" /\ can'[x].via = "file" /\ can'[x].pc = "load"
                 /\ can'[x].target = can[x].target /\ can'[x].turn = can[x].turn
<1> SUFFICES ASSUME NEW x \in Canceller
             PROVE  /\ can'[x] \in Call
                    /\ \/ can'[x] = can[x] /\ can[x].via # "socket"
                       \/ can'[x] = Done
                       \/ /\ can[x].via = "socket" /\ can'[x].via = "file" /\ can'[x].pc = "load"
                          /\ can'[x].target = can[x].target /\ can'[x].turn = can[x].turn
  BY DEF HandlersEnd
<1>1. can[x] \in Call /\ NoFile \in File
  BY DEF CoreOK, NoFile, File, Status
<1> DEFINE y == [can[x] EXCEPT !.via = "file", !.pc = "load", !.seen = NoFile]
<1>2. y \in Call /\ y.via = "file" /\ y.pc = "load" /\ y.target = can[x].target /\ y.turn = can[x].turn
  BY <1>1 DEF Call
<1>3. can'[x] = CASE can[x].via = "socket" -> y [] can[x].via = "close" -> Done [] OTHER -> can[x]
  BY DEF HandlersEnd
<1> HIDE DEF y
<1>4. CASE can[x].via = "socket"
  BY <1>2, <1>3, <1>4
<1>5. CASE can[x].via = "close"
  BY <1>3, <1>5, DoneCall
<1>6. CASE can[x].via \notin {"socket", "close"}
  BY <1>1, <1>3, <1>6
<1> QED
  BY <1>4, <1>5, <1>6

\* No action leads out of the types.
LEMMA TypeStep ==
  ASSUME CoreOK, RecordOK, Shape, [Next]_vars
  PROVE  CoreOK'
<1>1. ASSUME NEW r \in Req, Enqueue(r)
      PROVE  CoreOK'
  BY <1>1 DEF Enqueue, Save, turnVars, CoreOK, InLoop, Call, File, Status, NoFile
<1>2. ASSUME NEW r \in Req, EnsureOwner(r)
      PROVE  CoreOK'
  BY <1>2 DEF EnsureOwner, turnVars, CoreOK, InLoop
<1>3. ASSUME NEW r \in Req, WaitReturns(r)
      PROVE  CoreOK'
  BY ReqAssumption, BoundAssumption, <1>3 DEF WaitReturns, Terminal, turnVars,
      CoreOK, InLoop, Shape, Busy, Call, File, Status, NoFile
<1>4. ASSUME Acquire
      PROVE  CoreOK'
  BY ReqAssumption, BoundAssumption, <1>4 DEF Acquire, Running, turnVars, CoreOK,
      InLoop, Shape, Busy, Call, File, Status, NoFile
<1>5. ASSUME NEW r \in Req, RequeueOne(r)
      PROVE  CoreOK'
  BY <1>5 DEF RequeueOne, Save, turnVars, CoreOK, InLoop, Call, File, Status,
      NoFile
<1>6. ASSUME EnterLoop
      PROVE  CoreOK'
  BY <1>6 DEF EnterLoop, turnVars, CoreOK, InLoop
<1>7. ASSUME NEW r \in Req, NextPending(r)
      PROVE  CoreOK'
  BY <1>7 DEF NextPending, Queued, turnVars, CoreOK, InLoop, Call, File, Status,
      NoFile
<1>8. ASSUME IdleExit
      PROVE  CoreOK'
  BY <1>8 DEF IdleExit, Queued, turnVars, CoreOK, InLoop
<1>9. ASSUME Claim
      PROVE  CoreOK'
  BY ReqAssumption, BoundAssumption, <1>9 DEF Claim, Target, Save, turnVars,
      CoreOK, InLoop, Shape, Busy, Call, File, Status, NoFile
<1>10. ASSUME NEW s \in {"completed", "failed"}, RunControl(s)
      PROVE  CoreOK'
  <2>1. mem.id \in Req
    BY <1>10 DEF RunControl, Shape, Busy
  <2>2. ran' \in [Req -> Nat]
    BY <1>10, <2>1 DEF RunControl, Target, CoreOK
  <2>q. QED
    BY <1>10, <2>1, <2>2 DEF RunControl, turnVars, CoreOK, InLoop
<1>11. ASSUME StartTurn
      PROVE  CoreOK'
  <2>1. mem.id \in Req
    BY <1>11 DEF StartTurn, Shape, Busy
  <2>2. ran' \in [Req -> Nat]
    BY <1>11, <2>1 DEF StartTurn, Target, CoreOK
  <2>q. QED
    BY <1>11, <2>1, <2>2 DEF StartTurn, turnVars, CoreOK, InLoop
<1>12. ASSUME SettleTurn
      PROVE  CoreOK'
  BY <1>12 DEF SettleTurn, turnVars, CoreOK, InLoop
<1>13. ASSUME JudgeTurn
      PROVE  CoreOK'
  BY <1>13 DEF JudgeTurn, turnVars, CoreOK, InLoop
<1>14. ASSUME SaveOutcome
      PROVE  CoreOK'
  BY ReqAssumption, BoundAssumption, <1>14 DEF SaveOutcome, Target, Save, turnVars,
      CoreOK, InLoop, Shape, Busy, Call, File, Status, NoFile
<1>15. ASSUME NextRound
      PROVE  CoreOK'
  BY <1>15 DEF NextRound, Target, turnVars, CoreOK, InLoop
<1>16. ASSUME CloseExit
      PROVE  CoreOK'
  BY <1>16 DEF CloseExit, turnVars, CoreOK, InLoop
<1>17. ASSUME Leave
      PROVE  CoreOK'
  <2>1. /\ req' = req /\ cl' = cl /\ own' = "down" /\ orphans' = {} /\ outcome' = "absent"
        /\ mem' = [id |-> None, cancel |-> FALSE] /\ turn' = "none" /\ answer' = "none"
        /\ sig' = FALSE /\ told' = FALSE /\ poller' = FALSE /\ closeReq' = FALSE
        /\ starts' = starts /\ ran' = ran /\ asked' = asked
    BY <1>17 DEF Leave, OwnerEnds
  <2>2. failures' \in 0 .. MaxFailures
    BY <1>17, BoundAssumption DEF Leave, OwnerEnds, CoreOK
  <2>3. can' \in [Canceller -> Call]
    BY <1>17, EndedCalls DEF Leave, OwnerEnds
  <2>q. QED
    BY <2>1, <2>2, <2>3 DEF CoreOK, InLoop
<1>18. ASSUME Crash
      PROVE  CoreOK'
  <2>1. /\ req' = req /\ cl' = cl /\ own' = "down" /\ orphans' = {} /\ outcome' = "absent"
        /\ mem' = [id |-> None, cancel |-> FALSE] /\ turn' = "none" /\ answer' = "none"
        /\ sig' = FALSE /\ told' = FALSE /\ poller' = FALSE /\ closeReq' = FALSE
        /\ starts' = starts /\ ran' = ran /\ asked' = asked
    BY <1>18 DEF Crash, OwnerEnds
  <2>2. failures' \in 0 .. MaxFailures
    BY <1>18, BoundAssumption DEF Crash, OwnerEnds, CoreOK
  <2>3. can' \in [Canceller -> Call]
    BY <1>18, EndedCalls DEF Crash, OwnerEnds
  <2>q. QED
    BY <2>1, <2>2, <2>3 DEF CoreOK, InLoop
<1>19. ASSUME ErrorExit
      PROVE  CoreOK'
  BY BoundAssumption, <1>19 DEF ErrorExit, turnVars, CoreOK, InLoop, Call, File,
      Status, NoFile
<1>20. ASSUME TurnFails
      PROVE  CoreOK'
  BY <1>20 DEF TurnFails, turnVars, CoreOK, InLoop
<1>21. ASSUME SendPrompt
      PROVE  CoreOK'
  BY <1>21 DEF SendPrompt, turnVars, CoreOK, InLoop
<1>22. ASSUME NEW a \in {"end", "error", "cancelled"}, AgentAnswers(a)
      PROVE  CoreOK'
  <2>1. mem.id \in Req
    BY <1>22 DEF AgentAnswers, Shape, Busy
  <2>q. QED
    BY <1>22, <2>1 DEF AgentAnswers, Target, turnVars, CoreOK, InLoop
<1>23. ASSUME ForwardCancel
      PROVE  CoreOK'
  BY <1>23 DEF ForwardCancel, ActiveTurn, turnVars, CoreOK, InLoop
<1>24. ASSUME TurnReturns
      PROVE  CoreOK'
  BY <1>24 DEF TurnReturns, turnVars, CoreOK, InLoop
<1>25. ASSUME Poll
      PROVE  CoreOK'
  BY <1>25 DEF Poll, Target, turnVars, CoreOK, InLoop, Shape, Busy
<1>26. ASSUME NEW x \in Canceller, NEW r \in Req, CommandAims(x, r)
      PROVE  CoreOK'
  <2>1. can' \in [Canceller -> Call]
    BY <1>26, AimedCall DEF CoreOK
  <2>q. QED
    BY <1>26, <2>1 DEF CommandAims, turnVars, CoreOK
<1>27. ASSUME NEW x \in Canceller, CancelPrompt(x)
      PROVE  CoreOK'
  <2>1. [can[x] EXCEPT !.pc = "load"] \in Call
    BY DEF CoreOK, Call
  <2>2. can' \in [Canceller -> Call]
    BY <1>27, <2>1, DoneCall DEF CancelPrompt, CoreOK
  <2>q. QED
    BY <1>27, <2>2 DEF CancelPrompt, turnVars, CoreOK
<1>28. ASSUME NEW x \in Canceller, CloseActive(x)
      PROVE  CoreOK'
  BY <1>28 DEF CloseActive, ActiveTurn, Healthy, turnVars, CoreOK, InLoop, Call,
      File, Status, NoFile
<1>29. ASSUME NEW x \in Canceller, CloseAims(x)
      PROVE  CoreOK'
  <2>0. can[x] \in Call /\ active \in Req \cup {None}
    BY DEF RecordOK, CoreOK
  <2>1. /\ [can[x] EXCEPT !.pc = "mark"] \in Call
        /\ [can[x] EXCEPT !.pc = "load", !.target = active] \in Call
    BY <2>0 DEF Call
  <2>2. can' \in [Canceller -> Call]
    BY <1>29, <2>1 DEF CloseAims, CoreOK
  <2>q. QED
    BY <1>29, <2>2 DEF CloseAims, turnVars, CoreOK
<1>30. ASSUME NEW x \in Canceller, CloseIdle(x)
      PROVE  CoreOK'
  <2>1. can' \in [Canceller -> Call]
    BY <1>30, DoneCall DEF CloseIdle, CoreOK
  <2>q. QED
    BY <1>30, <2>1 DEF CloseIdle, turnVars, CoreOK
<1>31. ASSUME NEW x \in Canceller, CancelLoads(x)
      PROVE  CoreOK'
  <2>1. can[x].target \in Req /\ req[can[x].target] \in File
    BY <1>31 DEF CancelLoads, Shape, CoreOK
  <2>2. can[x] \in Call /\ [can[x] EXCEPT !.pc = "save", !.seen = req[can[x].target]] \in Call
    BY <1>31, <2>1 DEF CoreOK, Call
  <2>3. can' = [can EXCEPT ![x] = [can[x] EXCEPT !.pc = "save", !.seen = req[can[x].target]]]
    BY <1>31 DEF CancelLoads, CoreOK
  <2>4. can' \in [Canceller -> Call]
    BY <2>2, <2>3 DEF CoreOK
  <2>q. QED
    BY <1>31, <2>1, <2>2, <2>3, <2>4 DEF CancelLoads, turnVars, CoreOK
<1>32. ASSUME NEW x \in Canceller, CancelSaves(x)
      PROVE  CoreOK'
  <2>1. NoFile \in File /\ can[x] \in Call
    BY DEF CoreOK, NoFile, File, Status
  <2>2. can[x].target \in Req /\ can[x].seen.status \in Status
    BY <1>32, <2>1 DEF CancelSaves, Shape, Call, File
  <2>3. [can[x] EXCEPT !.pc = "signal", !.seen = NoFile] \in Call
    BY <2>1 DEF Call
  <2>4. can' \in [Canceller -> Call]
    BY <1>32, <2>3, DoneCall DEF CancelSaves, CoreOK
  <2>5. req' \in [Req -> File]
    BY <1>32, <2>2 DEF CancelSaves, Save, CoreOK, File
  <2>q. QED
    BY <1>32, <2>4, <2>5 DEF CancelSaves, turnVars, CoreOK
<1>33. ASSUME NEW x \in Canceller, CancelSignals(x)
      PROVE  CoreOK'
  <2>0. can[x] \in Call
    BY DEF CoreOK
  <2>1. [can[x] EXCEPT !.pc = "mark", !.target = None] \in Call
    BY <2>0 DEF Call
  <2>2. can' \in [Canceller -> Call]
    BY <1>33, <2>1, DoneCall DEF CancelSignals, CoreOK
  <2>3. sig' \in BOOLEAN
    BY <1>33 DEF CancelSignals, CancelerFor, CoreOK
  <2>q. QED
    BY <1>33, <2>2, <2>3 DEF CancelSignals, turnVars, CoreOK
<1>34. ASSUME NEW x \in Canceller, CloseMarks(x)
      PROVE  CoreOK'
  <2>1. can' \in [Canceller -> Call]
    BY <1>34, DoneCall DEF CloseMarks, CoreOK
  <2>2. closeReq' \in BOOLEAN
    BY <1>34 DEF CloseMarks, CoreOK
  <2>q. QED
    BY <1>34, <2>1, <2>2 DEF CloseMarks, turnVars, CoreOK
<1>35. ASSUME UNCHANGED vars
      PROVE  CoreOK'
  BY <1>35 DEF vars, turnVars, CoreOK, InLoop
<1>36. ASSUME Unmark
      PROVE  CoreOK'
  BY <1>36 DEF Unmark, turnVars, CoreOK, InLoop, Call, File, Status, NoFile
<1>37. ASSUME Mark
      PROVE  CoreOK'
  BY <1>37 DEF Mark, Target, turnVars, CoreOK, InLoop, Call, File, Status, NoFile
<1>38. ASSUME Exited
      PROVE  CoreOK'
  BY <1>38 DEF Exited, turnVars, CoreOK, InLoop, Call, File, Status, NoFile
<1>39. ASSUME NEW t \in named, OldCopySaved(t)
      PROVE  CoreOK'
  BY <1>39 DEF OldCopySaved, turnVars, CoreOK, InLoop, Call, File, Status, NoFile
<1>q. QED
  BY <1>1, <1>2, <1>3, <1>4, <1>5, <1>6, <1>7, <1>8, <1>9, <1>10, <1>11, <1>12,
      <1>13, <1>14, <1>15, <1>16, <1>17, <1>18, <1>19, <1>20, <1>21, <1>22, <1>23,
      <1>24, <1>25, <1>26, <1>27, <1>28, <1>29, <1>30, <1>31, <1>32, <1>33, <1>34,
      <1>35, <1>36, <1>37, <1>38, <1>39 DEF Next, Command, Cancel, Canceling, Loop, Turn

\* Shape is inductive: what a variable means depends on where the owner is.
LEMMA ShapeStep ==
  ASSUME CoreOK, RecordOK, Shape, [Next]_vars
  PROVE  Shape'
<1>1. ASSUME NEW r \in Req, Enqueue(r)
      PROVE  Shape'
  BY <1>1 DEF Enqueue, Save, turnVars, Shape, Busy
<1>2. ASSUME NEW r \in Req, EnsureOwner(r)
      PROVE  Shape'
  BY <1>2 DEF EnsureOwner, turnVars, Shape, Busy
<1>3. ASSUME NEW r \in Req, WaitReturns(r)
      PROVE  Shape'
  BY <1>3 DEF WaitReturns, Terminal, turnVars, Shape, Busy
<1>4. ASSUME Acquire
      PROVE  Shape'
  BY <1>4 DEF Acquire, Running, turnVars, Shape, Busy
<1>5. ASSUME NEW r \in Req, RequeueOne(r)
      PROVE  Shape'
  BY <1>5 DEF RequeueOne, Save, turnVars, Shape, Busy
<1>6. ASSUME EnterLoop
      PROVE  Shape'
  BY <1>6 DEF EnterLoop, turnVars, Shape, Busy
<1>7. ASSUME NEW r \in Req, NextPending(r)
      PROVE  Shape'
  BY <1>7 DEF NextPending, Queued, turnVars, Shape, Busy
<1>8. ASSUME IdleExit
      PROVE  Shape'
  BY <1>8 DEF IdleExit, Queued, turnVars, Shape, Busy
<1>9. ASSUME Claim
      PROVE  Shape'
  BY <1>9 DEF Claim, Target, Save, turnVars, Shape, Busy
<1>10. ASSUME NEW s \in {"completed", "failed"}, RunControl(s)
      PROVE  Shape'
  BY <1>10 DEF RunControl, Target, turnVars, Shape, Busy
<1>11. ASSUME StartTurn
      PROVE  Shape'
  BY <1>11 DEF StartTurn, Target, turnVars, Shape, Busy
<1>12. ASSUME SettleTurn
      PROVE  Shape'
  BY <1>12 DEF SettleTurn, turnVars, Shape, Busy
<1>13. ASSUME JudgeTurn
      PROVE  Shape'
  BY <1>13 DEF JudgeTurn, turnVars, Shape, Busy
<1>14. ASSUME SaveOutcome
      PROVE  Shape'
  BY <1>14 DEF SaveOutcome, Target, Save, turnVars, Shape, Busy
<1>15. ASSUME NextRound
      PROVE  Shape'
  BY <1>15 DEF NextRound, Target, turnVars, Shape, Busy
<1>16. ASSUME CloseExit
      PROVE  Shape'
  BY <1>16 DEF CloseExit, turnVars, Shape, Busy
<1>17. ASSUME Leave
      PROVE  Shape'
  <2>1. HandlersEnd /\ own' = "down" /\ starts' = starts
    BY <1>17 DEF Leave, OwnerEnds
  <2>2. \A x \in Canceller :
          /\ can'[x].pc \in {"ask", "load", "save", "signal"} => can'[x].target \in Req
          /\ can'[x].via = "socket" => can'[x].pc \in {"ask", "load", "save", "signal"}
    BY <2>1, EndedCalls, DoneCall DEF Shape
  <2>q. QED
    BY <1>17, <2>1, <2>2 DEF Leave, OwnerEnds, Shape, Busy
<1>18. ASSUME Crash
      PROVE  Shape'
  <2>1. HandlersEnd /\ own' = "down" /\ starts' = starts
    BY <1>18 DEF Crash, OwnerEnds
  <2>2. \A x \in Canceller :
          /\ can'[x].pc \in {"ask", "load", "save", "signal"} => can'[x].target \in Req
          /\ can'[x].via = "socket" => can'[x].pc \in {"ask", "load", "save", "signal"}
    BY <2>1, EndedCalls, DoneCall DEF Shape
  <2>q. QED
    BY <1>18, <2>1, <2>2 DEF Crash, OwnerEnds, Shape, Busy
<1>19. ASSUME ErrorExit
      PROVE  Shape'
  BY <1>19 DEF ErrorExit, turnVars, Shape, Busy
<1>20. ASSUME TurnFails
      PROVE  Shape'
  BY <1>20 DEF TurnFails, turnVars, Shape, Busy
<1>21. ASSUME SendPrompt
      PROVE  Shape'
  BY <1>21 DEF SendPrompt, turnVars, Shape, Busy
<1>22. ASSUME NEW a \in {"end", "error", "cancelled"}, AgentAnswers(a)
      PROVE  Shape'
  BY <1>22 DEF AgentAnswers, Target, turnVars, Shape, Busy
<1>23. ASSUME ForwardCancel
      PROVE  Shape'
  BY <1>23 DEF ForwardCancel, ActiveTurn, turnVars, Shape, Busy
<1>24. ASSUME TurnReturns
      PROVE  Shape'
  BY <1>24 DEF TurnReturns, turnVars, Shape, Busy
<1>25. ASSUME Poll
      PROVE  Shape'
  BY <1>25 DEF Poll, Target, turnVars, Shape, Busy
<1>26. ASSUME NEW x \in Canceller, NEW r \in Req, CommandAims(x, r)
      PROVE  Shape'
  <2>1. \A y \in Canceller :
          /\ can'[y].pc \in {"ask", "load", "save", "signal"} => can'[y].target \in Req
          /\ can'[y].via = "socket" => can'[y].pc \in {"ask", "load", "save", "signal"}
    BY <1>26, AimedCall DEF Shape, CoreOK
  <2>q. QED
    BY <1>26, <2>1 DEF CommandAims, turnVars, Shape
<1>27. ASSUME NEW x \in Canceller, CancelPrompt(x)
      PROVE  Shape'
  BY <1>27 DEF CancelPrompt, NoCall, Done, turnVars, Shape, Busy
<1>28. ASSUME NEW x \in Canceller, CloseActive(x)
      PROVE  Shape'
  BY <1>28 DEF CloseActive, ActiveTurn, Healthy, turnVars, Shape, Busy, CoreOK
<1>29. ASSUME NEW x \in Canceller, CloseAims(x)
      PROVE  Shape'
  <2>1. can[x] \in Call /\ can[x].pc = "aim"
    BY <1>29 DEF CloseAims, CoreOK
  <2>2. can[x].via # "socket"
    BY <2>1 DEF Shape
  <2>3. PICK y \in Call : /\ can' = [can EXCEPT ![x] = y] /\ y.via = can[x].via
                          /\ y.pc = "load" => y.target \in Req
                          /\ y.pc \in {"load", "mark"}
    <3>1. CASE active = None \/ Terminal(req[active].status)
      <4> DEFINE y == [can[x] EXCEPT !.pc = "mark"]
      <4>1. y \in Call /\ y.via = can[x].via /\ y.pc = "mark"
        BY <2>1 DEF Call
      <4>2. can' = [can EXCEPT ![x] = y]
        BY <1>29, <3>1 DEF CloseAims
      <4> HIDE DEF y
      <4> QED
        BY <4>1, <4>2
    <3>2. CASE ~(active = None \/ Terminal(req[active].status))
      <4> DEFINE y == [can[x] EXCEPT !.pc = "load", !.target = active]
      <4>1. y \in Call /\ y.via = can[x].via /\ y.pc = "load" /\ y.target \in Req
        BY <2>1, <3>2 DEF Call, RecordOK
      <4>2. can' = [can EXCEPT ![x] = y]
        BY <1>29, <3>2 DEF CloseAims
      <4> HIDE DEF y
      <4> QED
        BY <4>1, <4>2
    <3> QED
      BY <3>1, <3>2
  <2>4. \A z \in Canceller :
          /\ can'[z].pc \in {"ask", "load", "save", "signal"} => can'[z].target \in Req
          /\ can'[z].via = "socket" => can'[z].pc \in {"ask", "load", "save", "signal"}
    BY <2>2, <2>3 DEF Shape, CoreOK
  <2>q. QED
    BY <1>29, <2>4 DEF CloseAims, turnVars, Shape
<1>30. ASSUME NEW x \in Canceller, CloseIdle(x)
      PROVE  Shape'
  BY <1>30 DEF CloseIdle, NoCall, Done, ActiveTurn, Healthy, turnVars, Shape, Busy, CoreOK
<1>31. ASSUME NEW x \in Canceller, CancelLoads(x)
      PROVE  Shape'
  BY <1>31 DEF CancelLoads, turnVars, Shape, Busy, CoreOK
<1>32. ASSUME NEW x \in Canceller, CancelSaves(x)
      PROVE  Shape'
  BY <1>32 DEF CancelSaves, NoCall, Done, Save, turnVars, Shape, Busy, CoreOK
<1>33. ASSUME NEW x \in Canceller, CancelSignals(x)
      PROVE  Shape'
  BY <1>33 DEF CancelSignals, NoCall, Done, CancelerFor, Target, turnVars, Shape, Busy, CoreOK
<1>34. ASSUME NEW x \in Canceller, CloseMarks(x)
      PROVE  Shape'
  BY <1>34 DEF CloseMarks, NoCall, Done, turnVars, Shape, Busy
<1>35. ASSUME UNCHANGED vars
      PROVE  Shape'
  BY <1>35 DEF vars, turnVars, Shape, Busy
<1>36. ASSUME Unmark
      PROVE  Shape'
  BY <1>36 DEF Unmark, turnVars, Shape, Busy
<1>37. ASSUME Mark
      PROVE  Shape'
  BY <1>37 DEF Mark, Target, turnVars, Shape, Busy
<1>38. ASSUME Exited
      PROVE  Shape'
  BY <1>38 DEF Exited, turnVars, Shape, Busy
<1>39. ASSUME NEW t \in named, OldCopySaved(t)
      PROVE  Shape'
  BY <1>39 DEF OldCopySaved, turnVars, Shape, Busy
<1>q. QED
  BY <1>1, <1>2, <1>3, <1>4, <1>5, <1>6, <1>7, <1>8, <1>9, <1>10, <1>11, <1>12,
      <1>13, <1>14, <1>15, <1>16, <1>17, <1>18, <1>19, <1>20, <1>21, <1>22, <1>23,
      <1>24, <1>25, <1>26, <1>27, <1>28, <1>29, <1>30, <1>31, <1>32, <1>33, <1>34,
      <1>35, <1>36, <1>37, <1>38, <1>39 DEF Next, Command, Cancel, Canceling, Loop, Turn

\* CancelTrail is inductive: a step that passes a cancel on takes it from a place
\* that already belonged to a request in asked.
LEMMA CancelStep ==
  ASSUME CoreOK, RecordOK, Shape, CancelTrail, FileTrail, [Next]_vars
  PROVE  CancelTrail'
<1>1. ASSUME NEW r \in Req, Enqueue(r)
      PROVE  CancelTrail'
  BY <1>1 DEF Enqueue, Save, turnVars, CancelTrail
<1>2. ASSUME NEW r \in Req, EnsureOwner(r)
      PROVE  CancelTrail'
  BY <1>2 DEF EnsureOwner, turnVars, CancelTrail
<1>3. ASSUME NEW r \in Req, WaitReturns(r)
      PROVE  CancelTrail'
  BY <1>3 DEF WaitReturns, Terminal, turnVars, CancelTrail
<1>4. ASSUME Acquire
      PROVE  CancelTrail'
  BY <1>4 DEF Acquire, Running, turnVars, CancelTrail
<1>5. ASSUME NEW r \in Req, RequeueOne(r)
      PROVE  CancelTrail'
  BY <1>5 DEF RequeueOne, Save, turnVars, CancelTrail
<1>6. ASSUME EnterLoop
      PROVE  CancelTrail'
  BY <1>6 DEF EnterLoop, turnVars, CancelTrail
<1>7. ASSUME NEW r \in Req, NextPending(r)
      PROVE  CancelTrail'
  BY <1>7 DEF NextPending, Queued, turnVars, CancelTrail, Shape, Busy
<1>8. ASSUME IdleExit
      PROVE  CancelTrail'
  BY <1>8 DEF IdleExit, Queued, turnVars, CancelTrail
<1>9. ASSUME Claim
      PROVE  CancelTrail'
  BY <1>9 DEF Claim, Target, Save, turnVars, CancelTrail
<1>10. ASSUME NEW s \in {"completed", "failed"}, RunControl(s)
      PROVE  CancelTrail'
  BY <1>10 DEF RunControl, Target, turnVars, CancelTrail
<1>11. ASSUME StartTurn
      PROVE  CancelTrail'
  BY <1>11 DEF StartTurn, Target, turnVars, CancelTrail, Shape, Busy
<1>12. ASSUME SettleTurn
      PROVE  CancelTrail'
  BY <1>12 DEF SettleTurn, turnVars, CancelTrail
<1>13. ASSUME JudgeTurn
      PROVE  CancelTrail'
  BY <1>13 DEF JudgeTurn, turnVars, CancelTrail
<1>14. ASSUME SaveOutcome
      PROVE  CancelTrail'
  BY <1>14 DEF SaveOutcome, Target, Save, turnVars, CancelTrail
<1>15. ASSUME NextRound
      PROVE  CancelTrail'
  BY <1>15 DEF NextRound, Target, turnVars, CancelTrail, Shape, Busy
<1>16. ASSUME CloseExit
      PROVE  CancelTrail'
  BY <1>16 DEF CloseExit, turnVars, CancelTrail
<1>17. ASSUME Leave
      PROVE  CancelTrail'
  <2>1. HandlersEnd /\ mem' = [id |-> None, cancel |-> FALSE]
    BY <1>17 DEF Leave, OwnerEnds
  <2>2. \A x \in Canceller : can'[x].pc \in {"save", "signal"} => can'[x].target \in asked
    BY <2>1, EndedCalls, DoneCall DEF CancelTrail
  <2>q. QED
    BY <1>17, <2>1, <2>2 DEF Leave, OwnerEnds, CancelTrail
<1>18. ASSUME Crash
      PROVE  CancelTrail'
  <2>1. HandlersEnd /\ mem' = [id |-> None, cancel |-> FALSE]
    BY <1>18 DEF Crash, OwnerEnds
  <2>2. \A x \in Canceller : can'[x].pc \in {"save", "signal"} => can'[x].target \in asked
    BY <2>1, EndedCalls, DoneCall DEF CancelTrail
  <2>q. QED
    BY <1>18, <2>1, <2>2 DEF Crash, OwnerEnds, CancelTrail
<1>19. ASSUME ErrorExit
      PROVE  CancelTrail'
  BY <1>19 DEF ErrorExit, turnVars, CancelTrail, Shape, Busy
<1>20. ASSUME TurnFails
      PROVE  CancelTrail'
  BY <1>20 DEF TurnFails, turnVars, CancelTrail
<1>21. ASSUME SendPrompt
      PROVE  CancelTrail'
  BY <1>21 DEF SendPrompt, turnVars, CancelTrail
<1>22. ASSUME NEW a \in {"end", "error", "cancelled"}, AgentAnswers(a)
      PROVE  CancelTrail'
  BY ReqAssumption, <1>22 DEF AgentAnswers, Target, turnVars, CancelTrail,
      FileTrail, Shape, Busy, CoreOK, InLoop, Working, Call, File, Status, NoFile,
      Terminal
<1>23. ASSUME ForwardCancel
      PROVE  CancelTrail'
  BY <1>23 DEF ForwardCancel, ActiveTurn, turnVars, CancelTrail
<1>24. ASSUME TurnReturns
      PROVE  CancelTrail'
  BY <1>24 DEF TurnReturns, turnVars, CancelTrail
<1>25. ASSUME Poll
      PROVE  CancelTrail'
  BY <1>25 DEF Poll, Target, turnVars, CancelTrail, Shape, Busy
<1>26. ASSUME NEW x \in Canceller, NEW r \in Req, CommandAims(x, r)
      PROVE  CancelTrail'
  <2>1. \A y \in Canceller : can'[y].pc \in {"save", "signal"} => can'[y].target \in asked
    BY <1>26, AimedCall DEF CancelTrail, CoreOK
  <2>q. QED
    BY <1>26, <2>1 DEF CommandAims, turnVars, CancelTrail
<1>27. ASSUME NEW x \in Canceller, CancelPrompt(x)
      PROVE  CancelTrail'
  BY <1>27 DEF CancelPrompt, NoCall, Done, turnVars, CancelTrail
<1>28. ASSUME NEW x \in Canceller, CloseActive(x)
      PROVE  CancelTrail'
  BY <1>28 DEF CloseActive, ActiveTurn, Healthy, turnVars, CancelTrail, CoreOK
<1>29. ASSUME NEW x \in Canceller, CloseAims(x)
      PROVE  CancelTrail'
  BY <1>29 DEF CloseAims, turnVars, CancelTrail, CoreOK
<1>30. ASSUME NEW x \in Canceller, CloseIdle(x)
      PROVE  CancelTrail'
  BY <1>30 DEF CloseIdle, NoCall, Done, ActiveTurn, Healthy, turnVars, CancelTrail, CoreOK
<1>31. ASSUME NEW x \in Canceller, CancelLoads(x)
      PROVE  CancelTrail'
  BY <1>31 DEF CancelLoads, turnVars, CancelTrail, CoreOK
<1>32. ASSUME NEW x \in Canceller, CancelSaves(x)
      PROVE  CancelTrail'
  BY <1>32 DEF CancelSaves, NoCall, Done, Save, turnVars, CancelTrail, CoreOK
<1>33. ASSUME NEW x \in Canceller, CancelSignals(x)
      PROVE  CancelTrail'
  BY <1>33 DEF CancelSignals, NoCall, Done, CancelerFor, Target, turnVars, CancelTrail, CoreOK
<1>34. ASSUME NEW x \in Canceller, CloseMarks(x)
      PROVE  CancelTrail'
  BY <1>34 DEF CloseMarks, NoCall, Done, turnVars, CancelTrail
<1>35. ASSUME UNCHANGED vars
      PROVE  CancelTrail'
  BY <1>35 DEF vars, turnVars, CancelTrail
<1>36. ASSUME Unmark
      PROVE  CancelTrail'
  BY <1>36 DEF Unmark, turnVars, CancelTrail, Shape, Busy
<1>37. ASSUME Mark
      PROVE  CancelTrail'
  BY <1>37 DEF Mark, Target, turnVars, CancelTrail, Shape, Busy
<1>38. ASSUME Exited
      PROVE  CancelTrail'
  BY <1>38 DEF Exited, turnVars, CancelTrail, Shape, Busy
<1>39. ASSUME NEW t \in named, OldCopySaved(t)
      PROVE  CancelTrail'
  BY <1>39 DEF OldCopySaved, turnVars, CancelTrail, Shape, Busy
<1>q. QED
  BY <1>1, <1>2, <1>3, <1>4, <1>5, <1>6, <1>7, <1>8, <1>9, <1>10, <1>11, <1>12,
      <1>13, <1>14, <1>15, <1>16, <1>17, <1>18, <1>19, <1>20, <1>21, <1>22, <1>23,
      <1>24, <1>25, <1>26, <1>27, <1>28, <1>29, <1>30, <1>31, <1>32, <1>33, <1>34,
      <1>35, <1>36, <1>37, <1>38, <1>39 DEF Next, Command, Cancel, Canceling, Loop, Turn

\* The steps that write the session record, or look at it for a cancel.
RecordSteps == \/ Unmark \/ Mark \/ StartTurn \/ NextRound \/ Leave \/ Exited \/ Crash \/ TurnFails
               \/ (\E a \in {"end", "error", "cancelled"} : AgentAnswers(a))
               \/ (\E x \in Canceller : (\E r \in Req : CommandAims(x, r)) \/ CloseActive(x) \/ CloseAims(x))
               \/ (\E t \in named : OldCopySaved(t))

LEMMA OnlyRecordSteps ==
  ASSUME [Next]_vars
  PROVE  RecordSteps \/ UNCHANGED <<recordVars, aimVars>>
BY DEF RecordSteps, recordVars, aimVars, Next, vars, Command, Cancel, Canceling, Loop, Turn, Enqueue, EnsureOwner,
       WaitReturns, Acquire, RequeueOne, EnterLoop, NextPending, IdleExit, Claim, RunControl, SettleTurn, JudgeTurn,
       SaveOutcome, CloseExit, ErrorExit, SendPrompt, ForwardCancel, TurnReturns, Poll, CancelPrompt, CloseIdle,
       CancelLoads, CancelSaves, CancelSignals, CloseMarks

\* The record and the aims keep their types.
LEMMA RecordStep ==
  ASSUME CoreOK, RecordOK, Shape, [Next]_vars
  PROVE  RecordOK'
<1> USE DEF RecordOK
<1>1. CASE UNCHANGED <<recordVars, aimVars>>
  BY <1>1 DEF recordVars, aimVars
<1>2. ASSUME NEW t \in Req \cup {None}, Name(t)
      PROVE  active' \in Req \cup {None} /\ named' \in SUBSET (Req \cup {None})
  BY <1>2 DEF Name
<1>3. ASSUME NEW t \in Req, AimAt(t)
      PROVE  aimed' \in SUBSET Req /\ strays' \in SUBSET Req
  BY <1>3 DEF AimAt
<1>4. CASE Unmark \/ Mark \/ StartTurn \/ NextRound
  <2>1. own \in Busy => mem.id \in Req
    BY DEF Shape
  <2> QED
    BY <1>2, <1>4, <2>1 DEF Unmark, Mark, StartTurn, NextRound, Target, Busy, aimVars
<1>5. CASE Leave \/ Crash \/ Exited
  <2>1. CASE Exited
    BY <1>2, <2>1 DEF Exited, aimVars
  <2>2. CASE Leave \/ Crash
    <3>1. exiting' \in Nat /\ tcopy' = None
      BY <2>2 DEF Leave, Crash, OwnerEnds
    <3>2. astray' = (astray \/ active # None)
      BY <2>2 DEF Leave, Crash, OwnerEnds
    <3>3. UNCHANGED <<active, named, aimed, strays>>
      BY <2>2 DEF Leave, Crash, OwnerEnds, aimVars
    <3> QED
      BY <3>1, <3>2, <3>3
  <2> QED
    BY <1>5, <2>1, <2>2
<1>6. ASSUME TurnFails \/ \E a \in {"end", "error", "cancelled"} : AgentAnswers(a)
      PROVE  RecordOK'
  BY <1>2, <1>6 DEF TurnFails, AgentAnswers, TurnSaves, aimVars
<1>7. ASSUME NEW x \in Canceller, (\E r \in Req : CommandAims(x, r)) \/ CloseActive(x) \/ CloseAims(x)
      PROVE  RecordOK'
  <2>1. CloseActive(x) => mem.id \in Req
    BY DEF CloseActive, ActiveTurn, Shape, Busy
  <2> QED
    BY <1>3, <1>7, <2>1 DEF CommandAims, CloseActive, CloseAims, Target, recordVars, aimVars
<1>8. ASSUME NEW t \in named, OldCopySaved(t)
      PROVE  RecordOK'
  BY <1>2, <1>8 DEF OldCopySaved, aimVars
<1> QED
  BY <1>1, <1>4, <1>5, <1>6, <1>7, <1>8, OnlyRecordSteps DEF RecordSteps

\* AimTrail is inductive: who looks at the record finds what it was meant for, unless the
\* record was led astray, and passes only that on.
LEMMA AimStep ==
  ASSUME CoreOK, RecordOK, Shape, AimTrail, [Next]_vars
  PROVE  AimTrail'
<1> USE ReqAssumption DEF AimTrail, RecordTrue, Hit, Shape, Busy, Marked, turnVars, recordVars, aimVars, CoreOK, RecordOK
<1>1. ASSUME NEW r \in Req, Enqueue(r)
      PROVE  AimTrail'
  BY <1>1 DEF Enqueue, Save
<1>2. ASSUME NEW r \in Req, EnsureOwner(r)
      PROVE  AimTrail'
  BY <1>2 DEF EnsureOwner
<1>3. ASSUME NEW r \in Req, WaitReturns(r)
      PROVE  AimTrail'
  BY <1>3 DEF WaitReturns
<1>4. ASSUME Acquire
      PROVE  AimTrail'
  BY <1>4 DEF Acquire
<1>5. ASSUME NEW r \in Req, RequeueOne(r)
      PROVE  AimTrail'
  BY <1>5 DEF RequeueOne, Save
<1>6. ASSUME EnterLoop
      PROVE  AimTrail'
  BY <1>6 DEF EnterLoop
<1>7. ASSUME NEW r \in Req, NextPending(r)
      PROVE  AimTrail'
  BY <1>7 DEF NextPending, Queued
<1>8. ASSUME IdleExit
      PROVE  AimTrail'
  BY <1>8 DEF IdleExit
<1>9. ASSUME Claim
      PROVE  AimTrail'
  BY <1>9 DEF Claim, Target, Save
<1>10. ASSUME NEW s \in {"completed", "failed"}, RunControl(s)
      PROVE  AimTrail'
  BY <1>10 DEF RunControl, Target
<1>11. ASSUME StartTurn
      PROVE  AimTrail'
  BY <1>11 DEF StartTurn, Target
<1>12. ASSUME SettleTurn
      PROVE  AimTrail'
  BY <1>12 DEF SettleTurn
<1>13. ASSUME JudgeTurn
      PROVE  AimTrail'
  BY <1>13 DEF JudgeTurn
<1>14. ASSUME SaveOutcome
      PROVE  AimTrail'
  BY <1>14 DEF SaveOutcome, Target, Save
<1>15. ASSUME NextRound
      PROVE  AimTrail'
  BY <1>15 DEF NextRound, Target, Name
<1>16. ASSUME CloseExit
      PROVE  AimTrail'
  BY <1>16 DEF CloseExit
<1>17. ASSUME Leave
      PROVE  AimTrail'
  <2>1. HandlersEnd /\ mem' = [id |-> None, cancel |-> FALSE] /\ Hit' = Hit /\ own' = "down"
    BY <1>17 DEF Leave, OwnerEnds
  <2>2. \A x \in Canceller :
          /\ can'[x].pc \in {"ask", "load", "save", "signal"} => can'[x].target \in Hit
          /\ can'[x].turn # None => can'[x].turn \in Hit
    <3>1. \A x \in Canceller : can[x].via = "socket" => can[x].pc \in {"ask", "load", "save", "signal"}
      OBVIOUS
    <3> QED
      BY <2>1, <3>1, EndedCalls, DoneCall
  <2>3. ~astray' => active' = None /\ strays' = {}
    BY <1>17 DEF Leave, OwnerEnds
  <2>q. QED
    BY <1>17, <2>1, <2>2, <2>3 DEF Leave, OwnerEnds
<1>18. ASSUME Crash
      PROVE  AimTrail'
  <2>1. HandlersEnd /\ mem' = [id |-> None, cancel |-> FALSE] /\ Hit' = Hit /\ own' = "down"
    BY <1>18 DEF Crash, OwnerEnds
  <2>2. \A x \in Canceller :
          /\ can'[x].pc \in {"ask", "load", "save", "signal"} => can'[x].target \in Hit
          /\ can'[x].turn # None => can'[x].turn \in Hit
    <3>1. \A x \in Canceller : can[x].via = "socket" => can[x].pc \in {"ask", "load", "save", "signal"}
      OBVIOUS
    <3> QED
      BY <2>1, <3>1, EndedCalls, DoneCall
  <2>3. ~astray' => active' = None /\ strays' = {}
    BY <1>18 DEF Crash, OwnerEnds
  <2>q. QED
    BY <1>18, <2>1, <2>2, <2>3 DEF Crash, OwnerEnds
<1>19. ASSUME ErrorExit
      PROVE  AimTrail'
  BY <1>19 DEF ErrorExit
<1>20. ASSUME TurnFails
      PROVE  AimTrail'
  BY <1>20 DEF TurnFails, TurnSaves, Name
<1>21. ASSUME SendPrompt
      PROVE  AimTrail'
  BY <1>21 DEF SendPrompt
<1>22. ASSUME NEW a \in {"end", "error", "cancelled"}, AgentAnswers(a)
      PROVE  AimTrail'
  BY <1>22 DEF AgentAnswers, TurnSaves, Name, Target
<1>23. ASSUME ForwardCancel
      PROVE  AimTrail'
  BY <1>23 DEF ForwardCancel, ActiveTurn
<1>24. ASSUME TurnReturns
      PROVE  AimTrail'
  BY <1>24 DEF TurnReturns
<1>25. ASSUME Poll
      PROVE  AimTrail'
  BY <1>25 DEF Poll, Target
<1>26. ASSUME NEW x \in Canceller, NEW r \in Req, CommandAims(x, r)
      PROVE  AimTrail'
  <2>1. r \in Hit' /\ Hit \subseteq Hit'
    BY <1>26 DEF CommandAims, AimAt
  <2>2. \A y \in Canceller :
          /\ can'[y].pc \in {"ask", "load", "save", "signal"} => can'[y].target \in Hit'
          /\ can'[y].turn # None => can'[y].turn \in Hit'
    <3>1. PICK c \in Call : /\ can' = [can EXCEPT ![x] = c] /\ c.target = r /\ c.turn = None
      BY <1>26, AimedCall
    <3>2. \A y \in Canceller : can'[y] = can[y] \/ can'[y] = c
      BY <3>1
    <3> QED
      BY <2>1, <3>1, <3>2
  <2>3. ~astray => r = mem.id \/ own \notin Marked
    BY <1>26 DEF CommandAims, Found
  <2>4. UNCHANGED <<req, mem, own, sig, told, answer, outcome, astray, active>>
    BY <1>26 DEF CommandAims
  <2>5. ~astray' => RecordTrue'
    BY <1>26, <2>3, <2>4 DEF CommandAims, AimAt
  <2>q. QED
    BY <2>1, <2>2, <2>4, <2>5
<1>27. ASSUME NEW x \in Canceller, CancelPrompt(x)
      PROVE  AimTrail'
  BY <1>27 DEF CancelPrompt, NoCall, Done
<1>28. ASSUME NEW x \in Canceller, CloseActive(x)
      PROVE  AimTrail'
  BY <1>28 DEF CloseActive, ActiveTurn, AimAt, Target
<1>29. ASSUME NEW x \in Canceller, CloseAims(x)
      PROVE  AimTrail'
  BY <1>29 DEF CloseAims, AimAt
<1>30. ASSUME NEW x \in Canceller, CloseIdle(x)
      PROVE  AimTrail'
  BY <1>30 DEF CloseIdle, NoCall, Done
<1>31. ASSUME NEW x \in Canceller, CancelLoads(x)
      PROVE  AimTrail'
  BY <1>31 DEF CancelLoads
<1>32. ASSUME NEW x \in Canceller, CancelSaves(x)
      PROVE  AimTrail'
  BY <1>32 DEF CancelSaves, Save, NoCall, Done
<1>33. ASSUME NEW x \in Canceller, CancelSignals(x)
      PROVE  AimTrail'
  BY <1>33 DEF CancelSignals, CancelerFor, Target, NoCall, Done
<1>34. ASSUME NEW x \in Canceller, CloseMarks(x)
      PROVE  AimTrail'
  BY <1>34 DEF CloseMarks, NoCall, Done
<1>35. ASSUME UNCHANGED vars
      PROVE  AimTrail'
  BY <1>35 DEF vars
<1>36. ASSUME Unmark
      PROVE  AimTrail'
  BY <1>36 DEF Unmark, Name
<1>37. ASSUME Mark
      PROVE  AimTrail'
  BY <1>37 DEF Mark, Target, Name
<1>38. ASSUME Exited
      PROVE  AimTrail'
  BY <1>38 DEF Exited, Name
<1>39. ASSUME NEW t \in named, OldCopySaved(t)
      PROVE  AimTrail'
  BY <1>39 DEF OldCopySaved, Name
<1>q. QED
  BY <1>1, <1>2, <1>3, <1>4, <1>5, <1>6, <1>7, <1>8, <1>9, <1>10, <1>11, <1>12, <1>13, <1>14, <1>15, <1>16, <1>17, <1>18, <1>19, <1>20, <1>21, <1>22, <1>23, <1>24, <1>25, <1>26, <1>27, <1>28, <1>29, <1>30, <1>31, <1>32, <1>33, <1>34, <1>35, <1>36, <1>37, <1>38, <1>39
     DEF Next, Command, Cancel, Canceling, Loop, Turn

\* FileTrail is inductive: the owner is the only writer of these files.
LEMMA FileStep ==
  ASSUME CoreOK, RecordOK, Shape, CancelTrail, FileTrail, [Next]_vars
  PROVE  FileTrail'
<1>1. ASSUME NEW r \in Req, Enqueue(r)
      PROVE  FileTrail'
  BY <1>1 DEF Enqueue, Save, turnVars, FileTrail, InLoop, Working, Terminal, CoreOK
<1>2. ASSUME NEW r \in Req, EnsureOwner(r)
      PROVE  FileTrail'
  BY <1>2 DEF EnsureOwner, turnVars, FileTrail, InLoop, Working
<1>3. ASSUME NEW r \in Req, WaitReturns(r)
      PROVE  FileTrail'
  BY <1>3 DEF WaitReturns, Terminal, turnVars, FileTrail, InLoop, Working
<1>4. ASSUME Acquire
      PROVE  FileTrail'
  BY <1>4 DEF Acquire, Running, turnVars, FileTrail, InLoop, Working
<1>5. ASSUME NEW r \in Req, RequeueOne(r)
      PROVE  FileTrail'
  BY <1>5 DEF RequeueOne, Save, turnVars, FileTrail, InLoop, Working, Terminal,
      CoreOK
<1>6. ASSUME EnterLoop
      PROVE  FileTrail'
  BY <1>6 DEF EnterLoop, turnVars, FileTrail, InLoop, Working
<1>7. ASSUME NEW r \in Req, NextPending(r)
      PROVE  FileTrail'
  BY <1>7 DEF NextPending, Queued, turnVars, FileTrail, InLoop, Working
<1>8. ASSUME IdleExit
      PROVE  FileTrail'
  BY <1>8 DEF IdleExit, Queued, turnVars, FileTrail, InLoop, Working
<1>9. ASSUME Claim
      PROVE  FileTrail'
  BY <1>9 DEF Claim, Target, Save, turnVars, FileTrail, InLoop, Working, Terminal,
      CoreOK
<1>10. ASSUME NEW s \in {"completed", "failed"}, RunControl(s)
      PROVE  FileTrail'
  BY <1>10 DEF RunControl, Target, turnVars, FileTrail, InLoop, Working
<1>11. ASSUME StartTurn
      PROVE  FileTrail'
  BY <1>11 DEF StartTurn, Target, turnVars, FileTrail, InLoop, Working
<1>12. ASSUME SettleTurn
      PROVE  FileTrail'
  BY <1>12 DEF SettleTurn, turnVars, FileTrail, InLoop, Working
<1>13. ASSUME JudgeTurn
      PROVE  FileTrail'
  BY <1>13 DEF JudgeTurn, turnVars, FileTrail, InLoop, Working
<1>14. ASSUME SaveOutcome
      PROVE  FileTrail'
  BY <1>14 DEF SaveOutcome, Target, Save, turnVars, FileTrail, InLoop, Working,
      Terminal, CoreOK
<1>15. ASSUME NextRound
      PROVE  FileTrail'
  BY <1>15 DEF NextRound, Target, turnVars, FileTrail, InLoop, Working
<1>16. ASSUME CloseExit
      PROVE  FileTrail'
  BY <1>16 DEF CloseExit, turnVars, FileTrail, InLoop, Working
<1>17. ASSUME Leave
      PROVE  FileTrail'
  BY <1>17 DEF Leave, OwnerEnds, HandlersEnd, NoCall, Done, turnVars, FileTrail, InLoop, Working
<1>18. ASSUME Crash
      PROVE  FileTrail'
  BY <1>18 DEF Crash, OwnerEnds, HandlersEnd, NoCall, Done, turnVars, FileTrail, InLoop, Working
<1>19. ASSUME ErrorExit
      PROVE  FileTrail'
  BY <1>19 DEF ErrorExit, turnVars, FileTrail, InLoop, Working
<1>20. ASSUME TurnFails
      PROVE  FileTrail'
  BY <1>20 DEF TurnFails, turnVars, FileTrail
<1>21. ASSUME SendPrompt
      PROVE  FileTrail'
  BY <1>21 DEF SendPrompt, turnVars, FileTrail
<1>22. ASSUME NEW a \in {"end", "error", "cancelled"}, AgentAnswers(a)
      PROVE  FileTrail'
  BY <1>22 DEF AgentAnswers, Target, turnVars, FileTrail
<1>23. ASSUME ForwardCancel
      PROVE  FileTrail'
  BY <1>23 DEF ForwardCancel, ActiveTurn, turnVars, FileTrail
<1>24. ASSUME TurnReturns
      PROVE  FileTrail'
  BY <1>24 DEF TurnReturns, turnVars, FileTrail
<1>25. ASSUME Poll
      PROVE  FileTrail'
  BY <1>25 DEF Poll, Target, turnVars, FileTrail
<1>26. ASSUME NEW x \in Canceller, NEW r \in Req, CommandAims(x, r)
      PROVE  FileTrail'
  BY <1>26 DEF CommandAims, NoCall, turnVars, FileTrail
<1>27. ASSUME NEW x \in Canceller, CancelPrompt(x)
      PROVE  FileTrail'
  BY <1>27 DEF CancelPrompt, NoCall, Done, turnVars, FileTrail
<1>28. ASSUME NEW x \in Canceller, CloseActive(x)
      PROVE  FileTrail'
  BY <1>28 DEF CloseActive, ActiveTurn, Healthy, turnVars, FileTrail, InLoop,
      Working, Terminal, CoreOK
<1>29. ASSUME NEW x \in Canceller, CloseAims(x)
      PROVE  FileTrail'
  BY ReqAssumption, <1>29 DEF CloseAims, turnVars, CancelTrail,
      FileTrail, Shape, Busy, CoreOK, InLoop, Working, Call, File, Status, NoFile,
      Terminal
<1>30. ASSUME NEW x \in Canceller, CloseIdle(x)
      PROVE  FileTrail'
  BY <1>30 DEF CloseIdle, NoCall, Done, ActiveTurn, Healthy, turnVars, FileTrail, InLoop,
      Working, Terminal, CoreOK
<1>31. ASSUME NEW x \in Canceller, CancelLoads(x)
      PROVE  FileTrail'
  BY <1>31 DEF CancelLoads, turnVars, FileTrail, InLoop, Working, Terminal, CoreOK
<1>32. ASSUME NEW x \in Canceller, CancelSaves(x)
      PROVE  FileTrail'
  BY ReqAssumption, <1>32 DEF CancelSaves, NoCall, Done, Save, turnVars, CancelTrail, FileTrail,
      Shape, Busy, CoreOK, InLoop, Working, Call, File, Status, NoFile, Terminal
<1>33. ASSUME NEW x \in Canceller, CancelSignals(x)
      PROVE  FileTrail'
  BY ReqAssumption, <1>33 DEF CancelSignals, NoCall, Done, CancelerFor, Target, turnVars,
      CancelTrail, FileTrail, Shape, Busy, CoreOK, InLoop, Working, Call, File,
      Status, NoFile, Terminal
<1>34. ASSUME NEW x \in Canceller, CloseMarks(x)
      PROVE  FileTrail'
  BY <1>34 DEF CloseMarks, NoCall, Done, turnVars, FileTrail
<1>35. ASSUME UNCHANGED vars
      PROVE  FileTrail'
  BY <1>35 DEF vars, turnVars, FileTrail
<1>36. ASSUME Unmark
      PROVE  FileTrail'
  BY <1>36 DEF Unmark, turnVars, FileTrail, Shape, InLoop, Working
<1>37. ASSUME Mark
      PROVE  FileTrail'
  BY <1>37 DEF Mark, Target, turnVars, FileTrail, Shape, InLoop, Working
<1>38. ASSUME Exited
      PROVE  FileTrail'
  BY <1>38 DEF Exited, turnVars, FileTrail, Shape, InLoop, Working
<1>39. ASSUME NEW t \in named, OldCopySaved(t)
      PROVE  FileTrail'
  BY <1>39 DEF OldCopySaved, turnVars, FileTrail, Shape, InLoop, Working
<1>q. QED
  BY <1>1, <1>2, <1>3, <1>4, <1>5, <1>6, <1>7, <1>8, <1>9, <1>10, <1>11, <1>12,
      <1>13, <1>14, <1>15, <1>16, <1>17, <1>18, <1>19, <1>20, <1>21, <1>22, <1>23,
      <1>24, <1>25, <1>26, <1>27, <1>28, <1>29, <1>30, <1>31, <1>32, <1>33, <1>34,
      <1>35, <1>36, <1>37, <1>38, <1>39 DEF Next, Command, Cancel, Canceling, Loop, Turn

\* A finished request outside asked keeps its file in every step.
LEMMA FinalStep ==
  ASSUME CoreOK, RecordOK, Shape, CancelTrail, FileTrail, [Next]_vars
  PROVE  \A i \in Req \ asked' : Terminal(req[i].status) => req'[i] = req[i]
<1>1. ASSUME NEW r \in Req, Enqueue(r)
      PROVE  \A i \in Req \ asked' : Terminal(req[i].status) => req'[i] = req[i]
  BY <1>1 DEF Enqueue, Save, turnVars, FileTrail, InLoop, Working, Terminal, CoreOK
<1>2. ASSUME NEW r \in Req, EnsureOwner(r)
      PROVE  \A i \in Req \ asked' : Terminal(req[i].status) => req'[i] = req[i]
  BY <1>2 DEF EnsureOwner, turnVars
<1>3. ASSUME NEW r \in Req, WaitReturns(r)
      PROVE  \A i \in Req \ asked' : Terminal(req[i].status) => req'[i] = req[i]
  BY <1>3 DEF WaitReturns, Terminal, turnVars
<1>4. ASSUME Acquire
      PROVE  \A i \in Req \ asked' : Terminal(req[i].status) => req'[i] = req[i]
  BY <1>4 DEF Acquire, Running, turnVars
<1>5. ASSUME NEW r \in Req, RequeueOne(r)
      PROVE  \A i \in Req \ asked' : Terminal(req[i].status) => req'[i] = req[i]
  BY <1>5 DEF RequeueOne, Save, turnVars, FileTrail, InLoop, Working, Terminal,
      CoreOK
<1>6. ASSUME EnterLoop
      PROVE  \A i \in Req \ asked' : Terminal(req[i].status) => req'[i] = req[i]
  BY <1>6 DEF EnterLoop, turnVars
<1>7. ASSUME NEW r \in Req, NextPending(r)
      PROVE  \A i \in Req \ asked' : Terminal(req[i].status) => req'[i] = req[i]
  BY <1>7 DEF NextPending, Queued, turnVars
<1>8. ASSUME IdleExit
      PROVE  \A i \in Req \ asked' : Terminal(req[i].status) => req'[i] = req[i]
  BY <1>8 DEF IdleExit, Queued, turnVars
<1>9. ASSUME Claim
      PROVE  \A i \in Req \ asked' : Terminal(req[i].status) => req'[i] = req[i]
  BY <1>9 DEF Claim, Target, Save, turnVars, FileTrail, InLoop, Working, Terminal,
      CoreOK
<1>10. ASSUME NEW s \in {"completed", "failed"}, RunControl(s)
      PROVE  \A i \in Req \ asked' : Terminal(req[i].status) => req'[i] = req[i]
  BY <1>10 DEF RunControl, Target, turnVars
<1>11. ASSUME StartTurn
      PROVE  \A i \in Req \ asked' : Terminal(req[i].status) => req'[i] = req[i]
  BY <1>11 DEF StartTurn, Target, turnVars
<1>12. ASSUME SettleTurn
      PROVE  \A i \in Req \ asked' : Terminal(req[i].status) => req'[i] = req[i]
  BY <1>12 DEF SettleTurn, turnVars
<1>13. ASSUME JudgeTurn
      PROVE  \A i \in Req \ asked' : Terminal(req[i].status) => req'[i] = req[i]
  BY <1>13 DEF JudgeTurn, turnVars
<1>14. ASSUME SaveOutcome
      PROVE  \A i \in Req \ asked' : Terminal(req[i].status) => req'[i] = req[i]
  BY <1>14 DEF SaveOutcome, Target, Save, turnVars, FileTrail, InLoop, Working,
      Terminal, CoreOK
<1>15. ASSUME NextRound
      PROVE  \A i \in Req \ asked' : Terminal(req[i].status) => req'[i] = req[i]
  BY <1>15 DEF NextRound, Target, turnVars
<1>16. ASSUME CloseExit
      PROVE  \A i \in Req \ asked' : Terminal(req[i].status) => req'[i] = req[i]
  BY <1>16 DEF CloseExit, turnVars
<1>17. ASSUME Leave
      PROVE  \A i \in Req \ asked' : Terminal(req[i].status) => req'[i] = req[i]
  BY <1>17 DEF Leave, OwnerEnds, HandlersEnd, NoCall, Done, turnVars
<1>18. ASSUME Crash
      PROVE  \A i \in Req \ asked' : Terminal(req[i].status) => req'[i] = req[i]
  BY <1>18 DEF Crash, OwnerEnds, HandlersEnd, NoCall, Done, turnVars
<1>19. ASSUME ErrorExit
      PROVE  \A i \in Req \ asked' : Terminal(req[i].status) => req'[i] = req[i]
  BY <1>19 DEF ErrorExit, turnVars
<1>20. ASSUME TurnFails
      PROVE  \A i \in Req \ asked' : Terminal(req[i].status) => req'[i] = req[i]
  BY <1>20 DEF TurnFails, turnVars
<1>21. ASSUME SendPrompt
      PROVE  \A i \in Req \ asked' : Terminal(req[i].status) => req'[i] = req[i]
  BY <1>21 DEF SendPrompt, turnVars
<1>22. ASSUME NEW a \in {"end", "error", "cancelled"}, AgentAnswers(a)
      PROVE  \A i \in Req \ asked' : Terminal(req[i].status) => req'[i] = req[i]
  BY <1>22 DEF AgentAnswers, Target, turnVars
<1>23. ASSUME ForwardCancel
      PROVE  \A i \in Req \ asked' : Terminal(req[i].status) => req'[i] = req[i]
  BY <1>23 DEF ForwardCancel, ActiveTurn, turnVars
<1>24. ASSUME TurnReturns
      PROVE  \A i \in Req \ asked' : Terminal(req[i].status) => req'[i] = req[i]
  BY <1>24 DEF TurnReturns, turnVars
<1>25. ASSUME Poll
      PROVE  \A i \in Req \ asked' : Terminal(req[i].status) => req'[i] = req[i]
  BY <1>25 DEF Poll, Target, turnVars
<1>26. ASSUME NEW x \in Canceller, NEW r \in Req, CommandAims(x, r)
      PROVE  \A i \in Req \ asked' : Terminal(req[i].status) => req'[i] = req[i]
  BY <1>26 DEF CommandAims, NoCall, turnVars
<1>27. ASSUME NEW x \in Canceller, CancelPrompt(x)
      PROVE  \A i \in Req \ asked' : Terminal(req[i].status) => req'[i] = req[i]
  BY <1>27 DEF CancelPrompt, NoCall, Done, turnVars
<1>28. ASSUME NEW x \in Canceller, CloseActive(x)
      PROVE  \A i \in Req \ asked' : Terminal(req[i].status) => req'[i] = req[i]
  BY <1>28 DEF CloseActive, ActiveTurn, Healthy, turnVars
<1>29. ASSUME NEW x \in Canceller, CloseAims(x)
      PROVE  \A i \in Req \ asked' : Terminal(req[i].status) => req'[i] = req[i]
  BY <1>29 DEF CloseAims, turnVars
<1>30. ASSUME NEW x \in Canceller, CloseIdle(x)
      PROVE  \A i \in Req \ asked' : Terminal(req[i].status) => req'[i] = req[i]
  BY <1>30 DEF CloseIdle, NoCall, Done, ActiveTurn, Healthy, turnVars
<1>31. ASSUME NEW x \in Canceller, CancelLoads(x)
      PROVE  \A i \in Req \ asked' : Terminal(req[i].status) => req'[i] = req[i]
  BY <1>31 DEF CancelLoads, turnVars
<1>32. ASSUME NEW x \in Canceller, CancelSaves(x)
      PROVE  \A i \in Req \ asked' : Terminal(req[i].status) => req'[i] = req[i]
  BY ReqAssumption, <1>32 DEF CancelSaves, NoCall, Done, Save, turnVars, CancelTrail, FileTrail,
      Shape, Busy, CoreOK, InLoop, Working, Call, File, Status, NoFile, Terminal
<1>33. ASSUME NEW x \in Canceller, CancelSignals(x)
      PROVE  \A i \in Req \ asked' : Terminal(req[i].status) => req'[i] = req[i]
  BY <1>33 DEF CancelSignals, NoCall, Done, CancelerFor, Target, turnVars
<1>34. ASSUME NEW x \in Canceller, CloseMarks(x)
      PROVE  \A i \in Req \ asked' : Terminal(req[i].status) => req'[i] = req[i]
  BY <1>34 DEF CloseMarks, NoCall, Done, turnVars
<1>35. ASSUME UNCHANGED vars
      PROVE  \A i \in Req \ asked' : Terminal(req[i].status) => req'[i] = req[i]
  BY <1>35 DEF vars, turnVars
<1>36. ASSUME Unmark
      PROVE  \A i \in Req \ asked' : Terminal(req[i].status) => req'[i] = req[i]
  BY <1>36 DEF Unmark, turnVars
<1>37. ASSUME Mark
      PROVE  \A i \in Req \ asked' : Terminal(req[i].status) => req'[i] = req[i]
  BY <1>37 DEF Mark, Target, turnVars
<1>38. ASSUME Exited
      PROVE  \A i \in Req \ asked' : Terminal(req[i].status) => req'[i] = req[i]
  BY <1>38 DEF Exited, turnVars
<1>39. ASSUME NEW t \in named, OldCopySaved(t)
      PROVE  \A i \in Req \ asked' : Terminal(req[i].status) => req'[i] = req[i]
  BY <1>39 DEF OldCopySaved, turnVars
<1>q. QED
  BY <1>1, <1>2, <1>3, <1>4, <1>5, <1>6, <1>7, <1>8, <1>9, <1>10, <1>11, <1>12,
      <1>13, <1>14, <1>15, <1>16, <1>17, <1>18, <1>19, <1>20, <1>21, <1>22, <1>23,
      <1>24, <1>25, <1>26, <1>27, <1>28, <1>29, <1>30, <1>31, <1>32, <1>33, <1>34,
      <1>35, <1>36, <1>37, <1>38, <1>39 DEF Next, Command, Cancel, Canceling, Loop, Turn

\* RanTrail is inductive: a request is executed from "claimed" only, and does not
\* come back there.
LEMMA RanStep ==
  ASSUME CoreOK, RecordOK, Shape, CancelTrail, FileTrail, RanTrail, [Next]_vars
  PROVE  RanTrail'
<1>1. ASSUME NEW r \in Req, Enqueue(r)
      PROVE  RanTrail'
  BY <1>1 DEF Enqueue, Save, turnVars, RanTrail, CoreOK, InLoop, FileTrail,
      Working, Terminal
<1>2. ASSUME NEW r \in Req, EnsureOwner(r)
      PROVE  RanTrail'
  BY <1>2 DEF EnsureOwner, turnVars, RanTrail, InLoop
<1>3. ASSUME NEW r \in Req, WaitReturns(r)
      PROVE  RanTrail'
  BY <1>3 DEF WaitReturns, Terminal, turnVars, RanTrail
<1>4. ASSUME Acquire
      PROVE  RanTrail'
  BY <1>4 DEF Acquire, Running, turnVars, RanTrail
<1>5. ASSUME NEW r \in Req, RequeueOne(r)
      PROVE  RanTrail'
  BY <1>5 DEF RequeueOne, Save, turnVars, RanTrail
<1>6. ASSUME EnterLoop
      PROVE  RanTrail'
  BY <1>6 DEF EnterLoop, turnVars, RanTrail
<1>7. ASSUME NEW r \in Req, NextPending(r)
      PROVE  RanTrail'
  BY <1>7 DEF NextPending, Queued, turnVars, RanTrail, InLoop
<1>8. ASSUME IdleExit
      PROVE  RanTrail'
  BY <1>8 DEF IdleExit, Queued, turnVars, RanTrail, InLoop
<1>9. ASSUME Claim
      PROVE  RanTrail'
  BY <1>9 DEF Claim, Target, Save, turnVars, RanTrail, CoreOK, InLoop, FileTrail,
      Working, Terminal
<1>10. ASSUME NEW s \in {"completed", "failed"}, RunControl(s)
      PROVE  RanTrail'
  BY <1>10 DEF RunControl, Target, turnVars, RanTrail, CoreOK, InLoop, FileTrail,
      Working, Terminal
<1>11. ASSUME StartTurn
      PROVE  RanTrail'
  BY <1>11 DEF StartTurn, Target, turnVars, RanTrail, CoreOK, InLoop, FileTrail,
      Working, Terminal
<1>12. ASSUME SettleTurn
      PROVE  RanTrail'
  BY <1>12 DEF SettleTurn, turnVars, RanTrail, InLoop
<1>13. ASSUME JudgeTurn
      PROVE  RanTrail'
  BY <1>13 DEF JudgeTurn, turnVars, RanTrail, InLoop
<1>14. ASSUME SaveOutcome
      PROVE  RanTrail'
  BY <1>14 DEF SaveOutcome, Target, Save, turnVars, RanTrail, CoreOK, InLoop,
      FileTrail, Working, Shape, Busy, Terminal
<1>15. ASSUME NextRound
      PROVE  RanTrail'
  BY <1>15 DEF NextRound, Target, turnVars, RanTrail, InLoop
<1>16. ASSUME CloseExit
      PROVE  RanTrail'
  BY <1>16 DEF CloseExit, turnVars, RanTrail, InLoop
<1>17. ASSUME Leave
      PROVE  RanTrail'
  BY <1>17 DEF Leave, OwnerEnds, HandlersEnd, NoCall, Done, turnVars, RanTrail, InLoop
<1>18. ASSUME Crash
      PROVE  RanTrail'
  BY <1>18 DEF Crash, OwnerEnds, HandlersEnd, NoCall, Done, turnVars, RanTrail, InLoop
<1>19. ASSUME ErrorExit
      PROVE  RanTrail'
  BY <1>19 DEF ErrorExit, turnVars, RanTrail, InLoop
<1>20. ASSUME TurnFails
      PROVE  RanTrail'
  BY <1>20 DEF TurnFails, turnVars, RanTrail
<1>21. ASSUME SendPrompt
      PROVE  RanTrail'
  BY <1>21 DEF SendPrompt, turnVars, RanTrail
<1>22. ASSUME NEW a \in {"end", "error", "cancelled"}, AgentAnswers(a)
      PROVE  RanTrail'
  BY <1>22 DEF AgentAnswers, Target, turnVars, RanTrail
<1>23. ASSUME ForwardCancel
      PROVE  RanTrail'
  BY <1>23 DEF ForwardCancel, ActiveTurn, turnVars, RanTrail
<1>24. ASSUME TurnReturns
      PROVE  RanTrail'
  BY <1>24 DEF TurnReturns, turnVars, RanTrail
<1>25. ASSUME Poll
      PROVE  RanTrail'
  BY <1>25 DEF Poll, Target, turnVars, RanTrail
<1>26. ASSUME NEW x \in Canceller, NEW r \in Req, CommandAims(x, r)
      PROVE  RanTrail'
  BY <1>26 DEF CommandAims, NoCall, turnVars, RanTrail
<1>27. ASSUME NEW x \in Canceller, CancelPrompt(x)
      PROVE  RanTrail'
  BY <1>27 DEF CancelPrompt, NoCall, Done, turnVars, RanTrail
<1>28. ASSUME NEW x \in Canceller, CloseActive(x)
      PROVE  RanTrail'
  BY <1>28 DEF CloseActive, ActiveTurn, Healthy, turnVars, RanTrail
<1>29. ASSUME NEW x \in Canceller, CloseAims(x)
      PROVE  RanTrail'
  BY <1>29 DEF CloseAims, turnVars, RanTrail
<1>30. ASSUME NEW x \in Canceller, CloseIdle(x)
      PROVE  RanTrail'
  BY <1>30 DEF CloseIdle, NoCall, Done, ActiveTurn, Healthy, turnVars, RanTrail
<1>31. ASSUME NEW x \in Canceller, CancelLoads(x)
      PROVE  RanTrail'
  BY <1>31 DEF CancelLoads, turnVars, RanTrail
<1>32. ASSUME NEW x \in Canceller, CancelSaves(x)
      PROVE  RanTrail'
  BY ReqAssumption, <1>32 DEF CancelSaves, NoCall, Done, Save, turnVars, RanTrail, CancelTrail,
      FileTrail, Shape, Busy, CoreOK, InLoop, Working, Call, File, Status, NoFile,
      Terminal
<1>33. ASSUME NEW x \in Canceller, CancelSignals(x)
      PROVE  RanTrail'
  BY <1>33 DEF CancelSignals, NoCall, Done, CancelerFor, Target, turnVars, RanTrail
<1>34. ASSUME NEW x \in Canceller, CloseMarks(x)
      PROVE  RanTrail'
  BY <1>34 DEF CloseMarks, NoCall, Done, turnVars, RanTrail
<1>35. ASSUME UNCHANGED vars
      PROVE  RanTrail'
  BY <1>35 DEF vars, turnVars, RanTrail
<1>36. ASSUME Unmark
      PROVE  RanTrail'
  BY <1>36 DEF Unmark, turnVars, RanTrail, InLoop, Shape, FileTrail, Working
<1>37. ASSUME Mark
      PROVE  RanTrail'
  BY <1>37 DEF Mark, Target, turnVars, RanTrail, InLoop, Shape, FileTrail, Working
<1>38. ASSUME Exited
      PROVE  RanTrail'
  BY <1>38 DEF Exited, turnVars, RanTrail, InLoop, Shape, FileTrail, Working
<1>39. ASSUME NEW t \in named, OldCopySaved(t)
      PROVE  RanTrail'
  BY <1>39 DEF OldCopySaved, turnVars, RanTrail, InLoop, Shape, FileTrail, Working
<1>q. QED
  BY <1>1, <1>2, <1>3, <1>4, <1>5, <1>6, <1>7, <1>8, <1>9, <1>10, <1>11, <1>12,
      <1>13, <1>14, <1>15, <1>16, <1>17, <1>18, <1>19, <1>20, <1>21, <1>22, <1>23,
      <1>24, <1>25, <1>26, <1>27, <1>28, <1>29, <1>30, <1>31, <1>32, <1>33, <1>34,
      <1>35, <1>36, <1>37, <1>38, <1>39 DEF Next, Command, Cancel, Canceling, Loop, Turn

\* Before anything is enqueued there is nothing to trace.
LEMMA InitIInv == Init => IInv
<1> SUFFICES ASSUME Init PROVE IInv
  OBVIOUS
<1>1. NoCall \in Call /\ NoFile \in File
  BY DEF NoCall, NoFile, Call, File, Status
<1>2. TypeOK
  <2>1. starts \in 0 .. MaxStarts /\ failures \in 0 .. MaxFailures
    BY BoundAssumption DEF Init
  <2>2. mem \in [id : Req \cup {None}, cancel : BOOLEAN]
    BY DEF Init
  <2>3. CoreOK
    BY <1>1, <2>1, <2>2 DEF Init, CoreOK, InLoop
  <2>4. RecordOK
    BY DEF Init, RecordOK
  <2>q. QED
    BY <2>3, <2>4, TypeParts
<1>3. Shape /\ CancelTrail
  BY DEF Init, Shape, CancelTrail, Busy, NoFile, NoCall
<1>4. FileTrail /\ RanTrail
  BY DEF Init, FileTrail, RanTrail, NoFile, InLoop, Terminal
<1>5. AimTrail
  BY DEF Init, AimTrail, RecordTrue, Marked, NoFile, NoCall
<1>q. QED
  BY <1>2, <1>3, <1>4, <1>5 DEF IInv


\* The strengthening is inductive.
LEMMA InductiveIInv == Spec => []IInv
<1>1. IInv /\ [Next]_vars => IInv'
  <2> SUFFICES ASSUME IInv, [Next]_vars PROVE IInv'
    OBVIOUS
  <2>1. CoreOK /\ RecordOK /\ Shape /\ CancelTrail /\ AimTrail /\ FileTrail /\ RanTrail
    BY TypeParts DEF IInv
  <2>2. CoreOK' /\ RecordOK' /\ Shape'
    BY <2>1, TypeStep, RecordStep, ShapeStep
  <2>3. CancelTrail' /\ AimTrail' /\ FileTrail' /\ RanTrail'
    BY <2>1, CancelStep, AimStep, FileStep, RanStep
  <2>4. TypeOK'
    BY <2>2 DEF TypeOK, CoreOK, RecordOK
  <2>q. QED
    BY <2>2, <2>3, <2>4 DEF IInv
<1>q. QED
  BY InitIInv, <1>1, PTL DEF Spec

\* Every variable keeps its type.
THEOREM TypeCorrect == Spec => []TypeOK
<1>1. IInv => TypeOK
  BY DEF IInv
<1>q. QED
  BY InductiveIInv, <1>1, PTL

\* Whatever else goes on, an owner executes a request nobody tries to cancel at
\* most once (RequeueOrphanedRunningRequests, NextPending and the loop's Saves).
THEOREM ExecutedOncePerStart == Spec => []OncePerStart
<1>1. IInv => OncePerStart
  BY DEF IInv, RanTrail, OncePerStart
<1>q. QED
  BY InductiveIInv, <1>1, PTL

\* The "running" files are those of the request in the owner's hand.
THEOREM RunningFilesAreCurrent == Spec => []RunningIsCurrent
<1>1. IInv => RunningIsCurrent
  BY DEF IInv, FileTrail, RunningIsCurrent
<1>q. QED
  BY InductiveIInv, <1>1, PTL

\* A cancel hits the request it was meant for, a close those the owner worked on while it
\* was made; once an old copy, an owner that ended in mid-request or its late clean-up has
\* led the record astray, at most the request that the record named instead
\* (owner_ipc.go:475-538, main.go:1053-1091).
THEOREM CancelsHitTheirTarget == Spec => []CancelledOnlyIfAsked
<1>1. IInv => CancelledOnlyIfAsked
  BY DEF IInv, AimTrail, RecordTrue, Hit, CancelledOnlyIfAsked
<1>q. QED
  BY InductiveIInv, <1>1, PTL

\* What a waiting command was told does not change afterwards.
THEOREM EndIsFinal == Spec => FinalUnlessCancelled
<1>1. IInv /\ [Next]_vars =>
        [\A r \in Req \ asked' : Terminal(req[r].status) => req'[r] = req[r]]_vars
  BY FinalStep, TypeParts DEF IInv
<1>q. QED
  BY InductiveIInv, <1>1, PTL DEF Spec, FinalUnlessCancelled

-----------------------------------------------------------------------------
\* OwnerQueue implements RequestLife.

\* What RequestLife sees of a state.
LifeOf  == [r \in Req |-> IF r \in asked THEN "contested" ELSE req[r].status]
HeardOf == [r \in Req |-> IF Terminal(cl[r]) THEN cl[r] ELSE "absent"]
Up      == own \in InLoop

\* A request is in the queue before the owner takes it up, the record names it or
\* anybody cancels it.
NamedPresent ==
  /\ {active, tcopy} \subseteq named \cup {None}
  /\ \A t \in named \ {None} : req[t].status # "absent"
CallsPresent ==
  \A x \in Canceller :
    /\ can[x].pc \in {"ask", "load", "save", "signal"} => req[can[x].target].status # "absent"
    /\ can[x].pc = "save" => can[x].seen.status # "absent"
Present ==
  /\ own \in Busy => req[mem.id].status # "absent"
  /\ NamedPresent /\ CallsPresent

\* The steps that write a request file.
Saves == \/ \E r \in Req : Enqueue(r) \/ RequeueOne(r)
         \/ Claim \/ SaveOutcome
         \/ \E x \in Canceller : CancelSaves(x)

LEMMA OnlySaves ==
  ASSUME [Next]_vars
  PROVE  Saves \/ req' = req
BY DEF Saves, Next, vars, Command, Cancel, Canceling, Loop, Turn, EnsureOwner, WaitReturns, Acquire,
       EnterLoop, NextPending, IdleExit, RunControl, StartTurn, SettleTurn, JudgeTurn, NextRound,
       CloseExit, Leave, Crash, ErrorExit, OwnerEnds, TurnFails, SendPrompt, AgentAnswers, ForwardCancel,
       TurnReturns, Poll, Unmark, Mark, Exited, OldCopySaved, CommandAims, CancelPrompt, CloseActive, CloseAims, CloseIdle, CancelLoads,
       CancelSignals, CloseMarks

\* No step takes a request out of the queue's directory.
LEMMA FilesStay ==
  ASSUME TypeOK, Shape, Present, [Next]_vars, NEW r \in Req, req[r].status # "absent"
  PROVE  req'[r].status # "absent"
<1>1. CASE req' = req
  BY <1>1
<1>2. ASSUME NEW s \in Req, NEW status, NEW cancel \in BOOLEAN, Save(s, status, cancel), status # "absent"
      PROVE  req'[r].status # "absent"
  BY <1>2 DEF Save, TypeOK
<1>3. ASSUME NEW s \in Req, Enqueue(s) \/ RequeueOne(s) PROVE req'[r].status # "absent"
  BY <1>2, <1>3 DEF Enqueue, RequeueOne
<1>4. ASSUME Claim \/ SaveOutcome PROVE req'[r].status # "absent"
  <2>1. mem.id \in Req /\ mem.cancel \in BOOLEAN /\ (own = "ended" => outcome # "absent")
    BY <1>4 DEF Claim, SaveOutcome, Shape, Busy, TypeOK
  <2> QED
    BY <1>2, <1>4, <2>1 DEF Claim, SaveOutcome, Target
<1>5. ASSUME NEW x \in Canceller, CancelSaves(x) PROVE req'[r].status # "absent"
  <2>1. can[x].target \in Req /\ can[x].seen.status # "absent"
    BY <1>5 DEF CancelSaves, Shape, Present, CallsPresent
  <2> QED
    BY <1>2, <1>5, <2>1 DEF CancelSaves
<1> QED
  BY <1>1, <1>3, <1>4, <1>5, OnlySaves DEF Saves

LEMMA PresentStep ==
  ASSUME TypeOK, Shape, Present, Shape', [Next]_vars
  PROVE  Present'
<1>1. own' \in Busy => req'[mem'.id].status # "absent"
  <2>1. CASE \E r \in Req : NextPending(r)
    BY <2>1 DEF NextPending, Queued
  <2>2. CASE own \in Busy /\ mem' = mem
    BY <2>2, FilesStay DEF Present, Shape
  <2>3. \/ own' \notin Busy
        \/ own \in Busy /\ mem' = mem
        \/ \E r \in Req : NextPending(r)
    <3>1. ASSUME NEW r \in Req, Command(r) PROVE own' \notin Busy \/ (own \in Busy /\ mem' = mem)
      BY <3>1 DEF Busy, Command, Enqueue, EnsureOwner, WaitReturns
    <3>2. ASSUME NEW x \in Canceller, Cancel(x) \/ Canceling(x) PROVE own' = own /\ mem' = mem
      BY <3>2 DEF Cancel, Canceling, CommandAims, CancelPrompt, CloseActive, CloseAims, CloseIdle,
           CancelLoads, CancelSaves, CancelSignals, CloseMarks
    <3>3. ASSUME \/ Turn \/ ForwardCancel \/ Poll \/ Exited \/ UNCHANGED vars
                 \/ \E t \in named : OldCopySaved(t)
          PROVE  own' = own /\ mem' = mem
      BY <3>3 DEF vars, Turn, TurnFails, SendPrompt, AgentAnswers, ForwardCancel, TurnReturns, Poll,
           Exited, OldCopySaved
    <3>4. ASSUME \/ IdleExit \/ Crash \/ ErrorExit \/ CloseExit \/ Leave \/ Acquire \/ Unmark
                 \/ EnterLoop \/ NextRound
          PROVE  own' \notin Busy
      BY <3>4 DEF Busy, IdleExit, Crash, ErrorExit, OwnerEnds, CloseExit, Leave, Acquire, Unmark,
           EnterLoop, NextRound
    <3>5. ASSUME \/ Claim \/ Mark \/ StartTurn \/ SettleTurn \/ JudgeTurn \/ SaveOutcome
                 \/ \E s \in {"completed", "failed"} : RunControl(s)
          PROVE  own \in Busy /\ mem' = mem
      BY <3>5 DEF Busy, Claim, Mark, StartTurn, SettleTurn, JudgeTurn, SaveOutcome, RunControl
    <3>6. ASSUME NEW r \in Req, RequeueOne(r) PROVE own' \notin Busy
      BY <3>6 DEF Busy, RequeueOne
    <3> QED
      BY <3>1, <3>2, <3>3, <3>4, <3>5, <3>6 DEF Next, Loop
  <2> QED
    BY <2>1, <2>2, <2>3
<1>2. NamedPresent'
  <2>1. named \in SUBSET (Req \cup {None}) /\ NamedPresent
    BY DEF TypeOK, Present
  <2>2. \A t \in named \ {None} : req'[t].status # "absent"
    BY <2>1, FilesStay DEF NamedPresent
  <2>3. CASE UNCHANGED <<active, named>> /\ tcopy' \in {tcopy, active, None}
    BY <2>1, <2>2, <2>3 DEF NamedPresent
  <2>4. ASSUME NEW t, Name(t), t \in named \cup {None} \/ req'[t].status # "absent",
               tcopy' \in {tcopy, None}
        PROVE  NamedPresent'
    BY <2>1, <2>2, <2>4 DEF NamedPresent, Name
  <2>5. CASE Unmark \/ Exited \/ NextRound
    BY <2>3, <2>4, <2>5 DEF Unmark, Exited, NextRound
  <2>6. CASE Mark
    <3>1. Name(mem.id) /\ tcopy' = tcopy /\ req'[mem.id].status # "absent"
      BY <2>6 DEF Mark, Target, Present, Busy
    <3> QED
      BY <2>4, <3>1
  <2>7. CASE StartTurn \/ Leave \/ Crash
    BY <2>3, <2>7 DEF StartTurn, Leave, Crash, OwnerEnds
  <2>8. CASE TurnFails \/ \E a \in {"end", "error", "cancelled"} : AgentAnswers(a)
    <3>1. tcopy' = None /\ (Name(tcopy) \/ UNCHANGED <<active, named>>)
      BY <2>8 DEF TurnFails, AgentAnswers, TurnSaves
    <3> QED
      BY <2>1, <2>3, <2>4, <3>1 DEF NamedPresent
  <2>9. CASE \E t \in named : OldCopySaved(t)
    BY <2>4, <2>9 DEF OldCopySaved
  <2>10. CASE \E x \in Canceller : (\E r \in Req : CommandAims(x, r)) \/ CloseActive(x) \/ CloseAims(x)
    <3>1. UNCHANGED recordVars
      BY <2>10 DEF CommandAims, CloseActive, CloseAims
    <3> QED
      BY <2>3, <3>1 DEF recordVars
  <2>11. CASE UNCHANGED <<recordVars, aimVars>>
    BY <2>3, <2>11 DEF recordVars
  <2>q. QED
    BY <2>5, <2>6, <2>7, <2>8, <2>9, <2>10, <2>11, OnlyRecordSteps DEF RecordSteps
<1>3. ASSUME NEW x \in Canceller
      PROVE  /\ can'[x].pc \in {"ask", "load", "save", "signal"} => req'[can'[x].target].status # "absent"
             /\ can'[x].pc = "save" => can'[x].seen.status # "absent"
  <2>1. can \in [Canceller -> Call] /\ can[x] \in Call
    BY DEF TypeOK
  <2>2. /\ can[x].pc \in {"ask", "load", "save", "signal"} =>
             can[x].target \in Req /\ req[can[x].target].status # "absent" /\ req'[can[x].target].status # "absent"
        /\ can[x].pc = "save" => can[x].seen.status # "absent"
    BY FilesStay DEF Present, CallsPresent, Shape
  <2>3. CASE can'[x] = can[x]
    BY <2>2, <2>3
  <2>4. ASSUME NEW r \in Req, CommandAims(x, r)
        PROVE  can'[x].pc # "save" /\ req'[can'[x].target].status # "absent"
    <3>1. req' = req /\ can'[x].target = r /\ can'[x].pc \in {"ask", "load"}
      BY <2>1, <2>4 DEF CommandAims, NoCall
    <3>2. req[r].status # "absent"
      BY <2>4 DEF CommandAims, Found, Queued, Running, Present, NamedPresent
    <3> QED
      BY <3>1, <3>2
  <2>5. ASSUME CancelPrompt(x)
        PROVE  can'[x].pc = "done" \/ (can'[x].pc = "load" /\ can'[x].target = can[x].target)
    BY <2>1, <2>5 DEF CancelPrompt, NoCall, Done, Call
  <2>6. ASSUME CloseActive(x) \/ CloseIdle(x) \/ CloseMarks(x)
        PROVE  can'[x].pc \in {"aim", "done"}
    <3> DEFINE y == [can[x] EXCEPT !.via = "close", !.pc = "aim", !.turn = Target]
    <3>1. CloseActive(x) => can' = [can EXCEPT ![x] = y]
      BY <2>1 DEF CloseActive
    <3>2. y.pc = "aim"
      BY <2>1 DEF Call
    <3>3. CloseIdle(x) \/ CloseMarks(x) => can' = [can EXCEPT ![x] = Done]
      BY DEF CloseIdle, CloseMarks
    <3> HIDE DEF y
    <3> QED
      BY <2>1, <2>6, <3>1, <3>2, <3>3, DoneCall
  <2>7. ASSUME CloseAims(x)
        PROVE  can'[x].pc = "mark" \/ (can'[x].pc = "load" /\ req'[can'[x].target].status # "absent")
    <3>1. req' = req
      BY <2>7 DEF CloseAims
    <3>2. CASE active = None \/ Terminal(req[active].status)
      BY <2>1, <2>7, <3>2 DEF CloseAims, Call
    <3>3. CASE ~(active = None \/ Terminal(req[active].status))
      <4>1. can'[x].pc = "load" /\ can'[x].target = active
        BY <2>1, <2>7, <3>3 DEF CloseAims, Call
      <4>2. req[active].status # "absent"
        BY <3>3 DEF Present, NamedPresent
      <4> QED
        BY <3>1, <4>1, <4>2
    <3> QED
      BY <3>2, <3>3
  <2>8. ASSUME CancelLoads(x)
        PROVE  can'[x].target = can[x].target /\ can'[x].pc = "save" /\ can'[x].seen = req[can[x].target]
    BY <2>1, <2>8 DEF CancelLoads, Call
  <2>9. ASSUME CancelSaves(x)
        PROVE  can'[x].pc = "done" \/ (can'[x].pc = "signal" /\ can'[x].target = can[x].target)
    BY <2>1, <2>9 DEF CancelSaves, NoCall, Done, Call
  <2>10. ASSUME CancelSignals(x)
         PROVE  can'[x].pc \in {"mark", "done"}
    BY <2>1, <2>10 DEF CancelSignals, NoCall, Done, Call
  <2>11. ASSUME HandlersEnd
         PROVE  \/ can'[x] = can[x] \/ can'[x].pc = "done"
                \/ (can'[x].pc = "load" /\ can'[x].target = can[x].target /\ can[x].via = "socket")
    BY <2>1, <2>11 DEF HandlersEnd, NoCall, Done, Call
  <2>12. can[x].via = "socket" => can[x].pc \in {"ask", "load", "save", "signal"}
    BY DEF Shape
  <2>13. ASSUME NEW y \in Canceller, Cancel(y) \/ Canceling(y), y # x PROVE can'[x] = can[x]
    BY <2>1, <2>13 DEF Cancel, Canceling, CommandAims, CancelPrompt, CloseActive, CloseAims, CloseIdle,
         CancelLoads, CancelSaves, CancelSignals, CloseMarks
  <2>14. \/ can' = can \/ HandlersEnd
         \/ \E y \in Canceller : Cancel(y) \/ Canceling(y)
    BY DEF Next, vars, Command, Loop, Turn, Enqueue, EnsureOwner, WaitReturns,
       Acquire, RequeueOne, EnterLoop, NextPending, IdleExit, Claim, RunControl, StartTurn, SettleTurn,
       JudgeTurn, SaveOutcome, NextRound, CloseExit, Leave, Crash, ErrorExit, OwnerEnds, TurnFails,
       SendPrompt, AgentAnswers, ForwardCancel, TurnReturns, Poll, Unmark, Mark, Exited, OldCopySaved
  <2>15. ASSUME Cancel(x) \/ Canceling(x)
         PROVE  /\ can'[x].pc \in {"ask", "load", "save", "signal"} => req'[can'[x].target].status # "absent"
                /\ can'[x].pc = "save" => can'[x].seen.status # "absent"
    <3>1. CancelPrompt(x) => can[x].pc = "ask"
      BY DEF CancelPrompt
    <3>2. CancelLoads(x) => can[x].pc = "load"
      BY DEF CancelLoads
    <3>3. CancelSaves(x) => can[x].pc = "save"
      BY DEF CancelSaves
    <3> QED
      BY <2>2, <2>4, <2>5, <2>6, <2>7, <2>8, <2>9, <2>10, <2>15, <3>1, <3>2, <3>3 DEF Cancel, Canceling
  <2>q. QED
    BY <2>2, <2>3, <2>11, <2>12, <2>13, <2>14, <2>15
<1> QED
  BY <1>1, <1>2, <1>3 DEF Present, CallsPresent

-----------------------------------------------------------------------------
LEMMA SeenSame ==
  ASSUME req' = req, asked' = asked, cl' = cl
  PROVE  LifeOf' = LifeOf /\ HeardOf' = HeardOf
BY DEF LifeOf, HeardOf

\* The file of one request is written, nothing else happens that RequestLife sees.
LEMMA OneFile ==
  ASSUME TypeOK, NEW r \in Req, NEW status, NEW cancel, Save(r, status, cancel), asked' = asked
  PROVE  LifeOf' = IF r \in asked THEN LifeOf ELSE [LifeOf EXCEPT ![r] = status]
BY DEF Save, LifeOf, TypeOK

\* A command puts its request into the queue.
LEMMA EnqueueRefines ==
  ASSUME IInv, NEW r \in Req, Enqueue(r)
  PROVE  [Life!Next]_Life!lifeVars
<1>1. /\ TypeOK /\ Save(r, "queued", FALSE) /\ asked' = asked /\ own' = own
      /\ cl[r] = "idle" /\ cl' = [cl EXCEPT ![r] = "enqueued"]
  BY DEF Enqueue, IInv
<1>2. HeardOf' = HeardOf
  BY <1>1 DEF HeardOf, Terminal, TypeOK
<1>3. CASE r \in asked
  BY <1>1, <1>2, <1>3, OneFile DEF Life!lifeVars, LifeOf, HeardOf
<1>4. CASE r \notin asked
  <2>1. LifeOf[r] = "absent" /\ LifeOf' = [LifeOf EXCEPT ![r] = "queued"]
    BY <1>1, <1>4, OneFile DEF LifeOf, IInv, FileTrail
  <2>2. Life!Submit(r)
    BY <1>1, <1>2, <2>1 DEF Life!Submit, Life!Become, LifeOf, HeardOf
  <2> QED
    BY <2>2 DEF Life!Next
<1> QED
  BY <1>3, <1>4

\* A command is told what it loads, once it is an outcome.
LEMMA WaitRefines ==
  ASSUME IInv, NEW r \in Req, WaitReturns(r)
  PROVE  [Life!Next]_Life!lifeVars
<1> DEFINE s == req[r].status
<1>1. /\ cl[r] = "waiting" /\ Terminal(s) /\ cl' = [cl EXCEPT ![r] = s]
      /\ req' = req /\ asked' = asked /\ own' = own
      /\ cl \in [Req -> {"idle", "enqueued", "waiting", "completed", "failed", "cancelled"}]
  BY DEF WaitReturns, IInv, TypeOK
<1>2. s \in Life!Told
  BY <1>1 DEF Terminal, Life!Told, Life!Outcome
<1>3. LifeOf[r] \in {s, "contested"}
  BY DEF LifeOf
<1> HIDE DEF s
<1>4. HeardOf[r] = "absent" /\ HeardOf' = [HeardOf EXCEPT ![r] = s]
  BY <1>1 DEF HeardOf, Terminal
<1>5. LifeOf' = LifeOf
  BY <1>1 DEF LifeOf
<1>6. Life!Tell(r)
  BY <1>1, <1>2, <1>3, <1>4, <1>5 DEF Life!Tell, LifeOf, HeardOf
<1> QED
  BY <1>6 DEF Life!Next

\* RequeueOrphanedRunningRequests, one file at a time, and the way into the loop.
LEMMA RecoverRefines ==
  ASSUME IInv, EnterLoop \/ Unmark \/ \E r \in Req : RequeueOne(r)
  PROVE  [Life!Next]_Life!lifeVars
<1>1. TypeOK /\ FileTrail /\ own \in {"requeue", "unmark"} /\ cl' = cl /\ asked' = asked
  BY DEF EnterLoop, Unmark, RequeueOne, IInv
<1>2. HeardOf' = HeardOf /\ ~Up
  BY <1>1 DEF HeardOf, Up, InLoop
<1>3. ASSUME NEW r \in Req, RequeueOne(r)
      PROVE  [Life!Next]_Life!lifeVars
  <2>1. r \in orphans /\ Save(r, "queued", FALSE) /\ own' \in {"requeue", "unmark"}
    BY <1>3 DEF RequeueOne
  <2>2. Up' = FALSE
    BY <2>1 DEF Up, InLoop
  <2>3. CASE r \in asked
    <3>1. LifeOf' = LifeOf
      BY <1>1, <2>1, <2>3, OneFile
    <3>2. Up' = Up
      BY <1>1, <2>1 DEF Up, InLoop
    <3> QED
      BY <1>2, <3>1, <3>2 DEF Life!lifeVars, LifeOf, HeardOf, Up
  <2>4. CASE r \notin asked
    <3>1. LifeOf[r] = "running" /\ LifeOf' = [LifeOf EXCEPT ![r] = "queued"]
      BY <1>1, <2>1, <2>4, OneFile DEF LifeOf, FileTrail
    <3>2. {r} \in SUBSET {q \in Req : LifeOf[q] = "running"}
      BY <3>1
    <3>3. LifeOf' = [q \in Req |-> IF q \in {r} THEN "queued" ELSE LifeOf[q]]
      BY <3>1 DEF LifeOf
    <3>4. Life!Recover
      BY <1>2, <2>2, <3>2, <3>3 DEF Life!Recover, Life!Running, LifeOf, HeardOf, Up
    <3> QED
      BY <3>4 DEF Life!Next
  <2> QED
    BY <2>3, <2>4
<1>4. ASSUME EnterLoop \/ Unmark
      PROVE  [Life!Next]_Life!lifeVars
  <2>1. orphans = {} /\ own' = "top" /\ req' = req
    BY <1>4 DEF EnterLoop, Unmark, IInv, Shape
  <2>2. {q \in Req : LifeOf[q] = "running"} = {}
    BY <1>1, <2>1 DEF LifeOf, FileTrail
  <2>3. LifeOf' = [q \in Req |-> IF q \in {} THEN "queued" ELSE LifeOf[q]] /\ Up' = TRUE
    BY <1>1, <2>1 DEF LifeOf, Up, InLoop
  <2>4. Life!Recover
    BY <1>2, <2>2, <2>3 DEF Life!Recover, Life!Running, LifeOf, HeardOf, Up
  <2> QED
    BY <2>4 DEF Life!Next
<1> QED
  BY <1>3, <1>4

\* The loop starts the request in its hand, and no other is running ...
LEMMA ClaimRefines ==
  ASSUME IInv, Claim
  PROVE  [Life!Next]_Life!lifeVars
<1>1. /\ TypeOK /\ FileTrail /\ own = "picked" /\ own' = "claimed" /\ mem.id \in Req
      /\ Save(mem.id, "running", mem.cancel) /\ cl' = cl /\ asked' = asked
  BY DEF Claim, Target, IInv, Shape, Busy
<1>2. HeardOf' = HeardOf /\ Up /\ Up'
  BY <1>1 DEF HeardOf, Up, InLoop
<1>3. CASE mem.id \in asked
  BY <1>1, <1>2, <1>3, OneFile DEF Life!lifeVars, LifeOf, HeardOf, Up
<1>4. CASE mem.id \notin asked
  <2>1. LifeOf[mem.id] = "queued" /\ LifeOf' = [LifeOf EXCEPT ![mem.id] = "running"]
    BY <1>1, <1>4, OneFile DEF LifeOf, FileTrail
  <2>2. {q \in Req : LifeOf[q] = "running"} = {}
    BY <1>1 DEF LifeOf, FileTrail, InLoop, Working
  <2>3. PICK q \in Req : q = mem.id
    BY <1>1
  <2>4. Life!Start(q)
    BY <1>2, <2>1, <2>2, <2>3 DEF Life!Start, Life!Running, Life!Become, LifeOf, HeardOf, Up
  <2> QED
    BY <2>4 DEF Life!Next
<1> QED
  BY <1>3, <1>4

\* ... and saves its outcome, which is "cancelled" only if somebody asked for that.
LEMMA OutcomeRefines ==
  ASSUME IInv, SaveOutcome
  PROVE  [Life!Next]_Life!lifeVars
<1>1. /\ TypeOK /\ FileTrail /\ own = "ended" /\ own' = "saved" /\ mem.id \in Req
      /\ Save(mem.id, outcome, mem.cancel) /\ cl' = cl /\ asked' = asked
  BY DEF SaveOutcome, Target, IInv, Shape, Busy
<1>2. HeardOf' = HeardOf /\ Up /\ Up'
  BY <1>1 DEF HeardOf, Up, InLoop
<1>3. CASE mem.id \in asked
  BY <1>1, <1>2, <1>3, OneFile DEF Life!lifeVars, LifeOf, HeardOf, Up
<1>4. CASE mem.id \notin asked
  <2>1. LifeOf[mem.id] = "running" /\ LifeOf' = [LifeOf EXCEPT ![mem.id] = outcome]
    BY <1>1, <1>4, OneFile DEF LifeOf, FileTrail, InLoop, Working
  <2>2. outcome \in Life!Outcome
    BY <1>1, <1>4 DEF IInv, TypeOK, Shape, CancelTrail, Life!Outcome
  <2>3. PICK q \in Req : q = mem.id
    BY <1>1
  <2>4. Life!Finish(q)
    BY <1>2, <2>1, <2>2, <2>3 DEF Life!Finish, Life!Become, LifeOf, HeardOf, Up
  <2> QED
    BY <2>4 DEF Life!Next
<1> QED
  BY <1>3, <1>4

\* RequestCancel loads the request it is aimed at, and writes only that.
LEMMA CancelRefines ==
  ASSUME IInv, Present, NEW x \in Canceller, CancelLoads(x) \/ CancelSaves(x)
  PROVE  [Life!Next]_Life!lifeVars
<1> DEFINE r == can[x].target
<1>1. /\ TypeOK /\ r \in Req /\ req[r].status # "absent" /\ cl' = cl /\ own' = own
  BY DEF CancelLoads, CancelSaves, IInv, Shape, Present, CallsPresent
<1>2. HeardOf' = HeardOf
  BY <1>1 DEF HeardOf
<1>3. CASE CancelLoads(x)
  <2>1. asked' = asked \cup {r} /\ req' = req
    BY <1>3 DEF CancelLoads
  <2> HIDE DEF r
  <2>2. LifeOf[r] # "absent" /\ LifeOf' = [LifeOf EXCEPT ![r] = "contested"]
    BY <1>1, <2>1 DEF LifeOf
  <2>3. PICK q \in Req : q = r
    BY <1>1
  <2>4. Life!Contest(q)
    BY <1>1, <1>2, <2>2, <2>3 DEF Life!Contest, Life!Become, LifeOf, HeardOf
  <2> QED
    BY <2>4 DEF Life!Next
<1>4. CASE CancelSaves(x)
  <2>1. r \in asked /\ asked' = asked /\ Save(r, can[x].seen.status, TRUE)
    BY <1>4 DEF CancelSaves, IInv, CancelTrail
  <2>2. LifeOf' = LifeOf
    BY <1>1, <2>1, OneFile
  <2> QED
    BY <1>1, <1>2, <2>2 DEF Life!lifeVars, LifeOf, HeardOf
<1> QED
  BY <1>3, <1>4

\* An agent that stops a prompt was told to, and nothing is promised of that prompt.
LEMMA AnswerRefines ==
  ASSUME IInv, Present, NEW a \in {"end", "error", "cancelled"}, AgentAnswers(a)
  PROVE  [Life!Next]_Life!lifeVars
<1>1. TypeOK /\ mem.id \in Req /\ req[mem.id].status # "absent" /\ req' = req /\ cl' = cl /\ own' = own
  BY DEF AgentAnswers, IInv, Shape, Busy, Present
<1>2. HeardOf' = HeardOf
  BY <1>1 DEF HeardOf
<1>3. CASE asked' = asked
  BY <1>1, <1>2, <1>3 DEF Life!lifeVars, LifeOf, HeardOf
<1>4. CASE asked' = asked \cup {mem.id}
  <2>1. LifeOf[mem.id] # "absent" /\ LifeOf' = [LifeOf EXCEPT ![mem.id] = "contested"]
    BY <1>1, <1>4 DEF LifeOf
  <2>2. PICK q \in Req : q = mem.id
    BY <1>1
  <2>3. Life!Contest(q)
    BY <1>1, <1>2, <2>1, <2>2 DEF Life!Contest, Life!Become, LifeOf, HeardOf
  <2> QED
    BY <2>3 DEF Life!Next
<1> QED
  BY <1>3, <1>4 DEF AgentAnswers, Target

\* No other step is seen, but for the owner's leaving or dying.
LEMMA OthersRefine ==
  ASSUME req' = req, asked' = asked, cl' = cl \/ \E r \in Req : EnsureOwner(r),
         Up' => Up
  PROVE  [Life!Next]_Life!lifeVars
<1>1. LifeOf' = LifeOf
  BY DEF LifeOf
<1>2. HeardOf' = HeardOf
  <2>1. CASE cl' = cl
    BY <2>1 DEF HeardOf
  <2>2. ASSUME NEW r \in Req, EnsureOwner(r) PROVE HeardOf' = HeardOf
    <3>1. \A q \in Req : q = r \/ cl'[q] = cl[q]
      BY <2>2 DEF EnsureOwner
    <3> QED
      BY <2>2, <3>1 DEF EnsureOwner, HeardOf, Terminal
  <2> QED
    BY <2>1, <2>2
<1>3. Up \in BOOLEAN /\ Up' \in BOOLEAN
  BY DEF Up
<1>4. CASE Up' = Up
  BY <1>1, <1>2, <1>4 DEF Life!lifeVars, LifeOf, HeardOf, Up
<1>5. CASE Up /\ Up' = FALSE
  <2>1. Life!Stop
    BY <1>1, <1>2, <1>5 DEF Life!Stop, LifeOf, HeardOf, Up
  <2> QED
    BY <2>1 DEF Life!Next
<1> QED
  BY <1>3, <1>4, <1>5

LEMMA StepRefines ==
  ASSUME IInv, Present, [Next]_vars
  PROVE  [Life!Next]_Life!lifeVars
<1>1. ASSUME NEW r \in Req, Command(r) PROVE [Life!Next]_Life!lifeVars
  <2>1. CASE EnsureOwner(r)
    BY <2>1, OthersRefine DEF EnsureOwner, Up, InLoop
  <2> QED
    BY <1>1, <2>1, EnqueueRefines, WaitRefines DEF Command
<1>2. ASSUME NEW x \in Canceller, Cancel(x) \/ Canceling(x) PROVE [Life!Next]_Life!lifeVars
  <2>1. CASE CancelLoads(x) \/ CancelSaves(x)
    BY <2>1, CancelRefines
  <2>2. CASE ~(CancelLoads(x) \/ CancelSaves(x))
    <3>1. req' = req /\ asked' = asked /\ cl' = cl /\ own' = own
      BY <1>2, <2>2 DEF Cancel, Canceling, CommandAims, CancelPrompt, CloseActive, CloseAims, CloseIdle,
           CancelSignals, CloseMarks
    <3> QED
      BY <3>1, OthersRefine DEF Up
  <2> QED
    BY <2>1, <2>2
<1>3. ASSUME Turn \/ ForwardCancel \/ Poll \/ Exited \/ (\E t \in named : OldCopySaved(t)) \/ UNCHANGED vars
      PROVE  [Life!Next]_Life!lifeVars
  <2>1. CASE \E a \in {"end", "error", "cancelled"} : AgentAnswers(a)
    BY <2>1, AnswerRefines
  <2>2. CASE ~\E a \in {"end", "error", "cancelled"} : AgentAnswers(a)
    <3>1. req' = req /\ asked' = asked /\ cl' = cl /\ own' = own
      BY <1>3, <2>2 DEF vars, Turn, TurnFails, SendPrompt, ForwardCancel, TurnReturns, Poll, Exited, OldCopySaved
    <3> QED
      BY <3>1, OthersRefine DEF Up
  <2> QED
    BY <2>1, <2>2
<1>4. ASSUME IdleExit \/ Crash \/ ErrorExit \/ CloseExit \/ Leave \/ Acquire
      PROVE  [Life!Next]_Life!lifeVars
  <2>1. req' = req /\ asked' = asked /\ cl' = cl /\ own' \in {"leave", "down", "requeue"}
    BY <1>4 DEF IdleExit, Crash, ErrorExit, OwnerEnds, CloseExit, Leave, Acquire
  <2> QED
    BY <2>1, OthersRefine DEF Up, InLoop
<1>5. ASSUME \/ Mark \/ StartTurn \/ SettleTurn \/ JudgeTurn \/ NextRound
             \/ (\E s \in {"completed", "failed"} : RunControl(s))
             \/ \E r \in Req : NextPending(r)
      PROVE  [Life!Next]_Life!lifeVars
  <2>1. req' = req /\ asked' = asked /\ cl' = cl /\ own \in InLoop
    BY <1>5 DEF Mark, StartTurn, SettleTurn, JudgeTurn, NextRound, RunControl, NextPending, InLoop
  <2> QED
    BY <2>1, OthersRefine DEF Up
<1> QED
  BY <1>1, <1>2, <1>3, <1>4, <1>5, RecoverRefines, ClaimRefines, OutcomeRefines DEF Next, Loop

\* The owner's loop, its turns, the requeue after a crash and the waiting commands keep
\* what RequestLife promises: one request at a time, once by an owner, outcomes for good,
\* and nothing promised only of the requests a cancel was aimed at.
THEOREM Implements == Spec => ImplementsLife
<1>1. Init => Life!Init
  <2> SUFFICES ASSUME Init PROVE Life!Init
    OBVIOUS
  <2>1. /\ \A r \in Req : req[r].status = "absent" /\ ~Terminal(cl[r])
        /\ asked = {} /\ own = "down"
    BY DEF Init, NoFile, Terminal
  <2> QED
    BY <2>1 DEF Life!Init
<1>2. Init => Present
  BY DEF Init, Present, NamedPresent, CallsPresent, NoCall, Busy
<1>3. IInv /\ Present /\ IInv' /\ [Next]_vars => Present'
  BY PresentStep DEF IInv
<1>4. IInv /\ Present /\ [Next]_vars => [Life!Next]_Life!lifeVars
  BY StepRefines
<1> QED
  BY <1>1, <1>2, <1>3, <1>4, InductiveIInv, PTL DEF Spec, ImplementsLife, Life!LifeSpec

\* What follows of the waiting commands: the outcome one was told is in the request file for
\* good, unless a cancel was aimed at the request (main.go:279-286, queue.go:519-552).
THEOREM WordKept == Spec => []Life!WordIsKept
<1> DEFINE L == [r \in Req |-> IF r \in asked THEN "contested" ELSE req[r].status]
           H == [r \in Req |-> IF Terminal(cl[r]) THEN cl[r] ELSE "absent"]
<1>1. Life!Init => Life!WordIsKept
  BY DEF Life!Init, Life!WordIsKept
<1>2. Life!WordIsKept /\ [Life!Next]_Life!lifeVars => Life!WordIsKept'
  <2> SUFFICES ASSUME Life!WordIsKept, [Life!Next]_Life!lifeVars, NEW r \in Req
               PROVE  H'[r] # "absent" => L'[r] \in {H'[r], "contested"}
    BY DEF Life!WordIsKept
  <2>1. H[r] \in {"absent", "completed", "failed", "cancelled"}
    BY DEF Terminal
  <2>2. H[r] # "absent" => L[r] \in {H[r], "contested"}
    BY DEF Life!WordIsKept
  <2>3. ASSUME NEW q \in Req, Life!Tell(q)
        PROVE  H'[r] # "absent" => L'[r] \in {H'[r], "contested"}
    <3>1. L' = L /\ \E s \in Life!Told : L[q] \in {s, "contested"} /\ H' = [H EXCEPT ![q] = s]
      BY <2>3 DEF Life!Tell
    <3>2. q = r \/ H'[r] = H[r]
      BY <3>1
    <3>3. q = r => \E s \in Life!Told : L[r] \in {s, "contested"} /\ H'[r] = s
      BY <3>1
    <3> QED
      BY <3>1, <3>2, <3>3, <2>2
  <2>4. ASSUME NEW q \in Req, Life!Submit(q) \/ Life!Start(q) \/ Life!Finish(q) \/ Life!Contest(q)
        PROVE  H' = H /\ (L'[r] = L[r] \/ L[r] \in {"absent", "queued", "running"} \/ L'[r] = "contested")
    <3>1. H' = H
      BY <2>4 DEF Life!Submit, Life!Start, Life!Finish, Life!Contest
    <3>2. \E s : /\ L' = [L EXCEPT ![q] = s]
                 /\ s = "contested" \/ L[q] \in {"absent", "queued", "running"}
      BY <2>4 DEF Life!Submit, Life!Start, Life!Finish, Life!Contest, Life!Become
    <3>3. q = r \/ L'[r] = L[r]
      BY <3>2
    <3>4. q = r => L'[r] = "contested" \/ L[r] \in {"absent", "queued", "running"}
      BY <3>2
    <3> QED
      BY <3>1, <3>3, <3>4
  <2>5. ASSUME Life!Recover
        PROVE  H' = H /\ (L'[r] = L[r] \/ L[r] \in {"absent", "queued", "running"})
    <3>1. H' = H
      BY <2>5 DEF Life!Recover
    <3>2. PICK S \in SUBSET Life!Running :
            L' = [x \in Req |-> IF x \in S THEN "queued" ELSE L[x]]
      BY <2>5 DEF Life!Recover
    <3>3. r \in S => L[r] = "running"
      BY DEF Life!Running
    <3> QED
      BY <3>1, <3>2, <3>3
  <2>6. ASSUME Life!Stop \/ UNCHANGED Life!lifeVars
        PROVE  H' = H /\ L' = L
    BY <2>6 DEF Life!Stop, Life!lifeVars
  <2> QED
    BY <2>1, <2>2, <2>3, <2>4, <2>5, <2>6 DEF Life!Next
<1> QED
  BY <1>1, <1>2, Implements, PTL DEF ImplementsLife, Life!LifeSpec
=============================================================================
