------------------------ MODULE RuntimeSession_proofs ------------------------
(***************************************************************************)
(* Proofs about RuntimeSession, for any records, commands, agents and      *)
(* crashes: its invariants.  A process that works on a record holds a copy *)
(* of it.  While the copy is fresh it is the record; a save of another one *)
(* is in the history (lost).                                               *)
(***************************************************************************)
EXTENDS RuntimeSession, TLAPS

-----------------------------------------------------------------------------
\* What a command may queue, and what a process may be at work on.
QueueOps == {"prompt", "set-mode", "set-config", "close"}
Work(p)  == IF job[p].what = "persist" THEN cmd[p].op ELSE job[p].what
Changes(op) == CASE op = "set-mode"   -> {"mode"}
                 [] op = "set-config" -> {"config"}
                 [] op = "close"      -> {"close"}
                 [] OTHER             -> {}
Blamed(r)   == r.closed \/ r.mode # "persistent"
Known(i)    == rec[i] # None \/ i \in pruned
Faithful(i) == rec[i] # None /\ i \notin lost \cup imported
CanClose == {"set-mode", "close"}

JobOK(p) ==
  LET j == job[p]
      i == job[p].id
  IN  /\ j.pc = "none" => j = NoJob
      /\ j.pc # "none" => i \in Ids /\ Known(i)
      /\ j.copy # None <=> j.pc \in {"probe", "save"}
      /\ j.copy = None => j.fresh
      /\ j.pc = "probe" => p \in Cmds /\ cmd[p].via # "owner"
      /\ j.what = "unmark" => j.pc # "error"
      /\ j.what = "persist" => p \in Cmds
      /\ j.what = "none" => j.pc = "none"
      /\ p \in Cmds => j.what \in QueueOps \cup {"none", "cancel", "persist"}
      /\ j.copy # None /\ j.fresh => rec[i] = j.copy
      /\ j.pc = "ok" /\ Faithful(i) => \A tag \in Changes(Work(p)) : Shows(tag, rec[i])
      /\ agent # "modes" => /\ Work(p) \in CanClose /\ j.pc # "none" => i \in cause
                            /\ j.copy # None /\ Blamed(j.copy) => i \in cause

CmdOK(c) ==
  LET x == cmd[c] IN
  /\ x.pc # "job" => job[c] = NoJob
  /\ x.pc = "job" => Tells(x.op) \subseteq Changes(Work(c))
  /\ x.id # 0 => Known(x.id)
  /\ x.pc \in {"decide", "export", "handler", "enqueue"} => x.id # 0
  /\ x.pc \in {"handler", "enqueue"} \/ x.via # "self" => x.op \in QueueOps
  /\ x.via # "self" => x.pc \in {"handler", "job", "done"}
  /\ x.pc \in {"lookup", "find", "create", "exec", "import", "list", "delete"} => x.op \notin CanClose
  /\ x.pc = "lookup" => x.op = "new"
  /\ x.pc = "exec" => x.op = "exec"
  /\ agent # "modes" /\ x.op \in CanClose /\ x.id # 0 => x.id \in cause
  /\ x.pc = "create" /\ x.alone /\ ~x.beside => \A i \in OfKey("named") : Open(i) => i \in lost

Waits(c, i) == /\ cmd[c].id = i /\ cmd[c].pc \in {"waiting", "job", "done"}
               /\ cmd[c].via = "self" /\ cmd[c].op \in QueueOps
LoopOK(i) ==
  /\ own[i].pc # "down" => Known(i)
  /\ own[i].pc \in {"down", "spawned", "top", "exit"} => job[Loop(i)] = NoJob
  /\ job[Loop(i)].pc # "none" => job[Loop(i)].id = i
  /\ job[Exit(i)].pc # "none" => job[Exit(i)].id = i /\ job[Exit(i)].what = "unmark"
  /\ own[i].pc = "mark" => job[Loop(i)].what = "mark"
  /\ own[i].pc \in {"clear", "unmark"} => job[Loop(i)].what = "unmark"
  /\ own[i].pc = "closing" => job[Loop(i)].what = "close"
  /\ own[i].pc \in {"mark", "run", "turned"} => queue[i] # <<>>
  /\ own[i].pc \in {"run", "turned"} => job[Loop(i)].what = cmd[Head(queue[i])].op
  /\ \A k \in 1..Len(queue[i]) : Waits(queue[i][k], i)
  /\ agent # "modes" /\ own[i].closeReq => i \in cause
RecOK(i) ==
  /\ told[i] # {} => Known(i)
  /\ i \in pruned /\ rec[i] # None => i \in lost \cup imported
  /\ agent # "modes" /\ rec[i] # None /\ Blamed(rec[i]) => i \in cause
  /\ Faithful(i) => \A tag \in told[i] : Shows(tag, rec[i])
MarkOK(i) ==
  /\ own[i].pc = "mark" /\ job[Loop(i)].pc = "error" => ~Faithful(i)
  /\ own[i].pc = "mark" /\ job[Loop(i)].pc = "save" => claimed[i]
  /\ Faithful(i) /\ i \notin late =>
       /\ rec[i].active => \/ own[i].pc \in {"clear", "mark", "run", "turned", "unmark"}
                           \/ ~Up(i) /\ claimed[i]
       /\ own[i].pc \in {"run", "turned"} => rec[i].active
       /\ rec[i].active /\ own[i].pc \in {"mark", "run", "turned"} => claimed[i]
       /\ own[i].pc = "mark" /\ job[Loop(i)].pc = "ok" => rec[i].active
       /\ own[i].pc \in {"clear", "unmark"} /\ job[Loop(i)].pc = "ok" => ~rec[i].active
ArchiveOK ==
  archive # None => /\ archive.id \in Ids /\ archive.record \in Record
                    /\ archive = [id |-> archive.id, record |-> archive.record]
                    /\ agent # "modes" /\ Blamed(archive.record) => archive.id \in cause
Inv == /\ \A p \in Proc : JobOK(p)
       /\ \A c \in Cmds : CmdOK(c)
       /\ \A i \in Ids : LoopOK(i) /\ RecOK(i) /\ MarkOK(i)
       /\ ArchiveOK /\ OneOpenSession

-----------------------------------------------------------------------------
LEMMA ProcIs ==
  /\ \A c \in Cmds : c \in Proc
  /\ \A i \in Ids : /\ Loop(i) \in Proc /\ Exit(i) \in Proc /\ i # 0
                    /\ Loop(i) \notin Cmds /\ Exit(i) \notin Cmds
  /\ \A i, j \in Ids : Loop(i) # Exit(j) /\ (i # j => Loop(i) # Loop(j) /\ Exit(i) # Exit(j))
  /\ \A p \in Proc : p \in Cmds \/ (\E i \in Ids : p = Loop(i)) \/ (\E i \in Ids : p = Exit(i))
BY IdsAssumption DEF Proc, Loop, Exit

\* What is saved of a copy.
LEMMA ReportedIs ==
  ASSUME TypeOK, NEW r \in Record, NEW s \in Reported(r)
  PROVE  /\ s \in Record /\ s.key = r.key /\ s.closed = r.closed /\ s.active = r.active
         /\ agent # "modes" => s.mode = r.mode
         /\ agent # "options" => s.config = r.config
<1>1. CASE agent = "modes"
  <2>1. PICK m \in AgentModes : s = [r EXCEPT !.mode = m]
    BY <1>1 DEF Reported
  <2>2. s.key = r.key /\ s.closed = r.closed /\ s.active = r.active /\ s.config = r.config /\ s.mode = m
    BY <2>1 DEF Record
  <2>3. s \in Record
    BY <2>1 DEF Record, Modes
  <2> QED
    BY <1>1, <2>2, <2>3
<1>2. CASE agent = "options"
  <2>1. s = [r EXCEPT !.config = "agent's"]
    BY <1>2 DEF Reported
  <2>2. s.key = r.key /\ s.closed = r.closed /\ s.active = r.active /\ s.mode = r.mode
    BY <2>1 DEF Record
  <2>3. s \in Record
    BY <2>1 DEF Record
  <2> QED
    BY <1>2, <2>2, <2>3
<1>3. CASE agent = "plain"
  BY <1>3 DEF Reported
<1> QED
  BY <1>1, <1>2, <1>3 DEF TypeOK

LEMMA PreparedIs ==
  ASSUME TypeOK, NEW r \in Record, NEW s \in Prepared(r)
  PROVE  /\ s \in Record /\ s.key = r.key /\ s.closed = r.closed /\ s.active = r.active
         /\ agent # "modes" => s.mode = r.mode
         /\ agent # "options" => s.config = r.config
<1>1. CASE s = r
  BY <1>1
<1>2. CASE s \in Reported(r)
  BY <1>2, ReportedIs
<1> QED
  BY <1>1, <1>2 DEF Prepared

LEMMA TurnIs ==
  ASSUME TypeOK, NEW r \in Record, NEW s \in Turn(r)
  PROVE  /\ s \in Record /\ s.key = r.key /\ s.active = r.active
         /\ r.closed => s.closed
         /\ agent # "modes" => s.mode = r.mode /\ (s.closed => r.closed \/ r.mode # "persistent")
         /\ agent # "options" => s.config = r.config
<1>1. CASE s \in Prepared(r)
  BY <1>1, PreparedIs
<1>2. ASSUME NEW t \in Reported(r), s = TurnEnd(t)
      PROVE  /\ s \in Record /\ s.key = r.key /\ s.active = r.active
             /\ r.closed => s.closed
             /\ agent # "modes" => s.mode = r.mode /\ (s.closed => r.closed \/ r.mode # "persistent")
             /\ agent # "options" => s.config = r.config
  <2>1. /\ t \in Record /\ t.key = r.key /\ t.closed = r.closed /\ t.active = r.active
        /\ agent # "modes" => t.mode = r.mode
        /\ agent # "options" => t.config = r.config
    BY ReportedIs
  <2>2. /\ s \in Record /\ s.key = t.key /\ s.active = t.active /\ s.mode = t.mode /\ s.config = t.config
        /\ s.closed = (t.closed \/ t.mode # "persistent")
    BY <1>2, <2>1 DEF TurnEnd, Record
  <2> QED
    BY <2>1, <2>2
<1> QED
  BY <1>1, <1>2 DEF Turn

\* A save changes what its operation is for, and undoes nothing.
LEMMA SavesIs ==
  ASSUME TypeOK, NEW p \in Proc, NEW r \in Record, NEW s \in Saves(p, r),
         job[p].what \in QueueOps \cup {"cancel", "persist", "mark", "unmark"},
         job[p].what = "persist" => cmd[p].op \in Ops
  PROVE  /\ s \in Record /\ s.key = r.key /\ (r.closed => s.closed)
         /\ \A tag \in {"close", "mode", "config"} : Shows(tag, r) => Shows(tag, s)
         /\ \A tag \in Changes(Work(p)) : Shows(tag, s)
         /\ agent # "modes" /\ Blamed(s) => Blamed(r) \/ Work(p) \in CanClose
         /\ s.active = IF job[p].what \in {"mark", "unmark"} THEN job[p].what = "mark" ELSE r.active
<1> DEFINE Good == /\ s \in Record /\ s.key = r.key /\ (r.closed => s.closed)
                   /\ \A tag \in {"close", "mode", "config"} : Shows(tag, r) => Shows(tag, s)
                   /\ \A tag \in Changes(Work(p)) : Shows(tag, s)
                   /\ agent # "modes" /\ Blamed(s) => Blamed(r) \/ Work(p) \in CanClose
                   /\ s.active = IF job[p].what \in {"mark", "unmark"} THEN job[p].what = "mark" ELSE r.active
<1>1. CASE job[p].what = "prompt"
  BY <1>1, TurnIs DEF Saves, Shows, Changes, Work, Blamed
<1>2. CASE job[p].what = "set-mode"
  <2> DEFINE t == [r EXCEPT !.mode = "plan"]
  <2>1. t \in Record /\ t.mode = "plan" /\ t.key = r.key /\ t.closed = r.closed /\ t.active = r.active
        /\ t.config = r.config
    BY DEF Record, Modes
  <2> HIDE DEF t
  <2>2. s \in Prepared(t)
    BY <1>2 DEF Saves, SetMode, t
  <2> QED
    BY <1>2, <2>1, <2>2, PreparedIs DEF Shows, Changes, Work, Blamed, CanClose
<1>3. CASE job[p].what = "set-config"
  <2> DEFINE t == [r EXCEPT !.config = "set"]
  <2>1. t \in Record /\ t.config = "set" /\ t.key = r.key /\ t.closed = r.closed /\ t.active = r.active
        /\ t.mode = r.mode
    BY DEF Record
  <2> HIDE DEF t
  <2>2. s \in Prepared(t)
    BY <1>3 DEF Saves, SetConfig, t
  <2> QED
    BY <1>3, <2>1, <2>2, PreparedIs DEF Shows, Changes, Work, Blamed
<1>4. CASE job[p].what = "close"
  <2>1. CASE r.closed
    BY <1>4, <2>1 DEF Saves, CloseRecord, Shows, Changes, Work, Blamed, CanClose
  <2>2. CASE ~r.closed
    <3>1. PICK t \in Prepared(r) : s = [t EXCEPT !.closed = TRUE]
      BY <1>4, <2>2 DEF Saves, CloseRecord
    <3>2. /\ s \in Record /\ s.closed /\ s.key = r.key /\ s.active = r.active
          /\ agent # "modes" => s.mode = r.mode
          /\ agent # "options" => s.config = r.config
      <4>1. /\ t \in Record /\ t.key = r.key /\ t.active = r.active
            /\ agent # "modes" => t.mode = r.mode
            /\ agent # "options" => t.config = r.config
        BY PreparedIs
      <4>2. s \in Record /\ s.closed /\ s.key = t.key /\ s.active = t.active
         /\ s.mode = t.mode /\ s.config = t.config
        BY <3>1, <4>1 DEF Record
      <4> QED
        BY <4>1, <4>2
    <3> QED
      BY <1>4, <3>2 DEF Shows, Changes, Work, Blamed, CanClose
  <2> QED
    BY <2>1, <2>2
<1>5. CASE job[p].what = "cancel"
  BY <1>5, PreparedIs DEF Saves, Shows, Changes, Work, Blamed
<1>6. CASE job[p].what = "persist"
  <2>1. s = Persist(cmd[p].op, r)
    BY <1>6 DEF Saves
  <2> QED
    BY <1>6, <2>1 DEF Persist, Record, Modes, Shows, Changes, Work, Blamed, CanClose
<1>7. CASE job[p].what = "mark"
  BY <1>7 DEF Saves, Record, Shows, Changes, Work, Blamed
<1>8. CASE job[p].what = "unmark"
  BY <1>8 DEF Saves, Unmark, Record, Shows, Changes, Work, Blamed
<1> QED
  BY <1>1, <1>2, <1>3, <1>4, <1>5, <1>6, <1>7, <1>8 DEF QueueOps

-----------------------------------------------------------------------------
\* What a step leaves alone.

\* No record is created, saved or deleted.
RecordsStay ==
  /\ UNCHANGED <<rec, agent, lost, twins, pruned, imported>>
  /\ archive' = archive \/ ArchiveOK'
  /\ cause' \in SUBSET Ids /\ cause \subseteq cause'

LEMMA JobStays ==
  ASSUME RecordsStay, NEW p \in Proc, JobOK(p), job'[p] = job[p],
         p \in Cmds => cmd'[p].op = cmd[p].op /\
                           (job[p].pc = "probe" /\ cmd[p].via # "owner" => cmd'[p].via # "owner")
  PROVE  JobOK(p)'
<1>1. job[p].what = "persist" => p \in Cmds
  BY DEF JobOK
<1>2. Work(p)' = Work(p)
  BY <1>1 DEF Work
<1> QED
  BY <1>2 DEF JobOK, RecordsStay, Known, Faithful, Shows, Blamed, CanClose

\* A process goes on with its operation, if it has one.
SameJob(p) ==
  \/ job'[p] = job[p]
  \/ /\ job[p].pc # "none" /\ job'[p].pc # "none"
     /\ job'[p].what = job[p].what /\ job'[p].id = job[p].id

LEMMA CmdStays ==
  ASSUME RecordsStay, NEW c \in Cmds, CmdOK(c), SameJob(c), cmd'[c] = cmd[c]
  PROVE  CmdOK(c)'
<1>1. Work(c)' = Work(c) /\ OfKey("named")' = OfKey("named")
  BY DEF Work, OfKey, RecordsStay, SameJob
<1>2. cmd[c].pc # "job" => job'[c] = NoJob
  BY DEF CmdOK, SameJob, NoJob
<1> QED
  BY <1>1, <1>2 DEF CmdOK, RecordsStay, Known, Open, CanClose

\* What is known of the records stays known.
KnownStays ==
  /\ agent' = agent /\ cause \subseteq cause'
  /\ \A i \in Ids : Known(i) => Known(i)'

LEMMA LoopKept ==
  ASSUME KnownStays, NEW i \in Ids, LoopOK(i), queue[i] \in Seq(Cmds),
         own'[i].pc = own[i].pc, own'[i].closeReq /\ agent # "modes" => own[i].closeReq \/ i \in cause,
         queue'[i] = queue[i], SameJob(Loop(i)),
         SameJob(Exit(i)) \/ job'[Exit(i)] \in {NoJob, Start("unmark", i)},
         \A c \in Cmds : Waits(c, i) => Waits(c, i)' /\ cmd'[c].op = cmd[c].op
  PROVE  LoopOK(i)'
<1>1. \A k \in 1..Len(queue[i]) : queue[i][k] \in Cmds /\ Waits(queue[i][k], i)
  BY DEF LoopOK
<1>2. (\A k \in 1..Len(queue[i]) : Waits(queue[i][k], i))'
  <2> SUFFICES ASSUME NEW k \in 1..Len(queue[i]) PROVE Waits(queue[i][k], i)'
    OBVIOUS
  <2>1. PICK c \in Cmds : c = queue[i][k]
    BY <1>1
  <2>2. Waits(c, i)'
    BY <1>1, <2>1
  <2> QED
    BY <2>1, <2>2 DEF Waits
<1>3. queue[i] # <<>> => cmd'[Head(queue[i])].op = cmd[Head(queue[i])].op
  BY <1>1
<1>4. own[i].pc \in {"run", "turned"} => job'[Loop(i)].what = cmd'[Head(queue'[i])].op
  BY <1>3 DEF LoopOK, SameJob
<1>5. own[i].pc \in {"down", "spawned", "top", "exit"} => job'[Loop(i)] = NoJob
  BY DEF LoopOK, SameJob, NoJob
<1>6. /\ job'[Loop(i)].pc # "none" => job'[Loop(i)].id = i
      /\ job'[Exit(i)].pc # "none" => job'[Exit(i)].id = i /\ job'[Exit(i)].what = "unmark"
      /\ own[i].pc = "mark" => job'[Loop(i)].what = "mark"
      /\ own[i].pc \in {"clear", "unmark"} => job'[Loop(i)].what = "unmark"
      /\ own[i].pc = "closing" => job'[Loop(i)].what = "close"
  BY DEF LoopOK, SameJob, NoJob, Start
<1> QED
  BY <1>2, <1>4, <1>5, <1>6 DEF LoopOK, KnownStays

LEMMA LoopStays ==
  ASSUME RecordsStay, NEW i \in Ids, LoopOK(i), queue[i] \in Seq(Cmds),
         own'[i].pc = own[i].pc, own'[i].closeReq /\ agent # "modes" => own[i].closeReq \/ i \in cause,
         queue'[i] = queue[i], SameJob(Loop(i)),
         SameJob(Exit(i)) \/ job'[Exit(i)] \in {NoJob, Start("unmark", i)},
         \A c \in Cmds : Waits(c, i) => Waits(c, i)' /\ cmd'[c].op = cmd[c].op
  PROVE  LoopOK(i)'
<1>1. KnownStays
  BY DEF KnownStays, RecordsStay, Known
<1> QED
  BY <1>1, LoopKept

LEMMA RecStays ==
  ASSUME RecordsStay, NEW i \in Ids, RecOK(i), told'[i] = told[i]
  PROVE  RecOK(i)'
BY DEF RecOK, RecordsStay, Known, Faithful, Shows, Blamed

LEMMA MarkStays ==
  ASSUME RecordsStay, NEW i \in Ids, MarkOK(i), own'[i].pc = own[i].pc,
         job'[Loop(i)].pc = job[Loop(i)].pc, claimed'[i] = claimed[i], late \subseteq late'
  PROVE  MarkOK(i)'
BY DEF MarkOK, RecordsStay, Faithful, Up

LEMMA RestStays ==
  ASSUME RecordsStay, Inv
  PROVE  OneOpenSession' /\ ArchiveOK' /\ archive' \in [id : Ids, record : Record] \cup {None}
<1>1. OneOpenSession'
  BY DEF Inv, OneOpenSession, OfKey, Open, RecordsStay
<1>2. ArchiveOK'
  BY DEF Inv, ArchiveOK, RecordsStay, Blamed
<1> QED
  BY <1>1, <1>2 DEF ArchiveOK

-----------------------------------------------------------------------------
\* Types, change by change.

LEMMA CmdIs ==
  ASSUME TypeOK, NEW c \in Cmds, NEW x \in Cmd, cmd' = [cmd EXCEPT ![c] = x]
  PROVE  cmd' \in [Cmds -> Cmd] /\ cmd'[c] = x /\ \A d \in Cmds : d # c => cmd'[d] = cmd[d]
BY DEF TypeOK

LEMMA JobIs ==
  ASSUME TypeOK, NEW p \in Proc, NEW j \in Job, job' = [job EXCEPT ![p] = j],
         j.pc \in {"probe", "save"} => j.copy # None, j.pc # "none" => j.id # 0
  PROVE  /\ job' \in [Proc -> Job] /\ job'[p] = j /\ \A q \in Proc : q # p => job'[q] = job[q]
         /\ \A q \in Proc : /\ job'[q].pc \in {"probe", "save"} => job'[q].copy # None
                            /\ job'[q].pc # "none" => job'[q].id # 0
<1>1. job' \in [Proc -> Job] /\ job'[p] = j /\ \A q \in Proc : q # p => job'[q] = job[q]
  BY DEF TypeOK
<1>2. ASSUME NEW q \in Proc
      PROVE  /\ job'[q].pc \in {"probe", "save"} => job'[q].copy # None
             /\ job'[q].pc # "none" => job'[q].id # 0
  BY <1>1 DEF TypeOK
<1> QED
  BY <1>1, <1>2

LEMMA OwnIs ==
  ASSUME TypeOK, NEW i \in Ids, NEW o \in Owner, own' = [own EXCEPT ![i] = o]
  PROVE  own' \in [Ids -> Owner] /\ own'[i] = o /\ \A k \in Ids : k # i => own'[k] = own[k]
BY DEF TypeOK

LEMMA StartIs ==
  ASSUME NEW what \in Ops \cup {"none", "persist", "mark", "unmark"}, NEW i \in Ids
  PROVE  LET j == Start(what, i) IN
         /\ j \in Job /\ j.pc = "load" /\ j.id = i /\ j.copy = None /\ j.fresh /\ j.what = what
BY DEF Start, Job

LEMMA NoJobIs ==
  NoJob \in Job /\ NoJob.pc = "none" /\ NoJob.copy = None /\ NoJob.id = 0
  /\ NoJob.what = "none" /\ NoJob.fresh
BY DEF NoJob, Job

-----------------------------------------------------------------------------
ToldOK == \A i \in Ids : RecOK(i)

\* What waits in a queue stays there.
StillWaits(c) == \A i \in Ids : Waits(c, i) => Waits(c, i)'

\* The owners go on; a session that may be closed may make its owner close.
OwnersStay ==
  /\ own' \in [Ids -> Owner]
  /\ \A k \in Ids : /\ own'[k].pc = own[k].pc
                    /\ own'[k].closeReq /\ agent # "modes" => own[k].closeReq \/ k \in cause

\* A step of a command, which may begin or end an operation of its own.
LEMMA CommandStep ==
  ASSUME TypeOK, Inv, RecordsStay, NEW c \in Cmds, NEW x \in Cmd, NEW j \in Job,
         cmd' = [cmd EXCEPT ![c] = x], job' = [job EXCEPT ![c] = j], x.op = cmd[c].op,
         j.pc \in {"probe", "save"} => j.copy # None, j.pc # "none" => j.id # 0,
         OwnersStay, UNCHANGED <<queue, claimed, crashes, late>>, lease' \in [Ids -> BOOLEAN],
         told' \in [Ids -> SUBSET {"mode", "config", "close"}],
         StillWaits(c)
  PROVE  /\ TypeOK' /\ cmd'[c] = x /\ job'[c] = j
         /\ CmdOK(c)' /\ JobOK(c)' /\ (told' = told \/ ToldOK') => Inv'
<1>1. cmd' \in [Cmds -> Cmd] /\ cmd'[c] = x /\ \A d \in Cmds : d # c => cmd'[d] = cmd[d]
  BY CmdIs
<1>2. /\ job' \in [Proc -> Job] /\ job'[c] = j /\ \A q \in Proc : q # c => job'[q] = job[q]
      /\ \A q \in Proc : /\ job'[q].pc \in {"probe", "save"} => job'[q].copy # None
                         /\ job'[q].pc # "none" => job'[q].id # 0
  BY ProcIs, JobIs
<1>3. TypeOK'
  BY <1>1, <1>2, RestStays DEF TypeOK, RecordsStay, OwnersStay
<1>4. \A p \in Proc : p # c => JobOK(p)'
  BY <1>1, <1>2, JobStays DEF Inv
<1>5. \A d \in Cmds : d # c => CmdOK(d)'
  BY <1>1, <1>2, ProcIs, CmdStays DEF Inv, SameJob
<1>6. ASSUME NEW i \in Ids PROVE LoopOK(i)' /\ MarkOK(i)' /\ (told' = told => RecOK(i)')
  <2>1. job'[Loop(i)] = job[Loop(i)] /\ job'[Exit(i)] = job[Exit(i)]
    BY <1>2, ProcIs
  <2>2. ASSUME NEW d \in Cmds, Waits(d, i) PROVE Waits(d, i)' /\ cmd'[d].op = cmd[d].op
    <3>1. CASE d = c
      BY <1>1, <2>2, <3>1 DEF StillWaits
    <3>2. CASE d # c
      BY <1>1, <2>2, <3>2 DEF Waits
    <3> QED
      BY <3>1, <3>2
  <2>3. queue[i] \in Seq(Cmds)
    BY DEF TypeOK
  <2>4. LoopOK(i)'
    BY <2>1, <2>2, <2>3, LoopStays DEF Inv, OwnersStay, SameJob
  <2>5. MarkOK(i)'
    BY <2>1, MarkStays DEF Inv, OwnersStay
  <2> QED
    BY <2>4, <2>5, RecStays DEF Inv
<1> QED
  BY <1>1, <1>2, <1>3, <1>4, <1>5, <1>6, RestStays DEF Inv, ToldOK

\* A step of the owner's loop, which may begin or end an operation of its own.
LEMMA LoopStep ==
  ASSUME TypeOK, Inv, RecordsStay, NEW i \in Ids, NEW o \in Owner, NEW j \in Job, NEW b \in BOOLEAN,
         own' = [own EXCEPT ![i] = o], job' = [job EXCEPT ![Loop(i)] = j],
         claimed' = [claimed EXCEPT ![i] = b],
         j.pc \in {"probe", "save"} => j.copy # None, j.pc # "none" => j.id # 0,
         UNCHANGED <<cmd, queue, crashes, told, late>>, lease' \in [Ids -> BOOLEAN]
  PROVE  /\ TypeOK' /\ own'[i] = o /\ job'[Loop(i)] = j /\ claimed'[i] = b
         /\ job'[Exit(i)] = job[Exit(i)]
         /\ LoopOK(i)' /\ MarkOK(i)' /\ JobOK(Loop(i))' => Inv'
<1>1. own' \in [Ids -> Owner] /\ own'[i] = o /\ \A k \in Ids : k # i => own'[k] = own[k]
  BY OwnIs
<1>2. /\ job' \in [Proc -> Job] /\ job'[Loop(i)] = j /\ \A q \in Proc : q # Loop(i) => job'[q] = job[q]
      /\ \A q \in Proc : /\ job'[q].pc \in {"probe", "save"} => job'[q].copy # None
                         /\ job'[q].pc # "none" => job'[q].id # 0
  BY ProcIs, JobIs
<1>3. claimed' \in [Ids -> BOOLEAN] /\ claimed'[i] = b /\ \A k \in Ids : k # i => claimed'[k] = claimed[k]
  BY DEF TypeOK
<1>4. TypeOK'
  BY <1>1, <1>2, <1>3, RestStays DEF TypeOK, RecordsStay
<1>5. \A p \in Proc : p # Loop(i) => JobOK(p)'
  BY <1>2, JobStays DEF Inv
<1>6. \A d \in Cmds : CmdOK(d)'
  BY <1>2, ProcIs, CmdStays DEF Inv, SameJob
<1>7. ASSUME NEW k \in Ids, k # i PROVE LoopOK(k)' /\ MarkOK(k)'
  <2>1. job'[Loop(k)] = job[Loop(k)] /\ job'[Exit(k)] = job[Exit(k)]
    BY <1>2, <1>7, ProcIs
  <2>2. queue[k] \in Seq(Cmds)
    BY DEF TypeOK
  <2>3. \A c \in Cmds : Waits(c, k) => Waits(c, k)'
    BY DEF Waits
  <2>4. LoopOK(k)'
    BY <1>1, <1>7, <2>1, <2>2, <2>3, LoopStays DEF Inv, SameJob
  <2>5. MarkOK(k)'
    BY <1>1, <1>3, <1>7, <2>1, MarkStays DEF Inv
  <2> QED
    BY <2>4, <2>5
<1>8. \A k \in Ids : RecOK(k)'
  BY RecStays DEF Inv
<1>9. job'[Exit(i)] = job[Exit(i)]
  BY <1>2, ProcIs
<1>10. LoopOK(i)' /\ MarkOK(i)' /\ JobOK(Loop(i))' => Inv'
  BY <1>5, <1>6, <1>7, <1>8, RestStays DEF Inv
<1> QED
  BY <1>1, <1>2, <1>3, <1>4, <1>9, <1>10

-----------------------------------------------------------------------------
\* The steps of a command.

\* It goes on, without an operation of its own.
LEMMA Moves ==
  ASSUME TypeOK, Inv, RecordsStay, NEW c \in Cmds, NEW x \in Cmd, cmd' = [cmd EXCEPT ![c] = x],
         x.op = cmd[c].op, cmd[c].pc \notin {"waiting", "job", "done"},
         UNCHANGED <<job, own, queue, claimed, crashes, told, late>>, lease' \in [Ids -> BOOLEAN]
  PROVE  /\ TypeOK' /\ cmd'[c] = x /\ job'[c] = NoJob
         /\ CmdOK(c)' => Inv'
<1>1. job[c] = NoJob /\ CmdOK(c) /\ JobOK(c) /\ c \in Proc
  BY ProcIs DEF Inv, CmdOK
<1>2. job' = [job EXCEPT ![c] = NoJob]
  BY <1>1 DEF TypeOK
<1>3. StillWaits(c)
  BY DEF StillWaits, Waits
<1>4. told' \in [Ids -> SUBSET {"mode", "config", "close"}]
  BY DEF TypeOK
<1>5. TypeOK' /\ cmd'[c] = x /\ job'[c] = NoJob /\ (CmdOK(c)' /\ JobOK(c)' => Inv')
  <2>1. OwnersStay
    BY DEF OwnersStay, TypeOK
  <2> QED
    BY <1>2, <1>3, <1>4, <2>1, NoJobIs, CommandStep
<1>6. JobOK(c)'
  BY <1>5, NoJobIs DEF JobOK, Work, CanClose
<1> QED
  BY <1>5, <1>6

Starts(c, what, i) == job' = [job EXCEPT ![c] = Start(what, i)]

\* It begins an operation.
LEMMA Begins ==
  ASSUME TypeOK, Inv, RecordsStay, NEW c \in Cmds, NEW x \in Cmd, cmd' = [cmd EXCEPT ![c] = x],
         NEW what \in QueueOps \cup {"cancel", "persist"}, NEW k \in Ids, Known(k),
         Starts(c, what, k),
         agent # "modes" /\ (IF what = "persist" THEN x.op ELSE what) \in CanClose => k \in cause',
         x.op = cmd[c].op, cmd[c].pc \notin {"waiting", "job", "done"},
         UNCHANGED <<own, queue, claimed, crashes, told, late>>, lease' \in [Ids -> BOOLEAN]
  PROVE  /\ TypeOK' /\ cmd'[c] = x /\ job'[c].what = what
         /\ CmdOK(c)' => Inv'
<1>1. PICK j \in Job : /\ j = Start(what, k)
                       /\ j.pc = "load" /\ j.id = k /\ j.copy = None /\ j.fresh /\ j.what = what /\ k # 0
  BY StartIs, ProcIs DEF QueueOps, Ops
<1>2. job' = [job EXCEPT ![c] = j]
  BY <1>1 DEF Starts
<1>3. StillWaits(c)
  BY DEF StillWaits, Waits
<1>4. told' \in [Ids -> SUBSET {"mode", "config", "close"}]
  BY DEF TypeOK
<1>5. TypeOK' /\ cmd'[c] = x /\ job'[c] = j /\ (CmdOK(c)' /\ JobOK(c)' => Inv')
  <2>1. (j.pc \in {"probe", "save"} => j.copy # None) /\ (j.pc # "none" => j.id # 0) /\ told' = told
    BY <1>1
  <2>2. OwnersStay /\ UNCHANGED <<queue, claimed, crashes, late>>
    BY DEF OwnersStay, TypeOK
  <2> QED
    BY <1>1, <1>2, <1>3, <1>4, <2>1, <2>2, CommandStep
<1>6. Known(k)'
  BY DEF Known, RecordsStay
<1>7. JobOK(c)'
  BY <1>1, <1>5, <1>6 DEF JobOK, Work, RecordsStay, CanClose, QueueOps
<1> QED
  BY <1>1, <1>5, <1>7

LEMMA LookupStep ==
  ASSUME TypeOK, Inv, NEW c \in Cmds, Lookup(c)
  PROVE  TypeOK' /\ Inv'
<1>1. cmd[c] \in Cmd /\ CmdOK(c) /\ cmd[c].pc = "lookup" /\ job[c] = NoJob /\ lease \in [Ids -> BOOLEAN]
  BY DEF TypeOK, Inv, CmdOK, Lookup
<1>2. /\ UNCHANGED <<rec, agent, archive, lost, twins, pruned, imported, own, queue, claimed, crashes,
                     told, late, lease>>
  BY DEF Lookup, ownVars
<1>3. CASE Goto(c, "find") /\ UNCHANGED <<job, cause>>
  <2> DEFINE x == [cmd[c] EXCEPT !.pc = "find"]
  <2>1. x \in Cmd /\ x.op = cmd[c].op /\ x.pc = "find" /\ x.id = cmd[c].id /\ x.via = cmd[c].via
    BY <1>1 DEF Cmd
  <2>2. cmd' = [cmd EXCEPT ![c] = x]
    BY <1>3 DEF Goto
  <2> HIDE DEF x
  <2>3. RecordsStay
    BY <1>2, <1>3 DEF RecordsStay, TypeOK
  <2>4. TypeOK' /\ cmd'[c] = x /\ job'[c] = NoJob /\ (CmdOK(c)' => Inv')
    BY <1>1, <1>2, <1>3, <2>1, <2>2, <2>3, Moves
  <2>5. CmdOK(c)'
    BY <1>1, <1>2, <1>3, <2>1, <2>4 DEF CmdOK, Known, CanClose
  <2> QED
    BY <2>4, <2>5
<1>4. ASSUME NEW i \in FindSession, Open(i), cmd' = [cmd EXCEPT ![c].pc = "job", ![c].id = i],
             job' = [job EXCEPT ![c] = Start("close", i)], cause' = cause \cup {i}
      PROVE  TypeOK' /\ Inv'
  <2> DEFINE x == [cmd[c] EXCEPT !.pc = "job", !.id = i]
  <2>1. i \in Ids /\ Known(i)
    BY <1>4 DEF FindSession, FindByKey, OfKey, Known
  <2>2. x \in Cmd /\ x.op = cmd[c].op /\ x.pc = "job" /\ x.id = i /\ x.via = cmd[c].via
    BY <1>1, <2>1 DEF Cmd
  <2>3. cmd' = [cmd EXCEPT ![c] = x]
    BY <1>1, <1>4 DEF TypeOK, Cmd
  <2> HIDE DEF x
  <2>4. RecordsStay
    BY <1>2, <1>4, <2>1 DEF RecordsStay, TypeOK
  <2>5. TypeOK' /\ cmd'[c] = x /\ job'[c].what = "close" /\ (CmdOK(c)' => Inv')
    BY <1>1, <1>2, <1>4, <2>1, <2>2, <2>3, <2>4, Begins DEF QueueOps, Starts
  <2>6. Tells(cmd[c].op) \subseteq {"close"}
    BY <1>1 DEF CmdOK, Tells
  <2>7. Work(c)' = "close" /\ Changes("close") = {"close"} /\ Known(i)'
    BY <1>2, <2>1, <2>5 DEF Work, Changes, Known
  <2>8. CmdOK(c)'
    BY <1>1, <1>2, <2>2, <2>5, <2>6, <2>7 DEF CmdOK, CanClose
  <2> QED
    BY <2>5, <2>8
<1> QED
  BY <1>3, <1>4 DEF Lookup

LEMMA FindStep ==
  ASSUME TypeOK, Inv, NEW c \in Cmds, Find(c)
  PROVE  TypeOK' /\ Inv'
<1>1. cmd[c] \in Cmd /\ CmdOK(c) /\ cmd[c].pc = "find" /\ job[c] = NoJob /\ lease \in [Ids -> BOOLEAN]
  BY DEF TypeOK, Inv, CmdOK, Find
<1>2. UNCHANGED <<rec, agent, archive, lost, twins, pruned, imported, own, queue, claimed, crashes,
                  told, late, lease, job, cause>>
  BY DEF Find, ownVars, history
<1>3. RecordsStay
  BY <1>2 DEF RecordsStay, TypeOK
<1>4. ASSUME NEW i \in FindByKey("named"), Open(i),
             cmd' = [cmd EXCEPT ![c].pc = IF cmd[c].op = "prompt" THEN "decide" ELSE "done", ![c].id = i]
      PROVE  TypeOK' /\ Inv'
  <2> DEFINE pc == IF cmd[c].op = "prompt" THEN "decide" ELSE "done"
             x == [cmd[c] EXCEPT !.pc = pc, !.id = i]
  <2>1. i \in Ids /\ Known(i) /\ i # 0
    BY <1>4, ProcIs DEF FindByKey, OfKey, Known
  <2>2. x \in Cmd /\ x.op = cmd[c].op /\ x.pc = pc /\ x.id = i /\ x.via = cmd[c].via
    BY <1>1, <2>1 DEF Cmd
  <2>3. cmd' = [cmd EXCEPT ![c] = x]
    BY <1>1, <1>4 DEF TypeOK, Cmd
  <2> HIDE DEF x
  <2>4. TypeOK' /\ cmd'[c] = x /\ job'[c] = NoJob /\ (CmdOK(c)' => Inv')
    BY <1>1, <1>2, <1>3, <2>2, <2>3, Moves
  <2>5. CmdOK(c)'
    BY <1>1, <1>2, <2>1, <2>2, <2>4 DEF CmdOK, Known, CanClose
  <2> QED
    BY <2>4, <2>5
<1>5. ASSUME \A i \in FindByKey("named") : ~Open(i),
             cmd' = [cmd EXCEPT ![c].pc = "create", ![c].alone = TRUE,
                                ![c].beside = \E i \in OfKey("named") : Open(i)]
      PROVE  TypeOK' /\ Inv'
  <2> DEFINE b == \E i \in OfKey("named") : Open(i)
             x == [cmd[c] EXCEPT !.pc = "create", !.alone = TRUE, !.beside = b]
  <2>1. b \in BOOLEAN
    OBVIOUS
  <2>2. x \in Cmd /\ x.op = cmd[c].op /\ x.pc = "create" /\ x.id = cmd[c].id /\ x.via = cmd[c].via
      /\ x.beside = b
    <3> HIDE DEF b
    <3> QED
      BY <1>1, <2>1 DEF Cmd
  <2>3. cmd' = [cmd EXCEPT ![c] = x]
    <3>1. cmd' = [cmd EXCEPT ![c].pc = "create", ![c].alone = TRUE, ![c].beside = b]
      BY <1>5
    <3> HIDE DEF b
    <3> QED
      BY <1>1, <3>1 DEF TypeOK, Cmd
  <2> HIDE DEF x
  <2>4. TypeOK' /\ cmd'[c] = x /\ job'[c] = NoJob /\ (CmdOK(c)' => Inv')
    BY <1>1, <1>2, <1>3, <2>2, <2>3, Moves
  <2>5. OfKey("named")' = OfKey("named") /\ \A i \in Ids : Open(i)' <=> Open(i)
    BY <1>2 DEF OfKey, Open
  <2>6. x.beside \/ \A i \in OfKey("named")' : ~Open(i)'
    BY <2>2, <2>5 DEF OfKey
  <2>7. CmdOK(c)'
    BY <1>1, <1>2, <2>2, <2>4, <2>6 DEF CmdOK, Known, CanClose
  <2> QED
    BY <2>4, <2>7
<1> QED
  BY <1>4, <1>5 DEF Find

LEMMA NoAgentStep ==
  ASSUME TypeOK, Inv, NEW c \in Cmds, NoAgent(c)
  PROVE  TypeOK' /\ Inv'
<1>1. cmd[c] \in Cmd /\ CmdOK(c) /\ cmd[c].pc \in {"create", "exec"} /\ lease \in [Ids -> BOOLEAN]
  BY DEF TypeOK, Inv, NoAgent
<1>2. UNCHANGED <<rec, agent, archive, lost, twins, pruned, imported, own, queue, claimed, crashes,
                  told, late, lease, job, cause>>
  BY DEF NoAgent, ownVars, history
<1>3. RecordsStay
  BY <1>2 DEF RecordsStay, TypeOK
<1> DEFINE x == [cmd[c] EXCEPT !.pc = "done"]
<1>4. x \in Cmd /\ x.op = cmd[c].op /\ x.pc = "done" /\ x.id = cmd[c].id /\ x.via = cmd[c].via
  BY <1>1 DEF Cmd
<1>5. cmd' = [cmd EXCEPT ![c] = x]
  BY DEF NoAgent, Goto
<1> HIDE DEF x
<1>6. TypeOK' /\ cmd'[c] = x /\ job'[c] = NoJob /\ (CmdOK(c)' => Inv')
  BY <1>1, <1>2, <1>3, <1>4, <1>5, Moves
<1>7. CmdOK(c)'
  BY <1>1, <1>2, <1>4, <1>6 DEF CmdOK, Known, CanClose
<1> QED
  BY <1>6, <1>7

LEMMA ListStep ==
  ASSUME TypeOK, Inv, NEW c \in Cmds, List(c)
  PROVE  TypeOK' /\ Inv'
<1>1. cmd[c] \in Cmd /\ CmdOK(c) /\ cmd[c].pc = "list" /\ lease \in [Ids -> BOOLEAN]
  BY DEF TypeOK, Inv, List
<1>2. UNCHANGED <<rec, agent, archive, lost, twins, pruned, imported, own, queue, claimed, crashes,
                  told, late, lease, job, cause>>
  BY DEF List, ownVars, history
<1>3. RecordsStay
  BY <1>2 DEF RecordsStay, TypeOK
<1>4. PICK S \in SUBSET Ids : cmd' = [cmd EXCEPT ![c].pc = IF S = {} THEN "done" ELSE "delete", ![c].left = S]
  BY DEF List
<1> DEFINE x == [cmd[c] EXCEPT !.pc = IF S = {} THEN "done" ELSE "delete", !.left = S]
<1>5. x \in Cmd /\ x.op = cmd[c].op /\ x.pc \in {"done", "delete"} /\ x.id = cmd[c].id /\ x.via = cmd[c].via
  BY <1>1 DEF Cmd
<1>6. cmd' = [cmd EXCEPT ![c] = x]
  BY <1>1, <1>4 DEF TypeOK, Cmd
<1> HIDE DEF x
<1>7. TypeOK' /\ cmd'[c] = x /\ job'[c] = NoJob /\ (CmdOK(c)' => Inv')
  BY <1>1, <1>2, <1>3, <1>5, <1>6, Moves
<1>8. CmdOK(c)'
  BY <1>1, <1>2, <1>5, <1>7 DEF CmdOK, Known, CanClose
<1> QED
  BY <1>7, <1>8

LEMMA ResolveStep ==
  ASSUME TypeOK, Inv, NEW c \in Cmds, Resolve(c)
  PROVE  TypeOK' /\ Inv'
<1>1. cmd[c] \in Cmd /\ CmdOK(c) /\ cmd[c].pc = "resolve" /\ lease \in [Ids -> BOOLEAN]
  BY DEF TypeOK, Inv, Resolve
<1>2. UNCHANGED <<rec, agent, archive, lost, twins, pruned, imported, own, queue, claimed, crashes,
                  told, late, lease, job>>
  BY DEF Resolve, ownVars
<1>3. ASSUME NEW i \in Ids, rec[i] # None,
             cmd' = [cmd EXCEPT ![c].pc = IF cmd[c].op = "export" THEN "export" ELSE "decide", ![c].id = i],
             cause' = IF cmd[c].op \in {"set-mode", "close"} THEN cause \cup {i} ELSE cause
      PROVE  TypeOK' /\ Inv'
  <2> DEFINE pc == IF cmd[c].op = "export" THEN "export" ELSE "decide"
             x == [cmd[c] EXCEPT !.pc = pc, !.id = i]
  <2>1. x \in Cmd /\ x.op = cmd[c].op /\ x.pc = pc /\ x.id = i /\ x.via = cmd[c].via
    BY <1>1 DEF Cmd
  <2>2. cmd' = [cmd EXCEPT ![c] = x]
    BY <1>1, <1>3 DEF TypeOK, Cmd
  <2> HIDE DEF x
  <2>3. RecordsStay
    BY <1>2, <1>3 DEF RecordsStay, TypeOK
  <2>4. TypeOK' /\ cmd'[c] = x /\ job'[c] = NoJob /\ (CmdOK(c)' => Inv')
    BY <1>1, <1>2, <2>1, <2>2, <2>3, Moves
  <2>5. Known(i)' /\ i # 0 /\ x.via = "self" /\ x.pc \in {"export", "decide"}
    BY <1>1, <1>2, <1>3, <2>1, ProcIs DEF Known, CmdOK
  <2>6. x.op \in CanClose => i \in cause'
    BY <1>3, <2>1 DEF CanClose
  <2> HIDE DEF pc
  <2>7. CmdOK(c)'
    BY <2>1, <2>4, <2>5, <2>6 DEF CmdOK
  <2> QED
    BY <2>4, <2>7
<1>4. ASSUME Goto(c, IF cmd[c].op = "prompt" THEN "find" ELSE "done"), UNCHANGED cause
      PROVE  TypeOK' /\ Inv'
  <2> DEFINE pc == IF cmd[c].op = "prompt" THEN "find" ELSE "done"
             x == [cmd[c] EXCEPT !.pc = pc]
  <2>1. x \in Cmd /\ x.op = cmd[c].op /\ x.pc = pc /\ x.id = cmd[c].id /\ x.via = cmd[c].via
    BY <1>1 DEF Cmd
  <2>2. cmd' = [cmd EXCEPT ![c] = x]
    BY <1>4 DEF Goto
  <2> HIDE DEF x
  <2>3. RecordsStay
    BY <1>2, <1>4 DEF RecordsStay, TypeOK
  <2>4. TypeOK' /\ cmd'[c] = x /\ job'[c] = NoJob /\ (CmdOK(c)' => Inv')
    BY <1>1, <1>2, <2>1, <2>2, <2>3, Moves
  <2>5. CmdOK(c)'
    BY <1>1, <1>2, <1>4, <2>1, <2>4 DEF CmdOK, Known, CanClose
  <2> QED
    BY <2>4, <2>5
<1> QED
  BY <1>3, <1>4 DEF Resolve

LEMMA ExportStep ==
  ASSUME TypeOK, Inv, NEW c \in Cmds, Export(c)
  PROVE  TypeOK' /\ Inv'
<1>1. cmd[c] \in Cmd /\ CmdOK(c) /\ cmd[c].pc = "export" /\ lease \in [Ids -> BOOLEAN]
  BY DEF TypeOK, Inv, Export
<1>2. UNCHANGED <<rec, agent, lost, twins, pruned, imported, own, queue, claimed, crashes,
                  told, late, job, cause>>
  BY DEF Export, history
<1>3. cmd[c].id \in Ids
  BY <1>1 DEF CmdOK, Cmd
<1>4. PICK i \in Ids : i = cmd[c].id
  BY <1>3
<1>5. PICK alive \in LeaseAlive(i) :
        /\ lease' = [lease EXCEPT ![i] = alive]
        /\ archive' = IF alive \/ rec[i] = None THEN archive ELSE [id |-> i, record |-> rec[i]]
  BY <1>4 DEF Export
<1>6. lease' \in [Ids -> BOOLEAN]
  BY <1>1, <1>5 DEF LeaseAlive
<1>7. archive' = archive \/ ArchiveOK'
  <2>1. rec[i] \in Record \cup {None} /\ RecOK(i)
    BY DEF TypeOK, Inv
  <2> QED
    BY <1>2, <1>5, <2>1 DEF ArchiveOK, RecOK, Blamed
<1>8. RecordsStay
  BY <1>2, <1>7 DEF RecordsStay, TypeOK
<1> DEFINE x == [cmd[c] EXCEPT !.pc = "done"]
<1>9. x \in Cmd /\ x.op = cmd[c].op /\ x.pc = "done" /\ x.id = cmd[c].id /\ x.via = cmd[c].via
  BY <1>1 DEF Cmd
<1>10. cmd' = [cmd EXCEPT ![c] = x]
  BY DEF Export, Goto
<1> HIDE DEF x
<1>11. TypeOK' /\ cmd'[c] = x /\ job'[c] = NoJob /\ (CmdOK(c)' => Inv')
  BY <1>1, <1>2, <1>6, <1>8, <1>9, <1>10, Moves
<1>12. CmdOK(c)'
  BY <1>1, <1>2, <1>9, <1>11 DEF CmdOK, Known, CanClose
<1> QED
  BY <1>11, <1>12

LEMMA LooksIs ==
  ASSUME TypeOK, Inv, NEW c \in Cmds, NEW op, NEW alive \in BOOLEAN, Looks(c, op, alive)
  PROVE  /\ cmd[c] \in Cmd /\ CmdOK(c) /\ cmd[c].pc = "decide" /\ cmd[c].op = op
         /\ cmd[c].id \in Ids /\ Known(cmd[c].id) /\ cmd[c].via = "self"
         /\ UNCHANGED <<rec, agent, archive, own, queue, claimed, crashes, lost, told, cause, twins, late,
                        pruned, imported>>
         /\ RecordsStay /\ lease' \in [Ids -> BOOLEAN]
<1>1. cmd[c] \in Cmd /\ CmdOK(c) /\ cmd[c].pc = "decide" /\ cmd[c].op = op
  BY DEF TypeOK, Inv, Looks
<1>2. cmd[c].id \in Ids /\ Known(cmd[c].id) /\ cmd[c].via = "self"
  BY <1>1 DEF CmdOK, Cmd
<1>3. UNCHANGED <<rec, agent, archive, own, queue, claimed, crashes, lost, told, cause, twins, late,
                  pruned, imported>>
  BY DEF Looks, history
<1>4. RecordsStay
  BY <1>3 DEF RecordsStay, TypeOK
<1>5. lease' \in [Ids -> BOOLEAN]
  BY DEF Looks, TypeOK
<1> QED
  BY <1>1, <1>2, <1>3, <1>4, <1>5

LEMMA SelfStep ==
  ASSUME TypeOK, Inv, NEW c \in Cmds, NEW op \in QueueOps \cup {"cancel"}, NEW alive \in BOOLEAN,
         NEW status, Looks(c, op, alive), Self(c, status)
  PROVE  TypeOK' /\ Inv'
<1>1. /\ cmd[c] \in Cmd /\ CmdOK(c) /\ cmd[c].pc = "decide" /\ cmd[c].op = op
      /\ cmd[c].id \in Ids /\ Known(cmd[c].id) /\ cmd[c].via = "self"
      /\ UNCHANGED <<rec, agent, archive, own, queue, claimed, crashes, lost, told, cause, twins, late,
                     pruned, imported>>
      /\ RecordsStay /\ lease' \in [Ids -> BOOLEAN]
  BY LooksIs
<1>2. PICK i \in Ids : i = cmd[c].id /\ Known(i)
  BY <1>1
<1> DEFINE x == [cmd[c] EXCEPT !.pc = "job"]
<1>3. x \in Cmd /\ x.op = op /\ x.pc = "job" /\ x.id = i /\ x.via = "self"
  BY <1>1, <1>2 DEF Cmd
<1>4. cmd' = [cmd EXCEPT ![c] = x] /\ Starts(c, op, i)
  BY <1>1, <1>2 DEF Self, Goto, Starts
<1> HIDE DEF x
<1>5. agent # "modes" /\ (IF op = "persist" THEN x.op ELSE op) \in CanClose => i \in cause'
  BY <1>1, <1>2, <1>3, ProcIs DEF CmdOK, CanClose
<1>6. TypeOK' /\ cmd'[c] = x /\ job'[c].what = op /\ (CmdOK(c)' => Inv')
  BY <1>1, <1>2, <1>3, <1>4, <1>5, Begins
<1>7. Work(c)' = op /\ Tells(op) \subseteq Changes(op) /\ Known(i)'
  BY <1>1, <1>2, <1>6 DEF Work, QueueOps, Tells, Changes, Known
<1>8. CmdOK(c)'
  BY <1>1, <1>2, <1>3, <1>6, <1>7 DEF CmdOK, CanClose
<1> QED
  BY <1>6, <1>8

\* The command leaves it to the owner, or to nobody.
LEMMA LeavesIt ==
  ASSUME TypeOK, Inv, NEW c \in Cmds, NEW op, NEW alive \in BOOLEAN, Looks(c, op, alive),
         NEW x \in Cmd, cmd' = [cmd EXCEPT ![c] = x], UNCHANGED job,
         x.op = op, x.id = cmd[c].id, x.pc \in {"handler", "enqueue", "done"},
         x.pc = "done" \/ op \in QueueOps,
         x.via = "self" \/ (x.pc = "handler" /\ op \in QueueOps)
  PROVE  TypeOK' /\ Inv'
<1>1. /\ cmd[c] \in Cmd /\ CmdOK(c) /\ cmd[c].pc = "decide" /\ cmd[c].op = op
      /\ cmd[c].id \in Ids /\ Known(cmd[c].id) /\ cmd[c].via = "self"
      /\ UNCHANGED <<rec, agent, archive, own, queue, claimed, crashes, lost, told, cause, twins, late,
                     pruned, imported>>
      /\ RecordsStay /\ lease' \in [Ids -> BOOLEAN]
  BY LooksIs
<1>2. TypeOK' /\ cmd'[c] = x /\ job'[c] = NoJob /\ (CmdOK(c)' => Inv')
  BY <1>1, Moves
<1>3. CmdOK(c)'
  BY <1>1, <1>2, ProcIs DEF CmdOK, Known, CanClose
<1> QED
  BY <1>2, <1>3

LEMMA EitherStep ==
  ASSUME TypeOK, Inv, NEW c \in Cmds, NEW op \in QueueOps, NEW alive \in BOOLEAN,
         NEW status, Looks(c, op, alive), Either(c, status)
  PROVE  TypeOK' /\ Inv'
<1>1. CASE Self(c, status)
  BY <1>1, SelfStep
<1>2. CASE ViaOwner(c, status)
  <2>1. PICK dialled \in BOOLEAN, live \in BOOLEAN :
          /\ dialled <=> status.alive /\ Up(cmd[c].id)
          /\ live <=> ActivePrompt(status)
    OBVIOUS
  <2> DEFINE x == [cmd[c] EXCEPT !.pc   = IF dialled THEN "handler" ELSE "enqueue",
                                 !.via  = IF dialled THEN "owner" ELSE "self",
                                 !.live = live]
  <2>2. cmd[c] \in Cmd /\ cmd[c].op = op /\ UNCHANGED job
    BY <1>2, LooksIs DEF ViaOwner
  <2>3. /\ x \in Cmd /\ x.op = op /\ x.id = cmd[c].id /\ x.pc \in {"handler", "enqueue"}
        /\ x.via = "self" \/ x.pc = "handler"
    BY <2>2 DEF Cmd
  <2>4. cmd' = [cmd EXCEPT ![c].pc   = IF dialled THEN "handler" ELSE "enqueue",
                           ![c].via  = IF dialled THEN "owner" ELSE "self",
                           ![c].live = live]
    <3>1. live = ActivePrompt(status)
      BY <2>1, Zenon DEF ActivePrompt
    <3> QED
      BY <1>2, <2>1, <3>1 DEF ViaOwner
  <2>5. cmd' = [cmd EXCEPT ![c] = x]
    BY <2>2, <2>4 DEF TypeOK, Cmd
  <2> HIDE DEF x
  <2> QED
    BY <2>2, <2>3, <2>5, LeavesIt
<1> QED
  BY <1>1, <1>2 DEF Either

LEMMA GoesOn ==
  ASSUME TypeOK, Inv, NEW c \in Cmds, NEW op, NEW alive \in BOOLEAN, NEW pc \in {"enqueue", "done"},
         Looks(c, op, alive), Goto(c, pc), UNCHANGED job, pc = "done" \/ op \in QueueOps
  PROVE  TypeOK' /\ Inv'
<1> DEFINE x == [cmd[c] EXCEPT !.pc = pc]
<1>1. cmd[c] \in Cmd /\ cmd[c].op = op /\ cmd[c].via = "self"
  BY LooksIs
<1>2. x \in Cmd /\ x.op = op /\ x.id = cmd[c].id /\ x.pc = pc /\ x.via = "self"
  BY <1>1 DEF Cmd
<1>3. cmd' = [cmd EXCEPT ![c] = x]
  BY DEF Goto
<1> HIDE DEF x
<1> QED
  BY <1>2, <1>3, LeavesIt

LEMMA RunStep ==
  ASSUME TypeOK, Inv, NEW c \in Cmds,
         RunSetMode(c) \/ RunSetConfig(c) \/ RunClose(c) \/ RunPrompt(c) \/ RunCancel(c)
  PROVE  TypeOK' /\ Inv'
<1>1. CASE RunSetMode(c)
  BY <1>1, EitherStep DEF RunSetMode, QueueOps
<1>2. CASE RunSetConfig(c)
  BY <1>2, EitherStep DEF RunSetConfig, QueueOps
<1>3. CASE RunClose(c)
  BY <1>3, EitherStep DEF RunClose, QueueOps
<1>4. CASE RunPrompt(c)
  BY <1>4, SelfStep, GoesOn DEF RunPrompt, SelfOrQueue, QueueOps
<1>5. CASE RunCancel(c)
  BY <1>5, SelfStep, GoesOn DEF RunCancel, SelfOrMark, QueueOps
<1> QED
  BY <1>1, <1>2, <1>3, <1>4, <1>5

LEMMA HandleStep ==
  ASSUME TypeOK, Inv, NEW c \in Cmds, NEW op \in {"set-mode", "set-config", "close"}, Handle(c, op)
  PROVE  TypeOK' /\ Inv'
<1>1. cmd[c] \in Cmd /\ CmdOK(c) /\ cmd[c].pc = "handler" /\ cmd[c].op = op /\ lease \in [Ids -> BOOLEAN]
  BY DEF TypeOK, Inv, Handle
<1>2. UNCHANGED <<rec, agent, archive, lost, twins, pruned, imported, own, queue, claimed, crashes,
                  told, late, lease, cause>>
  BY DEF Handle, ownVars, history
<1>3. RecordsStay
  BY <1>2 DEF RecordsStay, TypeOK
<1>4. PICK i \in Ids : i = cmd[c].id /\ Known(i)
  BY <1>1 DEF CmdOK, Cmd
<1>5. ASSUME NEW what \in {op, "persist"}, Goto(c, "job"), job' = [job EXCEPT ![c] = Start(what, i)]
      PROVE  TypeOK' /\ Inv'
  <2> DEFINE x == [cmd[c] EXCEPT !.pc = "job"]
  <2>1. x \in Cmd /\ x.op = op /\ x.pc = "job" /\ x.id = i /\ x.via = cmd[c].via
    BY <1>1, <1>4 DEF Cmd
  <2>2. cmd' = [cmd EXCEPT ![c] = x] /\ Starts(c, what, i)
    BY <1>5 DEF Goto, Starts
  <2> HIDE DEF x
  <2>3. agent # "modes" /\ (IF what = "persist" THEN x.op ELSE what) \in CanClose => i \in cause'
    BY <1>1, <1>2, <1>4, <2>1, ProcIs DEF CmdOK, CanClose
  <2>4. TypeOK' /\ cmd'[c] = x /\ job'[c].what = what /\ (CmdOK(c)' => Inv')
    BY <1>1, <1>2, <1>3, <1>4, <2>1, <2>2, <2>3, Begins DEF QueueOps
  <2>5. Work(c)' = op /\ Tells(op) \subseteq Changes(op) /\ Known(i)'
    BY <1>2, <1>4, <2>1, <2>4 DEF Work, QueueOps, Tells, Changes, Known
  <2>6. CmdOK(c)'
    BY <1>1, <1>2, <1>4, <2>1, <2>4, <2>5 DEF CmdOK, CanClose
  <2> QED
    BY <2>4, <2>6
<1>6. CASE Goto(c, "done") /\ UNCHANGED job
  <2> DEFINE x == [cmd[c] EXCEPT !.pc = "done"]
  <2>1. x \in Cmd /\ x.op = op /\ x.pc = "done" /\ x.id = i /\ x.via = cmd[c].via
    BY <1>1, <1>4 DEF Cmd
  <2>2. cmd' = [cmd EXCEPT ![c] = x]
    BY <1>6 DEF Goto
  <2> HIDE DEF x
  <2>3. TypeOK' /\ cmd'[c] = x /\ job'[c] = NoJob /\ (CmdOK(c)' => Inv')
    BY <1>1, <1>2, <1>3, <1>6, <2>1, <2>2, Moves
  <2>4. CmdOK(c)'
    BY <1>1, <1>2, <1>4, <2>1, <2>3 DEF CmdOK, Known, CanClose
  <2> QED
    BY <2>3, <2>4
<1> QED
  BY <1>1, <1>4, <1>5, <1>6 DEF Handle

\* A request joins the queue of its session, where Head and the others stay as they are.
LEMMA JoinsIs ==
  ASSUME NEW q \in Seq(Cmds), NEW c \in Cmds
  PROVE  /\ Append(q, c) \in Seq(Cmds) /\ Append(q, c) # <<>>
         /\ q # <<>> => Head(Append(q, c)) = Head(q) /\ Head(q) \in Cmds
         /\ \A k \in 1..Len(Append(q, c)) : Append(q, c)[k] = c \/ (k \in 1..Len(q) /\ Append(q, c)[k] = q[k])
<1>1. Append(q, c) \in Seq(Cmds) /\ Len(Append(q, c)) = Len(q) + 1 /\ Len(q) \in Nat
  OBVIOUS
<1>2. Append(q, c)[Len(q) + 1] = c /\ \A k \in 1..Len(q) : Append(q, c)[k] = q[k]
  OBVIOUS
<1>3. \A k \in 1..Len(q) + 1 : k = Len(q) + 1 \/ k \in 1..Len(q)
  BY <1>1
<1>4. Append(q, c) # <<>> /\ (q # <<>> => Head(Append(q, c)) = Head(q) /\ Head(q) \in Cmds)
  <2>1. Append(q, c) # <<>>
    BY <1>1
  <2>2. ASSUME q # <<>> PROVE Head(Append(q, c)) = Head(q) /\ Head(q) \in Cmds
    <3>1. 1 \in 1..Len(q) /\ Head(q) = q[1] /\ q[1] \in Cmds
      BY <2>2
    <3>2. Head(Append(q, c)) = Append(q, c)[1]
      BY <1>1, <2>1
    <3> QED
      BY <1>2, <3>1, <3>2
  <2> QED
    BY <2>1, <2>2
<1> QED
  BY <1>1, <1>2, <1>3, <1>4

LEMMA EnqueueStep ==
  ASSUME TypeOK, Inv, NEW c \in Cmds, Enqueue(c)
  PROVE  TypeOK' /\ Inv'
<1>1. /\ cmd[c] \in Cmd /\ CmdOK(c) /\ cmd[c].pc = "enqueue" /\ job[c] = NoJob /\ cmd[c].via = "self"
      /\ cmd[c].op \in QueueOps /\ c \in Proc
  BY ProcIs DEF TypeOK, Inv, CmdOK, Enqueue
<1>2. UNCHANGED <<rec, agent, archive, lost, twins, pruned, imported, claimed, crashes, told, late, cause>>
  BY DEF Enqueue, history
<1>3. RecordsStay
  BY <1>2 DEF RecordsStay, TypeOK
<1>4. PICK i \in Ids : i = cmd[c].id /\ Known(i) /\ i # 0
  BY <1>1 DEF CmdOK, Cmd
<1>5. PICK beside \in BOOLEAN : beside <=> cmd[c].live /\ cmd[c].op \in {"set-mode", "set-config"}
  OBVIOUS
<1>6. \E j \in Job : /\ job' = [job EXCEPT ![c] = j]
                     /\ ~beside => j = NoJob
                     /\ beside => /\ j.pc = "load" /\ j.id = i /\ j.copy = None /\ j.fresh
                                  /\ j.what = "persist"
  <2>1. CASE beside
    <3>1. job' = [job EXCEPT ![c] = Start("persist", i)]
      BY <1>4, <1>5, <2>1 DEF Enqueue
    <3> QED
      BY <2>1, <3>1, StartIs
  <2>2. CASE ~beside
    <3>1. job' = [job EXCEPT ![c] = NoJob]
      BY <1>1, <1>5, <2>2 DEF Enqueue, TypeOK
    <3> QED
      BY <2>2, <3>1, NoJobIs
  <2> QED
    BY <2>1, <2>2
<1>7. PICK j \in Job : /\ job' = [job EXCEPT ![c] = j]
                       /\ ~beside => j = NoJob
                       /\ beside => /\ j.pc = "load" /\ j.id = i /\ j.copy = None /\ j.fresh
                                    /\ j.what = "persist"
  BY <1>6
<1>8. (j.pc \in {"probe", "save"} => j.copy # None) /\ (j.pc # "none" => j.id # 0)
  BY <1>4, <1>7, NoJobIs
<1>9. /\ job' \in [Proc -> Job] /\ job'[c] = j /\ \A q \in Proc : q # c => job'[q] = job[q]
      /\ \A q \in Proc : /\ job'[q].pc \in {"probe", "save"} => job'[q].copy # None
                         /\ job'[q].pc # "none" => job'[q].id # 0
  <2>1. job' = [job EXCEPT ![c] = j]
    BY <1>7
  <2> QED
    BY <1>1, <1>8, <2>1, JobIs
<1>10. \E o \in Owner : /\ own' = [own EXCEPT ![i] = o] /\ o.closeReq = own[i].closeReq
                        /\ o.pc = own[i].pc \/ (own[i].pc = "down" /\ o.pc = "spawned")
  <2>1. own[i] \in Owner
    BY DEF TypeOK
  <2>2. CASE own' = own
    BY <2>1, <2>2 DEF TypeOK
  <2>3. CASE own[i].pc = "down" /\ own' = [own EXCEPT ![i].pc = "spawned"]
    <3> DEFINE o == [own[i] EXCEPT !.pc = "spawned"]
    <3>1. o \in Owner /\ o.closeReq = own[i].closeReq /\ o.pc = "spawned"
      BY <2>1 DEF Owner
    <3>2. own' = [own EXCEPT ![i] = o]
      BY <2>3
    <3> QED
      BY <2>3, <3>1, <3>2
  <2> QED
    BY <1>4, <2>2, <2>3 DEF Enqueue
<1>11. PICK o \in Owner : /\ own' = [own EXCEPT ![i] = o] /\ o.closeReq = own[i].closeReq
                          /\ o.pc = own[i].pc \/ (own[i].pc = "down" /\ o.pc = "spawned")
  BY <1>10
<1>12. own' \in [Ids -> Owner] /\ own'[i] = o /\ \A k \in Ids : k # i => own'[k] = own[k]
  <2>1. own' = [own EXCEPT ![i] = o]
    BY <1>11
  <2> QED
    BY <2>1, OwnIs
<1> DEFINE x == [cmd[c] EXCEPT !.pc = IF beside THEN "job" ELSE "waiting"]
<1>13. /\ x \in Cmd /\ x.op = cmd[c].op /\ x.id = i /\ x.via = "self"
       /\ x.pc = IF beside THEN "job" ELSE "waiting"
  BY <1>1, <1>4 DEF Cmd
<1>14. cmd' = [cmd EXCEPT ![c] = x]
  BY <1>5 DEF Enqueue, Goto
<1> HIDE DEF x
<1>15. cmd' \in [Cmds -> Cmd] /\ cmd'[c] = x /\ \A d \in Cmds : d # c => cmd'[d] = cmd[d]
  BY <1>13, <1>14, CmdIs
<1> PICK q \in Seq(Cmds) : q = Append(queue[i], c)
  BY JoinsIs DEF TypeOK
<1>16. /\ q \in Seq(Cmds) /\ q # <<>> /\ (queue[i] # <<>> => Head(q) = Head(queue[i]) /\ Head(q) \in Cmds)
       /\ \A k \in 1..Len(q) : q[k] = c \/ (k \in 1..Len(queue[i]) /\ q[k] = queue[i][k])
  BY JoinsIs DEF TypeOK
<1>17. queue' \in [Ids -> Seq(Cmds)] /\ queue'[i] = q /\ \A k \in Ids : k # i => queue'[k] = queue[k]
  BY <1>4, <1>16 DEF Enqueue, TypeOK
<1>18. lease' \in [Ids -> BOOLEAN]
  BY <1>4 DEF Enqueue, TypeOK, LeaseAlive
<1>19. TypeOK'
  <2>1. archive' \in [id : Ids, record : Record] \cup {None}
    BY <1>3, RestStays
  <2>2. /\ rec' \in [Ids -> Record \cup {None}] /\ agent' \in {"plain", "modes", "options"}
        /\ claimed' \in [Ids -> BOOLEAN] /\ crashes' \in 0..MaxCrashes
        /\ told' \in [Ids -> SUBSET {"mode", "config", "close"}]
        /\ {lost', cause', twins', late', pruned', imported'} \subseteq SUBSET Ids
    BY <1>2 DEF TypeOK
  <2>3. cmd' \in [Cmds -> Cmd]
    BY <1>15
  <2>4. /\ job' \in [Proc -> Job]
        /\ \A p \in Proc : /\ job'[p].pc \in {"probe", "save"} => job'[p].copy # None
                           /\ job'[p].pc # "none" => job'[p].id # 0
    BY <1>9
  <2>5. own' \in [Ids -> Owner] /\ queue' \in [Ids -> Seq(Cmds)] /\ lease' \in [Ids -> BOOLEAN]
    BY <1>12, <1>17, <1>18
  <2> QED
    BY <2>1, <2>2, <2>3, <2>4, <2>5 DEF TypeOK
<1>20. ASSUME NEW p \in Proc PROVE JobOK(p)'
  <2>1. CASE p # c
    BY <1>3, <1>13, <1>15, <1>9, <2>1, JobStays DEF Inv
  <2>2. CASE p = c /\ ~beside
    BY <1>1, <1>7, <1>9, <2>2, NoJobIs DEF JobOK, Work, CanClose
  <2>3. CASE p = c /\ beside
    <3>1. j.pc = "load" /\ j.id = i /\ j.copy = None /\ j.fresh /\ j.what = "persist"
      BY <1>7, <2>3
    <3>2. Known(i)' /\ (agent # "modes" /\ x.op \in CanClose => i \in cause')
      BY <1>1, <1>2, <1>4, <1>13 DEF Known, CmdOK
    <3>3. Work(c)' = x.op
      BY <1>15, <1>9, <3>1 DEF Work
    <3>4. agent' = agent
      BY <1>2
    <3> QED
      BY <1>9, <2>3, <3>1, <3>2, <3>3, <3>4 DEF JobOK, CanClose, QueueOps
  <2> QED
    BY <2>1, <2>2, <2>3
<1>21. ASSUME NEW d \in Cmds PROVE CmdOK(d)'
  <2>1. CASE d # c
    BY <1>3, <1>15, <1>9, <2>1, ProcIs, CmdStays DEF Inv, SameJob
  <2>2. CASE d = c
    <3>1. Known(i)' /\ (agent' # "modes" /\ x.op \in CanClose => i \in cause')
      BY <1>1, <1>2, <1>4, <1>13 DEF Known, CmdOK
    <3>2. beside => Work(c)' = x.op /\ Tells(x.op) \subseteq Changes(x.op)
      <4>1. beside => job'[c].what = "persist" /\ x.op \in {"set-mode", "set-config"}
        BY <1>5, <1>13, <1>7, <1>9
      <4> QED
        BY <1>15, <4>1 DEF Work, Tells, Changes
    <3>3. ~beside => j = NoJob
      BY <1>7
    <3> QED
      BY <1>1, <1>13, <1>15, <1>9, <2>2, <3>1, <3>2, <3>3 DEF CmdOK
  <2> QED
    BY <2>1, <2>2
<1>22. ASSUME NEW k \in Ids PROVE LoopOK(k)' /\ MarkOK(k)' /\ RecOK(k)'
  <2>1. job'[Loop(k)] = job[Loop(k)] /\ job'[Exit(k)] = job[Exit(k)]
    BY <1>9, ProcIs
  <2>2. ASSUME NEW d \in Cmds, Waits(d, k) PROVE Waits(d, k)' /\ cmd'[d].op = cmd[d].op
    BY <1>1, <1>15, <2>2 DEF Waits
  <2>3. RecOK(k)'
    BY <1>2, <1>3, RecStays DEF Inv
  <2>4. CASE k # i
    <3>1. LoopOK(k)'
      BY <1>3, <1>12, <1>17, <2>1, <2>2, <2>4, LoopStays DEF Inv, TypeOK, SameJob
    <3>2. MarkOK(k)'
      BY <1>2, <1>3, <1>12, <2>1, <2>4, MarkStays DEF Inv
    <3> QED
      BY <2>3, <3>1, <3>2
  <2>5. CASE k = i
    <3>1. Waits(c, i)'
      BY <1>1, <1>13, <1>15 DEF Waits
    <3>2. (\A n \in 1..Len(queue[i]) : Waits(queue[i][n], i))'
      <4>1. ASSUME NEW n \in 1..Len(q) PROVE Waits(q[n], i)'
        <5>1. CASE q[n] = c
          BY <3>1, <5>1 DEF Waits
        <5>2. CASE n \in 1..Len(queue[i]) /\ q[n] = queue[i][n]
          <6>1. PICK d \in Cmds : d = q[n] /\ Waits(d, i)
            BY <5>2 DEF Inv, LoopOK, TypeOK
          <6>2. Waits(d, i)'
            BY <2>2, <2>5, <6>1
          <6> QED
            BY <6>1, <6>2 DEF Waits
        <5> QED
          BY <1>16, <5>1, <5>2
      <4> QED
        BY <1>17, <4>1 DEF Waits
    <3>3. own[i].pc \in {"run", "turned"} => job'[Loop(i)].what = cmd'[Head(q)].op /\ q # <<>>
      <4>1. own[i].pc \in {"run", "turned"} => queue[i] # <<>> /\ job[Loop(i)].what = cmd[Head(queue[i])].op
        BY DEF Inv, LoopOK
      <4>2. \A d \in Cmds : cmd'[d].op = cmd[d].op
        BY <1>13, <1>15
      <4> QED
        BY <1>16, <2>1, <2>5, <4>1, <4>2
    <3>4. Known(i)' /\ LoopOK(i) /\ MarkOK(i)
          /\ (own'[i].pc = own[i].pc \/ (own[i].pc = "down" /\ own'[i].pc = "spawned"))
          /\ own'[i].closeReq = own[i].closeReq /\ queue'[i] = q /\ q # <<>>
      <4>1. Known(i)' /\ LoopOK(i) /\ MarkOK(i)
        BY <1>2, <1>4 DEF Known, Inv
      <4>2. own'[i] = o /\ queue'[i] = q /\ q # <<>>
        BY <1>12, <1>16, <1>17
      <4> QED
        BY <1>11, <4>1, <4>2
    <3>5. LoopOK(i)'
      BY <1>2, <2>1, <2>5, <3>2, <3>3, <3>4 DEF LoopOK
    <3>6. MarkOK(i)'
      BY <1>2, <2>1, <2>5, <3>4 DEF MarkOK, Faithful, Up
    <3> QED
      BY <2>3, <2>5, <3>5, <3>6
  <2> QED
    BY <2>4, <2>5
<1> QED
  BY <1>3, <1>19, <1>20, <1>21, <1>22, RestStays DEF Inv

\* It ends an operation, whose result is told when it was done.
LEMMA ReturnStep ==
  ASSUME TypeOK, Inv, RecordsStay, NEW c \in Cmds, NEW x \in Cmd, cmd' = [cmd EXCEPT ![c] = x],
         x.op = cmd[c].op, x.id = cmd[c].id, x.via = cmd[c].via, cmd[c].pc = "job",
         x.pc = "done" \/ (x.op = "new" /\ x.pc = "find" /\ x.via = "self"),
         job[c].pc \in {"ok", "error"}, job' = [job EXCEPT ![c] = NoJob],
         IF job[c].pc = "ok" THEN Tell(c, job[c].id) ELSE UNCHANGED told,
         OwnersStay, UNCHANGED <<queue, claimed, crashes, late, lease>>
  PROVE  TypeOK' /\ Inv'
<1>1. CmdOK(c) /\ JobOK(c) /\ c \in Proc
  BY ProcIs DEF Inv
<1>2. PICK i \in Ids : i = job[c].id /\ Known(i)
  BY <1>1 DEF JobOK
<1>3. StillWaits(c)
  <2>1. cmd'[c] = x
    BY CmdIs
  <2> QED
    BY <2>1 DEF StillWaits, Waits, QueueOps
<1>4. Tells(cmd[c].op) \subseteq {"mode", "config", "close"}
  BY DEF Tells
<1>5. told' \in [Ids -> SUBSET {"mode", "config", "close"}]
  <2>1. CASE job[c].pc = "ok"
    <3>1. told' = [told EXCEPT ![i] = @ \cup Tells(cmd[c].op)]
      BY <1>2, <2>1 DEF Tell
    <3> QED
      BY <1>4, <3>1 DEF TypeOK
  <2>2. CASE job[c].pc # "ok"
    BY <2>2 DEF TypeOK
  <2> QED
    BY <2>1, <2>2
<1>6. lease' \in [Ids -> BOOLEAN]
  BY DEF TypeOK
<1>7. TypeOK' /\ cmd'[c] = x /\ job'[c] = NoJob
      /\ (CmdOK(c)' /\ JobOK(c)' /\ (told' = told \/ ToldOK') => Inv')
  <2>1. (NoJob.pc \in {"probe", "save"} => NoJob.copy # None) /\ (NoJob.pc # "none" => NoJob.id # 0)
        /\ NoJob \in Job
    BY NoJobIs
  <2> HIDE DEF NoJob
  <2> QED
    BY <1>3, <1>5, <1>6, <2>1, CommandStep
<1>8. JobOK(c)'
  BY <1>7, NoJobIs DEF JobOK, Work, CanClose
<1>9. CmdOK(c)'
  BY <1>1, <1>7 DEF CmdOK, RecordsStay, Known, CanClose
<1>10. told' = told \/ ToldOK'
  <2>1. CASE job[c].pc = "ok"
    <3>1. told' = [told EXCEPT ![i] = @ \cup Tells(cmd[c].op)]
      BY <1>2, <2>1 DEF Tell
    <3>2. Tells(cmd[c].op) \subseteq Changes(Work(c))
      BY <1>1 DEF CmdOK
    <3>3. Faithful(i) => \A tag \in Changes(Work(c)) : Shows(tag, rec[i])
      BY <1>1, <1>2, <2>1 DEF JobOK
    <3>4. \A k \in Ids : k # i => RecOK(k)'
      BY <3>1, RecStays DEF Inv, TypeOK
    <3>5. RecOK(i)'
      <4>1. told'[i] = told[i] \cup Tells(cmd[c].op) /\ Known(i) /\ RecOK(i)
        BY <1>2, <3>1 DEF TypeOK, Inv
      <4> QED
        BY <3>2, <3>3, <4>1 DEF RecOK, RecordsStay, Known, Faithful, Shows, Blamed
    <3> QED
      BY <3>4, <3>5 DEF ToldOK
  <2>2. CASE job[c].pc # "ok"
    BY <2>2
  <2> QED
    BY <2>1, <2>2
<1> QED
  BY <1>7, <1>8, <1>9, <1>10

LEMMA CommandReturnsStep ==
  ASSUME TypeOK, Inv, NEW c \in Cmds, CommandReturns(c)
  PROVE  TypeOK' /\ Inv'
<1>1. cmd[c] \in Cmd /\ cmd[c].pc = "job" /\ cmd[c].via = "self" /\ job[c].pc \in {"ok", "error"}
  BY DEF TypeOK, CommandReturns
<1>2. UNCHANGED <<rec, agent, archive, lost, twins, pruned, imported, own, queue, claimed, crashes,
                  late, lease, cause>>
  BY DEF CommandReturns, ownVars
<1>3. RecordsStay /\ OwnersStay
  BY <1>2 DEF RecordsStay, OwnersStay, TypeOK
<1>4. PICK pc \in {"find", "done"} : pc = IF job[c].pc = "ok" /\ cmd[c].op = "new" THEN "find" ELSE "done"
  OBVIOUS
<1> DEFINE x == [cmd[c] EXCEPT !.pc = pc]
<1>5. x \in Cmd /\ x.op = cmd[c].op /\ x.pc = pc /\ x.id = cmd[c].id /\ x.via = "self"
  BY <1>1 DEF Cmd
<1>6. cmd' = [cmd EXCEPT ![c] = x]
  BY <1>4 DEF CommandReturns, Goto
<1> HIDE DEF x
<1>7. /\ IF job[c].pc = "ok" THEN Tell(c, job[c].id) ELSE UNCHANGED told
      /\ job' = [job EXCEPT ![c] = NoJob]
  BY DEF CommandReturns
<1> QED
  BY <1>1, <1>2, <1>3, <1>4, <1>5, <1>6, <1>7, ReturnStep

LEMMA HandlerReturnsStep ==
  ASSUME TypeOK, Inv, NEW c \in Cmds, HandlerReturns(c)
  PROVE  TypeOK' /\ Inv'
<1>1. /\ cmd[c] \in Cmd /\ cmd[c].pc = "job" /\ job[c].pc \in {"ok", "error"}
      /\ CmdOK(c) /\ JobOK(c) /\ c \in Proc
  BY ProcIs DEF TypeOK, HandlerReturns, Inv
<1>2. UNCHANGED <<rec, agent, archive, lost, twins, pruned, imported, queue, claimed, crashes,
                  late, lease, cause>>
  BY DEF HandlerReturns
<1>3. RecordsStay
  BY <1>2 DEF RecordsStay, TypeOK
<1>4. PICK i \in Ids : i = job[c].id
  BY <1>1 DEF JobOK
<1>5. OwnersStay
  <2>1. CASE own' = own
    BY <2>1 DEF OwnersStay, TypeOK
  <2>2. CASE cmd[c].op = "close" /\ own' = [own EXCEPT ![i].closeReq = TRUE]
    <3>1. agent # "modes" => i \in cause
      <4>1. Work(c) = "close"
        BY <1>1, <2>2 DEF CmdOK, Tells, Changes
      <4> QED
        BY <1>1, <1>4, <4>1 DEF JobOK, CanClose
    <3> DEFINE o == [own[i] EXCEPT !.closeReq = TRUE]
    <3>2. o \in Owner /\ o.pc = own[i].pc
      <4>1. own[i] \in Owner
        BY DEF TypeOK
      <4> QED
        BY <4>1 DEF Owner
    <3>3. own' = [own EXCEPT ![i] = o]
      BY <2>2
    <3> HIDE DEF o
    <3>4. own' \in [Ids -> Owner] /\ own'[i] = o /\ \A k \in Ids : k # i => own'[k] = own[k]
      BY <3>2, <3>3, OwnIs
    <3> QED
      BY <3>1, <3>2, <3>4 DEF OwnersStay
  <2> QED
    BY <1>4, <2>1, <2>2 DEF HandlerReturns
<1> DEFINE x == [cmd[c] EXCEPT !.pc = "done"]
<1>6. x \in Cmd /\ x.op = cmd[c].op /\ x.pc = "done" /\ x.id = cmd[c].id /\ x.via = cmd[c].via
  BY <1>1 DEF Cmd
<1>7. cmd' = [cmd EXCEPT ![c] = x]
  BY DEF HandlerReturns, Goto
<1> HIDE DEF x
<1>8. /\ IF job[c].pc = "ok" THEN Tell(c, job[c].id) ELSE UNCHANGED told
      /\ job' = [job EXCEPT ![c] = NoJob]
  BY DEF HandlerReturns
<1> QED
  BY <1>1, <1>2, <1>3, <1>5, <1>6, <1>7, <1>8, ReturnStep

-----------------------------------------------------------------------------
\* The steps of an operation.

\* What a process has loaded is the record, if it goes on.
LEMMA LoadedIs ==
  ASSUME TypeOK, Inv, NEW p \in Proc, job[p].pc = "load", NEW i \in Ids, i = job[p].id,
         NEW j, j = Loaded(p, rec[i])
  PROVE  /\ j \in Job /\ j.what = job[p].what /\ j.id = i /\ j.fresh
         /\ \/ j.copy = None /\ j.pc = "error" /\ j.what # "unmark" /\ (rec[i] = None \/ j.what = "prompt")
            \/ j.copy = None /\ j.pc = "ok" /\ j.what = "unmark" /\ rec[i] = None
            \/ /\ rec[i] # None /\ j.copy = rec[i] /\ j.pc \in {"save", "probe"}
               /\ j.pc = "probe" => p \in Cmds /\ cmd[p].via # "owner"
<1>1. job[p] \in Job /\ JobOK(p) /\ job[p].copy = None /\ job[p].fresh /\ rec[i] \in Record \cup {None}
  BY DEF TypeOK, Inv, JobOK
<1>2. CASE rec[i] = None /\ job[p].what = "unmark"
  <2>1. j = [job[p] EXCEPT !.pc = "ok"]
    BY <1>2 DEF Loaded
  <2> QED
    BY <1>1, <1>2, <2>1 DEF Job
<1>3. CASE (rec[i] = None /\ job[p].what # "unmark")
           \/ (rec[i] # None /\ job[p].what = "prompt" /\ rec[i].closed)
  <2>1. j = [job[p] EXCEPT !.pc = "error"]
    BY <1>3 DEF Loaded
  <2> QED
    BY <1>1, <1>3, <2>1 DEF Job
<1>4. CASE rec[i] # None /\ ~(job[p].what = "prompt" /\ rec[i].closed)
  <2>1. PICK pc \in {"save", "probe"} :
          pc = IF job[p].what = "close" /\ p \in Cmds /\ cmd[p].via # "owner" THEN "probe" ELSE "save"
    OBVIOUS
  <2>2. j = [job[p] EXCEPT !.copy = rec[i], !.pc = pc]
    BY <1>4, <2>1 DEF Loaded
  <2> QED
    BY <1>1, <1>4, <2>1, <2>2 DEF Job
<1> QED
  BY <1>2, <1>3, <1>4

LEMMA LoadStep ==
  ASSUME TypeOK, Inv, NEW p \in Proc, Load(p)
  PROVE  TypeOK' /\ Inv'
<1>1. job[p] \in Job /\ JobOK(p) /\ job[p].pc = "load" /\ job[p].copy = None
  BY DEF TypeOK, Inv, JobOK, Load
<1>2. PICK i \in Ids : i = job[p].id /\ Known(i) /\ i # 0
  BY <1>1, ProcIs DEF JobOK
<1>3. UNCHANGED <<rec, agent, archive, cmd, own, queue, lease, crashes, lost, told, cause, twins, late,
                  pruned, imported>>
  BY DEF Load, history
<1>4. RecordsStay
  BY <1>3 DEF RecordsStay, TypeOK
<1>5. PICK j : j = Loaded(p, rec[i])
  OBVIOUS
<1>6. /\ j \in Job /\ j.what = job[p].what /\ j.id = i /\ j.fresh
      /\ \/ j.copy = None /\ j.pc = "error" /\ j.what # "unmark" /\ (rec[i] = None \/ j.what = "prompt")
         \/ j.copy = None /\ j.pc = "ok" /\ j.what = "unmark" /\ rec[i] = None
         \/ /\ rec[i] # None /\ j.copy = rec[i] /\ j.pc \in {"save", "probe"}
            /\ j.pc = "probe" => p \in Cmds /\ cmd[p].via # "owner"
  BY <1>1, <1>2, <1>5, LoadedIs
<1>7. job' = [job EXCEPT ![p] = j]
  BY <1>2, <1>5 DEF Load
<1>8. /\ job' \in [Proc -> Job] /\ job'[p] = j /\ \A q \in Proc : q # p => job'[q] = job[q]
      /\ \A q \in Proc : /\ job'[q].pc \in {"probe", "save"} => job'[q].copy # None
                         /\ job'[q].pc # "none" => job'[q].id # 0
  <2>1. (j.pc \in {"probe", "save"} => j.copy # None) /\ (j.pc # "none" => j.id # 0)
    BY <1>2, <1>6
  <2> QED
    BY <1>6, <1>7, <2>1, JobIs
<1>9. /\ claimed' \in [Ids -> BOOLEAN] /\ \A k \in Ids : k # i => claimed'[k] = claimed[k]
      /\ claimed'[i] = (claimed[i] \/ (j.what = "mark" /\ rec[i] # None))
  BY <1>2, <1>6 DEF Load, TypeOK
<1>10. TypeOK'
  <2>1. {lost', cause', twins', late', pruned', imported'} \subseteq SUBSET Ids
    BY <1>3 DEF TypeOK
  <2>2. /\ job' \in [Proc -> Job]
        /\ \A q \in Proc : /\ job'[q].pc \in {"probe", "save"} => job'[q].copy # None
                           /\ job'[q].pc # "none" => job'[q].id # 0
    BY <1>8
  <2>3. /\ rec' \in [Ids -> Record \cup {None}] /\ agent' \in {"plain", "modes", "options"}
        /\ archive' \in [id : Ids, record : Record] \cup {None} /\ cmd' \in [Cmds -> Cmd]
        /\ own' \in [Ids -> Owner] /\ queue' \in [Ids -> Seq(Cmds)]
        /\ claimed' \in [Ids -> BOOLEAN] /\ lease' \in [Ids -> BOOLEAN] /\ crashes' \in 0..MaxCrashes
        /\ told' \in [Ids -> SUBSET {"mode", "config", "close"}]
    BY <1>3, <1>9 DEF TypeOK
  <2> QED
    BY <2>1, <2>2, <2>3 DEF TypeOK
<1>11. SameJob(p) /\ \A q \in Proc : q # p => SameJob(q)
  BY <1>1, <1>2, <1>6, <1>8 DEF SameJob
<1>12. ASSUME NEW q \in Proc PROVE JobOK(q)'
  <2>1. CASE q # p
    BY <1>3, <1>4, <1>8, <2>1, JobStays DEF Inv
  <2>2. CASE q = p
    <3>1. Work(p)' = Work(p) /\ Known(i)'
      BY <1>2, <1>3, <1>6, <1>8 DEF Work, Known
    <3>2. agent # "modes" /\ j.copy # None /\ Blamed(j.copy) => i \in cause
      BY <1>6 DEF Inv, RecOK
    <3>3. agent # "modes" /\ Work(p) \in CanClose => i \in cause
      BY <1>1, <1>2 DEF JobOK
    <3>4. j.pc = "ok" => ~Faithful(i)'
      BY <1>3, <1>6 DEF Faithful
    <3>5. /\ j.what = "persist" => p \in Cmds
          /\ p \in Cmds => j.what \in QueueOps \cup {"none", "cancel", "persist"}
          /\ j.what = "unmark" => j.pc # "error"
          /\ j.pc \notin {"none", "load"} /\ j.what # "none"
      BY <1>1, <1>6 DEF JobOK
    <3>6. (j.copy # None <=> j.pc \in {"probe", "save"}) /\ (j.copy # None => rec'[i] = j.copy)
      BY <1>3, <1>6
    <3>7. job'[p] = j /\ j.id = i /\ j.fresh /\ agent' = agent /\ cause' = cause /\ cmd' = cmd
          /\ (j.pc = "probe" => p \in Cmds /\ cmd[p].via # "owner")
      BY <1>3, <1>6, <1>8
    <3> QED
      BY <2>2, <3>1, <3>2, <3>3, <3>4, <3>5, <3>6, <3>7 DEF JobOK, Blamed, CanClose
  <2> QED
    BY <2>1, <2>2
<1>13. ASSUME NEW c \in Cmds PROVE CmdOK(c)'
  BY <1>3, <1>4, <1>11, ProcIs, CmdStays DEF Inv
<1>14. ASSUME NEW k \in Ids PROVE LoopOK(k)' /\ MarkOK(k)' /\ RecOK(k)'
  <2>1. RecOK(k)'
    BY <1>3, <1>4, RecStays DEF Inv
  <2>2. LoopOK(k)'
    <3>1. SameJob(Loop(k)) /\ SameJob(Exit(k)) /\ queue[k] \in Seq(Cmds)
      BY <1>11, ProcIs DEF TypeOK
    <3>2. \A c \in Cmds : Waits(c, k) => Waits(c, k)' /\ cmd'[c].op = cmd[c].op
      BY <1>3 DEF Waits
    <3> QED
      BY <1>3, <1>4, <3>1, <3>2, LoopStays DEF Inv
  <2>3. CASE p # Loop(k)
    <3>1. claimed'[k] = claimed[k]
      <4>1. CASE k # i
        BY <1>9, <4>1
      <4>2. CASE k = i
        <5>1. job[p].what # "mark"
          <6>1. CASE p \in Cmds
            BY <1>1, <6>1 DEF JobOK, QueueOps
          <6>2. ASSUME NEW n \in Ids, p = Loop(n) PROVE job[p].what # "mark"
            BY <1>1, <1>2, <2>3, <4>2, <6>2 DEF Inv, LoopOK
          <6>3. ASSUME NEW n \in Ids, p = Exit(n) PROVE job[p].what # "mark"
            BY <1>1, <6>3 DEF Inv, LoopOK
          <6> QED
            BY <6>1, <6>2, <6>3, ProcIs
        <5> QED
          BY <1>6, <1>9, <4>2, <5>1 DEF TypeOK
      <4> QED
        BY <4>1, <4>2
    <3>2. job'[Loop(k)].pc = job[Loop(k)].pc
      BY <1>8, <2>3, ProcIs
    <3>3. MarkOK(k)'
      BY <1>3, <1>4, <3>1, <3>2, MarkStays DEF Inv
    <3> QED
      BY <2>1, <2>2, <3>3
  <2>4. CASE p = Loop(k)
    <3>1. k = i /\ LoopOK(i) /\ MarkOK(i) /\ job'[Loop(i)] = j
      BY <1>1, <1>2, <1>8, <2>4 DEF Inv, LoopOK
    <3>2. own[i].pc = "mark" => j.what = "mark"
      BY <1>6, <2>4, <3>1 DEF LoopOK
    <3>3. claimed[i] => claimed'[i]
      BY <1>9
    <3>4. (own[i].pc = "mark" /\ j.pc = "save" => claimed'[i]) /\ (j.pc = "ok" => ~Faithful(i))
      BY <1>6, <1>9, <3>2 DEF Faithful
    <3>5. own[i].pc = "mark" /\ j.pc = "error" => ~Faithful(i)
      BY <1>6, <3>2 DEF Faithful
    <3>6. MarkOK(i)'
      BY <1>3, <3>1, <3>3, <3>4, <3>5 DEF MarkOK, Faithful, Up
    <3> QED
      BY <2>1, <2>2, <3>1, <3>6
  <2> QED
    BY <2>3, <2>4
<1> QED
  BY <1>4, <1>10, <1>12, <1>13, <1>14, RestStays DEF Inv

\* The commands that a process has served turn to the queue.
LEMMA Unserve ==
  ASSUME TypeOK, Inv, RecordsStay, NEW i \in Ids, NEW via \in {"owner", "leaver"},
         Unserved(Handled(i, via)),
         \A c \in Handled(i, via) : job'[c] = NoJob,
         \A c \in Cmds \ Handled(i, via) : SameJob(c)
  PROVE  /\ cmd' \in [Cmds -> Cmd]
         /\ \A c \in Cmds : CmdOK(c)' /\ cmd'[c].op = cmd[c].op /\ StillWaits(c)
         /\ \A c \in Cmds \ Handled(i, via) : cmd'[c] = cmd[c]
<1>1. PICK C \in SUBSET Cmds : C = Handled(i, via) /\ \A c \in C : /\ cmd[c].via = via /\ cmd[c].id = i
                                                                  /\ cmd[c].pc \in {"handler", "job"}
  BY DEF Handled
<1>2. ASSUME NEW c \in Cmds
      PROVE  /\ cmd'[c] \in Cmd /\ CmdOK(c)' /\ cmd'[c].op = cmd[c].op /\ StillWaits(c)
             /\ c \notin C => cmd'[c] = cmd[c]
  <2>1. cmd[c] \in Cmd /\ CmdOK(c)
    BY DEF TypeOK, Inv
  <2>2. CASE c \notin C
    <3>1. cmd'[c] = cmd[c] /\ SameJob(c)
      BY <1>1, <2>2 DEF Unserved
    <3>2. CmdOK(c)'
      BY <2>1, <3>1, CmdStays
    <3>3. StillWaits(c)
      BY <3>1 DEF StillWaits, Waits
    <3> QED
      BY <2>1, <3>1, <3>2, <3>3
  <2>3. CASE c \in C
    <3>1. cmd'[c] = [cmd[c] EXCEPT !.pc = "enqueue", !.via = "self"]
      BY <1>1, <2>3 DEF Unserved
    <3>2. /\ cmd'[c] \in Cmd /\ cmd'[c].op = cmd[c].op /\ cmd'[c].id = i /\ cmd'[c].pc = "enqueue"
          /\ cmd'[c].via = "self"
      BY <1>1, <2>1, <2>3, <3>1 DEF Cmd
    <3>3. job'[c] = NoJob /\ cmd[c].op \in QueueOps /\ i # 0 /\ cmd[c].id = i
      BY <1>1, <2>1, <2>3, ProcIs DEF CmdOK
    <3>4. CmdOK(c)'
      BY <2>1, <3>2, <3>3 DEF CmdOK, RecordsStay, Known, CanClose
    <3>5. StillWaits(c)
      BY <1>1, <2>3 DEF StillWaits, Waits
    <3> QED
      BY <2>3, <3>2, <3>4, <3>5
  <2> QED
    BY <2>2, <2>3
<1>3. cmd' \in [Cmds -> Cmd]
  BY <1>2 DEF Unserved
<1> QED
  BY <1>1, <1>2, <1>3

\* What is left behind by an owner that ends.
LEMMA OwnerEnds ==
  ASSUME TypeOK, Inv, RecordsStay, NEW i \in Ids, Up(i), OwnerDies(i), UNCHANGED <<queue, claimed, told>>,
         \A q \in JobsOfOwner(i) : job'[q] = NoJob,
         \A q \in Proc \ JobsOfOwner(i) : job'[q] = job[q] \/ (q \in Cmds /\ SameJob(q))
  PROVE  /\ own' \in [Ids -> Owner] /\ cmd' \in [Cmds -> Cmd] /\ late' \in SUBSET Ids
         /\ \A q \in JobsOfOwner(i) : JobOK(q)'
         /\ \A q \in Proc \ JobsOfOwner(i) : /\ job'[q] = job[q] => JobOK(q)'
                                             /\ q \in Cmds => cmd'[q] = cmd[q]
         /\ \A c \in Cmds : CmdOK(c)'
         /\ \A k \in Ids : LoopOK(k)' /\ MarkOK(k)' /\ RecOK(k)'
<1>1. /\ \A q \in Handled(i, "owner") : q \in Cmds /\ q \in JobsOfOwner(i) /\ job'[q] = NoJob
      /\ \A q \in Cmds \ Handled(i, "owner") : SameJob(q) /\ q \in Proc \ JobsOfOwner(i)
      /\ Loop(i) \in JobsOfOwner(i) /\ JobsOfOwner(i) \subseteq Proc
      /\ \A q \in Proc \ JobsOfOwner(i) : q \in Cmds => q \notin Handled(i, "owner")
  BY ProcIs DEF JobsOfOwner, Handled, SameJob
<1>2. /\ cmd' \in [Cmds -> Cmd]
      /\ \A c \in Cmds : CmdOK(c)' /\ cmd'[c].op = cmd[c].op /\ StillWaits(c)
      /\ \A c \in Cmds \ Handled(i, "owner") : cmd'[c] = cmd[c]
  BY <1>1, Unserve DEF OwnerDies
<1>3. Down \in Owner /\ Down.pc = "down" /\ ~Down.closeReq
  BY DEF Down, Owner
<1>4. own' \in [Ids -> Owner] /\ own'[i] = Down /\ \A k \in Ids : k # i => own'[k] = own[k]
  BY <1>3, OwnIs DEF OwnerDies
<1>5. late' \in SUBSET Ids /\ late \subseteq late' /\ (own[i].pc \in {"clear", "unmark"} => i \in late')
  BY DEF OwnerDies, TypeOK
<1>6. ASSUME NEW q \in JobsOfOwner(i) PROVE JobOK(q)'
  <2>1. job'[q] = NoJob
    OBVIOUS
  <2> QED
    BY <2>1, NoJobIs DEF JobOK, Work, CanClose
<1>7. ASSUME NEW q \in Proc \ JobsOfOwner(i), job'[q] = job[q] PROVE JobOK(q)'
  BY <1>1, <1>2, <1>7, JobStays DEF Inv
<1>8. ASSUME NEW k \in Ids PROVE LoopOK(k)' /\ MarkOK(k)' /\ RecOK(k)'
  <2>1. RecOK(k)'
    BY RecStays DEF Inv
  <2>2. job'[Exit(k)] = job[Exit(k)] /\ (k # i => job'[Loop(k)] = job[Loop(k)])
    BY ProcIs DEF JobsOfOwner, Handled
  <2>3. \A c \in Cmds : Waits(c, k) => Waits(c, k)' /\ cmd'[c].op = cmd[c].op
    BY <1>2 DEF StillWaits
  <2>4. CASE k # i
    <3>1. LoopOK(k)'
      BY <1>4, <2>2, <2>3, <2>4, LoopStays DEF Inv, TypeOK, SameJob
    <3>2. MarkOK(k)'
      BY <1>4, <1>5, <2>2, <2>4, MarkStays DEF Inv
    <3> QED
      BY <2>1, <3>1, <3>2
  <2>5. CASE k = i
    <3>1. job'[Loop(i)] = NoJob /\ LoopOK(i) /\ MarkOK(i)
      BY <1>1 DEF Inv
    <3>2. (\A n \in 1..Len(queue[i]) : Waits(queue[i][n], i))'
      <4>1. ASSUME NEW n \in 1..Len(queue[i]) PROVE Waits(queue[i][n], i)'
        <5>1. PICK c \in Cmds : c = queue[i][n] /\ Waits(c, i)
          BY <3>1 DEF LoopOK, TypeOK
        <5>2. Waits(c, i)'
          BY <2>3, <2>5, <5>1
        <5> QED
          BY <5>1, <5>2 DEF Waits
      <4> QED
        BY <4>1
    <3>3. LoopOK(i)'
      BY <1>3, <1>4, <2>2, <2>5, <3>1, <3>2, NoJobIs DEF LoopOK
    <3>4. own[i].pc \in {"clear", "top", "mark", "run", "turned", "unmark", "closing", "exit"}
      BY DEF Up, TypeOK, Owner
    <3>5. rec' = rec /\ lost' = lost /\ imported' = imported /\ claimed' = claimed
      BY DEF RecordsStay
    <3>6. Faithful(i) /\ i \notin late' /\ rec[i].active => claimed[i]
      BY <1>5, <3>1, <3>4 DEF MarkOK, Up
    <3>7. MarkOK(i)'
      BY <1>3, <1>4, <3>5, <3>6 DEF MarkOK, Faithful, Up
    <3> QED
      BY <2>1, <2>5, <3>3, <3>7
  <2> QED
    BY <2>4, <2>5
<1> QED
  BY <1>1, <1>2, <1>4, <1>5, <1>6, <1>7, <1>8

LEMMA CrashStep ==
  ASSUME TypeOK, Inv, NEW i \in Ids, Crash(i)
  PROVE  TypeOK' /\ Inv'
<1>1. /\ UNCHANGED <<rec, agent, archive, lost, twins, pruned, imported, cause, queue, claimed, lease, told>>
      /\ Up(i) /\ OwnerDies(i) /\ crashes < MaxCrashes /\ crashes' = crashes + 1
  BY DEF Crash
<1>2. RecordsStay
  BY <1>1 DEF RecordsStay, TypeOK
<1>3. JobsOfOwner(i) \subseteq Proc
  BY ProcIs DEF JobsOfOwner, Handled
<1>4. /\ job' \in [Proc -> Job] /\ \A q \in JobsOfOwner(i) : job'[q] = NoJob
      /\ \A q \in Proc \ JobsOfOwner(i) : job'[q] = job[q]
  BY <1>3, NoJobIs DEF Crash, TypeOK
<1>5. /\ own' \in [Ids -> Owner] /\ cmd' \in [Cmds -> Cmd] /\ late' \in SUBSET Ids
      /\ \A q \in JobsOfOwner(i) : JobOK(q)'
      /\ \A q \in Proc \ JobsOfOwner(i) : JobOK(q)'
      /\ \A c \in Cmds : CmdOK(c)'
      /\ \A k \in Ids : LoopOK(k)' /\ MarkOK(k)' /\ RecOK(k)'
  BY <1>1, <1>2, <1>4, OwnerEnds
<1>6. TypeOK'
  <2>1. \A q \in Proc : /\ job'[q].pc \in {"probe", "save"} => job'[q].copy # None
                        /\ job'[q].pc # "none" => job'[q].id # 0
    BY <1>4, NoJobIs DEF TypeOK
  <2>2. crashes' \in 0..MaxCrashes
    BY <1>1, BoundAssumption DEF TypeOK
  <2> QED
    BY <1>1, <1>2, <1>4, <1>5, <2>1, <2>2, RestStays DEF TypeOK
<1>7. \A q \in Proc : JobOK(q)'
  BY <1>5
<1> QED
  BY <1>2, <1>5, <1>6, <1>7, RestStays DEF Inv

LEMMA ProbeStep ==
  ASSUME TypeOK, Inv, NEW p \in Proc, Probe(p)
  PROVE  TypeOK' /\ Inv'
<1>1. /\ job[p] \in Job /\ JobOK(p) /\ job[p].pc = "probe" /\ job[p].copy # None
      /\ p \in Cmds /\ cmd[p].via # "owner"
  BY DEF TypeOK, Inv, JobOK, Probe
<1>2. PICK i \in Ids : i = job[p].id /\ Known(i) /\ i # 0
  BY <1>1, ProcIs DEF JobOK
<1>3. UNCHANGED <<rec, agent, archive, queue, claimed, crashes, lost, told, cause, twins, pruned, imported>>
  BY DEF Probe
<1>4. RecordsStay
  BY <1>3 DEF RecordsStay, TypeOK
<1> DEFINE j == [job[p] EXCEPT !.pc = "save"]
<1>5. /\ j \in Job /\ j.pc = "save" /\ j.what = job[p].what /\ j.id = i /\ j.copy = job[p].copy
      /\ j.fresh = job[p].fresh
  BY <1>1, <1>2 DEF Job
<1>6. lease' \in [Ids -> BOOLEAN]
  BY DEF Probe, TypeOK
<1>7. p \notin JobsOfOwner(i) /\ JobsOfOwner(i) \subseteq Proc
  BY <1>1, ProcIs DEF JobsOfOwner, Handled
<1>8. ASSUME job'[p] = j, cmd'[p] = cmd[p] PROVE JobOK(p)'
  <2>1. Work(p)' = Work(p) /\ Known(i)'
    BY <1>2, <1>3, <1>5, <1>8 DEF Work, Known
  <2> HIDE DEF j
  <2> QED
    BY <1>1, <1>2, <1>3, <1>5, <1>8, <2>1 DEF JobOK, Blamed, CanClose
<1>9. SameJob(p) /\ job'[p] = j
  <2>1. job'[p] = j
    BY <1>2, <1>7 DEF Probe, TypeOK
  <2> QED
    BY <1>1, <1>2, <1>5, <2>1 DEF SameJob
<1>10. CASE lease[i] /\ Up(i)
  <2>1. OwnerDies(i)
    BY <1>2, <1>10 DEF Probe
  <2>2. /\ job' \in [Proc -> Job] /\ \A q \in JobsOfOwner(i) : job'[q] = NoJob
        /\ \A q \in Proc \ JobsOfOwner(i) : q # p => job'[q] = job[q]
    <3> DEFINE jobs == [q \in Proc |-> IF q \in JobsOfOwner(i) THEN NoJob ELSE job[q]]
    <3>1. job' = [jobs EXCEPT ![p].pc = "save"]
      BY <1>2, <1>10 DEF Probe
    <3>2. jobs \in [Proc -> Job] /\ jobs[p] = job[p]
      BY <1>7, NoJobIs DEF TypeOK
    <3>3. job' = [jobs EXCEPT ![p] = j]
      BY <3>1, <3>2
    <3>4. job' \in [Proc -> Job] /\ \A q \in Proc : q # p => job'[q] = jobs[q]
      <4> HIDE DEF jobs, j
      <4> QED
        BY <1>5, <3>2, <3>3
    <3> QED
      BY <1>7, <3>4
  <2>3. \A q \in Proc \ JobsOfOwner(i) : job'[q] = job[q] \/ (q \in Cmds /\ SameJob(q))
    BY <1>1, <1>9, <2>2
  <2>4. /\ own' \in [Ids -> Owner] /\ cmd' \in [Cmds -> Cmd] /\ late' \in SUBSET Ids
        /\ \A q \in JobsOfOwner(i) : JobOK(q)'
        /\ \A q \in Proc \ JobsOfOwner(i) : /\ job'[q] = job[q] => JobOK(q)'
                                            /\ q \in Cmds => cmd'[q] = cmd[q]
        /\ \A c \in Cmds : CmdOK(c)'
        /\ \A k \in Ids : LoopOK(k)' /\ MarkOK(k)' /\ RecOK(k)'
    BY <1>3, <1>4, <1>10, <2>1, <2>2, <2>3, OwnerEnds
  <2>5. TypeOK'
    <3>1. \A q \in Proc : /\ job'[q].pc \in {"probe", "save"} => job'[q].copy # None
                          /\ job'[q].pc # "none" => job'[q].id # 0
      <4> HIDE DEF j
      <4> QED
        BY <1>1, <1>2, <1>5, <1>9, <2>2, NoJobIs, ZenonT(30) DEF TypeOK
    <3>2. /\ rec' \in [Ids -> Record \cup {None}] /\ agent' \in {"plain", "modes", "options"}
          /\ claimed' \in [Ids -> BOOLEAN] /\ crashes' \in 0..MaxCrashes
          /\ queue' \in [Ids -> Seq(Cmds)] /\ told' \in [Ids -> SUBSET {"mode", "config", "close"}]
          /\ archive' \in [id : Ids, record : Record] \cup {None}
      BY <1>3 DEF TypeOK
    <3>3. {lost', cause', twins', late', pruned', imported'} \subseteq SUBSET Ids
      BY <1>3, <2>4 DEF TypeOK
    <3> QED
      BY <1>6, <2>2, <2>4, <3>1, <3>2, <3>3 DEF TypeOK
  <2>6. \A q \in Proc : JobOK(q)'
    <3>1. JobOK(p)'
      BY <1>1, <1>7, <1>8, <1>9, <2>4
    <3>2. ASSUME NEW q \in Proc, q # p PROVE JobOK(q)'
      BY <2>2, <2>4, <3>2
    <3> QED
      BY <3>1, <3>2
  <2> QED
    BY <1>4, <2>4, <2>5, <2>6, RestStays DEF Inv
<1>11. CASE ~(lease[i] /\ Up(i))
  <2>1. UNCHANGED <<own, cmd, late>> /\ job' = [job EXCEPT ![p].pc = "save"]
    BY <1>2, <1>11 DEF Probe
  <2>2. cmd[p] \in Cmd /\ cmd' = [cmd EXCEPT ![p] = cmd[p]] /\ job' = [job EXCEPT ![p] = j]
    BY <1>1, <2>1 DEF TypeOK
  <2>3. OwnersStay /\ told' \in [Ids -> SUBSET {"mode", "config", "close"}]
    BY <1>3, <2>1 DEF OwnersStay, TypeOK
  <2>4. StillWaits(p)
    BY <2>1 DEF StillWaits, Waits
  <2>5. (j.pc \in {"probe", "save"} => j.copy # None) /\ (j.pc # "none" => j.id # 0)
    BY <1>1, <1>2, <1>5
  <2> HIDE DEF j
  <2>6. TypeOK' /\ (CmdOK(p)' /\ JobOK(p)' /\ (told' = told \/ ToldOK') => Inv')
    BY <1>1, <1>3, <1>4, <1>5, <1>6, <2>1, <2>2, <2>3, <2>4, <2>5, CommandStep
  <2>7. CmdOK(p)'
    BY <1>1, <1>4, <1>9, <2>1, CmdStays DEF Inv
  <2> QED
    BY <1>3, <1>8, <1>9, <2>1, <2>6, <2>7
<1> QED
  BY <1>10, <1>11

LEMMA LeaveOwnerStep ==
  ASSUME TypeOK, Inv, NEW i \in Ids, LeaveOwner(i)
  PROVE  TypeOK' /\ Inv'
<1>1. /\ own[i] \in Owner /\ own[i].pc = "exit" /\ job[Exit(i)] = NoJob /\ job[Loop(i)] = NoJob /\ Known(i)
      /\ Exit(i) \in Proc /\ LoopOK(i) /\ MarkOK(i) /\ i # 0
  BY ProcIs DEF TypeOK, Inv, JobOK, LoopOK, LeaveOwner
<1>2. UNCHANGED <<rec, agent, archive, queue, claimed, crashes, lost, told, cause, twins, late,
                 pruned, imported>>
  BY DEF LeaveOwner, history
<1>3. RecordsStay
  BY <1>2 DEF RecordsStay, TypeOK
<1>4. Down \in Owner /\ Down.pc = "down" /\ ~Down.closeReq
  BY DEF Down, Owner
<1>5. own' \in [Ids -> Owner] /\ own'[i] = Down /\ \A k \in Ids : k # i => own'[k] = own[k]
  BY <1>4, OwnIs DEF LeaveOwner
<1>6. PICK j \in Job : /\ j = Start("unmark", i)
                       /\ j.pc = "load" /\ j.id = i /\ j.copy = None /\ j.fresh /\ j.what = "unmark"
  BY StartIs
<1>7. /\ job' \in [Proc -> Job] /\ job'[Exit(i)] = j /\ \A q \in Proc : q # Exit(i) => job'[q] = job[q]
      /\ \A q \in Proc : /\ job'[q].pc \in {"probe", "save"} => job'[q].copy # None
                         /\ job'[q].pc # "none" => job'[q].id # 0
  <2>1. job' = [job EXCEPT ![Exit(i)] = j]
    BY <1>6 DEF LeaveOwner
  <2>2. (j.pc \in {"probe", "save"} => j.copy # None) /\ (j.pc # "none" => j.id # 0)
    BY <1>1, <1>6
  <2> QED
    BY <1>1, <2>1, <2>2, JobIs
<1>8. ASSUME NEW c \in Cmds
      PROVE  /\ cmd'[c] \in Cmd /\ CmdOK(c)' /\ cmd'[c].op = cmd[c].op /\ StillWaits(c)
             /\ cmd[c].via # "owner" => cmd'[c].via # "owner"
  <2>1. cmd[c] \in Cmd /\ CmdOK(c) /\ job'[c] = job[c]
    BY <1>7, ProcIs DEF TypeOK, Inv
  <2>2. CASE c \notin Handled(i, "owner")
    <3>1. cmd'[c] = cmd[c]
      BY <2>2 DEF LeaveOwner
    <3> QED
      BY <1>3, <2>1, <3>1, CmdStays DEF SameJob, StillWaits, Waits
  <2>3. CASE c \in Handled(i, "owner")
    <3>1. cmd'[c] = [cmd[c] EXCEPT !.via = "leaver"] /\ cmd[c].via = "owner"
          /\ cmd[c].pc \in {"handler", "job"}
      BY <2>3 DEF LeaveOwner, Handled
    <3>2. /\ cmd'[c] \in Cmd /\ cmd'[c].op = cmd[c].op /\ cmd'[c].id = cmd[c].id /\ cmd'[c].pc = cmd[c].pc
          /\ cmd'[c].via = "leaver"
      BY <2>1, <3>1 DEF Cmd
    <3>3. Work(c)' = Work(c)
      BY <2>1, <3>2 DEF Work
    <3>4. CmdOK(c)'
      BY <1>2, <2>1, <3>1, <3>2, <3>3 DEF CmdOK, Known, CanClose
    <3>5. StillWaits(c)
      BY <3>1 DEF StillWaits, Waits
    <3> QED
      BY <3>1, <3>2, <3>4, <3>5
  <2> QED
    BY <2>2, <2>3
<1>9. cmd' \in [Cmds -> Cmd]
  BY <1>8 DEF LeaveOwner
<1>10. TypeOK'
  <2>1. {lost', cause', twins', late', pruned', imported'} \subseteq SUBSET Ids
    BY <1>2 DEF TypeOK
  <2>2. /\ rec' \in [Ids -> Record \cup {None}] /\ agent' \in {"plain", "modes", "options"}
        /\ claimed' \in [Ids -> BOOLEAN] /\ crashes' \in 0..MaxCrashes
        /\ queue' \in [Ids -> Seq(Cmds)] /\ told' \in [Ids -> SUBSET {"mode", "config", "close"}]
        /\ archive' \in [id : Ids, record : Record] \cup {None}
    BY <1>2 DEF TypeOK
  <2>3. lease' \in [Ids -> BOOLEAN]
    BY DEF LeaveOwner, TypeOK
  <2>4. /\ job' \in [Proc -> Job]
        /\ \A q \in Proc : /\ job'[q].pc \in {"probe", "save"} => job'[q].copy # None
                           /\ job'[q].pc # "none" => job'[q].id # 0
    BY <1>7
  <2> QED
    BY <1>5, <1>9, <2>1, <2>2, <2>3, <2>4 DEF TypeOK
<1>11. ASSUME NEW q \in Proc PROVE JobOK(q)'
  <2>1. CASE q # Exit(i)
    BY <1>3, <1>7, <1>8, <2>1, JobStays DEF Inv
  <2>2. CASE q = Exit(i)
    <3>1. Work(q)' = "unmark" /\ q \notin Cmds /\ Known(i)' /\ job'[q] = j
      BY <1>1, <1>2, <1>6, <1>7, <2>2, ProcIs DEF Work, Known
    <3> QED
      BY <1>6, <3>1 DEF JobOK, CanClose
  <2> QED
    BY <2>1, <2>2
<1>12. ASSUME NEW k \in Ids PROVE LoopOK(k)' /\ MarkOK(k)' /\ RecOK(k)'
  <2>1. RecOK(k)'
    BY <1>2, <1>3, RecStays DEF Inv
  <2>2. job'[Loop(k)] = job[Loop(k)] /\ (k # i => job'[Exit(k)] = job[Exit(k)])
    BY <1>7, ProcIs
  <2>3. \A c \in Cmds : Waits(c, k) => Waits(c, k)' /\ cmd'[c].op = cmd[c].op
    BY <1>8 DEF StillWaits
  <2>4. CASE k # i
    <3>1. LoopOK(k)'
      BY <1>2, <1>3, <1>5, <2>2, <2>3, <2>4, LoopStays DEF Inv, TypeOK, SameJob
    <3>2. MarkOK(k)'
      BY <1>2, <1>3, <1>5, <2>2, <2>4, MarkStays DEF Inv
    <3> QED
      BY <2>1, <3>1, <3>2
  <2>5. CASE k = i
    <3>1. (\A n \in 1..Len(queue[i]) : Waits(queue[i][n], i))'
      <4>1. ASSUME NEW n \in 1..Len(queue[i]) PROVE Waits(queue[i][n], i)'
        <5>1. PICK c \in Cmds : c = queue[i][n] /\ Waits(c, i)
          BY <1>1 DEF LoopOK, TypeOK
        <5>2. Waits(c, i)'
          BY <2>3, <2>5, <5>1
        <5> QED
          BY <1>2, <5>1, <5>2 DEF Waits
      <4> QED
        BY <1>2, <4>1
    <3>2. LoopOK(i)'
      <4>1. job'[Loop(i)] = NoJob /\ job'[Exit(i)] = j /\ own'[i] = Down /\ queue' = queue
        BY <1>1, <1>2, <1>5, <1>7, <2>2, <2>5
      <4> QED
        BY <1>4, <1>6, <3>1, <4>1, NoJobIs DEF LoopOK
    <3>3. MarkOK(i)'
      BY <1>1, <1>2, <1>4, <1>5 DEF MarkOK, Faithful, Up
    <3> QED
      BY <2>1, <2>5, <3>2, <3>3
  <2> QED
    BY <2>4, <2>5
<1> QED
  BY <1>3, <1>8, <1>10, <1>11, <1>12, RestStays DEF Inv

LEMMA ExitedStep ==
  ASSUME TypeOK, Inv, NEW i \in Ids, Exited(i)
  PROVE  TypeOK' /\ Inv'
<1> DEFINE H == Handled(i, "leaver")
<1>1. H \subseteq Cmds /\ Exit(i) \notin H /\ Exit(i) \in Proc
      /\ \A k \in Ids : Loop(k) \notin H /\ Exit(k) \notin H
  BY ProcIs DEF Handled
<1>2. UNCHANGED <<rec, agent, archive, own, queue, claimed, lease, crashes, lost, told, cause, twins, late,
                  pruned, imported>>
  BY DEF Exited, ownVars, history
<1>3. RecordsStay
  BY <1>2 DEF RecordsStay, TypeOK
<1>4. /\ job' \in [Proc -> Job] /\ \A q \in H : job'[q] = NoJob
      /\ job'[Exit(i)] = NoJob /\ \A q \in Proc \ H : q # Exit(i) => job'[q] = job[q]
  BY <1>1, NoJobIs, ProcIs DEF Exited, TypeOK
<1>5. /\ cmd' \in [Cmds -> Cmd]
      /\ \A c \in Cmds : CmdOK(c)' /\ cmd'[c].op = cmd[c].op /\ StillWaits(c)
      /\ \A c \in Cmds \ H : cmd'[c] = cmd[c]
  <2>1. \A c \in Cmds \ H : SameJob(c)
    BY <1>1, <1>4, ProcIs DEF SameJob
  <2> QED
    BY <1>3, <1>4, <2>1, Unserve DEF Exited
<1>6. TypeOK'
  <2>1. \A q \in Proc : /\ job'[q].pc \in {"probe", "save"} => job'[q].copy # None
                        /\ job'[q].pc # "none" => job'[q].id # 0
    <3> SUFFICES ASSUME NEW q \in Proc
                 PROVE  /\ job'[q].pc \in {"probe", "save"} => job'[q].copy # None
                        /\ job'[q].pc # "none" => job'[q].id # 0
      OBVIOUS
    <3>1. job'[q] = NoJob \/ job'[q] = job[q]
      BY <1>4
    <3> QED
      BY <3>1, NoJobIs DEF TypeOK
  <2>2. {lost', cause', twins', late', pruned', imported'} \subseteq SUBSET Ids
    BY <1>2 DEF TypeOK
  <2>3. /\ rec' \in [Ids -> Record \cup {None}] /\ agent' \in {"plain", "modes", "options"}
        /\ claimed' \in [Ids -> BOOLEAN] /\ crashes' \in 0..MaxCrashes /\ lease' \in [Ids -> BOOLEAN]
        /\ queue' \in [Ids -> Seq(Cmds)] /\ told' \in [Ids -> SUBSET {"mode", "config", "close"}]
        /\ archive' \in [id : Ids, record : Record] \cup {None} /\ own' \in [Ids -> Owner]
    BY <1>2 DEF TypeOK
  <2> QED
    BY <1>4, <1>5, <2>1, <2>2, <2>3 DEF TypeOK
<1>7. ASSUME NEW q \in Proc PROVE JobOK(q)'
  <2>1. CASE q \in H \/ q = Exit(i)
    <3>1. job'[q] = NoJob
      BY <1>4, <2>1
    <3> QED
      BY <3>1, NoJobIs DEF JobOK, Work, CanClose
  <2>2. CASE ~(q \in H \/ q = Exit(i))
    BY <1>3, <1>4, <1>5, <2>2, JobStays DEF Inv
  <2> QED
    BY <2>1, <2>2
<1>8. ASSUME NEW k \in Ids PROVE LoopOK(k)' /\ MarkOK(k)' /\ RecOK(k)'
  <2>1. RecOK(k)'
    BY <1>2, <1>3, RecStays DEF Inv
  <2>2. job'[Loop(k)] = job[Loop(k)] /\ (SameJob(Exit(k)) \/ job'[Exit(k)] \in {NoJob, Start("unmark", k)})
    BY <1>1, <1>4, ProcIs DEF SameJob
  <2>3. \A c \in Cmds : Waits(c, k) => Waits(c, k)' /\ cmd'[c].op = cmd[c].op
    BY <1>5 DEF StillWaits
  <2>4. LoopOK(k)'
    BY <1>2, <1>3, <2>2, <2>3, LoopStays DEF Inv, TypeOK, SameJob
  <2>5. MarkOK(k)'
    BY <1>2, <1>3, <2>2, MarkStays DEF Inv
  <2> QED
    BY <2>1, <2>4, <2>5
<1> QED
  BY <1>3, <1>5, <1>6, <1>7, <1>8, RestStays DEF Inv

-----------------------------------------------------------------------------
\* The steps of the owner's loop.

\* It begins an operation.
LEMMA LoopBegins ==
  ASSUME TypeOK, Inv, RecordsStay, NEW i \in Ids, NEW what \in QueueOps \cup {"mark", "unmark"},
         NEW pc \in {"clear", "mark", "run", "closing"}, LoopStarts(i, what, pc),
         own[i].pc # "down", NEW b \in BOOLEAN, claimed' = [claimed EXCEPT ![i] = b],
         pc = "mark" => what = "mark", pc = "clear" => what = "unmark", pc = "closing" => what = "close",
         pc = "run" => what = cmd[Head(queue[i])].op, pc \in {"mark", "run"} => queue[i] # <<>>,
         what \in CanClose /\ agent # "modes" => i \in cause,
         Faithful(i) /\ i \notin late /\ rec[i].active => pc # "closing" /\ (pc \in {"mark", "run"} => b),
         Faithful(i) /\ i \notin late /\ pc = "run" => rec[i].active,
         UNCHANGED <<cmd, queue, crashes, told, late>>, lease' \in [Ids -> BOOLEAN]
  PROVE  TypeOK' /\ Inv'
<1>1. own[i] \in Owner /\ LoopOK(i) /\ MarkOK(i) /\ Known(i) /\ i # 0
      /\ Loop(i) \in Proc /\ Loop(i) \notin Cmds
  BY ProcIs DEF TypeOK, Inv, LoopOK
<1> DEFINE o == [own[i] EXCEPT !.pc = pc]
<1>2. o \in Owner /\ o.pc = pc /\ o.closeReq = own[i].closeReq
  BY <1>1 DEF Owner
<1>3. own' = [own EXCEPT ![i] = o]
  BY DEF LoopStarts
<1> DEFINE j == Start(what, i)
<1>4. j \in Job /\ j.pc = "load" /\ j.id = i /\ j.copy = None /\ j.fresh /\ j.what = what
  BY StartIs DEF QueueOps, Ops
<1>5. job' = [job EXCEPT ![Loop(i)] = j]
  BY DEF LoopStarts
<1> HIDE DEF o, j
<1>6. /\ TypeOK' /\ own'[i] = o /\ job'[Loop(i)] = j /\ claimed'[i] = b
      /\ job'[Exit(i)] = job[Exit(i)]
      /\ LoopOK(i)' /\ MarkOK(i)' /\ JobOK(Loop(i))' => Inv'
  <2>1. (j.pc \in {"probe", "save"} => j.copy # None) /\ (j.pc # "none" => j.id # 0)
    BY <1>1, <1>4
  <2> QED
    BY <1>2, <1>3, <1>4, <1>5, <2>1, LoopStep
<1>7. Known(i)' /\ rec' = rec /\ agent' = agent /\ cause \subseteq cause'
      /\ lost' = lost /\ imported' = imported
  BY <1>1 DEF Known, RecordsStay
<1>8. JobOK(Loop(i))'
  <2>1. Work(Loop(i))' = what
    BY <1>4, <1>6 DEF Work, QueueOps
  <2> QED
    BY <1>1, <1>4, <1>6, <1>7, <2>1 DEF JobOK, CanClose, QueueOps
<1>9. LoopOK(i)'
  <2>1. (\A n \in 1..Len(queue[i]) : Waits(queue[i][n], i))'
    BY <1>1 DEF LoopOK, Waits
  <2> QED
    BY <1>1, <1>2, <1>4, <1>6, <1>7, <2>1 DEF LoopOK
<1>10. MarkOK(i)'
  <2>1. Faithful(i)' <=> Faithful(i)
    BY <1>7 DEF Faithful
  <2> QED
    BY <1>2, <1>4, <1>6, <1>7, <2>1 DEF MarkOK, Up
<1> QED
  BY <1>6, <1>8, <1>9, <1>10

\* It has no operation to do.
LoopStops(i, pc) ==
  /\ own' = [own EXCEPT ![i].pc = pc]
  /\ job' = [job EXCEPT ![Loop(i)] = NoJob]

LEMMA LoopRests ==
  ASSUME TypeOK, Inv, RecordsStay, NEW i \in Ids, NEW pc \in {"top", "exit"},
         LoopStops(i, pc),
         own[i].pc # "down", NEW b \in BOOLEAN, claimed' = [claimed EXCEPT ![i] = b],
         Faithful(i) /\ i \notin late => ~rec[i].active,
         UNCHANGED <<cmd, queue, crashes, told, late>>, lease' \in [Ids -> BOOLEAN]
  PROVE  TypeOK' /\ Inv'
<1>1. own[i] \in Owner /\ LoopOK(i) /\ MarkOK(i) /\ Known(i) /\ i # 0
      /\ Loop(i) \in Proc /\ Loop(i) \notin Cmds
  BY ProcIs DEF TypeOK, Inv, LoopOK
<1> DEFINE o == [own[i] EXCEPT !.pc = pc]
<1>2. o \in Owner /\ o.pc = pc /\ o.closeReq = own[i].closeReq
  BY <1>1 DEF Owner
<1>3. own' = [own EXCEPT ![i] = o]
  BY DEF LoopStops
<1> HIDE DEF o
<1>4. /\ TypeOK' /\ own'[i] = o /\ job'[Loop(i)] = NoJob /\ claimed'[i] = b
      /\ job'[Exit(i)] = job[Exit(i)]
      /\ LoopOK(i)' /\ MarkOK(i)' /\ JobOK(Loop(i))' => Inv'
  <2> DEFINE j == NoJob
  <2>1. j \in Job /\ (j.pc \in {"probe", "save"} => j.copy # None) /\ (j.pc # "none" => j.id # 0)
    BY NoJobIs
  <2>2. job' = [job EXCEPT ![Loop(i)] = j]
    BY DEF LoopStops
  <2>3. own' = [own EXCEPT ![i] = o]
    BY <1>3
  <2> HIDE DEF j
  <2>4. /\ TypeOK' /\ own'[i] = o /\ job'[Loop(i)] = j /\ claimed'[i] = b
        /\ job'[Exit(i)] = job[Exit(i)]
        /\ LoopOK(i)' /\ MarkOK(i)' /\ JobOK(Loop(i))' => Inv'
    BY <1>2, <2>1, <2>2, <2>3, LoopStep
  <2> QED
    BY <2>4 DEF j
<1>5. Known(i)' /\ rec' = rec /\ agent' = agent /\ cause \subseteq cause'
      /\ lost' = lost /\ imported' = imported
  BY <1>1 DEF Known, RecordsStay
<1>6. JobOK(Loop(i))'
  BY <1>4, NoJobIs DEF JobOK, Work, CanClose
<1>7. LoopOK(i)'
  <2>1. (\A n \in 1..Len(queue[i]) : Waits(queue[i][n], i))'
    BY <1>1 DEF LoopOK, Waits
  <2> QED
    BY <1>1, <1>2, <1>4, <1>5, <2>1, NoJobIs DEF LoopOK
<1>8. MarkOK(i)'
  <2>1. Faithful(i)' <=> Faithful(i)
    BY <1>5 DEF Faithful
  <2> QED
    BY <1>2, <1>4, <1>5, <2>1, NoJobIs DEF MarkOK, Up
<1> QED
  BY <1>4, <1>6, <1>7, <1>8

\* What an action of the loop that touches neither records nor queues leaves alone.
LoopLeaves == UNCHANGED <<rec, agent, archive, cmd, queue, crashes, history>>

LEMMA LoopLeavesIs ==
  ASSUME TypeOK, Inv, LoopLeaves, NEW i \in Ids
  PROVE  /\ RecordsStay /\ UNCHANGED <<cmd, queue, crashes, told, late>>
         /\ own[i] \in Owner /\ LoopOK(i) /\ MarkOK(i) /\ claimed[i] \in BOOLEAN /\ lease \in [Ids -> BOOLEAN]
         /\ (UNCHANGED claimed => claimed' = [claimed EXCEPT ![i] = claimed[i]])
         /\ (job[Loop(i)] = NoJob /\ UNCHANGED job => job' = [job EXCEPT ![Loop(i)] = NoJob])
         /\ \A c \in Cmds : Waits(c, i) => cmd[c].op \in QueueOps
                                           /\ (cmd[c].op \in CanClose /\ agent # "modes" => i \in cause)
         /\ queue[i] # <<>> => Head(queue[i]) \in Cmds /\ Waits(Head(queue[i]), i)
<1>1. UNCHANGED <<rec, agent, archive, cmd, queue, crashes, lost, told, cause, twins, late, pruned, imported>>
  BY DEF LoopLeaves, history
<1>2. RecordsStay
  BY <1>1 DEF RecordsStay, TypeOK
<1>3. own[i] \in Owner /\ LoopOK(i) /\ MarkOK(i) /\ claimed[i] \in BOOLEAN /\ lease \in [Ids -> BOOLEAN]
  BY DEF TypeOK, Inv
<1>4. /\ UNCHANGED claimed => claimed' = [claimed EXCEPT ![i] = claimed[i]]
      /\ job[Loop(i)] = NoJob /\ UNCHANGED job => job' = [job EXCEPT ![Loop(i)] = NoJob]
  BY ProcIs DEF TypeOK
<1>5. \A c \in Cmds : Waits(c, i) => cmd[c].op \in QueueOps
                                     /\ (cmd[c].op \in CanClose /\ agent # "modes" => i \in cause)
  BY ProcIs DEF Inv, CmdOK, Waits
<1>6. queue[i] # <<>> => Head(queue[i]) \in Cmds /\ Waits(Head(queue[i]), i)
  <2>1. queue[i] \in Seq(Cmds)
    BY DEF TypeOK
  <2>2. queue[i] # <<>> => 1 \in 1..Len(queue[i]) /\ Head(queue[i]) = queue[i][1] /\ queue[i][1] \in Cmds
    BY <2>1
  <2> QED
    BY <1>3, <2>2 DEF LoopOK
<1> QED
  BY <1>1, <1>2, <1>3, <1>4, <1>5, <1>6

LEMMA LoopActionStep ==
  ASSUME TypeOK, Inv, NEW i \in Ids,
         \/ Acquire(i) \/ TakeRequest(i) \/ CloseOnLeave(i) \/ IdleExit(i) \/ RunRequest(i) \/ NextRound(i)
  PROVE  TypeOK' /\ Inv'
<1>1. LoopLeaves
  BY DEF LoopLeaves, Acquire, TakeRequest, CloseOnLeave, IdleExit, RunRequest, NextRound
<1>2. /\ RecordsStay /\ UNCHANGED <<cmd, queue, crashes, told, late>>
      /\ own[i] \in Owner /\ LoopOK(i) /\ MarkOK(i) /\ claimed[i] \in BOOLEAN /\ lease \in [Ids -> BOOLEAN]
      /\ (UNCHANGED claimed => claimed' = [claimed EXCEPT ![i] = claimed[i]])
      /\ (job[Loop(i)] = NoJob /\ UNCHANGED job => job' = [job EXCEPT ![Loop(i)] = NoJob])
      /\ \A c \in Cmds : Waits(c, i) => cmd[c].op \in QueueOps
                                        /\ (cmd[c].op \in CanClose /\ agent # "modes" => i \in cause)
      /\ queue[i] # <<>> => Head(queue[i]) \in Cmds /\ Waits(Head(queue[i]), i)
  BY <1>1, LoopLeavesIs
<1>3. CASE Acquire(i)
  <2>1. own[i].pc = "spawned" /\ lease' \in [Ids -> BOOLEAN] /\ claimed' = [claimed EXCEPT ![i] = FALSE]
    BY <1>2, <1>3 DEF Acquire
  <2>2. CASE claimed[i]
    <3>1. LoopStarts(i, "unmark", "clear")
      BY <1>3, <2>2 DEF Acquire
    <3>2. "unmark" \in QueueOps \cup {"mark", "unmark"} /\ "unmark" \notin CanClose /\ own[i].pc # "down"
      BY <2>1 DEF CanClose
    <3> QED
      BY <1>2, <2>1, <3>1, <3>2, LoopBegins
  <2>3. CASE ~claimed[i]
    <3>1. own' = [own EXCEPT ![i].pc = "top"] /\ job' = [job EXCEPT ![Loop(i)] = NoJob]
      BY <1>2, <1>3, <2>1, <2>3 DEF Acquire, LoopOK
    <3>2. Faithful(i) /\ i \notin late => ~rec[i].active
      BY <1>2, <2>1, <2>3 DEF MarkOK
    <3> QED
      BY <1>2, <2>1, <3>1, <3>2, LoopRests DEF LoopStops
  <2> QED
    BY <2>2, <2>3
<1>4. CASE TakeRequest(i)
  <2>1. /\ own[i].pc = "top" /\ queue[i] # <<>> /\ LoopStarts(i, "mark", "mark")
        /\ lease' \in [Ids -> BOOLEAN] /\ claimed' = [claimed EXCEPT ![i] = claimed[i]]
    BY <1>2, <1>4 DEF TakeRequest
  <2>2. Faithful(i) /\ i \notin late => ~rec[i].active
    BY <1>2, <2>1 DEF MarkOK, Up
  <2>3. "mark" \in QueueOps \cup {"mark", "unmark"} /\ "mark" \notin CanClose /\ own[i].pc # "down"
    BY <2>1 DEF CanClose
  <2> QED
    BY <1>2, <2>1, <2>2, <2>3, LoopBegins
<1>5. CASE CloseOnLeave(i)
  <2>1. /\ own[i].pc = "top" /\ own[i].closeReq /\ LoopStarts(i, "close", "closing")
        /\ lease' \in [Ids -> BOOLEAN] /\ claimed' = [claimed EXCEPT ![i] = claimed[i]]
    BY <1>2, <1>5 DEF CloseOnLeave
  <2>2. (Faithful(i) /\ i \notin late => ~rec[i].active) /\ (agent # "modes" => i \in cause)
    BY <1>2, <2>1 DEF MarkOK, LoopOK, Up
  <2> QED
    BY <1>2, <2>1, <2>2, LoopBegins DEF CanClose, QueueOps
<1>6. CASE IdleExit(i)
  <2>1. /\ own[i].pc = "top" /\ own' = [own EXCEPT ![i].pc = "exit"]
        /\ lease' \in [Ids -> BOOLEAN] /\ claimed' = [claimed EXCEPT ![i] = claimed[i]]
        /\ UNCHANGED job
    BY <1>2, <1>6 DEF IdleExit
  <2>2. (Faithful(i) /\ i \notin late => ~rec[i].active) /\ job' = [job EXCEPT ![Loop(i)] = NoJob]
    BY <1>2, <2>1 DEF MarkOK, LoopOK, Up
  <2> QED
    BY <1>2, <2>1, <2>2, LoopRests DEF LoopStops
<1>7. CASE RunRequest(i)
  <2>1. /\ own[i].pc = "mark" /\ job[Loop(i)].pc \in {"ok", "error"} /\ queue[i] # <<>>
        /\ lease' \in [Ids -> BOOLEAN] /\ claimed' = [claimed EXCEPT ![i] = claimed[i]]
    BY <1>2, <1>7 DEF RunRequest, Returned, LoopOK
  <2>2. CASE job[Loop(i)].pc = "ok"
    <3>1. PICK what \in QueueOps : /\ what = cmd[Head(queue[i])].op /\ LoopStarts(i, what, "run")
                                   /\ what \in CanClose /\ agent # "modes" => i \in cause
      BY <1>2, <1>7, <2>1, <2>2 DEF RunRequest, Succeeded
    <3>2. Faithful(i) /\ i \notin late => rec[i].active /\ claimed[i]
      BY <1>2, <2>1, <2>2 DEF MarkOK
    <3> QED
      BY <1>2, <2>1, <3>1, <3>2, LoopBegins
  <2>3. CASE job[Loop(i)].pc # "ok"
    <3>1. own' = [own EXCEPT ![i].pc = "exit"] /\ job' = [job EXCEPT ![Loop(i)] = NoJob]
      BY <1>7, <2>3 DEF RunRequest, Succeeded
    <3>2. ~Faithful(i)
      BY <1>2, <2>1, <2>3 DEF MarkOK
    <3> QED
      BY <1>2, <2>1, <3>1, <3>2, LoopRests DEF LoopStops
  <2> QED
    BY <2>2, <2>3
<1>8. CASE NextRound(i)
  <2>1. /\ own[i].pc \in {"clear", "unmark", "closing"} /\ job[Loop(i)].pc \in {"ok", "error"}
        /\ lease' \in [Ids -> BOOLEAN] /\ claimed' = [claimed EXCEPT ![i] = claimed[i]]
        /\ job' = [job EXCEPT ![Loop(i)] = NoJob]
    BY <1>2, <1>8 DEF NextRound, Returned
  <2>2. PICK pc \in {"top", "exit"} : own' = [own EXCEPT ![i].pc = pc]
    BY <1>8 DEF NextRound
  <2>3. Faithful(i) /\ i \notin late => ~rec[i].active
    <3>1. own[i].pc # "closing" => job[Loop(i)].pc = "ok"
      <4>1. JobOK(Loop(i))
        BY ProcIs DEF Inv
      <4> QED
        BY <1>2, <2>1, <4>1 DEF JobOK, LoopOK
    <3> QED
      BY <1>2, <2>1, <3>1 DEF MarkOK, Up
  <2> QED
    BY <1>2, <2>1, <2>2, <2>3, LoopRests DEF LoopStops
<1> QED
  BY <1>3, <1>4, <1>5, <1>6, <1>7, <1>8

LEMMA TurnSavedStep ==
  ASSUME TypeOK, Inv, NEW i \in Ids, TurnSaved(i)
  PROVE  TypeOK' /\ Inv'
<1>1. LoopLeaves
  BY DEF LoopLeaves, TurnSaved
<1>2. /\ RecordsStay /\ UNCHANGED <<cmd, queue, crashes, told, late>>
      /\ own[i] \in Owner /\ LoopOK(i) /\ MarkOK(i) /\ claimed[i] \in BOOLEAN /\ lease \in [Ids -> BOOLEAN]
      /\ UNCHANGED claimed => claimed' = [claimed EXCEPT ![i] = claimed[i]]
  BY <1>1, LoopLeavesIs
<1>3. own[i].pc = "run" /\ lease' \in [Ids -> BOOLEAN] /\ Loop(i) \in Proc
      /\ claimed' = [claimed EXCEPT ![i] = claimed[i]]
  BY <1>2, ProcIs DEF TurnSaved, Returned
<1> DEFINE o == [own[i] EXCEPT !.pc = "turned"]
<1>4. o \in Owner /\ o.pc = "turned" /\ o.closeReq = own[i].closeReq
  BY <1>2 DEF Owner
<1>5. own' = [own EXCEPT ![i] = o]
  BY DEF TurnSaved
<1> HIDE DEF o
<1>6. PICK j \in Job : /\ j = job[Loop(i)] /\ job' = [job EXCEPT ![Loop(i)] = j]
                       /\ j.pc \in {"probe", "save"} => j.copy # None
                       /\ j.pc # "none" => j.id # 0
  BY <1>3 DEF TurnSaved, TypeOK
<1>7. /\ TypeOK' /\ own'[i] = o /\ job'[Loop(i)] = j /\ claimed'[i] = claimed[i]
      /\ job'[Exit(i)] = job[Exit(i)]
      /\ LoopOK(i)' /\ MarkOK(i)' /\ JobOK(Loop(i))' => Inv'
  BY <1>2, <1>3, <1>4, <1>5, <1>6, LoopStep
<1>8. Known(i)' <=> Known(i)
  BY <1>2 DEF Known, RecordsStay
<1>9. LoopOK(i)'
  <2>1. (\A n \in 1..Len(queue[i]) : Waits(queue[i][n], i))'
    BY <1>2 DEF LoopOK, Waits
  <2> QED
    BY <1>2, <1>3, <1>4, <1>6, <1>7, <1>8, <2>1 DEF LoopOK, RecordsStay
<1>10. MarkOK(i)'
  BY <1>2, <1>3, <1>4, <1>6, <1>7 DEF MarkOK, Up, Faithful, RecordsStay
<1>11. JobOK(Loop(i))'
  BY <1>2, <1>3, <1>6, <1>7, ProcIs, JobStays DEF Inv
<1> QED
  BY <1>7, <1>9, <1>10, <1>11

\* The first request leaves the queue, where the others stay as they are.
LEMMA LeavesQueueIs ==
  ASSUME NEW q \in Seq(Cmds), q # <<>>
  PROVE  /\ Tail(q) \in Seq(Cmds) /\ Head(q) \in Cmds /\ Head(q) = q[1] /\ 1 \in 1..Len(q)
         /\ \A k \in 1..Len(Tail(q)) : k + 1 \in 1..Len(q) /\ Tail(q)[k] = q[k + 1]
OBVIOUS

LEMMA SaveRequestStep ==
  ASSUME TypeOK, Inv, NEW i \in Ids, SaveRequest(i)
  PROVE  TypeOK' /\ Inv'
<1>1. /\ own[i] \in Owner /\ LoopOK(i) /\ MarkOK(i) /\ queue[i] \in Seq(Cmds) /\ queue[i] # <<>>
      /\ Loop(i) \in Proc /\ Loop(i) \notin Cmds /\ i # 0 /\ own[i].pc \in {"run", "turned"} /\ Known(i)
      /\ job[Loop(i)].pc \in {"ok", "error"} /\ JobOK(Loop(i))
  BY ProcIs DEF TypeOK, Inv, LoopOK, SaveRequest, Returned
<1>2. PICK c \in Cmds : c = Head(queue[i]) /\ Waits(c, i) /\ job[Loop(i)].what = cmd[c].op
  BY <1>1, LeavesQueueIs DEF LoopOK
<1>3. UNCHANGED <<rec, agent, archive, lease, crashes, lost, cause, twins, late, pruned, imported>>
  BY DEF SaveRequest
<1>4. RecordsStay
  BY <1>3 DEF RecordsStay, TypeOK
<1>5. cmd' = IF cmd[c].pc = "waiting" THEN [cmd EXCEPT ![c].pc = "done"] ELSE cmd
  BY <1>2 DEF SaveRequest
<1>6. PICK q \in Seq(Cmds) : /\ queue' = [queue EXCEPT ![i] = q]
                             /\ \A k \in 1..Len(q) : k + 1 \in 1..Len(queue[i]) /\ q[k] = queue[i][k + 1]
  BY <1>1, LeavesQueueIs DEF SaveRequest
<1>7. queue' \in [Ids -> Seq(Cmds)] /\ queue'[i] = q /\ \A k \in Ids : k # i => queue'[k] = queue[k]
  BY <1>6 DEF TypeOK
<1>8. claimed' \in [Ids -> BOOLEAN] /\ \A k \in Ids : k # i => claimed'[k] = claimed[k]
  BY DEF SaveRequest, TypeOK
<1>9a. \E o \in Owner : own' = [own EXCEPT ![i] = o] /\ o.pc = "unmark" /\ o.closeReq = own[i].closeReq
  <2> DEFINE leave == job[Loop(i)].pc = "ok" /\ cmd[c].op = "close"
             o == [own[i] EXCEPT !.pc = "unmark", !.leave = leave]
  <2>1. leave \in BOOLEAN /\ own' = [own EXCEPT ![i].pc = "unmark", ![i].leave = leave]
    BY <1>2 DEF SaveRequest, Succeeded
  <2> HIDE DEF leave
  <2>2. o \in Owner /\ o.pc = "unmark" /\ o.closeReq = own[i].closeReq
    BY <1>1, <2>1 DEF Owner
  <2>3. own' = [own EXCEPT ![i] = o]
    BY <1>1, <2>1 DEF TypeOK, Owner
  <2> QED
    BY <2>2, <2>3
<1>9. PICK o \in Owner : own' = [own EXCEPT ![i] = o] /\ o.pc = "unmark" /\ o.closeReq = own[i].closeReq
  BY <1>9a
<1>10. own' \in [Ids -> Owner] /\ own'[i] = o /\ \A k \in Ids : k # i => own'[k] = own[k]
  BY <1>9, OwnIs
<1>11. PICK j \in Job : /\ j = Start("unmark", i)
                        /\ j.pc = "load" /\ j.id = i /\ j.copy = None /\ j.fresh /\ j.what = "unmark"
  BY StartIs
<1>12. /\ job' \in [Proc -> Job] /\ job'[Loop(i)] = j /\ \A p \in Proc : p # Loop(i) => job'[p] = job[p]
       /\ \A p \in Proc : /\ job'[p].pc \in {"probe", "save"} => job'[p].copy # None
                          /\ job'[p].pc # "none" => job'[p].id # 0
  <2>1. job' = [job EXCEPT ![Loop(i)] = j]
    BY <1>11 DEF SaveRequest
  <2>2. (j.pc \in {"probe", "save"} => j.copy # None) /\ (j.pc # "none" => j.id # 0)
    BY <1>1, <1>11
  <2> QED
    BY <1>1, <2>1, <2>2, JobIs
<1>13. ASSUME NEW d \in Cmds
       PROVE  cmd'[d] \in Cmd /\ CmdOK(d)' /\ cmd'[d].op = cmd[d].op /\ cmd'[d].via = cmd[d].via
              /\ StillWaits(d)
  <2>1. cmd[d] \in Cmd /\ CmdOK(d) /\ job'[d] = job[d]
    BY <1>12, ProcIs DEF TypeOK, Inv
  <2>2. CASE cmd'[d] = cmd[d]
    BY <1>4, <2>1, <2>2, CmdStays DEF SameJob, StillWaits, Waits
  <2>3. CASE cmd'[d] # cmd[d]
    <3>1. cmd[d].pc = "waiting" /\ cmd'[d] = [cmd[d] EXCEPT !.pc = "done"]
      BY <1>5, <2>3 DEF TypeOK
    <3>2. /\ cmd'[d] \in Cmd /\ cmd'[d].op = cmd[d].op /\ cmd'[d].id = cmd[d].id /\ cmd'[d].pc = "done"
          /\ cmd'[d].via = cmd[d].via
      BY <2>1, <3>1 DEF Cmd
    <3>3. CmdOK(d)'
      BY <1>3, <2>1, <3>1, <3>2 DEF CmdOK, Known, CanClose
    <3>4. StillWaits(d)
      BY <3>1, <3>2 DEF StillWaits, Waits
    <3> QED
      BY <3>2, <3>3, <3>4
  <2> QED
    BY <2>2, <2>3
<1>14. cmd' \in [Cmds -> Cmd]
  BY <1>5, <1>13 DEF TypeOK
<1>15a. \E T \in SUBSET {"mode", "config", "close"} :
         /\ told' = [told EXCEPT ![i] = @ \cup T]
         /\ Faithful(i) => \A tag \in T : Shows(tag, rec[i])
  <2>1. CASE cmd[c].pc = "waiting" /\ job[Loop(i)].pc = "ok"
    <3> DEFINE T == Tells(cmd[c].op)
    <3>1. T \in SUBSET {"mode", "config", "close"} /\ T \subseteq Changes(cmd[c].op)
      BY <1>2 DEF Waits, QueueOps, Tells, Changes
    <3>2. told' = [told EXCEPT ![i] = @ \cup T]
      BY <1>2, <2>1 DEF SaveRequest, Succeeded
    <3>3. Work(Loop(i)) = cmd[c].op /\ job[Loop(i)].id = i
      BY <1>1, <1>2 DEF Work, Waits, QueueOps, LoopOK
    <3>4. Faithful(i) => \A tag \in Changes(cmd[c].op) : Shows(tag, rec[i])
      BY <1>1, <2>1, <3>3 DEF JobOK
    <3> QED
      BY <3>1, <3>2, <3>4
  <2>2. CASE ~(cmd[c].pc = "waiting" /\ job[Loop(i)].pc = "ok")
    <3>1. told' = told
      BY <1>2, <2>2 DEF SaveRequest, Succeeded
    <3>2. told' = [told EXCEPT ![i] = @ \cup {}]
      BY <3>1 DEF TypeOK
    <3>3. {} \in SUBSET {"mode", "config", "close"} /\ (Faithful(i) => \A tag \in {} : Shows(tag, rec[i]))
      OBVIOUS
    <3> QED
      BY <3>2, <3>3, Zenon
  <2> QED
    BY <2>1, <2>2
<1>15. PICK T \in SUBSET {"mode", "config", "close"} :
         /\ told' = [told EXCEPT ![i] = @ \cup T]
         /\ Faithful(i) => \A tag \in T : Shows(tag, rec[i])
  BY <1>15a
<1>16. TypeOK'
  <2>1. {lost', cause', twins', late', pruned', imported'} \subseteq SUBSET Ids
    BY <1>3 DEF TypeOK
  <2>2. /\ rec' \in [Ids -> Record \cup {None}] /\ agent' \in {"plain", "modes", "options"}
        /\ crashes' \in 0..MaxCrashes /\ lease' \in [Ids -> BOOLEAN]
        /\ archive' \in [id : Ids, record : Record] \cup {None}
    BY <1>3 DEF TypeOK
  <2>3. told' \in [Ids -> SUBSET {"mode", "config", "close"}]
    BY <1>15 DEF TypeOK
  <2>4. /\ job' \in [Proc -> Job]
        /\ \A p \in Proc : /\ job'[p].pc \in {"probe", "save"} => job'[p].copy # None
                           /\ job'[p].pc # "none" => job'[p].id # 0
    BY <1>12
  <2>5. own' \in [Ids -> Owner] /\ queue' \in [Ids -> Seq(Cmds)] /\ claimed' \in [Ids -> BOOLEAN]
    BY <1>7, <1>8, <1>10
  <2> QED
    BY <1>14, <2>1, <2>2, <2>3, <2>4, <2>5 DEF TypeOK
<1>17. ASSUME NEW p \in Proc PROVE JobOK(p)'
  <2>1. CASE p # Loop(i)
    BY <1>4, <1>12, <1>13, <2>1, JobStays DEF Inv
  <2>2. CASE p = Loop(i)
    <3>1. Work(p)' = "unmark" /\ Known(i)' /\ job'[p] = j
      BY <1>1, <1>3, <1>11, <1>12, <2>2 DEF Work, Known
    <3> QED
      BY <1>1, <1>11, <2>2, <3>1 DEF JobOK, CanClose
  <2> QED
    BY <2>1, <2>2
<1>18. ASSUME NEW k \in Ids PROVE LoopOK(k)' /\ MarkOK(k)' /\ RecOK(k)'
  <2>1. RecOK(k)'
    <3>1. CASE k # i
      BY <1>4, <1>15, <3>1, RecStays DEF Inv, TypeOK
    <3>2. CASE k = i
      <4>1. told'[i] = told[i] \cup T /\ Known(i) /\ RecOK(i)
        BY <1>1, <1>15 DEF TypeOK, Inv
      <4> QED
        BY <1>3, <1>15, <3>2, <4>1 DEF RecOK, Known, Faithful, Shows, Blamed
    <3> QED
      BY <3>1, <3>2
  <2>2. job'[Exit(k)] = job[Exit(k)] /\ (k # i => job'[Loop(k)] = job[Loop(k)])
    BY <1>12, ProcIs
  <2>3. \A d \in Cmds : Waits(d, k) => Waits(d, k)' /\ cmd'[d].op = cmd[d].op
    BY <1>13 DEF StillWaits
  <2>4. CASE k # i
    <3>1. LoopOK(k)'
      BY <1>3, <1>4, <1>7, <1>10, <2>2, <2>3, <2>4, LoopStays DEF Inv, TypeOK, SameJob
    <3>2. MarkOK(k)'
      BY <1>3, <1>4, <1>8, <1>10, <2>2, <2>4, MarkStays DEF Inv
    <3> QED
      BY <2>1, <3>1, <3>2
  <2>5. CASE k = i
    <3>1. (\A n \in 1..Len(queue[i]) : Waits(queue[i][n], i))'
      <4>1. ASSUME NEW n \in 1..Len(q) PROVE Waits(q[n], i)'
        <5>1. q[n] \in Cmds /\ Waits(q[n], i)
          <6>1. PICK m \in 1..Len(queue[i]) : q[n] = queue[i][m]
            BY <1>6
          <6>2. Waits(queue[i][m], i)
            BY <1>1 DEF LoopOK
          <6>3. queue[i][m] \in Cmds
            BY <1>1
          <6> QED
            BY <6>1, <6>2, <6>3
        <5>2. PICK d \in Cmds : d = q[n] /\ Waits(d, i)
          BY <5>1
        <5>3. Waits(d, i)'
          BY <2>3, <2>5, <5>2
        <5> QED
          BY <5>2, <5>3 DEF Waits
      <4> QED
        BY <1>7, <4>1 DEF Waits
    <3>2. job'[Loop(i)] = j /\ own'[i] = o
      BY <1>10, <1>12
    <3>3. LoopOK(i)'
      BY <1>1, <1>3, <1>9, <1>11, <2>2, <2>5, <3>1, <3>2 DEF LoopOK, Known
    <3>4. MarkOK(i)'
      BY <1>9, <1>11, <3>2 DEF MarkOK, Up
    <3> QED
      BY <2>1, <2>5, <3>3, <3>4
  <2> QED
    BY <2>4, <2>5
<1> QED
  BY <1>4, <1>13, <1>16, <1>17, <1>18, RestStays DEF Inv

\* The copies of record i that others than p hold are old from now on.
LEMMA OutdatedIs ==
  ASSUME NEW jobs \in [Proc -> Job], NEW i \in Ids, NEW p \in Proc, NEW q \in Proc
  PROVE  /\ Outdated(jobs, i, p)[q] \in Job
         /\ q = p => Outdated(jobs, i, p)[q] = jobs[q]
         /\ Outdated(jobs, i, p)[q].pc = jobs[q].pc /\ Outdated(jobs, i, p)[q].what = jobs[q].what
         /\ Outdated(jobs, i, p)[q].id = jobs[q].id /\ Outdated(jobs, i, p)[q].copy = jobs[q].copy
         /\ Outdated(jobs, i, p)[q].fresh => jobs[q].fresh /\ (q = p \/ jobs[q].id # i \/ jobs[q].copy = None)
         /\ jobs[q].copy = None => Outdated(jobs, i, p)[q] = jobs[q]
<1>1. jobs[q] \in Job
  OBVIOUS
<1>2. CASE q # p /\ jobs[q].id = i /\ jobs[q].copy # None
  <2>1. Outdated(jobs, i, p)[q] = [jobs[q] EXCEPT !.fresh = FALSE]
    BY <1>2 DEF Outdated
  <2> QED
    BY <1>1, <1>2, <2>1 DEF Job
<1>3. CASE ~(q # p /\ jobs[q].id = i /\ jobs[q].copy # None)
  <2>1. Outdated(jobs, i, p)[q] = jobs[q]
    BY <1>3 DEF Outdated
  <2> QED
    BY <1>1, <1>3, <2>1
<1> QED
  BY <1>2, <1>3

\* Who saves a mark, or takes one away, is the loop at that point or one that ends.
LEMMA MarkerIs ==
  ASSUME TypeOK, Inv, NEW p \in Proc, job[p].pc = "save", NEW i \in Ids, i = job[p].id
  PROVE  /\ job[p].what \in QueueOps \cup {"cancel", "persist", "mark", "unmark"}
         /\ \/ p \in Cmds /\ job[p].what \notin {"mark", "unmark"}
            \/ p = Exit(i) /\ job[p].what = "unmark"
            \/ p = Loop(i) /\ own[i].pc = "mark" /\ job[p].what = "mark" /\ claimed[i]
            \/ p = Loop(i) /\ own[i].pc \in {"clear", "unmark"} /\ job[p].what = "unmark"
            \/ p = Loop(i) /\ own[i].pc \in {"closing", "run", "turned"}
                /\ job[p].what \notin {"mark", "unmark"}
<1>1. JobOK(p)
  BY DEF Inv
<1>2. CASE p \in Cmds
  BY <1>1, <1>2 DEF JobOK, QueueOps
<1>3. ASSUME NEW k \in Ids, p = Exit(k)
      PROVE  k = i /\ job[p].what = "unmark"
  BY <1>3 DEF Inv, LoopOK
<1>4. ASSUME NEW k \in Ids, p = Loop(k)
      PROVE  /\ k = i /\ job[p].what \in QueueOps \cup {"mark", "unmark"}
             /\ \/ own[i].pc = "mark" /\ job[p].what = "mark" /\ claimed[i]
                \/ own[i].pc \in {"clear", "unmark"} /\ job[p].what = "unmark"
                \/ own[i].pc \in {"closing", "run", "turned"} /\ job[p].what \notin {"mark", "unmark"}
  <2>1. LoopOK(k) /\ MarkOK(k) /\ k = i /\ job[p] # NoJob
    BY <1>4 DEF Inv, LoopOK, NoJob
  <2>2. own[i].pc \in {"clear", "mark", "run", "turned", "unmark", "closing"}
    BY <1>4, <2>1 DEF LoopOK, TypeOK, Owner
  <2>3. own[i].pc \in {"run", "turned"} => job[p].what \in QueueOps
    <3>1. own[i].pc \in {"run", "turned"} => /\ queue[i] \in Seq(Cmds) /\ queue[i] # <<>>
                                             /\ job[p].what = cmd[Head(queue[i])].op
      BY <1>4, <2>1 DEF LoopOK, TypeOK
    <3>2. own[i].pc \in {"run", "turned"} => 1 \in 1..Len(queue[i]) /\ Head(queue[i]) = queue[i][1]
      BY <3>1
    <3> QED
      BY <2>1, <3>1, <3>2 DEF LoopOK, Waits
  <2> QED
    BY <1>4, <2>1, <2>2, <2>3 DEF LoopOK, MarkOK, QueueOps
<1> QED
  BY <1>2, <1>3, <1>4, ProcIs

LEMMA SaveStep ==
  ASSUME TypeOK, Inv, NEW p \in Proc, Save(p)
  PROVE  TypeOK' /\ Inv'
<1>1. job[p] \in Job /\ JobOK(p) /\ job[p].pc = "save" /\ job[p].copy \in Record
  BY DEF TypeOK, Inv, JobOK, Save, Job
<1>2. PICK i \in Ids : i = job[p].id /\ Known(i) /\ i # 0
  BY <1>1, ProcIs DEF JobOK
<1>3. PICK r \in Record : r = job[p].copy /\ r # None
  BY <1>1, NoneAssumption
<1>4. UNCHANGED <<agent, archive, cmd, own, queue, claimed, lease, crashes, told, cause, twins,
                 pruned, imported>>
  BY DEF Save, ownVars
<1>5. PICK s \in Saves(p, r) : rec' = [rec EXCEPT ![i] = s]
  BY <1>2, <1>3 DEF Save
<1>6. /\ job[p].what \in QueueOps \cup {"cancel", "persist", "mark", "unmark"}
      /\ \/ p \in Cmds /\ job[p].what \notin {"mark", "unmark"}
         \/ p = Exit(i) /\ job[p].what = "unmark"
         \/ p = Loop(i) /\ own[i].pc = "mark" /\ job[p].what = "mark" /\ claimed[i]
         \/ p = Loop(i) /\ own[i].pc \in {"clear", "unmark"} /\ job[p].what = "unmark"
         \/ p = Loop(i) /\ own[i].pc \in {"closing", "run", "turned"} /\ job[p].what \notin {"mark", "unmark"}
  BY <1>1, <1>2, MarkerIs
<1>7. /\ s \in Record /\ s # None /\ s.key = r.key /\ (r.closed => s.closed)
      /\ \A tag \in {"close", "mode", "config"} : Shows(tag, r) => Shows(tag, s)
      /\ \A tag \in Changes(Work(p)) : Shows(tag, s)
      /\ agent # "modes" /\ Blamed(s) => Blamed(r) \/ Work(p) \in CanClose
      /\ s.active = IF job[p].what \in {"mark", "unmark"} THEN job[p].what = "mark" ELSE r.active
  <2>1. job[p].what = "persist" => cmd[p].op \in Ops
    BY <1>1 DEF JobOK, TypeOK, Cmd
  <2> QED
    BY <1>6, <2>1, SavesIs, NoneAssumption
<1>8. /\ rec' \in [Ids -> Record \cup {None}] /\ rec'[i] = s
      /\ \A k \in Ids : k # i => rec'[k] = rec[k]
  BY <1>5, <1>7 DEF TypeOK
<1> DEFINE j == [job[p] EXCEPT !.pc = "ok", !.copy = None, !.fresh = TRUE]
<1>9. /\ j \in Job /\ j.pc = "ok" /\ j.what = job[p].what /\ j.id = i /\ j.copy = None /\ j.fresh
  BY <1>1, <1>2 DEF Job
<1> DEFINE jobs == [job EXCEPT ![p] = j]
<1>10. job' = Outdated(jobs, i, p)
  <2>1. [job EXCEPT ![p].pc = "ok", ![p].copy = None, ![p].fresh = TRUE] = jobs
    BY DEF TypeOK, Job
  <2> QED
    BY <1>2, <2>1 DEF Save
<1> HIDE DEF j
<1>11. jobs \in [Proc -> Job] /\ jobs[p] = j /\ \A q \in Proc : q # p => jobs[q] = job[q]
  BY <1>9 DEF TypeOK
<1> HIDE DEF jobs
<1>12. /\ job' \in [Proc -> Job] /\ job'[p] = j
       /\ \A q \in Proc : q # p => /\ job'[q].pc = job[q].pc /\ job'[q].what = job[q].what
                                   /\ job'[q].id = job[q].id /\ job'[q].copy = job[q].copy
                                   /\ job'[q].fresh => job[q].fresh /\ (job[q].id # i \/ job[q].copy = None)
                                   /\ job[q].copy = None => job'[q] = job[q]
  <2>1. job' \in [Proc -> Job]
    <3>1. \A q \in Proc : job'[q] \in Job
      BY <1>10, <1>11, OutdatedIs
    <3>2. job' = [q \in Proc |-> job'[q]]
      BY <1>10 DEF Outdated
    <3> QED
      BY <3>1, <3>2
  <2>2. job'[p] = j
    BY <1>10, <1>11, OutdatedIs
  <2>3. ASSUME NEW q \in Proc, q # p
        PROVE  /\ job'[q].pc = job[q].pc /\ job'[q].what = job[q].what
               /\ job'[q].id = job[q].id /\ job'[q].copy = job[q].copy
               /\ job'[q].fresh => job[q].fresh /\ (job[q].id # i \/ job[q].copy = None)
               /\ job[q].copy = None => job'[q] = job[q]
    <3>1. jobs[q] = job[q] /\ job'[q] = Outdated(jobs, i, p)[q]
      BY <1>10, <1>11, <2>3
    <3> QED
      BY <1>11, <2>3, <3>1, OutdatedIs
  <2> QED
    BY <2>1, <2>2, <2>3
<1>13. /\ lost' \in SUBSET Ids /\ lost \subseteq lost' /\ (job[p].fresh => lost' = lost)
       /\ ~job[p].fresh => i \in lost'
       /\ \A k \in Ids : k # i => (k \in lost' <=> k \in lost)
  BY <1>2 DEF Save, TypeOK
<1>14. /\ late' \in SUBSET Ids /\ late \subseteq late' /\ (p = Exit(i) /\ Up(i) => i \in late')
  BY <1>2 DEF Save, TypeOK
<1>15. job[p].fresh => rec[i] = r
  BY <1>1, <1>2, <1>3 DEF JobOK
<1>16. TypeOK'
  <2>1. {lost', cause', twins', late', pruned', imported'} \subseteq SUBSET Ids
    BY <1>4, <1>13, <1>14 DEF TypeOK
  <2>2. /\ agent' \in {"plain", "modes", "options"}
        /\ archive' \in [id : Ids, record : Record] \cup {None} /\ cmd' \in [Cmds -> Cmd]
        /\ own' \in [Ids -> Owner] /\ queue' \in [Ids -> Seq(Cmds)]
        /\ claimed' \in [Ids -> BOOLEAN] /\ lease' \in [Ids -> BOOLEAN] /\ crashes' \in 0..MaxCrashes
        /\ told' \in [Ids -> SUBSET {"mode", "config", "close"}]
    BY <1>4 DEF TypeOK
  <2>3. ASSUME NEW q \in Proc
        PROVE  /\ job'[q].pc \in {"probe", "save"} => job'[q].copy # None
               /\ job'[q].pc # "none" => job'[q].id # 0
    <3>1. CASE q = p
      BY <1>2, <1>9, <1>12, <3>1
    <3>2. CASE q # p
      BY <1>12, <3>2 DEF TypeOK
    <3> QED
      BY <3>1, <3>2
  <2> QED
    BY <1>8, <1>12, <2>1, <2>2, <2>3 DEF TypeOK
<1>17. KnownStays
  BY <1>4, <1>7, <1>8 DEF KnownStays, Known
<1>18. Faithful(i)' => job[p].fresh /\ rec[i] = r /\ Faithful(i)
  BY <1>3, <1>4, <1>13, <1>15 DEF Faithful
<1>19. \A k \in Ids : k # i => (Faithful(k)' <=> Faithful(k))
  BY <1>4, <1>8, <1>13 DEF Faithful
<1>20. \A q \in Proc : Work(q)' = Work(q)
  BY <1>4, <1>9, <1>12 DEF Work
<1>21. ASSUME NEW tag \in {"close", "mode", "config"}, Faithful(i)', Shows(tag, rec[i])
       PROVE Shows(tag, rec[i])'
  <2>1. Shows(tag, s)
    BY <1>7, <1>18, <1>21
  <2> QED
    BY <1>4, <1>8, <2>1 DEF Shows
<1>22. ASSUME NEW q \in Proc PROVE JobOK(q)'
  <2>1. JobOK(q)
    BY DEF Inv
  <2>2. CASE q = p
    <3>1. job'[q] = j /\ Work(q)' = Work(p)
      BY <1>12, <1>20, <2>2
    <3>2. Faithful(i)' => (\A tag \in Changes(Work(p)) : Shows(tag, rec[i])')
      BY <1>4, <1>7, <1>8 DEF Shows
    <3>3. agent # "modes" /\ Work(p) \in CanClose => i \in cause
      BY <1>1, <1>2 DEF JobOK
    <3>4. /\ j.what = "persist" => p \in Cmds
          /\ p \in Cmds => j.what \in QueueOps \cup {"none", "cancel", "persist"}
          /\ j.what # "none" /\ Known(i)'
      BY <1>1, <1>2, <1>6, <1>9, <1>17 DEF JobOK, KnownStays, QueueOps
    <3> QED
      BY <1>4, <1>9, <2>2, <3>1, <3>2, <3>3, <3>4 DEF JobOK, CanClose, Shows
  <2>3. CASE q # p
    <3>1. /\ job'[q].pc = job[q].pc /\ job'[q].what = job[q].what
          /\ job'[q].id = job[q].id /\ job'[q].copy = job[q].copy
          /\ job'[q].fresh => job[q].fresh /\ (job[q].id # i \/ job[q].copy = None)
          /\ job[q].copy = None => job'[q] = job[q]
      BY <1>12, <2>3
    <3>2. PICK k : k = job[q].id
      OBVIOUS
    <3>3. job[q].pc # "none" => k \in Ids /\ Known(k)'
      BY <1>17, <2>1, <3>2 DEF JobOK, KnownStays
    <3>4. job[q].copy # None /\ job'[q].fresh => k # i /\ rec'[k] = job[q].copy
      BY <1>8, <2>1, <3>1, <3>2, <3>3 DEF JobOK
    <3>5. ASSUME job[q].pc = "ok", Faithful(k)' PROVE \A tag \in Changes(Work(q)) : Shows(tag, rec[k])'
      <4>1. k \in Ids
        BY <3>3, <3>5
      <4>2. CASE k # i
        <5>1. Faithful(k) /\ rec'[k] = rec[k]
          BY <1>8, <1>19, <3>5, <4>1, <4>2
        <5>2. \A tag \in Changes(Work(q)) : Shows(tag, rec[k])
          BY <2>1, <3>2, <3>5, <5>1 DEF JobOK
        <5> QED
          BY <1>4, <5>1, <5>2 DEF Shows
      <4>3. CASE k = i
        <5>1. \A tag \in Changes(Work(q)) : Shows(tag, rec[i]) /\ tag \in {"close", "mode", "config"}
          BY <1>18, <2>1, <3>2, <3>5, <4>3 DEF JobOK, Changes
        <5> QED
          BY <1>21, <3>5, <4>3, <5>1
      <4> QED
        BY <4>2, <4>3
    <3>6. /\ job'[q].pc = "none" => job'[q] = NoJob
          /\ job'[q].copy # None <=> job'[q].pc \in {"probe", "save"}
          /\ job'[q].copy = None => job'[q].fresh
      BY <2>1, <3>1 DEF JobOK
    <3>7. Work(q)' = Work(q) /\ job'[q].id = k /\ cmd' = cmd /\ agent' = agent /\ cause' = cause
      BY <1>4, <1>20, <3>1, <3>2
    <3>8. job'[q].pc = "ok" /\ Faithful(k)' => (\A tag \in Changes(Work(q)) : Shows(tag, rec[k])')
      BY <3>1, <3>5
    <3> QED
      BY <2>1, <3>1, <3>2, <3>3, <3>4, <3>6, <3>7, <3>8 DEF JobOK, CanClose, Blamed, Shows
  <2> QED
    BY <2>2, <2>3
<1>23. \A q \in Proc : SameJob(q)
  BY <1>1, <1>2, <1>9, <1>12, NoJobIs DEF SameJob, Inv, JobOK
<1>24. \A k \in OfKey("named")' : Open(k)' => k \in lost' \/ (k \in OfKey("named") /\ Open(k))
  <2>1. ASSUME NEW k \in Ids, rec'[k] # None, rec'[k].key = "named", ~rec'[k].closed
        PROVE  k \in lost' \/ (rec[k] # None /\ rec[k].key = "named" /\ ~rec[k].closed)
    <3>1. CASE k # i
      BY <1>8, <2>1, <3>1
    <3>2. CASE k = i
      BY <1>3, <1>7, <1>8, <1>13, <1>15, <2>1, <3>2
    <3> QED
      BY <3>1, <3>2
  <2> QED
    BY <2>1 DEF OfKey, Open
<1>25. ASSUME NEW c \in Cmds PROVE CmdOK(c)'
  <2>1. CmdOK(c) /\ cmd'[c] = cmd[c] /\ Work(c)' = Work(c) /\ c \in Proc /\ cmd[c] \in Cmd
    BY <1>4, <1>20, ProcIs DEF Inv, TypeOK
  <2>2. cmd[c].pc # "job" => job'[c] = NoJob
    <3>1. cmd[c].pc # "job" => job[c] = NoJob /\ c # p
      BY <1>1, <2>1, NoJobIs DEF CmdOK
    <3> QED
      BY <1>12, <2>1, <3>1, NoJobIs
  <2>3. cmd[c].id # 0 => Known(cmd[c].id)'
    BY <1>17, <2>1 DEF CmdOK, KnownStays, Cmd
  <2>4. cmd[c].pc = "create" /\ cmd[c].alone /\ ~cmd[c].beside
        => (\A k \in OfKey("named") : Open(k) => k \in lost)'
    BY <1>13, <1>24, <2>1 DEF CmdOK
  <2> QED
    BY <1>4, <2>1, <2>2, <2>3, <2>4 DEF CmdOK, CanClose
<1>26. ASSUME NEW k \in Ids PROVE LoopOK(k)'
  <2>1. SameJob(Loop(k)) /\ SameJob(Exit(k)) /\ queue[k] \in Seq(Cmds)
    BY <1>23, ProcIs DEF TypeOK
  <2>2. \A c \in Cmds : Waits(c, k) => Waits(c, k)' /\ cmd'[c].op = cmd[c].op
    BY <1>4 DEF Waits
  <2> QED
    BY <1>4, <1>17, <2>1, <2>2, LoopKept DEF Inv
<1>27. ASSUME NEW k \in Ids PROVE RecOK(k)'
  <2>1. RecOK(k) /\ (told'[k] # {} => Known(k)')
    BY <1>4, <1>17 DEF Inv, RecOK, KnownStays
  <2>2. CASE k # i
    BY <1>4, <1>8, <1>13, <1>19, <2>1, <2>2 DEF RecOK, Blamed, Shows
  <2>3. CASE k = i
    <3>1. i \in pruned => i \in lost' \cup imported
      BY <1>3, <1>13, <1>15, <2>1, <2>3 DEF RecOK
    <3>2. agent # "modes" /\ Blamed(s) => i \in cause
      BY <1>1, <1>2, <1>3, <1>7 DEF JobOK
    <3>3. Faithful(i)' => (\A tag \in told[i] : Shows(tag, rec[i])')
      <4>1. told[i] \subseteq {"close", "mode", "config"}
        BY DEF TypeOK
      <4> QED
        BY <1>18, <1>21, <2>1, <2>3, <4>1 DEF RecOK
    <3> QED
      BY <1>4, <1>8, <2>1, <2>3, <3>1, <3>2, <3>3 DEF RecOK, Blamed, Shows
  <2> QED
    BY <2>2, <2>3
<1>28. ASSUME NEW k \in Ids PROVE MarkOK(k)'
  <2>1. MarkOK(k) /\ LoopOK(k) /\ own' = own /\ claimed' = claimed /\ imported' = imported
    BY <1>4 DEF Inv
  <2>2. CASE k # i
    <3>1. p # Loop(k)
      BY <1>1, <1>2, <2>1, <2>2 DEF LoopOK
    <3>2. job'[Loop(k)].pc = job[Loop(k)].pc
      BY <1>12, <3>1, ProcIs
    <3> QED
      BY <1>8, <1>14, <1>19, <2>1, <2>2, <3>2 DEF MarkOK, Up
  <2>3. CASE k = i /\ p # Loop(i)
    <3>1. job'[Loop(i)].pc = job[Loop(i)].pc
      BY <1>12, <2>3, ProcIs
    <3>2. CASE p \in Cmds /\ job[p].what \notin {"mark", "unmark"}
      <4>1. s.active = r.active
        BY <1>7, <3>2
      <4>2. Faithful(i)' => Faithful(i) /\ rec'[i].active = rec[i].active
        BY <1>8, <1>18, <4>1
      <4> QED
        BY <1>14, <2>1, <2>3, <3>1, <4>2 DEF MarkOK, Up
    <3>3. CASE p = Exit(i) /\ job[p].what = "unmark"
      <4>1. ~s.active
        BY <1>7, <3>3
      <4>2. Faithful(i)' => Faithful(i) /\ ~rec'[i].active
        BY <1>8, <1>18, <4>1
      <4>3. Up(i) => i \in late'
        BY <1>14, <3>3
      <4>4. ~Up(i) => own[i].pc \notin {"run", "turned", "mark", "clear", "unmark"}
        BY DEF Up
      <4> QED
        BY <2>1, <2>3, <3>1, <4>2, <4>3, <4>4 DEF MarkOK, Up
    <3> QED
      BY <1>6, <2>3, <3>2, <3>3
  <2>4. CASE k = i /\ p = Loop(i)
    <3>1. job'[Loop(i)].pc = "ok"
      BY <1>9, <1>12, <2>4
    <3>2. Faithful(i)' => Faithful(i) /\ rec'[i].active = s.active /\ rec[i].active = r.active
      BY <1>8, <1>18
    <3>3. CASE own[i].pc = "mark" /\ job[p].what = "mark" /\ claimed[i]
      <4>1. s.active
        BY <1>7, <3>3
      <4> QED
        BY <2>1, <2>4, <3>1, <3>2, <3>3, <4>1 DEF MarkOK
    <3>4. CASE own[i].pc \in {"clear", "unmark"} /\ job[p].what = "unmark"
      <4>1. ~s.active
        BY <1>7, <3>4
      <4> QED
        BY <2>1, <2>4, <3>1, <3>2, <3>4, <4>1 DEF MarkOK
    <3>5. CASE own[i].pc \in {"closing", "run", "turned"} /\ job[p].what \notin {"mark", "unmark"}
      <4>1. s.active = r.active
        BY <1>7, <3>5
      <4> QED
        BY <1>14, <2>1, <2>4, <3>1, <3>2, <3>5, <4>1 DEF MarkOK, Up
    <3> QED
      BY <1>6, <2>4, <3>3, <3>4, <3>5, ProcIs
  <2> QED
    BY <2>2, <2>3, <2>4
<1>29. OneOpenSession'
  <2>1. OneOpenSession /\ twins' = twins
    BY <1>4 DEF Inv
  <2>2. ASSUME NEW a \in OfKey("named")', NEW b \in OfKey("named")', Open(a)', Open(b)', a # b
        PROVE  {a, b} \cap (twins \cup lost') # {}
    <3>1. CASE a \in lost' \/ b \in lost'
      BY <3>1
    <3>2. CASE ~(a \in lost' \/ b \in lost')
      <4>1. a \in OfKey("named") /\ Open(a) /\ b \in OfKey("named") /\ Open(b)
        BY <1>24, <2>2, <3>2
      <4> QED
        BY <1>13, <2>1, <2>2, <4>1 DEF OneOpenSession
    <3> QED
      BY <3>1, <3>2
  <2> QED
    BY <2>1, <2>2 DEF OneOpenSession
<1>30. ArchiveOK'
  BY <1>4 DEF Inv, ArchiveOK, Blamed
<1> QED
  BY <1>16, <1>22, <1>25, <1>26, <1>27, <1>28, <1>29, <1>30 DEF Inv

-----------------------------------------------------------------------------
\* Records that come and go.

\* A command creates, imports or deletes record i: nobody holds it by then, or what it
\* shows no longer counts.
Replaces(c, i) ==
  /\ rec' \in [Ids -> Record \cup {None}] /\ KnownStays
  /\ UNCHANGED <<agent, archive, own, queue, claimed, lease, crashes, lost, told, late>>
  /\ cause' \in SUBSET Ids /\ twins' \in SUBSET Ids /\ pruned' \in SUBSET Ids /\ imported' \in SUBSET Ids
  /\ twins \subseteq twins'
  /\ \A k \in Ids \ {i} : /\ rec'[k] = rec[k] /\ (Faithful(k)' <=> Faithful(k))
                          /\ k \in pruned' <=> k \in pruned
                          /\ k \in imported' <=> k \in imported
  /\ ~Faithful(i)' \/ (~Known(i) /\ ~rec'[i].active)

\* The other processes keep their copies, which may be old from now on.
OthersGoOn(c, i) ==
  /\ job' \in [Proc -> Job] /\ cmd' \in [Cmds -> Cmd]
  /\ \A q \in Proc \ {c} : /\ job'[q].pc = job[q].pc /\ job'[q].what = job[q].what
                           /\ job'[q].id = job[q].id /\ job'[q].copy = job[q].copy
                           /\ job'[q].fresh => job[q].fresh
                           /\ Known(i) => (job'[q].fresh => job[q].id # i \/ job[q].copy = None)
                           /\ job[q].copy = None => job'[q] = job[q]
  /\ \A d \in Cmds : cmd'[d].op = cmd[d].op /\ cmd'[d].via = cmd[d].via
  /\ \A d \in Cmds \ {c} : /\ cmd'[d].pc = cmd[d].pc /\ cmd'[d].id = cmd[d].id
                           /\ cmd'[d].beside = cmd[d].beside
                           /\ cmd'[d].pc = "create" /\ cmd'[d].alone =>
                                /\ cmd[d].alone
                                /\ \A k \in OfKey("named")' : Open(k)' => k \in OfKey("named") /\ Open(k)

LEMMA RecordStep ==
  ASSUME TypeOK, Inv, NEW c \in Cmds, NEW i \in Ids, Replaces(c, i), OthersGoOn(c, i),
         cmd[c].pc \notin {"waiting", "job", "done"},
         job'[c].pc \notin {"probe", "save"}, job'[c].pc # "none" => job'[c].id # 0
  PROVE  /\ TypeOK'
         /\ JobOK(c)' /\ CmdOK(c)' /\ RecOK(i)' /\ OneOpenSession' => Inv'
<1>1. /\ UNCHANGED <<agent, archive, own, queue, claimed, lease, crashes, lost, told, late>>
      /\ KnownStays /\ cause \subseteq cause'
      /\ ~Faithful(i)' \/ (~Known(i) /\ ~rec'[i].active)
      /\ \A k \in Ids \ {i} : rec'[k] = rec[k] /\ (Faithful(k)' <=> Faithful(k))
  BY DEF Replaces, KnownStays
<1>2. job[c] = NoJob /\ c \in Proc
  BY ProcIs DEF Inv, CmdOK
<1>3. \A q \in Proc : job[q].pc # "none" => job[q].id \in Ids /\ Known(job[q].id)
  BY DEF Inv, JobOK
<1>4. TypeOK'
  <2>1. {lost', cause', twins', late', pruned', imported'} \subseteq SUBSET Ids
    BY <1>1 DEF TypeOK, Replaces
  <2>2. /\ agent' \in {"plain", "modes", "options"}
        /\ archive' \in [id : Ids, record : Record] \cup {None}
        /\ own' \in [Ids -> Owner] /\ queue' \in [Ids -> Seq(Cmds)]
        /\ claimed' \in [Ids -> BOOLEAN] /\ lease' \in [Ids -> BOOLEAN] /\ crashes' \in 0..MaxCrashes
        /\ told' \in [Ids -> SUBSET {"mode", "config", "close"}]
    BY <1>1 DEF TypeOK
  <2>3. ASSUME NEW q \in Proc
        PROVE  /\ job'[q].pc \in {"probe", "save"} => job'[q].copy # None
               /\ job'[q].pc # "none" => job'[q].id # 0
    <3>1. CASE q = c
      BY <3>1
    <3>2. CASE q # c
      <4>1. job'[q].pc = job[q].pc /\ job'[q].id = job[q].id /\ job'[q].copy = job[q].copy
        BY <3>2 DEF OthersGoOn
      <4> QED
        BY <4>1 DEF TypeOK
    <3> QED
      BY <3>1, <3>2
  <2>4. rec' \in [Ids -> Record \cup {None}] /\ job' \in [Proc -> Job] /\ cmd' \in [Cmds -> Cmd]
    BY DEF Replaces, OthersGoOn
  <2> QED
    BY <2>1, <2>2, <2>3, <2>4 DEF TypeOK
<1>5. ASSUME NEW q \in Proc, q # c PROVE JobOK(q)'
  <2>1. /\ JobOK(q) /\ job'[q].pc = job[q].pc /\ job'[q].what = job[q].what
        /\ job'[q].id = job[q].id /\ job'[q].copy = job[q].copy
        /\ job'[q].fresh => job[q].fresh
        /\ Known(i) => (job'[q].fresh => job[q].id # i \/ job[q].copy = None)
        /\ job[q].copy = None => job'[q] = job[q]
    BY <1>5 DEF Inv, OthersGoOn
  <2>2. PICK k : k = job[q].id
    OBVIOUS
  <2>3. job[q].pc # "none" => k \in Ids /\ Known(k) /\ Known(k)'
    BY <1>1, <2>1, <2>2 DEF JobOK, KnownStays
  <2>4. job[q].copy # None /\ job'[q].fresh => k # i /\ rec'[k] = job[q].copy
    BY <1>1, <2>1, <2>2, <2>3 DEF JobOK
  <2>5. ASSUME job[q].pc = "ok", Faithful(k)' PROVE \A tag \in Changes(Work(q)) : Shows(tag, rec[k])'
    <3>1. k # i /\ k \in Ids
      BY <1>1, <2>3, <2>5
    <3>2. Faithful(k) /\ rec'[k] = rec[k]
      BY <1>1, <2>5, <3>1
    <3> QED
      BY <1>1, <2>1, <2>2, <2>5, <3>2 DEF JobOK, Shows
  <2>6. q \in Cmds => cmd'[q].op = cmd[q].op /\ cmd'[q].via = cmd[q].via
    BY DEF OthersGoOn
  <2>7. Work(q)' = Work(q)
    BY <2>1, <2>6 DEF Work, JobOK
  <2>8. /\ job'[q].pc = "none" => job'[q] = NoJob
        /\ job'[q].copy # None <=> job'[q].pc \in {"probe", "save"}
        /\ job'[q].copy = None => job'[q].fresh
    BY <2>1 DEF JobOK
  <2>9. job'[q].pc = "ok" /\ Faithful(k)' => (\A tag \in Changes(Work(q)) : Shows(tag, rec[k])')
    BY <2>1, <2>5
  <2> QED
    BY <1>1, <2>1, <2>2, <2>3, <2>4, <2>6, <2>7, <2>8, <2>9 DEF JobOK, CanClose, Blamed, Shows, KnownStays
<1>6. ASSUME NEW d \in Cmds, d # c PROVE CmdOK(d)'
  <2>1. /\ CmdOK(d) /\ cmd'[d].op = cmd[d].op /\ cmd'[d].via = cmd[d].via /\ cmd[d] \in Cmd
        /\ cmd'[d].pc = cmd[d].pc /\ cmd'[d].id = cmd[d].id /\ cmd'[d].beside = cmd[d].beside
        /\ cmd'[d].pc = "create" /\ cmd'[d].alone =>
             /\ cmd[d].alone
             /\ \A k \in OfKey("named")' : Open(k)' => k \in OfKey("named") /\ Open(k)
    BY <1>6 DEF Inv, OthersGoOn, TypeOK
  <2>2. job'[d].what = job[d].what /\ (job[d].copy = None => job'[d] = job[d])
    BY <1>6, ProcIs DEF OthersGoOn
  <2>3. Work(d)' = Work(d)
    BY <2>1, <2>2 DEF Work
  <2>4. cmd[d].pc # "job" => job'[d] = NoJob
    BY <2>1, <2>2, NoJobIs DEF CmdOK
  <2>5. cmd[d].id # 0 => Known(cmd[d].id)'
    BY <1>1, <2>1 DEF CmdOK, KnownStays, Cmd
  <2>6. cmd'[d].pc = "create" /\ cmd'[d].alone /\ ~cmd'[d].beside
        => (\A k \in OfKey("named") : Open(k) => k \in lost)'
    BY <1>1, <2>1 DEF CmdOK
  <2> QED
    BY <1>1, <2>1, <2>3, <2>4, <2>5, <2>6 DEF CmdOK, CanClose
<1>7. ASSUME NEW k \in Ids
      PROVE  /\ SameJob(Loop(k)) /\ SameJob(Exit(k)) /\ job'[Loop(k)].pc = job[Loop(k)].pc
  <2>1. ASSUME NEW q \in Proc \ {c} PROVE SameJob(q) /\ job'[q].pc = job[q].pc
    BY NoJobIs DEF SameJob, OthersGoOn, Inv, JobOK
  <2> QED
    BY <2>1, ProcIs
<1>8. ASSUME NEW k \in Ids PROVE LoopOK(k)'
  <2>1. \A d \in Cmds : Waits(d, k) => Waits(d, k)' /\ cmd'[d].op = cmd[d].op
    BY DEF Waits, OthersGoOn
  <2>2. queue[k] \in Seq(Cmds)
    BY DEF TypeOK
  <2> QED
    BY <1>1, <1>7, <2>1, <2>2, LoopKept DEF Inv
<1>9. ASSUME NEW k \in Ids, k # i PROVE RecOK(k)'
  <2>1. RecOK(k) /\ (told'[k] # {} => Known(k)')
    BY <1>1 DEF Inv, RecOK, KnownStays
  <2>2. (k \in pruned' <=> k \in pruned) /\ (k \in imported' <=> k \in imported)
    BY <1>9 DEF Replaces
  <2> QED
    BY <1>1, <1>9, <2>1, <2>2 DEF RecOK, Blamed, Shows
<1>10. ASSUME NEW k \in Ids PROVE MarkOK(k)'
  <2>1. MarkOK(k) /\ LoopOK(k)
    BY DEF Inv
  <2>2. CASE k # i
    BY <1>1, <1>7, <2>1, <2>2 DEF MarkOK, Up
  <2>3. CASE k = i /\ ~Faithful(i)'
    BY <1>1, <1>7, <2>1, <2>3 DEF MarkOK
  <2>4. CASE k = i /\ ~Known(i) /\ ~rec'[i].active
    <3>1. own'[i].pc = "down"
      BY <1>1, <2>1, <2>4 DEF LoopOK
    <3> QED
      BY <2>4, <3>1 DEF MarkOK
  <2> QED
    BY <1>1, <2>2, <2>3, <2>4
<1>11. ArchiveOK'
  BY <1>1 DEF Inv, ArchiveOK, Blamed
<1> QED
  BY <1>4, <1>5, <1>6, <1>8, <1>9, <1>10, <1>11 DEF Inv

LEMMA DeleteStep ==
  ASSUME TypeOK, Inv, NEW c \in Cmds, NEW i \in Ids, Delete(c, i)
  PROVE  TypeOK' /\ Inv'
<1>1. /\ cmd[c] \in Cmd /\ CmdOK(c) /\ cmd[c].pc = "delete" /\ job[c] = NoJob /\ c \in Proc
      /\ i \in cmd[c].left
  BY ProcIs DEF TypeOK, Inv, CmdOK, Delete
<1>2. /\ UNCHANGED <<agent, archive, own, queue, claimed, lease, crashes, lost, told, cause, twins,
                    late, imported>>
      /\ rec' = [rec EXCEPT ![i] = None] /\ pruned' = pruned \cup {i}
  BY DEF Delete, ownVars
<1>3. rec' \in [Ids -> Record \cup {None}] /\ rec'[i] = None /\ \A k \in Ids : k # i => rec'[k] = rec[k]
  BY <1>2 DEF TypeOK
<1>4. Replaces(c, i)
  <2>1. KnownStays
    BY <1>2, <1>3 DEF KnownStays, Known
  <2>2. ~Faithful(i)' /\ \A k \in Ids \ {i} : Faithful(k)' <=> Faithful(k)
    BY <1>2, <1>3 DEF Faithful
  <2>3. cause' \in SUBSET Ids /\ twins' \in SUBSET Ids /\ pruned' \in SUBSET Ids /\ imported' \in SUBSET Ids
    BY <1>2 DEF TypeOK
  <2> QED
    BY <1>2, <1>3, <2>1, <2>2, <2>3 DEF Replaces
<1>5. PICK pc \in {"done", "delete"} : cmd' = [cmd EXCEPT ![c].left = @ \ {i}, ![c].pc = pc]
  <2>1. CASE cmd[c].left = {i}
    BY <2>1 DEF Delete
  <2>2. CASE cmd[c].left # {i}
    BY <1>1, <2>2 DEF Delete, TypeOK, Cmd
  <2> QED
    BY <2>1, <2>2
<1> DEFINE x == [cmd[c] EXCEPT !.left = @ \ {i}, !.pc = pc]
<1>6. x \in Cmd /\ x.op = cmd[c].op /\ x.pc = pc /\ x.id = cmd[c].id /\ x.via = cmd[c].via
  BY <1>1 DEF Cmd
<1>7. cmd' = [cmd EXCEPT ![c] = x]
  BY <1>1, <1>5 DEF TypeOK, Cmd
<1> HIDE DEF x
<1>8. cmd' \in [Cmds -> Cmd] /\ cmd'[c] = x /\ \A d \in Cmds : d # c => cmd'[d] = cmd[d]
  BY <1>6, <1>7, CmdIs
<1>9. \A k \in OfKey("named")' : Open(k)' => k \in OfKey("named") /\ Open(k)
  BY <1>3 DEF OfKey, Open
<1>10. \A q \in Proc : /\ job'[q] \in Job
                       /\ job'[q].pc = job[q].pc /\ job'[q].what = job[q].what
                       /\ job'[q].id = job[q].id /\ job'[q].copy = job[q].copy
                       /\ job'[q].fresh => job[q].fresh /\ (q = c \/ job[q].id # i \/ job[q].copy = None)
                       /\ job[q].copy = None => job'[q] = job[q]
  <2>1. job' = Outdated(job, i, c) /\ job \in [Proc -> Job]
    BY DEF Delete, TypeOK
  <2> QED
    BY <1>1, <2>1, OutdatedIs
<1>11. job' \in [Proc -> Job]
  BY <1>10 DEF Delete, Outdated
<1>12. OthersGoOn(c, i)
  <2>1. /\ \A d \in Cmds : cmd'[d].op = cmd[d].op /\ cmd'[d].via = cmd[d].via
        /\ \A d \in Cmds \ {c} : cmd'[d] = cmd[d]
    BY <1>6, <1>8
  <2> QED
    BY <1>8, <1>9, <1>10, <1>11, <2>1 DEF OthersGoOn
<1>13. job'[c] = NoJob
  BY <1>1, <1>10, NoJobIs
<1>14. TypeOK' /\ (JobOK(c)' /\ CmdOK(c)' /\ RecOK(i)' /\ OneOpenSession' => Inv')
  BY <1>1, <1>4, <1>12, <1>13, NoJobIs, RecordStep
<1>15. JobOK(c)'
  BY <1>13, NoJobIs DEF JobOK, Work, CanClose
<1>16. Known(i)' /\ \A k \in Ids : Known(k) => Known(k)'
  BY <1>2, <1>3 DEF Known
<1>17. CmdOK(c)'
  BY <1>1, <1>2, <1>6, <1>8, <1>13, <1>16 DEF CmdOK, CanClose, Cmd
<1>18. RecOK(i)'
  BY <1>3, <1>16 DEF RecOK, Faithful
<1>19. OneOpenSession'
  BY <1>2, <1>9 DEF Inv, OneOpenSession
<1> QED
  BY <1>14, <1>15, <1>17, <1>18, <1>19

\* Whoever was about to create a session is no longer alone in doing so.
LEMMA NotAloneIs ==
  ASSUME NEW cmds \in [Cmds -> Cmd], NEW d \in Cmds
  PROVE  LET x == NotAlone(cmds)[d] IN
         /\ NotAlone(cmds) \in [Cmds -> Cmd]
         /\ x.op = cmds[d].op /\ x.pc = cmds[d].pc /\ x.id = cmds[d].id /\ x.via = cmds[d].via
         /\ x.beside = cmds[d].beside /\ (x.pc = "create" => ~x.alone)
<1>1. ASSUME NEW e \in Cmds
      PROVE  /\ NotAlone(cmds)[e] \in Cmd
             /\ NotAlone(cmds)[e].op = cmds[e].op /\ NotAlone(cmds)[e].pc = cmds[e].pc
             /\ NotAlone(cmds)[e].id = cmds[e].id /\ NotAlone(cmds)[e].via = cmds[e].via
             /\ NotAlone(cmds)[e].beside = cmds[e].beside
             /\ NotAlone(cmds)[e].pc = "create" => ~NotAlone(cmds)[e].alone
  <2>1. cmds[e] \in Cmd
    OBVIOUS
  <2>2. PICK b \in BOOLEAN : b <=> cmds[e].alone /\ cmds[e].pc # "create"
    OBVIOUS
  <2>3. NotAlone(cmds)[e] = [cmds[e] EXCEPT !.alone = b]
    <3>1. b = (cmds[e].alone /\ cmds[e].pc # "create")
      BY <2>2, Zenon
    <3> QED
      BY <3>1 DEF NotAlone
  <2> QED
    BY <2>1, <2>2, <2>3 DEF Cmd
<1>2. NotAlone(cmds) \in [Cmds -> Cmd]
  BY <1>1 DEF NotAlone
<1> QED
  BY <1>1, <1>2

\* Command c goes on as x, beside others that hear of a new session.
LEMMA AloneStep ==
  ASSUME TypeOK, NEW c \in Cmds, NEW x \in Cmd, cmd' = NotAlone([cmd EXCEPT ![c] = x]),
         x.op = cmd[c].op, x.via = cmd[c].via
  PROVE  /\ cmd' \in [Cmds -> Cmd]
         /\ cmd'[c].op = x.op /\ cmd'[c].pc = x.pc /\ cmd'[c].id = x.id /\ cmd'[c].via = x.via
         /\ \A d \in Cmds : cmd'[d].op = cmd[d].op /\ cmd'[d].via = cmd[d].via
         /\ \A d \in Cmds \ {c} : /\ cmd'[d].pc = cmd[d].pc /\ cmd'[d].id = cmd[d].id
                                  /\ cmd'[d].beside = cmd[d].beside
                                  /\ ~(cmd'[d].pc = "create" /\ cmd'[d].alone)
<1> DEFINE cmds == [cmd EXCEPT ![c] = x]
<1>1. cmds \in [Cmds -> Cmd] /\ cmds[c] = x /\ \A d \in Cmds \ {c} : cmds[d] = cmd[d]
  BY DEF TypeOK
<1>2. cmd' = NotAlone(cmds)
  OBVIOUS
<1> HIDE DEF cmds
<1>3. ASSUME NEW d \in Cmds
      PROVE  /\ cmd'[d].op = cmds[d].op /\ cmd'[d].pc = cmds[d].pc /\ cmd'[d].id = cmds[d].id
             /\ cmd'[d].via = cmds[d].via /\ cmd'[d].beside = cmds[d].beside
             /\ ~(cmd'[d].pc = "create" /\ cmd'[d].alone)
  <2>1. cmd'[d] = NotAlone(cmds)[d]
    BY <1>2
  <2> QED
    BY <1>1, <2>1, NotAloneIs
<1>4. cmd' \in [Cmds -> Cmd]
  BY <1>1, <1>2, NotAloneIs
<1>5. cmd'[c].op = x.op /\ cmd'[c].pc = x.pc /\ cmd'[c].id = x.id /\ cmd'[c].via = x.via
  BY <1>1, <1>3
<1>6. ASSUME NEW d \in Cmds PROVE cmd'[d].op = cmd[d].op /\ cmd'[d].via = cmd[d].via
  <2>1. CASE d = c
    BY <1>5, <2>1
  <2>2. CASE d # c
    BY <1>1, <1>3, <2>2
  <2> QED
    BY <2>1, <2>2
<1>7. ASSUME NEW d \in Cmds \ {c}
      PROVE  /\ cmd'[d].pc = cmd[d].pc /\ cmd'[d].id = cmd[d].id /\ cmd'[d].beside = cmd[d].beside
             /\ ~(cmd'[d].pc = "create" /\ cmd'[d].alone)
  BY <1>1, <1>3
<1> QED
  BY <1>4, <1>5, <1>6, <1>7

\* A session is created, with the mode that its agent reports if it has modes.
LEMMA NewStep ==
  ASSUME TypeOK, Inv, NEW c \in Cmds, NEW i \in Ids, NEW key \in {"named", "exec"},
         NEW mode \in {"persistent", "oneshot"}, NewSession(c, i, key, mode),
         cause \subseteq cause', cause' \in SUBSET Ids, mode = "oneshot" => i \in cause',
         key = "named" => cmd[c].pc = "create", cmd[c].pc \notin {"waiting", "job", "done"},
         NEW x \in Cmd, cmd' = NotAlone([cmd EXCEPT ![c] = x]), x.op = cmd[c].op, x.via = cmd[c].via,
         NEW j \in Job, job' = [job EXCEPT ![c] = j], j.pc \notin {"probe", "save"}, j.pc # "none" => j.id # 0
  PROVE  /\ TypeOK' /\ Known(i)' /\ KnownStays /\ job'[c] = j
         /\ cmd'[c].op = x.op /\ cmd'[c].pc = x.pc /\ cmd'[c].id = x.id /\ cmd'[c].via = x.via
         /\ JobOK(c)' /\ CmdOK(c)' => Inv'
<1>1. /\ CmdOK(c) /\ job[c] = NoJob /\ c \in Proc /\ rec[i] = None /\ i \notin pruned \cup imported
      /\ cmd[c] \in Cmd
  BY ProcIs DEF TypeOK, Inv, CmdOK, NewSession
<1>2. UNCHANGED <<agent, archive, own, queue, claimed, lease, crashes, lost, told, late, pruned, imported>>
  BY DEF NewSession, ownVars
<1> DEFINE r == [key |-> key, mode |-> mode, closed |-> FALSE, active |-> FALSE, config |-> "unset"]
<1>3. r \in Record /\ r.key = key /\ r.mode = mode /\ ~r.closed /\ ~r.active
  BY DEF Record, Modes
<1>4. PICK s \in Reported(r) : rec' = [rec EXCEPT ![i] = s]
  BY DEF NewSession
<1> HIDE DEF r
<1>5. s \in Record /\ s # None /\ s.key = key /\ ~s.closed /\ ~s.active /\ (agent # "modes" => s.mode = mode)
  BY <1>3, ReportedIs, NoneAssumption
<1>6. rec' \in [Ids -> Record \cup {None}] /\ rec'[i] = s /\ \A k \in Ids : k # i => rec'[k] = rec[k]
  BY <1>4, <1>5 DEF TypeOK
<1>7. /\ twins' \in SUBSET Ids /\ twins \subseteq twins'
      /\ i \in twins' \/ (~cmd[c].beside /\ cmd[c].alone)
  BY <1>1 DEF NewSession, TypeOK, Cmd
<1>8. KnownStays /\ Known(i)' /\ ~Known(i)
  BY <1>1, <1>2, <1>5, <1>6 DEF KnownStays, Known
<1>9. Replaces(c, i)
  <2>1. \A k \in Ids \ {i} : Faithful(k)' <=> Faithful(k)
    BY <1>2, <1>6 DEF Faithful
  <2>2. pruned' \in SUBSET Ids /\ imported' \in SUBSET Ids
    BY <1>2 DEF TypeOK
  <2> QED
    BY <1>2, <1>5, <1>6, <1>7, <1>8, <2>1, <2>2 DEF Replaces
<1>10. job' \in [Proc -> Job] /\ job'[c] = j /\ \A q \in Proc : q # c => job'[q] = job[q]
  BY <1>1 DEF TypeOK
<1>11. /\ cmd' \in [Cmds -> Cmd]
       /\ cmd'[c].op = x.op /\ cmd'[c].pc = x.pc /\ cmd'[c].id = x.id /\ cmd'[c].via = x.via
       /\ \A d \in Cmds : cmd'[d].op = cmd[d].op /\ cmd'[d].via = cmd[d].via
       /\ \A d \in Cmds \ {c} : /\ cmd'[d].pc = cmd[d].pc /\ cmd'[d].id = cmd[d].id
                                /\ cmd'[d].beside = cmd[d].beside
                                /\ ~(cmd'[d].pc = "create" /\ cmd'[d].alone)
  BY AloneStep
<1>12. OthersGoOn(c, i)
  BY <1>8, <1>10, <1>11 DEF OthersGoOn
<1>13. TypeOK' /\ (JobOK(c)' /\ CmdOK(c)' /\ RecOK(i)' /\ OneOpenSession' => Inv')
  BY <1>9, <1>10, <1>12, RecordStep
<1>14. RecOK(i)'
  <2>1. told[i] = {}
    BY <1>8 DEF Inv, RecOK
  <2>2. agent' # "modes" /\ Blamed(s) => i \in cause'
    BY <1>2, <1>5 DEF Blamed
  <2> QED
    BY <1>1, <1>2, <1>6, <2>1, <2>2 DEF RecOK, Blamed
<1>15. OneOpenSession'
  <2>1. OneOpenSession
    BY DEF Inv
  <2>2. ASSUME NEW a \in OfKey("named")', NEW b \in OfKey("named")', Open(a)', Open(b)', a # b
        PROVE  {a, b} \cap (twins' \cup lost') # {}
    <3>1. a \in Ids /\ b \in Ids
      BY DEF OfKey
    <3>2. \A k \in Ids \ {i} : (k \in OfKey("named")' => k \in OfKey("named")) /\ (Open(k)' => Open(k))
      BY <1>6 DEF OfKey, Open
    <3>3. CASE a # i /\ b # i
      <4>1. {a, b} \cap (twins \cup lost) # {}
        BY <2>1, <2>2, <3>1, <3>2, <3>3 DEF OneOpenSession
      <4> QED
        BY <1>2, <1>7, <4>1
    <3>4. ASSUME NEW k \in {a, b}, k # i, i \in {a, b} PROVE {a, b} \cap (twins' \cup lost') # {}
      <4>1. key = "named"
        BY <1>5, <1>6, <2>2, <3>4 DEF OfKey
      <4>2. k \in OfKey("named") /\ Open(k)
        BY <2>2, <3>1, <3>2, <3>4
      <4>3. CASE i \in twins'
        BY <3>4, <4>3
      <4>4. CASE ~cmd[c].beside /\ cmd[c].alone
        <5>1. k \in lost
          BY <1>1, <4>1, <4>2, <4>4 DEF CmdOK
        <5> QED
          BY <1>2, <3>4, <5>1
      <4> QED
        BY <1>7, <4>3, <4>4
    <3> QED
      BY <2>2, <3>3, <3>4
  <2> QED
    BY <2>2 DEF OneOpenSession
<1> QED
  BY <1>8, <1>10, <1>11, <1>13, <1>14, <1>15

LEMMA CreateStep ==
  ASSUME TypeOK, Inv, NEW c \in Cmds, Create(c)
  PROVE  TypeOK' /\ Inv'
<1>1. cmd[c] \in Cmd /\ CmdOK(c) /\ cmd[c].pc = "create" /\ job[c] = NoJob /\ cmd[c].via = "self"
      /\ c \in Proc
  BY ProcIs DEF TypeOK, Inv, CmdOK, Create
<1>2. PICK pc \in {"decide", "done"} : pc = IF cmd[c].op = "prompt" THEN "decide" ELSE "done"
  OBVIOUS
<1>3. PICK i \in Ids : NewSession(c, i, "named", "persistent")
                       /\ cmd' = NotAlone([cmd EXCEPT ![c].id = i, ![c].pc = pc])
  BY <1>2 DEF Create
<1> DEFINE x == [cmd[c] EXCEPT !.id = i, !.pc = pc]
<1>4. x \in Cmd /\ x.op = cmd[c].op /\ x.pc = pc /\ x.id = i /\ x.via = "self"
  BY <1>1 DEF Cmd
<1>5. cmd' = NotAlone([cmd EXCEPT ![c] = x])
  <2>1. [cmd EXCEPT ![c].id = i, ![c].pc = pc] = [cmd EXCEPT ![c] = x]
    BY <1>1 DEF TypeOK, Cmd
  <2> QED
    BY <1>3, <2>1
<1> HIDE DEF x
<1>6. PICK j \in Job : j = NoJob /\ job' = [job EXCEPT ![c] = j]
  BY <1>1, NoJobIs DEF Create, TypeOK
<1>7. cause' = cause /\ cause' \in SUBSET Ids /\ cause \subseteq cause' /\ agent' = agent
  BY <1>3 DEF Create, TypeOK, NewSession
<1>8. /\ TypeOK' /\ Known(i)' /\ KnownStays /\ job'[c] = j
      /\ cmd'[c].op = x.op /\ cmd'[c].pc = x.pc /\ cmd'[c].id = x.id /\ cmd'[c].via = x.via
      /\ JobOK(c)' /\ CmdOK(c)' => Inv'
  <2>1. j.pc \notin {"probe", "save"} /\ (j.pc # "none" => j.id # 0)
    BY <1>6, NoJobIs
  <2>2. "named" \in {"named", "exec"} /\ "persistent" \in {"persistent", "oneshot"}
        /\ "persistent" # "oneshot"
    OBVIOUS
  <2>3. x.op = cmd[c].op /\ x.via = cmd[c].via
    BY <1>1, <1>4
  <2>4. NewSession(c, i, "named", "persistent") /\ cmd[c].pc = "create"
        /\ cmd[c].pc \notin {"waiting", "job", "done"}
    BY <1>1, <1>3
  <2>5. job' = [job EXCEPT ![c] = j] /\ j \in Job
    BY <1>6
  <2> QED
    BY <1>4, <1>5, <1>7, <2>1, <2>2, <2>3, <2>4, <2>5, NewStep, ZenonT(30)
<1>9. JobOK(c)'
  BY <1>6, <1>8, NoJobIs DEF JobOK, Work, CanClose
<1>10. CmdOK(c)'
  BY <1>1, <1>2, <1>4, <1>6, <1>8, ProcIs DEF CmdOK, CanClose
<1> QED
  BY <1>8, <1>9, <1>10

LEMMA ExecStep ==
  ASSUME TypeOK, Inv, NEW c \in Cmds, Exec(c)
  PROVE  TypeOK' /\ Inv'
<1>1. /\ cmd[c] \in Cmd /\ CmdOK(c) /\ cmd[c].pc = "exec" /\ cmd[c].op = "exec" /\ job[c] = NoJob
      /\ cmd[c].via = "self" /\ c \in Proc
  BY ProcIs DEF TypeOK, Inv, CmdOK, Exec
<1>2. PICK i \in Ids : /\ NewSession(c, i, "exec", "oneshot")
                       /\ cmd' = NotAlone([cmd EXCEPT ![c].id = i, ![c].pc = "job"])
                       /\ job' = [job EXCEPT ![c] = Start("prompt", i)]
                       /\ cause' = cause \cup {i}
  BY DEF Exec
<1> DEFINE x == [cmd[c] EXCEPT !.id = i, !.pc = "job"]
<1>3. x \in Cmd /\ x.op = "exec" /\ x.pc = "job" /\ x.id = i /\ x.via = "self"
  BY <1>1 DEF Cmd
<1>4. cmd' = NotAlone([cmd EXCEPT ![c] = x])
  <2>1. [cmd EXCEPT ![c].id = i, ![c].pc = "job"] = [cmd EXCEPT ![c] = x]
    BY <1>1 DEF TypeOK, Cmd
  <2> QED
    BY <1>2, <2>1
<1> HIDE DEF x
<1> DEFINE j == Start("prompt", i)
<1>5. j \in Job /\ j.pc = "load" /\ j.id = i /\ j.copy = None /\ j.fresh /\ j.what = "prompt" /\ i # 0
  BY StartIs, ProcIs DEF Ops
<1>6. job' = [job EXCEPT ![c] = j]
  BY <1>2
<1> HIDE DEF j
<1>7. cause' \in SUBSET Ids /\ cause \subseteq cause' /\ i \in cause' /\ agent' = agent
  BY <1>2 DEF TypeOK, NewSession
<1>8. /\ TypeOK' /\ Known(i)' /\ KnownStays /\ job'[c] = j
      /\ cmd'[c].op = x.op /\ cmd'[c].pc = x.pc /\ cmd'[c].id = x.id /\ cmd'[c].via = x.via
      /\ JobOK(c)' /\ CmdOK(c)' => Inv'
  <2>1. j.pc \notin {"probe", "save"} /\ (j.pc # "none" => j.id # 0)
    BY <1>5
  <2>2. "exec" \in {"named", "exec"} /\ "oneshot" \in {"persistent", "oneshot"} /\ "exec" # "named"
    OBVIOUS
  <2>3. x.op = cmd[c].op /\ x.via = cmd[c].via
    BY <1>1, <1>3
  <2>4. NewSession(c, i, "exec", "oneshot") /\ cmd[c].pc \notin {"waiting", "job", "done"}
    BY <1>1, <1>2
  <2> QED
    BY <1>3, <1>4, <1>5, <1>6, <1>7, <2>1, <2>2, <2>3, <2>4, NewStep
<1>9. Work(c)' = "prompt"
  BY <1>5, <1>8 DEF Work
<1>10. JobOK(c)'
  BY <1>5, <1>7, <1>8, <1>9 DEF JobOK, CanClose, QueueOps
<1>11. CmdOK(c)'
  BY <1>3, <1>5, <1>8, <1>9 DEF CmdOK, CanClose, Tells
<1> QED
  BY <1>8, <1>10, <1>11

LEMMA ImportStep ==
  ASSUME TypeOK, Inv, NEW c \in Cmds, Import(c)
  PROVE  TypeOK' /\ Inv'
<1>1. /\ cmd[c] \in Cmd /\ CmdOK(c) /\ cmd[c].pc = "import" /\ job[c] = NoJob /\ c \in Proc
      /\ cmd[c].via = "self" /\ cmd[c].op \notin CanClose /\ archive # None /\ ArchiveOK
  BY ProcIs DEF TypeOK, Inv, CmdOK, Import
<1>2. UNCHANGED <<agent, archive, own, queue, claimed, lease, crashes, lost, told, late, pruned>>
  BY DEF Import, ownVars
<1>3. \E i \in Ids : \E r \in {archive.record, [archive.record EXCEPT !.key = "named"]} :
        /\ rec' = [rec EXCEPT ![i] = r] /\ job' = Outdated(job, i, c)
        /\ cmd' = NotAlone([cmd EXCEPT ![c].pc = "done"])
        /\ twins' = twins \cup {i} /\ imported' = imported \cup {i}
        /\ cause' = IF archive.id \in cause THEN cause \cup {i} ELSE cause
  BY DEF Import
<1>4. PICK i \in Ids : \E r \in {archive.record, [archive.record EXCEPT !.key = "named"]} :
        /\ rec' = [rec EXCEPT ![i] = r] /\ job' = Outdated(job, i, c)
        /\ cmd' = NotAlone([cmd EXCEPT ![c].pc = "done"])
        /\ twins' = twins \cup {i} /\ imported' = imported \cup {i}
        /\ cause' = IF archive.id \in cause THEN cause \cup {i} ELSE cause
  BY <1>3
<1>5. PICK r \in {archive.record, [archive.record EXCEPT !.key = "named"]} :
        /\ rec' = [rec EXCEPT ![i] = r] /\ job' = Outdated(job, i, c)
        /\ cmd' = NotAlone([cmd EXCEPT ![c].pc = "done"])
        /\ twins' = twins \cup {i} /\ imported' = imported \cup {i}
        /\ cause' = IF archive.id \in cause THEN cause \cup {i} ELSE cause
  BY <1>4
<1>6. /\ r \in Record /\ r # None /\ r.mode = archive.record.mode /\ r.closed = archive.record.closed
      /\ i \in imported' /\ i \in twins' /\ twins \subseteq twins' /\ cause \subseteq cause'
      /\ \A k \in Ids : k # i => (k \in imported' <=> k \in imported)
      /\ cause' \in SUBSET Ids /\ twins' \in SUBSET Ids /\ imported' \in SUBSET Ids /\ pruned' \in SUBSET Ids
  <2>1. r \in Record /\ r.mode = archive.record.mode /\ r.closed = archive.record.closed
    BY <1>1, <1>5 DEF ArchiveOK, Record
  <2>2. /\ i \in imported' /\ i \in twins' /\ twins \subseteq twins' /\ cause \subseteq cause'
        /\ \A k \in Ids : k # i => (k \in imported' <=> k \in imported)
    BY <1>5
  <2>3. cause' \in SUBSET Ids /\ twins' \in SUBSET Ids /\ imported' \in SUBSET Ids /\ pruned' \in SUBSET Ids
    BY <1>2, <1>5 DEF TypeOK
  <2> QED
    BY <2>1, <2>2, <2>3, NoneAssumption
<1>7. agent' # "modes" /\ Blamed(r) => i \in cause'
  BY <1>1, <1>2, <1>5, <1>6 DEF ArchiveOK, Blamed
<1>8. rec' \in [Ids -> Record \cup {None}] /\ rec'[i] = r /\ \A k \in Ids : k # i => rec'[k] = rec[k]
  BY <1>5, <1>6 DEF TypeOK
<1>9. KnownStays /\ Known(i)'
  BY <1>2, <1>6, <1>8 DEF KnownStays, Known
<1>10. Replaces(c, i)
  <2>1. ~Faithful(i)' /\ \A k \in Ids \ {i} : Faithful(k)' <=> Faithful(k)
    BY <1>2, <1>6, <1>8 DEF Faithful
  <2> QED
    BY <1>2, <1>6, <1>8, <1>9, <2>1 DEF Replaces
<1> DEFINE x == [cmd[c] EXCEPT !.pc = "done"]
<1>11. x \in Cmd /\ x.op = cmd[c].op /\ x.pc = "done" /\ x.id = cmd[c].id /\ x.via = cmd[c].via
  BY <1>1 DEF Cmd
<1>12. cmd' = NotAlone([cmd EXCEPT ![c] = x])
  <2>1. [cmd EXCEPT ![c].pc = "done"] = [cmd EXCEPT ![c] = x]
    BY <1>1 DEF TypeOK, Cmd
  <2> QED
    BY <1>5, <2>1
<1> HIDE DEF x
<1>13. /\ cmd' \in [Cmds -> Cmd]
       /\ cmd'[c].op = x.op /\ cmd'[c].pc = x.pc /\ cmd'[c].id = x.id /\ cmd'[c].via = x.via
       /\ \A d \in Cmds : cmd'[d].op = cmd[d].op /\ cmd'[d].via = cmd[d].via
       /\ \A d \in Cmds \ {c} : /\ cmd'[d].pc = cmd[d].pc /\ cmd'[d].id = cmd[d].id
                                /\ cmd'[d].beside = cmd[d].beside
                                /\ ~(cmd'[d].pc = "create" /\ cmd'[d].alone)
  BY <1>11, <1>12, AloneStep
<1>14. \A q \in Proc : /\ job'[q] \in Job
                       /\ job'[q].pc = job[q].pc /\ job'[q].what = job[q].what
                       /\ job'[q].id = job[q].id /\ job'[q].copy = job[q].copy
                       /\ job'[q].fresh => job[q].fresh /\ (q = c \/ job[q].id # i \/ job[q].copy = None)
                       /\ job[q].copy = None => job'[q] = job[q]
  <2>1. job' = Outdated(job, i, c) /\ job \in [Proc -> Job]
    BY <1>5 DEF TypeOK
  <2> QED
    BY <1>1, <2>1, OutdatedIs
<1>15. job' \in [Proc -> Job]
  BY <1>5, <1>14 DEF Outdated
<1>16. OthersGoOn(c, i)
  BY <1>13, <1>14, <1>15 DEF OthersGoOn
<1>17. job'[c] = NoJob
  BY <1>1, <1>14, NoJobIs
<1>18. TypeOK' /\ (JobOK(c)' /\ CmdOK(c)' /\ RecOK(i)' /\ OneOpenSession' => Inv')
  BY <1>1, <1>10, <1>16, <1>17, NoJobIs, RecordStep
<1>19. JobOK(c)'
  BY <1>17, NoJobIs DEF JobOK, Work, CanClose
<1>20. CmdOK(c)'
  BY <1>1, <1>9, <1>11, <1>13, <1>17 DEF CmdOK, CanClose, Cmd, KnownStays
<1>21. RecOK(i)'
  BY <1>6, <1>7, <1>8, <1>9, <1>10 DEF RecOK, Faithful
<1>22. OneOpenSession'
  <2>1. OneOpenSession
    BY DEF Inv
  <2>2. ASSUME NEW a \in OfKey("named")', NEW b \in OfKey("named")', Open(a)', Open(b)', a # b
        PROVE  {a, b} \cap (twins' \cup lost') # {}
    <3>1. a \in Ids /\ b \in Ids
      BY DEF OfKey
    <3>2. CASE a = i \/ b = i
      BY <1>6, <3>2
    <3>3. CASE a # i /\ b # i
      <4>1. a \in OfKey("named") /\ b \in OfKey("named") /\ Open(a) /\ Open(b)
        BY <1>8, <2>2, <3>1, <3>3 DEF OfKey, Open
      <4>2. {a, b} \cap (twins \cup lost) # {}
        BY <2>1, <2>2, <4>1 DEF OneOpenSession
      <4> QED
        BY <1>2, <1>6, <4>2
    <3> QED
      BY <3>2, <3>3
  <2> QED
    BY <2>2 DEF OneOpenSession
<1> QED
  BY <1>18, <1>19, <1>20, <1>21, <1>22

-----------------------------------------------------------------------------
\* The invariant.

LEMMA FirstPcIs ==
  ASSUME NEW op \in Ops
  PROVE  /\ FirstPc(op) \in {"find", "lookup", "exec", "list", "import", "resolve"}
         /\ FirstPc(op) = "lookup" => op = "new"
         /\ FirstPc(op) = "exec" => op = "exec"
         /\ FirstPc(op) # "resolve" => op \notin CanClose
BY DEF FirstPc, Ops, CanClose

LEMMA InitStep ==
  ASSUME Init
  PROVE  TypeOK /\ Inv
<1>1. ASSUME NEW i \in Ids
      PROVE  /\ rec[i] \in Record \cup {None}
             /\ rec[i] # None => ~rec[i].active /\ (agent # "modes" /\ Blamed(rec[i]) => i \in cause)
  BY DEF Init, Blamed
<1>2. rec \in [Ids -> Record \cup {None}]
  BY DEF Init
<1>3. /\ job = [p \in Proc |-> NoJob] /\ own = [i \in Ids |-> Down] /\ queue = [i \in Ids |-> <<>>]
      /\ claimed = [i \in Ids |-> FALSE] /\ lease = [i \in Ids |-> FALSE] /\ crashes = 0 /\ archive = None
      /\ lost = {} /\ told = [i \in Ids |-> {}] /\ twins = {} /\ late = {} /\ pruned = {} /\ imported = {}
      /\ cause \subseteq Ids /\ agent \in {"plain", "modes", "options"}
  BY DEF Init
<1>4. \E ops \in [Cmds -> Ops] :
        cmd = [c \in Cmds |-> [op |-> ops[c], pc |-> FirstPc(ops[c]), id |-> 0, via |-> "self",
                               live |-> FALSE, alone |-> TRUE, beside |-> FALSE, left |-> {}]]
  BY DEF Init
<1>5. PICK ops \in [Cmds -> Ops] :
        cmd = [c \in Cmds |-> [op |-> ops[c], pc |-> FirstPc(ops[c]), id |-> 0, via |-> "self",
                               live |-> FALSE, alone |-> TRUE, beside |-> FALSE, left |-> {}]]
  BY <1>4
<1>6. ASSUME NEW c \in Cmds
      PROVE  /\ cmd[c] \in Cmd /\ cmd[c].id = 0 /\ cmd[c].via = "self"
             /\ cmd[c].pc \in {"find", "lookup", "exec", "list", "import", "resolve"}
             /\ cmd[c].pc = "lookup" => cmd[c].op = "new"
             /\ cmd[c].pc = "exec" => cmd[c].op = "exec"
             /\ cmd[c].pc # "resolve" => cmd[c].op \notin CanClose
  <2>1. ops[c] \in Ops
    OBVIOUS
  <2>2. cmd[c] = [op |-> ops[c], pc |-> FirstPc(ops[c]), id |-> 0, via |-> "self",
                  live |-> FALSE, alone |-> TRUE, beside |-> FALSE, left |-> {}]
    BY <1>5
  <2>3. {} \in SUBSET Ids
    OBVIOUS
  <2> QED
    BY <2>1, <2>2, <2>3, FirstPcIs DEF Cmd
<1>7. cmd \in [Cmds -> Cmd]
  <2>1. cmd = [c \in Cmds |-> cmd[c]]
    BY <1>5
  <2> QED
    BY <1>6, <2>1
<1>8. TypeOK
  <2>1. own \in [Ids -> Owner]
    BY <1>3 DEF Down, Owner
  <2>2. job \in [Proc -> Job] /\ \A p \in Proc : job[p].pc = "none"
    BY <1>3, NoJobIs
  <2>3. queue \in [Ids -> Seq(Cmds)] /\ crashes \in 0..MaxCrashes
    BY <1>3, BoundAssumption
  <2> QED
    BY <1>2, <1>3, <1>7, <2>1, <2>2, <2>3 DEF TypeOK
<1>9. ASSUME NEW p \in Proc PROVE JobOK(p)
  BY <1>3, NoJobIs DEF JobOK, Work, CanClose
<1>10. ASSUME NEW c \in Cmds PROVE CmdOK(c)
  <2>1. job[c] = NoJob
    BY <1>3, ProcIs
  <2> QED
    BY <1>6, <2>1 DEF CmdOK
<1>11. ASSUME NEW i \in Ids PROVE LoopOK(i) /\ RecOK(i) /\ MarkOK(i)
  <2>1. own[i].pc = "down" /\ ~own[i].closeReq /\ queue[i] = <<>> /\ told[i] = {}
    BY <1>3 DEF Down
  <2>2. job[Loop(i)] = NoJob /\ job[Exit(i)] = NoJob
    BY <1>3, ProcIs
  <2> QED
    BY <1>1, <1>3, <2>1, <2>2, NoJobIs DEF LoopOK, RecOK, MarkOK, Faithful
<1>12. ArchiveOK
  BY <1>3 DEF ArchiveOK
<1>13. OneOpenSession
  BY DEF Init, OneOpenSession, OfKey
<1> QED
  BY <1>8, <1>9, <1>10, <1>11, <1>12, <1>13 DEF Inv

LEMMA NextStep ==
  ASSUME TypeOK, Inv, Next
  PROVE  TypeOK' /\ Inv'
<1>1. ASSUME NEW p \in Proc, Load(p) \/ Probe(p) \/ Save(p)
      PROVE  TypeOK' /\ Inv'
  BY <1>1, LoadStep, ProbeStep, SaveStep
<1>2. ASSUME NEW c \in Cmds,
             \/ Lookup(c) \/ Find(c) \/ Create(c) \/ Exec(c) \/ NoAgent(c) \/ Import(c)
             \/ List(c) \/ (\E i \in Ids : Delete(c, i)) \/ Resolve(c) \/ Export(c)
             \/ Enqueue(c) \/ CommandReturns(c) \/ HandlerReturns(c)
      PROVE  TypeOK' /\ Inv'
  BY <1>2, LookupStep, FindStep, CreateStep, ExecStep, NoAgentStep, ImportStep, ListStep, DeleteStep,
     ResolveStep, ExportStep, EnqueueStep, CommandReturnsStep, HandlerReturnsStep
<1>3. ASSUME NEW c \in Cmds,
             \/ RunSetMode(c) \/ RunSetConfig(c) \/ RunClose(c) \/ RunPrompt(c) \/ RunCancel(c)
             \/ HandleSetMode(c) \/ HandleSetConfig(c) \/ HandleClose(c)
      PROVE  TypeOK' /\ Inv'
  <2>1. CASE HandleSetMode(c)
    BY <2>1, HandleStep DEF HandleSetMode
  <2>2. CASE HandleSetConfig(c)
    BY <2>2, HandleStep DEF HandleSetConfig
  <2>3. CASE HandleClose(c)
    BY <2>3, HandleStep DEF HandleClose
  <2> QED
    BY <1>3, <2>1, <2>2, <2>3, RunStep
<1>4. ASSUME NEW i \in Ids,
             \/ Acquire(i) \/ TakeRequest(i) \/ CloseOnLeave(i) \/ IdleExit(i)
             \/ RunRequest(i) \/ TurnSaved(i) \/ SaveRequest(i) \/ NextRound(i)
             \/ LeaveOwner(i) \/ Exited(i) \/ Crash(i)
      PROVE  TypeOK' /\ Inv'
  BY <1>4, LoopActionStep, TurnSavedStep, SaveRequestStep, LeaveOwnerStep, ExitedStep, CrashStep
<1> QED
  BY <1>1, <1>2, <1>3, <1>4 DEF Next

LEMMA Unchanged ==
  ASSUME TypeOK, Inv, UNCHANGED vars
  PROVE  TypeOK' /\ Inv'
<1>1. /\ UNCHANGED <<rec, agent, archive, cmd, job, own, queue, claimed, lease, crashes>>
      /\ UNCHANGED <<lost, told, cause, twins, late, pruned, imported>>
  BY DEF vars, ownVars, history
<1>2. TypeOK'
  BY <1>1 DEF TypeOK
<1>3. RecordsStay
  BY <1>1 DEF RecordsStay, TypeOK
<1>4. \A p \in Proc : JobOK(p)'
  BY <1>1, <1>3, JobStays DEF Inv
<1>5. \A c \in Cmds : CmdOK(c)'
  BY <1>1, <1>3, ProcIs, CmdStays DEF Inv, SameJob
<1>6. ASSUME NEW i \in Ids PROVE LoopOK(i)' /\ RecOK(i)' /\ MarkOK(i)'
  <2>1. LoopOK(i)'
    <3>1. queue[i] \in Seq(Cmds) /\ SameJob(Loop(i)) /\ SameJob(Exit(i))
      BY <1>1 DEF TypeOK, SameJob
    <3>2. \A c \in Cmds : Waits(c, i) => Waits(c, i)' /\ cmd'[c].op = cmd[c].op
      BY <1>1 DEF Waits
    <3> QED
      BY <1>1, <1>3, <3>1, <3>2, LoopStays DEF Inv
  <2>2. RecOK(i)' /\ MarkOK(i)'
    BY <1>1, <1>3, RecStays, MarkStays DEF Inv
  <2> QED
    BY <2>1, <2>2
<1> QED
  BY <1>2, <1>3, <1>4, <1>5, <1>6, RestStays DEF Inv

LEMMA SpecInv == Spec => [](TypeOK /\ Inv)
<1>1. Init => TypeOK /\ Inv
  BY InitStep
<1>2. TypeOK /\ Inv /\ [Next]_vars => (TypeOK /\ Inv)'
  BY NextStep, Unchanged
<1> QED
  BY <1>1, <1>2, PTL DEF Spec

-----------------------------------------------------------------------------
\* A job that is to save has a copy, and works on a record that there is; the records, the
\* commands, the owners and their queues have their types (store.go, manager.go).
THEOREM TypeCorrect == Spec => []TypeOK
<1>1. TypeOK /\ Inv => TypeOK
  OBVIOUS
<1> QED
  BY <1>1, SpecInv, PTL

\* However many commands, owners and crashes there are: a session is closed only after a
\* command that may close it, and no copy that somebody holds says otherwise
\* (RunTurnWithCancelObserved, manager.go:628; CloseSession).
THEOREM ClosesForAReason == Spec => []ClosedForAReason
<1>1. TypeOK /\ Inv => ClosedForAReason
  BY DEF Inv, RecOK, ClosedForAReason, Blamed, Open
<1> QED
  BY <1>1, SpecInv, PTL

\* What set-mode, set and close have told is in the record unless a copy that was loaded
\* before the change has been saved over it: the copies are the only way to lose it
\* (manager.go:639, persistQueuedControlState).
THEOREM KeepsWhatItTold == Spec => []ToldIsKept
<1>1. TypeOK /\ Inv => ToldIsKept
  <2> SUFFICES ASSUME TypeOK, Inv, NEW i \in Ids \ (lost \cup imported), rec[i] # None
               PROVE  \A tag \in told[i] : Shows(tag, rec[i])
    BY DEF ToldIsKept
  <2> QED
    BY DEF Inv, RecOK, Faithful
<1> QED
  BY <1>1, SpecInv, PTL

\* EnsureSession leaves one open session of a name, but for one created beside another or
\* imported, and one that a save of an old copy has reopened (manager.go:345).
THEOREM KeepsOneOpen == Spec => []OneOpenSession
<1>1. TypeOK /\ Inv => OneOpenSession
  BY DEF Inv
<1> QED
  BY <1>1, SpecInv, PTL

\* ActiveRequestID is that of a running request, or of one that the next owner will find
\* running, but after a save of an old copy, an import, or an owner that ended before it
\* could unmark (runInternalOwner).
THEOREM MarksWhatRuns == Spec => []ActiveIsRunning
<1>1. TypeOK /\ Inv => ActiveIsRunning
  BY DEF Inv, MarkOK, ActiveIsRunning, Faithful
<1> QED
  BY <1>1, SpecInv, PTL

\* A pruned session comes back only by an import, or by the save of a copy that was loaded
\* before the prune (PruneClosedSessions).
THEOREM StaysPruned == Spec => []PrunedIsGone
<1>1. TypeOK /\ Inv => PrunedIsGone
  BY DEF Inv, RecOK, PrunedIsGone, TypeOK
<1> QED
  BY <1>1, SpecInv, PTL

-----------------------------------------------------------------------------
\* RuntimeSession implements SessionLife.

\* What a prune has listed stays closed, or is deleted by another, until it is contested.
Prunable(i) == IF rec[i] = None THEN i \in pruned ELSE rec[i].closed \/ i \in lost \cup imported
LeftOK == \A c \in Cmds : \A i \in cmd[c].left : Prunable(i)

\* A step that has to do with one record.
OthersStay(i) ==
  /\ agent' = agent
  /\ \A k \in Ids \ {i} : /\ rec'[k] = rec[k]
                          /\ (k \in lost' <=> k \in lost) /\ (k \in imported' <=> k \in imported)
                          /\ (k \in pruned' <=> k \in pruned)
\* A step that has to do with none.
NoneMoves == UNCHANGED <<rec, agent, lost, imported, pruned>>

LEMMA PutIs ==
  ASSUME NEW i \in Ids, OthersStay(i), told' = told
  PROVE  \A state, tags : state = LifeOf'[i] /\ tags = HasOf'[i] => Session!Put(i, state, tags)
<1>1. \A k \in Ids \ {i} : LifeOf'[k] = LifeOf[k] /\ HasOf'[k] = HasOf[k]
  BY DEF OthersStay, LifeOf, HasOf, Shows
<1>2. LifeOf' = [LifeOf EXCEPT ![i] = LifeOf'[i]] /\ HasOf' = [HasOf EXCEPT ![i] = HasOf'[i]]
  <2>1. LifeOf = [k \in Ids |-> LifeOf[k]] /\ HasOf = [k \in Ids |-> HasOf[k]]
        /\ LifeOf' = [k \in Ids |-> LifeOf'[k]] /\ HasOf' = [k \in Ids |-> HasOf'[k]]
    BY DEF LifeOf, HasOf, Shows
  <2> QED
    BY <1>1, <2>1
<1> QED
  BY <1>2 DEF Session!Put

LEMMA StutterIs ==
  ASSUME NoneMoves, told' = told
  PROVE  [Session!Next]_Session!lifeVars
<1>1. LifeOf' = LifeOf /\ HasOf' = HasOf
  BY DEF NoneMoves, LifeOf, HasOf, Shows
<1> QED
  BY <1>1 DEF Session!lifeVars

\* The save of an operation changes its record, or contests it.
LEMMA SaveRefines ==
  ASSUME TypeOK, Inv, NEW p \in Proc, Save(p)
  PROVE  Session!Next /\ \A k \in Ids : Prunable(k) => Prunable(k)'
<1>1. job[p] \in Job /\ JobOK(p) /\ job[p].pc = "save" /\ job[p].copy \in Record
  BY DEF TypeOK, Inv, JobOK, Save, Job
<1>2. PICK i \in Ids : i = job[p].id /\ Known(i)
  BY <1>1, ProcIs DEF JobOK
<1>3. PICK r \in Record : r = job[p].copy /\ r # None
  BY <1>1, NoneAssumption
<1>4. UNCHANGED <<agent, told, pruned, imported>>
  BY DEF Save
<1>5. PICK s \in Saves(p, r) : rec' = [rec EXCEPT ![i] = s]
  BY <1>2, <1>3 DEF Save
<1>6. job[p].what \in QueueOps \cup {"cancel", "persist", "mark", "unmark"}
  BY <1>1, <1>2, MarkerIs
<1>7. /\ s \in Record /\ s # None /\ (r.closed => s.closed)
      /\ \A tag \in {"close", "mode", "config"} : Shows(tag, r) => Shows(tag, s)
  <2>1. job[p].what = "persist" => cmd[p].op \in Ops
    BY <1>1 DEF JobOK, TypeOK, Cmd
  <2> QED
    BY <1>6, <2>1, SavesIs, NoneAssumption
<1>8. rec'[i] = s /\ \A k \in Ids : k # i => rec'[k] = rec[k]
  BY <1>5 DEF TypeOK
<1>9. lost' = IF job[p].fresh THEN lost ELSE lost \cup {i}
  BY <1>2 DEF Save
<1>10. job[p].fresh => rec[i] = r
  BY <1>1, <1>2, <1>3 DEF JobOK
<1>11. OthersStay(i)
  BY <1>4, <1>8, <1>9 DEF OthersStay
<1>12. \A state, tags : state = LifeOf'[i] /\ tags = HasOf'[i] => Session!Put(i, state, tags)
  BY <1>4, <1>11, PutIs
<1>13. \A tag \in {"close", "mode", "config"} : Shows(tag, r) => Shows(tag, s)
  BY <1>7
<1>14. Session!Next
  <2>1. CASE i \in lost' \cup imported'
    <3>1. LifeOf'[i] = "contested" /\ HasOf'[i] = {}
      BY <2>1 DEF LifeOf, HasOf, Shows
    <3>2. Session!Contest(i)
      BY <1>12, <3>1 DEF Session!Contest
    <3> QED
      BY <3>2 DEF Session!Next
  <2>2. CASE i \notin lost' \cup imported'
    <3>1. job[p].fresh /\ i \notin lost \cup imported /\ rec[i] = r
      BY <1>4, <1>9, <1>10, <2>2
    <3>2. LifeOf[i] = "kept" /\ LifeOf'[i] = "kept"
      BY <1>3, <1>7, <1>8, <2>2, <3>1 DEF LifeOf
    <3>3. HasOf[i] \subseteq HasOf'[i] /\ HasOf'[i] \in SUBSET {"mode", "config", "close"}
      <4>1. /\ rec[i] = r /\ rec'[i] = s /\ r # None /\ s # None /\ agent' = agent
            /\ i \notin lost \cup imported /\ i \notin lost' \cup imported'
        BY <1>3, <1>4, <1>7, <1>8, <2>2, <3>1
      <4>2. HasOf[i] = {tag \in {"mode", "config", "close"} : Shows(tag, r)}
        BY <4>1 DEF HasOf, Shows
      <4>3. HasOf'[i] = {tag \in {"mode", "config", "close"} : Shows(tag, s)}
        BY <4>1 DEF HasOf, Shows
      <4> QED
        BY <1>13, <4>2, <4>3
    <3>4. Session!Put(i, "kept", HasOf'[i])
      BY <1>12, <3>2
    <3>5. Session!Change(i)
      BY <3>2, <3>3, <3>4 DEF Session!Change, Session!Tags
    <3> QED
      BY <3>5 DEF Session!Next
  <2> QED
    BY <2>1, <2>2
<1>15. ASSUME NEW k \in Ids, Prunable(k) PROVE Prunable(k)'
  <2>1. CASE k # i
    BY <1>4, <1>8, <1>9, <1>15, <2>1 DEF Prunable
  <2>2. CASE k = i
    BY <1>3, <1>4, <1>7, <1>8, <1>9, <1>10, <1>15, <2>2 DEF Prunable
  <2> QED
    BY <2>1, <2>2
<1> QED
  BY <1>14, <1>15

\* A session is created under an id that was never used.
LEMMA NewRefines ==
  ASSUME TypeOK, Inv, NEW c \in Cmds, NEW i \in Ids, NEW key \in {"named", "exec"},
         NEW mode \in {"persistent", "oneshot"}, NewSession(c, i, key, mode)
  PROVE  Session!Next /\ \A k \in Ids : Prunable(k) => Prunable(k)'
<1>1. rec[i] = None /\ i \notin pruned \cup imported /\ UNCHANGED <<agent, lost, told, pruned>>
      /\ imported' = imported
  BY DEF NewSession
<1> DEFINE r == [key |-> key, mode |-> mode, closed |-> FALSE, active |-> FALSE, config |-> "unset"]
<1>2. r \in Record /\ ~r.closed
  BY DEF Record, Modes
<1>3. PICK s \in Reported(r) : rec' = [rec EXCEPT ![i] = s]
  BY DEF NewSession
<1> HIDE DEF r
<1>4. s \in Record /\ s # None /\ ~s.closed
  BY <1>2, ReportedIs, NoneAssumption
<1>5. rec'[i] = s /\ \A k \in Ids : k # i => rec'[k] = rec[k]
  BY <1>3 DEF TypeOK
<1>6. OthersStay(i)
  BY <1>1, <1>5 DEF OthersStay
<1>7. \A state, tags : state = LifeOf'[i] /\ tags = HasOf'[i] => Session!Put(i, state, tags)
  BY <1>1, <1>6, PutIs
<1>8. Session!Next
  <2>1. CASE i \in lost
    <3>1. LifeOf'[i] = "contested" /\ HasOf'[i] = {}
      BY <1>1, <2>1 DEF LifeOf, HasOf, Shows
    <3>2. Session!Contest(i)
      BY <1>7, <3>1 DEF Session!Contest
    <3> QED
      BY <3>2 DEF Session!Next
  <2>2. CASE i \notin lost
    <3>1. LifeOf[i] = "absent" /\ LifeOf'[i] = "kept"
      BY <1>1, <1>4, <1>5, <2>2 DEF LifeOf
    <3>2. HasOf'[i] \in SUBSET {"mode", "config", "close"} /\ "close" \notin HasOf'[i]
      BY <1>1, <1>4, <1>5, <2>2 DEF HasOf, Shows
    <3>3. Session!Put(i, "kept", HasOf'[i])
      BY <1>7, <3>1
    <3>4. Session!Create(i)
      BY <3>1, <3>2, <3>3 DEF Session!Create, Session!Tags
    <3> QED
      BY <3>4 DEF Session!Next
  <2> QED
    BY <2>1, <2>2
<1>9. \A k \in Ids : Prunable(k) => Prunable(k)'
  BY <1>1, <1>5 DEF Prunable
<1> QED
  BY <1>8, <1>9

LEMMA ImportRefines ==
  ASSUME TypeOK, Inv, NEW c \in Cmds, Import(c)
  PROVE  Session!Next /\ \A k \in Ids : Prunable(k) => Prunable(k)'
<1>1. UNCHANGED <<agent, lost, told, pruned>>
  BY DEF Import
<1>2. PICK i \in Ids : \E r : rec' = [rec EXCEPT ![i] = r] /\ imported' = imported \cup {i} /\ r # None
  <2>1. archive.record \in Record
    BY DEF Import, Inv, ArchiveOK
  <2>2. [archive.record EXCEPT !.key = "named"] \in Record
    BY <2>1 DEF Record
  <2> QED
    BY <2>1, <2>2, NoneAssumption DEF Import
<1>3. PICK r : rec' = [rec EXCEPT ![i] = r] /\ imported' = imported \cup {i} /\ r # None
  BY <1>2
<1>4. rec'[i] = r /\ \A k \in Ids : k # i => rec'[k] = rec[k]
  BY <1>3 DEF TypeOK
<1>5. OthersStay(i)
  BY <1>1, <1>3, <1>4 DEF OthersStay
<1>6. LifeOf'[i] = "contested" /\ HasOf'[i] = {}
  BY <1>3 DEF LifeOf, HasOf, Shows
<1>7. Session!Contest(i)
  BY <1>1, <1>5, <1>6, PutIs DEF Session!Contest
<1>8. \A k \in Ids : Prunable(k) => Prunable(k)'
  BY <1>1, <1>3, <1>4 DEF Prunable
<1> QED
  BY <1>7, <1>8 DEF Session!Next

\* A prune deletes what it listed long ago: it is closed still, deleted by another prune, or
\* contested.
LEMMA DeleteRefines ==
  ASSUME TypeOK, Inv, LeftOK, NEW c \in Cmds, NEW i \in Ids, Delete(c, i)
  PROVE  [Session!Next]_Session!lifeVars /\ \A k \in Ids : Prunable(k) => Prunable(k)'
<1>1. /\ UNCHANGED <<agent, lost, told, imported>>
      /\ rec' = [rec EXCEPT ![i] = None] /\ pruned' = pruned \cup {i} /\ i \in cmd[c].left
  BY DEF Delete
<1>2. rec'[i] = None /\ \A k \in Ids : k # i => rec'[k] = rec[k]
  BY <1>1 DEF TypeOK
<1>3. OthersStay(i)
  BY <1>1, <1>2 DEF OthersStay
<1>4. \A state, tags : state = LifeOf'[i] /\ tags = HasOf'[i] => Session!Put(i, state, tags)
  BY <1>1, <1>3, PutIs
<1>5. [Session!Next]_Session!lifeVars
  <2>1. CASE i \in lost \cup imported
    <3>1. LifeOf'[i] = "contested" /\ HasOf'[i] = {}
      BY <1>1, <2>1 DEF LifeOf, HasOf, Shows
    <3>2. Session!Contest(i)
      BY <1>4, <3>1 DEF Session!Contest
    <3> QED
      BY <3>2 DEF Session!Next
  <2>2. CASE i \notin lost \cup imported /\ rec[i] # None
    <3>1. rec[i].closed
      BY <1>1, <2>2 DEF LeftOK, Prunable
    <3>2. LifeOf[i] = "kept" /\ "close" \in HasOf[i]
      BY <2>2, <3>1 DEF LifeOf, HasOf, Shows
    <3>3. LifeOf'[i] = "gone" /\ HasOf'[i] = {}
      BY <1>1, <1>2, <2>2 DEF LifeOf, HasOf, Shows
    <3>4. Session!Put(i, "gone", {})
      BY <1>4, <3>3
    <3>5. Session!Prune(i)
      BY <3>2, <3>4 DEF Session!Prune
    <3> QED
      BY <3>5 DEF Session!Next
  <2>3. CASE i \notin lost \cup imported /\ rec[i] = None
    <3>1. i \in pruned
      BY <1>1, <2>3 DEF LeftOK, Prunable
    <3>2. NoneMoves
      <4>1. rec' = rec
        BY <1>1, <2>3 DEF TypeOK
      <4>2. pruned' = pruned
        BY <1>1, <3>1
      <4> QED
        BY <1>1, <4>1, <4>2 DEF NoneMoves
    <3> QED
      BY <1>1, <3>2, StutterIs
  <2> QED
    BY <2>1, <2>2, <2>3
<1>6. \A k \in Ids : Prunable(k) => Prunable(k)'
  BY <1>1, <1>2 DEF Prunable
<1> QED
  BY <1>5, <1>6

\* Who is told of a change finds it in the record.
LEMMA TellRefines ==
  ASSUME NoneMoves, NEW i \in Ids, NEW tags \in SUBSET {"mode", "config", "close"}, Known(i),
         Faithful(i) => \A tag \in tags : Shows(tag, rec[i]),
         told' = [told EXCEPT ![i] = @ \cup tags]
  PROVE  Session!Next
<1>1. LifeOf[i] # "absent"
  BY DEF LifeOf, Known
<1>2. LifeOf[i] = "kept" => tags \subseteq HasOf[i]
  BY DEF LifeOf, HasOf, Faithful, Shows
<1>3. LifeOf' = LifeOf /\ HasOf' = HasOf
  BY DEF NoneMoves, LifeOf, HasOf, Shows
<1>4. Session!Tell(i)
  BY <1>1, <1>2, <1>3 DEF Session!Tell, Session!Tags
<1> QED
  BY <1>4 DEF Session!Next

LEMMA ReturnRefines ==
  ASSUME TypeOK, Inv, NEW c \in Cmds, CommandReturns(c) \/ HandlerReturns(c)
  PROVE  [Session!Next]_Session!lifeVars /\ NoneMoves
<1>1. CmdOK(c) /\ JobOK(c) /\ cmd[c].pc = "job" /\ job[c].pc \in {"ok", "error"}
  BY ProcIs DEF Inv, CommandReturns, HandlerReturns
<1>2. PICK i \in Ids : i = job[c].id /\ Known(i)
  BY <1>1 DEF JobOK
<1>3. NoneMoves /\ IF job[c].pc = "ok" THEN Tell(c, i) ELSE UNCHANGED told
  BY <1>2 DEF CommandReturns, HandlerReturns, NoneMoves
<1>4. CASE job[c].pc # "ok"
  BY <1>3, <1>4, StutterIs
<1>5. CASE job[c].pc = "ok"
  <2> DEFINE tags == Tells(cmd[c].op)
  <2>1. tags \in SUBSET {"mode", "config", "close"} /\ told' = [told EXCEPT ![i] = @ \cup tags]
    BY <1>3, <1>5 DEF Tells, Tell
  <2>2. Faithful(i) => \A tag \in tags : Shows(tag, rec[i])
    BY <1>1, <1>2, <1>5 DEF JobOK, CmdOK
  <2> HIDE DEF tags
  <2> QED
    BY <1>2, <1>3, <2>1, <2>2, TellRefines
<1> QED
  BY <1>3, <1>4, <1>5

LEMMA RequestRefines ==
  ASSUME TypeOK, Inv, NEW i \in Ids, SaveRequest(i)
  PROVE  [Session!Next]_Session!lifeVars /\ NoneMoves
<1>1. /\ LoopOK(i) /\ queue[i] \in Seq(Cmds) /\ queue[i] # <<>> /\ Loop(i) \notin Cmds
      /\ own[i].pc \in {"run", "turned"} /\ job[Loop(i)].pc \in {"ok", "error"} /\ JobOK(Loop(i))
  BY ProcIs DEF TypeOK, Inv, LoopOK, SaveRequest, Returned
<1>2. PICK c \in Cmds : c = Head(queue[i]) /\ Waits(c, i) /\ job[Loop(i)].what = cmd[c].op
  BY <1>1, LeavesQueueIs DEF LoopOK
<1>3. NoneMoves
  BY DEF SaveRequest, NoneMoves
<1>4. Known(i) /\ Work(Loop(i)) = cmd[c].op /\ job[Loop(i)].id = i
  BY <1>1, <1>2 DEF LoopOK, Work, JobOK
<1>5. CASE ~(cmd[c].pc = "waiting" /\ Succeeded(i))
  <2>1. told' = told
    BY <1>2, <1>5 DEF SaveRequest
  <2> QED
    BY <1>3, <2>1, StutterIs
<1>6. CASE cmd[c].pc = "waiting" /\ Succeeded(i)
  <2> DEFINE tags == Tells(cmd[c].op)
  <2>1. tags \in SUBSET {"mode", "config", "close"} /\ told' = [told EXCEPT ![i] = @ \cup tags]
    BY <1>2, <1>6 DEF Tells, SaveRequest
  <2>2. tags \subseteq Changes(cmd[c].op)
    BY <1>2 DEF Tells, Changes, Waits, QueueOps
  <2>3. Faithful(i) => \A tag \in tags : Shows(tag, rec[i])
    BY <1>1, <1>4, <1>6, <2>2 DEF JobOK, Succeeded
  <2> HIDE DEF tags
  <2> QED
    BY <1>3, <1>4, <2>1, <2>3, TellRefines
<1> QED
  BY <1>3, <1>5, <1>6

\* All other steps leave what SessionLife speaks of alone.
Aside ==
  \/ \E p \in Proc : Load(p) \/ Probe(p)
  \/ \E c \in Cmds : \/ Lookup(c) \/ Find(c) \/ NoAgent(c) \/ List(c) \/ Resolve(c) \/ Export(c)
                     \/ RunSetMode(c) \/ RunSetConfig(c) \/ RunClose(c) \/ RunPrompt(c) \/ RunCancel(c)
                     \/ HandleSetMode(c) \/ HandleSetConfig(c) \/ HandleClose(c) \/ Enqueue(c)
  \/ \E i \in Ids : \/ Acquire(i) \/ TakeRequest(i) \/ CloseOnLeave(i) \/ IdleExit(i)
                    \/ RunRequest(i) \/ TurnSaved(i) \/ NextRound(i)
                    \/ LeaveOwner(i) \/ Exited(i) \/ Crash(i)
  \/ UNCHANGED vars

LEMMA AsideRefines ==
  ASSUME Aside
  PROVE  NoneMoves /\ told' = told
<1>1. ASSUME NEW p \in Proc, Load(p) \/ Probe(p)
      PROVE  NoneMoves /\ told' = told
  BY <1>1 DEF Load, Probe, NoneMoves, history
<1>2. ASSUME NEW c \in Cmds,
             \/ Lookup(c) \/ Find(c) \/ NoAgent(c) \/ List(c) \/ Resolve(c) \/ Export(c) \/ Enqueue(c)
      PROVE  NoneMoves /\ told' = told
  BY <1>2 DEF Lookup, Find, NoAgent, List, Resolve, Export, Enqueue, NoneMoves, history
<1>3. ASSUME NEW c \in Cmds,
             \/ RunSetMode(c) \/ RunSetConfig(c) \/ RunClose(c) \/ RunPrompt(c) \/ RunCancel(c)
             \/ HandleSetMode(c) \/ HandleSetConfig(c) \/ HandleClose(c)
      PROVE  NoneMoves /\ told' = told
  BY <1>3 DEF RunSetMode, RunSetConfig, RunClose, RunPrompt, RunCancel, Looks,
              HandleSetMode, HandleSetConfig, HandleClose, Handle, NoneMoves, history
<1>4. ASSUME NEW i \in Ids,
             \/ Acquire(i) \/ TakeRequest(i) \/ CloseOnLeave(i) \/ IdleExit(i)
             \/ RunRequest(i) \/ TurnSaved(i) \/ NextRound(i)
             \/ LeaveOwner(i) \/ Exited(i) \/ Crash(i)
      PROVE  NoneMoves /\ told' = told
  BY <1>4 DEF Acquire, TakeRequest, CloseOnLeave, IdleExit, RunRequest, TurnSaved, NextRound, LeaveOwner,
              Exited, Crash, NoneMoves, history
<1>5. ASSUME UNCHANGED vars PROVE NoneMoves /\ told' = told
  BY <1>5 DEF vars, NoneMoves, history
<1> QED
  BY <1>1, <1>2, <1>3, <1>4, <1>5 DEF Aside

\* What a prune has still to delete grows no more.
LeftStays == \A d \in Cmds : cmd'[d].left \subseteq cmd[d].left

LEMMA LeftStaysOne ==
  ASSUME TypeOK, NEW c \in Cmds,
         \/ Lookup(c) \/ Find(c) \/ NoAgent(c) \/ Resolve(c) \/ Export(c) \/ Enqueue(c)
         \/ RunSetMode(c) \/ RunSetConfig(c) \/ RunClose(c) \/ RunPrompt(c) \/ RunCancel(c)
         \/ HandleSetMode(c) \/ HandleSetConfig(c) \/ HandleClose(c)
         \/ CommandReturns(c) \/ HandlerReturns(c) \/ (\E i \in Ids : Delete(c, i))
  PROVE  LeftStays
<1>1. cmd \in [Cmds -> Cmd] /\ \A d \in Cmds : DOMAIN cmd[d] = DOMAIN cmd[c] /\ "left" \in DOMAIN cmd[d]
  BY DEF TypeOK, Cmd
<1>2. CASE Lookup(c) \/ Find(c) \/ NoAgent(c)
  BY <1>1, <1>2 DEF Lookup, Find, NoAgent, Goto, LeftStays
<1>3. CASE Resolve(c) \/ Export(c)
  BY <1>1, <1>3 DEF Resolve, Export, Goto, LeftStays
<1>4. CASE Enqueue(c)
  BY <1>1, <1>4 DEF Enqueue, Goto, LeftStays
<1>5. CASE \/ RunSetMode(c) \/ RunSetConfig(c) \/ RunClose(c) \/ RunPrompt(c) \/ RunCancel(c)
  <2>1. ASSUME NEW pc, Goto(c, pc) PROVE LeftStays
    BY <1>1, <2>1 DEF Goto, LeftStays
  <2>2. ASSUME NEW status, Self(c, status) PROVE LeftStays
    BY <2>1, <2>2 DEF Self
  <2>3. ASSUME NEW status, ViaOwner(c, status) PROVE LeftStays
    BY <1>1, <2>3 DEF ViaOwner, LeftStays
  <2> QED
    BY <1>5, <2>1, <2>2, <2>3
    DEF RunSetMode, RunSetConfig, RunClose, RunPrompt, RunCancel, Either, SelfOrQueue, SelfOrMark
<1>6. CASE HandleSetMode(c) \/ HandleSetConfig(c) \/ HandleClose(c)
  BY <1>1, <1>6 DEF HandleSetMode, HandleSetConfig, HandleClose, Handle, Goto, LeftStays
<1>7. CASE CommandReturns(c) \/ HandlerReturns(c)
  BY <1>1, <1>7 DEF CommandReturns, HandlerReturns, Goto, LeftStays
<1>8. CASE \E i \in Ids : Delete(c, i)
  <2>1. PICK i \in Ids : cmd' = [cmd EXCEPT ![c].left = @ \ {i},
                                           ![c].pc = IF cmd[c].left = {i} THEN "done" ELSE @]
    BY <1>8 DEF Delete
  <2>2. PICK x : x = [cmd[c] EXCEPT !.left = @ \ {i}, !.pc = IF cmd[c].left = {i} THEN "done" ELSE @]
    OBVIOUS
  <2>3. cmd' = [cmd EXCEPT ![c] = x]
    BY <1>1, <2>1, <2>2
  <2>4. x.left = cmd[c].left \ {i}
    BY <1>1, <2>2
  <2> QED
    BY <1>1, <2>3, <2>4 DEF LeftStays
<1> QED
  BY <1>2, <1>3, <1>4, <1>5, <1>6, <1>7, <1>8

LEMMA LeftStaysMany ==
  ASSUME TypeOK,
         \/ \E c \in Cmds : Create(c) \/ Exec(c) \/ Import(c)
         \/ \E p \in Proc : Load(p) \/ Probe(p) \/ Save(p)
         \/ \E i \in Ids : \/ Acquire(i) \/ TakeRequest(i) \/ CloseOnLeave(i) \/ IdleExit(i)
                           \/ RunRequest(i) \/ TurnSaved(i) \/ SaveRequest(i) \/ NextRound(i)
                           \/ LeaveOwner(i) \/ Exited(i) \/ Crash(i)
         \/ UNCHANGED vars
  PROVE  LeftStays
<1>1. cmd \in [Cmds -> Cmd] /\ \A d \in Cmds : "left" \in DOMAIN cmd[d]
  BY DEF TypeOK, Cmd
<1>2. CASE UNCHANGED cmd
  BY <1>2 DEF LeftStays
<1>3. ASSUME NEW C, Unserved(C) PROVE LeftStays
  BY <1>1, <1>3 DEF Unserved, LeftStays
<1>4. ASSUME NEW c \in Cmds, Create(c) \/ Exec(c) \/ Import(c) PROVE LeftStays
  <2>1. PICK cmds : /\ cmd' = NotAlone(cmds)
                    /\ \A d \in Cmds : "left" \in DOMAIN cmds[d] /\ cmds[d].left = cmd[d].left
    <3>1. CASE Create(c)
      <4>1. PICK i \in Ids : cmd' = NotAlone([cmd EXCEPT ![c].id = i,
                               ![c].pc = IF cmd[c].op = "prompt" THEN "decide" ELSE "done"])
        BY <3>1 DEF Create
      <4> DEFINE cmds == [cmd EXCEPT ![c].id = i, ![c].pc = IF cmd[c].op = "prompt" THEN "decide" ELSE "done"]
      <4>2. \A d \in Cmds : "left" \in DOMAIN cmds[d] /\ cmds[d].left = cmd[d].left
        BY <1>1
      <4> QED
        BY <4>1, <4>2
    <3>2. CASE Exec(c)
      <4>1. PICK i \in Ids : cmd' = NotAlone([cmd EXCEPT ![c].id = i, ![c].pc = "job"])
        BY <3>2 DEF Exec
      <4> DEFINE cmds == [cmd EXCEPT ![c].id = i, ![c].pc = "job"]
      <4>2. \A d \in Cmds : "left" \in DOMAIN cmds[d] /\ cmds[d].left = cmd[d].left
        BY <1>1
      <4> QED
        BY <4>1, <4>2
    <3>3. CASE Import(c)
      <4> DEFINE cmds == [cmd EXCEPT ![c].pc = "done"]
      <4>1. cmd' = NotAlone(cmds)
        BY <3>3 DEF Import
      <4>2. \A d \in Cmds : "left" \in DOMAIN cmds[d] /\ cmds[d].left = cmd[d].left
        BY <1>1
      <4> QED
        BY <4>1, <4>2
    <3> QED
      BY <1>4, <3>1, <3>2, <3>3
  <2>2. ASSUME NEW d \in Cmds PROVE cmd'[d].left = cmd[d].left
    BY <2>1 DEF NotAlone
  <2> QED
    BY <2>2 DEF LeftStays
<1>5. ASSUME NEW p \in Proc, Load(p) \/ Probe(p) \/ Save(p) PROVE LeftStays
  BY <1>2, <1>3, <1>5 DEF Load, Probe, Save, OwnerDies
<1>6. ASSUME NEW i \in Ids,
             \/ Acquire(i) \/ TakeRequest(i) \/ CloseOnLeave(i) \/ IdleExit(i)
             \/ RunRequest(i) \/ TurnSaved(i) \/ NextRound(i) \/ Exited(i) \/ Crash(i)
      PROVE  LeftStays
  BY <1>2, <1>3, <1>6 DEF Acquire, TakeRequest, CloseOnLeave, IdleExit, RunRequest, TurnSaved, NextRound,
                          Exited, Crash, OwnerDies
<1>7. ASSUME NEW i \in Ids, LeaveOwner(i) PROVE LeftStays
  BY <1>1, <1>7 DEF LeaveOwner, LeftStays
<1>8. ASSUME NEW i \in Ids, SaveRequest(i) PROVE LeftStays
  BY <1>1, <1>8 DEF SaveRequest, LeftStays
<1>9. UNCHANGED vars => UNCHANGED cmd
  BY DEF vars
<1> QED
  BY <1>2, <1>4, <1>5, <1>6, <1>7, <1>8, <1>9

\* The records move as SessionLife says, and none that a prune may delete loses its reason.
LEMMA StepRefines ==
  ASSUME TypeOK, Inv, LeftOK, [Next]_vars
  PROVE  [Session!Next]_Session!lifeVars /\ LeftOK'
<1> DEFINE Refines == [Session!Next]_Session!lifeVars /\ \A k \in Ids : Prunable(k) => Prunable(k)'
<1>1. ASSUME NoneMoves PROVE \A k \in Ids : Prunable(k) => Prunable(k)'
  BY <1>1 DEF NoneMoves, Prunable
<1>2. ASSUME Aside PROVE Refines
  BY <1>1, <1>2, AsideRefines, StutterIs
<1>3. ASSUME LeftStays, Refines PROVE LeftOK'
  <2> SUFFICES ASSUME NEW c \in Cmds, NEW i \in cmd'[c].left PROVE Prunable(i)'
    BY DEF LeftOK
  <2>1. i \in cmd[c].left /\ i \in Ids
    BY <1>3 DEF LeftStays, TypeOK, Cmd
  <2> QED
    BY <1>3, <2>1 DEF LeftOK
<1>4. ASSUME NEW p \in Proc, Save(p) PROVE Refines /\ LeftStays
  BY <1>4, SaveRefines, LeftStaysMany
<1>5. ASSUME NEW c \in Cmds, Create(c) \/ Exec(c) \/ Import(c) PROVE Refines /\ LeftStays
  BY <1>5, NewRefines, ImportRefines, LeftStaysMany DEF Create, Exec
<1>6. ASSUME NEW c \in Cmds, NEW i \in Ids, Delete(c, i) PROVE Refines /\ LeftStays
  BY <1>6, DeleteRefines, LeftStaysOne
<1>7. ASSUME NEW c \in Cmds, CommandReturns(c) \/ HandlerReturns(c) PROVE Refines /\ LeftStays
  BY <1>1, <1>7, ReturnRefines, LeftStaysOne
<1>8. ASSUME NEW i \in Ids, SaveRequest(i) PROVE Refines /\ LeftStays
  BY <1>1, <1>8, RequestRefines, LeftStaysMany
<1>9. ASSUME NEW c \in Cmds, List(c) PROVE Refines /\ LeftOK'
  <2>1. NoneMoves /\ Refines
    BY <1>2, <1>9, AsideRefines DEF Aside
  <2>2. PICK S \in SUBSET {i \in Ids : rec[i] # None /\ rec[i].closed} :
          cmd' = [cmd EXCEPT ![c].pc = IF S = {} THEN "done" ELSE "delete", ![c].left = S]
    BY <1>9 DEF List
  <2>3. \A i \in S : Prunable(i)
    BY DEF Prunable
  <2>4. \A d \in Cmds : cmd'[d].left = IF d = c THEN S ELSE cmd[d].left
    <3>1. cmd \in [Cmds -> Cmd] /\ "left" \in DOMAIN cmd[c]
      BY DEF TypeOK, Cmd
    <3> QED
      BY <2>2, <3>1
  <2>5. \A d \in Cmds : cmd'[d].left \subseteq Ids
    BY <2>4 DEF TypeOK, Cmd
  <2> QED
    BY <2>1, <2>3, <2>4, <2>5 DEF LeftOK
<1>10. ASSUME NEW p \in Proc, Load(p) \/ Probe(p) PROVE Refines /\ LeftStays
  BY <1>2, <1>10, LeftStaysMany DEF Aside
<1>11. ASSUME NEW c \in Cmds,
              \/ Lookup(c) \/ Find(c) \/ NoAgent(c) \/ Resolve(c) \/ Export(c) \/ Enqueue(c)
              \/ RunSetMode(c) \/ RunSetConfig(c) \/ RunClose(c) \/ RunPrompt(c) \/ RunCancel(c)
              \/ HandleSetMode(c) \/ HandleSetConfig(c) \/ HandleClose(c)
       PROVE  Refines /\ LeftStays
  <2>1. Aside
    BY <1>11 DEF Aside
  <2>2. LeftStays
    BY <1>11, LeftStaysOne
  <2> QED
    BY <1>2, <2>1, <2>2
<1>12. ASSUME NEW i \in Ids,
              \/ Acquire(i) \/ TakeRequest(i) \/ CloseOnLeave(i) \/ IdleExit(i)
              \/ RunRequest(i) \/ TurnSaved(i) \/ NextRound(i)
              \/ LeaveOwner(i) \/ Exited(i) \/ Crash(i)
       PROVE  Refines /\ LeftStays
  <2>1. Aside
    BY <1>12 DEF Aside
  <2>2. LeftStays
    BY <1>12, LeftStaysMany
  <2> QED
    BY <1>2, <2>1, <2>2
<1>13. ASSUME UNCHANGED vars PROVE Refines /\ LeftStays
  BY <1>2, <1>13, LeftStaysMany DEF Aside
<1>14. Refines /\ (LeftStays \/ LeftOK')
  <2> HIDE DEF Refines
  <2>1. CASE UNCHANGED vars
    BY <1>13, <2>1
  <2>2. CASE Next
    BY <1>4, <1>5, <1>6, <1>7, <1>8, <1>9, <1>10, <1>11, <1>12, <2>2 DEF Next
  <2> QED
    BY <2>1, <2>2
<1> QED
  BY <1>3, <1>14

\* However many commands and owners work on a record side by side, for as long as they like,
\* and whatever owner dies: each operation is one change of the record, no other undoes it,
\* and a prune deletes what is closed, unless an old copy was saved over the record or it was
\* imported (manager.go:592-650, 1015-1060).
THEOREM Implements == Spec => ImplementsSession
<1>1. Init => Session!Init
  <2> SUFFICES ASSUME Init PROVE Session!Init
    OBVIOUS
  <2>1. lost = {} /\ imported = {} /\ pruned = {} /\ told = [i \in Ids |-> {}]
    BY DEF Init
  <2>2. LifeOf \in [Ids -> {"absent", "kept"}] /\ HasOf \in [Ids -> SUBSET {"mode", "config", "close"}]
    BY <2>1 DEF LifeOf, HasOf, Shows
  <2>3. \A i \in Ids : LifeOf[i] = "absent" => HasOf[i] = {}
    BY <2>1 DEF LifeOf, HasOf, Shows
  <2> QED
    BY <2>1, <2>2, <2>3 DEF Session!Init, Session!Tags
<1>2. Init => LeftOK
  BY DEF Init, LeftOK
<1>3. TypeOK /\ Inv /\ LeftOK /\ [Next]_vars => [Session!Next]_Session!lifeVars /\ LeftOK'
  BY StepRefines
<1> QED
  BY <1>1, <1>2, <1>3, SpecInv, PTL DEF Spec, ImplementsSession, Session!SessionSpec
=============================================================================
