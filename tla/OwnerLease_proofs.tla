-------------------------- MODULE OwnerLease_proofs --------------------------
(***************************************************************************)
(* What OwnerLease's runs check on small instances, proved for any sets of *)
(* processes and commands and any staleness bound.                         *)
(***************************************************************************)
EXTENDS OwnerLease, TLAPS

Saving == {"saveIdle", "saveBusy"}
Quiet == HasEnded = {} /\ ~overdue

\* Between the halves of RefreshLease an owner carries a lease with its pid and, if
\* it was not robbed, its own.
RefreshCarriesOwn ==
  \A p \in Proc : pc[p] \in Saving =>
    /\ look[p].kind = "lease" /\ look[p].pid = p
    /\ p \notin robbed => Mine(p, look[p])

\* A lease is only older than StaleTicks once that was recorded.
AgeIsRecorded == ~overdue => ~Stale(file) /\ \A x \in Callers : ~Stale(look[x])

\* The heartbeat of an owner that was not robbed, before and between requests: a
\* tick may pass before the loop is at its ticker, not two.
HeartbeatKept ==
  \A p \in Proc :
    /\ pc[p] = "saveIdle" => look[p].age = 0
    /\ p \notin robbed /\ born[p] < StaleTicks =>
         /\ pc[p] \in Starting => file.age < StaleTicks
         /\ pc[p] = "idle" => IF due[p] THEN file.age <= StaleTicks ELSE file.age < StaleTicks

\* An owner's loop calls ProbeOwner in a request and on the way out only.
LoopCalls == \A p \in Proc : cpc[p] # "ready" => pc[p] \in {"busy", "closing"}

\* A lease that a process may still act upon: its pid is a holder's, and its
\* heartbeat is not stale.
Current(f) == f.kind = "lease" /\ f.pid \in Proc /\ pc[f.pid] \in Holding /\ ~Stale(f)

\* Until a holder ends or is overdue, whoever looked at the lease found it alive:
\* a lease file always belongs to a holder, ...
FileIsHeld == robbed = {} /\ (file.kind # "none" => file.pid \in Proc /\ pc[file.pid] \in Holding)

\* ... a process that lost the race for O_EXCL gives up, ...
ContendersGiveUp ==
  \A p \in Proc : /\ pc[p] = "load" => file.kind # "none"
                  /\ pc[p] = "judge" => Current(look[p])
                  /\ pc[p] # "clear"

\* ... and no caller of ProbeOwner removes a lease.
CallersKeepLease ==
  \A x \in Callers : /\ cpc[x] \in {"judge", "kill"} => Current(look[x])
                     /\ cpc[x] \notin {"clear", "killed"}

\* The socket path, the generation and the lease agree.
LeaseLeads ==
  \A p \in Proc :
    /\ pc[p] \in Holding /\ file.kind = "lease" => file.socket
    /\ pc[p] \in Saving => look[p].socket
    /\ pc[p] \in {"listen", "requeue"} \cup Serving => ipcGen[p] = p
    /\ pc[p] \in {"requeue"} \cup Serving => sock = p

QuietInv == Quiet => FileIsHeld /\ ContendersGiveUp /\ CallersKeepLease /\ LeaseLeads

IInv == /\ TypeOK
        /\ HolderIsNamed
        /\ MixedLeaseMeansRobbed
        /\ RefreshCarriesOwn
        /\ AgeIsRecorded
        /\ HeartbeatKept
        /\ LoopCalls
        /\ QuietInv


-----------------------------------------------------------------------------
(* The values the file takes, field by field: the proofs below use these facts *)
(* and leave the records themselves folded.                                    *)

\* No lease file is nobody's, and never stale.
LEMMA NoFileFacts ==
  /\ NoFile \in LeaseFile
  /\ NoFile.kind = "none" /\ NoFile.pid = Nobody /\ NoFile.age = 0
  /\ \A p : ~Mine(p, NoFile)
BY StaleAssumption DEF NoFile, LeaseFile, Mine

\* The fields of a lease file.
LEMMA LeaseFileFacts ==
  ASSUME NEW f \in LeaseFile
  PROVE  /\ f.kind \in {"none", "torn", "lease"} /\ f.age \in Nat
         /\ f.pid \in Proc \cup {Nobody} /\ f.gen \in Proc \cup {Nobody, ReGen}
         /\ f.socket \in BOOLEAN
BY StaleAssumption DEF LeaseFile

\* The empty file O_EXCL leaves belongs to the process that created it.
LEMMA TornFileFacts ==
  ASSUME NEW p \in Proc
  PROVE  /\ TornFile(p) \in LeaseFile
         /\ TornFile(p).kind = "torn" /\ TornFile(p).pid = p /\ TornFile(p).gen = p
         /\ TornFile(p).age = 0
         /\ Mine(p, TornFile(p))
BY StaleAssumption DEF TornFile, LeaseFile, Mine

\* The payload TryAcquireLease writes is the process's own lease, with the heartbeat
\* it had before the first attempt.
LEMMA NewLeaseFacts ==
  ASSUME TypeOK, NEW p \in Proc
  PROVE  /\ NewLease(p) \in LeaseFile
         /\ NewLease(p).kind = "lease" /\ NewLease(p).pid = p /\ NewLease(p).gen = p
         /\ NewLease(p).age = born[p] /\ NewLease(p).socket
         /\ Mine(p, NewLease(p))
BY StaleAssumption DEF NewLease, LeaseFile, Mine, TypeOK

\* What a prober keeps of a lease is whose it is and how old it is.
LEMMA SeenFacts ==
  ASSUME NEW f \in LeaseFile
  PROVE  /\ Seen(f) \in LeaseFile
         /\ Seen(f).kind = f.kind /\ Seen(f).pid = f.pid /\ Seen(f).age = f.age
BY DEF Seen, LeaseFile

\* Time changes nothing of a lease but its age, by at most one.
LEMMA OlderFacts ==
  ASSUME NEW f \in LeaseFile
  PROVE  /\ Older(f) \in LeaseFile
         /\ Older(f).kind = f.kind /\ Older(f).pid = f.pid /\ Older(f).gen = f.gen
         /\ Older(f).socket = f.socket
         /\ Older(f).age <= f.age + 1
         /\ \A p : Mine(p, Older(f)) <=> Mine(p, f)
BY StaleAssumption DEF Older, Later, LeaseFile, Mine

\* RefreshLease keeps the generation of the lease it read, puts the refresher's pid
\* and makes it fresh.
LEMMA RefreshedFacts ==
  ASSUME NEW p \in Proc, NEW f \in LeaseFile
  PROVE  /\ Refreshed(p, f) \in LeaseFile
         /\ Refreshed(p, f).kind = "lease" /\ Refreshed(p, f).pid = p
         /\ Refreshed(p, f).age = 0 /\ Refreshed(p, f).socket = f.socket
         /\ Mine(p, f) => Mine(p, Refreshed(p, f)) /\ Refreshed(p, f).gen = p
         /\ \A q \in Proc : Mine(q, Refreshed(p, f)) => q = p
BY StaleAssumption DEF Refreshed, LeaseFile, Mine

\* A new file robs exactly the holders whose lease it displaces.
LEMMA WriteFileFacts ==
  ASSUME TypeOK, NEW actor, NEW f \in LeaseFile, WriteFile(actor, f)
  PROVE  /\ file' = f
         /\ robbed' \in SUBSET Proc /\ robbed \subseteq robbed'
         /\ \A q \in Proc : q \in robbed' /\ q \notin robbed =>
              q # actor /\ pc[q] \in Holding /\ Mine(q, file) /\ ~Mine(q, f)
         /\ \A q \in Proc : q # actor /\ pc[q] \in Holding /\ Mine(q, file) /\ q \notin robbed'
              => Mine(q, f)
BY DEF WriteFile, TypeOK

\* What the end of a process changes.
LEMMA EndFacts ==
  ASSUME TypeOK, NEW p \in Proc, NEW w \in Ended, End(p, w)
  PROVE  /\ pc' \in [Proc -> {"new"} \cup Acquiring \cup Holding \cup Ended]
         /\ pc'[p] = w
         /\ \A q \in Proc \ {p} : pc'[q] = pc[q] /\ due'[q] = due[q] /\ ipcGen'[q] = ipcGen[q]
                              /\ born'[q] = born[q]
         /\ born' \in [Proc -> 0 .. StaleTicks + 1]
         /\ attempt' \in [Proc -> 0 .. 1]
         /\ due' \in [Proc -> BOOLEAN]
         /\ ipcGen' \in [Proc -> Proc \cup {Nobody, ReGen}]
         /\ zombie' \in SUBSET Proc
BY StaleAssumption DEF End, TypeOK

\* The first half of RefreshLease moves the process and its copy, nothing else.
LEMMA LoadForRefreshFacts ==
  ASSUME TypeOK, NEW p \in Proc, NEW next \in {"idle", "busy"}, LoadForRefresh(p, next)
  PROVE  /\ pc' \in [Proc -> {"new"} \cup Acquiring \cup Holding \cup Ended]
         /\ look' \in [Callers -> LeaseFile]
         /\ \A q \in Proc \ {p} : pc'[q] = pc[q]
         /\ \A x \in Callers \ {p} : look'[x] = look[x]
         /\ file.kind = "torn" => pc'[p] = next /\ look' = look
         /\ file.kind # "torn" => pc'[p] \in Saving /\ look'[p] = Refreshed(p, file)
BY RefreshedFacts DEF LoadForRefresh, TypeOK, Callers, Holding, Serving, Saving

\* What it carries away is as old as what it carried, or fresh.
LEMMA LoadedFresh ==
  ASSUME TypeOK, NEW p \in Proc, NEW next \in {"idle", "busy"}, LoadForRefresh(p, next)
  PROVE  \A x \in Callers : look'[x] = look[x] \/ look'[x].age = 0
<1>1. file \in LeaseFile
  BY DEF TypeOK
<1>. QED
  BY <1>1, RefreshedFacts, LoadForRefreshFacts

\* The second half of RefreshLease puts its copy in place of the lease.
LEMMA SaveFacts ==
  ASSUME TypeOK, NEW p \in Proc, SaveLease(p)
  PROVE  /\ look[p] \in LeaseFile /\ WriteFile(p, look[p])
         /\ pc' \in [Proc -> {"new"} \cup Acquiring \cup Holding \cup Ended]
         /\ look' \in [Callers -> LeaseFile] /\ born' \in [Proc -> 0 .. StaleTicks + 1]
         /\ \A q \in Proc \ {p} : pc'[q] = pc[q] /\ born'[q] = born[q]
         /\ \A x \in Callers \ {p} : look'[x] = look[x]
         /\ pc[p] \in Saving /\ pc'[p] \in {"idle", "busy"} /\ look'[p] = NoFile /\ born'[p] = 0
         /\ pc[p] = "saveBusy" => pc'[p] = "busy"
         /\ file' = look[p]
         /\ robbed' \in SUBSET Proc /\ robbed \subseteq robbed'
         /\ \A q \in Proc : q \in robbed' /\ q \notin robbed =>
              q # p /\ pc[q] \in Holding /\ Mine(q, file) /\ ~Mine(q, look[p])
         /\ \A q \in Proc : q # p /\ pc[q] \in Holding /\ Mine(q, file) /\ q \notin robbed'
              => Mine(q, look[p])
         /\ UNCHANGED <<sock, attempt, due, ipcGen, zombie, cpc, overdue>>
<1>1. look[p] \in LeaseFile /\ p \in Callers
  BY DEF TypeOK, Callers
<1>2. WriteFile(p, look[p])
  BY DEF SaveLease
<1>3. /\ file' = look[p]
      /\ robbed' \in SUBSET Proc /\ robbed \subseteq robbed'
      /\ \A q \in Proc : q \in robbed' /\ q \notin robbed =>
           q # p /\ pc[q] \in Holding /\ Mine(q, file) /\ ~Mine(q, look[p])
      /\ \A q \in Proc : q # p /\ pc[q] \in Holding /\ Mine(q, file) /\ q \notin robbed'
           => Mine(q, look[p])
  BY <1>1, <1>2, WriteFileFacts
<1>. QED
  BY <1>1, <1>2, <1>3, NoFileFacts, StaleAssumption
     DEF SaveLease, TypeOK, Callers, Holding, Serving, Saving

\* What a caller goes on to kill by is the pid it read.
LEMMA PidOfFacts ==
  ASSUME NEW f \in LeaseFile
  PROVE  /\ PidOf(f) \in LeaseFile
         /\ PidOf(f).kind = f.kind /\ PidOf(f).pid = f.pid /\ PidOf(f).age = 0
BY StaleAssumption DEF PidOf, LeaseFile

\* A judgement changes the caller's place and copy, nothing else.
LEMMA JudgeFacts ==
  ASSUME TypeOK, NEW x \in Callers, ProbeJudge(x)
  PROVE  /\ look' \in [Callers -> LeaseFile]
         /\ \A y \in Callers \ {x} : look'[y] = look[y] /\ cpc'[y] = cpc[y]
         /\ cpc' \in [Callers -> {"ready", "probed"} \cup Calling]
         /\ look'[x] = NoFile \/ look'[x] = PidOf(look[x])
         /\ look'[x].age = 0
         /\ x \in Proc /\ LoopCalls => pc[x] \in {"busy", "closing"}
         /\ UNCHANGED <<file, sock, pc, attempt, born, due, ipcGen, zombie, overdue, robbed>>
BY NoFileFacts, PidOfFacts DEF ProbeJudge, TypeOK, Calling, Probed, LoopCalls, owners

\* Who is killed ends, and forgets what it read.
LEMMA TerminateFacts ==
  ASSUME TypeOK, NEW x \in Callers, TerminateOwner(x)
  PROVE  /\ look' \in [Callers -> LeaseFile]
         /\ \A y \in Callers : look'[y] = look[y] \/ look'[y] = NoFile
         /\ cpc' \in [Callers -> {"ready", "probed"} \cup Calling]
         /\ pc' \in [Proc -> {"new"} \cup Acquiring \cup Holding \cup Ended]
         /\ \A q \in Proc : \/ pc'[q] = pc[q] /\ due'[q] = due[q] /\ ipcGen'[q] = ipcGen[q]
                               /\ born'[q] = born[q]
                            \/ pc'[q] = "gone"
                            \/ pc'[q] = "exited" /\ pc[q] \notin Holding
         /\ UNCHANGED <<file, sock, overdue, robbed>> /\ cpc[x] = "kill"
         /\ \A q \in Proc : pc'[q] = pc[q] /\ pc[q] \notin Ended /\ q # x => look'[q] = look[q]
         /\ attempt' \in [Proc -> 0 .. 1] /\ born' \in [Proc -> 0 .. StaleTicks + 1]
         /\ due' \in [Proc -> BOOLEAN] /\ ipcGen' \in [Proc -> Proc \cup {Nobody, ReGen}]
         /\ zombie' \in SUBSET Proc
<1> DEFINE p == look[x].pid
<1>1. CASE Running(p)
  <2>1. p \in Proc /\ p \in Callers
    BY <1>1 DEF Running, Callers
  <2>2. PICK w \in Ended : End(p, w) /\ (w = "gone" \/ pc[p] \notin Holding)
    BY <1>1 DEF TerminateOwner, Die, Ended
  <2>3. look' = [look EXCEPT ![p] = NoFile, ![x] = NoFile]
    BY <1>1 DEF TerminateOwner
  <2>4. cpc' = [cpc EXCEPT ![p] = "ready", ![x] = "killed"]
    BY <1>1 DEF TerminateOwner
  <2>5. /\ look' \in [Callers -> LeaseFile]
        /\ \A y \in Callers : look'[y] = look[y] \/ look'[y] = NoFile
        /\ \A y \in Callers \ {p, x} : look'[y] = look[y]
    BY <2>1, <2>3, NoFileFacts DEF TypeOK
  <2>6. cpc' \in [Callers -> {"ready", "probed"} \cup Calling]
    BY <2>1, <2>4 DEF TypeOK, Calling
  <2>7. /\ pc' \in [Proc -> {"new"} \cup Acquiring \cup Holding \cup Ended] /\ pc'[p] \in Ended
        /\ pc'[p] = "gone" \/ (pc'[p] = "exited" /\ pc[p] \notin Holding)
        /\ \A q \in Proc \ {p} : pc'[q] = pc[q] /\ due'[q] = due[q] /\ ipcGen'[q] = ipcGen[q]
                              /\ born'[q] = born[q]
        /\ attempt' \in [Proc -> 0 .. 1] /\ born' \in [Proc -> 0 .. StaleTicks + 1]
        /\ due' \in [Proc -> BOOLEAN] /\ ipcGen' \in [Proc -> Proc \cup {Nobody, ReGen}]
        /\ zombie' \in SUBSET Proc
    <3>1. pc'[p] = w
      BY <2>1, <2>2, EndFacts
    <3>. QED
      BY <2>1, <2>2, <3>1, EndFacts DEF Ended
  <2>8. \A q \in Proc : pc'[q] = pc[q] /\ pc[q] \notin Ended /\ q # x => look'[q] = look[q]
    BY <2>5, <2>7 DEF Callers
  <2>9. UNCHANGED <<file, sock, overdue, robbed>> /\ cpc[x] = "kill"
    BY DEF TerminateOwner
  <2>. QED
    BY <2>5, <2>6, <2>7, <2>8, <2>9
<1>2. CASE ~Running(p)
  <2>1. look' = [look EXCEPT ![x] = NoFile] /\ cpc' = [cpc EXCEPT ![x] = "killed"]
        /\ UNCHANGED owners
    BY <1>2 DEF TerminateOwner
  <2>. QED
    BY <2>1, NoFileFacts DEF TypeOK, owners, Calling, Callers, TerminateOwner
<1>. QED
  BY <1>1, <1>2

\* Time makes every heartbeat older and records it where one becomes stale.
LEMMA TickFacts ==
  ASSUME TypeOK, Tick
  PROVE  /\ look' \in [Callers -> LeaseFile]
         /\ \A x \in Callers : /\ look'[x].kind = look[x].kind /\ look'[x].pid = look[x].pid
                               /\ look'[x].gen = look[x].gen /\ look'[x].socket = look[x].socket
                               /\ \A p : Mine(p, look'[x]) <=> Mine(p, look[x])
         /\ due' \in [Proc -> BOOLEAN] /\ born' \in [Proc -> 0 .. StaleTicks + 1]
         /\ \A p \in Proc : pc[p] = "idle" => due'[p] /\ ~due[p] /\ born'[p] = born[p]
         /\ overdue' \in BOOLEAN
         /\ file' = Older(file)
         /\ \A p \in Proc : pc[p] \notin Starting \cup {"saveIdle"}
         /\ UNCHANGED <<sock, pc, attempt, ipcGen, zombie, cpc, robbed>>
         /\ ~overdue' => ~overdue /\ ~Stale(file') /\ \A x \in Callers : ~Stale(look'[x])
<1>1. \A x \in Callers : look[x] \in LeaseFile
  BY DEF TypeOK
<1>2. look' = [x \in Callers |-> IF cpc[x] = "kill" THEN look[x] ELSE Older(look[x])]
  BY DEF Tick
<1>3. /\ look' \in [Callers -> LeaseFile]
      /\ \A x \in Callers : /\ look'[x].kind = look[x].kind /\ look'[x].pid = look[x].pid
                            /\ look'[x].gen = look[x].gen /\ look'[x].socket = look[x].socket
                            /\ \A p : Mine(p, look'[x]) <=> Mine(p, look[x])
  BY <1>1, <1>2, OlderFacts
<1>4. born' \in [Proc -> 0 .. StaleTicks + 1]
  BY StaleAssumption DEF Tick, TypeOK, Later
<1>5. due' = [p \in Proc |-> pc[p] \in Serving \ {"closing"}]
  BY DEF Tick
<1>7. \A p \in Proc : pc[p] = "idle" => due'[p] /\ ~due[p]
  BY <1>5 DEF Tick, Serving
<1>8. \A p \in Proc : pc[p] = "idle" => born'[p] = born[p]
  BY DEF Tick, Acquiring
<1>9. due' \in [Proc -> BOOLEAN]
  BY <1>5
<1>6. overdue' = (overdue \/ Stale(file') \/ \E x \in Callers : Stale(look'[x]))
  BY DEF Tick
<1>. QED
  BY <1>3, <1>4, <1>6, <1>7, <1>8, <1>9 DEF TypeOK, Tick

\* A lease in force before a step is in force after it, as long as no holder ends.
LEMMA QuietKept ==
  ASSUME TypeOK, [Next]_vars, Quiet'
  PROVE  Quiet /\ \A q \in Proc : pc[q] \in Holding => pc'[q] \in Holding
<1> USE DEF Callers, Calling, Probed, TypeOK, Quiet, HasEnded, Acquiring, Holding, Serving, Starting, Saving, Ended, owners
<1>1. ASSUME NEW p \in Proc, OpenLease(p) PROVE (Quiet /\ \A q \in Proc : pc[q] \in Holding => pc'[q] \in Holding)
  BY <1>1, TornFileFacts, WriteFileFacts, LeaseFileFacts DEF OpenLease
<1>2. ASSUME NEW p \in Proc, WriteLease(p) PROVE (Quiet /\ \A q \in Proc : pc[q] \in Holding => pc'[q] \in Holding)
  BY <1>2, NewLeaseFacts, WriteFileFacts, LeaseFileFacts DEF WriteLease
<1>3. ASSUME NEW p \in Proc, WriteFails(p) PROVE (Quiet /\ \A q \in Proc : pc[q] \in Holding => pc'[q] \in Holding)
  BY <1>3, NoFileFacts, WriteFileFacts, EndFacts, LeaseFileFacts DEF WriteFails
<1>4. ASSUME NEW p \in Proc, LoadExisting(p) PROVE (Quiet /\ \A q \in Proc : pc[q] \in Holding => pc'[q] \in Holding)
  BY <1>4, SeenFacts, EndFacts, LeaseFileFacts DEF LoadExisting
<1>5. ASSUME NEW p \in Proc, JudgeExisting(p) PROVE (Quiet /\ \A q \in Proc : pc[q] \in Holding => pc'[q] \in Holding)
  BY <1>5, NoFileFacts, EndFacts, LeaseFileFacts DEF JudgeExisting
<1>6. ASSUME NEW p \in Proc, ClearExisting(p) PROVE (Quiet /\ \A q \in Proc : pc[q] \in Holding => pc'[q] \in Holding)
  BY <1>6, NoFileFacts, WriteFileFacts, EndFacts, LeaseFileFacts DEF ClearExisting
<1>7. ASSUME NEW p \in Proc, ReadGeneration(p) PROVE (Quiet /\ \A q \in Proc : pc[q] \in Holding => pc'[q] \in Holding)
  BY <1>7, LeaseFileFacts DEF ReadGeneration
<1>8. ASSUME NEW p \in Proc, StartServer(p) PROVE (Quiet /\ \A q \in Proc : pc[q] \in Holding => pc'[q] \in Holding)
  BY <1>8, LeaseFileFacts DEF StartServer
<1>9. ASSUME NEW p \in Proc, StartFails(p) PROVE (Quiet /\ \A q \in Proc : pc[q] \in Holding => pc'[q] \in Holding)
  BY <1>9, NoFileFacts, WriteFileFacts, EndFacts, LeaseFileFacts DEF StartFails
<1>10. ASSUME NEW p \in Proc, EnterLoop(p) PROVE (Quiet /\ \A q \in Proc : pc[q] \in Holding => pc'[q] \in Holding)
  BY <1>10, LeaseFileFacts DEF EnterLoop
<1>11. ASSUME NEW p \in Proc, RequeueFails(p) PROVE (Quiet /\ \A q \in Proc : pc[q] \in Holding => pc'[q] \in Holding)
  BY <1>11, EndFacts, LeaseFileFacts DEF RequeueFails
<1>12. ASSUME NEW p \in Proc, Heartbeat(p) PROVE (Quiet /\ \A q \in Proc : pc[q] \in Holding => pc'[q] \in Holding)
  BY <1>12, RefreshedFacts, LoadForRefreshFacts, LeaseFileFacts DEF Heartbeat
<1>13. ASSUME NEW p \in Proc, BeginRequest(p) PROVE (Quiet /\ \A q \in Proc : pc[q] \in Holding => pc'[q] \in Holding)
  BY <1>13, RefreshedFacts, LoadForRefreshFacts, LeaseFileFacts DEF BeginRequest
<1>14. ASSUME NEW p \in Proc, FinishRequest(p) PROVE (Quiet /\ \A q \in Proc : pc[q] \in Holding => pc'[q] \in Holding)
  BY <1>14, RefreshedFacts, LoadForRefreshFacts, LeaseFileFacts DEF FinishRequest
<1>15. ASSUME NEW p \in Proc, SaveLease(p) PROVE (Quiet /\ \A q \in Proc : pc[q] \in Holding => pc'[q] \in Holding)
  BY <1>15, NoFileFacts, SaveFacts, LeaseFileFacts
<1>16. ASSUME NEW p \in Proc, BeginClosing(p) PROVE (Quiet /\ \A q \in Proc : pc[q] \in Holding => pc'[q] \in Holding)
  BY <1>16, LeaseFileFacts DEF BeginClosing
<1>17. ASSUME NEW p \in Proc, CloseServer(p) PROVE (Quiet /\ \A q \in Proc : pc[q] \in Holding => pc'[q] \in Holding)
  BY <1>17, LeaseFileFacts DEF CloseServer
<1>18. ASSUME NEW p \in Proc, ReleaseLease(p) PROVE (Quiet /\ \A q \in Proc : pc[q] \in Holding => pc'[q] \in Holding)
  BY <1>18, NoFileFacts, WriteFileFacts, EndFacts, LeaseFileFacts DEF ReleaseLease
<1>19. ASSUME NEW p \in Proc, Crash(p) PROVE (Quiet /\ \A q \in Proc : pc[q] \in Holding => pc'[q] \in Holding)
  <2>1. CASE pc[p] \in Holding
    <3>1. End(p, "gone")
      BY <1>19, <2>1 DEF Crash, Die
    <3>2. pc'[p] = "gone"
      BY <3>1, EndFacts
    <3>. QED
      BY <3>2
  <2>2. CASE pc[p] \notin Holding
    <3>1. End(p, "exited") /\ overdue' = overdue
      BY <1>19, <2>2 DEF Crash, Die
    <3>. QED
      BY <1>19, <2>2, <3>1, EndFacts DEF Crash, Die, Running
  <2>. QED
    BY <2>1, <2>2
<1>20. ASSUME NEW p \in Proc, Reap(p) PROVE (Quiet /\ \A q \in Proc : pc[q] \in Holding => pc'[q] \in Holding)
  BY <1>20, LeaseFileFacts DEF Reap
<1>21. ASSUME NEW x \in Callers, ProbeLoad(x) PROVE (Quiet /\ \A q \in Proc : pc[q] \in Holding => pc'[q] \in Holding)
  BY <1>21, NoFileFacts, SeenFacts, CliAssumption, NamesAssumption, LeaseFileFacts DEF ProbeLoad
<1>22. ASSUME NEW x \in Callers, ProbeJudge(x) PROVE (Quiet /\ \A q \in Proc : pc[q] \in Holding => pc'[q] \in Holding)
  BY <1>22, JudgeFacts, PidOfFacts, NoFileFacts, CliAssumption, NamesAssumption, LeaseFileFacts
<1>23. ASSUME NEW x \in Callers, ProbeClear(x) PROVE (Quiet /\ \A q \in Proc : pc[q] \in Holding => pc'[q] \in Holding)
  BY <1>23, NoFileFacts, WriteFileFacts, CliAssumption, NamesAssumption, LeaseFileFacts DEF ProbeClear
<1>24. ASSUME NEW c \in Cli, ProbeDone(c) PROVE (Quiet /\ \A q \in Proc : pc[q] \in Holding => pc'[q] \in Holding)
  BY <1>24, CliAssumption, NamesAssumption, LeaseFileFacts DEF ProbeDone
<1>25. ASSUME NEW x \in Callers, TerminateOwner(x) PROVE (Quiet /\ \A q \in Proc : pc[q] \in Holding => pc'[q] \in Holding)
  <2> DEFINE p == look[x].pid
  <2>1. CASE Running(p)
    BY <1>25, <2>1, NoFileFacts, EndFacts, CliAssumption, NamesAssumption, LeaseFileFacts DEF TerminateOwner, Die, Running
  <2>2. CASE ~Running(p)
    BY <1>25, <2>2, NoFileFacts, CliAssumption, NamesAssumption, LeaseFileFacts DEF TerminateOwner
  <2>. QED
    BY <2>1, <2>2
<1>26. ASSUME NEW x \in Callers, ClearKilled(x) PROVE (Quiet /\ \A q \in Proc : pc[q] \in Holding => pc'[q] \in Holding)
  BY <1>26, NoFileFacts, WriteFileFacts, CliAssumption, NamesAssumption, LeaseFileFacts DEF ClearKilled
<1>27. ASSUME NEW c \in Cli, NEW p \in Proc, SpawnOwner(c, p) PROVE (Quiet /\ \A q \in Proc : pc[q] \in Holding => pc'[q] \in Holding)
  BY <1>27, CliAssumption, NamesAssumption, LeaseFileFacts DEF SpawnOwner
<1>28. ASSUME Tick PROVE (Quiet /\ \A q \in Proc : pc[q] \in Holding => pc'[q] \in Holding)
  BY <1>28, TickFacts, OlderFacts, LeaseFileFacts
<1>29. ASSUME UNCHANGED vars PROVE (Quiet /\ \A q \in Proc : pc[q] \in Holding => pc'[q] \in Holding)
  BY <1>29, LeaseFileFacts DEF vars
<1>30. ASSUME NEW x \in Callers, Probe(x) PROVE (Quiet /\ \A q \in Proc : pc[q] \in Holding => pc'[q] \in Holding)
  BY <1>30, <1>21, <1>22, <1>23, <1>25, <1>26 DEF Probe
<1>31. Proc \subseteq Callers /\ Cli \subseteq Callers
  OBVIOUS
<1>. QED
  BY <1>1, <1>2, <1>3, <1>4, <1>5, <1>6, <1>7, <1>8, <1>9, <1>10, <1>11, <1>12, <1>13,
     <1>14, <1>15, <1>16, <1>17, <1>18, <1>19, <1>20, <1>24, <1>27, <1>28, <1>29, <1>30,
     <1>31 DEF Next, Acquire, Start, Serve, Leave, Command

\* No action leads out of the types.
LEMMA TypeStep ==
  ASSUME TypeOK, [Next]_vars
  PROVE  TypeOK'
<1> USE DEF Callers, Calling, Probed, TypeOK, Acquiring, Holding, Serving, Starting, Ended, owners
<1>1. ASSUME NEW p \in Proc, OpenLease(p) PROVE TypeOK'
  BY <1>1, TornFileFacts, WriteFileFacts, LeaseFileFacts DEF OpenLease
<1>2. ASSUME NEW p \in Proc, WriteLease(p) PROVE TypeOK'
  BY <1>2, NewLeaseFacts, WriteFileFacts, LeaseFileFacts DEF WriteLease
<1>3. ASSUME NEW p \in Proc, WriteFails(p) PROVE TypeOK'
  BY <1>3, NoFileFacts, WriteFileFacts, EndFacts, LeaseFileFacts DEF WriteFails
<1>4. ASSUME NEW p \in Proc, LoadExisting(p) PROVE TypeOK'
  BY <1>4, SeenFacts, EndFacts, LeaseFileFacts DEF LoadExisting
<1>5. ASSUME NEW p \in Proc, JudgeExisting(p) PROVE TypeOK'
  BY <1>5, NoFileFacts, EndFacts, LeaseFileFacts DEF JudgeExisting
<1>6. ASSUME NEW p \in Proc, ClearExisting(p) PROVE TypeOK'
  BY <1>6, NoFileFacts, WriteFileFacts, EndFacts, LeaseFileFacts DEF ClearExisting
<1>7. ASSUME NEW p \in Proc, ReadGeneration(p) PROVE TypeOK'
  BY <1>7, NamesAssumption, LeaseFileFacts DEF ReadGeneration, LeaseFile
<1>8. ASSUME NEW p \in Proc, StartServer(p) PROVE TypeOK'
  BY <1>8, LeaseFileFacts DEF StartServer
<1>9. ASSUME NEW p \in Proc, StartFails(p) PROVE TypeOK'
  BY <1>9, NoFileFacts, WriteFileFacts, EndFacts, LeaseFileFacts DEF StartFails
<1>10. ASSUME NEW p \in Proc, EnterLoop(p) PROVE TypeOK'
  BY <1>10, LeaseFileFacts DEF EnterLoop
<1>11. ASSUME NEW p \in Proc, RequeueFails(p) PROVE TypeOK'
  BY <1>11, EndFacts, LeaseFileFacts DEF RequeueFails
<1>12. ASSUME NEW p \in Proc, Heartbeat(p) PROVE TypeOK'
  BY <1>12, RefreshedFacts, LoadForRefreshFacts, LeaseFileFacts DEF Heartbeat
<1>13. ASSUME NEW p \in Proc, BeginRequest(p) PROVE TypeOK'
  BY <1>13, RefreshedFacts, LoadForRefreshFacts, LeaseFileFacts DEF BeginRequest
<1>14. ASSUME NEW p \in Proc, FinishRequest(p) PROVE TypeOK'
  BY <1>14, RefreshedFacts, LoadForRefreshFacts, LeaseFileFacts DEF FinishRequest
<1>15. ASSUME NEW p \in Proc, SaveLease(p) PROVE TypeOK'
  BY <1>15, NoFileFacts, SaveFacts, LeaseFileFacts
<1>16. ASSUME NEW p \in Proc, BeginClosing(p) PROVE TypeOK'
  BY <1>16, LeaseFileFacts DEF BeginClosing
<1>17. ASSUME NEW p \in Proc, CloseServer(p) PROVE TypeOK'
  BY <1>17, LeaseFileFacts DEF CloseServer
<1>18. ASSUME NEW p \in Proc, ReleaseLease(p) PROVE TypeOK'
  BY <1>18, NoFileFacts, WriteFileFacts, EndFacts, LeaseFileFacts DEF ReleaseLease
<1>19. ASSUME NEW p \in Proc, Crash(p) PROVE TypeOK'
  BY <1>19, NoFileFacts, EndFacts, LeaseFileFacts DEF Crash, Die
<1>20. ASSUME NEW p \in Proc, Reap(p) PROVE TypeOK'
  BY <1>20, LeaseFileFacts DEF Reap
<1>21. ASSUME NEW x \in Callers, ProbeLoad(x) PROVE TypeOK'
  BY <1>21, NoFileFacts, SeenFacts, CliAssumption, NamesAssumption, LeaseFileFacts DEF ProbeLoad
<1>22. ASSUME NEW x \in Callers, ProbeJudge(x) PROVE TypeOK'
  BY <1>22, JudgeFacts, PidOfFacts, NoFileFacts, CliAssumption, NamesAssumption, LeaseFileFacts
<1>23. ASSUME NEW x \in Callers, ProbeClear(x) PROVE TypeOK'
  BY <1>23, NoFileFacts, WriteFileFacts, CliAssumption, NamesAssumption, LeaseFileFacts DEF ProbeClear
<1>24. ASSUME NEW c \in Cli, ProbeDone(c) PROVE TypeOK'
  BY <1>24, CliAssumption, NamesAssumption, LeaseFileFacts DEF ProbeDone
<1>25. ASSUME NEW x \in Callers, TerminateOwner(x) PROVE TypeOK'
  BY <1>25, TerminateFacts, NoFileFacts, LeaseFileFacts, StaleAssumption
<1>26. ASSUME NEW x \in Callers, ClearKilled(x) PROVE TypeOK'
  BY <1>26, NoFileFacts, WriteFileFacts, CliAssumption, NamesAssumption, LeaseFileFacts DEF ClearKilled
<1>27. ASSUME NEW c \in Cli, NEW p \in Proc, SpawnOwner(c, p) PROVE TypeOK'
  BY <1>27, CliAssumption, NamesAssumption, LeaseFileFacts DEF SpawnOwner
<1>28. ASSUME Tick PROVE TypeOK'
  BY <1>28, TickFacts, OlderFacts, LeaseFileFacts
<1>29. ASSUME UNCHANGED vars PROVE TypeOK'
  BY <1>29, LeaseFileFacts DEF vars
<1>30. ASSUME NEW x \in Callers, Probe(x) PROVE TypeOK'
  BY <1>30, <1>21, <1>22, <1>23, <1>25, <1>26 DEF Probe
<1>31. Proc \subseteq Callers /\ Cli \subseteq Callers
  OBVIOUS
<1>. QED
  BY <1>1, <1>2, <1>3, <1>4, <1>5, <1>6, <1>7, <1>8, <1>9, <1>10, <1>11, <1>12, <1>13,
     <1>14, <1>15, <1>16, <1>17, <1>18, <1>19, <1>20, <1>24, <1>27, <1>28, <1>29, <1>30,
     <1>31 DEF Next, Acquire, Start, Serve, Leave, Command

\* Only a robbery ends the ownership that O_EXCL began.
LEMMA HolderStep ==
  ASSUME TypeOK, HolderIsNamed, RefreshCarriesOwn, [Next]_vars
  PROVE  HolderIsNamed'
<1> USE DEF Callers, Calling, Probed, TypeOK, Acquiring, Holding, Serving, Starting, Ended, owners, HolderIsNamed,
     Mine, Saving, RefreshCarriesOwn
<1>1. ASSUME NEW p \in Proc, OpenLease(p) PROVE HolderIsNamed'
  BY <1>1, TornFileFacts, WriteFileFacts, LeaseFileFacts DEF OpenLease
<1>2. ASSUME NEW p \in Proc, WriteLease(p) PROVE HolderIsNamed'
  BY <1>2, NewLeaseFacts, WriteFileFacts, LeaseFileFacts DEF WriteLease
<1>3. ASSUME NEW p \in Proc, WriteFails(p) PROVE HolderIsNamed'
  BY <1>3, NoFileFacts, WriteFileFacts, EndFacts, LeaseFileFacts DEF WriteFails
<1>4. ASSUME NEW p \in Proc, LoadExisting(p) PROVE HolderIsNamed'
  BY <1>4, SeenFacts, EndFacts, LeaseFileFacts DEF LoadExisting
<1>5. ASSUME NEW p \in Proc, JudgeExisting(p) PROVE HolderIsNamed'
  BY <1>5, NoFileFacts, EndFacts, LeaseFileFacts DEF JudgeExisting
<1>6. ASSUME NEW p \in Proc, ClearExisting(p) PROVE HolderIsNamed'
  BY <1>6, NoFileFacts, WriteFileFacts, EndFacts, LeaseFileFacts DEF ClearExisting
<1>7. ASSUME NEW p \in Proc, ReadGeneration(p) PROVE HolderIsNamed'
  BY <1>7, LeaseFileFacts DEF ReadGeneration
<1>8. ASSUME NEW p \in Proc, StartServer(p) PROVE HolderIsNamed'
  BY <1>8, LeaseFileFacts DEF StartServer
<1>9. ASSUME NEW p \in Proc, StartFails(p) PROVE HolderIsNamed'
  BY <1>9, NoFileFacts, WriteFileFacts, EndFacts, LeaseFileFacts DEF StartFails
<1>10. ASSUME NEW p \in Proc, EnterLoop(p) PROVE HolderIsNamed'
  BY <1>10, LeaseFileFacts DEF EnterLoop
<1>11. ASSUME NEW p \in Proc, RequeueFails(p) PROVE HolderIsNamed'
  BY <1>11, EndFacts, LeaseFileFacts DEF RequeueFails
<1>12. ASSUME NEW p \in Proc, Heartbeat(p) PROVE HolderIsNamed'
  BY <1>12, RefreshedFacts, LoadForRefreshFacts, LeaseFileFacts DEF Heartbeat
<1>13. ASSUME NEW p \in Proc, BeginRequest(p) PROVE HolderIsNamed'
  BY <1>13, RefreshedFacts, LoadForRefreshFacts, LeaseFileFacts DEF BeginRequest
<1>14. ASSUME NEW p \in Proc, FinishRequest(p) PROVE HolderIsNamed'
  BY <1>14, RefreshedFacts, LoadForRefreshFacts, LeaseFileFacts DEF FinishRequest
<1>15. ASSUME NEW p \in Proc, SaveLease(p) PROVE HolderIsNamed'
  BY <1>15, NoFileFacts, SaveFacts, LeaseFileFacts
<1>16. ASSUME NEW p \in Proc, BeginClosing(p) PROVE HolderIsNamed'
  BY <1>16, LeaseFileFacts DEF BeginClosing
<1>17. ASSUME NEW p \in Proc, CloseServer(p) PROVE HolderIsNamed'
  BY <1>17, LeaseFileFacts DEF CloseServer
<1>18. ASSUME NEW p \in Proc, ReleaseLease(p) PROVE HolderIsNamed'
  BY <1>18, NoFileFacts, WriteFileFacts, EndFacts, LeaseFileFacts DEF ReleaseLease
<1>19. ASSUME NEW p \in Proc, Crash(p) PROVE HolderIsNamed'
  BY <1>19, NoFileFacts, EndFacts, LeaseFileFacts DEF Crash, Die
<1>20. ASSUME NEW p \in Proc, Reap(p) PROVE HolderIsNamed'
  BY <1>20, LeaseFileFacts DEF Reap
<1>21. ASSUME NEW x \in Callers, ProbeLoad(x) PROVE HolderIsNamed'
  BY <1>21, NoFileFacts, SeenFacts, CliAssumption, NamesAssumption, LeaseFileFacts DEF ProbeLoad
<1>22. ASSUME NEW x \in Callers, ProbeJudge(x) PROVE HolderIsNamed'
  BY <1>22, JudgeFacts, PidOfFacts, NoFileFacts, CliAssumption, NamesAssumption, LeaseFileFacts
<1>23. ASSUME NEW x \in Callers, ProbeClear(x) PROVE HolderIsNamed'
  BY <1>23, NoFileFacts, WriteFileFacts, CliAssumption, NamesAssumption, LeaseFileFacts DEF ProbeClear
<1>24. ASSUME NEW c \in Cli, ProbeDone(c) PROVE HolderIsNamed'
  BY <1>24, CliAssumption, NamesAssumption, LeaseFileFacts DEF ProbeDone
<1>25. ASSUME NEW x \in Callers, TerminateOwner(x) PROVE HolderIsNamed'
  BY <1>25, TerminateFacts, NoFileFacts, LeaseFileFacts, StaleAssumption
<1>26. ASSUME NEW x \in Callers, ClearKilled(x) PROVE HolderIsNamed'
  BY <1>26, NoFileFacts, WriteFileFacts, CliAssumption, NamesAssumption, LeaseFileFacts DEF ClearKilled
<1>27. ASSUME NEW c \in Cli, NEW p \in Proc, SpawnOwner(c, p) PROVE HolderIsNamed'
  BY <1>27, CliAssumption, NamesAssumption, LeaseFileFacts DEF SpawnOwner
<1>28. ASSUME Tick PROVE HolderIsNamed'
  BY <1>28, TickFacts, OlderFacts, LeaseFileFacts
<1>29. ASSUME UNCHANGED vars PROVE HolderIsNamed'
  BY <1>29, LeaseFileFacts DEF vars
<1>30. ASSUME NEW x \in Callers, Probe(x) PROVE HolderIsNamed'
  BY <1>30, <1>21, <1>22, <1>23, <1>25, <1>26 DEF Probe
<1>31. Proc \subseteq Callers /\ Cli \subseteq Callers
  OBVIOUS
<1>. QED
  BY <1>1, <1>2, <1>3, <1>4, <1>5, <1>6, <1>7, <1>8, <1>9, <1>10, <1>11, <1>12, <1>13,
     <1>14, <1>15, <1>16, <1>17, <1>18, <1>19, <1>20, <1>24, <1>27, <1>28, <1>29, <1>30,
     <1>31 DEF Next, Acquire, Start, Serve, Leave, Command

\* The copy RefreshLease carries stays that of the owner, unless it is robbed.
LEMMA RefreshStep ==
  ASSUME TypeOK, HolderIsNamed, RefreshCarriesOwn, LoopCalls, [Next]_vars
  PROVE  RefreshCarriesOwn'
<1> USE DEF LoopCalls, Callers, Calling, Probed, TypeOK, Acquiring, Holding, Serving, Starting, Ended, owners,
     RefreshCarriesOwn, Mine, Saving, HolderIsNamed
<1>1. ASSUME NEW p \in Proc, OpenLease(p) PROVE RefreshCarriesOwn'
  BY <1>1, TornFileFacts, WriteFileFacts, LeaseFileFacts DEF OpenLease
<1>2. ASSUME NEW p \in Proc, WriteLease(p) PROVE RefreshCarriesOwn'
  BY <1>2, NewLeaseFacts, WriteFileFacts, LeaseFileFacts DEF WriteLease
<1>3. ASSUME NEW p \in Proc, WriteFails(p) PROVE RefreshCarriesOwn'
  BY <1>3, NoFileFacts, WriteFileFacts, EndFacts, LeaseFileFacts DEF WriteFails
<1>4. ASSUME NEW p \in Proc, LoadExisting(p) PROVE RefreshCarriesOwn'
  BY <1>4, SeenFacts, EndFacts, LeaseFileFacts DEF LoadExisting
<1>5. ASSUME NEW p \in Proc, JudgeExisting(p) PROVE RefreshCarriesOwn'
  BY <1>5, NoFileFacts, EndFacts, LeaseFileFacts DEF JudgeExisting
<1>6. ASSUME NEW p \in Proc, ClearExisting(p) PROVE RefreshCarriesOwn'
  BY <1>6, NoFileFacts, WriteFileFacts, EndFacts, LeaseFileFacts DEF ClearExisting
<1>7. ASSUME NEW p \in Proc, ReadGeneration(p) PROVE RefreshCarriesOwn'
  BY <1>7, LeaseFileFacts DEF ReadGeneration
<1>8. ASSUME NEW p \in Proc, StartServer(p) PROVE RefreshCarriesOwn'
  BY <1>8, LeaseFileFacts DEF StartServer
<1>9. ASSUME NEW p \in Proc, StartFails(p) PROVE RefreshCarriesOwn'
  BY <1>9, NoFileFacts, WriteFileFacts, EndFacts, LeaseFileFacts DEF StartFails
<1>10. ASSUME NEW p \in Proc, EnterLoop(p) PROVE RefreshCarriesOwn'
  BY <1>10, LeaseFileFacts DEF EnterLoop
<1>11. ASSUME NEW p \in Proc, RequeueFails(p) PROVE RefreshCarriesOwn'
  BY <1>11, EndFacts, LeaseFileFacts DEF RequeueFails
<1>12. ASSUME NEW p \in Proc, Heartbeat(p) PROVE RefreshCarriesOwn'
  BY <1>12, RefreshedFacts, LoadForRefreshFacts, LeaseFileFacts DEF Heartbeat
<1>13. ASSUME NEW p \in Proc, BeginRequest(p) PROVE RefreshCarriesOwn'
  BY <1>13, RefreshedFacts, LoadForRefreshFacts, LeaseFileFacts DEF BeginRequest
<1>14. ASSUME NEW p \in Proc, FinishRequest(p) PROVE RefreshCarriesOwn'
  BY <1>14, RefreshedFacts, LoadForRefreshFacts, LeaseFileFacts DEF FinishRequest
<1>15. ASSUME NEW p \in Proc, SaveLease(p) PROVE RefreshCarriesOwn'
  BY <1>15, NoFileFacts, SaveFacts, LeaseFileFacts
<1>16. ASSUME NEW p \in Proc, BeginClosing(p) PROVE RefreshCarriesOwn'
  BY <1>16, LeaseFileFacts DEF BeginClosing
<1>17. ASSUME NEW p \in Proc, CloseServer(p) PROVE RefreshCarriesOwn'
  BY <1>17, LeaseFileFacts DEF CloseServer
<1>18. ASSUME NEW p \in Proc, ReleaseLease(p) PROVE RefreshCarriesOwn'
  BY <1>18, NoFileFacts, WriteFileFacts, EndFacts, LeaseFileFacts DEF ReleaseLease
<1>19. ASSUME NEW p \in Proc, Crash(p) PROVE RefreshCarriesOwn'
  BY <1>19, NoFileFacts, EndFacts, LeaseFileFacts DEF Crash, Die
<1>20. ASSUME NEW p \in Proc, Reap(p) PROVE RefreshCarriesOwn'
  BY <1>20, LeaseFileFacts DEF Reap
<1>21. ASSUME NEW x \in Callers, ProbeLoad(x) PROVE RefreshCarriesOwn'
  BY <1>21, NoFileFacts, SeenFacts, CliAssumption, NamesAssumption, LeaseFileFacts DEF ProbeLoad
<1>22. ASSUME NEW x \in Callers, ProbeJudge(x) PROVE RefreshCarriesOwn'
  <2>1. \A q \in Proc : pc[q] \in Saving => q # x
    BY <1>22, JudgeFacts
  <2>2. \A q \in Proc : pc[q] \in Saving => look'[q] = look[q]
    BY <1>22, <2>1, JudgeFacts
  <2>. QED
    BY <1>22, <2>2, JudgeFacts
<1>23. ASSUME NEW x \in Callers, ProbeClear(x) PROVE RefreshCarriesOwn'
  BY <1>23, NoFileFacts, WriteFileFacts, CliAssumption, NamesAssumption, LeaseFileFacts DEF ProbeClear
<1>24. ASSUME NEW c \in Cli, ProbeDone(c) PROVE RefreshCarriesOwn'
  BY <1>24, CliAssumption, NamesAssumption, LeaseFileFacts DEF ProbeDone
<1>25. ASSUME NEW x \in Callers, TerminateOwner(x) PROVE RefreshCarriesOwn'
  BY <1>25, TerminateFacts, NoFileFacts, LeaseFileFacts, StaleAssumption
<1>26. ASSUME NEW x \in Callers, ClearKilled(x) PROVE RefreshCarriesOwn'
  BY <1>26, NoFileFacts, WriteFileFacts, CliAssumption, NamesAssumption, LeaseFileFacts DEF ClearKilled
<1>27. ASSUME NEW c \in Cli, NEW p \in Proc, SpawnOwner(c, p) PROVE RefreshCarriesOwn'
  BY <1>27, CliAssumption, NamesAssumption, LeaseFileFacts DEF SpawnOwner
<1>28. ASSUME Tick PROVE RefreshCarriesOwn'
  BY <1>28, TickFacts, OlderFacts, LeaseFileFacts
<1>29. ASSUME UNCHANGED vars PROVE RefreshCarriesOwn'
  BY <1>29, LeaseFileFacts DEF vars
<1>30. ASSUME NEW x \in Callers, Probe(x) PROVE RefreshCarriesOwn'
  BY <1>30, <1>21, <1>22, <1>23, <1>25, <1>26 DEF Probe
<1>31. Proc \subseteq Callers /\ Cli \subseteq Callers
  OBVIOUS
<1>. QED
  BY <1>1, <1>2, <1>3, <1>4, <1>5, <1>6, <1>7, <1>8, <1>9, <1>10, <1>11, <1>12, <1>13,
     <1>14, <1>15, <1>16, <1>17, <1>18, <1>19, <1>20, <1>24, <1>27, <1>28, <1>29, <1>30,
     <1>31 DEF Next, Acquire, Start, Serve, Leave, Command

\* A lease under two names is written by a robbed owner only.
LEMMA MixedStep ==
  ASSUME TypeOK, MixedLeaseMeansRobbed, RefreshCarriesOwn, [Next]_vars
  PROVE  MixedLeaseMeansRobbed'
<1> USE DEF Callers, Calling, Probed, TypeOK, Acquiring, Holding, Serving, Starting, Ended, owners,
     MixedLeaseMeansRobbed, Mine, Saving, RefreshCarriesOwn
<1>1. ASSUME NEW p \in Proc, OpenLease(p) PROVE MixedLeaseMeansRobbed'
  BY <1>1, TornFileFacts, WriteFileFacts, LeaseFileFacts DEF OpenLease
<1>2. ASSUME NEW p \in Proc, WriteLease(p) PROVE MixedLeaseMeansRobbed'
  BY <1>2, NewLeaseFacts, WriteFileFacts, LeaseFileFacts DEF WriteLease
<1>3. ASSUME NEW p \in Proc, WriteFails(p) PROVE MixedLeaseMeansRobbed'
  BY <1>3, NoFileFacts, WriteFileFacts, EndFacts, LeaseFileFacts DEF WriteFails
<1>4. ASSUME NEW p \in Proc, LoadExisting(p) PROVE MixedLeaseMeansRobbed'
  BY <1>4, SeenFacts, EndFacts, LeaseFileFacts DEF LoadExisting
<1>5. ASSUME NEW p \in Proc, JudgeExisting(p) PROVE MixedLeaseMeansRobbed'
  BY <1>5, NoFileFacts, EndFacts, LeaseFileFacts DEF JudgeExisting
<1>6. ASSUME NEW p \in Proc, ClearExisting(p) PROVE MixedLeaseMeansRobbed'
  BY <1>6, NoFileFacts, WriteFileFacts, EndFacts, LeaseFileFacts DEF ClearExisting
<1>7. ASSUME NEW p \in Proc, ReadGeneration(p) PROVE MixedLeaseMeansRobbed'
  BY <1>7, LeaseFileFacts DEF ReadGeneration
<1>8. ASSUME NEW p \in Proc, StartServer(p) PROVE MixedLeaseMeansRobbed'
  BY <1>8, LeaseFileFacts DEF StartServer
<1>9. ASSUME NEW p \in Proc, StartFails(p) PROVE MixedLeaseMeansRobbed'
  BY <1>9, NoFileFacts, WriteFileFacts, EndFacts, LeaseFileFacts DEF StartFails
<1>10. ASSUME NEW p \in Proc, EnterLoop(p) PROVE MixedLeaseMeansRobbed'
  BY <1>10, LeaseFileFacts DEF EnterLoop
<1>11. ASSUME NEW p \in Proc, RequeueFails(p) PROVE MixedLeaseMeansRobbed'
  BY <1>11, EndFacts, LeaseFileFacts DEF RequeueFails
<1>12. ASSUME NEW p \in Proc, Heartbeat(p) PROVE MixedLeaseMeansRobbed'
  BY <1>12, RefreshedFacts, LoadForRefreshFacts, LeaseFileFacts DEF Heartbeat
<1>13. ASSUME NEW p \in Proc, BeginRequest(p) PROVE MixedLeaseMeansRobbed'
  BY <1>13, RefreshedFacts, LoadForRefreshFacts, LeaseFileFacts DEF BeginRequest
<1>14. ASSUME NEW p \in Proc, FinishRequest(p) PROVE MixedLeaseMeansRobbed'
  BY <1>14, RefreshedFacts, LoadForRefreshFacts, LeaseFileFacts DEF FinishRequest
<1>15. ASSUME NEW p \in Proc, SaveLease(p) PROVE MixedLeaseMeansRobbed'
  BY <1>15, NoFileFacts, SaveFacts, LeaseFileFacts
<1>16. ASSUME NEW p \in Proc, BeginClosing(p) PROVE MixedLeaseMeansRobbed'
  BY <1>16, LeaseFileFacts DEF BeginClosing
<1>17. ASSUME NEW p \in Proc, CloseServer(p) PROVE MixedLeaseMeansRobbed'
  BY <1>17, LeaseFileFacts DEF CloseServer
<1>18. ASSUME NEW p \in Proc, ReleaseLease(p) PROVE MixedLeaseMeansRobbed'
  BY <1>18, NoFileFacts, WriteFileFacts, EndFacts, LeaseFileFacts DEF ReleaseLease
<1>19. ASSUME NEW p \in Proc, Crash(p) PROVE MixedLeaseMeansRobbed'
  BY <1>19, NoFileFacts, EndFacts, LeaseFileFacts DEF Crash, Die
<1>20. ASSUME NEW p \in Proc, Reap(p) PROVE MixedLeaseMeansRobbed'
  BY <1>20, LeaseFileFacts DEF Reap
<1>21. ASSUME NEW x \in Callers, ProbeLoad(x) PROVE MixedLeaseMeansRobbed'
  BY <1>21, NoFileFacts, SeenFacts, CliAssumption, NamesAssumption, LeaseFileFacts DEF ProbeLoad
<1>22. ASSUME NEW x \in Callers, ProbeJudge(x) PROVE MixedLeaseMeansRobbed'
  BY <1>22, JudgeFacts, PidOfFacts, NoFileFacts, CliAssumption, NamesAssumption, LeaseFileFacts
<1>23. ASSUME NEW x \in Callers, ProbeClear(x) PROVE MixedLeaseMeansRobbed'
  BY <1>23, NoFileFacts, WriteFileFacts, CliAssumption, NamesAssumption, LeaseFileFacts DEF ProbeClear
<1>24. ASSUME NEW c \in Cli, ProbeDone(c) PROVE MixedLeaseMeansRobbed'
  BY <1>24, CliAssumption, NamesAssumption, LeaseFileFacts DEF ProbeDone
<1>25. ASSUME NEW x \in Callers, TerminateOwner(x) PROVE MixedLeaseMeansRobbed'
  BY <1>25, TerminateFacts, NoFileFacts, LeaseFileFacts, StaleAssumption
<1>26. ASSUME NEW x \in Callers, ClearKilled(x) PROVE MixedLeaseMeansRobbed'
  BY <1>26, NoFileFacts, WriteFileFacts, CliAssumption, NamesAssumption, LeaseFileFacts DEF ClearKilled
<1>27. ASSUME NEW c \in Cli, NEW p \in Proc, SpawnOwner(c, p) PROVE
     MixedLeaseMeansRobbed'
  BY <1>27, CliAssumption, NamesAssumption, LeaseFileFacts DEF SpawnOwner
<1>28. ASSUME Tick PROVE MixedLeaseMeansRobbed'
  BY <1>28, TickFacts, OlderFacts, LeaseFileFacts
<1>29. ASSUME UNCHANGED vars PROVE MixedLeaseMeansRobbed'
  BY <1>29, LeaseFileFacts DEF vars
<1>30. ASSUME NEW x \in Callers, Probe(x) PROVE MixedLeaseMeansRobbed'
  BY <1>30, <1>21, <1>22, <1>23, <1>25, <1>26 DEF Probe
<1>31. Proc \subseteq Callers /\ Cli \subseteq Callers
  OBVIOUS
<1>. QED
  BY <1>1, <1>2, <1>3, <1>4, <1>5, <1>6, <1>7, <1>8, <1>9, <1>10, <1>11, <1>12, <1>13,
     <1>14, <1>15, <1>16, <1>17, <1>18, <1>19, <1>20, <1>24, <1>27, <1>28, <1>29, <1>30,
     <1>31 DEF Next, Acquire, Start, Serve, Leave, Command

\* A lease becomes stale in a Tick, which records it.
LEMMA AgeStep ==
  ASSUME TypeOK, AgeIsRecorded, [Next]_vars
  PROVE  AgeIsRecorded'
<1> USE DEF Callers, Calling, Probed, TypeOK, Acquiring, Holding, Serving, Starting, Ended, owners, AgeIsRecorded,
     Mine, Stale
<1>1. ASSUME NEW p \in Proc, OpenLease(p) PROVE AgeIsRecorded'
  BY <1>1, TornFileFacts, WriteFileFacts, StaleAssumption, LeaseFileFacts DEF OpenLease
<1>2. ASSUME NEW p \in Proc, WriteLease(p) PROVE AgeIsRecorded'
  BY <1>2, NewLeaseFacts, WriteFileFacts, StaleAssumption, LeaseFileFacts DEF WriteLease
<1>3. ASSUME NEW p \in Proc, WriteFails(p) PROVE AgeIsRecorded'
  BY <1>3, NoFileFacts, WriteFileFacts, EndFacts, StaleAssumption, LeaseFileFacts DEF
       WriteFails
<1>4. ASSUME NEW p \in Proc, LoadExisting(p) PROVE AgeIsRecorded'
  BY <1>4, SeenFacts, EndFacts, StaleAssumption, LeaseFileFacts DEF LoadExisting
<1>5. ASSUME NEW p \in Proc, JudgeExisting(p) PROVE AgeIsRecorded'
  BY <1>5, NoFileFacts, EndFacts, StaleAssumption, LeaseFileFacts DEF JudgeExisting
<1>6. ASSUME NEW p \in Proc, ClearExisting(p) PROVE AgeIsRecorded'
  BY <1>6, NoFileFacts, WriteFileFacts, EndFacts, StaleAssumption, LeaseFileFacts DEF
       ClearExisting
<1>7. ASSUME NEW p \in Proc, ReadGeneration(p) PROVE AgeIsRecorded'
  BY <1>7, StaleAssumption, LeaseFileFacts DEF ReadGeneration
<1>8. ASSUME NEW p \in Proc, StartServer(p) PROVE AgeIsRecorded'
  BY <1>8, StaleAssumption, LeaseFileFacts DEF StartServer
<1>9. ASSUME NEW p \in Proc, StartFails(p) PROVE AgeIsRecorded'
  BY <1>9, NoFileFacts, WriteFileFacts, EndFacts, StaleAssumption, LeaseFileFacts DEF
       StartFails
<1>10. ASSUME NEW p \in Proc, EnterLoop(p) PROVE AgeIsRecorded'
  BY <1>10, StaleAssumption, LeaseFileFacts DEF EnterLoop
<1>11. ASSUME NEW p \in Proc, RequeueFails(p) PROVE AgeIsRecorded'
  BY <1>11, EndFacts, StaleAssumption, LeaseFileFacts DEF RequeueFails
<1>12. ASSUME NEW p \in Proc, Heartbeat(p) PROVE AgeIsRecorded'
  BY <1>12, LoadedFresh, StaleAssumption DEF Heartbeat
<1>13. ASSUME NEW p \in Proc, BeginRequest(p) PROVE AgeIsRecorded'
  BY <1>13, LoadedFresh, StaleAssumption DEF BeginRequest
<1>14. ASSUME NEW p \in Proc, FinishRequest(p) PROVE AgeIsRecorded'
  BY <1>14, LoadedFresh, StaleAssumption DEF FinishRequest
<1>15. ASSUME NEW p \in Proc, SaveLease(p) PROVE AgeIsRecorded'
  <2>1. p \in Callers /\ file' = look[p] /\ overdue' = overdue
    BY <1>15, SaveFacts
  <2>2. \A x \in Callers : look'[x] = look[x] \/ look'[x].age = 0
    BY <1>15, SaveFacts, NoFileFacts
  <2>. QED
    BY <2>1, <2>2, StaleAssumption
<1>16. ASSUME NEW p \in Proc, BeginClosing(p) PROVE AgeIsRecorded'
  BY <1>16, LeaseFileFacts DEF BeginClosing
<1>17. ASSUME NEW p \in Proc, CloseServer(p) PROVE AgeIsRecorded'
  BY <1>17, StaleAssumption, LeaseFileFacts DEF CloseServer
<1>18. ASSUME NEW p \in Proc, ReleaseLease(p) PROVE AgeIsRecorded'
  BY <1>18, NoFileFacts, WriteFileFacts, EndFacts, StaleAssumption, LeaseFileFacts DEF
       ReleaseLease
<1>19. ASSUME NEW p \in Proc, Crash(p) PROVE AgeIsRecorded'
  BY <1>19, NoFileFacts, EndFacts, StaleAssumption, LeaseFileFacts DEF Crash, Die
<1>20. ASSUME NEW p \in Proc, Reap(p) PROVE AgeIsRecorded'
  BY <1>20, StaleAssumption, LeaseFileFacts DEF Reap
<1>21. ASSUME NEW x \in Callers, ProbeLoad(x) PROVE AgeIsRecorded'
  BY <1>21, NoFileFacts, SeenFacts, StaleAssumption, CliAssumption, NamesAssumption, LeaseFileFacts DEF
       ProbeLoad
<1>22. ASSUME NEW x \in Callers, ProbeJudge(x) PROVE AgeIsRecorded'
  BY <1>22, JudgeFacts, PidOfFacts, NoFileFacts, StaleAssumption, CliAssumption, NamesAssumption, LeaseFileFacts
<1>23. ASSUME NEW x \in Callers, ProbeClear(x) PROVE AgeIsRecorded'
  BY <1>23, NoFileFacts, WriteFileFacts, StaleAssumption, CliAssumption, NamesAssumption, LeaseFileFacts
       DEF ProbeClear
<1>24. ASSUME NEW c \in Cli, ProbeDone(c) PROVE AgeIsRecorded'
  BY <1>24, StaleAssumption, CliAssumption, NamesAssumption, LeaseFileFacts DEF ProbeDone
<1>25. ASSUME NEW x \in Callers, TerminateOwner(x) PROVE AgeIsRecorded'
  BY <1>25, TerminateFacts, NoFileFacts, LeaseFileFacts, StaleAssumption
<1>26. ASSUME NEW x \in Callers, ClearKilled(x) PROVE AgeIsRecorded'
  BY <1>26, NoFileFacts, WriteFileFacts, StaleAssumption, CliAssumption, NamesAssumption, LeaseFileFacts
       DEF ClearKilled
<1>27. ASSUME NEW c \in Cli, NEW p \in Proc, SpawnOwner(c, p) PROVE AgeIsRecorded'
  BY <1>27, StaleAssumption, CliAssumption, NamesAssumption, LeaseFileFacts DEF SpawnOwner
<1>28. ASSUME Tick PROVE AgeIsRecorded'
  BY <1>28, TickFacts, OlderFacts, StaleAssumption, LeaseFileFacts
<1>29. ASSUME UNCHANGED vars PROVE AgeIsRecorded'
  BY <1>29, StaleAssumption, LeaseFileFacts DEF vars
<1>30. ASSUME NEW x \in Callers, Probe(x) PROVE AgeIsRecorded'
  BY <1>30, <1>21, <1>22, <1>23, <1>25, <1>26 DEF Probe
<1>31. Proc \subseteq Callers /\ Cli \subseteq Callers
  OBVIOUS
<1>. QED
  BY <1>1, <1>2, <1>3, <1>4, <1>5, <1>6, <1>7, <1>8, <1>9, <1>10, <1>11, <1>12, <1>13,
     <1>14, <1>15, <1>16, <1>17, <1>18, <1>19, <1>20, <1>24, <1>27, <1>28, <1>29, <1>30,
     <1>31 DEF Next, Acquire, Start, Serve, Leave, Command

\* An owner that looks at its ticker between requests keeps its heartbeat fresh.
LEMMA HeartbeatStep ==
  ASSUME TypeOK, HeartbeatKept, HolderIsNamed, RefreshCarriesOwn, LoopCalls, [Next]_vars
  PROVE  HeartbeatKept'
<1> USE DEF LoopCalls, Callers, Calling, Probed, TypeOK, Acquiring, Holding, Serving, Starting, Ended, owners, HeartbeatKept,
     Mine, HolderIsNamed, Saving, RefreshCarriesOwn
<1>1. ASSUME NEW p \in Proc, OpenLease(p) PROVE HeartbeatKept'
  BY <1>1, TornFileFacts, WriteFileFacts, LeaseFileFacts DEF OpenLease
<1>2. ASSUME NEW p \in Proc, WriteLease(p) PROVE HeartbeatKept'
  BY <1>2, NewLeaseFacts, WriteFileFacts, LeaseFileFacts DEF WriteLease
<1>3. ASSUME NEW p \in Proc, WriteFails(p) PROVE HeartbeatKept'
  BY <1>3, NoFileFacts, WriteFileFacts, EndFacts, LeaseFileFacts DEF WriteFails
<1>4. ASSUME NEW p \in Proc, LoadExisting(p) PROVE HeartbeatKept'
  BY <1>4, SeenFacts, EndFacts, LeaseFileFacts DEF LoadExisting
<1>5. ASSUME NEW p \in Proc, JudgeExisting(p) PROVE HeartbeatKept'
  BY <1>5, NoFileFacts, EndFacts, LeaseFileFacts DEF JudgeExisting
<1>6. ASSUME NEW p \in Proc, ClearExisting(p) PROVE HeartbeatKept'
  BY <1>6, NoFileFacts, WriteFileFacts, EndFacts, LeaseFileFacts DEF ClearExisting
<1>7. ASSUME NEW p \in Proc, ReadGeneration(p) PROVE HeartbeatKept'
  BY <1>7, LeaseFileFacts DEF ReadGeneration
<1>8. ASSUME NEW p \in Proc, StartServer(p) PROVE HeartbeatKept'
  BY <1>8, LeaseFileFacts DEF StartServer
<1>9. ASSUME NEW p \in Proc, StartFails(p) PROVE HeartbeatKept'
  BY <1>9, NoFileFacts, WriteFileFacts, EndFacts, LeaseFileFacts DEF StartFails
<1>10. ASSUME NEW p \in Proc, EnterLoop(p) PROVE HeartbeatKept'
  BY <1>10, StaleAssumption, LeaseFileFacts DEF EnterLoop
<1>11. ASSUME NEW p \in Proc, RequeueFails(p) PROVE HeartbeatKept'
  BY <1>11, EndFacts, LeaseFileFacts DEF RequeueFails
<1>12. ASSUME NEW p \in Proc, Heartbeat(p) PROVE HeartbeatKept'
  BY <1>12, StaleAssumption, RefreshedFacts, LoadForRefreshFacts, LeaseFileFacts DEF Heartbeat
<1>13. ASSUME NEW p \in Proc, BeginRequest(p) PROVE HeartbeatKept'
  BY <1>13, StaleAssumption, RefreshedFacts, LoadForRefreshFacts, LeaseFileFacts DEF BeginRequest
<1>14. ASSUME NEW p \in Proc, FinishRequest(p) PROVE HeartbeatKept'
  BY <1>14, StaleAssumption, RefreshedFacts, LoadForRefreshFacts, LeaseFileFacts DEF FinishRequest
<1>15. ASSUME NEW p \in Proc, SaveLease(p) PROVE HeartbeatKept'
  <2>1. /\ file' = look[p] /\ due' = due /\ robbed \subseteq robbed' /\ look[p].pid = p
        /\ pc'[p] # "saveIdle" /\ (pc'[p] = "idle" => file'.age = 0) /\ pc'[p] \notin Starting
    BY <1>15, SaveFacts
  <2>2. \A q \in Proc \ {p} : pc'[q] = pc[q] /\ look'[q] = look[q] /\ born'[q] = born[q]
    BY <1>15, SaveFacts
  <2>3. \A q \in Proc \ {p} : q \notin robbed' => pc[q] \notin Holding
    BY <1>15, <2>1, SaveFacts
  <2>. QED
    BY <2>1, <2>2, <2>3, StaleAssumption
<1>16. ASSUME NEW p \in Proc, BeginClosing(p) PROVE HeartbeatKept'
  BY <1>16, LeaseFileFacts DEF BeginClosing
<1>17. ASSUME NEW p \in Proc, CloseServer(p) PROVE HeartbeatKept'
  BY <1>17, LeaseFileFacts DEF CloseServer
<1>18. ASSUME NEW p \in Proc, ReleaseLease(p) PROVE HeartbeatKept'
  BY <1>18, NoFileFacts, WriteFileFacts, EndFacts, LeaseFileFacts DEF ReleaseLease
<1>19. ASSUME NEW p \in Proc, Crash(p) PROVE HeartbeatKept'
  BY <1>19, NoFileFacts, EndFacts, LeaseFileFacts DEF Crash, Die
<1>20. ASSUME NEW p \in Proc, Reap(p) PROVE HeartbeatKept'
  BY <1>20, LeaseFileFacts DEF Reap
<1>21. ASSUME NEW x \in Callers, ProbeLoad(x) PROVE HeartbeatKept'
  BY <1>21, NoFileFacts, SeenFacts, CliAssumption, NamesAssumption, LeaseFileFacts DEF ProbeLoad
<1>22. ASSUME NEW x \in Callers, ProbeJudge(x) PROVE HeartbeatKept'
  BY <1>22, JudgeFacts, PidOfFacts, NoFileFacts, CliAssumption, NamesAssumption, LeaseFileFacts
<1>23. ASSUME NEW x \in Callers, ProbeClear(x) PROVE HeartbeatKept'
  BY <1>23, NoFileFacts, WriteFileFacts, CliAssumption, NamesAssumption, LeaseFileFacts DEF ProbeClear
<1>24. ASSUME NEW c \in Cli, ProbeDone(c) PROVE HeartbeatKept'
  BY <1>24, CliAssumption, NamesAssumption, LeaseFileFacts DEF ProbeDone
<1>25. ASSUME NEW x \in Callers, TerminateOwner(x) PROVE HeartbeatKept'
  BY <1>25, TerminateFacts, NoFileFacts, LeaseFileFacts, StaleAssumption
<1>26. ASSUME NEW x \in Callers, ClearKilled(x) PROVE HeartbeatKept'
  BY <1>26, NoFileFacts, WriteFileFacts, CliAssumption, NamesAssumption, LeaseFileFacts DEF ClearKilled
<1>27. ASSUME NEW c \in Cli, NEW p \in Proc, SpawnOwner(c, p) PROVE HeartbeatKept'
  BY <1>27, CliAssumption, NamesAssumption, LeaseFileFacts DEF SpawnOwner
<1>28. ASSUME Tick PROVE HeartbeatKept'
  <2>. SUFFICES ASSUME NEW p \in Proc
       PROVE  /\ pc'[p] # "saveIdle" /\ pc'[p] \notin Starting
              /\ p \notin robbed' /\ born'[p] < StaleTicks /\ pc'[p] = "idle" =>
                   due'[p] /\ file'.age <= StaleTicks
    OBVIOUS
  <2>1. pc'[p] \notin Starting \cup {"saveIdle"} /\ (pc'[p] = "idle" => due'[p])
    BY <1>28 DEF Tick
  <2>2. file.age \in Nat /\ file'.age \in Nat /\ file'.age <= file.age + 1
    BY <1>28, TickFacts, OlderFacts, LeaseFileFacts
  <2>3. pc'[p] = "idle" /\ p \notin robbed' /\ born'[p] < StaleTicks => file.age < StaleTicks
    BY <1>28 DEF Tick
  <2>. QED
    BY <2>1, <2>2, <2>3, StaleAssumption
<1>29. ASSUME UNCHANGED vars PROVE HeartbeatKept'
  BY <1>29, LeaseFileFacts DEF vars
<1>30. ASSUME NEW x \in Callers, Probe(x) PROVE HeartbeatKept'
  BY <1>30, <1>21, <1>22, <1>23, <1>25, <1>26 DEF Probe
<1>31. Proc \subseteq Callers /\ Cli \subseteq Callers
  OBVIOUS
<1>. QED
  BY <1>1, <1>2, <1>3, <1>4, <1>5, <1>6, <1>7, <1>8, <1>9, <1>10, <1>11, <1>12, <1>13,
     <1>14, <1>15, <1>16, <1>17, <1>18, <1>19, <1>20, <1>24, <1>27, <1>28, <1>29, <1>30,
     <1>31 DEF Next, Acquire, Start, Serve, Leave, Command

\* Until a holder ends or is overdue, the lease file belongs to a holder.
LEMMA FileStep ==
  ASSUME TypeOK, HolderIsNamed, AgeIsRecorded, LoopCalls, FileIsHeld, ContendersGiveUp,
         RefreshCarriesOwn, CallersKeepLease, LeaseLeads, Quiet, [Next]_vars, Quiet'
  PROVE  FileIsHeld'
<1> USE QuietKept DEF Callers, Calling, Probed, TypeOK, Quiet, HasEnded, AgeIsRecorded, FileIsHeld,
     ContendersGiveUp, CallersKeepLease, LoopCalls, RefreshCarriesOwn, Acquiring, Holding, Serving, Starting, Saving,
     Ended, owners, HolderIsNamed, Mine
<1>1. ASSUME NEW p \in Proc, OpenLease(p) PROVE FileIsHeld'
  BY <1>1, TornFileFacts, WriteFileFacts, LeaseFileFacts DEF OpenLease
<1>2. ASSUME NEW p \in Proc, WriteLease(p) PROVE FileIsHeld'
  BY <1>2, NewLeaseFacts, WriteFileFacts, LeaseFileFacts DEF WriteLease
<1>3. ASSUME NEW p \in Proc, WriteFails(p) PROVE FileIsHeld'
  BY <1>3, NoFileFacts, WriteFileFacts, EndFacts, LeaseFileFacts DEF WriteFails
<1>4. ASSUME NEW p \in Proc, LoadExisting(p) PROVE FileIsHeld'
  BY <1>4, SeenFacts, EndFacts, LeaseFileFacts DEF LoadExisting
<1>5. ASSUME NEW p \in Proc, JudgeExisting(p) PROVE FileIsHeld'
  BY <1>5, NoFileFacts, EndFacts, LeaseFileFacts DEF JudgeExisting
<1>6. ASSUME NEW p \in Proc, ClearExisting(p) PROVE FileIsHeld'
  BY <1>6, NoFileFacts, WriteFileFacts, EndFacts, LeaseFileFacts DEF ClearExisting
<1>7. ASSUME NEW p \in Proc, ReadGeneration(p) PROVE FileIsHeld'
  BY <1>7, LeaseFileFacts DEF ReadGeneration
<1>8. ASSUME NEW p \in Proc, StartServer(p) PROVE FileIsHeld'
  BY <1>8, LeaseFileFacts DEF StartServer
<1>9. ASSUME NEW p \in Proc, StartFails(p) PROVE FileIsHeld'
  BY <1>9, NoFileFacts, WriteFileFacts, EndFacts, LeaseFileFacts DEF StartFails
<1>10. ASSUME NEW p \in Proc, EnterLoop(p) PROVE FileIsHeld'
  BY <1>10, LeaseFileFacts DEF EnterLoop
<1>11. ASSUME NEW p \in Proc, RequeueFails(p) PROVE FileIsHeld'
  BY <1>11, EndFacts, LeaseFileFacts DEF RequeueFails
<1>12. ASSUME NEW p \in Proc, Heartbeat(p) PROVE FileIsHeld'
  BY <1>12, RefreshedFacts, LoadForRefreshFacts, LeaseFileFacts DEF Heartbeat
<1>13. ASSUME NEW p \in Proc, BeginRequest(p) PROVE FileIsHeld'
  BY <1>13, RefreshedFacts, LoadForRefreshFacts, LeaseFileFacts DEF BeginRequest
<1>14. ASSUME NEW p \in Proc, FinishRequest(p) PROVE FileIsHeld'
  BY <1>14, RefreshedFacts, LoadForRefreshFacts, LeaseFileFacts DEF FinishRequest
<1>15. ASSUME NEW p \in Proc, SaveLease(p) PROVE FileIsHeld'
  BY <1>15, NoFileFacts, SaveFacts, LeaseFileFacts
<1>16. ASSUME NEW p \in Proc, BeginClosing(p) PROVE FileIsHeld'
  BY <1>16, LeaseFileFacts DEF BeginClosing
<1>17. ASSUME NEW p \in Proc, CloseServer(p) PROVE FileIsHeld'
  BY <1>17, LeaseFileFacts DEF CloseServer
<1>18. ASSUME NEW p \in Proc, ReleaseLease(p) PROVE FileIsHeld'
  BY <1>18, NoFileFacts, WriteFileFacts, EndFacts, LeaseFileFacts DEF ReleaseLease
<1>19. ASSUME NEW p \in Proc, Crash(p) PROVE FileIsHeld'
  BY <1>19, NoFileFacts, EndFacts, LeaseFileFacts DEF Crash, Die
<1>20. ASSUME NEW p \in Proc, Reap(p) PROVE FileIsHeld'
  BY <1>20, LeaseFileFacts DEF Reap
<1>21. ASSUME NEW x \in Callers, ProbeLoad(x) PROVE FileIsHeld'
  BY <1>21, NoFileFacts, SeenFacts, CliAssumption, NamesAssumption, LeaseFileFacts DEF ProbeLoad
<1>22. ASSUME NEW x \in Callers, ProbeJudge(x) PROVE FileIsHeld'
  BY <1>22, JudgeFacts, PidOfFacts, NoFileFacts, CliAssumption, NamesAssumption, LeaseFileFacts
<1>23. ASSUME NEW x \in Callers, ProbeClear(x) PROVE FileIsHeld'
  BY <1>23, NoFileFacts, WriteFileFacts, CliAssumption, NamesAssumption, LeaseFileFacts DEF ProbeClear
<1>24. ASSUME NEW c \in Cli, ProbeDone(c) PROVE FileIsHeld'
  BY <1>24, CliAssumption, NamesAssumption, LeaseFileFacts DEF ProbeDone
<1>25. ASSUME NEW x \in Callers, TerminateOwner(x) PROVE FileIsHeld'
  BY <1>25, TerminateFacts, NoFileFacts, LeaseFileFacts, StaleAssumption
<1>26. ASSUME NEW x \in Callers, ClearKilled(x) PROVE FileIsHeld'
  BY <1>26, NoFileFacts, WriteFileFacts, CliAssumption, NamesAssumption, LeaseFileFacts DEF ClearKilled
<1>27. ASSUME NEW c \in Cli, NEW p \in Proc, SpawnOwner(c, p) PROVE FileIsHeld'
  BY <1>27, CliAssumption, NamesAssumption, LeaseFileFacts DEF SpawnOwner
<1>28. ASSUME Tick PROVE FileIsHeld'
  BY <1>28, TickFacts, OlderFacts, LeaseFileFacts
<1>29. ASSUME UNCHANGED vars PROVE FileIsHeld'
  BY <1>29, LeaseFileFacts DEF vars
<1>30. ASSUME NEW x \in Callers, Probe(x) PROVE FileIsHeld'
  BY <1>30, <1>21, <1>22, <1>23, <1>25, <1>26 DEF Probe
<1>31. Proc \subseteq Callers /\ Cli \subseteq Callers
  OBVIOUS
<1>. QED
  BY <1>1, <1>2, <1>3, <1>4, <1>5, <1>6, <1>7, <1>8, <1>9, <1>10, <1>11, <1>12, <1>13,
     <1>14, <1>15, <1>16, <1>17, <1>18, <1>19, <1>20, <1>24, <1>27, <1>28, <1>29, <1>30,
     <1>31 DEF Next, Acquire, Start, Serve, Leave, Command

\* Until then, a process that finds the file in place gives up.
LEMMA ContenderStep ==
  ASSUME TypeOK, HolderIsNamed, AgeIsRecorded, LoopCalls, FileIsHeld, ContendersGiveUp,
         RefreshCarriesOwn, CallersKeepLease, LeaseLeads, Quiet, [Next]_vars, Quiet'
  PROVE  ContendersGiveUp'
<1> USE QuietKept DEF Callers, Calling, Probed, TypeOK, Quiet, HasEnded, AgeIsRecorded, FileIsHeld,
     ContendersGiveUp, CallersKeepLease, LoopCalls, RefreshCarriesOwn, Acquiring, Holding, Serving, Starting, Saving,
     Ended, owners, ContendersGiveUp, Current, QueueOwnerLeaseAlive, IsPIDRunning,
     Running, Stale
<1>1. ASSUME NEW p \in Proc, OpenLease(p) PROVE ContendersGiveUp'
  BY <1>1, TornFileFacts, WriteFileFacts, LeaseFileFacts DEF OpenLease
<1>2. ASSUME NEW p \in Proc, WriteLease(p) PROVE ContendersGiveUp'
  BY <1>2, NewLeaseFacts, WriteFileFacts, LeaseFileFacts DEF WriteLease
<1>3. ASSUME NEW p \in Proc, WriteFails(p) PROVE ContendersGiveUp'
  BY <1>3, NoFileFacts, WriteFileFacts, EndFacts, LeaseFileFacts DEF WriteFails
<1>4. ASSUME NEW p \in Proc, LoadExisting(p) PROVE ContendersGiveUp'
  BY <1>4, SeenFacts, EndFacts, LeaseFileFacts DEF LoadExisting
<1>5. ASSUME NEW p \in Proc, JudgeExisting(p) PROVE ContendersGiveUp'
  BY <1>5, NoFileFacts, EndFacts, LeaseFileFacts DEF JudgeExisting
<1>6. ASSUME NEW p \in Proc, ClearExisting(p) PROVE ContendersGiveUp'
  BY <1>6, NoFileFacts, WriteFileFacts, EndFacts, LeaseFileFacts DEF ClearExisting
<1>7. ASSUME NEW p \in Proc, ReadGeneration(p) PROVE ContendersGiveUp'
  BY <1>7, LeaseFileFacts DEF ReadGeneration
<1>8. ASSUME NEW p \in Proc, StartServer(p) PROVE ContendersGiveUp'
  BY <1>8, LeaseFileFacts DEF StartServer
<1>9. ASSUME NEW p \in Proc, StartFails(p) PROVE ContendersGiveUp'
  BY <1>9, NoFileFacts, WriteFileFacts, EndFacts, LeaseFileFacts DEF StartFails
<1>10. ASSUME NEW p \in Proc, EnterLoop(p) PROVE ContendersGiveUp'
  BY <1>10, LeaseFileFacts DEF EnterLoop
<1>11. ASSUME NEW p \in Proc, RequeueFails(p) PROVE ContendersGiveUp'
  BY <1>11, EndFacts, LeaseFileFacts DEF RequeueFails
<1>12. ASSUME NEW p \in Proc, Heartbeat(p) PROVE ContendersGiveUp'
  BY <1>12, RefreshedFacts, LoadForRefreshFacts, LeaseFileFacts DEF Heartbeat
<1>13. ASSUME NEW p \in Proc, BeginRequest(p) PROVE ContendersGiveUp'
  BY <1>13, RefreshedFacts, LoadForRefreshFacts, LeaseFileFacts DEF BeginRequest
<1>14. ASSUME NEW p \in Proc, FinishRequest(p) PROVE ContendersGiveUp'
  BY <1>14, RefreshedFacts, LoadForRefreshFacts, LeaseFileFacts DEF FinishRequest
<1>15. ASSUME NEW p \in Proc, SaveLease(p) PROVE ContendersGiveUp'
  BY <1>15, NoFileFacts, SaveFacts, LeaseFileFacts
<1>16. ASSUME NEW p \in Proc, BeginClosing(p) PROVE ContendersGiveUp'
  BY <1>16, LeaseFileFacts DEF BeginClosing
<1>17. ASSUME NEW p \in Proc, CloseServer(p) PROVE ContendersGiveUp'
  BY <1>17, LeaseFileFacts DEF CloseServer
<1>18. ASSUME NEW p \in Proc, ReleaseLease(p) PROVE ContendersGiveUp'
  BY <1>18, NoFileFacts, WriteFileFacts, EndFacts, LeaseFileFacts DEF ReleaseLease
<1>19. ASSUME NEW p \in Proc, Crash(p) PROVE ContendersGiveUp'
  BY <1>19, NoFileFacts, EndFacts, LeaseFileFacts DEF Crash, Die
<1>20. ASSUME NEW p \in Proc, Reap(p) PROVE ContendersGiveUp'
  BY <1>20, LeaseFileFacts DEF Reap
<1>21. ASSUME NEW x \in Callers, ProbeLoad(x) PROVE ContendersGiveUp'
  BY <1>21, NoFileFacts, SeenFacts, CliAssumption, NamesAssumption, LeaseFileFacts DEF ProbeLoad
<1>22. ASSUME NEW x \in Callers, ProbeJudge(x) PROVE ContendersGiveUp'
  BY <1>22, JudgeFacts, PidOfFacts, NoFileFacts, CliAssumption, NamesAssumption, LeaseFileFacts
<1>23. ASSUME NEW x \in Callers, ProbeClear(x) PROVE ContendersGiveUp'
  BY <1>23, NoFileFacts, WriteFileFacts, CliAssumption, NamesAssumption, LeaseFileFacts DEF ProbeClear
<1>24. ASSUME NEW c \in Cli, ProbeDone(c) PROVE ContendersGiveUp'
  BY <1>24, CliAssumption, NamesAssumption, LeaseFileFacts DEF ProbeDone
<1>25. ASSUME NEW x \in Callers, TerminateOwner(x) PROVE ContendersGiveUp'
  BY <1>25, TerminateFacts, NoFileFacts, LeaseFileFacts, StaleAssumption
<1>26. ASSUME NEW x \in Callers, ClearKilled(x) PROVE ContendersGiveUp'
  BY <1>26, NoFileFacts, WriteFileFacts, CliAssumption, NamesAssumption, LeaseFileFacts DEF ClearKilled
<1>27. ASSUME NEW c \in Cli, NEW p \in Proc, SpawnOwner(c, p) PROVE ContendersGiveUp'
  BY <1>27, CliAssumption, NamesAssumption, LeaseFileFacts DEF SpawnOwner
<1>28. ASSUME Tick PROVE ContendersGiveUp'
  BY <1>28, TickFacts, OlderFacts, LeaseFileFacts
<1>29. ASSUME UNCHANGED vars PROVE ContendersGiveUp'
  BY <1>29, LeaseFileFacts DEF vars
<1>30. ASSUME NEW x \in Callers, Probe(x) PROVE ContendersGiveUp'
  BY <1>30, <1>21, <1>22, <1>23, <1>25, <1>26 DEF Probe
<1>31. Proc \subseteq Callers /\ Cli \subseteq Callers
  OBVIOUS
<1>. QED
  BY <1>1, <1>2, <1>3, <1>4, <1>5, <1>6, <1>7, <1>8, <1>9, <1>10, <1>11, <1>12, <1>13,
     <1>14, <1>15, <1>16, <1>17, <1>18, <1>19, <1>20, <1>24, <1>27, <1>28, <1>29, <1>30,
     <1>31 DEF Next, Acquire, Start, Serve, Leave, Command

\* What a step of an internal-owner process leaves alone of every caller: the
\* others' calls go on, its own is still going on or is none.
UndisturbedBy(p) ==
  /\ \A x \in Callers \ {p} : cpc'[x] = cpc[x] /\ look'[x] = look[x]
  /\ cpc'[p] = "ready" \/ (cpc'[p] = cpc[p] /\ look'[p] = look[p])

\* No step of an internal-owner process touches what a caller has seen.
LEMMA CallersAreLeftAlone ==
  ASSUME TypeOK, LoopCalls, NEW p \in Proc,
         Acquire(p) \/ Start(p) \/ Serve(p) \/ Leave(p) \/ Crash(p) \/ Reap(p)
  PROVE  UndisturbedBy(p)
<1> USE DEF TypeOK, LoopCalls, owners, UndisturbedBy, Callers
<1>1. ASSUME OpenLease(p) PROVE UndisturbedBy(p)
  BY <1>1 DEF OpenLease
<1>2. ASSUME WriteLease(p) PROVE UndisturbedBy(p)
  BY <1>2 DEF WriteLease
<1>3. ASSUME WriteFails(p) PROVE UndisturbedBy(p)
  BY <1>3, EndFacts DEF WriteFails
<1>4. ASSUME LoadExisting(p) PROVE UndisturbedBy(p)
  BY <1>4, EndFacts DEF LoadExisting
<1>5. ASSUME JudgeExisting(p) PROVE UndisturbedBy(p)
  BY <1>5, EndFacts DEF JudgeExisting
<1>6. ASSUME ClearExisting(p) PROVE UndisturbedBy(p)
  BY <1>6, EndFacts DEF ClearExisting
<1>7. ASSUME ReadGeneration(p) PROVE UndisturbedBy(p)
  BY <1>7 DEF ReadGeneration
<1>8. ASSUME StartServer(p) PROVE UndisturbedBy(p)
  BY <1>8 DEF StartServer
<1>9. ASSUME StartFails(p) PROVE UndisturbedBy(p)
  BY <1>9, EndFacts DEF StartFails
<1>10. ASSUME EnterLoop(p) PROVE UndisturbedBy(p)
  BY <1>10 DEF EnterLoop
<1>11. ASSUME RequeueFails(p) PROVE UndisturbedBy(p)
  BY <1>11, EndFacts DEF RequeueFails
<1>12. ASSUME Heartbeat(p) PROVE UndisturbedBy(p)
  BY <1>12, LoadForRefreshFacts DEF Heartbeat
<1>13. ASSUME BeginRequest(p) PROVE UndisturbedBy(p)
  BY <1>13, LoadForRefreshFacts DEF BeginRequest
<1>14. ASSUME FinishRequest(p) PROVE UndisturbedBy(p)
  BY <1>14, LoadForRefreshFacts DEF FinishRequest
<1>15. ASSUME SaveLease(p) PROVE UndisturbedBy(p)
  BY <1>15 DEF SaveLease
<1>16. ASSUME BeginClosing(p) PROVE UndisturbedBy(p)
  BY <1>16 DEF BeginClosing
<1>17. ASSUME CloseServer(p) PROVE UndisturbedBy(p)
  BY <1>17 DEF CloseServer
<1>18. ASSUME ReleaseLease(p) PROVE UndisturbedBy(p)
  BY <1>18, EndFacts DEF ReleaseLease
<1>19. ASSUME Crash(p) PROVE UndisturbedBy(p)
  BY <1>19, EndFacts DEF Crash, Die
<1>20. ASSUME Reap(p) PROVE UndisturbedBy(p)
  BY <1>20 DEF Reap
<1>. QED
  BY <1>1, <1>2, <1>3, <1>4, <1>5, <1>6, <1>7, <1>8, <1>9, <1>10, <1>11, <1>12, <1>13,
     <1>14, <1>15, <1>16, <1>17, <1>18, <1>19, <1>20
     DEF Acquire, Start, Serve, Leave

\* An owner's loop is in ProbeOwner only where it calls manager.CloseSession.
LEMMA LoopStep ==
  ASSUME TypeOK, LoopCalls, [Next]_vars
  PROVE  LoopCalls'
<1> USE DEF TypeOK, LoopCalls, owners, Callers, Calling, Probed, Acquiring, Holding, Serving, Starting,
     Ended, Saving
<1>1. ASSUME NEW p \in Proc, OpenLease(p) PROVE LoopCalls'
  BY <1>1 DEF OpenLease
<1>2. ASSUME NEW p \in Proc, WriteLease(p) PROVE LoopCalls'
  BY <1>2 DEF WriteLease
<1>3. ASSUME NEW p \in Proc, WriteFails(p) PROVE LoopCalls'
  BY <1>3, EndFacts DEF WriteFails
<1>4. ASSUME NEW p \in Proc, LoadExisting(p) PROVE LoopCalls'
  BY <1>4, EndFacts DEF LoadExisting
<1>5. ASSUME NEW p \in Proc, JudgeExisting(p) PROVE LoopCalls'
  BY <1>5, EndFacts DEF JudgeExisting
<1>6. ASSUME NEW p \in Proc, ClearExisting(p) PROVE LoopCalls'
  BY <1>6, EndFacts DEF ClearExisting
<1>7. ASSUME NEW p \in Proc, ReadGeneration(p) PROVE LoopCalls'
  BY <1>7 DEF ReadGeneration
<1>8. ASSUME NEW p \in Proc, StartServer(p) PROVE LoopCalls'
  BY <1>8 DEF StartServer
<1>9. ASSUME NEW p \in Proc, StartFails(p) PROVE LoopCalls'
  BY <1>9, EndFacts DEF StartFails
<1>10. ASSUME NEW p \in Proc, EnterLoop(p) PROVE LoopCalls'
  BY <1>10 DEF EnterLoop
<1>11. ASSUME NEW p \in Proc, RequeueFails(p) PROVE LoopCalls'
  BY <1>11, EndFacts DEF RequeueFails
<1>12. ASSUME NEW p \in Proc, Heartbeat(p) PROVE LoopCalls'
  BY <1>12, LoadForRefreshFacts DEF Heartbeat
<1>13. ASSUME NEW p \in Proc, BeginRequest(p) PROVE LoopCalls'
  BY <1>13, LoadForRefreshFacts DEF BeginRequest
<1>14. ASSUME NEW p \in Proc, FinishRequest(p) PROVE LoopCalls'
  BY <1>14, LoadForRefreshFacts DEF FinishRequest
<1>15. ASSUME NEW p \in Proc, SaveLease(p) PROVE LoopCalls'
  BY <1>15 DEF SaveLease
<1>16. ASSUME NEW p \in Proc, BeginClosing(p) PROVE LoopCalls'
  BY <1>16 DEF BeginClosing
<1>17. ASSUME NEW p \in Proc, CloseServer(p) PROVE LoopCalls'
  BY <1>17 DEF CloseServer
<1>18. ASSUME NEW p \in Proc, ReleaseLease(p) PROVE LoopCalls'
  BY <1>18, EndFacts DEF ReleaseLease
<1>19. ASSUME NEW p \in Proc, Crash(p) PROVE LoopCalls'
  BY <1>19, EndFacts DEF Crash, Die
<1>20. ASSUME NEW p \in Proc, Reap(p) PROVE LoopCalls'
  BY <1>20 DEF Reap
<1>21. ASSUME NEW x \in Callers, ProbeLoad(x) PROVE LoopCalls'
  BY <1>21, CliAssumption DEF ProbeLoad
<1>22. ASSUME NEW x \in Callers, ProbeJudge(x) PROVE LoopCalls'
  BY <1>22, CliAssumption DEF ProbeJudge
<1>23. ASSUME NEW x \in Callers, ProbeClear(x) PROVE LoopCalls'
  BY <1>23, CliAssumption DEF ProbeClear
<1>24. ASSUME NEW x \in Callers, TerminateOwner(x) PROVE LoopCalls'
  <2> DEFINE p == look[x].pid
  <2>1. CASE Running(p)
    BY <1>24, <2>1, EndFacts DEF TerminateOwner, Die, Running
  <2>2. CASE ~Running(p)
    BY <1>24, <2>2 DEF TerminateOwner
  <2>. QED
    BY <2>1, <2>2
<1>25. ASSUME NEW x \in Callers, ClearKilled(x) PROVE LoopCalls'
  BY <1>25, CliAssumption DEF ClearKilled
<1>26. ASSUME NEW c \in Cli, ProbeDone(c) PROVE LoopCalls'
  BY <1>26, CliAssumption DEF ProbeDone
<1>27. ASSUME NEW c \in Cli, NEW p \in Proc, SpawnOwner(c, p) PROVE LoopCalls'
  BY <1>27, CliAssumption DEF SpawnOwner
<1>28. ASSUME Tick \/ UNCHANGED vars PROVE LoopCalls'
  BY <1>28 DEF Tick, vars
<1>. QED
  BY <1>1, <1>2, <1>3, <1>4, <1>5, <1>6, <1>7, <1>8, <1>9, <1>10, <1>11, <1>12, <1>13, <1>14,
     <1>15, <1>16, <1>17, <1>18, <1>19, <1>20, <1>21, <1>22, <1>23, <1>24, <1>25, <1>26, <1>27, <1>28
     DEF Next, Acquire, Start, Serve, Leave, Probe, Command

\* Who is killed up to then holds the lease, which is the trouble.
LEMMA KillsEndQuiet ==
  ASSUME TypeOK, CallersKeepLease, NEW x \in Callers, TerminateOwner(x), Quiet'
  PROVE  FALSE
<1> DEFINE p == look[x].pid
<1>1. p \in Proc /\ pc[p] \in Holding
  BY DEF TerminateOwner, CallersKeepLease, Current
<1>2. End(p, "gone")
  BY <1>1 DEF TerminateOwner, Die, Running
<1>3. pc'[p] = "gone"
  BY <1>1, <1>2, EndFacts DEF Ended
<1>. QED
  BY <1>1, <1>3 DEF Quiet, HasEnded

\* Until then, no caller of ProbeOwner comes to remove a lease.
LEMMA CallerStep ==
  ASSUME TypeOK, HolderIsNamed, AgeIsRecorded, LoopCalls, FileIsHeld, ContendersGiveUp,
       CallersKeepLease, LeaseLeads,
         Quiet, [Next]_vars, Quiet'
  PROVE  CallersKeepLease'
<1> USE QuietKept DEF TypeOK, Quiet, HasEnded, AgeIsRecorded, FileIsHeld,
     ContendersGiveUp, CallersKeepLease, owners, Current, Callers, Probed, Calling,
     QueueOwnerLeaseAlive, IsPIDRunning, Running, Stale
<1>1. ASSUME NEW p \in Proc,
            Acquire(p) \/ Start(p) \/ Serve(p) \/ Leave(p) \/ Crash(p) \/ Reap(p)
      PROVE  CallersKeepLease'
  BY <1>1, CallersAreLeftAlone DEF UndisturbedBy
<1>2. ASSUME NEW x \in Callers, ProbeLoad(x) PROVE CallersKeepLease'
  BY <1>2, NoFileFacts, SeenFacts, CliAssumption, LeaseFileFacts DEF ProbeLoad
<1>3. ASSUME NEW x \in Callers, ProbeJudge(x) PROVE CallersKeepLease'
  BY <1>3, JudgeFacts, PidOfFacts, NoFileFacts, CliAssumption, LeaseFileFacts, StaleAssumption DEF ProbeJudge
<1>4. ASSUME NEW x \in Callers, ProbeClear(x) PROVE CallersKeepLease'
  BY <1>4 DEF ProbeClear
<1>5. ASSUME NEW c \in Cli, ProbeDone(c) PROVE CallersKeepLease'
  BY <1>5, CliAssumption DEF ProbeDone
<1>6. ASSUME NEW x \in Callers, TerminateOwner(x) PROVE CallersKeepLease'
  BY <1>6, KillsEndQuiet
<1>7. ASSUME NEW x \in Callers, ClearKilled(x) PROVE CallersKeepLease'
  BY <1>7 DEF ClearKilled
<1>8. ASSUME NEW c \in Cli, NEW p \in Proc, SpawnOwner(c, p) PROVE CallersKeepLease'
  BY <1>8, CliAssumption DEF SpawnOwner
<1>9. ASSUME Tick PROVE CallersKeepLease'
  <2>1. \A x \in Callers : ~Stale(look'[x])
    BY <1>9 DEF Tick
  <2>2. /\ pc' = pc /\ cpc' = cpc
        /\ \A x \in Callers : look'[x].kind = look[x].kind /\ look'[x].pid = look[x].pid
    BY <1>9, TickFacts DEF Tick
  <2>. QED
    BY <2>1, <2>2
<1>10. ASSUME UNCHANGED vars PROVE CallersKeepLease'
  BY <1>10 DEF vars
<1>. QED
  BY <1>1, <1>2, <1>3, <1>4, <1>5, <1>6, <1>7, <1>8, <1>9, <1>10 DEF Next, Probe, Command

\* Until then, the lease carries the socket and the generation of its owner.
LEMMA LeadsStep ==
  ASSUME TypeOK, HolderIsNamed, AgeIsRecorded, LoopCalls, FileIsHeld, ContendersGiveUp,
         RefreshCarriesOwn, CallersKeepLease, LeaseLeads, Quiet, [Next]_vars, Quiet'
  PROVE  LeaseLeads'
<1> USE QuietKept DEF Callers, Calling, Probed, TypeOK, Quiet, HasEnded, AgeIsRecorded, FileIsHeld,
     ContendersGiveUp, CallersKeepLease, LoopCalls, RefreshCarriesOwn, Acquiring, Holding, Serving, Starting, Saving,
     Ended, owners, LeaseLeads, HolderIsNamed, Mine
<1>1. ASSUME NEW p \in Proc, OpenLease(p) PROVE LeaseLeads'
  BY <1>1, TornFileFacts, WriteFileFacts, LeaseFileFacts DEF OpenLease
<1>2. ASSUME NEW p \in Proc, WriteLease(p) PROVE LeaseLeads'
  BY <1>2, NewLeaseFacts, WriteFileFacts, LeaseFileFacts DEF WriteLease
<1>3. ASSUME NEW p \in Proc, WriteFails(p) PROVE LeaseLeads'
  BY <1>3, NoFileFacts, WriteFileFacts, EndFacts, LeaseFileFacts DEF WriteFails
<1>4. ASSUME NEW p \in Proc, LoadExisting(p) PROVE LeaseLeads'
  BY <1>4, SeenFacts, EndFacts, LeaseFileFacts DEF LoadExisting
<1>5. ASSUME NEW p \in Proc, JudgeExisting(p) PROVE LeaseLeads'
  BY <1>5, NoFileFacts, EndFacts, LeaseFileFacts DEF JudgeExisting
<1>6. ASSUME NEW p \in Proc, ClearExisting(p) PROVE LeaseLeads'
  BY <1>6, NoFileFacts, WriteFileFacts, EndFacts, LeaseFileFacts DEF ClearExisting
<1>7. ASSUME NEW p \in Proc, ReadGeneration(p) PROVE LeaseLeads'
  BY <1>7, LeaseFileFacts DEF ReadGeneration
<1>8. ASSUME NEW p \in Proc, StartServer(p) PROVE LeaseLeads'
  BY <1>8, LeaseFileFacts DEF StartServer
<1>9. ASSUME NEW p \in Proc, StartFails(p) PROVE LeaseLeads'
  BY <1>9, NoFileFacts, WriteFileFacts, EndFacts, LeaseFileFacts DEF StartFails
<1>10. ASSUME NEW p \in Proc, EnterLoop(p) PROVE LeaseLeads'
  BY <1>10, LeaseFileFacts DEF EnterLoop
<1>11. ASSUME NEW p \in Proc, RequeueFails(p) PROVE LeaseLeads'
  BY <1>11, EndFacts, LeaseFileFacts DEF RequeueFails
<1>12. ASSUME NEW p \in Proc, Heartbeat(p) PROVE LeaseLeads'
  BY <1>12, RefreshedFacts, LoadForRefreshFacts, LeaseFileFacts DEF Heartbeat
<1>13. ASSUME NEW p \in Proc, BeginRequest(p) PROVE LeaseLeads'
  BY <1>13, RefreshedFacts, LoadForRefreshFacts, LeaseFileFacts DEF BeginRequest
<1>14. ASSUME NEW p \in Proc, FinishRequest(p) PROVE LeaseLeads'
  BY <1>14, RefreshedFacts, LoadForRefreshFacts, LeaseFileFacts DEF FinishRequest
<1>15. ASSUME NEW p \in Proc, SaveLease(p) PROVE LeaseLeads'
  BY <1>15, NoFileFacts, SaveFacts, LeaseFileFacts
<1>16. ASSUME NEW p \in Proc, BeginClosing(p) PROVE LeaseLeads'
  BY <1>16, LeaseFileFacts DEF BeginClosing
<1>17. ASSUME NEW p \in Proc, CloseServer(p) PROVE LeaseLeads'
  BY <1>17, LeaseFileFacts DEF CloseServer
<1>18. ASSUME NEW p \in Proc, ReleaseLease(p) PROVE LeaseLeads'
  BY <1>18, NoFileFacts, WriteFileFacts, EndFacts, LeaseFileFacts DEF ReleaseLease
<1>19. ASSUME NEW p \in Proc, Crash(p) PROVE LeaseLeads'
  BY <1>19, NoFileFacts, EndFacts, LeaseFileFacts DEF Crash, Die
<1>20. ASSUME NEW p \in Proc, Reap(p) PROVE LeaseLeads'
  BY <1>20, LeaseFileFacts DEF Reap
<1>21. ASSUME NEW x \in Callers, ProbeLoad(x) PROVE LeaseLeads'
  BY <1>21, NoFileFacts, SeenFacts, CliAssumption, NamesAssumption, LeaseFileFacts DEF ProbeLoad
<1>22. ASSUME NEW x \in Callers, ProbeJudge(x) PROVE LeaseLeads'
  BY <1>22, JudgeFacts, PidOfFacts, NoFileFacts, CliAssumption, NamesAssumption, LeaseFileFacts
<1>23. ASSUME NEW x \in Callers, ProbeClear(x) PROVE LeaseLeads'
  BY <1>23, NoFileFacts, WriteFileFacts, CliAssumption, NamesAssumption, LeaseFileFacts DEF ProbeClear
<1>24. ASSUME NEW c \in Cli, ProbeDone(c) PROVE LeaseLeads'
  BY <1>24, CliAssumption, NamesAssumption, LeaseFileFacts DEF ProbeDone
<1>25. ASSUME NEW x \in Callers, TerminateOwner(x) PROVE LeaseLeads'
  BY <1>25, KillsEndQuiet
<1>26. ASSUME NEW x \in Callers, ClearKilled(x) PROVE LeaseLeads'
  BY <1>26, NoFileFacts, WriteFileFacts, CliAssumption, NamesAssumption, LeaseFileFacts DEF ClearKilled
<1>27. ASSUME NEW c \in Cli, NEW p \in Proc, SpawnOwner(c, p) PROVE LeaseLeads'
  BY <1>27, CliAssumption, NamesAssumption, LeaseFileFacts DEF SpawnOwner
<1>28. ASSUME Tick PROVE LeaseLeads'
  BY <1>28, TickFacts, OlderFacts, LeaseFileFacts
<1>29. ASSUME UNCHANGED vars PROVE LeaseLeads'
  BY <1>29, LeaseFileFacts DEF vars
<1>30. ASSUME NEW x \in Callers, Probe(x) PROVE LeaseLeads'
  BY <1>30, <1>21, <1>22, <1>23, <1>25, <1>26 DEF Probe
<1>31. Proc \subseteq Callers /\ Cli \subseteq Callers
  OBVIOUS
<1>. QED
  BY <1>1, <1>2, <1>3, <1>4, <1>5, <1>6, <1>7, <1>8, <1>9, <1>10, <1>11, <1>12, <1>13,
     <1>14, <1>15, <1>16, <1>17, <1>18, <1>19, <1>20, <1>24, <1>27, <1>28, <1>29, <1>30,
     <1>31 DEF Next, Acquire, Start, Serve, Leave, Command

\* Before anything runs there is no lease and nobody has been robbed.
LEMMA InitIInv == Init => IInv
<1> SUFFICES ASSUME Init PROVE IInv
  OBVIOUS
<1> USE NoFileFacts DEF Init
<1>1. TypeOK
  <2>1. file \in LeaseFile /\ look \in [Callers -> LeaseFile]
    OBVIOUS
  <2>2. pc \in [Proc -> {"new"} \cup Acquiring \cup Holding \cup Ended]
    OBVIOUS
  <2>3. attempt \in [Proc -> 0 .. 1] /\ due \in [Proc -> BOOLEAN]
    OBVIOUS
  <2>4. born \in [Proc -> 0 .. StaleTicks + 1]
    BY StaleAssumption
  <2>. QED
    BY <2>1, <2>2, <2>3, <2>4 DEF TypeOK
<1>2. HolderIsNamed /\ MixedLeaseMeansRobbed /\ RefreshCarriesOwn /\ HeartbeatKept
     /\ LoopCalls
  BY DEF HolderIsNamed, MixedLeaseMeansRobbed, RefreshCarriesOwn, HeartbeatKept, LoopCalls, Callers,
         Holding, Serving, Starting, Saving
<1>3. AgeIsRecorded
  BY StaleAssumption DEF AgeIsRecorded, Stale
<1>4. FileIsHeld /\ ContendersGiveUp /\ CallersKeepLease /\ LeaseLeads
  BY DEF FileIsHeld, ContendersGiveUp, CallersKeepLease, LeaseLeads, Holding, Serving, Callers,
         Starting, Saving
<1>. QED
  BY <1>1, <1>2, <1>3, <1>4 DEF IInv, QuietInv

\* The strengthening is preserved by every step.
LEMMA NextIInv == IInv /\ [Next]_vars => IInv'
<1> SUFFICES ASSUME IInv, [Next]_vars PROVE IInv'
  OBVIOUS
<1> USE DEF IInv
<1>1. TypeOK' /\ HolderIsNamed' /\ MixedLeaseMeansRobbed' /\ RefreshCarriesOwn'
  BY TypeStep, HolderStep, MixedStep, RefreshStep
<1>2. AgeIsRecorded' /\ HeartbeatKept' /\ LoopCalls'
  BY AgeStep, HeartbeatStep, LoopStep
<1>3. QuietInv'
  <2> SUFFICES ASSUME Quiet'
      PROVE  FileIsHeld' /\ ContendersGiveUp' /\ CallersKeepLease' /\ LeaseLeads'
    BY DEF QuietInv
  <2>1. Quiet
    BY QuietKept
  <2>2. FileIsHeld /\ ContendersGiveUp /\ CallersKeepLease /\ LeaseLeads
    BY <2>1 DEF QuietInv
  <2>. QED
    BY <2>1, <2>2, FileStep, ContenderStep, CallerStep, LeadsStep
<1>. QED
  BY <1>1, <1>2, <1>3

\* The strengthening holds in every behaviour.
LEMMA Invariance == Spec => []IInv
BY InitIInv, NextIInv, PTL DEF Spec

\* The types of the lease file, of what was read of it and of every process's
\* place in runInternalOwner and TryAcquireLease, in every behaviour.
THEOREM TypeCorrect == Spec => []TypeOK
<1>1. IInv => TypeOK
  BY DEF IInv
<1>. QED
  BY <1>1, Invariance, PTL

\* Whoever won O_EXCL owns the file until somebody takes it: every violation of
\* exclusive ownership goes back to a ClearLease or RefreshLease of another process.
THEOREM OwnershipIsLostOnlyByRobbery == Spec => []HolderIsNamed
<1>1. IInv => HolderIsNamed
  BY DEF IInv
<1>. QED
  BY <1>1, Invariance, PTL

\* Without an end of a holder and without a lease that outlives its heartbeat,
\* nobody takes a lease, whatever the interleaving of the file operations.
THEOREM NoRobberyUntilTrouble == Spec => []NoRobberyBeforeTrouble
<1>1. IInv => NoRobberyBeforeTrouble
  BY DEF IInv, QuietInv, FileIsHeld, Quiet, NoRobberyBeforeTrouble
<1>. QED
  BY <1>1, Invariance, PTL

\* Until then at most one process owns the session's queue, for any number of
\* internal-owner processes and commands.
THEOREM ExclusiveUntilTrouble == Spec => []ExclusiveBeforeTrouble
<1>1. IInv => ExclusiveBeforeTrouble
  BY DEF IInv, QuietInv, FileIsHeld, Quiet, ExclusiveBeforeTrouble, HolderIsNamed, Mine
<1>. QED
  BY <1>1, Invariance, PTL

\* Until then a client that reads the lease reaches the serving owner's socket
\* and accepts its answers.
THEOREM ReachableUntilTrouble == Spec => []LeaseLeadsToOwner
<1>1. IInv => LeaseLeadsToOwner
  <2> SUFFICES ASSUME IInv, NEW p \in Proc, pc[p] \in Serving, Quiet
      PROVE  file.socket /\ sock = p /\ ipcGen[p] = file.gen
    BY DEF LeaseLeadsToOwner, Quiet
  <2>1. p \notin robbed /\ pc[p] \in Holding /\ pc[p] # "write"
    BY DEF IInv, QuietInv, FileIsHeld, Holding, Serving
  <2>2. file.kind = "lease" /\ file.gen = p
    BY <2>1, LeaseFileFacts DEF IInv, TypeOK, HolderIsNamed, Mine
  <2>. QED
    BY <2>1, <2>2 DEF IInv, QuietInv, LeaseLeads
<1>. QED
  BY <1>1, Invariance, PTL

\* A lease whose pid and generation differ was written by an owner that had
\* already lost its own.
THEOREM MixedLeaseIsATrace == Spec => []MixedLeaseMeansRobbed
<1>1. IInv => MixedLeaseMeansRobbed
  BY DEF IInv
<1>. QED
  BY <1>1, Invariance, PTL

\* From its start to the end of its loop an owner's lease is fresh whenever it is
\* between requests, unless it was robbed or took StaleTicks intervals to acquire it.
THEOREM IdleOwnerKeepsFresh == Spec => []IdleOwnerIsFresh
<1>1. IInv => IdleOwnerIsFresh
  <2> SUFFICES ASSUME IInv, NEW p \in Proc, pc[p] \in Starting \cup {"idle"},
                      p \notin robbed, born[p] < StaleTicks
      PROVE  ~Stale(file)
    BY DEF IdleOwnerIsFresh
  <2>1. file.age \in Nat
    BY LeaseFileFacts DEF IInv, TypeOK
  <2>2. file.age <= StaleTicks
    BY <2>1, StaleAssumption DEF IInv, HeartbeatKept
  <2>. QED
    BY <2>1, <2>2, StaleAssumption DEF Stale
<1>. QED
  BY <1>1, Invariance, PTL
=============================================================================
