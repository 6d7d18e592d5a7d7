--------------------------- MODULE OwnerIPC_proofs ---------------------------
(***************************************************************************)
(* Proofs about OwnerIPC, for any commands, events and failures: a prompt  *)
(* is submitted once; what a command was told of its prompt stays in the   *)
(* request file; what it has printed is all of its events in order, whether*)
(* they came over the socket or were read from the log.  All of it follows *)
(* from what can be said of one command, of its connection and of its two  *)
(* request files, which a step of another command leaves as it is.  Last,  *)
(* OwnerIPC implements RequestLife.                                        *)
(***************************************************************************)
EXTENDS OwnerIPC, FiniteSetTheorems, TLAPS

-----------------------------------------------------------------------------
\* Types.

Envelopes == [type : {"accepted", "event", "result", "error"}, nth : Nat, status : Statuses]
Conns == [gen : Nat, open : BOOLEAN, read : BOOLEAN, missed : Nat, wire : Seq(Envelopes),
          srv : {"none", "called", "register", "accept", "waiting", "gone"}]
Files == [status : Statuses, order : Nat, started : Nat]
IsCmd(x) ==
  x \in [json : BOOLEAN, mine : Req \cup {NoReq}, read : Nat, seen : Nat, since : Nat,
         pc : {"lease", "dial", "reading", "enqueue", "ensure", "flush", "load", "history",
               "last", "done"},
         streamed : Seq(Nat), polled : Seq(Nat), via : {"none", "stream", "poll"},
         told : Statuses]

FileTypes == file \in [Req -> Files] /\ IsFiniteSet({r \in Req : file[r].status # "absent"})
LogTypes  == log \in Seq([of : Req, gen : Nat, nth : Nat])
OwnTypes  ==
  /\ own \in {"down", "spawned", "acquired", "idle", "running", "saved", "leaving", "closed"}
  /\ gen \in Nat /\ lease \in Nat /\ out \in Statuses /\ cur \in Req \cup {NoReq}
  /\ own \in {"running", "saved"} <=> cur # NoReq
ConnTypes == conn \in [Cmds -> Conns] /\ subs \in SUBSET Cmds
CmdTypes  == cmd = [c \in Cmds |-> cmd[c]] /\ \A c \in Cmds : IsCmd(cmd[c])
TypeInv   == FileTypes /\ LogTypes /\ OwnTypes /\ ConnTypes /\ CmdTypes

LEMMA ReqIs ==
  /\ NoReq \notin Req
  /\ \A c \in Cmds : <<c, "socket">> \in Req /\ <<c, "file">> \in Req /\ <<c, "socket">> # <<c, "file">>
  /\ \A r \in Req : /\ r[1] \in Cmds /\ r[2] \in {"socket", "file"}
                    /\ r = <<r[1], r[2]>> /\ r # NoReq
BY DEF Req, NoReq

LEMMA ExecutedIs ==
  ASSUME LogTypes, NEW r \in Req
  PROVE  Executed(r) \in Nat /\ \A g : Logged(r, g) \in Nat
<1>1. ASSUME NEW g PROVE Logged(r, g) \in Nat
  <2> DEFINE S == {i \in 1..Len(log) : log[i].of = r /\ log[i].gen = g}
  <2>1. Len(log) \in Nat
    BY DEF LogTypes
  <2>2. IsFiniteSet(1..Len(log))
    BY <2>1, FS_Interval
  <2>3. IsFiniteSet(S)
    BY <2>2, FS_Subset
  <2> QED
    BY <2>3, FS_CardinalityType DEF Logged
<1> QED
  BY <1>1 DEF Executed

\* A finite set of numbers in order: every element once, the lesser before the greater.
LEMMA InOrderIs ==
  ASSUME NEW n \in Nat, NEW S \in SUBSET (1..n)
  PROVE  /\ InOrder(S) \in Seq(Nat)
         /\ \A i \in 1..Len(InOrder(S)) : InOrder(S)[i] \in S
         /\ \A s \in S : \E i \in 1..Len(InOrder(S)) : InOrder(S)[i] = s
         /\ \A i, j \in 1..Len(InOrder(S)) : i < j => InOrder(S)[i] < InOrder(S)[j]
<1> DEFINE upto(i) == {j \in S : j <= i}
           rank == [i \in S |-> Cardinality(upto(i))]
           m == Cardinality(S)
<1>0. S \subseteq Nat /\ IsFiniteSet(1..n)
  BY FS_Interval
<1>1. IsFiniteSet(S)
  BY <1>0, FS_Subset
<1>2. m \in Nat /\ IsFiniteSet(1..m) /\ Cardinality(1..m) = m
  BY <1>1, FS_CardinalityType, FS_Interval
<1>3. ASSUME NEW i \in S
      PROVE  IsFiniteSet(upto(i)) /\ rank[i] = Cardinality(upto(i)) /\ rank[i] \in 1..m
  <2>1. upto(i) \in SUBSET S
    OBVIOUS
  <2>2. IsFiniteSet(upto(i)) /\ Cardinality(upto(i)) <= m
    BY <1>1, <2>1, FS_Subset
  <2>3. Cardinality(upto(i)) \in Nat
    BY <2>2, FS_CardinalityType
  <2>4. upto(i) # {}
    OBVIOUS
  <2>5. Cardinality(upto(i)) # 0
    BY <2>2, <2>4, FS_EmptySet
  <2> QED
    BY <1>2, <2>2, <2>3, <2>5
<1>4. ASSUME NEW i \in S, NEW j \in S, i < j
      PROVE  rank[i] < rank[j]
  <2>0. i \in Nat /\ j \in Nat /\ \A k \in S : k \in Nat
    BY <1>0
  <2>1. upto(i) \in SUBSET upto(j) /\ j \in upto(j) /\ j \notin upto(i)
    <3>1. \A k \in S : k <= i => k <= j
      BY <1>4, <2>0
    <3>2. j <= j /\ ~(j <= i)
      BY <1>4, <2>0
    <3> QED
      BY <3>1, <3>2
  <2>2. Cardinality(upto(i)) <= Cardinality(upto(j)) /\ Cardinality(upto(j)) # Cardinality(upto(i))
    <3>1. IsFiniteSet(upto(j))
      BY <1>3
    <3> HIDE DEF upto
    <3> QED
      BY <2>1, <3>1, FS_Subset
  <2>3. /\ rank[i] = Cardinality(upto(i)) /\ rank[j] = Cardinality(upto(j))
        /\ rank[i] \in 1..m /\ rank[j] \in 1..m
    BY <1>3
  <2> HIDE DEF upto, rank, m
  <2> QED
    BY <1>2, <2>2, <2>3
<1> HIDE DEF upto, rank
<1>5. rank \in [S -> 1..m]
  <2>1. rank = [i \in S |-> Cardinality(upto(i))]
    BY DEF rank
  <2> QED
    BY <1>3, <2>1
<1>6. \A i, j \in S : rank[i] = rank[j] => i = j
  <2> SUFFICES ASSUME NEW i \in S, NEW j \in S, i # j PROVE rank[i] # rank[j]
    OBVIOUS
  <2>1. i < j \/ j < i
    OBVIOUS
  <2>2. rank[i] \in Nat /\ rank[j] \in Nat
    BY <1>2, <1>3
  <2> QED
    BY <1>4, <2>1, <2>2
<1>7. rank \in Injection(S, 1..m)
  BY <1>5, <1>6 DEF Injection, IsInjective
<1>8. rank \in Surjection(S, 1..m)
  <2> HIDE DEF m
  <2>1. Cardinality(S) = Cardinality(1..m)
    BY <1>2 DEF m
  <2> QED
    BY <1>2, <1>7, <2>1, FS_Injection
<1>9. \A k \in 1..m : \E i \in S : rank[i] = k
  BY <1>8 DEF Surjection
<1> DEFINE at(k) == CHOOSE i \in S : Cardinality(upto(i)) = k
           seq == [k \in 1..m |-> at(k)]
<1>10. ASSUME NEW k \in 1..m PROVE at(k) \in S /\ rank[at(k)] = k /\ seq[k] = at(k)
  <2>1. \E i \in S : Cardinality(upto(i)) = k
    BY <1>3, <1>9
  <2>2. at(k) \in S /\ Cardinality(upto(at(k))) = k
    BY <2>1
  <2> QED
    BY <1>3, <2>2
<1>11. InOrder(S) = seq
  BY DEF InOrder, upto
<1> HIDE DEF at
<1>12. seq \in Seq(Nat) /\ Len(seq) = m
  <2>1. \A k \in 1..m : at(k) \in Nat
    BY <1>0, <1>10
  <2> HIDE DEF m
  <2> QED
    BY <1>2, <2>1
<1>13. ASSUME NEW s \in S PROVE \E i \in 1..m : seq[i] = s
  <2>1. rank[s] \in 1..m
    BY <1>3
  <2>2. seq[rank[s]] = s
    BY <1>6, <1>10, <2>1
  <2> QED
    BY <2>1, <2>2
<1>14. ASSUME NEW i \in 1..m, NEW j \in 1..m, i < j
       PROVE  seq[i] < seq[j]
  <2>1. /\ seq[i] \in S /\ seq[j] \in S /\ seq[i] \in Nat /\ seq[j] \in Nat
        /\ rank[seq[i]] = i /\ rank[seq[j]] = j
    <3> HIDE DEF seq
    <3> QED
      BY <1>0, <1>10
  <2>2. ~(seq[j] < seq[i]) /\ seq[i] # seq[j]
    BY <1>4, <1>14, <2>1
  <2> QED
    BY <2>1, <2>2
<1> HIDE DEF seq
<1> QED
  BY <1>10, <1>11, <1>12, <1>13, <1>14

\* What is new in the log, in order.
LEMMA FreshIs ==
  ASSUME LogTypes, NEW c \in Cmds
  PROVE  LET f == Fresh(c) IN
         /\ f \in Seq(Nat)
         /\ \A i \in 1..Len(f) : f[i] \in New(c)
         /\ \A s \in New(c) : \E i \in 1..Len(f) : f[i] = s
         /\ \A i, j \in 1..Len(f) : i < j => f[i] < f[j]
<1>1. Len(log) \in Nat /\ New(c) \in SUBSET (1..Len(log))
  BY DEF LogTypes, New
<1> QED
  BY <1>1, InOrderIs DEF Fresh

LEMMA EnqueuedTypes ==
  ASSUME FileTypes, NEW r \in Req, Enqueued(r)
  PROVE  /\ FileTypes' /\ file'[r].status = "queued"
         /\ \A s \in Req : s # r => file'[s] = file[s]
<1> DEFINE S == {s \in Req : file[s].status # "absent"}
           n == Cardinality(S) + 1
           f == [status |-> "queued", order |-> n, started |-> 0]
<1>1. Cardinality(S) \in Nat
  BY FS_CardinalityType DEF FileTypes
<1>2. f \in Files /\ f.status = "queued"
  BY <1>1 DEF Files, Statuses
<1>3. file' = [file EXCEPT ![r] = f]
  BY DEF Enqueued
<1> HIDE DEF f
<1>4. file' \in [Req -> Files] /\ file'[r] = f /\ \A s \in Req : s # r => file'[s] = file[s]
  BY <1>2, <1>3 DEF FileTypes
<1>5. {s \in Req : file'[s].status # "absent"} = S \cup {r}
  BY <1>2, <1>4
<1>6. IsFiniteSet(S \cup {r})
  BY FS_AddElement DEF FileTypes
<1> QED
  BY <1>2, <1>4, <1>5, <1>6 DEF FileTypes

\* A request file that is there gets another status and keeps what it has.
LEMMA StatusTypes ==
  ASSUME FileTypes, NEW new \in [Req -> Files], file' = new,
         \A r \in Req : new[r].status # "absent" => file[r].status # "absent"
  PROVE  FileTypes'
<1>1. {r \in Req : file'[r].status # "absent"} \subseteq {r \in Req : file[r].status # "absent"}
  OBVIOUS
<1> QED
  BY <1>1, FS_Subset DEF FileTypes

\* A command's fields are changed one by one.
LEMMA CmdChanges ==
  ASSUME CmdTypes, NEW c \in Cmds, NEW x, IsCmd(x), cmd' = [cmd EXCEPT ![c] = x]
  PROVE  CmdTypes' /\ cmd'[c] = x /\ \A d \in Cmds : d # c => cmd'[d] = cmd[d]
<1>1. \A d \in Cmds : cmd'[d] = IF d = c THEN x ELSE cmd[d]
  BY DEF CmdTypes
<1>2. cmd' = [d \in Cmds |-> cmd'[d]]
  BY DEF CmdTypes
<1> QED
  BY <1>1, <1>2 DEF CmdTypes

LEMMA ConnChanges ==
  ASSUME ConnTypes, NEW c \in Cmds, NEW x \in Conns, conn' = [conn EXCEPT ![c] = x]
  PROVE  conn' \in [Cmds -> Conns] /\ conn'[c] = x /\ \A d \in Cmds : d # c => conn'[d] = conn[d]
BY DEF ConnTypes

-----------------------------------------------------------------------------
\* The story of a command.

Final(e)   == e.type \in {"result", "error"}
Socket(c)  == file[<<c, "socket">>].status
Queue(c)   == file[<<c, "file">>].status
Waits(c)   == cmd[c].mine \in {<<c, "socket">>, <<c, "file">>}
\* What may be told over a connection: an outcome, or that nothing was queued by a
\* handler that is done.
Outcome(s, srv) == Terminal(s) \/ (s = "absent" /\ srv \notin {"none", "called"})

\* Where a command, its connection and its files are.
Places(c) ==
  /\ cmd[c].pc \in {"lease", "dial"} => conn[c].srv = "none"
  /\ cmd[c].pc \in {"lease", "dial", "enqueue"} => cmd[c].mine = NoReq
  /\ cmd[c].pc = "reading" => /\ conn[c].srv # "none" /\ conn[c].read
                              /\ cmd[c].mine \in {NoReq, <<c, "socket">>}
  /\ cmd[c].pc \in {"ensure", "flush", "load", "history", "last"} => Waits(c)
  /\ cmd[c].pc \in {"lease", "dial", "reading", "enqueue"} => Queue(c) = "absent"
  /\ conn[c].srv \in {"none", "called"} => Socket(c) = "absent" /\ c \notin subs
  /\ conn[c].srv = "none" => conn[c].wire = <<>>
  /\ conn[c].gen <= gen
  /\ cmd[c].via # "none" => cmd[c].pc = "done"
\* What is on the wire, and what it has been told, is what the file says for good.
Truth(c) ==
  /\ \A i \in 1..Len(conn[c].wire) : Final(conn[c].wire[i]) =>
       Outcome(conn[c].wire[i].status, conn[c].srv) /\ Socket(c) = conn[c].wire[i].status
  /\ cmd[c].via = "stream" => Outcome(cmd[c].told, conn[c].srv) /\ Socket(c) = cmd[c].told
  /\ cmd[c].pc = "last" \/ cmd[c].via = "poll" =>
       Waits(c) /\ Terminal(cmd[c].told) /\ file[cmd[c].mine].status = cmd[c].told
\* A stream that ends without an outcome has lost its owner.
Once(c) ==
  /\ cmd[c].pc = "reading" /\ ~conn[c].open =>
       ServerIsGone(c) \/ \E i \in 1..Len(conn[c].wire) : Final(conn[c].wire[i])
  /\ cmd[c].pc = "enqueue" \/ Queue(c) # "absent" =>
       conn[c].srv = "none" \/ ServerIsGone(c) \/ conn[c].gen # cmd[c].read
Story(c) == Places(c) /\ Truth(c) /\ Once(c)

\* The owner has a request that runs, or whose outcome is saved, in hand.
InHand ==
  /\ own = "running" => file[cur].status = "running"
  /\ own = "saved" => Terminal(out) /\ file[cur].status = out
StoryInv == InHand /\ \A c \in Cmds : Story(c)

\* A file is not submitted by the step, and an outcome is for good.
FileKept(r) == /\ file'[r].status = "absent" <=> file[r].status = "absent"
               /\ Terminal(file[r].status) => file'[r].status = file[r].status
FilesKept(c) == FileKept(<<c, "socket">>) /\ FileKept(<<c, "file">>)
\* An owner that is gone does not come back for a connection it has lost.
GenKept(c) == /\ gen' \in Nat /\ gen <= gen'
              /\ ServerIsGone(c) /\ conn[c].srv # "none" => ServerIsGone(c)'
\* At its end a connection keeps what it carries, and takes what is true; it is
\* closed with an outcome or by an owner that goes.
ConnKept(c) ==
  LET old == conn[c]
      new == conn'[c]
  IN  /\ new.gen = old.gen /\ new.read = old.read
      /\ new.srv = old.srv \/ (old.srv # "none" /\ new.srv \notin {"none", "called"})
      /\ c \in subs' => c \in subs \/ new.srv \notin {"none", "called"}
      /\ old.srv = "none" => new.wire = old.wire
      /\ Len(new.wire) \in Nat /\ Len(old.wire) <= Len(new.wire)
      /\ \A i \in 1..Len(old.wire) : new.wire[i] = old.wire[i]
      /\ \A i \in 1..Len(new.wire) : i > Len(old.wire) /\ Final(new.wire[i]) =>
           Outcome(new.wire[i].status, new.srv) /\ file'[<<c, "socket">>].status = new.wire[i].status
      /\ ~new.open => \/ ~old.open \/ ServerIsGone(c)' \/ cmd[c].pc # "reading"
                      \/ \E i \in 1..Len(new.wire) : Final(new.wire[i])

\* A step of the owner's process, or of another command.
LEMMA StoryKept ==
  ASSUME TypeInv, NEW c \in Cmds, Story(c), cmd'[c] = cmd[c],
         FilesKept(c), GenKept(c), ConnKept(c)
  PROVE  Story(c)'
<1> USE DEF FilesKept, GenKept, ConnKept
<1>1. Len(conn[c].wire) \in Nat /\ conn[c].gen \in Nat /\ gen \in Nat
  BY DEF TypeInv, ConnTypes, Conns, OwnTypes
<1>2. (Waits(c)' <=> Waits(c)) /\ (Waits(c) => FileKept(cmd[c].mine))
  BY DEF Waits
<1>3. Places(c)'
  BY <1>1, <1>2 DEF Story, Places, Queue, Socket, FileKept, Waits
<1>4. Truth(c)'
  <2>1. ASSUME NEW i \in 1..Len(conn'[c].wire), Final(conn'[c].wire[i])
        PROVE  Outcome(conn'[c].wire[i].status, conn'[c].srv) /\ Socket(c)' = conn'[c].wire[i].status
    <3>1. CASE i \in 1..Len(conn[c].wire)
      BY <2>1, <3>1 DEF Story, Truth, FileKept, Socket, Outcome
    <3>2. CASE i > Len(conn[c].wire)
      BY <2>1, <3>2 DEF Socket
    <3> QED
      BY <1>1, <3>1, <3>2
  <2>2. cmd[c].via = "stream" => Outcome(cmd[c].told, conn'[c].srv) /\ Socket(c)' = cmd[c].told
    BY DEF Story, Truth, FileKept, Socket, Outcome
  <2>3. cmd[c].pc = "last" \/ cmd[c].via = "poll" =>
          Waits(c)' /\ Terminal(cmd[c].told) /\ file'[cmd[c].mine].status = cmd[c].told
    BY <1>2 DEF Story, Truth, FileKept
  <2> QED
    BY <2>1, <2>2, <2>3 DEF Truth, Final, Terminal, Outcome
<1>5. Once(c)'
  <2>1. cmd[c].pc = "reading" /\ ~conn'[c].open =>
          ServerIsGone(c)' \/ \E i \in 1..Len(conn'[c].wire) : Final(conn'[c].wire[i])
    <3> SUFFICES ASSUME cmd[c].pc = "reading", ~conn[c].open
                 PROVE  ServerIsGone(c)' \/ \E i \in 1..Len(conn'[c].wire) : Final(conn'[c].wire[i])
      OBVIOUS
    <3>1. CASE ServerIsGone(c)
      BY <3>1 DEF Story, Places
    <3>2. CASE \E i \in 1..Len(conn[c].wire) : Final(conn[c].wire[i])
      <4>1. PICK i \in 1..Len(conn[c].wire) : Final(conn[c].wire[i])
        BY <3>2
      <4>2. i \in 1..Len(conn'[c].wire) /\ conn'[c].wire[i] = conn[c].wire[i]
        BY <1>1
      <4> QED
        BY <4>1, <4>2
    <3> QED
      BY <3>1, <3>2 DEF Story, Once
  <2>2. cmd[c].pc = "enqueue" \/ Queue(c)' # "absent" =>
          conn'[c].srv = "none" \/ ServerIsGone(c)' \/ conn'[c].gen # cmd[c].read
    BY DEF Story, Once, Queue, FileKept
  <2> QED
    BY <2>1, <2>2 DEF Once, Final
<1> QED
  BY <1>3, <1>4, <1>5 DEF Story

\* The step does not touch the connection either.
LEMMA StorySame ==
  ASSUME TypeInv, NEW c \in Cmds, Story(c), cmd'[c] = cmd[c], conn'[c] = conn[c],
         FilesKept(c), GenKept(c),
         c \in subs' => c \in subs \/ conn'[c].srv \notin {"none", "called"}
  PROVE  Story(c)'
<1>1. Len(conn[c].wire) \in Nat
  BY DEF TypeInv, ConnTypes, Conns
<1>2. \A i \in 1..Len(conn'[c].wire) : i > Len(conn[c].wire) /\ Final(conn'[c].wire[i]) =>
        Outcome(conn'[c].wire[i].status, conn'[c].srv) /\ file'[<<c, "socket">>].status = conn'[c].wire[i].status
  BY <1>1
<1>3. \A i \in 1..Len(conn[c].wire) : conn'[c].wire[i] = conn[c].wire[i]
  OBVIOUS
<1>4. Len(conn'[c].wire) \in Nat /\ Len(conn[c].wire) <= Len(conn'[c].wire)
  BY <1>1
<1>5. /\ conn'[c].gen = conn[c].gen /\ conn'[c].read = conn[c].read /\ conn'[c].srv = conn[c].srv
      /\ conn[c].srv = "none" => conn'[c].wire = conn[c].wire
      /\ ~conn'[c].open => ~conn[c].open
  OBVIOUS
<1>6. ConnKept(c)
  BY <1>2, <1>3, <1>4, <1>5 DEF ConnKept
<1> QED
  BY <1>6, StoryKept

\* A step of command c, or of its handler.
LEMMA OthersStay ==
  ASSUME TypeInv, StoryInv, NEW c \in Cmds, gen' = gen,
         own' = own \/ (own = "down" /\ own' = "spawned"),
         \A d \in Cmds : d # c => /\ cmd'[d] = cmd[d] /\ conn'[d] = conn[d] /\ FilesKept(d)
                                  /\ d \in subs' => d \in subs
  PROVE  \A d \in Cmds : d # c => Story(d)'
<1> SUFFICES ASSUME NEW d \in Cmds, d # c PROVE Story(d)'
  OBVIOUS
<1>1. GenKept(d)
  BY DEF GenKept, ServerIsGone, TypeInv, OwnTypes
<1> QED
  BY <1>1, StorySame DEF StoryInv

LEMMA SameFiles ==
  ASSUME file' = file
  PROVE  \A d \in Cmds : FilesKept(d)
BY DEF FilesKept, FileKept

-----------------------------------------------------------------------------
\* The command.

\* A command that goes on from where it is, and touches nothing but itself and the lease.
LEMMA Alone ==
  ASSUME TypeInv, StoryInv, NEW c \in Cmds, NEW x, IsCmd(x), cmd' = [cmd EXCEPT ![c] = x],
         UNCHANGED <<file, log, gen, cur, out, subs, conn>>, lease' \in Nat,
         own' = own \/ (own = "down" /\ own' = "spawned")
  PROVE  /\ TypeInv' /\ cmd'[c] = x
         /\ Story(c)' => StoryInv'
<1>1. CmdTypes' /\ cmd'[c] = x /\ \A d \in Cmds : d # c => cmd'[d] = cmd[d]
  BY CmdChanges DEF TypeInv
<1>2. OwnTypes'
  BY DEF TypeInv, OwnTypes
<1>3. TypeInv'
  BY <1>1, <1>2 DEF TypeInv, FileTypes, LogTypes, ConnTypes
<1>4. \A d \in Cmds : d # c => Story(d)'
  BY <1>1, SameFiles, OthersStay
<1>5. InHand'
  BY DEF StoryInv, InHand
<1> QED
  BY <1>1, <1>3, <1>4, <1>5 DEF StoryInv

LEMMA LoadLeaseStep ==
  ASSUME TypeInv, StoryInv, NEW c \in Cmds, LoadLease(c)
  PROVE  TypeInv' /\ StoryInv'
<1>1. PICK alive \in LeaseAlive :
        cmd' = [cmd EXCEPT ![c].pc = IF alive THEN "dial" ELSE "enqueue",
                           ![c].read = IF alive THEN lease ELSE 0]
  BY DEF LoadLease
<1> DEFINE x == [cmd[c] EXCEPT !.pc = IF alive THEN "dial" ELSE "enqueue",
                               !.read = IF alive THEN lease ELSE 0]
<1>2. IsCmd(cmd[c]) /\ lease \in Nat
  BY DEF TypeInv, CmdTypes, OwnTypes
<1>3. IsCmd(x) /\ x.pc \in {"dial", "enqueue"} /\ x.mine = cmd[c].mine /\ x.via = cmd[c].via
  BY <1>2 DEF IsCmd
<1>4. cmd' = [cmd EXCEPT ![c] = x]
  BY <1>1, <1>2 DEF TypeInv, CmdTypes, IsCmd
<1> HIDE DEF x
<1>5. UNCHANGED <<file, log, gen, cur, out, subs, conn, own, lease>>
  BY DEF LoadLease, ownVars
<1>6. TypeInv' /\ cmd'[c] = x /\ (Story(c)' => StoryInv')
  BY <1>2, <1>3, <1>4, <1>5, Alone
<1>7. Story(c)
  BY DEF StoryInv
<1>8. cmd[c].pc = "lease"
  BY DEF LoadLease
<1>9. Places(c)'
  BY <1>3, <1>5, <1>6, <1>7, <1>8 DEF Story, Places, Queue, Socket, Waits
<1>10. Truth(c)'
  BY <1>3, <1>5, <1>6, <1>7, <1>8 DEF Story, Places, Truth, Socket, Waits
<1>11. Once(c)'
  BY <1>3, <1>5, <1>6, <1>7, <1>8 DEF Story, Places, Once, Queue
<1> QED
  BY <1>6, <1>9, <1>10, <1>11 DEF Story

LEMMA EnsureOwnerStep ==
  ASSUME TypeInv, StoryInv, NEW c \in Cmds, EnsureOwner(c)
  PROVE  TypeInv' /\ StoryInv'
<1> DEFINE x == [cmd[c] EXCEPT !.pc = IF c \notin Waiting THEN "done"
                                      ELSE IF cmd[c].json THEN "flush" ELSE "load"]
<1>1. IsCmd(cmd[c]) /\ lease \in Nat
  BY DEF TypeInv, CmdTypes, OwnTypes
<1>2. /\ IsCmd(x) /\ x.pc \in {"done", "flush", "load"} /\ x.mine = cmd[c].mine
      /\ x.via = cmd[c].via /\ x.told = cmd[c].told
  BY <1>1 DEF IsCmd
<1>3. cmd' = [cmd EXCEPT ![c] = x]
  BY DEF EnsureOwner, Goto
<1> HIDE DEF x
<1>4. PICK alive \in LeaseAlive : Probe(alive) /\ own' = IF ~alive /\ own = "down" THEN "spawned" ELSE own
  BY DEF EnsureOwner
<1>5. lease' \in Nat /\ (own' = own \/ (own = "down" /\ own' = "spawned"))
  BY <1>1, <1>4 DEF Probe
<1>6. UNCHANGED <<file, log, gen, cur, out, subs, conn>>
  BY DEF EnsureOwner
<1>7. TypeInv' /\ cmd'[c] = x /\ (Story(c)' => StoryInv')
  BY <1>2, <1>3, <1>5, <1>6, Alone
<1>8. Story(c) /\ cmd[c].pc = "ensure"
  BY DEF StoryInv, EnsureOwner
<1>9. Places(c)'
  BY <1>2, <1>6, <1>7, <1>8 DEF Story, Places, Queue, Socket, Waits
<1>10. Truth(c)'
  BY <1>2, <1>6, <1>7, <1>8 DEF Story, Places, Truth, Socket, Waits
<1>11. ServerIsGone(c) => ServerIsGone(c)'
  BY <1>5, <1>6 DEF ServerIsGone
<1>12. x.read = cmd[c].read
  BY <1>1 DEF IsCmd, x
<1>13. Once(c)'
  BY <1>2, <1>6, <1>7, <1>8, <1>11, <1>12 DEF Story, Places, Once, Queue
<1> QED
  BY <1>7, <1>9, <1>10, <1>13 DEF Story

LEMMA LoadRequestStep ==
  ASSUME TypeInv, StoryInv, NEW c \in Cmds, LoadRequest(c)
  PROVE  TypeInv' /\ StoryInv'
<1> DEFINE f    == file[cmd[c].mine]
           ends == Terminal(f.status)
           x == [cmd[c] EXCEPT !.pc = IF ends THEN "last" ELSE IF cmd[c].json THEN "flush" ELSE "history",
                               !.told  = IF ends THEN f.status ELSE @,
                               !.since = IF @ = 0 THEN f.started ELSE @]
<1>1. IsCmd(cmd[c]) /\ lease \in Nat
  BY DEF TypeInv, CmdTypes, OwnTypes
<1>2. Story(c) /\ cmd[c].pc = "load"
  BY DEF StoryInv, LoadRequest
<1>3. cmd[c].mine \in Req /\ Waits(c)
  BY <1>2, ReqIs DEF Story, Places, Waits
<1>4. f.status \in Statuses /\ f.started \in Nat
  BY <1>3 DEF TypeInv, FileTypes, Files
<1>5. IsCmd(x)
  BY <1>1, <1>4 DEF IsCmd
<1>6. /\ x.pc = IF ends THEN "last" ELSE IF cmd[c].json THEN "flush" ELSE "history"
      /\ x.told  = IF ends THEN f.status ELSE cmd[c].told
      /\ x.mine = cmd[c].mine /\ x.via = cmd[c].via /\ x.read = cmd[c].read
  BY <1>1 DEF IsCmd
<1>7. cmd' = [cmd EXCEPT ![c] = x]
  BY <1>1 DEF LoadRequest, TypeInv, CmdTypes, IsCmd
<1> HIDE DEF x
<1>8. UNCHANGED <<file, log, gen, cur, out, subs, conn, own, lease>>
  BY DEF LoadRequest, ownVars
<1>9. TypeInv' /\ cmd'[c] = x /\ (Story(c)' => StoryInv')
  BY <1>1, <1>5, <1>7, <1>8, Alone
<1>10. Places(c)'
  BY <1>2, <1>6, <1>8, <1>9 DEF Story, Places, Queue, Socket, Waits
<1>11. Truth(c)'
  BY <1>2, <1>3, <1>6, <1>8, <1>9 DEF Story, Places, Truth, Socket, Waits
<1>12. Once(c)'
  BY <1>2, <1>6, <1>8, <1>9 DEF Story, Places, Once, Queue, ServerIsGone
<1> QED
  BY <1>9, <1>10, <1>11, <1>12 DEF Story

LEMMA PollStep ==
  ASSUME TypeInv, StoryInv, NEW c \in Cmds, PollLog(c) \/ PollLast(c)
  PROVE  TypeInv' /\ StoryInv'
<1>1. IsCmd(cmd[c]) /\ lease \in Nat
  BY DEF TypeInv, CmdTypes, OwnTypes
<1> DEFINE p == cmd[c].polled \o Fresh(c)
<1>0. p \in Seq(Nat) /\ Len(log) \in Nat
  <2>1. Fresh(c) \in Seq(Nat) /\ Len(log) \in Nat
    BY FreshIs DEF TypeInv, LogTypes
  <2> QED
    BY <1>1, <2>1 DEF IsCmd
<1>2. PICK x : /\ IsCmd(x) /\ cmd' = [cmd EXCEPT ![c] = x]
               /\ x.mine = cmd[c].mine /\ x.told = cmd[c].told /\ x.read = cmd[c].read
               /\ \/ cmd[c].pc = "last" /\ x.pc = "done" /\ x.via = "poll"
                  \/ cmd[c].pc \in {"flush", "history"} /\ x.pc = "load" /\ x.via = cmd[c].via
  <2>1. CASE PollLog(c)
    <3> DEFINE x == [cmd[c] EXCEPT !.polled = p, !.pc = "load",
                       !.seen = IF cmd[c].json \/ cmd[c].since # 0 THEN Len(log) ELSE @]
    <3>1. IsCmd(x) /\ x.mine = cmd[c].mine /\ x.told = cmd[c].told /\ x.read = cmd[c].read
          /\ x.pc = "load" /\ x.via = cmd[c].via
      <4> HIDE DEF p
      <4> QED
        BY <1>0, <1>1 DEF IsCmd
    <3>2. cmd' = [cmd EXCEPT ![c] = x]
      BY <1>1, <2>1 DEF PollLog, Flush, TypeInv, CmdTypes, IsCmd
    <3>3. cmd[c].pc \in {"flush", "history"}
      BY <2>1 DEF PollLog
    <3> HIDE DEF x
    <3> QED
      BY <3>1, <3>2, <3>3
  <2>2. CASE PollLast(c)
    <3> DEFINE x == [cmd[c] EXCEPT !.polled = p, !.pc = "done", !.via = "poll"]
    <3>1. IsCmd(x) /\ x.mine = cmd[c].mine /\ x.told = cmd[c].told /\ x.read = cmd[c].read
          /\ x.pc = "done" /\ x.via = "poll"
      <4> HIDE DEF p
      <4> QED
        BY <1>0, <1>1 DEF IsCmd
    <3>2. cmd' = [cmd EXCEPT ![c] = x]
      BY <1>1, <2>2 DEF PollLast, TypeInv, CmdTypes, IsCmd
    <3>3. cmd[c].pc = "last"
      BY <2>2 DEF PollLast
    <3> HIDE DEF x
    <3> QED
      BY <3>1, <3>2, <3>3
  <2> QED
    BY <2>1, <2>2
<1>3. UNCHANGED <<file, log, gen, cur, out, subs, conn, own, lease>>
  BY DEF PollLog, PollLast, ownVars
<1>4. TypeInv' /\ cmd'[c] = x /\ (Story(c)' => StoryInv')
  BY <1>1, <1>2, <1>3, Alone
<1>5. Story(c)
  BY DEF StoryInv
<1>6. Places(c)'
  BY <1>2, <1>3, <1>4, <1>5 DEF Story, Places, Queue, Socket, Waits
<1>7. Truth(c)'
  BY <1>2, <1>3, <1>4, <1>5 DEF Story, Places, Truth, Socket, Waits
<1>8. Once(c)'
  BY <1>2, <1>3, <1>4, <1>5 DEF Story, Places, Once, Queue, ServerIsGone
<1> QED
  BY <1>4, <1>6, <1>7, <1>8 DEF Story

LEMMA EnqueueStep ==
  ASSUME TypeInv, StoryInv, NEW c \in Cmds, Enqueue(c)
  PROVE  TypeInv' /\ StoryInv'
<1> DEFINE r == <<c, "file">>
           x == [cmd[c] EXCEPT !.pc = "ensure", !.mine = r]
<1>1. IsCmd(cmd[c]) /\ r \in Req
  BY ReqIs DEF TypeInv, CmdTypes
<1>2. /\ IsCmd(x) /\ x.pc = "ensure" /\ x.mine = r
      /\ x.via = cmd[c].via /\ x.read = cmd[c].read /\ x.told = cmd[c].told
  BY <1>1 DEF IsCmd
<1>3. cmd' = [cmd EXCEPT ![c] = x]
  BY <1>1 DEF Enqueue, TypeInv, CmdTypes, IsCmd
<1> HIDE DEF x
<1>4. /\ CmdTypes' /\ cmd'[c] = x /\ \A d \in Cmds : d # c => cmd'[d] = cmd[d]
  BY <1>2, <1>3, CmdChanges DEF TypeInv
<1>5. /\ FileTypes' /\ file'[r].status = "queued"
      /\ \A s \in Req : s # r => file'[s] = file[s]
  BY <1>1, EnqueuedTypes DEF TypeInv, Enqueue
<1>6. UNCHANGED <<log, gen, cur, out, subs, conn, own, lease>>
  BY DEF Enqueue, ownVars
<1>7. TypeInv'
  BY <1>4, <1>5, <1>6 DEF TypeInv, LogTypes, OwnTypes, ConnTypes
<1>8. \A d \in Cmds : d # c => FilesKept(d)
  BY <1>5, ReqIs DEF FilesKept, FileKept
<1>9. \A d \in Cmds : d # c => Story(d)'
  BY <1>4, <1>6, <1>8, OthersStay
<1>10. Story(c) /\ cmd[c].pc = "enqueue"
  BY DEF StoryInv, Enqueue
<1>11. Queue(c) = "absent" /\ Queue(c)' = "queued" /\ Socket(c)' = Socket(c)
  BY <1>5, <1>10, ReqIs DEF Story, Places, Queue, Socket
<1>12. InHand'
  BY <1>5, <1>6, <1>11, ReqIs DEF StoryInv, InHand, TypeInv, OwnTypes, Queue, Terminal
<1>13. Places(c)'
  BY <1>2, <1>4, <1>6, <1>10, <1>11 DEF Story, Places, Waits
<1>14. Truth(c)'
  BY <1>2, <1>4, <1>6, <1>10, <1>11 DEF Story, Places, Truth
<1>15. Once(c)'
  BY <1>2, <1>4, <1>6, <1>10, <1>11 DEF Story, Once, ServerIsGone
<1> QED
  BY <1>7, <1>9, <1>12, <1>13, <1>14, <1>15 DEF StoryInv, Story

\* A command or its handler works on their connection, and leaves the files.
LEMMA AtConn ==
  ASSUME TypeInv, StoryInv, NEW c \in Cmds, NEW x, NEW y \in Conns, IsCmd(x),
         cmd' = [cmd EXCEPT ![c] = x], conn' = [conn EXCEPT ![c] = y],
         UNCHANGED <<file, log, own, gen, lease, cur, out>>,
         subs' \in SUBSET Cmds, \A d \in Cmds : d # c /\ d \in subs' => d \in subs
  PROVE  /\ TypeInv' /\ cmd'[c] = x /\ conn'[c] = y
         /\ Story(c)' => StoryInv'
<1>1. CmdTypes' /\ cmd'[c] = x /\ \A d \in Cmds : d # c => cmd'[d] = cmd[d]
  BY CmdChanges DEF TypeInv
<1>2. conn' \in [Cmds -> Conns] /\ conn'[c] = y /\ \A d \in Cmds : d # c => conn'[d] = conn[d]
  BY ConnChanges DEF TypeInv
<1>3. TypeInv'
  BY <1>1, <1>2 DEF TypeInv, FileTypes, LogTypes, ConnTypes, OwnTypes
<1>4. \A d \in Cmds : d # c => Story(d)'
  BY <1>1, <1>2, SameFiles, OthersStay
<1>5. InHand'
  BY DEF StoryInv, InHand
<1> QED
  BY <1>1, <1>2, <1>3, <1>4, <1>5 DEF StoryInv

LEMMA DialStep ==
  ASSUME TypeInv, StoryInv, NEW c \in Cmds, Dial(c)
  PROVE  TypeInv' /\ StoryInv'
<1>1. IsCmd(cmd[c]) /\ lease \in Nat /\ conn[c] \in Conns /\ gen \in Nat /\ subs \in SUBSET Cmds
  BY DEF TypeInv, CmdTypes, OwnTypes, ConnTypes
<1>2. Story(c) /\ cmd[c].pc = "dial"
  BY DEF StoryInv, Dial
<1>3. UNCHANGED <<file, log, own, gen, lease, cur, out, subs>>
  BY DEF Dial, ownVars
<1>4. conn = [conn EXCEPT ![c] = conn[c]]
  BY DEF TypeInv, ConnTypes
<1>5. CASE Listening
  <2> DEFINE x == [cmd[c] EXCEPT !.pc = "reading"]
             y == [gen |-> gen, srv |-> "called", missed |-> 0, open |-> TRUE, read |-> TRUE, wire |-> <<>>]
  <2>1. /\ IsCmd(x) /\ x.pc = "reading" /\ x.mine = cmd[c].mine /\ x.via = cmd[c].via
        /\ x.told = cmd[c].told /\ x.read = cmd[c].read
    BY <1>1 DEF IsCmd
  <2>2. y \in Conns /\ y.gen = gen /\ y.srv = "called" /\ y.open /\ y.read /\ y.wire = <<>>
    BY <1>1 DEF Conns
  <2>3. cmd' = [cmd EXCEPT ![c] = x] /\ conn' = [conn EXCEPT ![c] = y]
    BY <1>5 DEF Dial, Goto
  <2> HIDE DEF x, y
  <2>4. TypeInv' /\ cmd'[c] = x /\ conn'[c] = y /\ (Story(c)' => StoryInv')
    BY <1>1, <1>3, <2>1, <2>2, <2>3, AtConn
  <2>5. Places(c)'
    BY <1>1, <1>2, <1>3, <2>1, <2>2, <2>4 DEF Story, Places, Queue, Socket, Waits
  <2>6. Truth(c)'
    BY <1>2, <1>3, <2>1, <2>2, <2>4 DEF Story, Places, Truth, Socket, Waits
  <2>7. Once(c)'
    BY <1>2, <1>3, <2>1, <2>2, <2>4 DEF Story, Places, Once, Queue, ServerIsGone
  <2> QED
    BY <2>4, <2>5, <2>6, <2>7 DEF Story
<1>6. CASE ~Listening
  <2> DEFINE x == [cmd[c] EXCEPT !.pc = "enqueue"]
  <2>1. /\ IsCmd(x) /\ x.pc = "enqueue" /\ x.mine = cmd[c].mine /\ x.via = cmd[c].via
        /\ x.told = cmd[c].told /\ x.read = cmd[c].read
    BY <1>1 DEF IsCmd
  <2>2. cmd' = [cmd EXCEPT ![c] = x] /\ conn' = conn
    BY <1>6 DEF Dial, Goto
  <2> HIDE DEF x
  <2>3. TypeInv' /\ cmd'[c] = x /\ conn'[c] = conn[c] /\ (Story(c)' => StoryInv')
    BY <1>1, <1>3, <1>4, <2>1, <2>2, AtConn
  <2>4. Places(c)'
    BY <1>2, <1>3, <2>1, <2>2, <2>3 DEF Story, Places, Queue, Socket, Waits
  <2>5. Truth(c)'
    BY <1>2, <1>3, <2>1, <2>2, <2>3 DEF Story, Places, Truth, Socket, Waits
  <2>6. Once(c)'
    BY <1>2, <1>3, <2>1, <2>2, <2>3 DEF Story, Places, Once, Queue
  <2> QED
    BY <2>3, <2>4, <2>5, <2>6 DEF Story
<1> QED
  BY <1>5, <1>6

LEMMA StreamEndsStep ==
  ASSUME TypeInv, StoryInv, NEW c \in Cmds, StreamEnds(c)
  PROVE  TypeInv' /\ StoryInv'
<1> DEFINE x == [cmd[c] EXCEPT !.pc = LeaveStream(c)]
           y == [conn[c] EXCEPT !.read = FALSE]
<1>1. IsCmd(cmd[c]) /\ conn[c] \in Conns /\ subs \in SUBSET Cmds
  BY DEF TypeInv, CmdTypes, OwnTypes, ConnTypes
<1>2. Story(c) /\ cmd[c].pc = "reading" /\ conn[c].wire = <<>> /\ ~conn[c].open
  BY DEF StoryInv, StreamEnds
<1>3. UNCHANGED <<file, log, own, gen, lease, cur, out, subs>>
  BY DEF StreamEnds, ownVars
<1>4. /\ IsCmd(x) /\ x.pc = LeaveStream(c) /\ x.mine = cmd[c].mine /\ x.via = cmd[c].via
      /\ x.told = cmd[c].told /\ x.read = cmd[c].read
  BY <1>1 DEF IsCmd, LeaveStream
<1>5. y \in Conns /\ y.gen = conn[c].gen /\ y.srv = conn[c].srv /\ y.wire = conn[c].wire
  BY <1>1 DEF Conns
<1>6. cmd' = [cmd EXCEPT ![c] = x] /\ conn' = [conn EXCEPT ![c] = y]
  BY DEF StreamEnds, Goto
<1> HIDE DEF x, y
<1>7. TypeInv' /\ cmd'[c] = x /\ conn'[c] = y /\ (Story(c)' => StoryInv')
  BY <1>1, <1>3, <1>4, <1>5, <1>6, AtConn
<1>8. Places(c)'
  BY <1>2, <1>3, <1>4, <1>5, <1>7 DEF Story, Places, Queue, Socket, Waits, LeaveStream
<1>9. Truth(c)'
  BY <1>2, <1>3, <1>4, <1>5, <1>7 DEF Story, Places, Truth, Socket, Waits, LeaveStream
<1>10. ServerIsGone(c)
  BY <1>2 DEF Story, Once
<1>11. ServerIsGone(c)'
  BY <1>3, <1>5, <1>7, <1>10 DEF ServerIsGone
<1>12. Once(c)'
  BY <1>11 DEF Once
<1> QED
  BY <1>7, <1>8, <1>9, <1>12 DEF Story

LEMMA ReadEnvelopeStep ==
  ASSUME TypeInv, StoryInv, NEW c \in Cmds, ReadEnvelope(c)
  PROVE  TypeInv' /\ StoryInv'
<1> DEFINE e == Head(conn[c].wire)
           mismatch == conn[c].gen # cmd[c].read
           final == mismatch \/ e.type \in {"result", "error"}
           y == [conn[c] EXCEPT !.wire = IF final THEN <<>> ELSE Tail(@), !.read = ~final]
           nx == IF mismatch THEN [cmd[c] EXCEPT !.pc = LeaveStream(c)] ELSE
                 CASE e.type = "accepted" -> [cmd[c] EXCEPT !.mine = <<c, "socket">>]
                   [] e.type = "event"    -> [cmd[c] EXCEPT !.streamed = Append(@, e.nth)]
                   [] e.type = "result"   ->
                        [cmd[c] EXCEPT !.pc = "done", !.via = "stream", !.told = e.status]
                   [] e.type = "error"    ->
                        IF cmd[c].mine # NoReq THEN [cmd[c] EXCEPT !.pc = "ensure"]
                        ELSE [cmd[c] EXCEPT !.pc = "done", !.via = "stream", !.told = e.status]
<1>1. IsCmd(cmd[c]) /\ conn[c] \in Conns /\ subs \in SUBSET Cmds
  BY DEF TypeInv, CmdTypes, OwnTypes, ConnTypes
<1>2. Story(c) /\ cmd[c].pc = "reading" /\ conn[c].wire # <<>>
  BY DEF StoryInv, ReadEnvelope
<1>3. UNCHANGED <<file, log, own, gen, lease, cur, out, subs>>
  BY DEF ReadEnvelope, ownVars
<1>4. /\ conn[c].wire \in Seq(Envelopes) /\ Len(conn[c].wire) \in Nat \ {0}
      /\ e \in Envelopes /\ e = conn[c].wire[1] /\ 1 \in 1..Len(conn[c].wire)
  BY <1>1, <1>2 DEF Conns
<1>5. e.type \in {"accepted", "event", "result", "error"} /\ e.status \in Statuses /\ e.nth \in Nat
  BY <1>4 DEF Envelopes
<1>6. cmd' = [cmd EXCEPT ![c] = nx]
  BY DEF ReadEnvelope
<1>7. conn' = [conn EXCEPT ![c] = y]
  BY <1>1 DEF ReadEnvelope, TypeInv, ConnTypes, Conns
<1>8. /\ y.gen = conn[c].gen /\ y.srv = conn[c].srv /\ y.open = conn[c].open /\ y.read = ~final
      /\ y.wire = IF final THEN <<>> ELSE Tail(conn[c].wire)
  BY <1>1 DEF Conns
<1>9. y \in Conns
  <2>1. CASE final
    <3>1. <<>> \in Seq(Envelopes)
      OBVIOUS
    <3> QED
      BY <1>1, <2>1, <3>1 DEF Conns
  <2>2. CASE ~final
    <3>1. Tail(conn[c].wire) \in Seq(Envelopes)
      BY <1>2, <1>4
    <3> QED
      BY <1>1, <2>2, <3>1 DEF Conns
  <2> QED
    BY <2>1, <2>2
<1>10. Final(e) => Outcome(e.status, conn[c].srv) /\ Socket(c) = e.status
  BY <1>2, <1>4 DEF Story, Truth
<1> HIDE DEF y
<1>11. ASSUME NEW x, IsCmd(x), cmd' = [cmd EXCEPT ![c] = x], Story(c)' \/ ~(cmd'[c] = x /\ conn'[c] = y)
       PROVE  TypeInv' /\ StoryInv'
  BY <1>3, <1>7, <1>9, <1>11, <1>1, AtConn
<1>12. conn'[c] = y
  BY <1>7 DEF TypeInv, ConnTypes
<1>13. Socket(c)' = Socket(c) /\ Queue(c)' = Queue(c) /\ gen' = gen /\ subs' = subs /\ file' = file
       /\ (ServerIsGone(c)' <=> ServerIsGone(c))
  BY <1>3, <1>8, <1>12 DEF Socket, Queue, ServerIsGone
<1>14. CASE mismatch
  <2> DEFINE x == [cmd[c] EXCEPT !.pc = LeaveStream(c)]
  <2>1. /\ IsCmd(x) /\ x.pc = LeaveStream(c) /\ x.mine = cmd[c].mine /\ x.via = cmd[c].via
        /\ x.told = cmd[c].told /\ x.read = cmd[c].read
    BY <1>1 DEF IsCmd, LeaveStream
  <2>2. cmd' = [cmd EXCEPT ![c] = x]
    BY <1>6, <1>14
  <2> HIDE DEF x
  <2>3. cmd'[c] = x
    BY <2>2 DEF TypeInv, CmdTypes
  <2>4. y.wire = <<>>
    BY <1>8, <1>14
  <2>5. Places(c)'
    BY <1>2, <1>8, <1>12, <1>13, <2>1, <2>3, <2>4 DEF Story, Places, Waits, LeaveStream
  <2>6. Truth(c)'
    BY <1>2, <1>12, <1>13, <2>1, <2>3, <2>4 DEF Story, Places, Truth, Waits, LeaveStream
  <2>7. Once(c)'
    BY <1>2, <1>8, <1>12, <1>13, <1>14, <2>1, <2>3 DEF Story, Once, LeaveStream
  <2> QED
    BY <1>11, <2>1, <2>2, <2>5, <2>6, <2>7 DEF Story
<1>15. CASE ~mismatch /\ e.type \in {"accepted", "event"}
  <2>1. PICK x : /\ IsCmd(x) /\ cmd' = [cmd EXCEPT ![c] = x]
                 /\ x.pc = cmd[c].pc /\ x.via = cmd[c].via /\ x.told = cmd[c].told /\ x.read = cmd[c].read
                 /\ x.mine \in {cmd[c].mine, <<c, "socket">>}
    <3>1. CASE e.type = "accepted"
      <4> DEFINE x == [cmd[c] EXCEPT !.mine = <<c, "socket">>]
      <4>1. cmd' = [cmd EXCEPT ![c] = x]
        BY <1>6, <1>15, <3>1
      <4>2. /\ IsCmd(x) /\ x.pc = cmd[c].pc /\ x.via = cmd[c].via /\ x.told = cmd[c].told
            /\ x.read = cmd[c].read /\ x.mine = <<c, "socket">>
        BY <1>1, ReqIs DEF IsCmd
      <4> HIDE DEF x
      <4> QED
        BY <4>1, <4>2
    <3>2. CASE e.type = "event"
      <4> DEFINE x == [cmd[c] EXCEPT !.streamed = Append(@, e.nth)]
      <4>1. cmd' = [cmd EXCEPT ![c] = x]
        BY <1>6, <1>15, <3>2
      <4>2. Append(cmd[c].streamed, e.nth) \in Seq(Nat)
        BY <1>1, <1>5 DEF IsCmd
      <4>3. /\ IsCmd(x) /\ x.pc = cmd[c].pc /\ x.via = cmd[c].via /\ x.told = cmd[c].told
            /\ x.read = cmd[c].read /\ x.mine = cmd[c].mine
        BY <1>1, <4>2 DEF IsCmd
      <4> HIDE DEF x
      <4> QED
        BY <4>1, <4>3
    <3> QED
      BY <1>15, <3>1, <3>2
  <2>2. cmd'[c] = x
    BY <2>1 DEF TypeInv, CmdTypes
  <2>3. ~final /\ y.wire = Tail(conn[c].wire) /\ y.read
    BY <1>8, <1>15
  <2>4. /\ Len(y.wire) = Len(conn[c].wire) - 1
        /\ \A i \in 1..Len(y.wire) : i + 1 \in 1..Len(conn[c].wire) /\ y.wire[i] = conn[c].wire[i + 1]
    BY <1>2, <1>4, <2>3
  <2>5. ASSUME NEW i \in 1..Len(conn[c].wire), Final(conn[c].wire[i])
        PROVE  \E j \in 1..Len(y.wire) : Final(y.wire[j])
    <3>1. i # 1
      BY <1>4, <1>15, <2>5 DEF Final
    <3>2. i - 1 \in 1..Len(y.wire) /\ y.wire[i - 1] = conn[c].wire[i]
      BY <1>4, <2>4, <3>1
    <3> QED
      BY <2>5, <3>2
  <2>6. Places(c)'
    BY <1>2, <1>8, <1>12, <1>13, <2>1, <2>2, <2>3 DEF Story, Places, Waits
  <2>7. ASSUME NEW i \in 1..Len(y.wire), Final(y.wire[i])
        PROVE  Outcome(y.wire[i].status, conn[c].srv) /\ Socket(c) = y.wire[i].status
    BY <1>2, <2>4, <2>7 DEF Story, Truth
  <2>8. Truth(c)'
    BY <1>2, <1>8, <1>12, <1>13, <2>1, <2>2, <2>7 DEF Story, Places, Truth
  <2>9. Once(c)'
    BY <1>2, <1>8, <1>12, <1>13, <2>1, <2>2, <2>5 DEF Story, Places, Once
  <2> QED
    BY <1>11, <2>1, <2>6, <2>8, <2>9 DEF Story
<1>16. CASE ~mismatch /\ e.type \in {"result", "error"} /\ ~(e.type = "error" /\ cmd[c].mine # NoReq)
  <2> DEFINE x == [cmd[c] EXCEPT !.pc = "done", !.via = "stream", !.told = e.status]
  <2>1. cmd' = [cmd EXCEPT ![c] = x]
    BY <1>6, <1>16
  <2>2. /\ IsCmd(x) /\ x.pc = "done" /\ x.via = "stream" /\ x.told = e.status
        /\ x.read = cmd[c].read /\ x.mine = cmd[c].mine
    BY <1>1, <1>5 DEF IsCmd
  <2>3. y.wire = <<>> /\ Final(e)
    BY <1>8, <1>16 DEF Final
  <2> HIDE DEF x
  <2>4. cmd'[c] = x
    BY <2>1 DEF TypeInv, CmdTypes
  <2>5. Places(c)'
    BY <1>2, <1>8, <1>12, <1>13, <2>2, <2>3, <2>4 DEF Story, Places, Waits
  <2>6. Truth(c)'
    BY <1>8, <1>10, <1>12, <1>13, <2>2, <2>3, <2>4 DEF Story, Places, Truth
  <2>7. Once(c)'
    BY <1>2, <1>8, <1>12, <1>13, <2>2, <2>4 DEF Story, Once
  <2> QED
    BY <1>11, <2>1, <2>2, <2>5, <2>6, <2>7 DEF Story
<1>17. CASE ~mismatch /\ e.type = "error" /\ cmd[c].mine # NoReq
  <2> DEFINE x == [cmd[c] EXCEPT !.pc = "ensure"]
  <2>1. cmd' = [cmd EXCEPT ![c] = x]
    BY <1>6, <1>17
  <2>2. /\ IsCmd(x) /\ x.pc = "ensure" /\ x.via = cmd[c].via /\ x.told = cmd[c].told
        /\ x.read = cmd[c].read /\ x.mine = cmd[c].mine
    BY <1>1 DEF IsCmd
  <2>3. y.wire = <<>>
    BY <1>8, <1>17
  <2> HIDE DEF x
  <2>4. cmd'[c] = x
    BY <2>1 DEF TypeInv, CmdTypes
  <2>5. Places(c)'
    BY <1>2, <1>8, <1>12, <1>13, <1>17, <2>2, <2>3, <2>4 DEF Story, Places, Waits
  <2>6. Truth(c)'
    BY <1>2, <1>12, <1>13, <2>2, <2>3, <2>4 DEF Story, Places, Truth
  <2>7. Once(c)'
    BY <1>2, <1>8, <1>12, <1>13, <2>2, <2>4 DEF Story, Once
  <2> QED
    BY <1>11, <2>1, <2>2, <2>5, <2>6, <2>7 DEF Story
<1> QED
  BY <1>5, <1>14, <1>15, <1>16, <1>17

-----------------------------------------------------------------------------
\* The handlers.

\* Something is written to a connection, or not, and it is closed for a reason.
LEMMA CarriedKept ==
  ASSUME TypeInv, NEW c \in Cmds, NEW e \in Envelopes,
         conn'[c].gen = conn[c].gen, conn'[c].read = conn[c].read,
         conn'[c].srv = conn[c].srv \/ (conn[c].srv # "none" /\ conn'[c].srv \notin {"none", "called"}),
         c \in subs' => c \in subs \/ conn'[c].srv \notin {"none", "called"},
         \/ conn'[c].wire = conn[c].wire
         \/ conn'[c].wire = Append(conn[c].wire, e) /\ conn[c].srv # "none",
         Final(e) => Outcome(e.status, conn'[c].srv) /\ file'[<<c, "socket">>].status = e.status,
         ~conn'[c].open => \/ ~conn[c].open \/ ServerIsGone(c)' \/ cmd[c].pc # "reading"
                           \/ Final(e) /\ conn'[c].wire = Append(conn[c].wire, e)
  PROVE  ConnKept(c)
<1>1. conn[c].wire \in Seq(Envelopes) /\ Len(conn[c].wire) \in Nat
  BY DEF TypeInv, ConnTypes, Conns
<1>2. CASE conn'[c].wire = conn[c].wire
  <2>1. \A i \in 1..Len(conn'[c].wire) : ~(i > Len(conn[c].wire))
    BY <1>1, <1>2
  <2>2. Len(conn'[c].wire) \in Nat /\ Len(conn[c].wire) <= Len(conn'[c].wire)
    BY <1>1, <1>2
  <2>3. Append(conn[c].wire, e) # conn[c].wire
    BY <1>1
  <2> QED
    BY <1>2, <2>1, <2>2, <2>3 DEF ConnKept
<1>3. CASE conn'[c].wire = Append(conn[c].wire, e) /\ conn[c].srv # "none"
  <2> DEFINE n == Len(conn[c].wire)
  <2>1. /\ Len(conn'[c].wire) = n + 1 /\ conn'[c].wire[n + 1] = e
        /\ \A i \in 1..n : conn'[c].wire[i] = conn[c].wire[i]
    BY <1>1, <1>3
  <2>2. \A i \in 1..Len(conn'[c].wire) : i > n => conn'[c].wire[i] = e
    BY <1>1, <2>1
  <2>3. Len(conn'[c].wire) \in Nat /\ n <= Len(conn'[c].wire) /\ n + 1 \in 1..Len(conn'[c].wire)
    BY <1>1, <2>1
  <2>4. \A i \in 1..Len(conn'[c].wire) : i > n /\ Final(conn'[c].wire[i]) =>
          Outcome(conn'[c].wire[i].status, conn'[c].srv) /\ file'[<<c, "socket">>].status = conn'[c].wire[i].status
    BY <2>2
  <2>5. Final(e) => \E i \in 1..Len(conn'[c].wire) : Final(conn'[c].wire[i])
    BY <2>1, <2>3
  <2> QED
    BY <1>3, <2>1, <2>3, <2>4, <2>5 DEF ConnKept
<1> QED
  BY <1>2, <1>3

LEMMA WrittenIs ==
  ASSUME ConnTypes, NEW c \in Cmds, NEW e \in Envelopes
  PROVE  LET w == Written(c, e) IN
         /\ w \in Conns /\ w.gen = conn[c].gen /\ w.read = conn[c].read /\ w.srv = conn[c].srv
         /\ WriteFails(c) => w.wire = conn[c].wire /\ ~w.open
         /\ ~WriteFails(c) => w.wire = Append(conn[c].wire, e) /\ w.open
<1>1. conn[c] \in Conns /\ conn[c].wire \in Seq(Envelopes)
  BY DEF ConnTypes, Conns
<1>2. Append(conn[c].wire, e) \in Seq(Envelopes)
  BY <1>1
<1>3. CASE WriteFails(c)
  BY <1>1, <1>3 DEF Written, WriteFails, Conns
<1>4. CASE ~WriteFails(c)
  BY <1>1, <1>2, <1>4 DEF Written, WriteFails, Conns
<1> QED
  BY <1>3, <1>4

LEMMA HandlerEnqueuesStep ==
  ASSUME TypeInv, StoryInv, NEW c \in Cmds, HandlerEnqueues(c)
  PROVE  TypeInv' /\ StoryInv'
<1> DEFINE r == <<c, "socket">>
           y == [conn[c] EXCEPT !.srv = "register"]
<1>1. conn[c] \in Conns /\ r \in Req
  BY ReqIs DEF TypeInv, ConnTypes
<1>2. /\ y \in Conns /\ y.srv = "register" /\ y.gen = conn[c].gen /\ y.read = conn[c].read
      /\ y.open = conn[c].open /\ y.wire = conn[c].wire
  BY <1>1 DEF Conns
<1>3. conn' = [conn EXCEPT ![c] = y]
  BY DEF HandlerEnqueues
<1> HIDE DEF y
<1>4. conn' \in [Cmds -> Conns] /\ conn'[c] = y /\ \A d \in Cmds : d # c => conn'[d] = conn[d]
  BY <1>2, <1>3, ConnChanges DEF TypeInv
<1>5. FileTypes' /\ file'[r].status = "queued" /\ \A s \in Req : s # r => file'[s] = file[s]
  BY <1>1, EnqueuedTypes DEF TypeInv, HandlerEnqueues
<1>6. UNCHANGED <<log, own, gen, lease, cur, out, subs, cmd>>
  BY DEF HandlerEnqueues, ownVars
<1>7. TypeInv'
  BY <1>4, <1>5, <1>6 DEF TypeInv, LogTypes, OwnTypes, ConnTypes, CmdTypes
<1>8. \A d \in Cmds : d # c => FilesKept(d)
  BY <1>5, ReqIs DEF FilesKept, FileKept
<1>9. \A d \in Cmds : d # c => Story(d)'
  BY <1>4, <1>6, <1>8, OthersStay
<1>10. Story(c) /\ conn[c].srv = "called"
  BY DEF StoryInv, HandlerEnqueues
<1>11. Socket(c) = "absent" /\ Socket(c)' = "queued" /\ Queue(c)' = Queue(c)
  BY <1>5, <1>10, ReqIs DEF Story, Places, Queue, Socket
<1>12. InHand'
  BY <1>5, <1>6, <1>11, ReqIs DEF StoryInv, InHand, TypeInv, OwnTypes, Socket, Terminal
<1>13. Places(c)'
  BY <1>2, <1>4, <1>6, <1>10, <1>11 DEF Story, Places, Waits
<1>14. Truth(c)'
  <2>1. \A i \in 1..Len(conn[c].wire) : ~Final(conn[c].wire[i])
    BY <1>10, <1>11 DEF Story, Truth, Terminal, Outcome
  <2>2. cmd[c].via # "stream"
    BY <1>10, <1>11 DEF Story, Truth, Terminal, Outcome
  <2>3. cmd[c].pc = "last" \/ cmd[c].via = "poll" => cmd[c].mine = <<c, "file">>
    BY <1>10, <1>11 DEF Story, Truth, Terminal, Waits, Socket
  <2>4. <<c, "file">> \in Req /\ <<c, "file">> # r
    BY ReqIs
  <2>5. file'[<<c, "file">>] = file[<<c, "file">>]
    BY <1>5, <2>4
  <2> QED
    BY <1>2, <1>4, <1>6, <1>10, <2>1, <2>2, <2>3, <2>5 DEF Story, Truth, Waits
<1>15. Once(c)'
  BY <1>2, <1>4, <1>6, <1>10, <1>11 DEF Story, Once, ServerIsGone
<1> QED
  BY <1>7, <1>9, <1>12, <1>13, <1>14, <1>15 DEF StoryInv, Story

\* The command stays as it is, and something happens at its connection.
LEMMA HandlerStory ==
  ASSUME TypeInv, StoryInv, NEW c \in Cmds, NEW y \in Conns, conn' = [conn EXCEPT ![c] = y],
         UNCHANGED <<file, log, own, gen, lease, cur, out, cmd>>,
         subs' \in SUBSET Cmds, \A d \in Cmds : d # c /\ d \in subs' => d \in subs,
         y.gen = conn[c].gen, ConnKept(c)
  PROVE  TypeInv' /\ StoryInv'
<1>1. IsCmd(cmd[c]) /\ cmd' = [cmd EXCEPT ![c] = cmd[c]]
  BY DEF TypeInv, CmdTypes
<1>2. TypeInv' /\ conn'[c] = y /\ (Story(c)' => StoryInv')
  BY <1>1, AtConn
<1>3. GenKept(c)
  BY <1>2 DEF GenKept, ServerIsGone, TypeInv, OwnTypes
<1>4. FilesKept(c)
  BY SameFiles
<1> QED
  BY <1>2, <1>3, <1>4, StoryKept DEF StoryInv

LEMMA HandlerRegistersStep ==
  ASSUME TypeInv, StoryInv, NEW c \in Cmds, HandlerRegisters(c)
  PROVE  TypeInv' /\ StoryInv'
<1>1. <<c, "socket">> \in Req
  BY ReqIs
<1>2. conn[c] \in Conns /\ Executed(<<c, "socket">>) \in Nat
  BY <1>1, ExecutedIs DEF TypeInv, ConnTypes
<1> DEFINE n == Executed(<<c, "socket">>)
           y == [conn[c] EXCEPT !.srv = "accept", !.missed = n]
           e == Envelope("accepted", 0, "absent")
<1>3. /\ y \in Conns /\ y.srv = "accept" /\ y.gen = conn[c].gen /\ y.read = conn[c].read
      /\ y.open = conn[c].open /\ y.wire = conn[c].wire
  <2>1. n \in Nat
    BY <1>2
  <2> HIDE DEF n
  <2> QED
    BY <1>2, <2>1 DEF Conns
<1>4. conn' = [conn EXCEPT ![c] = y]
  BY DEF HandlerRegisters, TypeInv, ConnTypes, Conns
<1> HIDE DEF y
<1>5. /\ UNCHANGED <<file, log, own, gen, lease, cur, out, cmd>>
      /\ subs' = subs \cup {c} /\ conn[c].srv = "register"
  BY DEF HandlerRegisters, ownVars
<1>6. subs' \in SUBSET Cmds /\ \A d \in Cmds : d # c /\ d \in subs' => d \in subs
  BY <1>5 DEF TypeInv, ConnTypes
<1>7. e \in Envelopes /\ ~Final(e)
  BY DEF Envelope, Envelopes, Final, Statuses
<1>8. conn'[c] = y
  BY <1>4 DEF TypeInv, ConnTypes
<1> HIDE DEF e
<1>9. ConnKept(c)
  BY <1>3, <1>5, <1>7, <1>8, CarriedKept
<1> QED
  BY <1>3, <1>4, <1>5, <1>6, <1>9, HandlerStory

LEMMA HandlerAcceptsStep ==
  ASSUME TypeInv, StoryInv, NEW c \in Cmds, HandlerAccepts(c)
  PROVE  TypeInv' /\ StoryInv'
<1> DEFINE e == Envelope("accepted", 0, "absent")
           w == Written(c, e)
           y == [w EXCEPT !.srv = IF WriteFails(c) THEN "gone" ELSE "waiting"]
<1>1. e \in Envelopes /\ ~Final(e)
  BY DEF Envelope, Envelopes, Final, Statuses
<1>2. conn' = [conn EXCEPT ![c] = y]
  BY DEF HandlerAccepts
<1> HIDE DEF e
<1>3. /\ w \in Conns /\ w.gen = conn[c].gen /\ w.read = conn[c].read /\ w.srv = conn[c].srv
      /\ WriteFails(c) => w.wire = conn[c].wire /\ ~w.open
      /\ ~WriteFails(c) => w.wire = Append(conn[c].wire, e) /\ w.open
  BY <1>1, WrittenIs DEF TypeInv
<1> HIDE DEF w
<1>4. /\ y \in Conns /\ y.srv \in {"gone", "waiting"} /\ y.gen = w.gen /\ y.read = w.read
      /\ y.open = w.open /\ y.wire = w.wire
  BY <1>3 DEF Conns
<1> HIDE DEF y
<1>5. /\ UNCHANGED <<file, log, own, gen, lease, cur, out, cmd>>
      /\ subs' \subseteq subs /\ conn[c].srv = "accept"
  BY DEF HandlerAccepts, ownVars
<1>6. subs' \in SUBSET Cmds /\ \A d \in Cmds : d # c /\ d \in subs' => d \in subs
  BY <1>5 DEF TypeInv, ConnTypes
<1>7. conn'[c] = y
  BY <1>2 DEF TypeInv, ConnTypes
<1>8. WriteFails(c) => ~conn[c].open \/ cmd[c].pc # "reading"
  BY DEF WriteFails, StoryInv, Story, Places
<1>9. ConnKept(c)
  BY <1>1, <1>3, <1>4, <1>5, <1>7, <1>8, CarriedKept
<1> QED
  BY <1>2, <1>3, <1>4, <1>5, <1>6, <1>9, HandlerStory

LEMMA HandlerRefusesStep ==
  ASSUME TypeInv, StoryInv, NEW c \in Cmds, HandlerRefuses(c)
  PROVE  TypeInv' /\ StoryInv'
<1> DEFINE e == Envelope("error", 0, "absent")
           w == Written(c, e)
           y == [w EXCEPT !.srv = "gone", !.open = FALSE]
<1>1. e \in Envelopes /\ Final(e) /\ e.status = "absent"
  BY DEF Envelope, Envelopes, Final, Statuses
<1>2. conn' = [conn EXCEPT ![c] = y]
  BY DEF HandlerRefuses
<1> HIDE DEF e
<1>3. /\ w \in Conns /\ w.gen = conn[c].gen /\ w.read = conn[c].read
      /\ WriteFails(c) => w.wire = conn[c].wire
      /\ ~WriteFails(c) => w.wire = Append(conn[c].wire, e)
  BY <1>1, WrittenIs DEF TypeInv
<1> HIDE DEF w
<1>4. /\ y \in Conns /\ y.srv = "gone" /\ y.gen = w.gen /\ y.read = w.read /\ y.wire = w.wire
  BY <1>3 DEF Conns
<1> HIDE DEF y
<1>5. UNCHANGED <<file, log, own, gen, lease, cur, out, subs, cmd>> /\ conn[c].srv = "called"
  BY DEF HandlerRefuses, ownVars
<1>6. subs' \in SUBSET Cmds /\ \A d \in Cmds : d # c /\ d \in subs' => d \in subs
  BY <1>5 DEF TypeInv, ConnTypes
<1>7. conn'[c] = y
  BY <1>2 DEF TypeInv, ConnTypes
<1>8. WriteFails(c) => ~conn[c].open \/ cmd[c].pc # "reading"
  BY DEF WriteFails, StoryInv, Story, Places
<1>9. Outcome(e.status, conn'[c].srv) /\ file'[<<c, "socket">>].status = e.status
  BY <1>1, <1>4, <1>5, <1>7 DEF StoryInv, Story, Places, Socket, Outcome
<1>10. ConnKept(c)
  <2>1. /\ conn'[c].gen = conn[c].gen /\ conn'[c].read = conn[c].read /\ conn'[c].srv = "gone"
        /\ conn[c].srv # "none" /\ (c \in subs' => c \in subs)
    BY <1>3, <1>4, <1>5, <1>7
  <2>2. \/ conn'[c].wire = conn[c].wire
        \/ conn'[c].wire = Append(conn[c].wire, e)
    BY <1>3, <1>4, <1>7
  <2>3. \/ ~conn[c].open \/ cmd[c].pc # "reading"
        \/ Final(e) /\ conn'[c].wire = Append(conn[c].wire, e)
    BY <1>1, <1>3, <1>4, <1>7, <1>8
  <2> QED
    BY <1>1, <1>9, <2>1, <2>2, <2>3, CarriedKept
<1> QED
  BY <1>2, <1>3, <1>4, <1>5, <1>6, <1>10, HandlerStory

-----------------------------------------------------------------------------
\* The owner.

LEMMA OwnerStory ==
  ASSUME TypeInv, StoryInv, TypeInv', InHand', cmd' = cmd,
         \A d \in Cmds : FilesKept(d) /\ GenKept(d) /\ (ConnKept(d) \/ (conn'[d] = conn[d] /\ subs' = subs))
  PROVE  StoryInv'
<1>1. ASSUME NEW d \in Cmds PROVE Story(d)'
  BY StoryKept, StorySame DEF StoryInv
<1> QED
  BY <1>1 DEF StoryInv

LEMMA AcquireStep ==
  ASSUME TypeInv, StoryInv, Acquire
  PROVE  TypeInv' /\ StoryInv'
<1>1. /\ UNCHANGED <<file, log, cur, out, subs, conn, cmd>>
      /\ own = "spawned" /\ own' = "acquired" /\ gen' = gen + 1 /\ lease' = gen + 1
  BY DEF Acquire
<1>2. TypeInv' /\ InHand'
  BY <1>1 DEF TypeInv, FileTypes, LogTypes, OwnTypes, ConnTypes, CmdTypes, InHand
<1>3. ASSUME NEW d \in Cmds PROVE GenKept(d)
  <2>1. conn[d].gen \in Nat /\ gen \in Nat /\ conn[d].gen <= gen
    BY DEF TypeInv, OwnTypes, ConnTypes, Conns, StoryInv, Story, Places
  <2> QED
    BY <1>1, <2>1 DEF GenKept, ServerIsGone
<1> QED
  BY <1>1, <1>2, <1>3, SameFiles, OwnerStory

LEMMA ListenStep ==
  ASSUME TypeInv, StoryInv, Listen
  PROVE  TypeInv' /\ StoryInv'
<1> DEFINE new == [r \in Req |-> IF file[r].status = "running"
                     THEN [file[r] EXCEPT !.status = "queued", !.started = 0] ELSE file[r]]
<1>1. /\ UNCHANGED <<log, gen, lease, cur, out, subs, conn, cmd>>
      /\ own = "acquired" /\ own' = "idle" /\ file' = new
  BY DEF Listen
<1>2. ASSUME NEW r \in Req
      PROVE  /\ new[r] \in Files
             /\ new[r].status = IF file[r].status = "running" THEN "queued" ELSE file[r].status
  BY DEF TypeInv, FileTypes, Files, Statuses
<1>3. new \in [Req -> Files]
  BY <1>2
<1> HIDE DEF new
<1>4. FileTypes'
  BY <1>1, <1>2, <1>3, StatusTypes DEF TypeInv
<1>5. TypeInv' /\ InHand'
  BY <1>1, <1>4 DEF TypeInv, LogTypes, OwnTypes, ConnTypes, CmdTypes, InHand
<1>6. ASSUME NEW r \in Req PROVE FileKept(r)
  BY <1>1, <1>2 DEF FileKept, Terminal
<1>7. ASSUME NEW d \in Cmds PROVE GenKept(d) /\ FilesKept(d)
  BY <1>1, <1>6, ReqIs DEF GenKept, ServerIsGone, TypeInv, OwnTypes, FilesKept
<1> QED
  BY <1>1, <1>5, <1>7, OwnerStory

\* The status of one request changes, of which no outcome is known yet.
LEMMA StatusChanges ==
  ASSUME TypeInv, NEW r \in Req, NEW f \in Files, file' = [file EXCEPT ![r] = f],
         file[r].status \in {"queued", "running"}, f.status # "absent"
  PROVE  FileTypes' /\ file'[r] = f /\ (\A d \in Cmds : FilesKept(d))
<1> DEFINE new == [file EXCEPT ![r] = f]
<1>1. new \in [Req -> Files] /\ new[r] = f /\ \A s \in Req : s # r => new[s] = file[s]
  BY DEF TypeInv, FileTypes
<1>2. file' = new
  OBVIOUS
<1> HIDE DEF new
<1>3. FileTypes'
  BY <1>1, <1>2, StatusTypes DEF TypeInv
<1>4. ASSUME NEW s \in Req PROVE FileKept(s)
  BY <1>1, <1>2 DEF FileKept, Terminal
<1>5. ASSUME NEW d \in Cmds PROVE FilesKept(d)
  BY <1>4, ReqIs DEF FilesKept
<1> QED
  BY <1>1, <1>2, <1>3, <1>5

LEMMA ClaimStep ==
  ASSUME TypeInv, StoryInv, NEW r \in Req, Claim(r)
  PROVE  TypeInv' /\ StoryInv'
<1> DEFINE n == Len(log) + 1
           f == [file[r] EXCEPT !.status = "running", !.started = n]
<1>1. /\ UNCHANGED <<log, gen, lease, out, subs, conn, cmd>>
      /\ own = "idle" /\ own' = "running" /\ cur' = r /\ file[r].status = "queued"
  BY DEF Claim, NextPending
<1>2. file[r] \in Files /\ n \in Nat
  BY DEF TypeInv, FileTypes, LogTypes
<1> HIDE DEF n
<1>3. f \in Files /\ f.status = "running"
  BY <1>2 DEF Files, Statuses
<1>4. file' = [file EXCEPT ![r] = f]
  BY <1>2 DEF Claim, TypeInv, FileTypes, Files, n
<1> HIDE DEF f
<1>5. FileTypes' /\ file'[r] = f /\ \A d \in Cmds : FilesKept(d)
  BY <1>1, <1>3, <1>4, StatusChanges
<1>6. TypeInv' /\ InHand'
  BY <1>1, <1>3, <1>5, ReqIs DEF TypeInv, LogTypes, OwnTypes, ConnTypes, CmdTypes, InHand
<1>7. ASSUME NEW d \in Cmds PROVE GenKept(d)
  BY <1>1 DEF GenKept, ServerIsGone, TypeInv, OwnTypes
<1> QED
  BY <1>1, <1>5, <1>6, <1>7, OwnerStory

LEMMA EndTurnStep ==
  ASSUME TypeInv, StoryInv, NEW s \in {"completed", "failed"}, EndTurn(s)
  PROVE  TypeInv' /\ StoryInv'
<1> DEFINE f == [file[cur] EXCEPT !.status = s]
<1>1. /\ UNCHANGED <<log, gen, lease, cur, subs, conn, cmd>>
      /\ own = "running" /\ own' = "saved" /\ out' = s
  BY DEF EndTurn
<1>2. cur \in Req /\ cur # NoReq /\ file[cur].status = "running"
  BY <1>1 DEF TypeInv, OwnTypes, StoryInv, InHand
<1>3. file[cur] \in Files
  BY <1>2 DEF TypeInv, FileTypes
<1>4. f \in Files /\ f.status = s
  BY <1>3 DEF Files, Statuses
<1>5. file' = [file EXCEPT ![cur] = f]
  BY DEF EndTurn
<1> HIDE DEF f
<1>6. PICK r \in Req : r = cur
  BY <1>2
<1>7. FileTypes' /\ file'[r] = f /\ \A d \in Cmds : FilesKept(d)
  BY <1>2, <1>4, <1>5, <1>6, StatusChanges
<1>8. TypeInv' /\ InHand'
  BY <1>1, <1>2, <1>4, <1>6, <1>7
  DEF TypeInv, LogTypes, OwnTypes, ConnTypes, CmdTypes, InHand, Statuses, Terminal
<1>9. ASSUME NEW d \in Cmds PROVE GenKept(d)
  BY <1>1 DEF GenKept, ServerIsGone, TypeInv, OwnTypes
<1> QED
  BY <1>1, <1>7, <1>8, <1>9, OwnerStory

LEMMA LeaveStep ==
  ASSUME TypeInv, StoryInv, Leave, own \in {"idle", "running"}
  PROVE  TypeInv' /\ StoryInv'
<1>1. UNCHANGED <<file, log, gen, lease, out, subs, conn, cmd>> /\ own' = "leaving" /\ cur' = NoReq
  BY DEF Leave
<1>2. TypeInv' /\ InHand'
  BY <1>1 DEF TypeInv, FileTypes, LogTypes, OwnTypes, ConnTypes, CmdTypes, InHand
<1>3. ASSUME NEW d \in Cmds PROVE GenKept(d)
  BY <1>1 DEF GenKept, ServerIsGone, TypeInv, OwnTypes
<1> QED
  BY <1>1, <1>2, <1>3, SameFiles, OwnerStory

LEMMA SubscribedIs ==
  ASSUME TypeInv, StoryInv, own \in {"running", "saved"}, Subscribed
  PROVE  cur[1] \in Cmds /\ cur = <<cur[1], "socket">> /\ conn[cur[1]].srv \notin {"none", "called"}
<1>1. cur \in Req /\ cur # NoReq
  BY DEF TypeInv, OwnTypes
<1>2. cur[1] \in Cmds /\ cur = <<cur[1], "socket">>
  BY <1>1, ReqIs DEF Subscribed
<1>3. Places(cur[1])
  BY <1>2 DEF StoryInv, Story
<1> QED
  BY <1>2, <1>3 DEF Places, Subscribed

LEMMA EmitEventStep ==
  ASSUME TypeInv, StoryInv, EmitEvent
  PROVE  TypeInv' /\ StoryInv'
<1> DEFINE n == Executed(cur) + 1
           e == Envelope("event", n, "absent")
<1>1. /\ UNCHANGED <<file, own, gen, lease, cur, out, cmd>>
      /\ own = "running" /\ log' = Append(log, [of |-> cur, gen |-> gen, nth |-> n])
  BY DEF EmitEvent, Event
<1>2. cur \in Req /\ cur # NoReq /\ gen \in Nat
  BY <1>1 DEF TypeInv, OwnTypes
<1>3. n \in Nat
  <2>1. PICK r \in Req : r = cur
    BY <1>2
  <2>2. Executed(r) \in Nat
    BY ExecutedIs DEF TypeInv
  <2> QED
    BY <2>1, <2>2
<1>4. IF Subscribed
        THEN /\ conn' = [conn EXCEPT ![cur[1]] = Written(cur[1], e)]
             /\ subs' = IF WriteFails(cur[1]) THEN subs \ {cur[1]} ELSE subs
        ELSE UNCHANGED <<conn, subs>>
  BY DEF EmitEvent, Event
<1> HIDE DEF n
<1>5. e \in Envelopes /\ ~Final(e)
  BY <1>3 DEF Envelope, Envelopes, Final, Statuses
<1> HIDE DEF e
<1>6. LogTypes' /\ OwnTypes' /\ FileTypes' /\ CmdTypes' /\ InHand'
  BY <1>1, <1>2, <1>3 DEF TypeInv, LogTypes, OwnTypes, FileTypes, CmdTypes, StoryInv, InHand
<1>7. CASE Subscribed
  <2>1. PICK c \in Cmds : c = cur[1] /\ conn[c].srv \notin {"none", "called"}
    BY <1>1, <1>7, SubscribedIs
  <2> DEFINE w == Written(c, e)
  <2>2. /\ w \in Conns /\ w.gen = conn[c].gen /\ w.read = conn[c].read /\ w.srv = conn[c].srv
        /\ WriteFails(c) => w.wire = conn[c].wire /\ ~w.open
        /\ ~WriteFails(c) => w.wire = Append(conn[c].wire, e) /\ w.open
    BY <1>5, WrittenIs DEF TypeInv
  <2>3. conn' = [conn EXCEPT ![c] = w] /\ subs' \subseteq subs
    BY <1>4, <1>7, <2>1
  <2> HIDE DEF w
  <2>4. conn' \in [Cmds -> Conns] /\ conn'[c] = w /\ \A d \in Cmds : d # c => conn'[d] = conn[d]
    BY <2>2, <2>3, ConnChanges DEF TypeInv
  <2>5. TypeInv'
    BY <1>6, <2>3, <2>4 DEF TypeInv, ConnTypes
  <2>6. WriteFails(c) => ~conn[c].open \/ cmd[c].pc # "reading"
    BY DEF WriteFails, StoryInv, Story, Places
  <2>7. ConnKept(c)
    BY <1>5, <2>1, <2>2, <2>3, <2>4, <2>6, CarriedKept
  <2>8. ASSUME NEW d \in Cmds PROVE GenKept(d) /\ FilesKept(d)
    BY <1>1, <2>2, <2>4, SameFiles DEF GenKept, ServerIsGone, TypeInv, OwnTypes
  <2>9. ASSUME NEW d \in Cmds PROVE Story(d)'
    <3>1. CASE d = c
      BY <1>1, <2>7, <2>8, <3>1, StoryKept DEF StoryInv
    <3>2. CASE d # c
      BY <1>1, <2>3, <2>4, <2>8, <3>2, StorySame DEF StoryInv
    <3> QED
      BY <3>1, <3>2
  <2> QED
    BY <1>6, <2>5, <2>9 DEF StoryInv
<1>8. CASE ~Subscribed
  <2>1. conn' = conn /\ subs' = subs
    BY <1>4, <1>8
  <2>2. TypeInv'
    BY <1>6, <2>1 DEF TypeInv, ConnTypes
  <2>3. ASSUME NEW d \in Cmds PROVE GenKept(d)
    BY <1>1, <2>1 DEF GenKept, ServerIsGone, TypeInv, OwnTypes
  <2> QED
    BY <1>1, <1>6, <2>1, <2>2, <2>3, SameFiles, OwnerStory
<1> QED
  BY <1>7, <1>8

LEMMA EmitOutcomeStep ==
  ASSUME TypeInv, StoryInv, EmitOutcome
  PROVE  TypeInv' /\ StoryInv'
<1> DEFINE e == Envelope(IF out = "failed" THEN "error" ELSE "result", 0, out)
<1>1. /\ UNCHANGED <<file, log, gen, lease, cmd>>
      /\ own = "saved" /\ own' = "idle" /\ cur' = NoReq /\ out' = "absent"
  BY DEF EmitOutcome
<1>2. cur \in Req /\ cur # NoReq /\ out \in Statuses /\ Terminal(out) /\ file[cur].status = out
  BY <1>1 DEF TypeInv, OwnTypes, StoryInv, InHand
<1>3. IF Subscribed
        THEN /\ conn' = [conn EXCEPT ![cur[1]] = [Written(cur[1], e) EXCEPT !.open = FALSE]]
             /\ subs' = subs \ {cur[1]}
        ELSE UNCHANGED <<conn, subs>>
  BY DEF EmitOutcome
<1>4. e \in Envelopes /\ Final(e) /\ e.status = out
  BY <1>2 DEF Envelope, Envelopes, Final
<1> HIDE DEF e
<1>5. LogTypes' /\ OwnTypes' /\ FileTypes' /\ CmdTypes' /\ InHand'
  BY <1>1 DEF TypeInv, LogTypes, OwnTypes, FileTypes, CmdTypes, InHand, Statuses
<1>6. CASE Subscribed
  <2>1. PICK c \in Cmds : c = cur[1] /\ cur = <<c, "socket">> /\ conn[c].srv \notin {"none", "called"}
    BY <1>1, <1>6, SubscribedIs
  <2> DEFINE w == Written(c, e)
             y == [w EXCEPT !.open = FALSE]
  <2>2. /\ w \in Conns /\ w.gen = conn[c].gen /\ w.read = conn[c].read /\ w.srv = conn[c].srv
        /\ WriteFails(c) => w.wire = conn[c].wire
        /\ ~WriteFails(c) => w.wire = Append(conn[c].wire, e)
    BY <1>4, WrittenIs DEF TypeInv
  <2>3. conn' = [conn EXCEPT ![c] = y] /\ subs' \subseteq subs
    BY <1>3, <1>6, <2>1
  <2> HIDE DEF w
  <2>4. /\ y \in Conns /\ y.gen = w.gen /\ y.read = w.read /\ y.srv = w.srv /\ y.wire = w.wire
    BY <2>2 DEF Conns
  <2> HIDE DEF y
  <2>5. conn' \in [Cmds -> Conns] /\ conn'[c] = y /\ \A d \in Cmds : d # c => conn'[d] = conn[d]
    BY <2>3, <2>4, ConnChanges DEF TypeInv
  <2>6. TypeInv'
    BY <1>5, <2>3, <2>5 DEF TypeInv, ConnTypes
  <2>7. WriteFails(c) => ~conn[c].open \/ cmd[c].pc # "reading"
    BY DEF WriteFails, StoryInv, Story, Places
  <2>8. file'[<<c, "socket">>].status = e.status /\ Terminal(e.status)
    BY <1>1, <1>2, <1>4, <2>1
  <2>9. ConnKept(c)
    <3>1. conn'[c].gen = conn[c].gen /\ conn'[c].read = conn[c].read /\ conn'[c].srv = conn[c].srv
      BY <2>2, <2>4, <2>5
    <3>2. c \in subs' => c \in subs
      BY <2>3
    <3>3. \/ conn'[c].wire = conn[c].wire
          \/ conn'[c].wire = Append(conn[c].wire, e) /\ conn[c].srv # "none"
      BY <2>1, <2>2, <2>4, <2>5
    <3>4. \/ ~conn[c].open \/ cmd[c].pc # "reading"
          \/ Final(e) /\ conn'[c].wire = Append(conn[c].wire, e)
      BY <1>4, <2>2, <2>4, <2>5, <2>7
    <3> QED
      BY <1>4, <2>8, <3>1, <3>2, <3>3, <3>4, CarriedKept DEF Outcome
  <2>10. ASSUME NEW d \in Cmds PROVE GenKept(d) /\ FilesKept(d)
    BY <1>1, <2>2, <2>4, <2>5, SameFiles DEF GenKept, ServerIsGone, TypeInv, OwnTypes
  <2>11. ASSUME NEW d \in Cmds PROVE Story(d)'
    <3>1. CASE d = c
      BY <1>1, <2>9, <2>10, <3>1, StoryKept DEF StoryInv
    <3>2. CASE d # c
      BY <1>1, <2>3, <2>5, <2>10, <3>2, StorySame DEF StoryInv
    <3> QED
      BY <3>1, <3>2
  <2> QED
    BY <1>5, <2>6, <2>11 DEF StoryInv
<1>7. CASE ~Subscribed
  <2>1. conn' = conn /\ subs' = subs
    BY <1>3, <1>7
  <2>2. TypeInv'
    BY <1>5, <2>1 DEF TypeInv, ConnTypes
  <2>3. ASSUME NEW d \in Cmds PROVE GenKept(d)
    BY <1>1, <2>1 DEF GenKept, ServerIsGone, TypeInv, OwnTypes
  <2> QED
    BY <1>1, <1>5, <2>1, <2>2, <2>3, SameFiles, OwnerStory
<1> QED
  BY <1>6, <1>7

\* The owner closes connections as it goes.
LEMMA ClosedStory ==
  ASSUME TypeInv, StoryInv, UNCHANGED <<file, log, gen, cmd>>, own' \in {"closed", "down"}, own' # "idle",
         OwnTypes', subs' = {}, NEW new \in [Cmds -> Conns], conn' = new,
         \A d \in Cmds : /\ new[d].gen = conn[d].gen /\ new[d].read = conn[d].read
                         /\ new[d].wire = conn[d].wire
                         /\ \/ new[d].srv = conn[d].srv
                            \/ conn[d].srv # "none" /\ new[d].srv = "gone"
  PROVE  TypeInv' /\ StoryInv'
<1>1. TypeInv' /\ InHand'
  BY DEF TypeInv, FileTypes, LogTypes, ConnTypes, CmdTypes, InHand
<1>2. \A d \in Cmds : ServerIsGone(d)'
  BY DEF ServerIsGone
<1> DEFINE e == Envelope("accepted", 0, "absent")
<1>3. e \in Envelopes /\ ~Final(e)
  BY DEF Envelope, Envelopes, Final, Statuses
<1> HIDE DEF e
<1>4. ASSUME NEW d \in Cmds PROVE ConnKept(d)
  BY <1>2, <1>3, CarriedKept
<1>5. ASSUME NEW d \in Cmds PROVE GenKept(d)
  BY <1>2 DEF GenKept, TypeInv, OwnTypes
<1> QED
  BY <1>1, <1>4, <1>5, SameFiles, OwnerStory

LEMMA CloseServerStep ==
  ASSUME TypeInv, StoryInv, CloseServer
  PROVE  TypeInv' /\ StoryInv'
<1>1. PICK reset \in SUBSET {c \in Cmds : conn[c].srv = "called"} :
        conn' = [c \in Cmds |->
          IF c \in reset \cup subs
            THEN [conn[c] EXCEPT !.open = FALSE, !.srv = IF @ = "accept" THEN @ ELSE "gone"]
            ELSE conn[c]]
  BY DEF CloseServer
<1> DEFINE new == [c \in Cmds |->
          IF c \in reset \cup subs
            THEN [conn[c] EXCEPT !.open = FALSE, !.srv = IF @ = "accept" THEN @ ELSE "gone"]
            ELSE conn[c]]
<1>2. /\ UNCHANGED <<file, log, gen, lease, cur, out, cmd>>
      /\ own = "leaving" /\ own' = "closed" /\ subs' = {}
  BY DEF CloseServer
<1>3. ASSUME NEW d \in Cmds
      PROVE  /\ new[d] \in Conns /\ new[d].gen = conn[d].gen /\ new[d].read = conn[d].read
             /\ new[d].wire = conn[d].wire
             /\ \/ new[d].srv = conn[d].srv
                \/ conn[d].srv # "none" /\ new[d].srv = "gone"
  <2>1. conn[d] \in Conns
    BY DEF TypeInv, ConnTypes
  <2>2. d \in reset \cup subs => conn[d].srv # "none"
    BY DEF StoryInv, Story, Places
  <2> QED
    BY <2>1, <2>2 DEF Conns
<1>4. new \in [Cmds -> Conns] /\ conn' = new
  BY <1>1, <1>3
<1> HIDE DEF new
<1>5. OwnTypes'
  BY <1>2 DEF TypeInv, OwnTypes
<1> QED
  BY <1>2, <1>3, <1>4, <1>5, ClosedStory

LEMMA DiesStep ==
  ASSUME TypeInv, StoryInv, Dies, UNCHANGED <<file, log, gen, cmd>>, lease' \in {0, lease}
  PROVE  TypeInv' /\ StoryInv'
<1> DEFINE new == [c \in Cmds |-> [conn[c] EXCEPT !.open = FALSE,
                                     !.srv = IF @ = "none" THEN @ ELSE "gone"]]
<1>1. own' = "down" /\ cur' = NoReq /\ out' = "absent" /\ subs' = {} /\ conn' = new
  BY DEF Dies
<1>2. ASSUME NEW d \in Cmds
      PROVE  /\ new[d] \in Conns /\ new[d].gen = conn[d].gen /\ new[d].read = conn[d].read
             /\ new[d].wire = conn[d].wire
             /\ \/ new[d].srv = conn[d].srv
                \/ conn[d].srv # "none" /\ new[d].srv = "gone"
  <2>1. conn[d] \in Conns
    BY DEF TypeInv, ConnTypes
  <2> QED
    BY <2>1 DEF Conns
<1>3. new \in [Cmds -> Conns]
  BY <1>2
<1> HIDE DEF new
<1>4. OwnTypes'
  BY <1>1 DEF TypeInv, OwnTypes, Statuses
<1> QED
  BY <1>1, <1>2, <1>3, <1>4, ClosedStory

-----------------------------------------------------------------------------
\* The invariant, and what it says of a prompt.

LEMMA InitInv ==
  ASSUME Init
  PROVE  TypeInv /\ StoryInv
<1>1. PICK json \in SUBSET Waiting :
        cmd = [c \in Cmds |-> [NewCmd EXCEPT !.pc = IF c \in Waiting THEN @ ELSE "enqueue",
                                             !.json = c \in json]]
  BY DEF Init
<1>2. /\ file = [r \in Req |-> NoFile] /\ log = <<>>
      /\ own = "idle" /\ gen = 1 /\ lease = 1 /\ cur = NoReq /\ out = "absent"
      /\ subs = {} /\ conn = [c \in Cmds |-> NoConn]
  BY DEF Init
<1>3. ASSUME NEW r \in Req PROVE file[r] \in Files /\ file[r].status = "absent"
  BY <1>2 DEF NoFile, Files, Statuses
<1>4. FileTypes
  <2>1. {r \in Req : file[r].status # "absent"} = {}
    BY <1>3
  <2>2. file \in [Req -> Files]
    BY <1>2, <1>3
  <2> QED
    BY <2>1, <2>2, FS_EmptySet DEF FileTypes
<1>5. LogTypes /\ OwnTypes
  BY <1>2 DEF LogTypes, OwnTypes, Statuses
<1>6. ASSUME NEW c \in Cmds
      PROVE  /\ IsCmd(cmd[c]) /\ cmd[c].pc \in {"lease", "enqueue"} /\ cmd[c].mine = NoReq
             /\ cmd[c].via = "none" /\ cmd[c].since = 0 /\ cmd[c].seen = 0
             /\ cmd[c].polled = <<>> /\ cmd[c].streamed = <<>>
  <2> DEFINE b == c \in json
  <2>1. b \in BOOLEAN /\ <<>> \in Seq(Nat)
    OBVIOUS
  <2>2. cmd[c] = [NewCmd EXCEPT !.pc = IF c \in Waiting THEN @ ELSE "enqueue", !.json = b]
    BY <1>1
  <2> HIDE DEF b
  <2>3. /\ cmd[c].json = b /\ cmd[c].pc \in {"lease", "enqueue"} /\ cmd[c].mine = NoReq
        /\ cmd[c].read = 0 /\ cmd[c].told = "absent"
        /\ cmd[c].via = "none" /\ cmd[c].since = 0 /\ cmd[c].seen = 0
        /\ cmd[c].polled = <<>> /\ cmd[c].streamed = <<>>
    BY <2>2 DEF NewCmd
  <2>4. IsCmd(cmd[c])
    <3>1. cmd[c] = [json |-> cmd[c].json, mine |-> cmd[c].mine, read |-> cmd[c].read, seen |-> cmd[c].seen,
                    since |-> cmd[c].since, pc |-> cmd[c].pc, streamed |-> cmd[c].streamed,
                    polled |-> cmd[c].polled, via |-> cmd[c].via, told |-> cmd[c].told]
      BY <2>2 DEF NewCmd
    <3> QED
      <4>1. cmd[c].json \in BOOLEAN /\ cmd[c].polled \in Seq(Nat) /\ cmd[c].streamed \in Seq(Nat)
        BY <2>1, <2>3
      <4>2. /\ cmd[c].mine \in Req \cup {NoReq} /\ cmd[c].read \in Nat /\ cmd[c].seen \in Nat
            /\ cmd[c].since \in Nat /\ cmd[c].told \in Statuses
            /\ cmd[c].pc \in {"lease", "dial", "reading", "enqueue", "ensure", "flush", "load",
                             "history", "last", "done"}
            /\ cmd[c].via \in {"none", "stream", "poll"}
        BY <2>3 DEF Statuses
      <4> QED
        BY <3>1, <4>1, <4>2 DEF IsCmd
  <2> QED
    BY <2>3, <2>4
<1>7. CmdTypes
  BY <1>1, <1>6 DEF CmdTypes
<1>8. ASSUME NEW c \in Cmds
      PROVE  /\ conn[c] \in Conns /\ conn[c].srv = "none" /\ conn[c].wire = <<>>
             /\ conn[c].gen = 0 /\ ~conn[c].open
  <2>1. <<>> \in Seq(Envelopes)
    OBVIOUS
  <2> QED
    BY <1>2, <2>1 DEF NoConn, Conns
<1>9. ConnTypes
  BY <1>2, <1>8 DEF ConnTypes
<1>10. ASSUME NEW c \in Cmds PROVE Story(c)
  <2>1. Socket(c) = "absent" /\ Queue(c) = "absent"
    BY <1>3, ReqIs DEF Socket, Queue
  <2>2. Places(c)
    BY <1>2, <1>6, <1>8, <2>1 DEF Places
  <2>3. Truth(c)
    BY <1>6, <1>8, <2>1 DEF Truth
  <2>4. Once(c)
    BY <1>6, <1>8, <2>1 DEF Once
  <2> QED
    BY <2>2, <2>3, <2>4 DEF Story
<1> QED
  BY <1>2, <1>4, <1>5, <1>7, <1>9, <1>10 DEF TypeInv, StoryInv, InHand

LEMMA NextInv ==
  ASSUME TypeInv, StoryInv, [Next]_vars
  PROVE  TypeInv' /\ StoryInv'
<1>1. CASE UNCHANGED vars
  <2>1. UNCHANGED <<file, log, own, gen, lease, cur, out, subs, conn, cmd>>
    BY <1>1 DEF vars, ownVars
  <2>2. TypeInv' /\ InHand'
    BY <2>1 DEF TypeInv, FileTypes, LogTypes, OwnTypes, ConnTypes, CmdTypes, StoryInv, InHand
  <2>3. ASSUME NEW d \in Cmds PROVE GenKept(d)
    BY <2>1 DEF GenKept, ServerIsGone, TypeInv, OwnTypes
  <2> QED
    BY <2>1, <2>2, <2>3, SameFiles, OwnerStory
<1>2. CASE OwnerStep
  <2>1. CASE Acquire
    BY <2>1, AcquireStep
  <2>2. CASE Listen
    BY <2>2, ListenStep
  <2>3. ASSUME NEW r \in Req, Claim(r) PROVE TypeInv' /\ StoryInv'
    BY <2>3, ClaimStep
  <2>4. CASE EmitOutcome
    BY <2>4, EmitOutcomeStep
  <2>5. CASE CloseServer
    BY <2>5, CloseServerStep
  <2>6. CASE EndOwner
    BY <2>6, DiesStep DEF EndOwner
  <2> QED
    BY <1>2, <2>1, <2>2, <2>3, <2>4, <2>5, <2>6 DEF OwnerStep
<1>3. CASE EmitEvent
  BY <1>3, EmitEventStep
<1>4. CASE IdleExit \/ CloseExit \/ ErrorExit
  BY <1>4, LeaveStep DEF IdleExit, CloseExit, ErrorExit
<1>5. CASE Crash
  BY <1>5, DiesStep DEF Crash
<1>6. ASSUME NEW s \in {"completed", "failed"}, EndTurn(s) PROVE TypeInv' /\ StoryInv'
  BY <1>6, EndTurnStep
<1>7. ASSUME NEW c \in Cmds, Command(c) PROVE TypeInv' /\ StoryInv'
  BY <1>7, LoadLeaseStep, DialStep, ReadEnvelopeStep, StreamEndsStep, EnqueueStep, EnsureOwnerStep,
     LoadRequestStep, PollStep DEF Command
<1>8. ASSUME NEW c \in Cmds, Handler(c) \/ HandlerRefuses(c) PROVE TypeInv' /\ StoryInv'
  BY <1>8, HandlerEnqueuesStep, HandlerRegistersStep, HandlerAcceptsStep, HandlerRefusesStep DEF Handler
<1> QED
  BY <1>1, <1>2, <1>3, <1>4, <1>5, <1>6, <1>7, <1>8 DEF Next

\* The types and the story of every command hold in every state.
THEOREM StoryHolds == Spec => [](TypeInv /\ StoryInv)
<1>1. Init => TypeInv /\ StoryInv
  BY InitInv
<1>2. (TypeInv /\ StoryInv) /\ [Next]_vars => (TypeInv /\ StoryInv)'
  BY NextInv
<1> QED
  BY <1>1, <1>2, PTL DEF Spec

\* A prompt that was queued by the socket and by the file was left by an owner that is
\* gone, or was accepted by another than the one whose lease was read: an owner that
\* lives and listens answers for what its handler has queued, and a command
\* goes back to the queue only when that answer cannot come any more
\* (owner_ipc.go:230-263, 632-678; main.go:729-741).
THEOREM Submitted == Spec => []SubmittedOnce
<1>1. StoryInv => SubmittedOnce
  BY DEF StoryInv, Story, Places, Once, SubmittedOnce, Socket, Queue
<1> QED
  BY <1>1, StoryHolds, PTL

\* The outcome a command was told, by the stream or by its polling, was saved before
\* it was told, and no owner that recovers the queue runs the prompt again
\* (main.go:2399-2406, 504-578).
THEOREM ToldTrue == Spec => []ToldIsSaved
<1>1. TypeInv /\ StoryInv => ToldIsSaved
  <2> SUFFICES ASSUME TypeInv, StoryInv, NEW c \in Cmds, cmd[c].via # "none"
               PROVE  file[IF cmd[c].via = "stream" THEN <<c, "socket">>
                                                    ELSE cmd[c].mine].status = cmd[c].told
    BY DEF ToldIsSaved, Heard
  <2>1. Truth(c) /\ cmd[c].via \in {"stream", "poll"}
    BY DEF StoryInv, Story, TypeInv, CmdTypes, IsCmd
  <2> QED
    BY <2>1 DEF Truth, Socket
<1> QED
  BY <1>1, StoryHolds, PTL

-----------------------------------------------------------------------------
\* The request files and the log.

LEMMA AppendIs ==
  ASSUME NEW S, NEW w \in Seq(S), NEW e
  PROVE  /\ Len(w) \in Nat /\ Len(Append(w, e)) = Len(w) + 1 /\ Append(w, e) # <<>>
         /\ Append(w, e)[Len(w) + 1] = e
         /\ \A k \in 1..Len(w) : Append(w, e)[k] = w[k]
OBVIOUS

\* A request that runs or has ended was started, and its place in the log is there.
Begun == \A r \in Req : /\ file[r].started <= Len(log) + 1
                        /\ file[r].status = "running" \/ Terminal(file[r].status) => file[r].started # 0
\* A request is started again only before it has ended, and its file stays.
Moved(r) == /\ file[r].status # "absent" => file'[r].status # "absent"
            /\ \/ file'[r].started = file[r].started
               \/ ~Terminal(file[r].status) /\ file'[r].started \in {0, Len(log) + 1}
\* The log grows by what is executed.
LogMoves == log' = log \/ \E x : log' = Append(log, x) /\ file[x.of].status = "running"

\* Nothing is logged for a request that was never queued.
LogInv == \A i \in 1..Len(log) : log[i].of \in Req /\ file[log[i].of].status # "absent"

\* What any step does to the files and to the log.
LEMMA FilesMove ==
  ASSUME TypeInv, StoryInv, Begun, [Next]_vars
  PROVE  Begun' /\ (\A r \in Req : Moved(r)) /\ LogMoves
<1>1. Len(log) \in Nat /\ \A r \in Req : file[r] \in Files /\ file[r].started \in Nat
  BY DEF TypeInv, LogTypes, FileTypes, Files
<1>2. ASSUME file' = file, log' = log
      PROVE  Begun' /\ (\A r \in Req : Moved(r)) /\ LogMoves
  BY <1>2 DEF Begun, Moved, LogMoves
<1>3. ASSUME NEW r \in Req, Enqueued(r), log' = log, file[r].status = "absent"
      PROVE  Begun' /\ (\A s \in Req : Moved(s)) /\ LogMoves
  <2>1. file'[r].status = "queued" /\ file'[r].started = 0 /\ \A s \in Req : s # r => file'[s] = file[s]
    BY <1>3 DEF Enqueued, TypeInv, FileTypes
  <2>2. Begun'
    BY <1>1, <1>3, <2>1 DEF Begun, Terminal
  <2>3. \A s \in Req : Moved(s)
    BY <1>3, <2>1 DEF Moved, Terminal
  <2> QED
    BY <1>3, <2>2, <2>3 DEF LogMoves
<1>4. CASE Listen
  <2>1. ASSUME NEW r \in Req
        PROVE  IF file[r].status = "running" THEN file'[r].status = "queued" /\ file'[r].started = 0
               ELSE file'[r] = file[r]
    BY <1>1, <1>4 DEF Listen, Files
  <2>2. log' = log
    BY <1>4 DEF Listen
  <2>3. Begun' /\ \A s \in Req : Moved(s)
    BY <1>1, <2>1, <2>2 DEF Begun, Moved, Terminal
  <2> QED
    BY <2>2, <2>3 DEF LogMoves
<1>5. ASSUME NEW r \in Req, Claim(r)
      PROVE  Begun' /\ (\A s \in Req : Moved(s)) /\ LogMoves
  <2>1. log' = log /\ file[r].status = "queued"
    BY <1>5 DEF Claim, NextPending
  <2>2. /\ file'[r].status = "running" /\ file'[r].started = Len(log) + 1
        /\ \A s \in Req : s # r => file'[s] = file[s]
    BY <1>1, <1>5 DEF Claim, TypeInv, FileTypes, Files
  <2>3. Begun' /\ \A s \in Req : Moved(s)
    BY <1>1, <2>1, <2>2 DEF Begun, Moved, Terminal
  <2> QED
    BY <2>1, <2>3 DEF LogMoves
<1>6. ASSUME NEW s \in {"completed", "failed"}, EndTurn(s)
      PROVE  Begun' /\ (\A r \in Req : Moved(r)) /\ LogMoves
  <2>1. PICK r \in Req : r = cur
    BY <1>6 DEF EndTurn, TypeInv, OwnTypes
  <2>2. log' = log /\ file[r].status = "running"
    BY <1>6, <2>1 DEF EndTurn, StoryInv, InHand
  <2>3. file'[r].started = file[r].started /\ file'[r].status = s /\ \A q \in Req : q # r => file'[q] = file[q]
    BY <1>1, <1>6, <2>1 DEF EndTurn, TypeInv, FileTypes, Files
  <2>4. Begun' /\ \A q \in Req : Moved(q)
    BY <1>1, <2>2, <2>3 DEF Begun, Moved, Terminal
  <2> QED
    BY <2>2, <2>4 DEF LogMoves
<1>7. CASE EmitEvent
  <2>1. PICK n : /\ log' = Append(log, [of |-> cur, gen |-> gen, nth |-> n]) /\ file' = file
                 /\ own = "running"
    BY <1>7 DEF EmitEvent, Event
  <2> DEFINE x == [of |-> cur, gen |-> gen, nth |-> n]
  <2>2. x.of = cur /\ file[cur].status = "running" /\ log' = Append(log, x)
    BY <2>1 DEF StoryInv, InHand
  <2>3. Len(log') = Len(log) + 1
    BY <2>2, AppendIs DEF TypeInv, LogTypes
  <2>4. Begun' /\ \A r \in Req : Moved(r)
    BY <1>1, <2>1, <2>3 DEF Begun, Moved
  <2> HIDE DEF x
  <2>5. LogMoves
    BY <2>2 DEF LogMoves
  <2> QED
    BY <2>4, <2>5
<1>8. ASSUME NEW c \in Cmds, Command(c)
      PROVE  Begun' /\ (\A r \in Req : Moved(r)) /\ LogMoves
  <2>1. CASE Enqueue(c)
    <3>1. file[<<c, "file">>].status = "absent" /\ <<c, "file">> \in Req
      BY <2>1, ReqIs DEF Enqueue, StoryInv, Story, Places, Queue
    <3> QED
      BY <1>3, <2>1, <3>1 DEF Enqueue
  <2>2. CASE ~Enqueue(c)
    <3>1. file' = file /\ log' = log
      BY <1>8, <2>2 DEF Command, LoadLease, Dial, ReadEnvelope, StreamEnds, EnsureOwner, LoadRequest,
                        PollLog, PollLast
    <3> QED
      BY <1>2, <3>1
  <2> QED
    BY <2>1, <2>2
<1>9. ASSUME NEW c \in Cmds, Handler(c)
      PROVE  Begun' /\ (\A r \in Req : Moved(r)) /\ LogMoves
  <2>1. CASE HandlerEnqueues(c)
    <3>1. file[<<c, "socket">>].status = "absent" /\ <<c, "socket">> \in Req
      BY <2>1, ReqIs DEF HandlerEnqueues, StoryInv, Story, Places, Socket
    <3> QED
      BY <1>3, <2>1, <3>1 DEF HandlerEnqueues
  <2>2. CASE ~HandlerEnqueues(c)
    <3>1. file' = file /\ log' = log
      BY <1>9, <2>2 DEF Handler, HandlerRegisters, HandlerAccepts
    <3> QED
      BY <1>2, <3>1
  <2> QED
    BY <2>1, <2>2
<1>10. CASE \/ Acquire \/ EmitOutcome \/ CloseServer \/ EndOwner \/ IdleExit \/ CloseExit \/ ErrorExit \/ Crash
            \/ \E c \in Cmds : HandlerRefuses(c)
  BY <1>2, <1>10 DEF HandlerRefuses, Acquire, EmitOutcome, CloseServer, EndOwner, IdleExit, CloseExit, ErrorExit, Crash, Leave
<1>11. CASE UNCHANGED vars
  BY <1>2, <1>11 DEF vars
<1> QED
  BY <1>4, <1>5, <1>6, <1>7, <1>8, <1>9, <1>10, <1>11 DEF Next, OwnerStep

LEMMA LogMoved ==
  ASSUME TypeInv, StoryInv, Begun, LogInv, TypeInv', [Next]_vars
  PROVE  LogInv'
<1>1. (\A r \in Req : Moved(r)) /\ LogMoves
  BY FilesMove
<1>2. CASE log' = log
  BY <1>1, <1>2 DEF LogInv, Moved
<1>3. ASSUME NEW x, log' = Append(log, x), file[x.of].status = "running"
      PROVE  LogInv'
  <2>1. Len(log) \in Nat /\ Len(log') = Len(log) + 1 /\ log'[Len(log) + 1] = x
        /\ \A i \in 1..Len(log) : log'[i] = log[i]
    BY <1>3, AppendIs DEF TypeInv, LogTypes
  <2>2. x.of \in Req
    <3> DEFINE S == [of : Req, gen : Nat, nth : Nat]
    <3>1. log' \in Seq(S)
      BY DEF TypeInv, LogTypes
    <3>2. Len(log) + 1 \in 1..Len(log')
      BY <2>1
    <3>3. x \in S
      <4> HIDE DEF S
      <4> QED
        BY <2>1, <3>1, <3>2
    <3> QED
      BY <3>3
  <2>3. ASSUME NEW i \in 1..Len(log') PROVE log'[i].of \in Req /\ file'[log'[i].of].status # "absent"
    <3>1. CASE i \in 1..Len(log)
      BY <1>1, <2>1, <3>1 DEF LogInv, Moved
    <3>2. CASE i = Len(log) + 1
      BY <1>1, <1>3, <2>1, <2>2, <3>2 DEF Moved
    <3> QED
      BY <2>1, <3>1, <3>2
  <2> QED
    BY <2>3 DEF LogInv
<1> QED
  BY <1>1, <1>2, <1>3 DEF LogMoves

LEMMA InitBegun ==
  ASSUME Init
  PROVE  Begun /\ LogInv
<1>1. file = [r \in Req |-> NoFile] /\ log = <<>>
  BY DEF Init
<1>2. ASSUME NEW r \in Req PROVE file[r].status = "absent" /\ file[r].started = 0
  BY <1>1 DEF NoFile
<1>3. Len(log) = 0 /\ ~Terminal("absent")
  BY <1>1 DEF Terminal
<1> QED
  BY <1>2, <1>3 DEF Begun, LogInv

\* Requests that run were started, and what is logged belongs to requests that are there.
THEOREM LogHolds == Spec => [](Begun /\ LogInv)
<1>1. Init => Begun /\ LogInv
  BY InitBegun
<1>2. TypeInv /\ StoryInv /\ TypeInv' /\ (Begun /\ LogInv) /\ [Next]_vars => (Begun /\ LogInv)'
  BY FilesMove, LogMoved
<1> QED
  BY <1>1, <1>2, StoryHolds, PTL DEF Spec

-----------------------------------------------------------------------------
\* What is on the wire of a connection: events in order, `accepted` somewhere among
\* them (a is its place, or that after the last), and an outcome only at the end.

Ended(w) == w # <<>> /\ Final(w[Len(w)])
Numbered(w, b, a) ==
  \A k \in 1..Len(w) : /\ w[k].type = "accepted" <=> k = a
                       /\ w[k].type = "event" => w[k].nth = b + k - (IF a < k THEN 1 ELSE 0)
                       /\ Final(w[k]) => k = Len(w)
\* The number of the last event, with b of them missed or read.
Total(w, b, a) == b + Len(w) - (IF a <= Len(w) THEN 1 ELSE 0) - (IF Ended(w) THEN 1 ELSE 0)

LEMMA EmptyWire ==
  ASSUME NEW b \in Nat
  PROVE  Numbered(<<>>, b, 1) /\ Total(<<>>, b, 1) = b /\ ~Ended(<<>>)
BY DEF Numbered, Total, Ended

\* `accepted` is written once.
LEMMA WireAccepted ==
  ASSUME NEW w \in Seq(Envelopes), NEW b \in Nat, NEW e \in Envelopes, e.type = "accepted",
         Numbered(w, b, Len(w) + 1), ~Ended(w)
  PROVE  LET v == Append(w, e) IN
         /\ Numbered(v, b, Len(w) + 1) /\ ~Ended(v)
         /\ Total(v, b, Len(w) + 1) = Total(w, b, Len(w) + 1)
<1> DEFINE v == Append(w, e)
           n == Len(w)
<1>1. /\ n \in Nat /\ Len(v) = n + 1 /\ v # <<>> /\ v[n + 1] = e
      /\ \A k \in 1..n : v[k] = w[k]
  BY AppendIs
<1>2. ~Final(e)
  BY DEF Final
<1>3. \A k \in 1..n : ~Final(w[k])
  BY <1>1 DEF Numbered, Ended
<1> HIDE DEF v
<1>4. Numbered(v, b, n + 1)
  <2> SUFFICES ASSUME NEW k \in 1..n + 1
               PROVE  /\ v[k].type = "accepted" <=> k = n + 1
                      /\ v[k].type = "event" => v[k].nth = b + k - (IF n + 1 < k THEN 1 ELSE 0)
                      /\ Final(v[k]) => k = n + 1
    BY <1>1 DEF Numbered
  <2>1. CASE k = n + 1
    BY <1>1, <1>2, <2>1
  <2>2. CASE k \in 1..n
    BY <1>1, <1>3, <2>2 DEF Numbered
  <2> QED
    BY <1>1, <2>1, <2>2
<1>5. ~Ended(v)
  BY <1>1, <1>2 DEF Ended
<1>6. Total(v, b, n + 1) = Total(w, b, n + 1)
  BY <1>1, <1>5 DEF Total
<1> QED
  BY <1>4, <1>5, <1>6 DEF v

\* An event has the next number, and an outcome none.
LEMMA WireNext ==
  ASSUME NEW w \in Seq(Envelopes), NEW b \in Nat, NEW a \in 1..Len(w) + 1, NEW e \in Envelopes,
         Numbered(w, b, a), ~Ended(w),
         \/ e.type = "event" /\ e.nth = Total(w, b, a) + 1
         \/ Final(e)
  PROVE  LET v == Append(w, e) IN
         \E a2 \in 1..Len(v) + 1 :
            /\ Numbered(v, b, a2) /\ (Ended(v) <=> Final(e))
            /\ Total(v, b, a2) = Total(w, b, a) + (IF Final(e) THEN 0 ELSE 1)
            /\ a2 <= Len(v) => a <= Len(w)
<1> DEFINE v == Append(w, e)
           n == Len(w)
           a2 == IF a <= n THEN a ELSE n + 2
<1>1. /\ n \in Nat /\ Len(v) = n + 1 /\ v # <<>> /\ v[n + 1] = e
      /\ \A k \in 1..n : v[k] = w[k]
  BY AppendIs
<1>2. e.type # "accepted" /\ (Final(e) <=> e.type # "event")
  BY DEF Final
<1>3. \A k \in 1..n : ~Final(w[k])
  BY <1>1 DEF Numbered, Ended
<1>4. a \in 1..n + 1 /\ a2 \in 1..n + 2 /\ a2 # n + 1 /\ (a2 <= n + 1 <=> a <= n)
  BY <1>1
<1>5. Ended(v) <=> Final(e)
  <2> HIDE DEF v
  <2> QED
    BY <1>1 DEF Ended
<1> HIDE DEF v
<1>6. Total(v, b, a2) = Total(w, b, a) + (IF Final(e) THEN 0 ELSE 1)
  BY <1>1, <1>4, <1>5 DEF Total
<1>7. e.type = "event" => e.nth = b + (n + 1) - (IF a2 < n + 1 THEN 1 ELSE 0)
  BY <1>1, <1>2, <1>4 DEF Total
<1>8. Numbered(v, b, a2)
  <2> SUFFICES ASSUME NEW k \in 1..n + 1
               PROVE  /\ v[k].type = "accepted" <=> k = a2
                      /\ v[k].type = "event" => v[k].nth = b + k - (IF a2 < k THEN 1 ELSE 0)
                      /\ Final(v[k]) => k = n + 1
    BY <1>1 DEF Numbered
  <2>1. CASE k = n + 1
    BY <1>1, <1>2, <1>4, <1>7, <2>1
  <2>2. CASE k \in 1..n
    <3>1. /\ w[k].type = "accepted" <=> k = a
          /\ w[k].type = "event" => w[k].nth = b + k - (IF a < k THEN 1 ELSE 0)
      BY <2>2 DEF Numbered
    <3>2. (k = a <=> k = a2) /\ (a < k <=> a2 < k)
      BY <1>1, <1>4, <2>2
    <3> HIDE DEF a2
    <3> QED
      BY <1>1, <1>3, <2>2, <3>1, <3>2
  <2> QED
    BY <1>1, <2>1, <2>2
<1> QED
  BY <1>1, <1>4, <1>5, <1>6, <1>8 DEF v

\* The head is read: an event has the number after the last one read.
LEMMA WireRead ==
  ASSUME NEW w \in Seq(Envelopes), w # <<>>, NEW b \in Nat, NEW a \in 1..Len(w) + 1,
         Numbered(w, b, a), ~Final(Head(w))
  PROVE  LET v  == Tail(w)
             b2 == b + (IF Head(w).type = "event" THEN 1 ELSE 0)
         IN  /\ Head(w).type = "event" => Head(w).nth = b + 1
             /\ Ended(v) <=> Ended(w)
             /\ \E a2 \in 1..Len(v) + 1 :
                  /\ Numbered(v, b2, a2) /\ Total(v, b2, a2) = Total(w, b, a)
                  /\ a2 <= Len(v) => a <= Len(w)
<1> DEFINE v == Tail(w)
           n == Len(w)
           b2 == b + (IF Head(w).type = "event" THEN 1 ELSE 0)
           a2 == IF a = 1 THEN n ELSE a - 1
<1>1. /\ n \in Nat \ {0} /\ Len(v) = n - 1 /\ Head(w) = w[1] /\ 1 \in 1..n
      /\ \A k \in 1..n - 1 : v[k] = w[k + 1]
  OBVIOUS
<1>2. w[1].type = "accepted" <=> 1 = a
  BY <1>1 DEF Numbered
<1>3. w[1].type = "event" => w[1].nth = b + 1
  <2>1. w[1].type = "event" => w[1].nth = b + 1 - (IF a < 1 THEN 1 ELSE 0)
    BY <1>1 DEF Numbered
  <2>2. ~(a < 1) /\ b + 1 - 0 = b + 1
    BY <1>1
  <2> QED
    BY <2>1, <2>2
<1>4. w[1].type # "event" => a = 1
  <2>1. w[1] \in Envelopes
    BY <1>1
  <2> QED
    BY <1>1, <1>2, <2>1 DEF Envelopes, Final
<1>5. a \in 1..n + 1 /\ a2 \in 1..n /\ b2 \in Nat /\ b2 = b + (IF a = 1 THEN 0 ELSE 1)
  BY <1>1, <1>2, <1>4
<1> HIDE DEF v
<1>6. Ended(v) <=> Ended(w)
  <2>1. CASE n = 1
    <3>1. v = <<>>
      <4>1. v \in Seq(Envelopes) /\ Len(v) = 0
        BY <1>1, <2>1 DEF v
      <4> QED
        BY <4>1
    <3> QED
      BY <1>1, <2>1, <3>1 DEF Ended
  <2>2. CASE n > 1
    <3>1. v[n - 1] = w[n] /\ v # <<>> /\ w # <<>>
      BY <1>1, <2>2
    <3> QED
      BY <1>1, <3>1 DEF Ended
  <2> QED
    BY <1>1, <2>1, <2>2
<1>7. Total(v, b2, a2) = Total(w, b, a)
  <2> DEFINE z == IF Ended(w) THEN 1 ELSE 0
  <2>1. z \in Nat
    OBVIOUS
  <2>2. Total(w, b, a) = b + n - (IF a <= n THEN 1 ELSE 0) - z
    BY DEF Total
  <2>3. Total(v, b2, a2) = b2 + (n - 1) - (IF a2 <= n - 1 THEN 1 ELSE 0) - z
    BY <1>1, <1>6 DEF Total
  <2> HIDE DEF b2, z
  <2>4. CASE a = 1
    <3>1. a2 = n /\ b2 = b /\ a <= n /\ ~(n <= n - 1)
      BY <1>1, <1>5, <2>4
    <3>2. Total(w, b, a) = b + n - 1 - z /\ Total(v, b2, a2) = b + (n - 1) - 0 - z
      BY <2>2, <2>3, <3>1
    <3> QED
      BY <1>1, <2>1, <3>2
  <2>5. CASE a # 1
    BY <1>1, <1>5, <2>1, <2>2, <2>3, <2>5
  <2> QED
    BY <2>4, <2>5
<1>8. Numbered(v, b2, a2)
  <2> SUFFICES ASSUME NEW k \in 1..n - 1
               PROVE  /\ v[k].type = "accepted" <=> k = a2
                      /\ v[k].type = "event" => v[k].nth = b2 + k - (IF a2 < k THEN 1 ELSE 0)
                      /\ Final(v[k]) => k = n - 1
    BY <1>1 DEF Numbered
  <2> HIDE DEF b2
  <2>1. k + 1 \in 1..n /\ v[k] = w[k + 1]
    BY <1>1
  <2>2. /\ w[k + 1].type = "accepted" <=> k + 1 = a
        /\ w[k + 1].type = "event" => w[k + 1].nth = b + (k + 1) - (IF a < k + 1 THEN 1 ELSE 0)
        /\ Final(w[k + 1]) => k + 1 = n
    BY <2>1 DEF Numbered
  <2>3. (k + 1 = a <=> k = a2) /\ b2 + k - (IF a2 < k THEN 1 ELSE 0) = b + (k + 1) - (IF a < k + 1 THEN 1 ELSE 0)
    BY <1>1, <1>5
  <2>4. k + 1 = n => k = n - 1
    BY <1>1
  <2> HIDE DEF a2
  <2> QED
    BY <2>1, <2>2, <2>3, <2>4
<1>9. a2 <= n - 1 => a <= n
  BY <1>1, <1>5
<1> HIDE DEF a2, b2
<1> QED
  BY <1>1, <1>3, <1>5, <1>6, <1>7, <1>8, <1>9 DEF v, b2

\* An outcome is read: everything before it has been.
LEMMA WireLast ==
  ASSUME NEW w \in Seq(Envelopes), w # <<>>, NEW b \in Nat, NEW a \in 1..Len(w) + 1,
         Numbered(w, b, a), Final(Head(w))
  PROVE  Ended(w) /\ Total(w, b, a) = b
<1>1. Len(w) \in Nat \ {0} /\ Head(w) = w[1] /\ 1 \in 1..Len(w)
  OBVIOUS
<1>2. Len(w) = 1 /\ w[1].type # "accepted"
  BY <1>1 DEF Numbered, Final
<1>3. a = 2
  BY <1>1, <1>2 DEF Numbered
<1>4. Ended(w)
  BY <1>1, <1>2 DEF Ended
<1> QED
  BY <1>2, <1>3, <1>4 DEF Total

-----------------------------------------------------------------------------
\* The stream of a command: what it has read of its connection, and what it will.

FinalOn(c)  == Ended(conn[c].wire)
Serves(c)   == conn[c].srv \in {"called", "register", "accept", "waiting"}
Got(c)      == conn[c].missed + Len(cmd[c].streamed)
LoggedOf(c) == Logged(<<c, "socket">>, conn[c].gen)
\* Everything that its owner logs for the request is written to the connection.
Whole(c) == (c \in subs /\ conn[c].open /\ conn[c].read) \/ FinalOn(c) \/ cmd[c].via = "stream"

\* A handler lives in the present owner, and a connection is read by its command or not at all.
Attached(c) ==
  /\ Serves(c) => conn[c].gen = gen /\ own \notin {"down", "spawned"}
  /\ c \in subs => conn[c].srv \in {"accept", "waiting"}
  /\ conn[c].srv \in {"none", "called", "register"} =>
       conn[c].wire = <<>> /\ cmd[c].streamed = <<>> /\ c \notin subs /\ conn[c].missed = 0
  /\ conn[c].read <=> cmd[c].pc = "reading"
  /\ ~conn[c].read => conn[c].wire = <<>>
  /\ FinalOn(c) => ~conn[c].open
InStream(c) ==
  /\ \A k \in 1..Len(cmd[c].streamed) : cmd[c].streamed[k] = conn[c].missed + k
  /\ \E a \in 1..Len(conn[c].wire) + 1 :
       /\ Numbered(conn[c].wire, Got(c), a)
       /\ a <= Len(conn[c].wire) => conn[c].srv # "accept"
       /\ Whole(c) => Total(conn[c].wire, Got(c), a) = LoggedOf(c)
Stream(c) == Attached(c) /\ InStream(c)
StreamInv == \A c \in Cmds : Stream(c)

LEMMA StreamTypes ==
  ASSUME TypeInv, NEW c \in Cmds
  PROVE  /\ conn[c] \in Conns /\ conn[c].wire \in Seq(Envelopes) /\ conn[c].missed \in Nat
         /\ Len(conn[c].wire) \in Nat /\ conn[c].gen \in Nat /\ IsCmd(cmd[c])
         /\ cmd[c].streamed \in Seq(Nat) /\ Len(cmd[c].streamed) \in Nat /\ Got(c) \in Nat
<1>1. conn[c] \in Conns /\ IsCmd(cmd[c])
  BY DEF TypeInv, ConnTypes, CmdTypes
<1>2. conn[c].wire \in Seq(Envelopes) /\ conn[c].missed \in Nat /\ conn[c].gen \in Nat
  BY <1>1 DEF Conns
<1>3. cmd[c].streamed \in Seq(Nat)
  BY <1>1 DEF IsCmd
<1> QED
  BY <1>1, <1>2, <1>3 DEF Got

\* What the log grows by.
LEMMA LoggedAppend ==
  ASSUME LogTypes, NEW x, log' = Append(log, x), NEW r \in Req, NEW g
  PROVE  Logged(r, g)' = IF x.of = r /\ x.gen = g THEN Logged(r, g) + 1 ELSE Logged(r, g)
<1> DEFINE n == Len(log)
           S == {i \in 1..n : log[i].of = r /\ log[i].gen = g}
           T == {i \in 1..Len(log') : log'[i].of = r /\ log'[i].gen = g}
<1>1. n \in Nat /\ Len(log') = n + 1 /\ log'[n + 1] = x /\ \A i \in 1..n : log'[i] = log[i]
  BY AppendIs DEF LogTypes
<1>2. IsFiniteSet(S) /\ n + 1 \notin S
  <2>1. IsFiniteSet(1..n) /\ n + 1 \notin 1..n
    BY <1>1, FS_Interval
  <2> QED
    BY <2>1, FS_Subset
<1>3. Logged(r, g) = Cardinality(S) /\ Logged(r, g)' = Cardinality(T)
  BY DEF Logged
<1>4. CASE x.of = r /\ x.gen = g
  <2>1. T = S \cup {n + 1}
    BY <1>1, <1>4
  <2> HIDE DEF S, T
  <2>2. Cardinality(S \cup {n + 1}) = Cardinality(S) + 1
    BY <1>2, FS_AddElement
  <2> QED
    BY <1>3, <1>4, <2>1, <2>2
<1>5. CASE ~(x.of = r /\ x.gen = g)
  <2>1. T = S
    BY <1>1, <1>5
  <2> QED
    BY <1>3, <1>5, <2>1
<1> QED
  BY <1>4, <1>5

\* Nothing is written to the connection or read from it; it may be closed.
LEMMA StreamKept ==
  ASSUME TypeInv, NEW c \in Cmds, Stream(c),
         conn'[c].wire = conn[c].wire, conn'[c].missed = conn[c].missed, conn'[c].gen = conn[c].gen,
         conn'[c].open => conn[c].open, conn'[c].read => conn[c].read,
         conn'[c].read <=> cmd'[c].pc = "reading", ~conn'[c].read => conn[c].wire = <<>>,
         \/ conn'[c].srv \in {conn[c].srv, "gone"}
         \/ conn[c].srv = "called" /\ conn'[c].srv = "register",
         c \in subs' => c \in subs /\ conn'[c].srv = conn[c].srv,
         cmd'[c].streamed = cmd[c].streamed, cmd'[c].via = "stream" => cmd[c].via = "stream",
         Serves(c)' => gen' = conn[c].gen /\ own' \notin {"down", "spawned"},
         Whole(c) => LoggedOf(c)' = LoggedOf(c)
  PROVE  Stream(c)'
<1>1. FinalOn(c)' <=> FinalOn(c)
  BY DEF FinalOn, Ended, Final
<1>2. Attached(c)'
  BY <1>1 DEF Stream, Attached
<1>3. Whole(c)' => Whole(c)
  BY <1>1 DEF Whole
<1>4. Got(c)' = Got(c)
  BY DEF Got
<1>5. PICK a \in 1..Len(conn[c].wire) + 1 :
        /\ Numbered(conn[c].wire, Got(c), a)
        /\ a <= Len(conn[c].wire) => conn[c].srv # "accept"
        /\ Whole(c) => Total(conn[c].wire, Got(c), a) = LoggedOf(c)
  BY DEF Stream, InStream
<1>6. /\ Numbered(conn'[c].wire, Got(c)', a)
      /\ a <= Len(conn'[c].wire) => conn'[c].srv # "accept"
      /\ Whole(c)' => Total(conn'[c].wire, Got(c)', a) = LoggedOf(c)'
  BY <1>3, <1>4, <1>5
<1>7. \A k \in 1..Len(cmd'[c].streamed) : cmd'[c].streamed[k] = conn'[c].missed + k
  BY DEF Stream, InStream
<1>8. InStream(c)'
  <2>1. a \in 1..Len(conn'[c].wire) + 1
    BY <1>5
  <2>2. \E a2 \in 1..Len(conn'[c].wire) + 1 :
          /\ Numbered(conn'[c].wire, Got(c)', a2)
          /\ a2 <= Len(conn'[c].wire) => conn'[c].srv # "accept"
          /\ Whole(c)' => Total(conn'[c].wire, Got(c)', a2) = LoggedOf(c)'
    BY <1>6, <2>1
  <2> QED
    BY <1>7, <2>2 DEF InStream, Numbered, Total, Ended, Final
<1> QED
  BY <1>2, <1>8 DEF Stream

\* The connection is not touched at all.
LEMMA StreamSame ==
  ASSUME TypeInv, NEW c \in Cmds, Stream(c), conn'[c] = conn[c],
         cmd'[c].pc = "reading" <=> cmd[c].pc = "reading",
         c \in subs' => c \in subs,
         cmd'[c].streamed = cmd[c].streamed, cmd'[c].via = "stream" => cmd[c].via = "stream",
         Serves(c) => gen' = conn[c].gen /\ own' \notin {"down", "spawned"},
         Whole(c) => LoggedOf(c)' = LoggedOf(c)
  PROVE  Stream(c)'
<1>1. (conn'[c].read <=> cmd'[c].pc = "reading") /\ (~conn'[c].read => conn[c].wire = <<>>)
  BY DEF Stream, Attached
<1>2. Serves(c)' <=> Serves(c)
  BY DEF Serves
<1>3. /\ conn'[c].wire = conn[c].wire /\ conn'[c].missed = conn[c].missed /\ conn'[c].gen = conn[c].gen
      /\ conn'[c].open = conn[c].open /\ conn'[c].read = conn[c].read /\ conn'[c].srv = conn[c].srv
  OBVIOUS
<1> QED
  BY <1>1, <1>2, <1>3, StreamKept

LEMMA LoggedSame ==
  ASSUME log' = log, NEW c \in Cmds, conn'[c].gen = conn[c].gen
  PROVE  LoggedOf(c)' = LoggedOf(c)
BY DEF LoggedOf, Logged

\* A request of which an outcome is on the wire, or was read, is not in hand.
LEMMA EndedIsOver ==
  ASSUME TypeInv, StoryInv, own = "running", NEW c \in Cmds, FinalOn(c) \/ cmd[c].via = "stream"
  PROVE  cur # <<c, "socket">>
<1>1. Truth(c) /\ file[cur].status = "running"
  BY DEF StoryInv, Story, InHand
<1>2. Socket(c) # "running"
  <2>1. CASE cmd[c].via = "stream"
    BY <1>1, <2>1 DEF Truth, Terminal, Outcome
  <2>2. CASE FinalOn(c)
    <3>1. Len(conn[c].wire) \in 1..Len(conn[c].wire)
      BY <2>2, StreamTypes DEF FinalOn, Ended
    <3>2. Final(conn[c].wire[Len(conn[c].wire)])
      BY <2>2 DEF FinalOn, Ended
    <3> QED
      BY <1>1, <3>1, <3>2 DEF Truth, Terminal, Outcome
  <2> QED
    BY <2>1, <2>2
<1> QED
  BY <1>1, <1>2 DEF Socket

\* The command, but for what it reads: it keeps what it was streamed.
LEMMA StreamCommand ==
  ASSUME TypeInv, StoryInv, StreamInv, NEW c \in Cmds,
         \/ LoadLease(c) \/ Enqueue(c) \/ EnsureOwner(c) \/ LoadRequest(c)
         \/ PollLog(c) \/ PollLast(c)
  PROVE  StreamInv'
<1>1. /\ UNCHANGED <<log, gen, subs, conn>>
      /\ own' = own \/ (own = "down" /\ own' = "spawned")
  BY DEF LoadLease, Enqueue, EnsureOwner, LoadRequest, PollLog, PollLast, ownVars
<1>2. IsCmd(cmd[c]) /\ Places(c)
  BY DEF TypeInv, CmdTypes, StoryInv, Story
<1>3. /\ cmd[c].pc # "reading" /\ cmd'[c].pc # "reading"
      /\ cmd'[c].streamed = cmd[c].streamed /\ (cmd'[c].via = "stream" => cmd[c].via = "stream")
      /\ \A d \in Cmds : d # c => cmd'[d] = cmd[d]
  <2>1. CASE LoadLease(c)
    <3>1. PICK p \in {"dial", "enqueue"} : \E n : cmd' = [cmd EXCEPT ![c].pc = p, ![c].read = n]
      BY <2>1 DEF LoadLease
    <3>2. cmd[c].pc = "lease"
      BY <2>1 DEF LoadLease
    <3> QED
      BY <1>2, <3>1, <3>2 DEF TypeInv, CmdTypes, IsCmd
  <2>2. CASE Enqueue(c)
    BY <1>2, <2>2 DEF Enqueue, TypeInv, CmdTypes, IsCmd
  <2>3. CASE EnsureOwner(c)
    BY <1>2, <2>3 DEF EnsureOwner, Goto, TypeInv, CmdTypes, IsCmd
  <2>4. CASE LoadRequest(c)
    BY <1>2, <2>4 DEF LoadRequest, TypeInv, CmdTypes, IsCmd
  <2>5. CASE PollLog(c)
    BY <1>2, <2>5 DEF PollLog, Flush, TypeInv, CmdTypes, IsCmd
  <2>6. CASE PollLast(c)
    BY <1>2, <2>6 DEF PollLast, TypeInv, CmdTypes, IsCmd
  <2> QED
    BY <2>1, <2>2, <2>3, <2>4, <2>5, <2>6
<1>4. ASSUME NEW d \in Cmds PROVE Stream(d)'
  <2>1. Stream(d)
    BY DEF StreamInv
  <2>2. Serves(d) => gen' = conn[d].gen /\ own' \notin {"down", "spawned"}
    BY <1>1, <2>1 DEF Stream, Attached
  <2>3. /\ cmd'[d].pc = "reading" <=> cmd[d].pc = "reading"
        /\ cmd'[d].streamed = cmd[d].streamed /\ (cmd'[d].via = "stream" => cmd[d].via = "stream")
    BY <1>3
  <2>4. LoggedOf(d)' = LoggedOf(d)
    BY <1>1, LoggedSame
  <2> QED
    BY <1>1, <2>1, <2>2, <2>3, <2>4, StreamSame
<1> QED
  BY <1>4 DEF StreamInv

\* The streams of the others, when a command or its handler is at its own connection.
LEMMA StreamOthers ==
  ASSUME TypeInv, StreamInv, NEW c \in Cmds, UNCHANGED <<log, gen, own>>,
         \A d \in Cmds : d # c => /\ conn'[d] = conn[d] /\ cmd'[d] = cmd[d]
                                  /\ d \in subs' => d \in subs
  PROVE  Stream(c)' => StreamInv'
<1> SUFFICES ASSUME NEW d \in Cmds, d # c PROVE Stream(d)'
  BY DEF StreamInv
<1>1. Stream(d) /\ conn'[d] = conn[d] /\ cmd'[d] = cmd[d] /\ (d \in subs' => d \in subs)
  BY DEF StreamInv
<1>2. Serves(d) => gen' = conn[d].gen /\ own' \notin {"down", "spawned"}
  BY <1>1 DEF Stream, Attached
<1>3. LoggedOf(d)' = LoggedOf(d)
  BY <1>1, LoggedSame
<1> QED
  BY <1>1, <1>2, <1>3, StreamSame

LEMMA StreamDial ==
  ASSUME TypeInv, StoryInv, StreamInv, NEW c \in Cmds, Dial(c)
  PROVE  StreamInv'
<1>1. UNCHANGED <<log, gen, own, subs>> /\ cmd[c].pc = "dial"
  BY DEF Dial, ownVars
<1>2. IsCmd(cmd[c]) /\ Places(c) /\ Stream(c) /\ conn[c] \in Conns
  BY DEF TypeInv, CmdTypes, ConnTypes, StoryInv, Story, StreamInv
<1>3. c \notin subs /\ cmd[c].streamed = <<>> /\ cmd[c].via = "none" /\ conn[c].srv = "none"
  BY <1>1, <1>2 DEF Places, Stream, Attached, IsCmd
<1>4. \A d \in Cmds : d # c => conn'[d] = conn[d] /\ cmd'[d] = cmd[d]
  BY DEF Dial, Goto, TypeInv, ConnTypes, CmdTypes
<1>5. CASE Listening
  <2>1. /\ conn'[c] = [gen |-> gen, srv |-> "called", missed |-> 0, open |-> TRUE,
                       read |-> TRUE, wire |-> <<>>]
        /\ cmd'[c].pc = "reading" /\ cmd'[c].streamed = <<>> /\ cmd'[c].via = "none"
    <3>1. cmd'[c].pc = "reading" /\ cmd'[c].streamed = <<>> /\ cmd'[c].via = "none"
      <4>1. cmd' = [cmd EXCEPT ![c].pc = "reading"]
        BY <1>5 DEF Dial, Goto
      <4> QED
        BY <1>2, <1>3, <4>1 DEF TypeInv, CmdTypes, IsCmd
    <3> QED
      BY <1>5, <3>1 DEF Dial, TypeInv, ConnTypes
  <2>2. /\ conn'[c].gen = gen /\ conn'[c].srv = "called" /\ conn'[c].missed = 0 /\ conn'[c].open
        /\ conn'[c].read /\ conn'[c].wire = <<>>
    BY <2>1
  <2>3. ~FinalOn(c)' /\ ~Whole(c)'
    BY <1>1, <1>3, <2>1, <2>2 DEF FinalOn, Ended, Whole
  <2>4. own \notin {"down", "spawned"}
    BY <1>5 DEF Listening
  <2>5. Attached(c)'
    BY <1>1, <1>3, <2>1, <2>2, <2>3, <2>4 DEF Attached, Serves
  <2>6. Got(c)' = 0
    BY <2>1, <2>2 DEF Got
  <2>7. Numbered(conn'[c].wire, Got(c)', 1) /\ Len(conn'[c].wire) = 0
    BY <2>2, <2>6, EmptyWire
  <2>8. InStream(c)'
    <3>1. \A k \in 1..Len(cmd'[c].streamed) : cmd'[c].streamed[k] = conn'[c].missed + k
      BY <2>1
    <3>2. \E a \in 1..Len(conn'[c].wire) + 1 :
            /\ Numbered(conn'[c].wire, Got(c)', a)
            /\ a <= Len(conn'[c].wire) => conn'[c].srv # "accept"
      BY <2>2, <2>7
    <3> QED
      BY <2>3, <3>1, <3>2 DEF InStream, Numbered, Total, Ended, Final
  <2> QED
    BY <1>1, <1>4, <2>5, <2>8, StreamOthers DEF Stream
<1>6. CASE ~Listening
  <2>1. conn' = conn /\ cmd'[c].pc = "enqueue" /\ cmd'[c].streamed = <<>> /\ cmd'[c].via = "none"
    BY <1>2, <1>3, <1>6 DEF Dial, Goto, TypeInv, ConnTypes, CmdTypes, IsCmd
  <2>2. Serves(c) => gen' = conn[c].gen /\ own' \notin {"down", "spawned"}
    BY <1>3 DEF Serves
  <2>3. LoggedOf(c)' = LoggedOf(c)
    BY <1>1, <2>1, LoggedSame
  <2>4. Stream(c)'
    BY <1>1, <1>2, <1>3, <2>1, <2>2, <2>3, StreamSame
  <2> QED
    BY <1>1, <1>4, <2>4, StreamOthers
<1> QED
  BY <1>5, <1>6

LEMMA StreamLeft ==
  ASSUME TypeInv, StoryInv, StreamInv, NEW c \in Cmds, StreamEnds(c)
  PROVE  StreamInv'
<1>1. UNCHANGED <<log, gen, own, subs>> /\ cmd[c].pc = "reading" /\ conn[c].wire = <<>>
  BY DEF StreamEnds, ownVars
<1>2. IsCmd(cmd[c]) /\ conn[c] \in Conns /\ Stream(c)
  BY DEF TypeInv, CmdTypes, ConnTypes, StreamInv
<1>3. \A d \in Cmds : d # c => conn'[d] = conn[d] /\ cmd'[d] = cmd[d]
  BY DEF StreamEnds, Goto, TypeInv, ConnTypes, CmdTypes
<1>4. /\ conn'[c].gen = conn[c].gen /\ conn'[c].srv = conn[c].srv /\ conn'[c].missed = conn[c].missed
      /\ conn'[c].open = conn[c].open /\ conn'[c].read = FALSE /\ conn'[c].wire = conn[c].wire
  BY <1>2 DEF StreamEnds, TypeInv, ConnTypes, Conns
<1>5. cmd'[c].pc # "reading" /\ cmd'[c].streamed = cmd[c].streamed /\ cmd'[c].via = cmd[c].via
  BY <1>2 DEF StreamEnds, Goto, LeaveStream, TypeInv, CmdTypes, IsCmd
<1>6. Serves(c)' => gen' = conn[c].gen /\ own' \notin {"down", "spawned"}
  BY <1>1, <1>2, <1>4 DEF Serves, Stream, Attached
<1>7. LoggedOf(c)' = LoggedOf(c)
  BY <1>1, <1>4, LoggedSame
<1>8. Stream(c)'
  BY <1>1, <1>2, <1>4, <1>5, <1>6, <1>7, StreamKept
<1> QED
  BY <1>1, <1>3, <1>8, StreamOthers

\* An envelope is read.
LEMMA StreamRead ==
  ASSUME TypeInv, StoryInv, StreamInv, NEW c \in Cmds, ReadEnvelope(c)
  PROVE  StreamInv'
<1> DEFINE w == conn[c].wire
           e == Head(w)
           mismatch == conn[c].gen # cmd[c].read
           final == mismatch \/ e.type \in {"result", "error"}
           y == [conn[c] EXCEPT !.wire = IF final THEN <<>> ELSE Tail(@), !.read = ~final]
           nx == IF mismatch THEN [cmd[c] EXCEPT !.pc = LeaveStream(c)] ELSE
                 CASE e.type = "accepted" -> [cmd[c] EXCEPT !.mine = <<c, "socket">>]
                   [] e.type = "event"    -> [cmd[c] EXCEPT !.streamed = Append(@, e.nth)]
                   [] e.type = "result"   ->
                        [cmd[c] EXCEPT !.pc = "done", !.via = "stream", !.told = e.status]
                   [] e.type = "error"    ->
                        IF cmd[c].mine # NoReq THEN [cmd[c] EXCEPT !.pc = "ensure"]
                        ELSE [cmd[c] EXCEPT !.pc = "done", !.via = "stream", !.told = e.status]
<1>1. UNCHANGED <<log, gen, own, subs>> /\ cmd[c].pc = "reading" /\ w # <<>>
  BY DEF ReadEnvelope, ownVars
<1>2. /\ IsCmd(cmd[c]) /\ conn[c] \in Conns /\ w \in Seq(Envelopes) /\ conn[c].missed \in Nat
      /\ cmd[c].streamed \in Seq(Nat) /\ Len(cmd[c].streamed) \in Nat /\ Got(c) \in Nat
  BY StreamTypes
<1>3. /\ Stream(c) /\ Places(c)
  BY DEF StreamInv, StoryInv, Story
<1>4. cmd[c].via # "stream" /\ conn[c].read
  BY <1>1, <1>3 DEF Places
<1>5. e \in Envelopes /\ e.type \in {"accepted", "event", "result", "error"}
  <2>1. e \in Envelopes
    BY <1>1, <1>2
  <2> QED
    BY <2>1 DEF Envelopes
<1>6. conn'[c] = y /\ cmd'[c] = nx /\ \A d \in Cmds : d # c => conn'[d] = conn[d] /\ cmd'[d] = cmd[d]
  <2>1. conn' = [conn EXCEPT ![c] = y]
    BY <1>2 DEF ReadEnvelope, TypeInv, ConnTypes, Conns
  <2>2. cmd' = [cmd EXCEPT ![c] = nx]
    BY DEF ReadEnvelope
  <2> HIDE DEF y, nx
  <2> QED
    BY <2>1, <2>2 DEF TypeInv, ConnTypes, CmdTypes
<1>7. /\ y.gen = conn[c].gen /\ y.srv = conn[c].srv /\ y.open = conn[c].open /\ y.missed = conn[c].missed
      /\ y.read = ~final /\ y.wire = IF final THEN <<>> ELSE Tail(w)
  BY <1>2 DEF Conns
<1>8. PICK a \in 1..Len(w) + 1 :
        /\ Numbered(w, Got(c), a)
        /\ a <= Len(w) => conn[c].srv # "accept"
        /\ Whole(c) => Total(w, Got(c), a) = LoggedOf(c)
  BY <1>3 DEF Stream, InStream
<1>9. LoggedOf(c)' = LoggedOf(c)
  BY <1>1, <1>6, <1>7, LoggedSame
<1>10. conn[c].srv \notin {"none", "called", "register"}
  BY <1>1, <1>3 DEF Stream, Attached
<1> HIDE DEF y
<1>11. CASE final
  <2>1. /\ conn'[c].wire = <<>> /\ conn'[c].read = FALSE /\ conn'[c].srv = conn[c].srv
        /\ conn'[c].gen = conn[c].gen /\ conn'[c].missed = conn[c].missed
    BY <1>6, <1>7, <1>11
  <2>2. cmd'[c].pc # "reading" /\ cmd'[c].streamed = cmd[c].streamed
    <3>1. CASE mismatch
      <4>1. cmd'[c] = [cmd[c] EXCEPT !.pc = LeaveStream(c)]
        BY <1>6, <3>1
      <4> QED
        BY <1>2, <4>1 DEF LeaveStream, IsCmd
    <3>2. CASE ~mismatch
      <4>1. \/ cmd'[c] = [cmd[c] EXCEPT !.pc = "done", !.via = "stream", !.told = e.status]
            \/ cmd'[c] = [cmd[c] EXCEPT !.pc = "ensure"]
        BY <1>6, <1>11, <3>2
      <4> QED
        BY <1>2, <4>1 DEF IsCmd
    <3> QED
      BY <3>1, <3>2
  <2>3. cmd'[c].via = "stream" => ~mismatch
    <3> SUFFICES ASSUME mismatch PROVE cmd'[c].via # "stream"
      OBVIOUS
    <3>1. cmd'[c] = [cmd[c] EXCEPT !.pc = LeaveStream(c)]
      BY <1>6
    <3> QED
      BY <1>2, <1>4, <3>1 DEF IsCmd
  <2>4. Got(c)' = Got(c)
    BY <2>1, <2>2 DEF Got
  <2>5. cmd'[c].via = "stream" => Got(c) = LoggedOf(c)
    <3> SUFFICES ASSUME ~mismatch PROVE Got(c) = LoggedOf(c)
      BY <2>3
    <3>1. Final(e)
      BY <1>11 DEF Final
    <3>2. Ended(w) /\ Total(w, Got(c), a) = Got(c)
      BY <1>1, <1>2, <1>8, <3>1, WireLast
    <3> QED
      BY <1>8, <3>2 DEF Whole, FinalOn
  <2>6. ~FinalOn(c)'
    BY <2>1 DEF FinalOn, Ended
  <2>7. Attached(c)'
    BY <1>1, <1>3, <1>10, <2>1, <2>2, <2>6 DEF Attached, Stream, Serves
  <2>8. /\ Numbered(conn'[c].wire, Got(c)', 1) /\ Len(conn'[c].wire) = 0
        /\ Total(conn'[c].wire, Got(c)', 1) = Got(c)
    BY <1>2, <2>1, <2>4, EmptyWire
  <2>9. Whole(c)' => cmd'[c].via = "stream"
    BY <2>1, <2>6 DEF Whole
  <2>10. InStream(c)'
    <3>1. \A k \in 1..Len(cmd'[c].streamed) : cmd'[c].streamed[k] = conn'[c].missed + k
      BY <1>3, <2>1, <2>2 DEF Stream, InStream
    <3>2. \E a2 \in 1..Len(conn'[c].wire) + 1 :
            /\ Numbered(conn'[c].wire, Got(c)', a2)
            /\ a2 <= Len(conn'[c].wire) => conn'[c].srv # "accept"
            /\ Whole(c)' => Total(conn'[c].wire, Got(c)', a2) = LoggedOf(c)'
      BY <1>9, <2>5, <2>8, <2>9
    <3> QED
      BY <3>1, <3>2 DEF InStream, Numbered, Total, Ended, Final
  <2> QED
    BY <1>1, <1>6, <2>7, <2>10, StreamOthers DEF Stream
<1>12. CASE ~final
  <2>1. /\ conn'[c].wire = Tail(w) /\ conn'[c].read = TRUE /\ conn'[c].srv = conn[c].srv
        /\ conn'[c].gen = conn[c].gen /\ conn'[c].missed = conn[c].missed /\ conn'[c].open = conn[c].open
    BY <1>6, <1>7, <1>12
  <2>2. ~Final(e)
    BY <1>12 DEF Final
  <2> DEFINE b2 == Got(c) + (IF e.type = "event" THEN 1 ELSE 0)
  <2>3. /\ e.type = "event" => e.nth = Got(c) + 1
        /\ Ended(Tail(w)) <=> Ended(w)
        /\ \E a2 \in 1..Len(Tail(w)) + 1 :
             /\ Numbered(Tail(w), b2, a2) /\ Total(Tail(w), b2, a2) = Total(w, Got(c), a)
             /\ a2 <= Len(Tail(w)) => a <= Len(w)
    BY <1>1, <1>2, <1>8, <2>2, WireRead
  <2>4. cmd'[c].pc = "reading" /\ cmd'[c].via = cmd[c].via
    <3>1. \/ cmd'[c] = [cmd[c] EXCEPT !.mine = <<c, "socket">>]
          \/ cmd'[c] = [cmd[c] EXCEPT !.streamed = Append(@, e.nth)]
      BY <1>5, <1>6, <1>12
    <3> QED
      BY <1>1, <1>2, <3>1 DEF IsCmd
  <2>5. cmd'[c].streamed = IF e.type = "event" THEN Append(cmd[c].streamed, e.nth) ELSE cmd[c].streamed
    <3>1. CASE e.type = "event"
      <4>1. cmd'[c] = [cmd[c] EXCEPT !.streamed = Append(@, e.nth)]
        BY <1>6, <1>12, <3>1
      <4> QED
        BY <1>2, <3>1, <4>1 DEF IsCmd
    <3>2. CASE e.type # "event"
      <4>1. cmd'[c] = [cmd[c] EXCEPT !.mine = <<c, "socket">>]
        BY <1>5, <1>6, <1>12, <3>2
      <4> QED
        BY <1>2, <3>2, <4>1 DEF IsCmd
    <3> QED
      BY <3>1, <3>2
  <2>6. Got(c)' = b2 /\ \A k \in 1..Len(cmd'[c].streamed) : cmd'[c].streamed[k] = conn'[c].missed + k
    <3>1. \A k \in 1..Len(cmd[c].streamed) : cmd[c].streamed[k] = conn[c].missed + k
      BY <1>3 DEF Stream, InStream
    <3>2. CASE e.type = "event"
      <4>1. /\ Len(cmd'[c].streamed) = Len(cmd[c].streamed) + 1
            /\ cmd'[c].streamed[Len(cmd[c].streamed) + 1] = conn[c].missed + Len(cmd[c].streamed) + 1
            /\ \A k \in 1..Len(cmd[c].streamed) : cmd'[c].streamed[k] = cmd[c].streamed[k]
        <5>1. e.nth = conn[c].missed + Len(cmd[c].streamed) + 1
          BY <2>3, <3>2 DEF Got
        <5>2. cmd'[c].streamed = Append(cmd[c].streamed, e.nth)
          BY <2>5, <3>2
        <5> QED
          BY <1>2, <5>1, <5>2, AppendIs
      <4>2. PICK m \in Nat, n \in Nat : m = conn[c].missed /\ n = Len(cmd[c].streamed)
        BY <1>2
      <4>3. Got(c) = m + n /\ Got(c)' = m + (n + 1) /\ b2 = m + n + 1
        BY <2>1, <3>2, <4>1, <4>2 DEF Got
      <4>4. ASSUME NEW k \in 1..n + 1 PROVE cmd'[c].streamed[k] = m + k
        <5>1. CASE k = n + 1
          <6>1. cmd'[c].streamed[k] = m + n + 1
            BY <4>1, <4>2, <5>1
          <6>2. m + n + 1 = m + k
            BY <5>1
          <6> QED
            BY <6>1, <6>2
        <5>2. CASE k \in 1..n
          BY <3>1, <4>1, <4>2, <5>2
        <5> QED
          BY <5>1, <5>2
      <4>5. Len(cmd'[c].streamed) = n + 1 /\ conn'[c].missed = m
        BY <2>1, <4>1, <4>2
      <4>6. Got(c)' = b2
        BY <4>3
      <4> HIDE DEF b2
      <4> QED
        BY <4>4, <4>5, <4>6
    <3>3. CASE e.type # "event"
      BY <1>2, <2>1, <2>5, <3>1, <3>3 DEF Got
    <3> QED
      BY <3>2, <3>3
  <2>7. (FinalOn(c)' <=> FinalOn(c)) /\ (Whole(c)' => Whole(c))
    <3>1. FinalOn(c)' <=> FinalOn(c)
      BY <2>1, <2>3 DEF FinalOn, Ended, Final
    <3> QED
      BY <1>1, <1>4, <2>1, <2>4, <3>1 DEF Whole
  <2>8. Attached(c)'
    BY <1>1, <1>3, <1>10, <2>1, <2>4, <2>7 DEF Attached, Stream, Serves
  <2>9. \E a2 \in 1..Len(conn'[c].wire) + 1 :
          /\ Numbered(conn'[c].wire, Got(c)', a2)
          /\ a2 <= Len(conn'[c].wire) => conn'[c].srv # "accept"
          /\ Whole(c)' => Total(conn'[c].wire, Got(c)', a2) = LoggedOf(c)'
    <3> HIDE DEF b2, w, e
    <3> QED
      BY <1>8, <1>9, <2>1, <2>3, <2>6, <2>7
  <2>10. InStream(c)'
    BY <2>6, <2>9 DEF InStream, Numbered, Total, Ended, Final
  <2> QED
    BY <1>1, <1>6, <2>8, <2>10, StreamOthers DEF Stream
<1> QED
  BY <1>11, <1>12

LEMMA StreamEnqueued ==
  ASSUME TypeInv, StoryInv, StreamInv, NEW c \in Cmds, HandlerEnqueues(c)
  PROVE  StreamInv'
<1>1. /\ UNCHANGED <<log, gen, own, subs, cmd>> /\ conn[c].srv = "called"
      /\ conn' = [conn EXCEPT ![c].srv = "register"]
  BY DEF HandlerEnqueues, ownVars
<1>2. conn[c] \in Conns /\ Stream(c)
  BY DEF TypeInv, ConnTypes, StreamInv
<1>3. \A d \in Cmds : d # c => conn'[d] = conn[d] /\ cmd'[d] = cmd[d]
  BY <1>1 DEF TypeInv, ConnTypes
<1>4. /\ conn'[c].gen = conn[c].gen /\ conn'[c].srv = "register" /\ conn'[c].missed = conn[c].missed
      /\ conn'[c].open = conn[c].open /\ conn'[c].read = conn[c].read /\ conn'[c].wire = conn[c].wire
  BY <1>1, <1>2 DEF TypeInv, ConnTypes, Conns
<1>5. /\ Serves(c) /\ c \notin subs' /\ (conn'[c].read <=> cmd'[c].pc = "reading")
      /\ conn[c].wire = <<>>
  BY <1>1, <1>2, <1>4 DEF Serves, Stream, Attached
<1>6. gen' = conn[c].gen /\ own' \notin {"down", "spawned"}
  BY <1>1, <1>2, <1>5 DEF Stream, Attached
<1>7. LoggedOf(c)' = LoggedOf(c)
  BY <1>1, <1>4, LoggedSame
<1>8. Stream(c)'
  BY <1>1, <1>2, <1>4, <1>5, <1>6, <1>7, StreamKept
<1> QED
  BY <1>1, <1>3, <1>8, StreamOthers

\* An error is all that is ever on the wire of a request that could not be queued.
LEMMA StreamRefused ==
  ASSUME TypeInv, StoryInv, StreamInv, LogInv, NEW c \in Cmds, HandlerRefuses(c)
  PROVE  StreamInv'
<1> DEFINE e == Envelope("error", 0, "absent")
           v == Written(c, e)
           y == [v EXCEPT !.srv = "gone", !.open = FALSE]
<1>1. e \in Envelopes /\ Final(e)
  BY DEF Envelope, Envelopes, Final, Statuses
<1>2. /\ UNCHANGED <<file, log, gen, own, subs, cmd>> /\ conn[c].srv = "called"
      /\ conn' = [conn EXCEPT ![c] = y]
  BY DEF HandlerRefuses, ownVars
<1> HIDE DEF e
<1>3. /\ v \in Conns /\ v.gen = conn[c].gen /\ v.read = conn[c].read
      /\ WriteFails(c) => v.wire = conn[c].wire
      /\ ~WriteFails(c) => v.wire = Append(conn[c].wire, e)
  BY <1>1, WrittenIs DEF TypeInv
<1>4. v.missed = conn[c].missed
  BY StreamTypes DEF Written, Conns
<1> HIDE DEF v
<1>5. /\ conn'[c].gen = conn[c].gen /\ conn'[c].read = conn[c].read /\ ~conn'[c].open
      /\ conn'[c].wire = v.wire /\ conn'[c].missed = conn[c].missed /\ conn'[c].srv = "gone"
  BY <1>2, <1>3, <1>4 DEF TypeInv, ConnTypes, Conns
<1>6. \A d \in Cmds : d # c => conn'[d] = conn[d] /\ cmd'[d] = cmd[d]
  BY <1>2 DEF TypeInv, ConnTypes
<1>7. Stream(c) /\ LoggedOf(c)' = LoggedOf(c)
  BY <1>2, <1>5, LoggedSame DEF StreamInv
<1>8. /\ conn[c].wire = <<>> /\ cmd[c].streamed = <<>> /\ c \notin subs /\ conn[c].missed = 0
      /\ conn[c].read <=> cmd[c].pc = "reading"
  BY <1>2, <1>7 DEF Stream, Attached
<1>9. CASE WriteFails(c)
  <2>1. conn'[c].wire = conn[c].wire /\ ~Serves(c)' /\ c \notin subs'
    BY <1>2, <1>3, <1>5, <1>8, <1>9 DEF Serves
  <2>2. Stream(c)'
    BY <1>2, <1>5, <1>7, <1>8, <2>1, StreamKept
  <2> QED
    BY <1>2, <1>6, <2>2, StreamOthers
<1>10. CASE ~WriteFails(c)
  <2>1. /\ conn'[c].wire = <<e>> /\ Len(conn'[c].wire) = 1 /\ conn'[c].wire[1] = e
        /\ conn[c].read
    <3>1. Append(<<>>, e) = <<e>> /\ Len(<<e>>) = 1 /\ <<e>>[1] = e
      OBVIOUS
    <3>2. conn'[c].wire = Append(<<>>, e)
      BY <1>3, <1>5, <1>8, <1>10
    <3> QED
      BY <1>10, <3>1, <3>2 DEF WriteFails
  <2>2. LoggedOf(c) = 0
    <3> DEFINE S == {i \in 1..Len(log) : log[i].of = <<c, "socket">> /\ log[i].gen = conn[c].gen}
    <3>1. file[<<c, "socket">>].status = "absent"
      BY <1>2 DEF StoryInv, Story, Places, Socket
    <3>2. S = {}
      BY <3>1 DEF LogInv
    <3> QED
      BY <3>2, FS_EmptySet DEF LoggedOf, Logged
  <2>3. FinalOn(c)' /\ Got(c)' = 0
    BY <1>1, <1>2, <1>5, <1>8, <2>1 DEF FinalOn, Ended, Final, Got
  <2>4. Attached(c)'
    BY <1>2, <1>5, <1>8, <2>1 DEF Attached, Serves
  <2>5. Numbered(<<e>>, 0, 2) /\ Total(<<e>>, 0, 2) = 0
    BY <1>1 DEF Numbered, Total, Ended, Final
  <2>6. InStream(c)'
    <3>1. \A k \in 1..Len(cmd'[c].streamed) : cmd'[c].streamed[k] = conn'[c].missed + k
      BY <1>2, <1>8
    <3>2. \E a \in 1..Len(conn'[c].wire) + 1 :
            /\ Numbered(conn'[c].wire, Got(c)', a)
            /\ a <= Len(conn'[c].wire) => conn'[c].srv # "accept"
            /\ Whole(c)' => Total(conn'[c].wire, Got(c)', a) = LoggedOf(c)'
      BY <1>5, <1>7, <2>1, <2>2, <2>3, <2>5
    <3> QED
      BY <3>1, <3>2 DEF InStream, Numbered, Total, Ended, Final
  <2> QED
    BY <1>2, <1>6, <2>4, <2>6, StreamOthers DEF Stream
<1> QED
  BY <1>9, <1>10

\* What was logged before the subscriber is there has been missed.
LEMMA StreamRegistered ==
  ASSUME TypeInv, StoryInv, StreamInv, NEW c \in Cmds, HandlerRegisters(c)
  PROVE  StreamInv'
<1>1. /\ UNCHANGED <<log, gen, own, cmd>> /\ conn[c].srv = "register" /\ subs' = subs \cup {c}
      /\ conn' = [conn EXCEPT ![c].srv = "accept", ![c].missed = Executed(<<c, "socket">>)]
  BY DEF HandlerRegisters, ownVars
<1>2. conn[c] \in Conns /\ Stream(c)
  BY DEF TypeInv, ConnTypes, StreamInv
<1>3. \A d \in Cmds : d # c => conn'[d] = conn[d] /\ cmd'[d] = cmd[d]
  BY <1>1 DEF TypeInv, ConnTypes
<1>4. /\ conn'[c].gen = conn[c].gen /\ conn'[c].srv = "accept"
      /\ conn'[c].missed = Executed(<<c, "socket">>)
      /\ conn'[c].open = conn[c].open /\ conn'[c].read = conn[c].read /\ conn'[c].wire = conn[c].wire
  BY <1>1, <1>2 DEF TypeInv, ConnTypes, Conns
<1>5. /\ conn[c].gen = gen /\ own \notin {"down", "spawned"} /\ conn[c].wire = <<>>
      /\ cmd[c].streamed = <<>> /\ (conn[c].read <=> cmd[c].pc = "reading")
  BY <1>1, <1>2 DEF Serves, Stream, Attached
<1>6. LoggedOf(c)' = Executed(<<c, "socket">>) /\ LoggedOf(c)' \in Nat
  <2>1. LoggedOf(c)' = LoggedOf(c)
    BY <1>1, <1>4, LoggedSame
  <2>2. LoggedOf(c) = Executed(<<c, "socket">>)
    BY <1>5 DEF LoggedOf, Executed
  <2>3. Executed(<<c, "socket">>) \in Nat
    BY ReqIs, ExecutedIs DEF TypeInv
  <2> QED
    BY <2>1, <2>2, <2>3
<1>7. ~FinalOn(c)'
  BY <1>4, <1>5 DEF FinalOn, Ended
<1>8. Attached(c)'
  BY <1>1, <1>4, <1>5, <1>7 DEF Attached, Serves
<1>9. Got(c)' = LoggedOf(c)'
  BY <1>1, <1>4, <1>5, <1>6 DEF Got
<1>10. /\ Numbered(conn'[c].wire, Got(c)', 1) /\ Len(conn'[c].wire) = 0
       /\ Total(conn'[c].wire, Got(c)', 1) = Got(c)'
  BY <1>4, <1>5, <1>6, <1>9, EmptyWire
<1>11. InStream(c)'
  <2>1. \A k \in 1..Len(cmd'[c].streamed) : cmd'[c].streamed[k] = conn'[c].missed + k
    BY <1>1, <1>5
  <2>2. \E a \in 1..Len(conn'[c].wire) + 1 :
          /\ Numbered(conn'[c].wire, Got(c)', a)
          /\ a <= Len(conn'[c].wire) => conn'[c].srv # "accept"
          /\ Whole(c)' => Total(conn'[c].wire, Got(c)', a) = LoggedOf(c)'
    BY <1>9, <1>10
  <2> QED
    BY <2>1, <2>2 DEF InStream, Numbered, Total, Ended, Final
<1> QED
  BY <1>1, <1>3, <1>8, <1>11, StreamOthers DEF Stream

LEMMA StreamAccepted ==
  ASSUME TypeInv, StoryInv, StreamInv, NEW c \in Cmds, HandlerAccepts(c)
  PROVE  StreamInv'
<1> DEFINE e == Envelope("accepted", 0, "absent")
           v == Written(c, e)
           y == [v EXCEPT !.srv = IF WriteFails(c) THEN "gone" ELSE "waiting"]
<1>1. e \in Envelopes /\ e.type = "accepted"
  BY DEF Envelope, Envelopes, Statuses
<1>2. /\ UNCHANGED <<log, gen, own, cmd>> /\ conn[c].srv = "accept"
      /\ conn' = [conn EXCEPT ![c] = y]
      /\ subs' = IF WriteFails(c) THEN subs \ {c} ELSE subs
  BY DEF HandlerAccepts, ownVars
<1> HIDE DEF e
<1>3. /\ v \in Conns /\ v.gen = conn[c].gen /\ v.read = conn[c].read
      /\ WriteFails(c) => v.wire = conn[c].wire /\ ~v.open
      /\ ~WriteFails(c) => v.wire = Append(conn[c].wire, e) /\ v.open
  BY <1>1, WrittenIs DEF TypeInv
<1>4. v.missed = conn[c].missed
  BY StreamTypes DEF Written, Conns
<1> HIDE DEF v
<1>5. /\ conn'[c].gen = conn[c].gen /\ conn'[c].read = conn[c].read /\ conn'[c].open = v.open
      /\ conn'[c].wire = v.wire /\ conn'[c].missed = conn[c].missed
      /\ conn'[c].srv = IF WriteFails(c) THEN "gone" ELSE "waiting"
  BY <1>2, <1>3, <1>4 DEF TypeInv, ConnTypes, Conns
<1>6. \A d \in Cmds : d # c => conn'[d] = conn[d] /\ cmd'[d] = cmd[d] /\ (d \in subs' => d \in subs)
  BY <1>2 DEF TypeInv, ConnTypes
<1>7. Stream(c) /\ LoggedOf(c)' = LoggedOf(c)
  BY <1>2, <1>5, LoggedSame DEF StreamInv
<1>8. /\ conn[c].gen = gen /\ own \notin {"down", "spawned"}
      /\ conn[c].read <=> cmd[c].pc = "reading"
      /\ ~conn[c].read => conn[c].wire = <<>>
      /\ FinalOn(c) => ~conn[c].open
  BY <1>2, <1>7 DEF Stream, Attached, Serves
<1>9. CASE WriteFails(c)
  <2>1. Serves(c)' => gen' = conn[c].gen /\ own' \notin {"down", "spawned"}
    BY <1>2, <1>8
  <2>2. c \notin subs' /\ conn'[c].srv = "gone" /\ conn'[c].wire = conn[c].wire /\ ~conn'[c].open
    BY <1>2, <1>3, <1>5, <1>9
  <2>3. Stream(c)'
    BY <1>2, <1>5, <1>7, <1>8, <2>1, <2>2, StreamKept
  <2> QED
    BY <1>2, <1>6, <2>3, StreamOthers
<1>10. CASE ~WriteFails(c)
  <2> DEFINE w == conn[c].wire
  <2>1. /\ conn'[c].wire = Append(w, e) /\ conn'[c].srv = "waiting" /\ subs' = subs
        /\ conn[c].read /\ conn'[c].open = conn[c].open /\ conn[c].open
    BY <1>2, <1>3, <1>5, <1>10 DEF WriteFails
  <2>2. w \in Seq(Envelopes) /\ Len(w) \in Nat /\ Got(c) \in Nat
    BY StreamTypes
  <2>3. ~Ended(w)
    BY <1>8, <2>1 DEF FinalOn
  <2>4. /\ Numbered(w, Got(c), Len(w) + 1)
        /\ Whole(c) => Total(w, Got(c), Len(w) + 1) = LoggedOf(c)
    <3>1. PICK a \in 1..Len(w) + 1 :
            /\ Numbered(w, Got(c), a)
            /\ a <= Len(w) => conn[c].srv # "accept"
            /\ Whole(c) => Total(w, Got(c), a) = LoggedOf(c)
      BY <1>7 DEF Stream, InStream
    <3>2. a = Len(w) + 1
      BY <1>2, <2>2, <3>1
    <3> QED
      BY <3>1, <3>2
  <2> HIDE DEF w
  <2>5. /\ Numbered(Append(w, e), Got(c), Len(w) + 1) /\ ~Ended(Append(w, e))
        /\ Total(Append(w, e), Got(c), Len(w) + 1) = Total(w, Got(c), Len(w) + 1)
        /\ Len(Append(w, e)) = Len(w) + 1
    BY <1>1, <2>2, <2>3, <2>4, WireAccepted
  <2>6. Got(c)' = Got(c) /\ ~FinalOn(c)' /\ (Whole(c)' => Whole(c))
    <3>1. Got(c)' = Got(c)
      BY <1>2, <1>5 DEF Got
    <3>2. ~FinalOn(c)'
      BY <2>1, <2>5 DEF FinalOn, Ended, Final
    <3> QED
      BY <1>2, <2>1, <3>1, <3>2 DEF Whole
  <2>7. Attached(c)'
    BY <1>2, <1>5, <1>7, <1>8, <2>1, <2>6 DEF Attached, Stream, Serves
  <2>8. \E a \in 1..Len(conn'[c].wire) + 1 :
          /\ Numbered(conn'[c].wire, Got(c)', a)
          /\ a <= Len(conn'[c].wire) => conn'[c].srv # "accept"
          /\ Whole(c)' => Total(conn'[c].wire, Got(c)', a) = LoggedOf(c)'
    <3>1. Len(w) + 1 \in 1..Len(conn'[c].wire) + 1
      BY <2>1, <2>2, <2>5
    <3> QED
      BY <1>7, <2>1, <2>4, <2>5, <2>6, <3>1
  <2>9. InStream(c)'
    <3>1. \A k \in 1..Len(cmd'[c].streamed) : cmd'[c].streamed[k] = conn'[c].missed + k
      BY <1>2, <1>5, <1>7 DEF Stream, InStream
    <3> QED
      BY <2>8, <3>1 DEF InStream, Numbered, Total, Ended, Final
  <2> QED
    BY <1>2, <1>6, <2>7, <2>9, StreamOthers DEF Stream
<1> QED
  BY <1>9, <1>10

\* The owner does not touch any connection.
LEMMA StreamUntouched ==
  ASSUME TypeInv, StoryInv, StreamInv,
         Acquire \/ Listen \/ Leave \/ (\E r \in Req : Claim(r)) \/ (\E s \in Statuses : EndTurn(s))
  PROVE  StreamInv'
<1>1. UNCHANGED <<log, subs, conn, cmd>>
  BY DEF Acquire, Listen, Leave, Claim, EndTurn
<1>2. \/ own = "spawned"
      \/ gen' = gen /\ own' \notin {"down", "spawned"}
  BY DEF Acquire, Listen, Leave, Claim, EndTurn
<1>3. ASSUME NEW d \in Cmds PROVE Stream(d)'
  <2>1. Stream(d) /\ LoggedOf(d)' = LoggedOf(d)
    BY <1>1, LoggedSame DEF StreamInv
  <2>2. Serves(d) => gen' = conn[d].gen /\ own' \notin {"down", "spawned"}
    BY <1>2, <2>1 DEF Stream, Attached
  <2> QED
    BY <1>1, <2>1, <2>2, StreamSame
<1> QED
  BY <1>3 DEF StreamInv

\* The connections of the others, when the owner is at that of its request: it closes
\* one, or writes to one.
LEMMA StreamAside ==
  ASSUME TypeInv, StoryInv, StreamInv, NEW d \in Cmds, gen' = gen, own' \notin {"down", "spawned"},
         cmd' = cmd, conn'[d] = conn[d], d \in subs' => d \in subs,
         Whole(d) => LoggedOf(d)' = LoggedOf(d)
  PROVE  Stream(d)'
<1>1. Stream(d)
  BY DEF StreamInv
<1>2. Serves(d) => gen' = conn[d].gen /\ own' \notin {"down", "spawned"}
  BY <1>1 DEF Stream, Attached
<1> QED
  BY <1>1, <1>2, StreamSame

\* A write fails: the subscriber is gone, the connection closed.
LEMMA StreamDropped ==
  ASSUME TypeInv, StoryInv, StreamInv, NEW c \in Cmds, gen' = gen, own' \notin {"down", "spawned"},
         cmd' = cmd, c \notin subs', conn'[c].srv = conn[c].srv, conn'[c].wire = conn[c].wire,
         conn'[c].gen = conn[c].gen, conn'[c].read = conn[c].read, conn'[c].missed = conn[c].missed,
         ~conn'[c].open, Whole(c) => LoggedOf(c)' = LoggedOf(c)
  PROVE  Stream(c)'
<1>1. Stream(c)
  BY DEF StreamInv
<1>2. /\ conn'[c].read <=> cmd'[c].pc = "reading"
      /\ ~conn'[c].read => conn[c].wire = <<>>
  BY <1>1 DEF Stream, Attached
<1>3. Serves(c)' => gen' = conn[c].gen /\ own' \notin {"down", "spawned"}
  BY <1>1 DEF Stream, Attached, Serves
<1> QED
  BY <1>1, <1>2, <1>3, StreamKept

\* The next thing is written to the connection of a subscriber.
LEMMA StreamWritten ==
  ASSUME TypeInv, StoryInv, StreamInv, NEW c \in Cmds, gen' = gen, own' \notin {"down", "spawned"},
         cmd' = cmd, c \in subs, NEW e \in Envelopes, ~WriteFails(c),
         conn'[c].wire = Append(conn[c].wire, e), conn'[c].gen = conn[c].gen,
         conn'[c].read = conn[c].read, conn'[c].missed = conn[c].missed, conn'[c].srv = conn[c].srv,
         c \in subs' => c \in subs,
         \/ /\ e.type = "event" /\ e.nth = LoggedOf(c) + 1
            /\ LoggedOf(c)' = LoggedOf(c) + 1
         \/ /\ Final(e) /\ ~conn'[c].open /\ LoggedOf(c)' = LoggedOf(c)
  PROVE  Stream(c)'
<1> DEFINE w == conn[c].wire
<1>1. /\ w \in Seq(Envelopes) /\ Len(w) \in Nat /\ Got(c) \in Nat
  BY StreamTypes
<1>2. Stream(c) /\ conn[c].open /\ conn[c].read
  BY DEF StreamInv, WriteFails
<1>3. ~Ended(w) /\ Whole(c)
  BY <1>2 DEF Stream, Attached, FinalOn, Whole
<1>4. PICK a \in 1..Len(w) + 1 :
        /\ Numbered(w, Got(c), a)
        /\ a <= Len(w) => conn[c].srv # "accept"
        /\ Total(w, Got(c), a) = LoggedOf(c)
  BY <1>2, <1>3 DEF Stream, InStream
<1>5. Got(c)' = Got(c)
  BY DEF Got
<1>6. PICK a2 \in 1..Len(Append(w, e)) + 1 :
        /\ Numbered(Append(w, e), Got(c), a2) /\ (Ended(Append(w, e)) <=> Final(e))
        /\ Total(Append(w, e), Got(c), a2) = Total(w, Got(c), a) + (IF Final(e) THEN 0 ELSE 1)
        /\ a2 <= Len(Append(w, e)) => a <= Len(w)
  <2> \/ e.type = "event" /\ e.nth = Total(w, Got(c), a) + 1
      \/ Final(e)
    BY <1>4
  <2> HIDE DEF w
  <2> QED
    BY <1>1, <1>3, <1>4, WireNext
<1>7. FinalOn(c)' <=> Final(e)
  BY <1>6 DEF FinalOn, Ended, Final
<1>8. Final(e) => e.type # "event"
  BY DEF Final
<1>9. Attached(c)'
  <2>1. /\ conn[c].gen = gen /\ conn[c].srv \in {"accept", "waiting"}
        /\ conn[c].read <=> cmd[c].pc = "reading"
    BY <1>2 DEF Stream, Attached, Serves
  <2> QED
    BY <1>2, <1>7, <1>8, <2>1 DEF Attached, Serves
<1>10. Total(conn'[c].wire, Got(c)', a2) = LoggedOf(c)'
  <2>1. CASE Final(e)
    <3>1. LoggedOf(c) \in Nat
      BY ReqIs, ExecutedIs DEF LoggedOf, TypeInv
    <3>2. Total(conn'[c].wire, Got(c)', a2) = LoggedOf(c) + 0
      BY <1>4, <1>5, <1>6, <2>1
    <3>3. LoggedOf(c)' = LoggedOf(c)
      BY <1>8, <2>1
    <3> QED
      BY <3>1, <3>2, <3>3
  <2>2. CASE ~Final(e)
    BY <1>4, <1>5, <1>6, <2>2
  <2> QED
    BY <2>1, <2>2
<1>11. InStream(c)'
  <2>1. \A k \in 1..Len(cmd'[c].streamed) : cmd'[c].streamed[k] = conn'[c].missed + k
    BY <1>2 DEF Stream, InStream
  <2>2. \E b \in 1..Len(conn'[c].wire) + 1 :
          /\ Numbered(conn'[c].wire, Got(c)', b)
          /\ b <= Len(conn'[c].wire) => conn'[c].srv # "accept"
          /\ Whole(c)' => Total(conn'[c].wire, Got(c)', b) = LoggedOf(c)'
    BY <1>4, <1>5, <1>6, <1>10
  <2> QED
    BY <2>1, <2>2 DEF InStream, Numbered, Total, Ended, Final
<1> QED
  BY <1>9, <1>11 DEF Stream

LEMMA StreamEvent ==
  ASSUME TypeInv, StoryInv, StreamInv, EmitEvent
  PROVE  StreamInv'
<1> DEFINE n == Executed(cur) + 1
           e == Envelope("event", n, "absent")
           x == [of |-> cur, gen |-> gen, nth |-> n]
<1>1. UNCHANGED <<gen, own, cmd>> /\ own = "running" /\ log' = Append(log, x)
  BY DEF EmitEvent, Event
<1>2. cur \in Req /\ cur # NoReq
  BY <1>1 DEF TypeInv, OwnTypes
<1>3. IF Subscribed
        THEN /\ conn' = [conn EXCEPT ![cur[1]] = Written(cur[1], e)]
             /\ subs' = IF WriteFails(cur[1]) THEN subs \ {cur[1]} ELSE subs
        ELSE UNCHANGED <<conn, subs>>
  BY DEF EmitEvent, Event
<1>4. n \in Nat
  <2>1. PICK r \in Req : r = cur
    BY <1>2
  <2>2. Executed(r) \in Nat
    BY ExecutedIs DEF TypeInv
  <2> QED
    BY <2>1, <2>2
<1>5. x.of = cur /\ x.gen = gen
  OBVIOUS
<1>6. e \in Envelopes /\ e.type = "event" /\ e.nth = n
  BY <1>4 DEF Envelope, Envelopes, Statuses
<1> HIDE DEF x, e
<1>7. ASSUME NEW d \in Cmds, conn'[d].gen = conn[d].gen
      PROVE  LoggedOf(d)' = IF cur = <<d, "socket">> /\ conn[d].gen = gen THEN LoggedOf(d) + 1
                            ELSE LoggedOf(d)
  <2>1. <<d, "socket">> \in Req
    BY ReqIs
  <2>2. PICK g : g = conn[d].gen
    OBVIOUS
  <2>3. Logged(<<d, "socket">>, g)' = IF x.of = <<d, "socket">> /\ x.gen = g
                                      THEN Logged(<<d, "socket">>, g) + 1 ELSE Logged(<<d, "socket">>, g)
    BY <1>1, <2>1, LoggedAppend DEF TypeInv
  <2>4. LoggedOf(d) = Logged(<<d, "socket">>, g) /\ LoggedOf(d)' = Logged(<<d, "socket">>, g)'
    BY <1>7, <2>2 DEF LoggedOf, Logged
  <2> QED
    BY <1>5, <2>2, <2>3, <2>4
<1>8. own' \notin {"down", "spawned"}
  BY <1>1
<1>9. CASE Subscribed
  <2>1. PICK c \in Cmds : c = cur[1] /\ cur = <<c, "socket">> /\ c \in subs
    BY <1>1, <1>9, SubscribedIs DEF Subscribed
  <2> DEFINE v == Written(c, e)
  <2>2. /\ v \in Conns /\ v.gen = conn[c].gen /\ v.read = conn[c].read /\ v.srv = conn[c].srv
        /\ WriteFails(c) => v.wire = conn[c].wire /\ ~v.open
        /\ ~WriteFails(c) => v.wire = Append(conn[c].wire, e) /\ v.open
    BY <1>6, WrittenIs DEF TypeInv
  <2>3. v.missed = conn[c].missed
    BY StreamTypes DEF Written, Conns
  <2>4. conn' = [conn EXCEPT ![c] = v] /\ subs' = IF WriteFails(c) THEN subs \ {c} ELSE subs
    BY <1>3, <1>9, <2>1
  <2> HIDE DEF v
  <2>5. conn'[c] = v /\ \A d \in Cmds : d # c => conn'[d] = conn[d]
    BY <2>4 DEF TypeInv, ConnTypes
  <2>6. conn[c].gen = gen
    BY <2>1 DEF StreamInv, Stream, Attached, Serves
  <2>7. LoggedOf(c)' = LoggedOf(c) + 1 /\ n = LoggedOf(c) + 1
    <3>1. LoggedOf(c)' = LoggedOf(c) + 1
      BY <1>7, <2>1, <2>2, <2>5, <2>6
    <3>2. LoggedOf(c) = Executed(cur)
      BY <2>1, <2>6 DEF LoggedOf, Executed
    <3> QED
      BY <3>1, <3>2
  <2>8. Stream(c)'
    <3>1. CASE WriteFails(c)
      <4>1. ~Whole(c)
        <5>1. ~(FinalOn(c) \/ cmd[c].via = "stream")
          BY <1>1, <2>1, EndedIsOver
        <5> QED
          BY <3>1, <5>1 DEF Whole, WriteFails
      <4>2. c \notin subs' /\ conn'[c].srv = conn[c].srv /\ conn'[c].wire = conn[c].wire
            /\ conn'[c].gen = conn[c].gen /\ conn'[c].read = conn[c].read
            /\ conn'[c].missed = conn[c].missed /\ ~conn'[c].open
        BY <2>2, <2>3, <2>4, <2>5, <3>1
      <4> QED
        BY <1>1, <1>8, <4>1, <4>2, StreamDropped
    <3>2. CASE ~WriteFails(c)
      <4>1. conn'[c].srv = conn[c].srv /\ conn'[c].wire = Append(conn[c].wire, e)
            /\ conn'[c].gen = conn[c].gen /\ conn'[c].read = conn[c].read
            /\ conn'[c].missed = conn[c].missed
        BY <2>2, <2>3, <2>5, <3>2
      <4>2. e.type = "event" /\ e.nth = LoggedOf(c) + 1
        BY <1>6, <2>7
      <4> HIDE DEF n
      <4> QED
        BY <1>1, <1>6, <1>8, <2>1, <2>7, <3>2, <4>1, <4>2, StreamWritten
    <3> QED
      BY <3>1, <3>2
  <2>9. ASSUME NEW d \in Cmds, d # c PROVE Stream(d)'
    <3>1. cur # <<d, "socket">>
      BY <2>1, <2>9
    <3>2. conn'[d] = conn[d] /\ (d \in subs' => d \in subs)
      BY <2>4, <2>5, <2>9
    <3>3. LoggedOf(d)' = LoggedOf(d)
      BY <1>7, <3>1, <3>2
    <3> QED
      BY <1>1, <1>8, <3>2, <3>3, StreamAside
  <2> QED
    BY <2>8, <2>9 DEF StreamInv
<1>10. CASE ~Subscribed
  <2>1. conn' = conn /\ subs' = subs
    BY <1>3, <1>10
  <2>2. ASSUME NEW d \in Cmds PROVE Stream(d)'
    <3>1. Whole(d) => cur # <<d, "socket">>
      <4>1. CASE FinalOn(d) \/ cmd[d].via = "stream"
        BY <1>1, <4>1, EndedIsOver
      <4>2. CASE d \in subs
        BY <1>10, <4>2 DEF Subscribed
      <4> QED
        BY <4>1, <4>2 DEF Whole
    <3>2. Whole(d) => LoggedOf(d)' = LoggedOf(d)
      BY <1>7, <2>1, <3>1
    <3> QED
      BY <1>1, <1>8, <2>1, <3>2, StreamAside
  <2> QED
    BY <2>2 DEF StreamInv
<1> QED
  BY <1>9, <1>10

LEMMA StreamOutcome ==
  ASSUME TypeInv, StoryInv, StreamInv, EmitOutcome
  PROVE  StreamInv'
<1> DEFINE e == Envelope(IF out = "failed" THEN "error" ELSE "result", 0, out)
<1>1. UNCHANGED <<log, gen, cmd>> /\ own = "saved" /\ own' = "idle"
  BY DEF EmitOutcome
<1>2. IF Subscribed
        THEN /\ conn' = [conn EXCEPT ![cur[1]] = [Written(cur[1], e) EXCEPT !.open = FALSE]]
             /\ subs' = subs \ {cur[1]}
        ELSE UNCHANGED <<conn, subs>>
  BY DEF EmitOutcome
<1>3. e \in Envelopes /\ Final(e)
  BY DEF Envelope, Envelopes, Final, TypeInv, OwnTypes
<1> HIDE DEF e
<1>4. ASSUME NEW d \in Cmds, conn'[d].gen = conn[d].gen PROVE LoggedOf(d)' = LoggedOf(d)
  BY <1>1, <1>4, LoggedSame
<1>5. own' \notin {"down", "spawned"}
  BY <1>1
<1>6. CASE Subscribed
  <2>1. PICK c \in Cmds : c = cur[1] /\ cur = <<c, "socket">> /\ c \in subs
    BY <1>1, <1>6, SubscribedIs DEF Subscribed
  <2> DEFINE v == Written(c, e)
             y == [v EXCEPT !.open = FALSE]
  <2>2. /\ v \in Conns /\ v.gen = conn[c].gen /\ v.read = conn[c].read /\ v.srv = conn[c].srv
        /\ WriteFails(c) => v.wire = conn[c].wire
        /\ ~WriteFails(c) => v.wire = Append(conn[c].wire, e)
    BY <1>3, WrittenIs DEF TypeInv
  <2>3. v.missed = conn[c].missed
    BY StreamTypes DEF Written, Conns
  <2>4. conn' = [conn EXCEPT ![c] = y] /\ subs' = subs \ {c}
    BY <1>2, <1>6, <2>1
  <2> HIDE DEF v
  <2>5. /\ y.gen = v.gen /\ y.read = v.read /\ y.srv = v.srv /\ y.wire = v.wire /\ ~y.open
        /\ y.missed = v.missed
    BY <2>2 DEF Conns
  <2> HIDE DEF y
  <2>6. conn'[c] = y /\ \A d \in Cmds : d # c => conn'[d] = conn[d]
    BY <2>4 DEF TypeInv, ConnTypes
  <2>7. c \notin subs' /\ conn'[c].srv = conn[c].srv
        /\ conn'[c].gen = conn[c].gen /\ conn'[c].read = conn[c].read
        /\ conn'[c].missed = conn[c].missed /\ ~conn'[c].open
    BY <2>2, <2>3, <2>4, <2>5, <2>6
  <2>8. LoggedOf(c)' = LoggedOf(c)
    BY <1>4, <2>7
  <2>9. Stream(c)'
    <3>1. CASE WriteFails(c)
      <4>1. conn'[c].wire = conn[c].wire
        BY <2>2, <2>5, <2>6, <3>1
      <4> QED
        BY <1>1, <1>5, <2>7, <2>8, <4>1, StreamDropped
    <3>2. CASE ~WriteFails(c)
      <4>1. conn'[c].wire = Append(conn[c].wire, e)
        BY <2>2, <2>5, <2>6, <3>2
      <4> QED
        BY <1>1, <1>3, <1>5, <2>1, <2>7, <2>8, <3>2, <4>1, StreamWritten
    <3> QED
      BY <3>1, <3>2
  <2>10. ASSUME NEW d \in Cmds, d # c PROVE Stream(d)'
    <3>1. conn'[d] = conn[d] /\ (d \in subs' => d \in subs)
      BY <2>4, <2>6, <2>10
    <3> QED
      BY <1>1, <1>4, <1>5, <3>1, StreamAside
  <2> QED
    BY <2>9, <2>10 DEF StreamInv
<1>7. CASE ~Subscribed
  <2>1. conn' = conn /\ subs' = subs
    BY <1>2, <1>7
  <2>2. ASSUME NEW d \in Cmds PROVE Stream(d)'
    BY <1>1, <1>4, <1>5, <2>1, StreamAside
  <2> QED
    BY <2>2 DEF StreamInv
<1> QED
  BY <1>6, <1>7

\* The owner closes its server, or ends: connections are closed with what is on them.
LEMMA StreamClosed ==
  ASSUME TypeInv, StoryInv, StreamInv, UNCHANGED <<log, gen, cmd>>, subs' = {},
         NEW new \in [Cmds -> Conns], conn' = new, own' \notin {"down", "spawned"} \/ \A d \in Cmds : ~Serves(d)',
         \A d \in Cmds : /\ new[d].gen = conn[d].gen /\ new[d].read = conn[d].read
                         /\ new[d].missed = conn[d].missed /\ new[d].wire = conn[d].wire
                         /\ new[d].open => conn[d].open
                         /\ new[d].srv \in {conn[d].srv, "gone"}
  PROVE  StreamInv'
<1>1. ASSUME NEW d \in Cmds PROVE Stream(d)'
  <2>1. Stream(d) /\ LoggedOf(d)' = LoggedOf(d)
    BY LoggedSame DEF StreamInv
  <2>2. /\ conn'[d].read <=> cmd'[d].pc = "reading"
        /\ ~conn'[d].read => conn[d].wire = <<>>
    BY <2>1 DEF Stream, Attached
  <2>3. Serves(d)' => gen' = conn[d].gen /\ own' \notin {"down", "spawned"}
    <3> SUFFICES ASSUME Serves(d)' PROVE gen' = conn[d].gen /\ own' \notin {"down", "spawned"}
      OBVIOUS
    <3>1. Serves(d)
      BY DEF Serves
    <3> QED
      BY <2>1, <3>1 DEF Stream, Attached
  <2> QED
    BY <2>1, <2>2, <2>3, StreamKept
<1> QED
  BY <1>1 DEF StreamInv

LEMMA StreamServerClosed ==
  ASSUME TypeInv, StoryInv, StreamInv, CloseServer
  PROVE  StreamInv'
<1>1. PICK reset \in SUBSET {c \in Cmds : conn[c].srv = "called"} :
        conn' = [c \in Cmds |->
          IF c \in reset \cup subs
            THEN [conn[c] EXCEPT !.open = FALSE, !.srv = IF @ = "accept" THEN @ ELSE "gone"]
            ELSE conn[c]]
  BY DEF CloseServer
<1> DEFINE new == [c \in Cmds |->
          IF c \in reset \cup subs
            THEN [conn[c] EXCEPT !.open = FALSE, !.srv = IF @ = "accept" THEN @ ELSE "gone"]
            ELSE conn[c]]
<1>2. UNCHANGED <<log, gen, cmd>> /\ own' = "closed" /\ subs' = {}
  BY DEF CloseServer
<1>3. ASSUME NEW d \in Cmds
      PROVE  /\ new[d] \in Conns /\ new[d].gen = conn[d].gen /\ new[d].read = conn[d].read
             /\ new[d].missed = conn[d].missed /\ new[d].wire = conn[d].wire
             /\ new[d].open => conn[d].open
             /\ new[d].srv \in {conn[d].srv, "gone"}
  <2>1. conn[d] \in Conns
    BY DEF TypeInv, ConnTypes
  <2> QED
    BY <2>1 DEF Conns
<1>4. new \in [Cmds -> Conns] /\ conn' = new
  BY <1>1, <1>3
<1> HIDE DEF new
<1>5. own' \notin {"down", "spawned"}
  BY <1>2
<1> QED
  BY <1>2, <1>3, <1>4, <1>5, StreamClosed

LEMMA StreamDies ==
  ASSUME TypeInv, StoryInv, StreamInv, Dies, UNCHANGED <<log, gen, cmd>>
  PROVE  StreamInv'
<1> DEFINE new == [c \in Cmds |-> [conn[c] EXCEPT !.open = FALSE,
                                     !.srv = IF @ = "none" THEN @ ELSE "gone"]]
<1>1. subs' = {} /\ conn' = new
  BY DEF Dies
<1>2. ASSUME NEW d \in Cmds
      PROVE  /\ new[d] \in Conns /\ new[d].gen = conn[d].gen /\ new[d].read = conn[d].read
             /\ new[d].missed = conn[d].missed /\ new[d].wire = conn[d].wire
             /\ ~new[d].open /\ new[d].srv \in {"none", "gone"} /\ new[d].srv \in {conn[d].srv, "gone"}
  <2>1. conn[d] \in Conns
    BY DEF TypeInv, ConnTypes
  <2> QED
    BY <2>1 DEF Conns
<1>3. new \in [Cmds -> Conns]
  BY <1>2
<1> HIDE DEF new
<1>4. \A d \in Cmds : ~Serves(d)'
  BY <1>1, <1>2 DEF Serves
<1> QED
  BY <1>1, <1>2, <1>3, <1>4, StreamClosed

LEMMA InitStream ==
  ASSUME Init
  PROVE  StreamInv
<1>1. PICK json \in SUBSET Waiting :
        cmd = [c \in Cmds |-> [NewCmd EXCEPT !.pc = IF c \in Waiting THEN @ ELSE "enqueue",
                                             !.json = c \in json]]
  BY DEF Init
<1>2. ASSUME NEW c \in Cmds PROVE Stream(c)
  <2>1. /\ cmd[c].pc \in {"lease", "enqueue"} /\ cmd[c].streamed = <<>> /\ cmd[c].via = "none"
    BY <1>1 DEF NewCmd
  <2>2. /\ conn[c].gen = 0 /\ conn[c].srv = "none" /\ conn[c].missed = 0 /\ conn[c].open = FALSE
        /\ conn[c].read = FALSE /\ conn[c].wire = <<>> /\ c \notin subs
    BY DEF Init, NoConn
  <2>3. ~FinalOn(c) /\ ~Whole(c) /\ Got(c) = 0
    BY <2>1, <2>2 DEF FinalOn, Ended, Whole, Got
  <2>4. Attached(c)
    BY <2>1, <2>2, <2>3 DEF Attached, Serves
  <2>5. Numbered(conn[c].wire, Got(c), 1) /\ Len(conn[c].wire) = 0
    BY <2>2, <2>3, EmptyWire
  <2>6. \E a \in 1..Len(conn[c].wire) + 1 :
          /\ Numbered(conn[c].wire, Got(c), a)
          /\ a <= Len(conn[c].wire) => conn[c].srv # "accept"
    BY <2>2, <2>5
  <2>7. InStream(c)
    BY <2>1, <2>3, <2>6 DEF InStream
  <2> QED
    BY <2>4, <2>7 DEF Stream
<1> QED
  BY <1>2 DEF StreamInv

LEMMA NextStream ==
  ASSUME TypeInv, StoryInv, StreamInv, LogInv, [Next]_vars
  PROVE  StreamInv'
<1>1. CASE UNCHANGED vars
  <2>1. UNCHANGED <<log, own, gen, subs, conn, cmd>>
    BY <1>1 DEF vars, ownVars
  <2>2. ASSUME NEW d \in Cmds PROVE Stream(d)'
    <3>1. Stream(d) /\ LoggedOf(d)' = LoggedOf(d)
      BY <2>1, LoggedSame DEF StreamInv
    <3>2. Serves(d) => gen' = conn[d].gen /\ own' \notin {"down", "spawned"}
      BY <2>1, <3>1 DEF Stream, Attached
    <3> QED
      BY <2>1, <3>1, <3>2, StreamSame
  <2> QED
    BY <2>2 DEF StreamInv
<1>2. CASE OwnerStep
  <2>1. CASE Acquire \/ Listen \/ \E r \in Req : Claim(r)
    BY <2>1, StreamUntouched
  <2>2. CASE EmitOutcome
    BY <2>2, StreamOutcome
  <2>3. CASE CloseServer
    BY <2>3, StreamServerClosed
  <2>4. CASE EndOwner
    BY <2>4, StreamDies DEF EndOwner
  <2> QED
    BY <1>2, <2>1, <2>2, <2>3, <2>4 DEF OwnerStep
<1>3. CASE EmitEvent
  BY <1>3, StreamEvent
<1>4. CASE IdleExit \/ CloseExit \/ ErrorExit
  BY <1>4, StreamUntouched DEF IdleExit, CloseExit, ErrorExit
<1>5. CASE Crash
  BY <1>5, StreamDies DEF Crash
<1>6. ASSUME NEW s \in {"completed", "failed"}, EndTurn(s) PROVE StreamInv'
  <2>1. \E t \in Statuses : EndTurn(t)
    BY <1>6 DEF Statuses
  <2> QED
    BY <2>1, StreamUntouched
<1>7. ASSUME NEW c \in Cmds, Command(c) PROVE StreamInv'
  BY <1>7, StreamCommand, StreamDial, StreamRead, StreamLeft DEF Command
<1>8. ASSUME NEW c \in Cmds, Handler(c) \/ HandlerRefuses(c) PROVE StreamInv'
  BY <1>8, StreamEnqueued, StreamRegistered, StreamAccepted, StreamRefused DEF Handler
<1> QED
  BY <1>1, <1>2, <1>3, <1>4, <1>5, <1>6, <1>7, <1>8 DEF Next

\* Whatever was on the way when its outcome was written, a command that the stream has
\* answered has printed the events of its request from the one after those it missed to
\* the last its owner logged, each once and in order: nothing is dropped between the
\* registration of a subscriber and the write of its outcome, the acknowledgement of
\* the prompt may come between two events, and no execution after
\* that outcome adds to them (owner_ipc.go:230-246, 632-678).
THEOREM StreamedWhole == Spec => []StreamHasNoGap
<1>1. Init => StreamInv
  BY InitStream
<1>2. TypeInv /\ StoryInv /\ StreamInv /\ LogInv /\ [Next]_vars => StreamInv'
  BY NextStream
<1>3. TypeInv /\ StoryInv /\ StreamInv => StreamHasNoGap
  <2> SUFFICES ASSUME TypeInv, StoryInv, StreamInv, NEW c \in Cmds, cmd[c].via = "stream"
               PROVE  cmd[c].streamed = [i \in 1..LoggedOf(c) - conn[c].missed |-> conn[c].missed + i]
    BY DEF StreamHasNoGap, LoggedOf
  <2>1. Stream(c) /\ Whole(c) /\ Places(c)
    BY DEF StreamInv, Whole, StoryInv, Story
  <2>2. conn[c].wire = <<>>
    BY <2>1 DEF Places, Stream, Attached
  <2>3. /\ cmd[c].streamed \in Seq(Nat) /\ Len(cmd[c].streamed) \in Nat /\ Got(c) \in Nat
        /\ conn[c].missed \in Nat
    BY StreamTypes
  <2>4. PICK a \in 1..Len(conn[c].wire) + 1 : Total(conn[c].wire, Got(c), a) = LoggedOf(c)
    BY <2>1 DEF Stream, InStream
  <2>5. a = 1 /\ Len(conn[c].wire) = 0
    BY <2>2, <2>4
  <2>6. Got(c) = LoggedOf(c)
    BY <2>2, <2>3, <2>4, <2>5, EmptyWire
  <2>7. Len(cmd[c].streamed) = LoggedOf(c) - conn[c].missed
    BY <2>3, <2>6 DEF Got
  <2>8. cmd[c].streamed = [i \in 1..Len(cmd[c].streamed) |-> cmd[c].streamed[i]]
    <3>1. PICK s \in Seq(Nat) : s = cmd[c].streamed
      BY <2>3
    <3>2. s \in [1..Len(s) -> Nat]
      OBVIOUS
    <3>3. s = [i \in 1..Len(s) |-> s[i]]
      BY <3>2
    <3> QED
      BY <3>1, <3>3
  <2>9. \A i \in 1..Len(cmd[c].streamed) : cmd[c].streamed[i] = conn[c].missed + i
    BY <2>1 DEF Stream, InStream
  <2> QED
    BY <2>7, <2>8, <2>9
<1> QED
  BY <1>1, <1>2, <1>3, StoryHolds, LogHolds, PTL DEF Spec

-----------------------------------------------------------------------------
\* The polling of a command: what it has printed of the log, and what it cannot miss.

Printed(c, i) == \E j \in 1..Len(cmd[c].polled) : cmd[c].polled[j] = i
\* Everything up to what it has seen of the log.
Covered(c) ==
  /\ cmd[c].since # 0 /\ file[cmd[c].mine].started # 0 => cmd[c].since <= file[cmd[c].mine].started
  /\ \A i \in 1..cmd[c].seen :
       (IF cmd[c].json THEN log[i].of = cmd[c].mine ELSE cmd[c].since # 0 /\ i >= cmd[c].since) => Printed(c, i)
  /\ ~cmd[c].json /\ cmd[c].since = 0 => cmd[c].seen = 0
Poll(c) ==
  /\ cmd[c].pc \in {"lease", "dial", "reading", "enqueue", "ensure"} =>
       cmd[c].since = 0 /\ cmd[c].seen = 0 /\ cmd[c].polled = <<>>
  /\ cmd[c].since <= Len(log) + 1 /\ cmd[c].seen <= Len(log)
  /\ \A i, j \in 1..Len(cmd[c].polled) : i < j => cmd[c].polled[i] < cmd[c].polled[j]
  /\ cmd[c].via # "poll" => \A j \in 1..Len(cmd[c].polled) : cmd[c].polled[j] \in 1..cmd[c].seen
  /\ cmd[c].pc \in {"flush", "load", "history", "last"} => Covered(c)
  /\ cmd[c].pc = "last" => cmd[c].since # 0
  /\ cmd[c].via = "poll" =>
       \A i \in 1..Len(log) : log[i].of = cmd[c].mine /\ i >= file[cmd[c].mine].started => Printed(c, i)
PollInv == Begun /\ \A c \in Cmds : Poll(c)

LEMMA PollTypes ==
  ASSUME TypeInv, NEW c \in Cmds
  PROVE  /\ IsCmd(cmd[c]) /\ cmd[c].since \in Nat /\ cmd[c].seen \in Nat /\ cmd[c].json \in BOOLEAN
         /\ cmd[c].polled \in Seq(Nat) /\ Len(cmd[c].polled) \in Nat /\ Len(log) \in Nat
         /\ \A r \in Req : file[r] \in Files /\ file[r].started \in Nat
<1>1. IsCmd(cmd[c]) /\ Len(log) \in Nat
  BY DEF TypeInv, CmdTypes, LogTypes
<1>2. cmd[c].polled \in Seq(Nat)
  BY <1>1 DEF IsCmd
<1>3. \A r \in Req : file[r] \in Files /\ file[r].started \in Nat
  BY DEF TypeInv, FileTypes, Files
<1> QED
  BY <1>1, <1>2, <1>3 DEF IsCmd

\* A step of somebody else.
LEMMA PollKept ==
  ASSUME TypeInv, StoryInv, NEW c \in Cmds, Poll(c), cmd'[c] = cmd[c],
         \A r \in Req : Moved(r), LogMoves
  PROVE  Poll(c)'
<1>1. /\ IsCmd(cmd[c]) /\ cmd[c].since \in Nat /\ cmd[c].seen \in Nat /\ Len(log) \in Nat
      /\ \A r \in Req : file[r].started \in Nat
  BY PollTypes
<1>2. /\ Len(log') \in Nat /\ Len(log) <= Len(log')
      /\ \A i \in 1..Len(log) : log'[i] = log[i]
      /\ \A i \in 1..Len(log') : i > Len(log) => file[log'[i].of].status = "running"
  <2>1. CASE log' = log
    BY <1>1, <2>1
  <2>2. ASSUME NEW x, log' = Append(log, x), file[x.of].status = "running"
        PROVE  /\ Len(log') \in Nat /\ Len(log) <= Len(log')
               /\ \A i \in 1..Len(log) : log'[i] = log[i]
               /\ \A i \in 1..Len(log') : i > Len(log) => file[log'[i].of].status = "running"
    <3>1. Len(log') = Len(log) + 1 /\ log'[Len(log) + 1] = x /\ \A i \in 1..Len(log) : log'[i] = log[i]
      BY <2>2, AppendIs DEF TypeInv, LogTypes
    <3>2. \A i \in 1..Len(log') : i > Len(log) => i = Len(log) + 1
      BY <1>1, <3>1
    <3> QED
      BY <1>1, <2>2, <3>1, <3>2
  <2> QED
    BY <2>1, <2>2 DEF LogMoves
<1>3. \A i : Printed(c, i)' <=> Printed(c, i)
  BY DEF Printed
<1>4. cmd[c].since <= Len(log') + 1 /\ cmd[c].seen <= Len(log')
  BY <1>1, <1>2 DEF Poll
<1>5. cmd[c].pc \in {"flush", "load", "history", "last"} => Covered(c)'
  <2> SUFFICES ASSUME cmd[c].pc \in {"flush", "load", "history", "last"} PROVE Covered(c)'
    OBVIOUS
  <2>1. Covered(c) /\ cmd[c].mine \in Req /\ Moved(cmd[c].mine)
    BY ReqIs DEF Poll, StoryInv, Story, Places, Waits
  <2>2. cmd[c].since # 0 /\ file'[cmd[c].mine].started # 0 => cmd[c].since <= file'[cmd[c].mine].started
    BY <1>1, <2>1 DEF Covered, Moved, Poll
  <2>3. \A i \in 1..cmd[c].seen : i \in 1..Len(log) /\ log'[i] = log[i]
    BY <1>1, <1>2 DEF Poll
  <2> QED
    BY <1>3, <2>1, <2>2, <2>3 DEF Covered
<1>6. ASSUME cmd[c].via = "poll", NEW i \in 1..Len(log'), log'[i].of = cmd[c].mine,
             i >= file'[cmd[c].mine].started
      PROVE  Printed(c, i)
  <2>1. Terminal(file[cmd[c].mine].status) /\ cmd[c].mine \in Req
    BY <1>6, ReqIs DEF StoryInv, Story, Truth, Terminal, Waits
  <2>2. file'[cmd[c].mine].started = file[cmd[c].mine].started
    BY <2>1 DEF Moved
  <2>3. ~(i > Len(log))
    BY <1>2, <1>6, <2>1 DEF Terminal
  <2>4. i \in 1..Len(log) /\ log[i].of = cmd[c].mine
    BY <1>1, <1>2, <1>6, <2>3
  <2> QED
    BY <1>6, <2>2, <2>4 DEF Poll
<1> QED
  BY <1>3, <1>4, <1>5, <1>6 DEF Poll

\* A command that has not polled yet.
LEMMA PollNothing ==
  ASSUME Len(log') \in Nat, NEW c \in Cmds, cmd'[c].since = 0, cmd'[c].seen = 0, cmd'[c].polled = <<>>,
         cmd'[c].pc # "last", cmd'[c].via # "poll"
  PROVE  Poll(c)'
<1>1. Len(cmd'[c].polled) = 0
  OBVIOUS
<1>2. Covered(c)'
  BY DEF Covered
<1>3. /\ \A i, j \in 1..Len(cmd'[c].polled) : i < j => cmd'[c].polled[i] < cmd'[c].polled[j]
      /\ \A j \in 1..Len(cmd'[c].polled) : cmd'[c].polled[j] \in 1..cmd'[c].seen
  BY <1>1
<1>4. cmd'[c].since <= Len(log') + 1 /\ cmd'[c].seen <= Len(log')
  OBVIOUS
<1> QED
  BY <1>2, <1>3, <1>4 DEF Poll

\* On its way to the queue, or to a stream, a command has not polled.
LEMMA PollBefore ==
  ASSUME TypeInv, StoryInv, PollInv, TypeInv', NEW c \in Cmds,
         LoadLease(c) \/ Dial(c) \/ ReadEnvelope(c) \/ StreamEnds(c) \/ Enqueue(c) \/ EnsureOwner(c)
  PROVE  Poll(c)' /\ \A d \in Cmds : d # c => cmd'[d] = cmd[d]
<1>1. IsCmd(cmd[c]) /\ Len(log') \in Nat /\ Poll(c) /\ Places(c)
  BY DEF TypeInv, CmdTypes, LogTypes, PollInv, StoryInv, Story
<1>2. cmd[c].pc \in {"lease", "dial", "reading", "enqueue", "ensure"}
  BY DEF LoadLease, Dial, ReadEnvelope, StreamEnds, Enqueue, EnsureOwner
<1>3. cmd[c].since = 0 /\ cmd[c].seen = 0 /\ cmd[c].polled = <<>> /\ cmd[c].via # "poll"
  BY <1>1, <1>2 DEF Poll, Places
<1>4. PICK x : /\ cmd' = [cmd EXCEPT ![c] = x]
               /\ x.since = cmd[c].since /\ x.seen = cmd[c].seen /\ x.polled = cmd[c].polled
               /\ x.pc # "last" /\ x.via # "poll"
  <2>1. CASE LoadLease(c)
    <3>0. PICK p \in {"dial", "enqueue"} : \E n : cmd' = [cmd EXCEPT ![c].pc = p, ![c].read = n]
      BY <2>1 DEF LoadLease
    <3>1. PICK n : cmd' = [cmd EXCEPT ![c].pc = p, ![c].read = n]
      BY <3>0
    <3> DEFINE x == [cmd[c] EXCEPT !.pc = p, !.read = n]
    <3>2. cmd' = [cmd EXCEPT ![c] = x]
      BY <1>1, <3>1 DEF TypeInv, CmdTypes, IsCmd
    <3>3. /\ x.since = cmd[c].since /\ x.seen = cmd[c].seen /\ x.polled = cmd[c].polled
          /\ x.pc # "last" /\ x.via # "poll"
      BY <1>1, <1>3 DEF IsCmd
    <3> HIDE DEF x
    <3> QED
      BY <3>2, <3>3
  <2>2. CASE \E p \in {"reading", "enqueue", "ensure", "done", "flush", "load"} : Goto(c, p)
    <3>1. PICK p \in {"reading", "enqueue", "ensure", "done", "flush", "load"} : Goto(c, p)
      BY <2>2
    <3> DEFINE x == [cmd[c] EXCEPT !.pc = p]
    <3>2. cmd' = [cmd EXCEPT ![c] = x]
      BY <3>1 DEF Goto
    <3>3. /\ x.since = cmd[c].since /\ x.seen = cmd[c].seen /\ x.polled = cmd[c].polled
          /\ x.pc # "last" /\ x.via # "poll"
      BY <1>1, <1>3 DEF IsCmd
    <3> HIDE DEF x
    <3> QED
      BY <3>2, <3>3
  <2>3. CASE Enqueue(c)
    <3> DEFINE x == [cmd[c] EXCEPT !.pc = "ensure", !.mine = <<c, "file">>]
    <3>1. cmd' = [cmd EXCEPT ![c] = x]
      BY <1>1, <2>3 DEF Enqueue, TypeInv, CmdTypes, IsCmd
    <3>2. /\ x.since = cmd[c].since /\ x.seen = cmd[c].seen /\ x.polled = cmd[c].polled
          /\ x.pc # "last" /\ x.via # "poll"
      BY <1>1, <1>3 DEF IsCmd
    <3> HIDE DEF x
    <3> QED
      BY <3>1, <3>2
  <2>4. CASE ReadEnvelope(c)
    <3> DEFINE e == Head(conn[c].wire)
               mismatch == conn[c].gen # cmd[c].read
               x == IF mismatch THEN [cmd[c] EXCEPT !.pc = LeaveStream(c)] ELSE
                    CASE e.type = "accepted" -> [cmd[c] EXCEPT !.mine = <<c, "socket">>]
                      [] e.type = "event"    -> [cmd[c] EXCEPT !.streamed = Append(@, e.nth)]
                      [] e.type = "result"   ->
                           [cmd[c] EXCEPT !.pc = "done", !.via = "stream", !.told = e.status]
                      [] e.type = "error"    ->
                           IF cmd[c].mine # NoReq THEN [cmd[c] EXCEPT !.pc = "ensure"]
                           ELSE [cmd[c] EXCEPT !.pc = "done", !.via = "stream", !.told = e.status]
    <3>1. cmd' = [cmd EXCEPT ![c] = x]
      BY <2>4 DEF ReadEnvelope
    <3>2. e.type \in {"accepted", "event", "result", "error"} /\ cmd[c].pc = "reading"
      <4>1. e \in Envelopes
        BY <2>4, StreamTypes DEF ReadEnvelope
      <4> QED
        BY <2>4, <4>1 DEF Envelopes, ReadEnvelope
    <3>3. \/ x = [cmd[c] EXCEPT !.pc = LeaveStream(c)]
          \/ x = [cmd[c] EXCEPT !.mine = <<c, "socket">>]
          \/ x = [cmd[c] EXCEPT !.streamed = Append(@, e.nth)]
          \/ x = [cmd[c] EXCEPT !.pc = "done", !.via = "stream", !.told = e.status]
          \/ x = [cmd[c] EXCEPT !.pc = "ensure"]
      BY <3>2
    <3> HIDE DEF x
    <3>4. /\ x.since = cmd[c].since /\ x.seen = cmd[c].seen /\ x.polled = cmd[c].polled
          /\ x.pc # "last" /\ x.via # "poll"
      BY <1>1, <1>3, <3>2, <3>3 DEF IsCmd, LeaveStream
    <3> QED
      BY <3>1, <3>4
  <2> QED
    BY <2>1, <2>2, <2>3, <2>4 DEF Dial, StreamEnds, EnsureOwner, LeaveStream
<1>5. cmd'[c] = x /\ \A d \in Cmds : d # c => cmd'[d] = cmd[d]
  BY <1>4 DEF TypeInv, CmdTypes
<1> QED
  BY <1>1, <1>3, <1>4, <1>5, PollNothing

LEMMA PollLoads ==
  ASSUME TypeInv, StoryInv, PollInv, NEW c \in Cmds, LoadRequest(c)
  PROVE  Poll(c)' /\ \A d \in Cmds : d # c => cmd'[d] = cmd[d]
<1> DEFINE f    == file[cmd[c].mine]
           ends == Terminal(f.status)
           x == [cmd[c] EXCEPT !.pc = IF ends THEN "last" ELSE IF cmd[c].json THEN "flush" ELSE "history",
                               !.told  = IF ends THEN f.status ELSE @,
                               !.since = IF @ = 0 THEN f.started ELSE @]
<1>1. /\ IsCmd(cmd[c]) /\ cmd[c].since \in Nat /\ cmd[c].seen \in Nat /\ Len(log) \in Nat
      /\ cmd[c].json \in BOOLEAN /\ \A r \in Req : file[r].started \in Nat
  BY PollTypes
<1>2. Poll(c) /\ Places(c) /\ cmd[c].pc = "load" /\ cmd[c].via # "poll" /\ file' = file /\ log' = log
  BY DEF PollInv, StoryInv, Story, Places, LoadRequest
<1>3. cmd[c].mine \in Req
  BY <1>2, ReqIs DEF Places, Waits
<1>4. cmd' = [cmd EXCEPT ![c] = x]
  BY <1>1 DEF LoadRequest, TypeInv, CmdTypes, IsCmd
<1>5. /\ x.pc = IF ends THEN "last" ELSE IF cmd[c].json THEN "flush" ELSE "history"
      /\ x.since = IF cmd[c].since = 0 THEN f.started ELSE cmd[c].since
      /\ x.mine = cmd[c].mine /\ x.via = cmd[c].via /\ x.json = cmd[c].json /\ x.seen = cmd[c].seen
      /\ x.polled = cmd[c].polled
  BY <1>1 DEF IsCmd
<1> HIDE DEF x
<1>6. cmd'[c] = x /\ \A d \in Cmds : d # c => cmd'[d] = cmd[d]
  BY <1>4 DEF TypeInv, CmdTypes
<1>7. f.started \in Nat /\ f.started <= Len(log) + 1 /\ (ends => f.started # 0)
  BY <1>1, <1>3 DEF PollInv, Begun
<1>8. Covered(c)
  BY <1>2 DEF Poll
<1>9. \A i : Printed(c, i)' <=> Printed(c, i)
  BY <1>5, <1>6 DEF Printed
<1>10. Covered(c)'
  <2>1. x.since # 0 /\ f.started # 0 => x.since <= f.started
    BY <1>1, <1>5, <1>7, <1>8 DEF Covered
  <2>2. ~x.json /\ x.since = 0 => x.seen = 0
    BY <1>5, <1>8 DEF Covered
  <2>3. ASSUME NEW i \in 1..x.seen,
               IF x.json THEN log[i].of = x.mine ELSE x.since # 0 /\ i >= x.since
        PROVE  Printed(c, i)
    <3>1. CASE x.json
      BY <1>5, <1>8, <2>3, <3>1 DEF Covered
    <3>2. CASE ~x.json
      <4>1. cmd[c].since # 0
        BY <1>1, <1>5, <1>8, <2>3, <3>2 DEF Covered
      <4> QED
        BY <1>5, <1>8, <2>3, <3>2, <4>1 DEF Covered
    <3> QED
      BY <1>1, <1>5, <3>1, <3>2
  <2>4. cmd'[c].mine = cmd[c].mine /\ file' = file /\ log' = log
    BY <1>2, <1>5, <1>6
  <2> QED
    BY <1>6, <1>9, <2>1, <2>2, <2>3, <2>4 DEF Covered
<1>11. x.since <= Len(log) + 1 /\ x.seen <= Len(log)
  BY <1>2, <1>5, <1>7 DEF Poll
<1>12. x.pc = "last" => x.since # 0
  BY <1>5, <1>7
<1>13. x.pc \notin {"lease", "dial", "reading", "enqueue", "ensure"} /\ x.via # "poll"
  BY <1>2, <1>5
<1> QED
  BY <1>2, <1>5, <1>6, <1>10, <1>11, <1>12, <1>13 DEF Poll

\* Two sequences in order, one before the other.
LEMMA ConcatIs ==
  ASSUME NEW p \in Seq(Nat), NEW f \in Seq(Nat), NEW m \in Nat,
         \A j \in 1..Len(p) : p[j] <= m, \A j \in 1..Len(f) : m < f[j],
         \A i, j \in 1..Len(p) : i < j => p[i] < p[j],
         \A i, j \in 1..Len(f) : i < j => f[i] < f[j]
  PROVE  LET q == p \o f IN
         /\ \A i, j \in 1..Len(q) : i < j => q[i] < q[j]
         /\ \A j \in 1..Len(q) : \/ \E i \in 1..Len(p) : q[j] = p[i]
                                 \/ \E i \in 1..Len(f) : q[j] = f[i]
         /\ \A i \in 1..Len(p) : \E j \in 1..Len(q) : q[j] = p[i]
         /\ \A i \in 1..Len(f) : \E j \in 1..Len(q) : q[j] = f[i]
<1> DEFINE q == p \o f
<1>1. /\ Len(p) \in Nat /\ Len(f) \in Nat /\ Len(q) = Len(p) + Len(f)
      /\ \A j \in 1..Len(p) : q[j] = p[j] /\ p[j] \in Nat
      /\ \A j \in 1..Len(f) : q[Len(p) + j] = f[j] /\ f[j] \in Nat
  OBVIOUS
<1> HIDE DEF q
<1>2. ASSUME NEW j \in 1..Len(q), j > Len(p)
      PROVE  j - Len(p) \in 1..Len(f) /\ q[j] = f[j - Len(p)] /\ q[j] \in Nat
  <2>1. j - Len(p) \in 1..Len(f) /\ Len(p) + (j - Len(p)) = j
    BY <1>1, <1>2
  <2> QED
    BY <1>1, <2>1
<1>3. ASSUME NEW i \in 1..Len(q), NEW j \in 1..Len(q), i < j
      PROVE  q[i] < q[j]
  <2>1. CASE j \in 1..Len(p)
    <3>1. i \in 1..Len(p)
      BY <1>1, <1>3, <2>1
    <3> QED
      BY <1>1, <1>3, <2>1, <3>1
  <2>2. CASE i \in 1..Len(p) /\ j > Len(p)
    <3>1. q[i] <= m /\ q[i] \in Nat
      BY <1>1, <2>2
    <3>2. m < q[j] /\ q[j] \in Nat
      BY <1>2, <2>2
    <3> QED
      BY <3>1, <3>2
  <2>3. CASE i > Len(p) /\ j > Len(p)
    <3>1. i - Len(p) < j - Len(p)
      BY <1>1, <1>3
    <3> QED
      BY <1>2, <2>3, <3>1
  <2> QED
    BY <1>1, <1>3, <2>1, <2>2, <2>3
<1>4. ASSUME NEW j \in 1..Len(q)
      PROVE  \/ \E i \in 1..Len(p) : q[j] = p[i]
             \/ \E i \in 1..Len(f) : q[j] = f[i]
  <2>1. CASE j \in 1..Len(p)
    BY <1>1, <2>1
  <2>2. CASE j > Len(p)
    BY <1>2, <2>2
  <2> QED
    BY <1>1, <2>1, <2>2
<1>5. ASSUME NEW i \in 1..Len(p) PROVE \E j \in 1..Len(q) : q[j] = p[i]
  <2>1. i \in 1..Len(q) /\ q[i] = p[i]
    BY <1>1
  <2> QED
    BY <2>1
<1>6. ASSUME NEW i \in 1..Len(f) PROVE \E j \in 1..Len(q) : q[j] = f[i]
  <2>1. Len(p) + i \in 1..Len(q) /\ q[Len(p) + i] = f[i]
    BY <1>1
  <2> QED
    BY <2>1
<1> QED
  BY <1>3, <1>4, <1>5, <1>6 DEF q

\* What the command has after it has printed what is new.
LEMMA Flushed ==
  ASSUME TypeInv, NEW c \in Cmds, Poll(c), cmd[c].via # "poll", Covered(c)
  PROVE  LET q == cmd[c].polled \o Fresh(c) IN
         /\ \A i, j \in 1..Len(q) : i < j => q[i] < q[j]
         /\ \A j \in 1..Len(q) : q[j] \in 1..Len(log)
         /\ ~cmd[c].json /\ cmd[c].since = 0 => \A j \in 1..Len(q) : q[j] \in 1..cmd[c].seen
         /\ \A i \in 1..Len(log) :
              (IF cmd[c].json THEN log[i].of = cmd[c].mine ELSE cmd[c].since # 0 /\ i >= cmd[c].since) =>
                \E j \in 1..Len(q) : q[j] = i
<1> DEFINE p == cmd[c].polled
           f == Fresh(c)
           q == p \o f
           m == cmd[c].seen
<1>1. p \in Seq(Nat) /\ m \in Nat /\ Len(log) \in Nat
  BY PollTypes
<1>2. /\ f \in Seq(Nat)
      /\ \A i \in 1..Len(f) : f[i] \in New(c)
      /\ \A s \in New(c) : \E i \in 1..Len(f) : f[i] = s
      /\ \A i, j \in 1..Len(f) : i < j => f[i] < f[j]
  BY FreshIs DEF TypeInv
<1>3. /\ m <= Len(log) /\ \A j \in 1..Len(p) : p[j] \in 1..m
      /\ \A i, j \in 1..Len(p) : i < j => p[i] < p[j]
  BY DEF Poll
<1> HIDE DEF f, p, m
<1>4. \A j \in 1..Len(f) : f[j] \in 1..Len(log) /\ m < f[j]
  BY <1>1, <1>2 DEF New, m
<1>5. \A j \in 1..Len(p) : p[j] <= m /\ p[j] \in 1..Len(log)
  BY <1>1, <1>3
<1>6. /\ \A i, j \in 1..Len(q) : i < j => q[i] < q[j]
      /\ \A j \in 1..Len(q) : \/ \E i \in 1..Len(p) : q[j] = p[i]
                              \/ \E i \in 1..Len(f) : q[j] = f[i]
      /\ \A i \in 1..Len(p) : \E j \in 1..Len(q) : q[j] = p[i]
      /\ \A i \in 1..Len(f) : \E j \in 1..Len(q) : q[j] = f[i]
  BY <1>1, <1>2, <1>3, <1>4, <1>5, ConcatIs
<1> HIDE DEF q
<1>7. \A j \in 1..Len(q) : q[j] \in 1..Len(log)
  BY <1>4, <1>5, <1>6
<1>8. ASSUME ~cmd[c].json, cmd[c].since = 0, NEW j \in 1..Len(q) PROVE q[j] \in 1..m
  <2>1. New(c) = {}
    BY <1>8 DEF New
  <2>2. \E i \in 1..Len(p) : q[j] = p[i]
    BY <1>2, <1>6, <2>1
  <2> QED
    BY <1>3, <2>2
<1>9. ASSUME NEW i \in 1..Len(log),
             IF cmd[c].json THEN log[i].of = cmd[c].mine ELSE cmd[c].since # 0 /\ i >= cmd[c].since
      PROVE  \E j \in 1..Len(q) : q[j] = i
  <2>1. CASE i > m
    <3>1. i \in New(c)
      BY <1>9, <2>1 DEF New, m
    <3>2. PICK k \in 1..Len(f) : f[k] = i
      BY <1>2, <3>1
    <3>3. PICK j \in 1..Len(q) : q[j] = f[k]
      BY <1>6
    <3> QED
      BY <3>2, <3>3
  <2>2. CASE i <= m
    <3>1. Printed(c, i)
      BY <1>1, <1>9, <2>2 DEF Covered, m
    <3> QED
      BY <1>6, <3>1 DEF Printed, p
  <2> QED
    BY <1>1, <2>1, <2>2
<1> QED
  BY <1>6, <1>7, <1>8, <1>9 DEF q, p, f, m

LEMMA PollPolls ==
  ASSUME TypeInv, StoryInv, PollInv, NEW c \in Cmds, PollLog(c)
  PROVE  Poll(c)' /\ \A d \in Cmds : d # c => cmd'[d] = cmd[d]
<1> DEFINE q == cmd[c].polled \o Fresh(c)
           n == IF cmd[c].json \/ cmd[c].since # 0 THEN Len(log) ELSE cmd[c].seen
           x == [cmd[c] EXCEPT !.polled = q, !.pc = "load", !.seen = n]
<1>1. /\ IsCmd(cmd[c]) /\ cmd[c].since \in Nat /\ cmd[c].seen \in Nat /\ Len(log) \in Nat
      /\ cmd[c].json \in BOOLEAN
  BY PollTypes
<1>2. /\ Poll(c) /\ cmd[c].pc \in {"flush", "history"} /\ cmd[c].via # "poll"
      /\ file' = file /\ log' = log
  BY DEF PollInv, StoryInv, Story, Places, PollLog
<1>3. cmd' = [cmd EXCEPT ![c] = x]
  BY <1>1 DEF PollLog, Flush, TypeInv, CmdTypes, IsCmd
<1>4. Covered(c)
  BY <1>2 DEF Poll
<1>5. /\ \A i, j \in 1..Len(q) : i < j => q[i] < q[j]
      /\ \A j \in 1..Len(q) : q[j] \in 1..Len(log)
      /\ ~cmd[c].json /\ cmd[c].since = 0 => \A j \in 1..Len(q) : q[j] \in 1..cmd[c].seen
      /\ \A i \in 1..Len(log) :
           (IF cmd[c].json THEN log[i].of = cmd[c].mine ELSE cmd[c].since # 0 /\ i >= cmd[c].since) =>
             \E j \in 1..Len(q) : q[j] = i
  BY <1>2, <1>4, Flushed
<1> HIDE DEF q, n
<1>6. /\ x.pc = "load" /\ x.since = cmd[c].since /\ x.seen = n /\ x.polled = q
      /\ x.mine = cmd[c].mine /\ x.via = cmd[c].via /\ x.json = cmd[c].json
  BY <1>1 DEF IsCmd
<1> HIDE DEF x
<1>7. cmd'[c] = x /\ \A d \in Cmds : d # c => cmd'[d] = cmd[d]
  BY <1>3 DEF TypeInv, CmdTypes
<1>8. cmd[c].since <= Len(log) + 1 /\ cmd[c].seen <= Len(log)
  BY <1>2 DEF Poll
<1>9. n \in Nat /\ n <= Len(log) /\ \A j \in 1..Len(q) : q[j] \in 1..n
  BY <1>1, <1>5, <1>8 DEF n
<1>10. \A i : Printed(c, i)' <=> \E j \in 1..Len(q) : q[j] = i
  BY <1>6, <1>7 DEF Printed
<1>11. Covered(c)'
  <2>1. x.since # 0 /\ file'[x.mine].started # 0 => x.since <= file'[x.mine].started
    BY <1>2, <1>4, <1>6 DEF Covered
  <2>2. ~x.json /\ x.since = 0 => x.seen = 0
    BY <1>4, <1>6 DEF Covered, n
  <2>3. ASSUME NEW i \in 1..x.seen,
               IF x.json THEN log[i].of = x.mine ELSE x.since # 0 /\ i >= x.since
        PROVE  Printed(c, i)'
    <3>1. i \in 1..Len(log)
      BY <1>1, <1>6, <1>9
    <3>2. IF cmd[c].json THEN log[i].of = cmd[c].mine ELSE cmd[c].since # 0 /\ i >= cmd[c].since
      BY <1>6, <2>3
    <3> QED
      BY <1>5, <1>10, <3>1, <3>2
  <2> QED
    BY <1>2, <1>7, <2>1, <2>2, <2>3 DEF Covered
<1>12. x.since <= Len(log) + 1 /\ x.seen <= Len(log)
  BY <1>6, <1>8, <1>9
<1> QED
  BY <1>2, <1>5, <1>6, <1>7, <1>9, <1>11, <1>12 DEF Poll

LEMMA PollEnds ==
  ASSUME TypeInv, StoryInv, PollInv, NEW c \in Cmds, PollLast(c)
  PROVE  Poll(c)' /\ \A d \in Cmds : d # c => cmd'[d] = cmd[d]
<1> DEFINE q == cmd[c].polled \o Fresh(c)
           x == [cmd[c] EXCEPT !.polled = q, !.pc = "done", !.via = "poll"]
<1>1. /\ IsCmd(cmd[c]) /\ cmd[c].since \in Nat /\ cmd[c].seen \in Nat /\ Len(log) \in Nat
      /\ cmd[c].json \in BOOLEAN /\ \A r \in Req : file[r].started \in Nat
  BY PollTypes
<1>2. /\ Poll(c) /\ cmd[c].pc = "last" /\ cmd[c].via # "poll" /\ file' = file /\ log' = log
      /\ Truth(c)
  BY DEF PollInv, StoryInv, Story, Places, PollLast
<1>3. cmd' = [cmd EXCEPT ![c] = x]
  BY <1>1 DEF PollLast, TypeInv, CmdTypes, IsCmd
<1>4. Covered(c) /\ cmd[c].since # 0
  BY <1>2 DEF Poll
<1>5. /\ \A i, j \in 1..Len(q) : i < j => q[i] < q[j]
      /\ \A j \in 1..Len(q) : q[j] \in 1..Len(log)
      /\ \A i \in 1..Len(log) :
           (IF cmd[c].json THEN log[i].of = cmd[c].mine ELSE cmd[c].since # 0 /\ i >= cmd[c].since) =>
             \E j \in 1..Len(q) : q[j] = i
  BY <1>2, <1>4, Flushed
<1> HIDE DEF q
<1>6. /\ x.pc = "done" /\ x.since = cmd[c].since /\ x.seen = cmd[c].seen /\ x.polled = q
      /\ x.mine = cmd[c].mine /\ x.via = "poll" /\ x.json = cmd[c].json
  BY <1>1 DEF IsCmd
<1> HIDE DEF x
<1>7. cmd'[c] = x /\ \A d \in Cmds : d # c => cmd'[d] = cmd[d]
  BY <1>3 DEF TypeInv, CmdTypes
<1>8. cmd[c].since <= Len(log) + 1 /\ cmd[c].seen <= Len(log)
  BY <1>2 DEF Poll
<1>9. PICK s \in Nat : s = file[cmd[c].mine].started /\ cmd[c].since <= s
  <2>1. cmd[c].mine \in Req /\ Terminal(file[cmd[c].mine].status)
    BY <1>2, ReqIs DEF Truth, Waits
  <2>2. file[cmd[c].mine].started # 0
    BY <2>1 DEF PollInv, Begun
  <2> QED
    BY <1>1, <1>4, <2>1, <2>2 DEF Covered
<1>10. \A i : Printed(c, i)' <=> \E j \in 1..Len(q) : q[j] = i
  BY <1>6, <1>7 DEF Printed
<1>11. ASSUME NEW i \in 1..Len(log), log[i].of = cmd[c].mine, i >= s
       PROVE  Printed(c, i)'
  <2>1. i >= cmd[c].since
    BY <1>1, <1>9, <1>11
  <2> QED
    BY <1>4, <1>5, <1>10, <1>11, <2>1
<1>12. \A i \in 1..Len(log') : log'[i].of = x.mine /\ i >= file'[x.mine].started => Printed(c, i)'
  BY <1>2, <1>6, <1>9, <1>11
<1> QED
  BY <1>2, <1>5, <1>6, <1>7, <1>8, <1>12 DEF Poll

LEMMA NextPoll ==
  ASSUME TypeInv, StoryInv, PollInv, TypeInv', [Next]_vars
  PROVE  PollInv'
<1>1. Begun' /\ (\A r \in Req : Moved(r)) /\ LogMoves
  BY FilesMove DEF PollInv
<1>2. ASSUME NEW d \in Cmds, cmd'[d] = cmd[d] PROVE Poll(d)'
  BY <1>1, <1>2, PollKept DEF PollInv
<1>3. CASE cmd' = cmd
  BY <1>1, <1>2, <1>3 DEF PollInv
<1>4. ASSUME NEW c \in Cmds, Command(c) PROVE PollInv'
  <2>1. Poll(c)' /\ \A d \in Cmds : d # c => cmd'[d] = cmd[d]
    BY <1>4, PollBefore, PollLoads, PollPolls, PollEnds DEF Command
  <2>2. ASSUME NEW d \in Cmds PROVE Poll(d)'
    BY <1>2, <2>1
  <2> QED
    BY <1>1, <2>2 DEF PollInv
<1>5. \/ cmd' = cmd
      \/ \E c \in Cmds : Command(c)
  BY DEF Next, vars, OwnerStep, Acquire, Listen, Claim, EmitOutcome, CloseServer, EndOwner, EmitEvent, Event,
         IdleExit, CloseExit, ErrorExit, Crash, Leave, EndTurn,
         Handler, HandlerEnqueues, HandlerRegisters, HandlerAccepts, HandlerRefuses
<1> QED
  BY <1>3, <1>4, <1>5

LEMMA InitPoll ==
  ASSUME Init
  PROVE  PollInv
<1>1. PICK json \in SUBSET Waiting :
        cmd = [c \in Cmds |-> [NewCmd EXCEPT !.pc = IF c \in Waiting THEN @ ELSE "enqueue",
                                             !.json = c \in json]]
  BY DEF Init
<1>2. ASSUME NEW c \in Cmds PROVE Poll(c)
  <2>1. /\ cmd[c].pc \in {"lease", "enqueue"} /\ cmd[c].via = "none" /\ cmd[c].since = 0
        /\ cmd[c].seen = 0 /\ cmd[c].polled = <<>>
    BY <1>1 DEF NewCmd
  <2>2. Len(cmd[c].polled) = 0 /\ Len(log) = 0
    BY <2>1 DEF Init
  <2> QED
    BY <2>1, <2>2 DEF Poll
<1>3. Begun
  BY InitBegun
<1> QED
  BY <1>2, <1>3 DEF PollInv

\* A command that was answered from the request file has printed every event of the
\* execution that ended its request, each once and in order, however its looks at the
\* status and at the log fell between the owner's writes: the time from which it reads
\* the session's history is never later than that execution, an event is
\* logged before the status is saved, and the log is read once more after the status
\* was loaded (main.go:504-578).
THEOREM PolledWhole == Spec => []PollIsWhole
<1>1. Init => PollInv
  BY InitPoll
<1>2. TypeInv /\ StoryInv /\ PollInv /\ TypeInv' /\ [Next]_vars => PollInv'
  BY NextPoll
<1>3. TypeInv /\ PollInv => PollIsWhole
  <2> SUFFICES ASSUME TypeInv, PollInv, NEW c \in Cmds, cmd[c].via = "poll"
               PROVE  /\ \A i \in 1..Len(cmd[c].polled) - 1 : cmd[c].polled[i] < cmd[c].polled[i + 1]
                      /\ \A i \in 1..Len(log) :
                           log[i].of = cmd[c].mine /\ i >= file[cmd[c].mine].started =>
                             \E j \in 1..Len(cmd[c].polled) : cmd[c].polled[j] = i
    BY DEF PollIsWhole
  <2>1. Poll(c) /\ Len(cmd[c].polled) \in Nat
    BY PollTypes DEF PollInv
  <2>2. \A i \in 1..Len(cmd[c].polled) - 1 :
          i \in 1..Len(cmd[c].polled) /\ i + 1 \in 1..Len(cmd[c].polled) /\ i < i + 1
    BY <2>1
  <2> QED
    BY <2>1, <2>2 DEF Poll, Printed
<1> QED
  BY <1>1, <1>2, <1>3, StoryHolds, PTL DEF Spec

-----------------------------------------------------------------------------
FailTypes == failures \in 0..MaxFailures

\* Owners crash, meet an error or are told to close as often as the bound says.
LEMMA FailuresBounded == Spec => []FailTypes
<1>1. ASSUME Init PROVE FailTypes
  <2>1. failures = 0
    BY <1>1 DEF Init
  <2> QED
    BY <2>1, BoundAssumption DEF FailTypes
<1>2. ASSUME FailTypes, [Next]_vars PROVE FailTypes'
  <2> DEFINE Counted == \/ failures' = failures
                        \/ failures < MaxFailures /\ failures' = failures + 1
  <2>2. OwnerStep => Counted
    BY DEF OwnerStep, Acquire, Listen, Claim, EmitOutcome, CloseServer, EndOwner
  <2>3. EmitEvent \/ IdleExit \/ CloseExit \/ ErrorExit \/ Crash => Counted
    BY DEF EmitEvent, Event, IdleExit, CloseExit, ErrorExit, Crash, Leave
  <2>4. (\E s \in {"completed", "failed"} : EndTurn(s)) => Counted
    BY DEF EndTurn
  <2>5. ASSUME NEW c \in Cmds, Handler(c) \/ HandlerRefuses(c) PROVE Counted
    BY <2>5 DEF Handler, HandlerEnqueues, HandlerRegisters, HandlerAccepts, HandlerRefuses
  <2>6. ASSUME NEW c \in Cmds, Command(c) PROVE Counted
    BY <2>6 DEF Command, LoadLease, Dial, ReadEnvelope, StreamEnds, Enqueue, EnsureOwner,
                LoadRequest, PollLog, PollLast
  <2>1. Counted
    BY <1>2, <2>2, <2>3, <2>4, <2>5, <2>6 DEF Next, vars
  <2> QED
    BY <1>2, <2>1, BoundAssumption DEF FailTypes
<1> QED
  BY <1>1, <1>2, PTL DEF Spec

\* Every variable keeps its type, and the owner has a request in hand exactly while it
\* runs one or has yet to announce its outcome (main.go:2262-2406).
THEOREM Typed == Spec => []TypeOK
<1>1. TypeInv /\ FailTypes => TypeOK
  <2> SUFFICES ASSUME TypeInv, FailTypes PROVE TypeOK
    OBVIOUS
  <2>1. cmd \in [Cmds -> [json : BOOLEAN, mine : Req \cup {NoReq}, read : Nat, seen : Nat, since : Nat,
          pc : {"lease", "dial", "reading", "enqueue", "ensure", "flush", "load",
                "history", "last", "done"},
          streamed : Seq(Nat), polled : Seq(Nat), via : {"none", "stream", "poll"},
          told : Statuses]]
    BY DEF TypeInv, CmdTypes, IsCmd
  <2>2. conn \in [Cmds -> [gen : Nat, open : BOOLEAN, read : BOOLEAN,
          srv : {"none", "called", "register", "accept", "waiting", "gone"}, missed : Nat,
          wire : Seq([type : {"accepted", "event", "result", "error"}, nth : Nat,
                      status : Statuses])]]
    <3>1. ASSUME NEW x \in Conns
          PROVE  x \in [gen : Nat, open : BOOLEAN, read : BOOLEAN,
                   srv : {"none", "called", "register", "accept", "waiting", "gone"}, missed : Nat,
                   wire : Seq([type : {"accepted", "event", "result", "error"}, nth : Nat,
                               status : Statuses])]
      BY DEF Conns, Envelopes
    <3> QED
      BY <3>1 DEF TypeInv, ConnTypes
  <2>3. file \in [Req -> [status : Statuses, order : Nat, started : Nat]]
    BY DEF TypeInv, FileTypes, Files
  <2> QED
    BY <2>1, <2>2, <2>3 DEF TypeOK, TypeInv, LogTypes, OwnTypes, ConnTypes, FailTypes
<1> QED
  BY <1>1, StoryHolds, FailuresBounded, PTL
-----------------------------------------------------------------------------
\* OwnerIPC implements RequestLife.

\* What RequestLife sees of a state.
LifeOf  == [r \in Req |-> file[r].status]
HeardOf == [r \in Req |-> IF cmd[r[1]].via # "none" /\ Heard(r[1]) = r THEN cmd[r[1]].told ELSE "absent"]
Up      == own \in {"idle", "running", "saved"}

\* An owner at work has nothing running but the request in its hand.
NoneBehind ==
  /\ own \in {"idle", "saved"} => \A r \in Req : file[r].status # "running"
  /\ own = "running" => \A r \in Req : file[r].status = "running" => r = cur

\* Who writes request files.
Writes == \/ \E c \in Cmds : Enqueue(c) \/ HandlerEnqueues(c)
          \/ Listen
          \/ \E r \in Req : Claim(r)
          \/ \E s \in {"completed", "failed"} : EndTurn(s)

LEMMA OnlyWrites ==
  ASSUME [Next]_vars
  PROVE  Writes \/ file' = file
<1>1. ASSUME NEW c \in Cmds, Command(c) \/ Handler(c) \/ HandlerRefuses(c)
      PROVE  Enqueue(c) \/ HandlerEnqueues(c) \/ file' = file
  BY <1>1 DEF Command, LoadLease, Dial, ReadEnvelope, StreamEnds, EnsureOwner, LoadRequest, PollLog, PollLast,
       Handler, HandlerRegisters, HandlerAccepts, HandlerRefuses
<1>2. ASSUME OwnerStep
      PROVE  Listen \/ (\E r \in Req : Claim(r)) \/ file' = file
  BY <1>2 DEF OwnerStep, Acquire, EmitOutcome, CloseServer, EndOwner
<1>3. ASSUME EmitEvent \/ IdleExit \/ CloseExit \/ ErrorExit \/ Crash \/ UNCHANGED vars
      PROVE  file' = file
  BY <1>3 DEF EmitEvent, Event, IdleExit, CloseExit, ErrorExit, Leave, Crash, vars
<1> QED
  BY <1>1, <1>2, <1>3 DEF Writes, Next

\* A step that writes no file starts no work.
LEMMA WorkIsClaimed ==
  ASSUME [Next]_vars, file' = file
  PROVE  \/ own' = own /\ cur' = cur
         \/ own' \notin {"idle", "running", "saved"}
         \/ own = "saved" /\ own' = "idle"
         \/ Writes
<1>1. ASSUME NEW c \in Cmds, Command(c) \/ Handler(c) \/ HandlerRefuses(c)
      PROVE  (own' = own /\ cur' = cur) \/ own' = "spawned"
  BY <1>1 DEF Command, LoadLease, Dial, ReadEnvelope, StreamEnds, Enqueue, EnsureOwner, LoadRequest, PollLog,
       PollLast, Handler, HandlerEnqueues, HandlerRegisters, HandlerAccepts, HandlerRefuses, ownVars
<1>2. ASSUME OwnerStep
      PROVE  \/ own' \notin {"idle", "running", "saved"}
             \/ own = "saved" /\ own' = "idle"
             \/ Writes
  BY <1>2 DEF OwnerStep, Acquire, EmitOutcome, CloseServer, EndOwner, Dies, Writes
<1>3. ASSUME EmitEvent \/ UNCHANGED vars
      PROVE  own' = own /\ cur' = cur
  BY <1>3 DEF EmitEvent, Event, vars, ownVars
<1>4. ASSUME IdleExit \/ CloseExit \/ ErrorExit \/ Crash
      PROVE  own' \notin {"idle", "running", "saved"}
  BY <1>4 DEF IdleExit, CloseExit, ErrorExit, Leave, Crash, Dies
<1> QED
  BY <1>1, <1>2, <1>3, <1>4 DEF Next, Writes

LEMMA BehindStep ==
  ASSUME TypeInv, NoneBehind, [Next]_vars
  PROVE  NoneBehind'
<1>1. file \in [Req -> Files]
  BY DEF TypeInv, FileTypes
<1>2. ASSUME NEW c \in Cmds, Enqueue(c) \/ HandlerEnqueues(c)
      PROVE  NoneBehind'
  <2>1. PICK q \in Req : Enqueued(q) /\ own' = own /\ cur' = cur
    BY <1>2, ReqIs DEF Enqueue, HandlerEnqueues, ownVars
  <2>2. file'[q].status = "queued" /\ \A s \in Req : s # q => file'[s] = file[s]
    BY <2>1, EnqueuedTypes DEF TypeInv
  <2> QED
    BY <2>1, <2>2 DEF NoneBehind
<1>3. ASSUME Listen
      PROVE  NoneBehind'
  <2>1. own' = "idle" /\ \A r \in Req : file'[r].status # "running"
    BY <1>1, <1>3 DEF Listen, Files
  <2> QED
    BY <2>1 DEF NoneBehind
<1>4. ASSUME NEW r \in Req, Claim(r)
      PROVE  NoneBehind'
  <2>1. own = "idle" /\ own' = "running" /\ cur' = r /\ \A s \in Req : s # r => file'[s] = file[s]
    BY <1>1, <1>4 DEF Claim
  <2> QED
    BY <2>1 DEF NoneBehind
<1>5. ASSUME NEW s \in {"completed", "failed"}, EndTurn(s)
      PROVE  NoneBehind'
  <2>1. own = "running" /\ own' = "saved" /\ file' = [file EXCEPT ![cur].status = s]
    BY <1>5 DEF EndTurn
  <2>2. ASSUME NEW r \in Req PROVE file'[r].status # "running"
    <3>1. CASE r = cur
      BY <1>1, <2>1, <3>1 DEF Files
    <3>2. CASE r # cur
      BY <1>1, <2>1, <3>2 DEF NoneBehind
    <3> QED
      BY <3>1, <3>2
  <2> QED
    BY <2>1, <2>2 DEF NoneBehind
<1>6. CASE file' = file /\ ~Writes
  BY <1>6, WorkIsClaimed DEF NoneBehind
<1> QED
  BY <1>2, <1>3, <1>4, <1>5, <1>6, OnlyWrites DEF Writes

\* The outcome a command was told belongs to the request it waited for.
LEMMA HeardSame ==
  ASSUME \A d \in Cmds : /\ cmd'[d].via = cmd[d].via
                         /\ cmd[d].via # "none" => cmd'[d] = cmd[d]
  PROVE  HeardOf' = HeardOf
<1>1. ASSUME NEW r \in Req PROVE HeardOf'[r] = HeardOf[r]
  <2>1. r[1] \in Cmds
    BY ReqIs
  <2>2. CASE cmd[r[1]].via = "none"
    BY <2>1, <2>2 DEF HeardOf
  <2>3. CASE cmd[r[1]].via # "none"
    BY <2>1, <2>3 DEF HeardOf, Heard
  <2> QED
    BY <2>2, <2>3
<1>2. HeardOf = [r \in Req |-> HeardOf[r]] /\ HeardOf' = [r \in Req |-> HeardOf'[r]]
  BY DEF HeardOf
<1> QED
  BY <1>1, <1>2

\* By whatever way it goes, a request is put into the queue once.
LEMMA SubmitRefines ==
  ASSUME TypeInv, StoryInv, NEW c \in Cmds, Enqueue(c) \/ HandlerEnqueues(c)
  PROVE  [Life!Next]_Life!lifeVars
<1>1. Story(c) /\ file \in [Req -> Files]
  BY DEF StoryInv, TypeInv, FileTypes
<1>2. PICK q \in Req : Enqueued(q) /\ file[q].status = "absent"
  BY <1>1, ReqIs DEF Enqueue, HandlerEnqueues, Story, Places, Queue, Socket
<1>3. LifeOf[q] = "absent" /\ LifeOf' = [LifeOf EXCEPT ![q] = "queued"]
  <2>1. file' \in [Req -> Files] /\ file'[q].status = "queued" /\ \A s \in Req : s # q => file'[s] = file[s]
    BY <1>2, EnqueuedTypes DEF TypeInv, FileTypes
  <2> QED
    BY <1>2, <2>1 DEF LifeOf
<1>4. HeardOf' = HeardOf
  <2>1. CASE HandlerEnqueues(c)
    BY <2>1, HeardSame DEF HandlerEnqueues
  <2>2. CASE Enqueue(c)
    <3> DEFINE x == [cmd[c] EXCEPT !.pc = "ensure", !.mine = <<c, "file">>]
    <3>1. cmd[c].via = "none" /\ IsCmd(cmd[c])
      BY <1>1, <2>2 DEF Enqueue, Story, Places, TypeInv, CmdTypes, IsCmd
    <3>2. cmd' = [cmd EXCEPT ![c] = x]
      BY <2>2 DEF Enqueue, TypeInv, CmdTypes
    <3>3. x.via = "none"
      BY <3>1 DEF IsCmd
    <3> HIDE DEF x
    <3>4. cmd'[c] = x /\ \A d \in Cmds : d # c => cmd'[d] = cmd[d]
      BY <3>2 DEF TypeInv, CmdTypes
    <3> QED
      BY <3>1, <3>3, <3>4, HeardSame
  <2> QED
    BY <2>1, <2>2
<1>5. Up' = Up
  BY DEF Enqueue, HandlerEnqueues, ownVars, Up
<1>6. Life!Submit(q)
  BY <1>3, <1>4, <1>5 DEF Life!Submit, Life!Become, LifeOf, HeardOf, Up
<1> QED
  BY <1>6 DEF Life!Next

\* A command that is not told its outcome by the step, or whose file has it.
LEMMA TellRefines ==
  ASSUME TypeInv, StoryInv, TypeInv', StoryInv', NEW c \in Cmds, Command(c), ~Enqueue(c)
  PROVE  [Life!Next]_Life!lifeVars
<1>1. file' = file /\ Up' = Up
  <2>1. file' = file /\ (own' = own \/ (own = "down" /\ own' = "spawned"))
    BY DEF Command, LoadLease, Dial, ReadEnvelope, StreamEnds, EnsureOwner, LoadRequest, PollLog, PollLast,
         ownVars
  <2> QED
    BY <2>1 DEF Up
<1>2. cmd[c].via = "none"
  <2>1. cmd[c].pc # "done"
    BY DEF Command, LoadLease, Dial, ReadEnvelope, StreamEnds, EnsureOwner, LoadRequest, PollLog, PollLast
  <2> QED
    BY <2>1 DEF StoryInv, Story, Places
<1>3. \A d \in Cmds : d # c => cmd'[d] = cmd[d]
  <2>1. \E x : cmd' = [cmd EXCEPT ![c] = x]
    BY DEF Command, LoadLease, Dial, Goto, ReadEnvelope, StreamEnds, EnsureOwner, LoadRequest, PollLog, Flush,
         PollLast
  <2> QED
    BY <2>1 DEF TypeInv, CmdTypes
<1>4. LifeOf' = LifeOf
  BY <1>1 DEF LifeOf
<1>5. CASE cmd'[c].via = "none"
  <2>1. HeardOf' = HeardOf
    BY <1>2, <1>3, <1>5, HeardSame
  <2> QED
    BY <1>1, <1>4, <2>1 DEF Life!lifeVars, LifeOf, HeardOf, Up
<1>6. CASE cmd'[c].via = "stream" /\ cmd'[c].told = "absent"
  <2>1. ASSUME NEW r \in Req PROVE HeardOf'[r] = HeardOf[r]
    <3>1. CASE r[1] = c
      BY <1>2, <1>6, <3>1 DEF HeardOf
    <3>2. CASE r[1] # c
      BY <1>3, <3>2, ReqIs DEF HeardOf, Heard
    <3> QED
      BY <3>1, <3>2
  <2>2. HeardOf = [r \in Req |-> HeardOf[r]] /\ HeardOf' = [r \in Req |-> HeardOf'[r]]
    BY DEF HeardOf
  <2>3. HeardOf' = HeardOf
    BY <2>1, <2>2
  <2> QED
    BY <1>1, <1>4, <2>3 DEF Life!lifeVars, LifeOf, HeardOf, Up
<1>7. CASE cmd'[c].via # "none" /\ ~(cmd'[c].via = "stream" /\ cmd'[c].told = "absent")
  <2>1. cmd'[c].via \in {"stream", "poll"} /\ Truth(c)'
    BY <1>7 DEF TypeInv, CmdTypes, IsCmd, StoryInv, Story
  <2>2. PICK q \in Req : q = Heard(c)' /\ q[1] = c
    BY <2>1, ReqIs DEF Heard, Truth, Waits
  <2>3. PICK s \in Life!Told : s = cmd'[c].told /\ LifeOf[q] = s
    BY <1>1, <1>7, <2>1, <2>2 DEF Truth, Heard, Socket, LifeOf, Terminal, Outcome, Life!Told, Life!Outcome
  <2>4. HeardOf[q] = "absent" /\ HeardOf' = [HeardOf EXCEPT ![q] = s]
    <3>1. HeardOf[q] = "absent" /\ HeardOf'[q] = s
      BY <1>2, <1>7, <2>2, <2>3 DEF HeardOf
    <3>2. ASSUME NEW r \in Req, r # q PROVE HeardOf'[r] = HeardOf[r]
      <4>1. CASE r[1] = c
        BY <1>2, <2>2, <3>2, <4>1 DEF HeardOf
      <4>2. CASE r[1] # c
        BY <1>3, <4>2, ReqIs DEF HeardOf, Heard
      <4> QED
        BY <4>1, <4>2
    <3>3. HeardOf = [r \in Req |-> HeardOf[r]] /\ HeardOf' = [r \in Req |-> HeardOf'[r]]
      BY DEF HeardOf
    <3> QED
      BY <3>1, <3>2, <3>3
  <2>5. Life!Tell(q)
    BY <1>1, <1>4, <2>3, <2>4 DEF Life!Tell, LifeOf, HeardOf, Up
  <2> QED
    BY <2>5 DEF Life!Next
<1> QED
  BY <1>5, <1>6, <1>7

\* The owner puts back what it finds, runs one request at a time, and saves its outcome.
LEMMA WorkRefines ==
  ASSUME TypeInv, StoryInv, NoneBehind,
         \/ Listen
         \/ \E r \in Req : Claim(r)
         \/ \E s \in {"completed", "failed"} : EndTurn(s)
  PROVE  [Life!Next]_Life!lifeVars
<1>1. file \in [Req -> Files] /\ cmd' = cmd
  BY DEF TypeInv, FileTypes, Listen, Claim, EndTurn
<1>2. HeardOf' = HeardOf
  BY <1>1, HeardSame
<1>3. CASE Listen
  <2> DEFINE S == {r \in Req : LifeOf[r] = "running"}
  <2>1. ~Up /\ Up' = TRUE
    BY <1>3 DEF Listen, Up
  <2>2. LifeOf' = [r \in Req |-> IF r \in S THEN "queued" ELSE LifeOf[r]]
    <3>1. ASSUME NEW r \in Req
          PROVE  file'[r].status = IF file[r].status = "running" THEN "queued" ELSE file[r].status
      BY <1>1, <1>3 DEF Listen, Files
    <3> QED
      BY <3>1 DEF LifeOf
  <2>3. Life!Recover
    BY <1>2, <2>1, <2>2 DEF Life!Recover, Life!Running, LifeOf, HeardOf, Up
  <2> QED
    BY <2>3 DEF Life!Next
<1>4. ASSUME NEW r \in Req, Claim(r)
      PROVE  [Life!Next]_Life!lifeVars
  <2>1. /\ own = "idle" /\ own' = "running" /\ file[r].status = "queued"
        /\ file' = [file EXCEPT ![r].status = "running", ![r].started = Len(log) + 1]
    BY <1>4 DEF Claim, NextPending
  <2>2. LifeOf[r] = "queued" /\ LifeOf' = [LifeOf EXCEPT ![r] = "running"]
    <3>1. file'[r].status = "running" /\ \A q \in Req : q # r => file'[q] = file[q]
      BY <1>1, <2>1 DEF Files
    <3>2. LifeOf[r] = "queued"
      BY <2>1 DEF LifeOf
    <3>3. LifeOf' = [q \in Req |-> IF q = r THEN "running" ELSE LifeOf[q]]
      BY <3>1 DEF LifeOf
    <3> QED
      BY <3>2, <3>3 DEF LifeOf
  <2>3. {q \in Req : LifeOf[q] = "running"} = {} /\ Up /\ Up'
    BY <2>1 DEF NoneBehind, LifeOf, Up
  <2>4. Life!Start(r)
    BY <1>2, <2>2, <2>3 DEF Life!Start, Life!Running, Life!Become, LifeOf, HeardOf, Up
  <2> QED
    BY <2>4 DEF Life!Next
<1>5. ASSUME NEW s \in {"completed", "failed"}, EndTurn(s)
      PROVE  [Life!Next]_Life!lifeVars
  <2>1. own = "running" /\ own' = "saved" /\ file' = [file EXCEPT ![cur].status = s]
    BY <1>5 DEF EndTurn
  <2>2. PICK q \in Req : q = cur
    BY <2>1 DEF TypeInv, OwnTypes
  <2>3. LifeOf[q] = "running" /\ LifeOf' = [LifeOf EXCEPT ![q] = s]
    <3>1. file'[q].status = s /\ \A r \in Req : r # q => file'[r] = file[r]
      BY <1>1, <2>1, <2>2 DEF Files
    <3>2. file[q].status = "running"
      BY <2>1, <2>2 DEF StoryInv, InHand
    <3> QED
      BY <3>1, <3>2 DEF LifeOf
  <2>4. Up /\ Up' /\ s \in Life!Outcome
    BY <2>1 DEF Up, Life!Outcome
  <2>5. Life!Finish(q)
    BY <1>2, <2>3, <2>4 DEF Life!Finish, Life!Become, LifeOf, HeardOf, Up
  <2> QED
    BY <2>5 DEF Life!Next
<1> QED
  BY <1>3, <1>4, <1>5

\* No other step is seen, but for the owner's leaving or dying.
LEMMA AsideRefines ==
  ASSUME file' = file, cmd' = cmd, Up' => Up
  PROVE  [Life!Next]_Life!lifeVars
<1>1. LifeOf' = LifeOf /\ HeardOf' = HeardOf
  BY HeardSame DEF LifeOf
<1>2. Up \in BOOLEAN /\ Up' \in BOOLEAN
  BY DEF Up
<1>3. CASE Up' = Up
  BY <1>1, <1>3 DEF Life!lifeVars, LifeOf, HeardOf, Up
<1>4. CASE Up /\ Up' = FALSE
  <2>1. Life!Stop
    BY <1>1, <1>4 DEF Life!Stop, LifeOf, HeardOf, Up
  <2> QED
    BY <2>1 DEF Life!Next
<1> QED
  BY <1>2, <1>3, <1>4

LEMMA StepRefines ==
  ASSUME TypeInv, StoryInv, NoneBehind, TypeInv', StoryInv', [Next]_vars
  PROVE  [Life!Next]_Life!lifeVars
<1>1. ASSUME NEW c \in Cmds, Command(c) PROVE [Life!Next]_Life!lifeVars
  BY <1>1, SubmitRefines, TellRefines
<1>2. CASE Writes
  BY <1>2, SubmitRefines, WorkRefines DEF Writes
<1>3. CASE ~Writes /\ \A c \in Cmds : ~Command(c)
  <2>1. file' = file
    BY <1>3, OnlyWrites
  <2>2. cmd' = cmd
    BY <1>3 DEF Next, vars, OwnerStep, Acquire, Listen, Claim, EmitOutcome, CloseServer, EndOwner, EmitEvent,
         Event, IdleExit, CloseExit, ErrorExit, Crash, Leave, EndTurn,
         Handler, HandlerEnqueues, HandlerRegisters, HandlerAccepts, HandlerRefuses
  <2>3. Up' => Up
    BY <1>3, <2>1, WorkIsClaimed DEF Up
  <2> QED
    BY <2>1, <2>2, <2>3, AsideRefines
<1> QED
  BY <1>1, <1>2, <1>3

\* By whatever way a prompt goes to the owner and its outcome comes back, the queue keeps
\* what RequestLife promises: each request is run one at a time and once by an owner, its
\* outcome is for good, and the command is told no other.
THEOREM Implements == Spec => ImplementsLife
<1>1. Init => Life!Init
  <2> SUFFICES ASSUME Init PROVE Life!Init
    OBVIOUS
  <2>1. file = [r \in Req |-> NoFile] /\ NoFile.status = "absent"
    BY DEF Init, NoFile
  <2>2. \A c \in Cmds : cmd[c].via = "none"
    <3>1. PICK json \in SUBSET Waiting :
            cmd = [c \in Cmds |-> [NewCmd EXCEPT !.pc = IF c \in Waiting THEN @ ELSE "enqueue",
                                                 !.json = c \in json]]
      BY DEF Init
    <3> QED
      BY <3>1 DEF NewCmd
  <2>3. \A r \in Req : cmd[r[1]].via = "none" /\ file[r].status = "absent"
    BY <2>1, <2>2, ReqIs
  <2> QED
    BY <2>3 DEF Life!Init
<1>2. ASSUME Init PROVE NoneBehind
  <2>1. own = "idle" /\ \A r \in Req : file[r] = NoFile
    BY <1>2 DEF Init
  <2> QED
    BY <2>1 DEF NoneBehind, NoFile
<1>3. TypeInv /\ NoneBehind /\ [Next]_vars => NoneBehind'
  BY BehindStep
<1>4. TypeInv /\ StoryInv /\ NoneBehind /\ TypeInv' /\ StoryInv' /\ [Next]_vars => [Life!Next]_Life!lifeVars
  BY StepRefines
<1> QED
  BY <1>1, <1>2, <1>3, <1>4, StoryHolds, PTL DEF Spec, ImplementsLife, Life!LifeSpec
=============================================================================
