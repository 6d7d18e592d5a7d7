------------------------- MODULE AgentRequests_proofs -------------------------
(***************************************************************************)
(* Proofs about AgentRequests, for any clients, goroutines, settings,      *)
(* requests and bounds: the types of its variables, that agents get what   *)
(* was consented to, and that a client has to do with one process.  They   *)
(* rest on LifeInv of ClientManager_proofs and on what is proved first     *)
(* about the choice among the options of Permissions.                      *)
(***************************************************************************)
EXTENDS AgentRequests, ClientManager_proofs, WellFoundedInduction

-----------------------------------------------------------------------------
\* What Select selects.

\* A nonempty set of natural numbers has a least one.
LEMMA LeastNatural ==
  ASSUME NEW S \in SUBSET Nat, S # {}
  PROVE  \E n \in S : \A k \in S : n <= k
<1> DEFINE R == OpToRel(<, Nat)
<1>1. IsWellFoundedOn(R, Nat)
  BY NatLessThanWellFounded
<1>2. \A x, y \in Nat : <<y, x>> \in R <=> y < x
  BY DEF OpToRel
<1> HIDE DEF R
<1>3. PICK x \in S : \A y \in S : ~(<<y, x>> \in R)
  BY <1>1, WFMin
<1>4. \A y \in S : ~(y < x) /\ x \in Nat /\ y \in Nat
  BY <1>2, <1>3
<1>5. \A y \in S : x <= y
  BY <1>4
<1> QED
  BY <1>5

\* The order in which FirstOf looks at the pairs of a wish and an option.
Before(m, other) == m[1] < other[1] \/ (m[1] = other[1] /\ m[2] <= other[2])

LEMMA FirstIsMet ==
  ASSUME NEW met \in SUBSET (Nat \X Nat), met # {}
  PROVE  \E m \in met : FirstOf(met) = m[2] /\ \A other \in met : Before(m, other)
<1> DEFINE S == {m[1] : m \in met}
<1>1. PICK i \in S : \A k \in S : i <= k
  <2>1. S \in SUBSET Nat /\ S # {}
    OBVIOUS
  <2> HIDE DEF S
  <2> QED
    BY <2>1, LeastNatural
<1> DEFINE T == {n \in Nat : <<i, n>> \in met}
<1>2. T \in SUBSET Nat /\ T # {} /\ i \in Nat
  <2>1. PICK m \in met : i = m[1]
    OBVIOUS
  <2>2. m = <<m[1], m[2]>> /\ m[1] \in Nat /\ m[2] \in Nat
    OBVIOUS
  <2> QED
    BY <2>1, <2>2
<1>3. PICK n \in T : \A k \in T : n <= k
  BY <1>2, LeastNatural
<1>4. \A other \in met : Before(<<i, n>>, other)
  <2> SUFFICES ASSUME NEW other \in met PROVE Before(<<i, n>>, other)
    OBVIOUS
  <2>1. other = <<other[1], other[2]>> /\ other[1] \in Nat /\ other[2] \in Nat /\ other[1] \in S
    OBVIOUS
  <2>2. other[1] = i => other[2] \in T
    BY <2>1
  <2> QED
    BY <1>1, <1>2, <1>3, <2>1, <2>2 DEF Before
<1>5. \E m \in met : \A other \in met : Before(m, other)
  BY <1>3, <1>4
<1>6. FirstOf(met) = (CHOOSE m \in met : \A other \in met : Before(m, other))[2]
  BY DEF FirstOf, Before
<1> QED
  BY <1>5, <1>6

LEMMA FirstOfNone == FirstOf({}) = 0
BY DEF FirstOf

\* A list of two wishes: the first that an option fulfils decides.
LEMMA ByKindIs ==
  ASSUME NEW options, DOMAIN options \in SUBSET (Nat \ {0}), NEW k1, NEW k2, NEW n,
         n = ByKind(options, <<k1, k2>>)
  PROVE  /\ n = 0 => \A o \in DOMAIN options : ~Same(options[o].kind, k1) /\ ~Same(options[o].kind, k2)
         /\ n # 0 => /\ n \in DOMAIN options
                     /\ \/ Same(options[n].kind, k1)
                        \/ /\ Same(options[n].kind, k2)
                           /\ \A o \in DOMAIN options : ~Same(options[o].kind, k1)
<1> DEFINE kinds == <<k1, k2>>
           met == {m \in (DOMAIN kinds) \X (DOMAIN options) : Same(options[m[2]].kind, kinds[m[1]])}
<1>1. n = FirstOf(met)
  BY DEF ByKind
<1>2. DOMAIN kinds = {1, 2} /\ kinds[1] = k1 /\ kinds[2] = k2
  OBVIOUS
<1>3. met \in SUBSET (Nat \X Nat)
  BY <1>2
<1>4. \A o \in DOMAIN options : /\ Same(options[o].kind, k1) => <<1, o>> \in met
                                /\ Same(options[o].kind, k2) => <<2, o>> \in met
  BY <1>2
<1>5. \A m \in met : /\ m[1] \in {1, 2} /\ m[2] \in DOMAIN options /\ m = <<m[1], m[2]>>
                     /\ Same(options[m[2]].kind, kinds[m[1]])
  BY <1>2
<1> HIDE DEF met, kinds
<1>6. CASE met = {}
  BY <1>1, <1>4, <1>6, FirstOfNone
<1>7. CASE met # {}
  <2>1. PICK m \in met : n = m[2] /\ \A other \in met : Before(m, other)
    BY <1>1, <1>3, <1>7, FirstIsMet
  <2>2. m[1] = 2 => \A o \in DOMAIN options : ~Same(options[o].kind, k1)
    <3> SUFFICES ASSUME m[1] = 2, NEW o \in DOMAIN options, <<1, o>> \in met PROVE FALSE
      BY <1>4
    <3>1. Before(m, <<1, o>>)
      BY <2>1
    <3> QED
      BY <3>1 DEF Before
  <2> QED
    BY <1>2, <1>5, <2>1, <2>2
<1> QED
  BY <1>6, <1>7

\* The option that is selected has one of the ids; none has if there is no such option.
LEMMA ByIdIs ==
  ASSUME NEW options, DOMAIN options \in SUBSET (Nat \ {0}), NEW ids, DOMAIN ids \in SUBSET Nat,
         NEW n, n = ById(options, ids)
  PROVE  /\ n = 0 => \A o \in DOMAIN options, i \in DOMAIN ids : options[o].id # ids[i]
         /\ n # 0 => n \in DOMAIN options /\ \E i \in DOMAIN ids : options[n].id = ids[i]
<1> DEFINE met == {m \in (DOMAIN ids) \X (DOMAIN options) : options[m[2]].id = ids[m[1]]}
<1>1. n = FirstOf(met)
  BY DEF ById
<1>2. met \in SUBSET (Nat \X Nat)
  OBVIOUS
<1>3. \A o \in DOMAIN options, i \in DOMAIN ids : options[o].id = ids[i] => <<i, o>> \in met
  OBVIOUS
<1>4. \A m \in met : m[1] \in DOMAIN ids /\ m[2] \in DOMAIN options /\ options[m[2]].id = ids[m[1]]
  OBVIOUS
<1> HIDE DEF met
<1>5. CASE met = {}
  BY <1>1, <1>3, <1>5, FirstOfNone
<1>6. CASE met # {}
  <2>1. PICK m \in met : n = m[2]
    BY <1>1, <1>2, <1>6, FirstIsMet
  <2> QED
    BY <1>4, <2>1
<1> QED
  BY <1>5, <1>6

\* The last resort of a denial.
LEMMA NotAllowingIs ==
  ASSUME NEW options, DOMAIN options \in SUBSET (Nat \ {0}), NEW n, n = NotAllowing(options), n # 0
  PROVE  n \in DOMAIN options /\ options[n].kind \in {""} \cup RejectKinds
<1> DEFINE fit == {k \in DOMAIN options : options[k].kind = "" \/ Same(options[k].kind, "reject_once")
                                                               \/ Same(options[k].kind, "reject_always")}
<1>1. fit # {} /\ n = CHOOSE k \in fit : \A l \in fit : k <= l
  BY DEF NotAllowing
<1>2. \E k \in fit : \A l \in fit : k <= l
  <2>1. fit \in SUBSET Nat
    OBVIOUS
  <2> HIDE DEF fit
  <2> QED
    BY <1>1, <2>1, LeastNatural
<1>3. n \in fit
  BY <1>1, <1>2
<1> QED
  BY <1>3 DEF Same, RejectKinds

\* Select: what it does for a decision to allow, ...
LEMMA SelectAllows ==
  ASSUME NEW options, DOMAIN options \in SUBSET (Nat \ {0}), NEW persistent \in BOOLEAN, NEW n,
         n = Select(options, "allow", persistent), n # 0,
         \A o \in DOMAIN options : Sincere(options[o])
  PROVE  /\ n \in DOMAIN options /\ Allows(options[n])
         /\ options[n].kind = "allow_always" /\ (\E o \in DOMAIN options : options[o].kind = "allow_once")
              => persistent
<1> DEFINE kinds == Kinds("allow", persistent)
           ids == PreferredIds("allow", persistent)
           byKind == ByKind(options, kinds)
           byId == ById(options, ids)
<1>1. n = IF byKind # 0 THEN byKind ELSE byId
  BY DEF Select
<1>2. kinds = IF persistent THEN <<"allow_always", "allow_once">> ELSE <<"allow_once", "allow_always">>
  BY DEF Kinds
<1>3. DOMAIN ids \in SUBSET Nat /\ \A i \in DOMAIN ids : ids[i] \in AllowIds
  BY DEF PreferredIds, AllowIds
<1>4. CASE byKind # 0
  <2>1. CASE persistent
    <3>1. n = ByKind(options, <<"allow_always", "allow_once">>) /\ n # 0
      BY <1>1, <1>2, <1>4, <2>1
    <3>2. /\ n \in DOMAIN options
          /\ \/ Same(options[n].kind, "allow_always")
             \/ /\ Same(options[n].kind, "allow_once")
                /\ \A o \in DOMAIN options : ~Same(options[o].kind, "allow_always")
      BY <3>1, ByKindIs
    <3> QED
      BY <2>1, <3>2 DEF Same, Allows, AllowKinds
  <2>2. CASE ~persistent
    <3>1. n = ByKind(options, <<"allow_once", "allow_always">>) /\ n # 0
      BY <1>1, <1>2, <1>4, <2>2
    <3>2. /\ n \in DOMAIN options
          /\ \/ Same(options[n].kind, "allow_once")
             \/ /\ Same(options[n].kind, "allow_always")
                /\ \A o \in DOMAIN options : ~Same(options[o].kind, "allow_once")
      BY <3>1, ByKindIs
    <3> QED
      BY <2>2, <3>2 DEF Same, Allows, AllowKinds
  <2> QED
    BY <2>1, <2>2
<1>5. CASE byKind = 0
  <2>1. \A o \in DOMAIN options : options[o].kind # "allow_always"
    <3>1. CASE persistent
      <4>1. byKind = ByKind(options, <<"allow_always", "allow_once">>)
        BY <1>2, <3>1
      <4> HIDE DEF byKind
      <4> QED
        BY <1>5, <4>1, ByKindIs DEF Same
    <3>2. CASE ~persistent
      <4>1. byKind = ByKind(options, <<"allow_once", "allow_always">>)
        BY <1>2, <3>2
      <4> HIDE DEF byKind
      <4> QED
        BY <1>5, <4>1, ByKindIs DEF Same
    <3> QED
      BY <3>1, <3>2
  <2> HIDE DEF ids
  <2>2. n \in DOMAIN options /\ options[n].id \in AllowIds
    BY <1>1, <1>3, <1>5, ByIdIs
  <2> QED
    BY <2>1, <2>2 DEF Sincere, Allows
<1> QED
  BY <1>4, <1>5

\* ... and to deny.
LEMMA SelectDenies ==
  ASSUME NEW options, DOMAIN options \in SUBSET (Nat \ {0}), NEW persistent \in BOOLEAN, NEW n,
         n = Select(options, "deny", persistent), n # 0,
         \A o \in DOMAIN options : Sincere(options[o])
  PROVE  /\ n \in DOMAIN options /\ options[n].kind # "allow_always"
         /\ Allows(options[n]) =>
              options[n].kind = "" /\ \A o \in DOMAIN options : ~Rejects(options[o])
         /\ /\ options[n].kind = "reject_always"
            /\ \E o \in DOMAIN options : options[o].kind \in {"reject_once", "deny_once"}
            => persistent
<1> DEFINE kinds == Kinds("deny", persistent)
           ids == PreferredIds("deny", persistent)
           byKind == ByKind(options, kinds)
           byId == ById(options, ids)
<1>1. n = IF byKind # 0 THEN byKind ELSE IF byId # 0 THEN byId ELSE NotAllowing(options)
  <2>1. "deny" # "allow"
    OBVIOUS
  <2> QED
    BY <2>1 DEF Select
<1>2. kinds = IF persistent THEN <<"reject_always", "reject_once">> ELSE <<"reject_once", "reject_always">>
  BY DEF Kinds
<1>3. DOMAIN ids \in SUBSET Nat /\ {ids[i] : i \in DOMAIN ids} = RejectIds
  BY DEF PreferredIds, RejectIds
<1>4. CASE byKind # 0
  <2>1. CASE persistent
    <3>1. n = ByKind(options, <<"reject_always", "reject_once">>) /\ n # 0
      BY <1>1, <1>2, <1>4, <2>1
    <3>2. /\ n \in DOMAIN options
          /\ \/ Same(options[n].kind, "reject_always")
             \/ /\ Same(options[n].kind, "reject_once")
                /\ \A o \in DOMAIN options : ~Same(options[o].kind, "reject_always")
      BY <3>1, ByKindIs
    <3> QED
      BY <2>1, <3>2 DEF Same, Allows, AllowKinds
  <2>2. CASE ~persistent
    <3>1. n = ByKind(options, <<"reject_once", "reject_always">>) /\ n # 0
      BY <1>1, <1>2, <1>4, <2>2
    <3>2. /\ n \in DOMAIN options
          /\ \/ Same(options[n].kind, "reject_once")
             \/ /\ Same(options[n].kind, "reject_always")
                /\ \A o \in DOMAIN options : ~Same(options[o].kind, "reject_once")
      BY <3>1, ByKindIs
    <3> QED
      BY <2>2, <3>2 DEF Same, Allows, AllowKinds
  <2> QED
    BY <2>1, <2>2
<1>5. ASSUME byKind = 0 PROVE \A o \in DOMAIN options : options[o].kind \notin RejectKinds
  <2>1. CASE persistent
    <3>1. byKind = ByKind(options, <<"reject_always", "reject_once">>)
      BY <1>2, <2>1
    <3> HIDE DEF byKind
    <3> QED
      BY <1>5, <3>1, ByKindIs DEF Same, RejectKinds
  <2>2. CASE ~persistent
    <3>1. byKind = ByKind(options, <<"reject_once", "reject_always">>)
      BY <1>2, <2>2
    <3> HIDE DEF byKind
    <3> QED
      BY <1>5, <3>1, ByKindIs DEF Same, RejectKinds
  <2> QED
    BY <2>1, <2>2
<1> HIDE DEF ids, kinds
<1>6. CASE byKind = 0 /\ byId # 0
  <2>1. n \in DOMAIN options /\ options[n].id \in RejectIds
    BY <1>1, <1>3, <1>6, ByIdIs
  <2>2. options[n].kind \notin AllowKinds /\ options[n].id \notin AllowIds /\ options[n].kind \notin RejectKinds
    BY <1>5, <1>6, <2>1 DEF Sincere, RejectIds, AllowIds
  <2> QED
    BY <2>1, <2>2 DEF Allows, AllowKinds, RejectKinds
<1>7. CASE byKind = 0 /\ byId = 0
  <2>1. n \in DOMAIN options /\ options[n].kind = ""
    BY <1>1, <1>5, <1>7, NotAllowingIs
  <2>2. \A o \in DOMAIN options : options[o].id \notin RejectIds
    BY <1>3, <1>7, ByIdIs
  <2> QED
    BY <1>5, <1>7, <2>1, <2>2 DEF Allows, Rejects
<1> QED
  BY <1>4, <1>6, <1>7

-----------------------------------------------------------------------------
\* What a step of ClientManager leaves to the readers.
Effects ==
  /\ starts \in Nat /\ starts' \in Nat /\ starts <= starts'
  /\ \A p \in 1..starts : home'[p] = home[p]
  /\ stopped \subseteq stopped' /\ crossed \subseteq crossed'
  /\ \A c \in Clients : client'[c].told \in {0, client[c].told}

\* A step that starts, ends and stops no process.
LEMMA Quiet ==
  ASSUME LifeInv, UNCHANGED <<client, procVars>>,
         crossed' = crossed \/ \E c \in Clients, yes \in BOOLEAN : Crosses(c, yes)
  PROVE  Effects
<1>1. crossed \subseteq crossed'
  BY DEF Crosses
<1> QED
  BY <1>1, Typed DEF Effects, procVars

LEMMA LifeEffects ==
  ASSUME LifeInv, LifeNext
  PROVE  Effects
<1>1. /\ starts \in Nat /\ starts <= MaxProcs /\ home \in [Procs -> SUBSET Clients]
      /\ client \in [Clients -> Fields(starts)]
  BY Typed
<1>2. ASSUME NEW u \in Users, NEW c \in Clients, Launch(u, c) PROVE Effects
  <2>1. starts' = starts + 1 /\ starts' \in Procs /\ home' = [home EXCEPT ![starts'] = {c}]
        /\ UNCHANGED <<stopped, crossed>>
    BY <1>2 DEF Launch
  <2>2. client' = [client EXCEPT ![c].proc = starts']
    BY <1>2 DEF Launch
  <2>3. \A d \in Clients : client'[d].told = client[d].told
    BY <1>1, <2>2 DEF Fields
  <2>4. \A p \in 1..starts : home'[p] = home[p]
    BY <1>1, <2>1 DEF Procs
  <2> QED
    BY <1>1, <2>1, <2>3, <2>4 DEF Effects
<1>3. ASSUME NEW u \in Users, NEW c \in Clients, InitFails(u, c) PROVE Effects
  <2>1. starts' = starts /\ home' = home /\ stopped \subseteq stopped' /\ crossed' = crossed
        /\ client' = [client EXCEPT ![c].proc = 0]
    BY <1>3 DEF InitFails
  <2>2. \A d \in Clients : client'[d].told = client[d].told
    BY <1>1, <2>1 DEF Fields
  <2> QED
    BY <1>1, <2>1, <2>2 DEF Effects
<1>4. ASSUME NEW u \in Users, NEW c \in Clients,
             SetRunning(u, c) \/ LeaveSession(u, c) \/ Opened(u, c)
      PROVE  Effects
  <2>1. UNCHANGED <<procVars, crossed>>
    BY <1>4 DEF SetRunning, LeaveSession, Opened
  <2>2. \/ client' = [client EXCEPT ![c].running = TRUE]
        \/ client' = [client EXCEPT ![c].session = 0]
        \/ client' = [client EXCEPT ![c].session = user[u].proc]
    BY <1>4 DEF SetRunning, LeaveSession, Opened
  <2>3. \A d \in Clients : client'[d].told = client[d].told
    BY <1>1, <2>2 DEF Fields
  <2> QED
    BY <1>1, <2>1, <2>3 DEF Effects, procVars
<1>5. ASSUME NEW u \in Users, NEW c \in Clients, Kill(u, c) PROVE Effects
  BY <1>1, <1>5 DEF Kill, Effects
<1>6. ASSUME NEW u \in Users, NEW c \in Clients, Clear(u, c) PROVE Effects
  <2>1. UNCHANGED <<procVars, crossed>> /\ client' = [client EXCEPT ![c] = NewClient]
    BY <1>6 DEF Clear
  <2>2. \A d \in Clients : client'[d].told \in {0, client[d].told}
    BY <1>1, <2>1 DEF NewClient
  <2> QED
    BY <1>1, <2>1, <2>2 DEF Effects, procVars
<1>7. ASSUME NEW u \in Users, NEW c \in Clients,
             \/ Get(u, c) \/ EnsureReady(u, c) \/ LaunchFails(u, c) \/ Initialize(u, c)
             \/ Panics(u, c) \/ KeepSession(u, c) \/ AskSession(u, c) \/ NotOpened(u, c)
      PROVE  Effects
  <2>1. UNCHANGED <<client, procVars, crossed>>
    BY <1>7 DEF Get, EnsureReady, LaunchFails, Initialize, Panics, KeepSession, AskSession,
                NotOpened
  <2> QED
    BY <2>1, Quiet
<1>8. ASSUME NEW u \in Users, NEW c \in Clients,
             Starts(u, c) \/ OpenSession(u, c) \/ Close(u, c) \/ CloseNext(u, c)
      PROVE  Effects
  <2>1. UNCHANGED <<client, procVars>> /\ (Crosses(c, Shutting(c)) \/ Crosses(c, Readying(c)))
    BY <1>8 DEF Starts, OpenSession, Close, CloseNext, Snapshot
  <2>2. Shutting(c) \in BOOLEAN /\ Readying(c) \in BOOLEAN
    BY DEF Shutting, Readying
  <2> QED
    BY <2>1, <2>2, Quiet
<1>9. ASSUME NEW u \in Users, CloseAll(u) \/ AllClosed(u) PROVE Effects
  <2>1. UNCHANGED <<client, procVars, crossed>>
    BY <1>9 DEF CloseAll, AllClosed
  <2> QED
    BY <2>1, Quiet
<1>10. ASSUME NEW p \in Procs, AgentExits(p) PROVE Effects
  BY <1>1, <1>10 DEF AgentExits, Effects
<1> QED
  BY <1>2, <1>3, <1>4, <1>5, <1>6, <1>7, <1>8, <1>9, <1>10 DEF LifeNext, UserStep

\* A step that leaves the fields alone that LifeInv is about.
LEMMA LifeKept ==
  ASSUME LifeInv, UNCHANGED <<style, known, lock, user, procVars, crossed, due>>,
         panicked' \in BOOLEAN, client' \in [Clients -> Fields(starts)],
         \A d \in Clients : /\ client'[d].running = client[d].running
                            /\ client'[d].proc = client[d].proc
                            /\ client'[d].session = client[d].session
  PROVE  LifeInv'
<1>1. LifeTypeOK'
  BY DEF LifeInv, LifeTypeOK, procVars
<1> QED
  BY <1>1, Unnoticed DEF procVars, On

-----------------------------------------------------------------------------
\* The inductive invariant.

Reads == {"read", "handle", "ask", "pick"}
Readers(n) == [pc : {"check", "fetch", "read", "handle", "ask", "pick", "ended"}, from : 0..n,
               asks : SUBSET setting.requests, word : {"nobody", "user"}]
Answers(n) ==
  [of : 1..n, to : 0..n, request : setting.requests, option : 0..MaxOptions,
   word : {"nobody", "policy", "user", "handler"}, standing : Decisions, done : BOOLEAN, late : BOOLEAN]

\* What is known of a session came from a process of the client.
ToldIsHome == \A c \in Clients : client[c].told # 0 => home[client[c].told] = {c}

\* What reader p is about: a process of the same client (or the program is dead), one
\* request, and no file that the policy keeps from the agent.
Allowed(request) == request.kind = "file" /\ policy.set => AllowedPath(policy, request.inside)
Fits(p, r) ==
  /\ r \in Readers(starts)
  /\ r.pc \in Reads => /\ p \in 1..starts
                       /\ panicked \/ (r.from \in 1..starts /\ home[r.from] = home[p])
  /\ r.pc \in {"handle", "ask", "pick"} => \E request \in setting.requests : r.asks = {request}
  /\ r.pc \in {"ask", "pick"} => \A request \in r.asks : Allowed(request)

\* ActsByConsent and AnswersTheAsker, of one answer.
Chosen(a) ==
  a.option # 0 /\ a.word # "handler" =>
    LET options == a.request.options
        chosen  == options[a.option]
    IN  /\ a.word # "nobody" => Allows(chosen)
        /\ a.word = "nobody" /\ Allows(chosen) =>
             chosen.kind = "" /\ \A n \in DOMAIN options : ~Rejects(options[n])
        /\ NotForGood(a)
Sound(a) ==
  /\ a \in Answers(starts)
  /\ a.to = a.of \/ a.late \/ home[a.of] \subseteq crossed
  /\ a.done => a.word # "nobody" /\ (policy.set => AllowedPath(policy, a.request.inside))
  /\ Chosen(a)

AskInv ==
  /\ LifeInv /\ ToldIsHome
  /\ setting \in Settings /\ policy \in Policies /\ changes \in 0..1
  /\ asked \subseteq 1..starts /\ inbox \in [Procs -> SUBSET setting.requests]
  /\ reader \in [Procs -> Readers(starts)] /\ \A p \in Procs : Fits(p, reader[p])
  /\ \A a \in answers : Sound(a)

\* A step that takes nothing back.
Frame ==
  /\ starts \in Nat /\ starts' \in Nat /\ starts <= starts'
  /\ \A p \in 1..starts : home'[p] = home[p]
  /\ crossed \subseteq crossed' /\ (panicked => panicked')
  /\ setting' = setting /\ policy' \in Policies
  /\ policy'.set = policy.set /\ policy'.limited = policy.limited

\* What is true of a reader's record and of an answer remains so.
LEMMA FitsKept ==
  ASSUME Frame, NEW p \in Procs, NEW r, Fits(p, r)
  PROVE  Fits(p, r)'
<1>1. r \in Readers(starts)'
  BY DEF Frame, Fits, Readers
<1>2. \A request : Allowed(request) => Allowed(request)'
  BY DEF Frame, Allowed, AllowedPath
<1> QED
  BY <1>1, <1>2 DEF Frame, Fits

LEMMA SoundKept ==
  ASSUME Frame, NEW a, Sound(a)
  PROVE  Sound(a)'
<1>1. a \in Answers(starts)' /\ a.of \in 1..starts
  BY DEF Frame, Sound, Answers
<1>2. policy'.set => AllowedPath(policy', a.request.inside) \/ ~AllowedPath(policy, a.request.inside)
  BY DEF Frame, AllowedPath
<1>3. Chosen(a)'
  BY DEF Sound, Chosen, NotForGood, Allows, Rejects
<1> QED
  BY <1>1, <1>2, <1>3 DEF Frame, Sound

LEMMA AskTyped ==
  ASSUME AskInv
  PROVE  /\ setting.policy \in Policies /\ setting.handler \in Handlers
         /\ setting.requests \subseteq Requests
         /\ \A request \in setting.requests :
              /\ Len(request.options) <= MaxOptions /\ request.options \in Seq([kind : STRING, id : STRING])
              /\ request.tool \in Tools
              /\ DOMAIN request.options = 1..Len(request.options) /\ Len(request.options) \in Nat
              /\ \A n \in DOMAIN request.options : Sincere(request.options[n])
         /\ \A p \in Procs : reader[p] \in Readers(starts)
<1>1. setting \in Settings
  BY DEF AskInv
<1>2. setting.requests \subseteq Requests
  BY <1>1, SettingsAssumption
<1> QED
  BY <1>1, <1>2, SettingsAssumption DEF AskInv, Requests

\* A step of ClientManager.
LEMMA LifeKeeps ==
  ASSUME AskInv, LifeNext, UNCHANGED askVars
  PROVE  AskInv'
<1>1. LifeInv' /\ Effects
  BY LifeInvStep, LifeEffects DEF AskInv
<1>2. Frame
  BY <1>1 DEF AskInv, askVars, Effects, Frame, LifeNext
<1>3. ToldIsHome'
  <2>1. \A c \in Clients : client[c].told \in 0..starts
    BY Typed DEF AskInv, Fields
  <2> QED
    BY <1>1, <2>1 DEF AskInv, ToldIsHome, Effects
<1>4. \A p \in Procs : Fits(p, reader[p])'
  BY <1>2, FitsKept DEF AskInv, askVars
<1>5. \A a \in answers : Sound(a)'
  BY <1>2, SoundKept DEF AskInv
<1>6. reader' \in [Procs -> Readers(starts)'] /\ asked' \subseteq 1..starts'
  BY <1>1, <1>4 DEF AskInv, Fits, askVars, Effects
<1> QED
  BY <1>1, <1>3, <1>4, <1>5, <1>6 DEF AskInv, askVars

\* A step of one reader.
LEMMA ReaderKeeps ==
  ASSUME AskInv, Frame, LifeInv', ToldIsHome', starts' = starts, home' = home,
         changes' \in 0..1, asked' \subseteq 1..starts, inbox' \in [Procs -> SUBSET setting.requests],
         NEW p \in Procs, NEW r, Fits(p, r)', reader' = [reader EXCEPT ![p] = r],
         \A a \in answers' \ answers : Sound(a)'
  PROVE  AskInv'
<1>1. r \in Readers(starts)' /\ Readers(starts)' = Readers(starts)
  BY DEF Fits, Frame, Readers
<1>2. reader' \in [Procs -> Readers(starts)']
  BY <1>1 DEF AskInv
<1>3. \A q \in Procs : Fits(q, reader[q])'
  <2> SUFFICES ASSUME NEW q \in Procs PROVE Fits(q, reader[q])'
    OBVIOUS
  <2>1. CASE q = p
    <3>1. reader'[q] = r
      BY <2>1 DEF AskInv
    <3> QED
      BY <2>1, <3>1 DEF Fits
  <2>2. CASE q # p
    <3>1. reader'[q] = reader[q] /\ Fits(q, reader[q])
      BY <2>2 DEF AskInv
    <3> QED
      BY <3>1, FitsKept
  <2> QED
    BY <2>1, <2>2
<1>4. \A a \in answers' : Sound(a)'
  BY SoundKept DEF AskInv
<1> QED
  BY <1>2, <1>3, <1>4 DEF AskInv, Frame

-----------------------------------------------------------------------------
\* The steps of the readers.

\* A step that does nothing to clients and processes.
LEMMA Still ==
  ASSUME AskInv, UNCHANGED lifeVars, setting' = setting, policy' \in Policies,
         policy'.set = policy.set, policy'.limited = policy.limited
  PROVE  /\ Frame /\ LifeInv' /\ ToldIsHome' /\ starts' = starts /\ home' = home
<1>1. starts \in Nat
  BY Typed DEF AskInv
<1>2. LifeInv'
  <2>1. client' \in [Clients -> Fields(starts)] /\ panicked' \in BOOLEAN
    BY Typed DEF AskInv, lifeVars, procVars, LifeInv, LifeTypeOK
  <2> QED
    BY <2>1, LifeKept DEF AskInv, lifeVars, procVars
<1>3. Frame /\ ToldIsHome'
  BY <1>1 DEF AskInv, lifeVars, procVars, Frame, ToldIsHome
<1> QED
  BY <1>2, <1>3 DEF lifeVars, procVars

LEMMA MovesTo ==
  ASSUME AskInv, NEW p \in Procs, NEW pc \in {"check", "fetch", "read", "handle", "ask", "pick", "ended"},
         Moves(p, pc), NEW r, r = [reader[p] EXCEPT !.pc = pc]
  PROVE  /\ r \in Readers(starts) /\ r.pc = pc /\ r.from = reader[p].from
         /\ r.asks = reader[p].asks /\ r.word = reader[p].word
         /\ reader' = [reader EXCEPT ![p] = r]
<1>1. reader[p] \in Readers(starts)
  BY AskTyped
<1> QED
  BY <1>1 DEF Readers, Moves

LEMMA FreeFits ==
  ASSUME starts \in Nat, NEW p
  PROVE  Fits(p, Free)
BY DEF Free, Fits, Readers, Reads

LEMMA ClientOfIs ==
  ASSUME LifeInv, NEW p \in 1..starts
  PROVE  ClientOf(p) \in Clients /\ home[p] = {ClientOf(p)}
<1>1. \E c \in Clients : home[p] = {c}
  BY DEF LifeInv, LifeTypeOK
<1> QED
  BY <1>1 DEF ClientOf

LEMMA AsksKeeps ==
  ASSUME AskInv, NEW p \in Procs, Asks(p)
  PROVE  AskInv'
<1>1. Frame /\ LifeInv' /\ ToldIsHome' /\ starts' = starts /\ home' = home
  BY Still DEF Asks, AskInv
<1>2. asked' \subseteq 1..starts /\ inbox' \in [Procs -> SUBSET setting.requests]
  <2>1. alive \subseteq 1..starts
    BY Typed DEF AskInv
  <2>2. asked' = asked \cup {p} /\ p \in alive
        /\ \E request \in setting.requests : inbox' = [inbox EXCEPT ![p] = {request}]
    BY DEF Asks
  <2> QED
    BY <2>1, <2>2 DEF AskInv
<1>3. Fits(p, reader[p]) /\ reader' = [reader EXCEPT ![p] = reader[p]]
  BY DEF AskInv, Asks
<1>4. \A r : Fits(p, r) => Fits(p, r)'
  BY <1>1, FitsKept
<1>5. changes' \in 0..1 /\ answers' = answers
  BY DEF AskInv, Asks
<1>6. PICK r : r = reader[p]
  OBVIOUS
<1>7. Fits(p, r)' /\ reader' = [reader EXCEPT ![p] = r]
  BY <1>3, <1>4, <1>6
<1> QED
  BY <1>1, <1>2, <1>5, <1>7, ReaderKeeps

LEMMA CheckContextKeeps ==
  ASSUME AskInv, NEW p \in Procs, CheckContext(p) \/ ReadEnds(p)
  PROVE  AskInv'
<1>1. Frame /\ LifeInv' /\ ToldIsHome' /\ starts' = starts /\ home' = home
  BY Still DEF CheckContext, ReadEnds, AskInv
<1>2. PICK pc \in {"ended", "fetch"} : Moves(p, pc)
  BY DEF CheckContext, ReadEnds
<1>3. PICK r : r = [reader[p] EXCEPT !.pc = pc]
  OBVIOUS
<1>4. r \in Readers(starts) /\ r.pc = pc /\ reader' = [reader EXCEPT ![p] = r]
  BY <1>2, <1>3, MovesTo
<1>5. Fits(p, r)
  BY <1>4 DEF Fits, Reads
<1>6. Fits(p, r)'
  BY <1>1, <1>5, FitsKept
<1>7. /\ changes' \in 0..1 /\ asked' \subseteq 1..starts /\ inbox' \in [Procs -> SUBSET setting.requests]
      /\ answers' = answers
  BY DEF AskInv, CheckContext, ReadEnds
<1> QED
  BY <1>1, <1>4, <1>6, <1>7, ReaderKeeps

LEMMA FetchTransportKeeps ==
  ASSUME AskInv, ~panicked, NEW p \in Procs, FetchTransport(p)
  PROVE  AskInv'
<1> DEFINE c == ClientOf(p)
           now == client[c].proc
<1>1. starts \in Nat /\ p \in 1..starts /\ reader[p] \in Readers(starts)
  BY Typed, AskTyped DEF FetchTransport, Standing, Procs, AskInv
<1>2. c \in Clients /\ home[p] = {c}
  BY <1>1, ClientOfIs DEF AskInv
<1>3. now \in 0..starts /\ (now # 0 => home[now] = home[p])
  BY <1>2, Typed DEF AskInv, LifeInv, ProcIsHome
<1>4. LifeInv' /\ starts' = starts /\ home' = home /\ client' = client
  <2>1. client' \in [Clients -> Fields(starts)] /\ panicked' \in BOOLEAN
    BY Typed DEF AskInv, FetchTransport
  <2> QED
    BY <2>1, LifeKept DEF AskInv, FetchTransport, procVars
<1>5. Frame /\ ToldIsHome'
  BY <1>1, <1>4 DEF AskInv, FetchTransport, Frame, ToldIsHome
<1>6. PICK r : r = [reader[p] EXCEPT !.pc = "read", !.from = now]
  OBVIOUS
<1>7. /\ r \in Readers(starts) /\ r.pc = "read" /\ r.from = now
      /\ reader' = [reader EXCEPT ![p] = r] /\ panicked' = (now = 0)
  BY <1>1, <1>3, <1>6 DEF Readers, FetchTransport
<1> HIDE DEF now
<1>8. Fits(p, r)'
  <2>1. r \in Readers(starts)'
    BY <1>4, <1>7 DEF Readers, FetchTransport
  <2>2. now = 0 \/ now \in 1..starts
    BY <1>1, <1>3
  <2> QED
    BY <1>1, <1>3, <1>4, <1>7, <2>1, <2>2 DEF Fits
<1>9. /\ changes' \in 0..1 /\ asked' \subseteq 1..starts /\ inbox' \in [Procs -> SUBSET setting.requests]
      /\ answers' = answers
  BY DEF AskInv, FetchTransport
<1> QED
  BY <1>4, <1>5, <1>7, <1>8, <1>9, ReaderKeeps

LEMMA ReadMessageKeeps ==
  ASSUME AskInv, ~panicked, NEW p \in Procs, ReadMessage(p)
  PROVE  AskInv'
<1> DEFINE q == reader[p].from
<1>1. Frame /\ LifeInv' /\ ToldIsHome' /\ starts' = starts /\ home' = home
  BY Still DEF ReadMessage, AskInv
<1>2. Fits(p, reader[p]) /\ reader[p].pc = "read" /\ reader[p] \in Readers(starts)
  BY AskTyped DEF AskInv, ReadMessage, Standing
<1>3. q \in 1..starts /\ home[q] = home[p] /\ p \in 1..starts /\ q \in Procs
  <2>1. starts \in Nat /\ starts <= MaxProcs
    BY Typed DEF AskInv
  <2>2. q \in 1..starts /\ home[q] = home[p] /\ p \in 1..starts
    BY <1>2 DEF Fits, Reads
  <2> QED
    BY <2>1, <2>2, ClientsAssumption DEF Procs
<1>4. PICK request \in inbox[q] :
        reader' = [reader EXCEPT ![p].pc = "handle", ![p].asks = {request}]
  BY DEF ReadMessage
<1>5. request \in setting.requests
  BY <1>3 DEF AskInv
<1>6. PICK r : r = [reader[p] EXCEPT !.pc = "handle", !.asks = {request}]
  OBVIOUS
<1>7. /\ r \in Readers(starts) /\ r.pc = "handle" /\ r.from = q /\ r.asks = {request}
      /\ reader' = [reader EXCEPT ![p] = r]
  BY <1>2, <1>4, <1>5, <1>6 DEF Readers, AskInv
<1> HIDE DEF q
<1>8. Fits(p, r)
  BY <1>3, <1>5, <1>7 DEF Fits
<1>9. Fits(p, r)'
  BY <1>1, <1>8, FitsKept
<1>10. /\ changes' \in 0..1 /\ asked' \subseteq 1..starts /\ inbox' \in [Procs -> SUBSET setting.requests]
       /\ answers' = answers
  BY DEF AskInv, ReadMessage
<1> QED
  BY <1>1, <1>7, <1>9, <1>10, ReaderKeeps

-----------------------------------------------------------------------------
\* Answers.

LEMMA DecisionTyped ==
  ASSUME AskInv, NEW tool \in Tools
  PROVE  PolicyDecision(policy, tool) \in Decisions
<1>1. policy.over \in [Tools -> Decisions \cup {"unset"}] /\ policy.set \in BOOLEAN
  BY DEF AskInv, Policies
<1>2. policy.over[tool] \in Decisions \cup {"unset"}
  BY <1>1
<1> QED
  BY <1>1, <1>2 DEF PolicyDecision, Check, Decisions

\* A file is touched only where the policy lets it.
LEMMA FileIsAllowed ==
  ASSUME NEW request, FileDecision(policy, request.tool, request.inside) # "deny"
  PROVE  policy.set => AllowedPath(policy, request.inside)
BY DEF FileDecision

\* Option n is what Select made of a decision.
LEMMA SelectedIsChosen ==
  ASSUME AskInv, NEW request \in setting.requests, NEW decision \in {"allow", "deny"},
         NEW persistent \in BOOLEAN, NEW n, n = Select(request.options, decision, persistent),
         NEW a, a.request = request, a.option = n,
         a.word \in {"nobody", "policy", "user"}, a.word # "nobody" <=> decision = "allow",
         persistent => a.standing = decision
  PROVE  n \in 0..MaxOptions /\ Chosen(a)
<1> DEFINE options == request.options
<1>1. /\ DOMAIN options = 1..Len(options) /\ Len(options) \in Nat /\ Len(options) <= MaxOptions
      /\ \A o \in DOMAIN options : Sincere(options[o])
  BY AskTyped
<1>2. DOMAIN options \in SUBSET (Nat \ {0})
  BY <1>1
<1>3. CASE n = 0
  BY <1>3, MaxOptionsAssumption DEF Chosen
<1>4. CASE n # 0 /\ decision = "allow"
  <2>1. /\ n \in DOMAIN options /\ Allows(options[n])
        /\ options[n].kind = "allow_always" /\ (\E o \in DOMAIN options : options[o].kind = "allow_once")
             => persistent
    BY <1>1, <1>2, <1>4, SelectAllows
  <2>2. options[n].kind # "reject_always"
    BY <2>1 DEF Allows, AllowKinds
  <2>3. NotForGood(a)
    BY <1>4, <2>1, <2>2 DEF NotForGood
  <2>4. n \in 0..MaxOptions
    BY <1>1, <2>1, MaxOptionsAssumption
  <2> QED
    BY <1>4, <2>1, <2>3, <2>4 DEF Chosen
<1>5. CASE n # 0 /\ decision = "deny"
  <2>1. /\ n \in DOMAIN options /\ options[n].kind # "allow_always"
        /\ Allows(options[n]) =>
             options[n].kind = "" /\ \A o \in DOMAIN options : ~Rejects(options[o])
        /\ /\ options[n].kind = "reject_always"
           /\ \E o \in DOMAIN options : options[o].kind \in {"reject_once", "deny_once"}
           => persistent
    BY <1>1, <1>2, <1>5, SelectDenies
  <2>2. NotForGood(a)
    BY <1>5, <2>1 DEF NotForGood
  <2>3. n \in 0..MaxOptions
    <3>1. n \in DOMAIN options
      BY <2>1
    <3> HIDE <2>1
    <3> QED
      BY <1>1, <3>1, MaxOptionsAssumption
  <2> QED
    BY <1>5, <2>1, <2>2, <2>3 DEF Chosen
<1> QED
  BY <1>3, <1>4, <1>5

\* What Answer adds to answers; it is sound if it was consented to.
Reply(p, request, option, word, done) ==
  [of |-> reader[p].from, to |-> client[ClientOf(p)].proc, request |-> request, option |-> option,
   word |-> word, standing |-> PolicyDecision(policy, request.tool), done |-> done,
   late |-> reader[p].from \in stopped]

LEMMA AnswerKeeps ==
  ASSUME AskInv, ~panicked, NEW p \in Procs, reader[p].pc \in Reads,
         NEW request \in setting.requests, NEW option \in 0..MaxOptions,
         NEW word \in {"nobody", "policy", "user", "handler"}, NEW done \in BOOLEAN,
         done => word # "nobody" /\ (policy.set => AllowedPath(policy, request.inside)),
         \A a : a = Reply(p, request, option, word, done) => Chosen(a),
         Answer(p, request, option, word, done),
         UNCHANGED <<style, known, lock, user, procVars, panicked, crossed, due, setting, asked, inbox>>
  PROVE  AskInv'
<1> DEFINE c == ClientOf(p)
           q == reader[p].from
<1>1. UNCHANGED lifeVars /\ UNCHANGED <<setting, policy, changes, asked, inbox>>
  BY DEF Answer, lifeVars
<1>2. Frame /\ LifeInv' /\ ToldIsHome' /\ starts' = starts /\ home' = home
  BY <1>1, Still DEF AskInv
<1>3. PICK a : a = Reply(p, request, option, word, done)
  OBVIOUS
<1>4. answers' = answers \cup {a} /\ reader' = [reader EXCEPT ![p] = Free]
  BY <1>3 DEF Answer, Reply
<1>5. q \in 1..starts /\ home[q] = home[p] /\ p \in 1..starts
  BY DEF AskInv, Fits
<1>6. c \in Clients /\ home[q] = {c} /\ client[c].proc \in 0..starts /\ stopped \subseteq 1..starts
  BY <1>5, ClientOfIs, Typed DEF AskInv
<1>7. a \in Answers(starts)
  <2>1. PolicyDecision(policy, request.tool) \in Decisions
    BY AskTyped, DecisionTyped
  <2> QED
    BY <1>3, <1>5, <1>6, <2>1 DEF Reply, Answers
<1>8. a.to = client[c].proc /\ a.of = q /\ a.late = (q \in stopped) /\ a.done = done /\ a.word = word
      /\ a.request = request
  BY <1>3 DEF Reply
<1>9. a.to = a.of \/ a.late \/ home[a.of] \subseteq crossed
  <2>1. CASE c \in crossed
    BY <1>6, <1>8, <2>1
  <2>2. CASE c \notin crossed
    <3>1. ProcIsKnown(c)
      BY <1>6, <2>2 DEF AskInv, LifeInv, Whole
    <3> QED
      BY <1>5, <1>6, <1>8, <3>1 DEF ProcIsKnown
  <2> QED
    BY <2>1, <2>2
<1>10. Sound(a)
  BY <1>3, <1>7, <1>8, <1>9 DEF Sound
<1>11. Sound(a)'
  BY <1>2, <1>10, SoundKept
<1>12. Fits(p, Free)'
  BY <1>2, FreeFits, FitsKept, Typed DEF AskInv
<1>13. changes' \in 0..1 /\ asked' \subseteq 1..starts /\ inbox' \in [Procs -> SUBSET setting.requests]
  BY <1>1 DEF AskInv
<1>14. \A b \in answers' \ answers : Sound(b)'
  BY <1>4, <1>11
<1> QED
  BY <1>2, <1>4, <1>12, <1>13, <1>14, ReaderKeeps

\* A reader that handles a request has one, from a process of its client.
LEMMA HandlesOne ==
  ASSUME AskInv, ~panicked, NEW p \in Procs, reader[p].pc \in {"handle", "ask", "pick"},
         NEW request \in reader[p].asks
  PROVE  /\ reader[p].asks = {request} /\ request \in setting.requests /\ request.tool \in Tools
         /\ reader[p].pc \in Reads /\ reader[p] \in Readers(starts)
         /\ reader[p].from \in 1..starts /\ home[reader[p].from] = home[p] /\ p \in 1..starts
         /\ reader[p].pc \in {"ask", "pick"} => Allowed(request)
<1>1. Fits(p, reader[p]) /\ reader[p].pc \in Reads
  BY DEF AskInv, Reads
<1>2. reader[p].asks = {request} /\ request \in setting.requests
  BY <1>1 DEF Fits
<1> QED
  BY <1>1, <1>2, AskTyped DEF Fits

LEMMA HandleNoticeKeeps ==
  ASSUME AskInv, ~panicked, NEW p \in Procs, reader[p].pc = "handle", NEW request \in reader[p].asks,
         HandleNotice(p),
         UNCHANGED <<style, known, lock, user, procVars, panicked, crossed, due, setting, asked, inbox>>
  PROVE  AskInv'
<1> DEFINE c == ClientOf(p)
           q == reader[p].from
<1>1. q \in 1..starts /\ home[q] = home[p] /\ p \in 1..starts
  BY HandlesOne
<1>2. c \in Clients /\ home[q] = {c}
  BY <1>1, ClientOfIs DEF AskInv
<1>3. client \in [Clients -> Fields(starts)] /\ starts \in Nat
  BY Typed DEF AskInv
<1>4. client' = client \/ client' = [client EXCEPT ![c].told = q]
  BY DEF HandleNotice
<1> HIDE DEF c, q
<1>5. /\ client' \in [Clients -> Fields(starts)]
      /\ \A d \in Clients : /\ client'[d].running = client[d].running
                            /\ client'[d].proc = client[d].proc
                            /\ client'[d].session = client[d].session
                            /\ client'[d].told = client[d].told \/ (d = c /\ client'[d].told = q)
  <2>1. CASE client' = client
    BY <1>3, <2>1
  <2>2. CASE client' = [client EXCEPT ![c].told = q]
    <3>1. client[c] \in Fields(starts) /\ q \in 0..starts
      BY <1>1, <1>2, <1>3
    <3>2. PICK f : f = [client[c] EXCEPT !.told = q]
      OBVIOUS
    <3>3. /\ f \in Fields(starts) /\ f.running = client[c].running /\ f.proc = client[c].proc
          /\ f.session = client[c].session /\ f.told = q
      BY <3>1, <3>2 DEF Fields
    <3>4. client' = [client EXCEPT ![c] = f]
      BY <2>2, <3>2
    <3> QED
      BY <1>2, <1>3, <3>3, <3>4
  <2> QED
    BY <1>4, <2>1, <2>2
<1>6. LifeInv'
  <2>1. panicked' \in BOOLEAN
    BY DEF AskInv, LifeInv, LifeTypeOK
  <2> QED
    BY <1>5, <2>1, LifeKept DEF AskInv
<1>7. ToldIsHome'
  BY <1>2, <1>5 DEF AskInv, ToldIsHome, procVars
<1>8. Frame
  BY <1>3 DEF HandleNotice, AskInv, Frame, procVars
<1>9. Fits(p, Free)'
  BY <1>3, <1>8, FreeFits, FitsKept
<1>10. /\ changes' \in 0..1 /\ asked' \subseteq 1..starts /\ inbox' \in [Procs -> SUBSET setting.requests]
       /\ answers' = answers /\ reader' = [reader EXCEPT ![p] = Free]
       /\ starts' = starts /\ home' = home
  BY DEF HandleNotice, AskInv, procVars
<1> QED
  BY <1>6, <1>7, <1>8, <1>9, <1>10, ReaderKeeps

LEMMA AskUserKeeps ==
  ASSUME AskInv, ~panicked, NEW p \in Procs, reader[p].pc = "handle", NEW request \in reader[p].asks,
         Allowed(request), AskUser(p),
         UNCHANGED <<style, known, lock, user, procVars, panicked, crossed, due, setting, asked, inbox>>
  PROVE  AskInv'
<1>1. UNCHANGED lifeVars /\ UNCHANGED <<setting, policy, changes, answers>> /\ Moves(p, "ask")
  BY DEF AskUser, lifeVars
<1>2. Frame /\ LifeInv' /\ ToldIsHome' /\ starts' = starts /\ home' = home
  BY <1>1, Still DEF AskInv
<1>3. PICK r : r = [reader[p] EXCEPT !.pc = "ask"]
  OBVIOUS
<1>4. /\ r \in Readers(starts) /\ r.pc = "ask" /\ r.from = reader[p].from
      /\ r.asks = reader[p].asks /\ reader' = [reader EXCEPT ![p] = r]
  BY <1>1, <1>3, MovesTo
<1>5. Fits(p, r)
  <2>1. reader[p].asks = {request} /\ request \in setting.requests
        /\ reader[p].from \in 1..starts /\ home[reader[p].from] = home[p] /\ p \in 1..starts
    BY HandlesOne
  <2> QED
    BY <1>4, <2>1 DEF Fits
<1>6. Fits(p, r)'
  BY <1>2, <1>5, FitsKept
<1>7. changes' \in 0..1 /\ asked' \subseteq 1..starts /\ inbox' \in [Procs -> SUBSET setting.requests]
  BY <1>1 DEF AskInv
<1> QED
  BY <1>1, <1>2, <1>4, <1>6, <1>7, ReaderKeeps

\* Without an option there is nothing to choose.
LEMMA NoneIsChosen ==
  ASSUME NEW p, NEW request, NEW word, NEW done
  PROVE  \A a : a = Reply(p, request, 0, word, done) => Chosen(a)
<1> SUFFICES ASSUME NEW a, a = Reply(p, request, 0, word, done) PROVE Chosen(a)
  OBVIOUS
<1>1. a.option = 0
  BY DEF Reply
<1> QED
  BY <1>1 DEF Chosen

LEMMA HandleKeeps ==
  ASSUME AskInv, ~panicked, NEW p \in Procs, Handle(p)
  PROVE  AskInv'
<1>1. PICK request \in reader[p].asks :
        \/ HandleNotice(p)
        \/ request.kind = "file" /\ HandleFile(p, request)
        \/ request.kind = "permission" /\ HandlePermission(p, request)
        \/ Answer(p, request, 0, "nobody", FALSE)
  BY DEF Handle
<1>2. /\ UNCHANGED <<style, known, lock, user, procVars, panicked, crossed, due, setting, asked, inbox>>
      /\ reader[p].pc = "handle"
  BY DEF Handle, Standing
<1>3. reader[p].pc \in Reads /\ request \in setting.requests /\ request.tool \in Tools
  BY <1>2, HandlesOne
<1>4. 0 \in 0..MaxOptions
  BY MaxOptionsAssumption
<1>5. CASE HandleNotice(p)
  BY <1>2, <1>5, HandleNoticeKeeps
<1>6. ASSUME Answer(p, request, 0, "nobody", FALSE) PROVE AskInv'
  BY <1>2, <1>3, <1>4, <1>6, NoneIsChosen, AnswerKeeps
<1>7. ASSUME AskUser(p), Allowed(request) PROVE AskInv'
  BY <1>2, <1>7, AskUserKeeps
<1>8. CASE request.kind = "file" /\ HandleFile(p, request)
  <2> DEFINE decision == FileDecision(policy, request.tool, request.inside)
  <2>1. CASE decision = "allow"
    <3>1. Answer(p, request, 0, "policy", TRUE)
      BY <1>8, <2>1 DEF HandleFile
    <3>2. policy.set => AllowedPath(policy, request.inside)
      BY <2>1, FileIsAllowed
    <3> QED
      BY <1>2, <1>3, <1>4, <3>1, <3>2, NoneIsChosen, AnswerKeeps
  <2>2. CASE decision = "ask" /\ setting.handler = "approval"
    <3>1. AskUser(p)
      BY <1>8, <2>2 DEF HandleFile
    <3>2. Allowed(request)
      BY <2>2, FileIsAllowed DEF Allowed
    <3> QED
      BY <1>7, <3>1, <3>2
  <2>3. CASE decision # "allow" /\ ~(decision = "ask" /\ setting.handler = "approval")
    <3>1. Answer(p, request, 0, "nobody", FALSE)
      BY <1>8, <2>3 DEF HandleFile
    <3> QED
      BY <1>6, <3>1
  <2> QED
    BY <2>1, <2>2, <2>3
<1>9. CASE request.kind = "permission" /\ HandlePermission(p, request)
  <2> DEFINE decision == PolicyDecision(policy, request.tool)
             word == IF decision = "allow" THEN "policy" ELSE "nobody"
  <2>1. CASE setting.handler # "permission" /\ decision # "ask"
    <3>1. Answer(p, request, Select(request.options, decision, TRUE), word, FALSE)
      BY <1>9, <2>1 DEF HandlePermission
    <3>2. decision \in {"allow", "deny"}
      BY <1>3, <2>1, DecisionTyped DEF Decisions
    <3>3. word \in {"nobody", "policy"} /\ (word # "nobody" <=> decision = "allow")
      OBVIOUS
    <3>4. PICK n : n = Select(request.options, decision, TRUE)
      OBVIOUS
    <3>5. ASSUME NEW a, a = Reply(p, request, n, word, FALSE)
          PROVE  n \in 0..MaxOptions /\ Chosen(a)
      <4>1. a.request = request /\ a.option = n /\ a.word = word /\ a.standing = decision
        BY <3>5 DEF Reply
      <4> HIDE DEF word, decision
      <4> QED
        BY <1>3, <3>2, <3>3, <3>4, <4>1, SelectedIsChosen
    <3>6. n \in 0..MaxOptions
      BY <3>5
    <3> HIDE DEF word, decision
    <3>7. Answer(p, request, n, word, FALSE) /\ word \in {"nobody", "policy", "user", "handler"}
      BY <3>1, <3>3, <3>4
    <3> QED
      BY <1>2, <1>3, <3>5, <3>6, <3>7, AnswerKeeps
  <2>2. CASE setting.handler = "permission" \/ decision = "ask"
    <3>1. AskUser(p) \/ Answer(p, request, 0, "nobody", FALSE)
      BY <1>9, <2>2 DEF HandlePermission
    <3>2. Allowed(request)
      BY <1>9 DEF Allowed
    <3> QED
      BY <1>6, <1>7, <3>1, <3>2
  <2> QED
    BY <2>1, <2>2
<1> QED
  BY <1>1, <1>5, <1>6, <1>8, <1>9

-----------------------------------------------------------------------------
\* What users and other handlers decide.

LEMMA OverrideKept ==
  ASSUME AskInv, NEW tool \in Tools, NEW decision \in {"allow", "deny"}, SetOverride(tool, decision)
  PROVE  /\ policy' \in Policies /\ policy'.set = policy.set /\ policy'.limited = policy.limited
         /\ changes' \in 0..1
<1>1. policy \in Policies /\ policy' = [policy EXCEPT !.over[tool] = decision] /\ changes' = 1
  BY DEF AskInv, SetOverride
<1>2. policy.over \in [Tools -> Decisions \cup {"unset"}]
  BY <1>1 DEF Policies
<1>3. [policy.over EXCEPT ![tool] = decision] \in [Tools -> Decisions \cup {"unset"}]
  BY <1>2 DEF Decisions
<1>4. policy' = [policy EXCEPT !.over = [policy.over EXCEPT ![tool] = decision]]
  BY <1>1
<1> QED
  BY <1>1, <1>3, <1>4 DEF Policies

LEMMA ChangePolicyKeeps ==
  ASSUME AskInv, ChangePolicy
  PROVE  AskInv'
<1>1. /\ policy' \in Policies /\ policy'.set = policy.set /\ policy'.limited = policy.limited
      /\ changes' \in 0..1
  BY OverrideKept DEF ChangePolicy
<1>2. UNCHANGED <<lifeVars, setting, asked, inbox, reader, answers>>
  BY DEF ChangePolicy
<1>3. Frame /\ LifeInv' /\ ToldIsHome' /\ starts' = starts /\ home' = home
  BY <1>1, <1>2, Still
<1>4. (\A p \in Procs : Fits(p, reader[p]))'
  BY <1>2, <1>3, FitsKept DEF AskInv
<1>5. (\A a \in answers : Sound(a))'
  BY <1>2, <1>3, SoundKept DEF AskInv
<1>6. (reader \in [Procs -> Readers(starts)])'
  BY <1>2, <1>3 DEF AskInv, Readers
<1> QED
  BY <1>1, <1>2, <1>3, <1>4, <1>5, <1>6 DEF AskInv

LEMMA DecideKeeps ==
  ASSUME AskInv, ~panicked, NEW p \in Procs, Decide(p)
  PROVE  AskInv'
<1>1. PICK decision \in {"allow", "deny"}, request \in reader[p].asks :
        /\ reader' = [reader EXCEPT ![p].pc = "pick", ![p].word = IF decision = "allow" THEN "user" ELSE @]
        /\ SetOverride(request.tool, decision) \/ UNCHANGED <<policy, changes>>
  BY DEF Decide
<1>2. reader[p].pc = "ask" /\ UNCHANGED <<lifeVars, setting, asked, inbox, answers>>
  BY DEF Decide, Standing
<1>3. /\ reader[p].asks = {request} /\ request \in setting.requests /\ request.tool \in Tools
      /\ reader[p] \in Readers(starts) /\ Allowed(request)
      /\ reader[p].from \in 1..starts /\ home[reader[p].from] = home[p] /\ p \in 1..starts
  BY <1>2, HandlesOne
<1>4. /\ policy' \in Policies /\ policy'.set = policy.set /\ policy'.limited = policy.limited
      /\ changes' \in 0..1
  BY <1>1, <1>3, OverrideKept DEF AskInv
<1>5. Frame /\ LifeInv' /\ ToldIsHome' /\ starts' = starts /\ home' = home
  BY <1>2, <1>4, Still
<1>6. PICK word : word = IF decision = "allow" THEN "user" ELSE reader[p].word
  OBVIOUS
<1>7. PICK r : r = [reader[p] EXCEPT !.pc = "pick", !.word = word]
  OBVIOUS
<1>8. word \in {"nobody", "user"}
  BY <1>3, <1>6 DEF Readers
<1>9. /\ r \in Readers(starts) /\ r.pc = "pick" /\ r.from = reader[p].from
      /\ r.asks = reader[p].asks
  BY <1>3, <1>7, <1>8 DEF Readers
<1>10. reader' = [reader EXCEPT ![p] = r]
  BY <1>1, <1>6, <1>7
<1>11. Fits(p, r)
  BY <1>3, <1>9 DEF Fits
<1>12. Fits(p, r)'
  BY <1>5, <1>11, FitsKept
<1>13. asked' \subseteq 1..starts /\ inbox' \in [Procs -> SUBSET setting.requests]
  BY <1>2 DEF AskInv
<1> QED
  BY <1>2, <1>4, <1>5, <1>10, <1>12, <1>13, ReaderKeeps

LEMMA PickKeeps ==
  ASSUME AskInv, ~panicked, NEW p \in Procs, Pick(p)
  PROVE  AskInv'
<1> DEFINE word == reader[p].word
           decision == IF word = "user" THEN "allow" ELSE "deny"
           Persistent(request) == PolicyDecision(policy, request.tool) = decision
<1>1. PICK request \in reader[p].asks :
        \/ request.kind = "file" /\ Answer(p, request, 0, word, decision = "allow")
        \/ request.kind # "file" /\ Answer(p, request, Select(request.options, decision, Persistent(request)), word, FALSE)
  BY DEF Pick
<1>2. /\ UNCHANGED <<style, known, lock, user, procVars, panicked, crossed, due, setting, asked, inbox>>
      /\ reader[p].pc = "pick"
  BY DEF Pick, Standing, lifeVars
<1>3. /\ reader[p].pc \in Reads /\ request \in setting.requests /\ Allowed(request)
      /\ word \in {"nobody", "user"}
  BY <1>2, HandlesOne DEF Readers
<1>4. /\ decision \in {"allow", "deny"} /\ (word # "nobody" <=> decision = "allow")
      /\ word \in {"nobody", "policy", "user", "handler"} /\ 0 \in 0..MaxOptions
  BY <1>3, MaxOptionsAssumption
<1>5. Persistent(request) \in BOOLEAN /\ (Persistent(request) => PolicyDecision(policy, request.tool) = decision)
  OBVIOUS
<1> HIDE DEF word, decision, Persistent
<1>6. CASE request.kind = "file" /\ Answer(p, request, 0, word, decision = "allow")
  <2>1. PICK done \in BOOLEAN : done = (decision = "allow")
    OBVIOUS
  <2>2. done => word # "nobody" /\ (policy.set => AllowedPath(policy, request.inside))
    BY <1>3, <1>4, <1>6, <2>1 DEF Allowed
  <2>3. Answer(p, request, 0, word, done)
    BY <1>6, <2>1
  <2>4. \A a : a = Reply(p, request, 0, word, done) => Chosen(a)
    BY NoneIsChosen
  <2> QED
    BY <1>2, <1>3, <1>4, <2>2, <2>3, <2>4, AnswerKeeps
<1>7. CASE Answer(p, request, Select(request.options, decision, Persistent(request)), word, FALSE)
  <2>1. PICK n : n = Select(request.options, decision, Persistent(request))
    OBVIOUS
  <2>2. ASSUME NEW a, a = Reply(p, request, n, word, FALSE)
        PROVE  n \in 0..MaxOptions /\ Chosen(a)
    <3>1. a.request = request /\ a.option = n /\ a.word = word
          /\ a.standing = PolicyDecision(policy, request.tool)
      BY <2>2 DEF Reply
    <3> QED
      BY <1>3, <1>4, <1>5, <2>1, <3>1, SelectedIsChosen
  <2>3. n \in 0..MaxOptions
    BY <2>2
  <2>4. Answer(p, request, n, word, FALSE)
    BY <1>7, <2>1
  <2> QED
    BY <1>2, <1>3, <1>4, <2>2, <2>3, <2>4, AnswerKeeps
<1> QED
  BY <1>1, <1>6, <1>7

LEMMA HandlerAnswersKeeps ==
  ASSUME AskInv, ~panicked, NEW p \in Procs, HandlerAnswers(p)
  PROVE  AskInv'
<1>1. PICK request \in reader[p].asks, option \in 0..MaxOptions :
        Answer(p, request, option, "handler", FALSE)
  BY DEF HandlerAnswers
<1>2. /\ UNCHANGED <<style, known, lock, user, procVars, panicked, crossed, due, setting, asked, inbox>>
      /\ reader[p].pc = "ask"
  BY DEF HandlerAnswers, Standing, lifeVars
<1>3. reader[p].pc \in Reads /\ request \in setting.requests
  BY <1>2, HandlesOne
<1>4. ASSUME NEW a, a = Reply(p, request, option, "handler", FALSE) PROVE Chosen(a)
  <2>1. a.word = "handler"
    BY <1>4 DEF Reply
  <2> QED
    BY <2>1 DEF Chosen
<1> QED
  BY <1>1, <1>2, <1>3, <1>4, AnswerKeeps

-----------------------------------------------------------------------------
\* The theorems.

LEMMA AskInvInit ==
  ASSUME Init
  PROVE  AskInv
<1>1. LifeInv
  BY LifeInvInit DEF Init
<1>2. starts = 0 /\ starts \in Nat /\ answers = {} /\ asked = {} /\ changes = 0
      /\ setting \in Settings /\ policy = setting.policy
      /\ inbox = [p \in Procs |-> {}] /\ reader = [p \in Procs |-> Free]
  BY DEF Init, LifeInit
<1>3. policy \in Policies
  BY <1>2, SettingsAssumption
<1>4. \A p : Fits(p, Free)
  BY <1>2, FreeFits
<1>5. reader \in [Procs -> Readers(starts)] /\ \A p \in Procs : Fits(p, reader[p])
  BY <1>2, <1>4 DEF Fits
<1>6. ToldIsHome
  <2>1. \A c \in Clients : client[c] = NewClient
    BY DEF Init, LifeInit
  <2> QED
    BY <2>1 DEF ToldIsHome, NewClient
<1> QED
  BY <1>1, <1>2, <1>3, <1>5, <1>6 DEF AskInv

LEMMA AskInvStep ==
  ASSUME AskInv, [Next]_vars
  PROVE  AskInv'
<1>1. CASE LifeNext /\ UNCHANGED askVars
  BY <1>1, LifeKeeps
<1>2. CASE ~panicked /\ ChangePolicy
  BY <1>2, ChangePolicyKeeps
<1>3. ASSUME ~panicked, NEW p \in Procs, ReaderStep(p) PROVE AskInv'
  BY <1>3, AsksKeeps, CheckContextKeeps, FetchTransportKeeps, ReadMessageKeeps, HandleKeeps,
     DecideKeeps, PickKeeps, HandlerAnswersKeeps DEF ReaderStep
<1>4. CASE UNCHANGED vars
  <2>1. UNCHANGED lifeVars /\ UNCHANGED askVars
    BY <1>4 DEF vars
  <2>2. Frame /\ LifeInv' /\ ToldIsHome'
    BY <2>1, Still DEF AskInv, askVars
  <2>3. (\A p \in Procs : Fits(p, reader[p]))'
    BY <2>1, <2>2, FitsKept DEF AskInv, askVars
  <2>4. (\A a \in answers : Sound(a))'
    BY <2>1, <2>2, SoundKept DEF AskInv, askVars
  <2>5. (reader \in [Procs -> Readers(starts)])' /\ (asked \subseteq 1..starts)'
    BY <2>1 DEF AskInv, Readers, askVars, lifeVars, procVars
  <2> QED
    BY <2>1, <2>2, <2>3, <2>4, <2>5 DEF AskInv, askVars
<1> QED
  BY <1>1, <1>2, <1>3, <1>4 DEF Next

LEMMA AskInvHolds == Spec => []AskInv
<1>1. Init => AskInv
  BY AskInvInit
<1>2. AskInv /\ [Next]_vars => AskInv'
  BY AskInvStep
<1> QED
  BY <1>1, <1>2, PTL DEF Spec

\* Every variable keeps its type, for any clients, goroutines, settings and bounds
\* (client.go, client_manager.go).
THEOREM TypeCorrect == Spec => []TypeOK
<1>1. AskInv => TypeOK
  BY DEF AskInv, LifeInv, TypeOK, Readers, Answers, Sound
<1> QED
  BY <1>1, AskInvHolds, PTL

\* Whatever users decide, however late, and whatever becomes of policy and client
\* meanwhile: the agent gets what was consented to (authorizeFileTool, client.go:2122;
\* selectPermissionOptionID, client.go:2432).  Two limits: the options' kinds and names
\* agree (Sincere, in SettingsAssumption), and a denial that finds no option to reject by
\* takes one without a kind, even one named "allow" (client.go:2460).
THEOREM AgentsActByConsent == Spec => []ActsByConsent
<1>1. AskInv => ActsByConsent
  BY DEF AskInv, ActsByConsent, Sound, Chosen
<1> QED
  BY <1>1, AskInvHolds, PTL

\* A client that is not shut down while it is being made ready has to do with one process,
\* also what it answers and shows, unless a reader outlives the process (readLoop,
\* client.go:1262; writeResponse, client.go:1411).
THEOREM ClientHasOneAgent == Spec => []AgentIsItsOwn
<1>1. AskInv => OwnsItsAgent
  BY OwnsByInv DEF AskInv
<1>2. AskInv => AnswersTheAsker
  BY DEF AskInv, AnswersTheAsker, Sound
<1>3. AskInv => KnowsItsAgent
  <2> SUFFICES ASSUME AskInv, NEW c \in Clients \ crossed, client[c].told # 0
               PROVE  client[c].told = client[c].proc \/ client[c].told \in stopped
    BY DEF KnowsItsAgent
  <2>1. client[c].told \in 0..starts /\ starts \in Nat
    BY Typed DEF AskInv, Fields
  <2>2. ProcIsKnown(c) /\ home[client[c].told] = {c}
    BY DEF AskInv, ToldIsHome, LifeInv, Whole
  <2> QED
    BY <2>1, <2>2 DEF ProcIsKnown
<1> QED
  BY <1>1, <1>2, <1>3, AskInvHolds, PTL DEF AgentIsItsOwn
=============================================================================
