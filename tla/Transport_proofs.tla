-------------------------- MODULE Transport_proofs --------------------------
(***************************************************************************)
(* Proofs about Transport, for any set of calls and answers and any number *)
(* of answers to one request: types, the exactness of the pending table,   *)
(* the read loop that only duplicates can stop, and that Transport         *)
(* implements Rpc.                                                         *)
(***************************************************************************)
EXTENDS Transport, TLAPS

USE MaxAnswersAssumption, OutcomesAssumption

----------------------------------------------------------------------------
\* Every call that has begun has an id of its own.
IdsAreOwn ==
  /\ \A c \in Calls : id[c] \in 0..nextID /\ (pc[c] = "idle" <=> id[c] = 0)
  /\ \A c, d \in Calls : id[c] = id[d] /\ id[c] # 0 => c = d

WireIsOwn == \A r \in wire : pc[r.call] # "idle" /\ r.id = id[r.call]

\* A response names the id of the call it answers; no two are the same.
AnswersAreOwn ==
  /\ \A m \in answered : pc[m.call] # "idle" /\ m.id = id[m.call]
  /\ \A m, x \in answered : m.call = x.call /\ m.nth = x.nth => m = x

\* Whatever is under way was written by the peer, and goes to its call.
InboxIsAnswered == \A i \in 1..Len(inbox) : inbox[i] \in answered
ChannelsAreOwn ==
  \A c \in Calls : ch[c] # <<>> =>
    Len(ch[c]) = 1 /\ Head(ch[c]) \in answered /\ Head(ch[c]).call = c
HandIsOwn ==
  reader = "delivering" =>
    Head(hand).msg \in answered /\ Head(hand).to = Head(hand).msg.call

\* A response is in one place only.
InboxUnrepeated == \A i, j \in 1..Len(inbox) : inbox[i] = inbox[j] => i = j
ChannelsUnrepeated ==
  \A c \in Calls : ch[c] # <<>> => \A i \in 1..Len(inbox) : inbox[i] # Head(ch[c])
HandUnrepeated ==
  reader = "delivering" =>
    /\ \A i \in 1..Len(inbox) : inbox[i] # Head(hand).msg
    /\ \A c \in Calls : ch[c] # <<>> => Head(ch[c]) # Head(hand).msg

Transit == /\ InboxIsAnswered /\ ChannelsAreOwn /\ HandIsOwn
           /\ InboxUnrepeated /\ ChannelsUnrepeated /\ HandUnrepeated

IInv == /\ TypeOK
        /\ PendingIsExact
        /\ IdsAreOwn /\ WireIsOwn /\ AnswersAreOwn
        /\ Transit
----------------------------------------------------------------------------
\* The first element and the rest of a sequence that has one.
LEMMA HeadTail ==
  ASSUME NEW S, NEW s \in Seq(S), s # <<>>
  PROVE  /\ Len(s) \in Nat \ {0} /\ Head(s) = s[1] /\ Head(s) \in S
         /\ Tail(s) \in Seq(S) /\ Len(Tail(s)) = Len(s) - 1
         /\ \A i \in 1..Len(Tail(s)) : Tail(s)[i] = s[i + 1]
<1>1. Len(s) \in Nat \ {0}
  OBVIOUS
<1>2. Head(s) = s[1] /\ s[1] \in S
  BY <1>1
<1>3. Tail(s) \in Seq(S) /\ Len(Tail(s)) = Len(s) - 1
  BY <1>1
<1>4. \A i \in 1..Len(Tail(s)) : Tail(s)[i] = s[i + 1]
  BY <1>1, <1>3
<1> QED
  BY <1>1, <1>2, <1>3, <1>4

\* What the read loop holds while it delivers.
LEMMA HandType ==
  ASSUME TypeOK, reader = "delivering"
  PROVE  Head(hand).to \in Calls /\ Head(hand).msg \in Msgs
<1>1. hand \in Seq(Deliveries) /\ Len(hand) = 1
  BY DEF TypeOK
<1>2. hand # <<>>
  BY <1>1
<1>3. Head(hand) \in Deliveries
  BY <1>1, <1>2, HeadTail
<1> QED
  BY <1>3 DEF Deliveries

\* Every variable keeps its type: the pending table is a map from ids that were
\* drawn to calls, whatever calls, answers and timeouts there are.
THEOREM TypeCorrect == Spec => []TypeOK
<1>1. Init => TypeOK
  BY DEF Init, TypeOK, Steps
<1>2. TypeOK /\ [Next]_vars => TypeOK'
  <2> SUFFICES ASSUME TypeOK, [Next]_vars PROVE TypeOK'
    OBVIOUS
  <2> USE DEF TypeOK, Steps
  <2>1. ASSUME NEW c \in Calls, Register(c) PROVE TypeOK'
    BY <2>1 DEF Register, Put
  <2>2. ASSUME NEW c \in Calls, Write(c) PROVE TypeOK'
    BY <2>2 DEF Write
  <2>3. ASSUME NEW c \in Calls, WriteFails(c) PROVE TypeOK'
    BY <2>3 DEF WriteFails
  <2>4. ASSUME NEW c \in Calls, TakeResponse(c) PROVE TypeOK'
    <3>1. Head(ch[c]) \in Msgs /\ Tail(ch[c]) \in Seq(Msgs)
      BY <2>4 DEF TakeResponse
    <3>2. Head(ch[c]).answer \in Answers
      BY <3>1 DEF Msgs
    <3> QED
      BY <2>4, <3>1, <3>2 DEF TakeResponse
  <2>5. ASSUME NEW c \in Calls, TimerFires(c) PROVE TypeOK'
    BY <2>5 DEF TimerFires
  <2>6. ASSUME NEW c \in Calls, Leave(c) PROVE TypeOK'
    BY <2>6 DEF Leave, Delete
  <2>7. CASE Lookup
    <3>1. Head(inbox) \in Msgs /\ Tail(inbox) \in Seq(Msgs)
      BY <2>7 DEF Lookup
    <3> DEFINE d == [to |-> pending[Head(inbox).id], msg |-> Head(inbox)]
    <3>2. CASE Head(inbox).id \in DOMAIN pending
      <4>1. d \in Deliveries
        BY <3>1, <3>2 DEF Deliveries
      <4>2. hand' = <<d>> /\ reader' = "delivering"
        BY <2>7, <3>2 DEF Lookup
      <4>3. hand' \in Seq(Deliveries) /\ Len(hand') = 1
        BY <4>1, <4>2
      <4> QED
        BY <2>7, <3>1, <4>2, <4>3 DEF Lookup
    <3>3. CASE Head(inbox).id \notin DOMAIN pending
      BY <2>7, <3>1, <3>3 DEF Lookup
    <3> QED
      BY <3>2, <3>3
  <2>8. CASE Deliver
    <3>2. Head(hand).to \in Calls /\ Head(hand).msg \in Msgs
      BY <2>8, HandType DEF Deliver
    <3>3. Append(ch[Head(hand).to], Head(hand).msg) \in Seq(Msgs)
      BY <3>2
    <3> QED
      BY <2>8, <3>2, <3>3 DEF Deliver
  <2>9. CASE ReadFails
    BY <2>9 DEF ReadFails
  <2>10. ASSUME NEW r \in wire, NEW n \in 1..MaxAnswers, NEW a \in Answers,
                PeerAnswers(r, n, a)
         PROVE TypeOK'
    <3> DEFINE m == [id |-> r.id, call |-> r.call, nth |-> n, answer |-> a]
    <3>1. m \in Msgs
      BY DEF Msgs
    <3>2. inbox' = Append(inbox, m) /\ answered' = answered \cup {m}
      BY <2>10 DEF PeerAnswers
    <3>3. inbox' \in Seq(Msgs) /\ answered' \subseteq Msgs
      BY <3>1, <3>2
    <3> HIDE DEF m
    <3> QED
      BY <2>10, <3>3 DEF PeerAnswers
  <2>11. CASE UNCHANGED vars
    BY <2>11 DEF vars
  <2> QED
    BY <2>1, <2>2, <2>3, <2>4, <2>5, <2>6, <2>7, <2>8, <2>9, <2>10, <2>11
       DEF Next, SendRequest
<1> QED
  BY <1>1, <1>2, PTL DEF Spec

----------------------------------------------------------------------------
\* Initially nothing is under way.
LEMMA InitIInv == Init => IInv
BY DEF Init, IInv, Transit, TypeOK, Steps, PendingIsExact, Registered, IdsAreOwn, WireIsOwn,
       AnswersAreOwn, InboxIsAnswered, ChannelsAreOwn, HandIsOwn, InboxUnrepeated,
       ChannelsUnrepeated, HandUnrepeated

\* Ids: a call draws one that no other call has, and keeps it.
LEMMA IdsStep == IInv /\ TypeOK' /\ [Next]_vars => IdsAreOwn' /\ WireIsOwn' /\ PendingIsExact'
<1> SUFFICES ASSUME IInv, TypeOK', [Next]_vars
             PROVE  IdsAreOwn' /\ WireIsOwn' /\ PendingIsExact'
  OBVIOUS
<1>a. /\ nextID \in Nat /\ pc \in [Calls -> Steps] /\ id \in [Calls -> Nat]
      /\ DOMAIN pending \subseteq 1..nextID
      /\ wire \subseteq [id : Nat, call : Calls]
  BY DEF IInv, TypeOK
<1>b. \A r \in wire : r.call \in Calls
  BY <1>a
<1> USE <1>a, <1>b DEF Steps, Registered
<1>i. IdsAreOwn /\ WireIsOwn /\ PendingIsExact
  BY DEF IInv
<1>1. ASSUME NEW c \in Calls, Register(c)
      PROVE  IdsAreOwn' /\ WireIsOwn' /\ PendingIsExact'
  <2>1. IdsAreOwn'
    BY <1>1, <1>i DEF Register, IdsAreOwn
  <2>2. WireIsOwn'
    BY <1>1, <1>i DEF Register, WireIsOwn, IdsAreOwn
  <2>3. PendingIsExact'
    BY <1>1, <1>i DEF Register, Put, PendingIsExact, IdsAreOwn
  <2> QED
    BY <2>1, <2>2, <2>3
<1>2. ASSUME NEW c \in Calls, Write(c)
      PROVE  IdsAreOwn' /\ WireIsOwn' /\ PendingIsExact'
  BY <1>2, <1>i DEF Write, IdsAreOwn, WireIsOwn, PendingIsExact
<1>3. ASSUME NEW c \in Calls, WriteFails(c) \/ TakeResponse(c) \/ TimerFires(c)
      PROVE  IdsAreOwn' /\ WireIsOwn' /\ PendingIsExact'
  <2>1. /\ pc[c] \in {"writing", "waiting"} /\ pc' = [pc EXCEPT ![c] = "leaving"]
        /\ UNCHANGED <<nextID, id, wire, pending>>
    BY <1>3 DEF WriteFails, TakeResponse, TimerFires
  <2> QED
    BY <2>1, <1>i DEF IdsAreOwn, WireIsOwn, PendingIsExact
<1>4. ASSUME NEW c \in Calls, Leave(c)
      PROVE  IdsAreOwn' /\ WireIsOwn' /\ PendingIsExact'
  <2>1. IdsAreOwn' /\ WireIsOwn'
    BY <1>4, <1>i DEF Leave, IdsAreOwn, WireIsOwn
  <2>2. PendingIsExact'
    BY <1>4, <1>i DEF Leave, Delete, PendingIsExact, IdsAreOwn
  <2> QED
    BY <2>1, <2>2
<1>5. ASSUME Lookup \/ Deliver \/ ReadFails
             \/ \E r \in wire, n \in 1..MaxAnswers, a \in Answers : PeerAnswers(r, n, a)
      PROVE  IdsAreOwn' /\ WireIsOwn' /\ PendingIsExact'
  <2>1. UNCHANGED <<nextID, pc, id, wire, pending>>
    BY <1>5 DEF Lookup, Deliver, ReadFails, PeerAnswers
  <2> QED
    BY <2>1, <1>i DEF IdsAreOwn, WireIsOwn, PendingIsExact
<1>6. CASE UNCHANGED vars
  BY <1>6, <1>i DEF vars, IdsAreOwn, WireIsOwn, PendingIsExact
<1> QED
  BY <1>1, <1>2, <1>3, <1>4, <1>5, <1>6 DEF Next, SendRequest

\* The response the peer writes is a new one, and names the call's id.
LEMMA AnswersStep == IInv /\ TypeOK' /\ [Next]_vars => AnswersAreOwn'
<1> SUFFICES ASSUME IInv, TypeOK', [Next]_vars PROVE AnswersAreOwn'
  OBVIOUS
<1>a. /\ pc \in [Calls -> Steps] /\ id \in [Calls -> Nat] /\ answered \subseteq Msgs
      /\ wire \subseteq [id : Nat, call : Calls]
  BY DEF IInv, TypeOK
<1>b. \A m \in answered : m.call \in Calls /\ m.nth \in Nat
  BY <1>a DEF Msgs
<1>i. AnswersAreOwn /\ WireIsOwn
  BY DEF IInv
<1>1. ASSUME NEW c \in Calls, SendRequest(c) PROVE AnswersAreOwn'
  <2>1. /\ answered' = answered
        /\ \A d \in Calls : pc[d] # "idle" => pc'[d] # "idle" /\ id'[d] = id[d]
    BY <1>1, <1>a DEF SendRequest, Register, Write, WriteFails, TakeResponse, TimerFires,
                      Leave, Steps
  <2> QED
    BY <2>1, <1>b, <1>i DEF AnswersAreOwn
<1>2. ASSUME NEW r \in wire, NEW n \in 1..MaxAnswers, NEW a \in Answers,
             PeerAnswers(r, n, a)
      PROVE  AnswersAreOwn'
  <2> DEFINE m == [id |-> r.id, call |-> r.call, nth |-> n, answer |-> a]
  <2>1. /\ answered' = answered \cup {m} /\ UNCHANGED <<pc, id>>
        /\ \A x \in answered : x.call = r.call => x.nth < n
    BY <1>2 DEF PeerAnswers
  <2>2. pc[m.call] # "idle" /\ m.id = id[m.call]
    BY <1>i DEF WireIsOwn
  <2>3. \A x \in answered : x.call = m.call => x.nth # m.nth
    BY <2>1, <1>b
  <2> HIDE DEF m
  <2> QED
    BY <2>1, <2>2, <2>3, <1>i DEF AnswersAreOwn
<1>3. CASE Lookup \/ Deliver \/ ReadFails \/ UNCHANGED vars
  <2>1. UNCHANGED <<pc, id, answered>>
    BY <1>3 DEF Lookup, Deliver, ReadFails, vars
  <2> QED
    BY <2>1, <1>i DEF AnswersAreOwn
<1> QED
  BY <1>1, <1>2, <1>3 DEF Next

\* The steps of a call other than taking a response move none.
LEMMA CallTransit ==
  ASSUME Transit, UNCHANGED <<ch, inbox, reader, hand>>, answered \subseteq answered'
  PROVE  Transit'
BY DEF Transit, InboxIsAnswered, ChannelsAreOwn, HandIsOwn, InboxUnrepeated,
       ChannelsUnrepeated, HandUnrepeated

\* A call that takes its response empties its channel.
LEMMA TakeTransit ==
  ASSUME IInv, NEW c \in Calls, TakeResponse(c)
  PROVE  Transit'
<1>1. /\ ch \in [Calls -> Seq(Msgs)] /\ ch[c] # <<>> /\ ch' = [ch EXCEPT ![c] = Tail(@)]
      /\ UNCHANGED <<inbox, reader, hand, answered>>
  BY DEF TakeResponse, IInv, TypeOK
<1>2. Len(ch[c]) = 1 /\ ch[c] \in Seq(Msgs)
  BY <1>1 DEF IInv, Transit, ChannelsAreOwn
<1>3. Tail(ch[c]) = <<>>
  <2>1. Tail(ch[c]) \in Seq(Msgs) /\ Len(Tail(ch[c])) = 0
    BY <1>1, <1>2, HeadTail
  <2>2. ASSUME Tail(ch[c]) # <<>> PROVE Len(Tail(ch[c])) # 0
    BY <2>1, <2>2, HeadTail
  <2> QED
    BY <2>1, <2>2
<1>4. \A d \in Calls : ch'[d] # <<>> => ch'[d] = ch[d]
  BY <1>1, <1>3
<1>5. Transit
  BY DEF IInv
<1> QED
  BY <1>1, <1>4, <1>5 DEF Transit, InboxIsAnswered, ChannelsAreOwn, HandIsOwn,
     InboxUnrepeated, ChannelsUnrepeated, HandUnrepeated

\* The read loop takes the oldest response, and finds the call it answers.
LEMMA LookupTransit ==
  ASSUME IInv, Lookup
  PROVE  Transit'
<1>1. /\ inbox \in Seq(Msgs) /\ inbox # <<>> /\ inbox' = Tail(inbox)
      /\ UNCHANGED <<pc, id, ch, answered>> /\ pc \in [Calls -> Steps]
      /\ reader = "reading"
  BY DEF Lookup, IInv, TypeOK
<1>2. /\ Len(inbox) \in Nat \ {0} /\ Head(inbox) = inbox[1] /\ Head(inbox) \in Msgs
      /\ Len(inbox') = Len(inbox) - 1
      /\ \A i \in 1..Len(inbox') : inbox'[i] = inbox[i + 1]
  BY <1>1, HeadTail
<1>3. Transit
  BY DEF IInv
<1>4. InboxIsAnswered'
  BY <1>1, <1>2, <1>3 DEF Transit, InboxIsAnswered
<1>5. InboxUnrepeated'
  BY <1>2, <1>3 DEF Transit, InboxUnrepeated
<1>6. ChannelsAreOwn'
  BY <1>1, <1>3 DEF Transit, ChannelsAreOwn
<1>7. ChannelsUnrepeated'
  BY <1>1, <1>2, <1>3 DEF Transit, ChannelsUnrepeated
<1>8. CASE Head(inbox).id \notin DOMAIN pending
  <2>1. reader' # "delivering"
    BY <1>1, <1>8 DEF Lookup
  <2> QED
    BY <2>1, <1>4, <1>5, <1>6, <1>7 DEF Transit, HandIsOwn, HandUnrepeated
<1>9. CASE Head(inbox).id \in DOMAIN pending
  <2> DEFINE m == Head(inbox)
  <2>1. hand' = <<[to |-> pending[m.id], msg |-> m]>>
    BY <1>9 DEF Lookup
  <2>2. Head(hand').msg = m /\ Head(hand').to = pending[m.id]
    BY <2>1
  <2>3. m \in answered /\ m.call \in Calls
    BY <1>2, <1>3 DEF Transit, InboxIsAnswered, Msgs
  <2>4. m.id = id[m.call] /\ pc[m.call] # "idle"
    BY <2>3 DEF IInv, AnswersAreOwn
  <2>5. PICK d \in Calls : id[d] = m.id /\ pending[m.id] = d
    BY <1>9 DEF IInv, PendingIsExact
  <2>6. d = m.call
    BY <2>3, <2>4, <2>5 DEF IInv, IdsAreOwn
  <2>7. HandIsOwn'
    BY <1>1, <2>2, <2>3, <2>5, <2>6 DEF HandIsOwn
  <2>8. \A i \in 1..Len(inbox') : inbox'[i] # m
    BY <1>2, <1>3 DEF Transit, InboxUnrepeated
  <2>9. \A c \in Calls : ch[c] # <<>> => Head(ch[c]) # m
    BY <1>2, <1>3 DEF Transit, ChannelsUnrepeated
  <2>10. HandUnrepeated'
    BY <1>1, <2>2, <2>8, <2>9 DEF HandUnrepeated
  <2> QED
    BY <2>7, <2>10, <1>4, <1>5, <1>6, <1>7 DEF Transit
<1> QED
  BY <1>8, <1>9

\* The response goes from the read loop's hands to the channel.
LEMMA DeliverTransit ==
  ASSUME IInv, Deliver
  PROVE  Transit'
<1> DEFINE to == Head(hand).to
           m  == Head(hand).msg
<1>1. /\ ch \in [Calls -> Seq(Msgs)] /\ ch[to] = <<>> /\ ch' = [ch EXCEPT ![to] = Append(@, m)]
      /\ UNCHANGED <<inbox, answered>> /\ reader = "delivering" /\ reader' = "reading"
  BY DEF Deliver, Room, IInv, TypeOK
<1>2. to \in Calls /\ m \in Msgs
  BY <1>1, HandType DEF IInv
<1>3. m \in answered /\ to = m.call /\ \A i \in 1..Len(inbox) : inbox[i] # m
  BY <1>1 DEF IInv, Transit, HandIsOwn, HandUnrepeated
<1> HIDE DEF to, m
<1>4. ch'[to] = <<m>>
  BY <1>1, <1>2
<1>5. /\ Len(ch'[to]) = 1 /\ Head(ch'[to]) = m
      /\ \A d \in Calls \ {to} : ch'[d] = ch[d]
  BY <1>1, <1>4
<1>6. Transit
  BY DEF IInv
<1>7. ChannelsAreOwn'
  BY <1>1, <1>3, <1>5, <1>6 DEF Transit, ChannelsAreOwn
<1>8. ChannelsUnrepeated'
  BY <1>1, <1>3, <1>5, <1>6 DEF Transit, ChannelsUnrepeated
<1> QED
  BY <1>1, <1>6, <1>7, <1>8 DEF Transit, InboxIsAnswered, InboxUnrepeated, HandIsOwn,
     HandUnrepeated

\* A new response differs from all that are under way.
LEMMA AnswerTransit ==
  ASSUME IInv, NEW r \in wire, NEW n \in 1..MaxAnswers, NEW a \in Answers,
         PeerAnswers(r, n, a)
  PROVE  Transit'
<1> DEFINE m == [id |-> r.id, call |-> r.call, nth |-> n, answer |-> a]
<1>1. /\ inbox' = Append(inbox, m) /\ answered' = answered \cup {m}
      /\ UNCHANGED <<ch, reader, hand>> /\ \A x \in answered : x.call = r.call => x.nth < n
  BY DEF PeerAnswers
<1>2. m \in Msgs /\ inbox \in Seq(Msgs) /\ answered \subseteq Msgs
  BY DEF Msgs, IInv, TypeOK
<1>3. m \notin answered
  <2>1. m.call = r.call /\ m.nth = n /\ n \in Nat
    OBVIOUS
  <2> QED
    BY <1>1, <2>1
<1> HIDE DEF m
<1>4. /\ Len(inbox') = Len(inbox) + 1 /\ Len(inbox) \in Nat
      /\ \A i \in 1..Len(inbox') : inbox'[i] = IF i <= Len(inbox) THEN inbox[i] ELSE m
  BY <1>1, <1>2
<1>5. Transit
  BY DEF IInv
<1>6. InboxIsAnswered'
  BY <1>1, <1>4, <1>5 DEF Transit, InboxIsAnswered
<1>7. InboxUnrepeated'
  BY <1>3, <1>4, <1>5 DEF Transit, InboxIsAnswered, InboxUnrepeated
<1>8. ChannelsAreOwn' /\ HandIsOwn'
  BY <1>1, <1>5 DEF Transit, ChannelsAreOwn, HandIsOwn
<1>9. ChannelsUnrepeated'
  BY <1>1, <1>3, <1>4, <1>5 DEF Transit, ChannelsAreOwn, ChannelsUnrepeated
<1>10. HandUnrepeated'
  BY <1>1, <1>3, <1>4, <1>5 DEF Transit, HandIsOwn, HandUnrepeated
<1> QED
  BY <1>6, <1>7, <1>8, <1>9, <1>10 DEF Transit

\* IInv is inductive.
LEMMA NextIInv == IInv /\ TypeOK' /\ [Next]_vars => IInv'
<1> SUFFICES ASSUME IInv, TypeOK', [Next]_vars PROVE Transit'
  BY IdsStep, AnswersStep DEF IInv
<1>1. ASSUME NEW c \in Calls, SendRequest(c) PROVE Transit'
  <2>1. CASE TakeResponse(c)
    BY <2>1, TakeTransit
  <2>2. CASE ~TakeResponse(c)
    <3>1. UNCHANGED <<ch, inbox, reader, hand, answered>>
      BY <1>1, <2>2 DEF SendRequest, Register, Write, WriteFails, TimerFires, Leave
    <3> QED
      BY <3>1, CallTransit DEF IInv
  <2> QED
    BY <2>1, <2>2
<1>2. ASSUME NEW r \in wire, NEW n \in 1..MaxAnswers, NEW a \in Answers,
             PeerAnswers(r, n, a)
      PROVE  Transit'
  BY <1>2, AnswerTransit
<1>3. CASE ReadFails
  BY <1>3 DEF ReadFails, IInv, Transit, InboxIsAnswered, ChannelsAreOwn, HandIsOwn,
     InboxUnrepeated, ChannelsUnrepeated, HandUnrepeated
<1>4. CASE UNCHANGED vars
  BY <1>4, CallTransit DEF vars, IInv
<1> QED
  BY <1>1, <1>2, <1>3, <1>4, LookupTransit, DeliverTransit DEF Next

LEMMA IInvAlways == Spec => []IInv
BY InitIInv, NextIInv, TypeCorrect, PTL DEF Spec
----------------------------------------------------------------------------
\* The table of pending calls names exactly the calls under way.
THEOREM PendingExact == Spec => []PendingIsExact
<1>1. IInv => PendingIsExact
  BY DEF IInv
<1> QED
  BY <1>1, IInvAlways, PTL

\* The read loop can only be stopped by a peer that answers a request twice:
\* otherwise the channel it delivers to is empty.
THEOREM ReaderIsFree == Spec => []ReaderStuckOnlyByDuplicates
<1>1. IInv => ReaderStuckOnlyByDuplicates
  <2> SUFFICES ASSUME IInv, reader = "delivering", \A m \in answered : m.nth = 1,
                      ~Room(Head(hand).to)
               PROVE  FALSE
    BY DEF ReaderStuckOnlyByDuplicates
  <2> DEFINE to == Head(hand).to
             m  == Head(hand).msg
  <2>1. to \in Calls
    BY HandType DEF IInv
  <2>2. m \in answered /\ to = m.call
    BY DEF IInv, Transit, HandIsOwn
  <2>3. ch[to] # <<>>
    BY DEF Room
  <2>4. Head(ch[to]) \in answered /\ Head(ch[to]).call = to /\ Head(ch[to]) # m
    BY <2>1, <2>3 DEF IInv, Transit, ChannelsAreOwn, HandUnrepeated
  <2>5. Head(ch[to]).nth = m.nth
    BY <2>2, <2>4
  <2> QED
    BY <2>2, <2>4, <2>5 DEF IInv, AnswersAreOwn
<1> QED
  BY <1>1, IInvAlways, PTL

\* What Rpc sees of a state: whether a call is idle, open or closed, and what the
\* peer has answered to it.
Phase == [c \in Calls |-> CASE pc[c] = "idle" -> "idle"
                           [] pc[c] \in {"writing", "waiting"} -> "open"
                           [] OTHER -> "closed"]
Given == [c \in Calls |-> {m.answer : m \in {x \in answered : x.call = c}}]

\* A step of a call is a step of Rpc, or none.
LEMMA CallRefines ==
  ASSUME IInv, NEW c \in Calls, SendRequest(c)
  PROVE  [Promise!Next]_Promise!rpcVars
<1>a. pc \in [Calls -> Steps] /\ outcome \in [Calls -> Answers \cup {None, Failed}]
  BY DEF IInv, TypeOK
<1>b. answered' = answered
  BY DEF SendRequest, Register, Write, WriteFails, TakeResponse, TimerFires, Leave
<1>c. Given' = Given
  BY <1>b DEF Given
<1>d. Phase \in [Calls -> {"idle", "open", "closed"}]
  BY DEF Phase
<1>1. CASE Register(c)
  <2>1. pc[c] = "idle" /\ pc' = [pc EXCEPT ![c] = "writing"] /\ outcome' = outcome
    BY <1>1 DEF Register
  <2>2. Phase[c] = "idle" /\ Phase' = [Phase EXCEPT ![c] = "open"]
    BY <2>1, <1>a DEF Phase
  <2>3. Promise!Open(c)
    BY <2>1, <2>2, <1>c DEF Promise!Open, Phase, Given
  <2> QED
    BY <2>3 DEF Promise!Next
<1>2. CASE Write(c) \/ Leave(c)
  <2>1. outcome' = outcome /\ Phase' = Phase
    BY <1>2, <1>a DEF Write, Leave, Phase, Steps
  <2> QED
    BY <2>1, <1>c DEF Promise!rpcVars, Phase, Given
<1>3. CASE WriteFails(c) \/ TimerFires(c) \/ TakeResponse(c)
  <2>1. /\ pc[c] \in {"writing", "waiting"} /\ pc' = [pc EXCEPT ![c] = "leaving"]
    BY <1>3 DEF WriteFails, TimerFires, TakeResponse
  <2>2. Phase[c] = "open" /\ Phase' = [Phase EXCEPT ![c] = "closed"]
    BY <2>1, <1>a DEF Phase
  <2>3. \E o \in Given[c] \cup {Failed} : outcome' = [outcome EXCEPT ![c] = o]
    <3>1. CASE WriteFails(c) \/ TimerFires(c)
      BY <3>1 DEF WriteFails, TimerFires
    <3>2. CASE TakeResponse(c)
      <4>1. Head(ch[c]) \in answered /\ Head(ch[c]).call = c
        BY <3>2 DEF TakeResponse, IInv, Transit, ChannelsAreOwn
      <4>2. Head(ch[c]).answer \in Given[c]
        BY <4>1 DEF Given
      <4> QED
        BY <3>2, <4>2 DEF TakeResponse
    <3> QED
      BY <1>3, <3>1, <3>2
  <2>4. Promise!Close(c)
    BY <2>2, <2>3, <1>c DEF Promise!Close, Promise!Failed, Failed, Phase, Given
  <2> QED
    BY <2>4 DEF Promise!Next
<1> QED
  BY <1>1, <1>2, <1>3 DEF SendRequest

\* The peer's response is Rpc's Answer.
LEMMA AnswerRefines ==
  ASSUME IInv, NEW r \in wire, NEW n \in 1..MaxAnswers, NEW a \in Answers,
         PeerAnswers(r, n, a)
  PROVE  [Promise!Next]_Promise!rpcVars
<1> DEFINE m == [id |-> r.id, call |-> r.call, nth |-> n, answer |-> a]
<1>1. answered' = answered \cup {m} /\ UNCHANGED <<pc, outcome>>
  BY DEF PeerAnswers
<1>2. r.call \in Calls /\ m.call = r.call /\ m.answer = a
  BY DEF IInv, TypeOK
<1>3. Phase[r.call] # "idle"
  BY <1>2 DEF Phase, IInv, WireIsOwn
<1> HIDE DEF m
<1>4. Given' = [Given EXCEPT ![r.call] = @ \cup {a}]
  BY <1>1, <1>2 DEF Given
<1>5. Phase' = Phase
  BY <1>1 DEF Phase
<1>6. Promise!Answer(r.call, a)
  BY <1>1, <1>3, <1>4, <1>5 DEF Promise!Answer, Phase, Given
<1> QED
  BY <1>2, <1>6 DEF Promise!Next

\* Transport implements Rpc: whatever SendRequest returns is an answer the peer
\* gave to that very call, or a failure, however responses are delayed,
\* reordered, repeated or lost.
THEOREM Implements == Spec => RefinesRpc
<1>1. Init => Promise!Init
  BY DEF Init, Promise!Init, Promise!None, None
<1>2. IInv /\ [Next]_vars => [Promise!Next]_Promise!rpcVars
  <2> SUFFICES ASSUME IInv, [Next]_vars PROVE [Promise!Next]_Promise!rpcVars
    OBVIOUS
  <2>1. CASE Lookup \/ Deliver \/ ReadFails \/ UNCHANGED vars
    <3>1. UNCHANGED <<pc, outcome, answered>>
      BY <2>1 DEF Lookup, Deliver, ReadFails, vars
    <3> QED
      BY <3>1 DEF Promise!rpcVars
  <2> QED
    BY <2>1, CallRefines, AnswerRefines DEF Next
<1> QED
  BY <1>1, <1>2, IInvAlways, PTL DEF Spec, RefinesRpc, Promise!RpcSpec
=============================================================================
