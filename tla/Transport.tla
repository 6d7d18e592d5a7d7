----------------------------- MODULE Transport -----------------------------
(***************************************************************************)
(* The JSON-RPC transport of the ACP client (transport.go): any number of  *)
(* concurrent SendRequest calls, the table of pending calls behind         *)
(* pendingMu, one read loop that delivers responses (client.go, readLoop   *)
(* and DeliverResponse) and a peer, the agent process, that answers the    *)
(* requests written to it: late, out of order, more than once or never.    *)
(*                                                                         *)
(* Each call is a goroutine with a pc.  A request on the wire carries the  *)
(* id the call drew and, to tell whose question it is, the call itself,    *)
(* which stands for the method and the parameters; the peer echoes the id. *)
(* Requests and notifications of the peer are the Client's matter.         *)
(***************************************************************************)
EXTENDS Naturals, Sequences

CONSTANTS Calls,        \* the invocations of SendRequest
          Answers,      \* what a response may carry: a result or an error
          MaxAnswers    \* bound: responses of the peer to one request

ASSUME MaxAnswersAssumption == MaxAnswers \in Nat \ {0}

None   == "none"
Failed == "failed"

ASSUME OutcomesAssumption == {None, Failed} \cap Answers = {}

VARIABLES nextID,    \* Transport.nextID
          pending,   \* Transport.pending: a map from ids to calls' channels
          pc,        \* [Calls -> Steps]
          id,        \* [Calls -> Nat]: the id drawn, 0 before
          ch,        \* [Calls -> Seq(Msgs)]: the channel of capacity 1
          outcome,   \* [Calls -> ...]: what SendRequest is about to return
          wire,      \* requests written to the peer
          inbox,     \* responses in the pipe from the peer, oldest first
          reader,    \* the read loop: "reading", "delivering" or "gone"
          hand,      \* the delivery under way: <<>> or <<[to, msg]>>
          answered   \* history: every response the peer has written
vars == <<nextID, pending, pc, id, ch, outcome, wire, inbox, reader, hand,
          answered>>

Steps == {"idle", "writing", "waiting", "leaving", "done"}

\* A response: the id it names, the request it answers, the how-manieth
\* answer to it, and what it says.
Msgs == [id : Nat, call : Calls, nth : 1..MaxAnswers, answer : Answers]

Deliveries == [to : Calls, msg : Msgs]

Registered(c) == pc[c] \in {"writing", "waiting", "leaving"}

\* The map operations of Go.
Put(m, i, c)  == [j \in DOMAIN m \cup {i} |-> IF j = i THEN c ELSE m[j]]
Delete(m, i)  == [j \in DOMAIN m \ {i} |-> m[j]]

\* A plausible bug: A channel without a buffer: only a call that waits takes the message.
RoomUnbuffered(c) == ch[c] = <<>> /\ pc[c] = "waiting"

\* A channel of capacity 1 takes a message when it holds none.
Room(c) == ch[c] = <<>>
----------------------------------------------------------------------------
Init ==
  /\ nextID   = 0
  /\ pending  = [i \in {} |-> None]
  /\ pc       = [c \in Calls |-> "idle"]
  /\ id       = [c \in Calls |-> 0]
  /\ ch       = [c \in Calls |-> <<>>]
  /\ outcome  = [c \in Calls |-> None]
  /\ wire     = {}
  /\ inbox    = <<>>
  /\ reader   = "reading"
  /\ hand     = <<>>
  /\ answered = {}

\* A plausible bug: The ids start again at 1 when no call is pending.
RegisterBySize(c) ==
  LET new == IF DOMAIN pending = {} THEN 1 ELSE nextID + 1
  IN  /\ pc[c] = "idle"
      /\ nextID'  = new
      /\ id'      = [id EXCEPT ![c] = new]
      /\ pending' = Put(pending, new, c)
      /\ pc'      = [pc EXCEPT ![c] = "writing"]
      /\ UNCHANGED <<ch, outcome, wire, inbox, reader, hand, answered>>

\* A plausible bug: The id is the value of the counter before it was raised.
RegisterOldValue(c) ==
  /\ pc[c] = "idle"
  /\ nextID'  = nextID + 1
  /\ id'      = [id EXCEPT ![c] = nextID]
  /\ pending' = Put(pending, nextID, c)
  /\ pc'      = [pc EXCEPT ![c] = "writing"]
  /\ UNCHANGED <<ch, outcome, wire, inbox, reader, hand, answered>>

\* SendRequest draws an id and registers its channel before it writes.
Register(c) ==
  /\ pc[c] = "idle"
  /\ nextID'  = nextID + 1
  /\ id'      = [id EXCEPT ![c] = nextID + 1]
  /\ pending' = Put(pending, nextID + 1, c)
  /\ pc'      = [pc EXCEPT ![c] = "writing"]
  /\ UNCHANGED <<ch, outcome, wire, inbox, reader, hand, answered>>

Write(c) ==
  /\ pc[c] = "writing"
  /\ wire' = wire \cup {[id |-> id[c], call |-> c]}
  /\ pc'   = [pc EXCEPT ![c] = "waiting"]
  /\ UNCHANGED <<nextID, pending, id, ch, outcome, inbox, reader, hand, answered>>

\* A plausible bug: The error path returns before the delete is deferred.
WriteFailsUnregistered(c) ==
  /\ pc[c] = "writing"
  /\ outcome' = [outcome EXCEPT ![c] = Failed]
  /\ pc'      = [pc EXCEPT ![c] = "done"]
  /\ UNCHANGED <<nextID, pending, id, ch, wire, inbox, reader, hand, answered>>

\* The parameters cannot be marshalled, or the pipe to the peer is closed.
WriteFails(c) ==
  /\ pc[c] = "writing"
  /\ outcome' = [outcome EXCEPT ![c] = Failed]
  /\ pc'      = [pc EXCEPT ![c] = "leaving"]
  /\ UNCHANGED <<nextID, pending, id, ch, wire, inbox, reader, hand, answered>>

\* The two cases of SendRequest's select; when both are ready either is taken.
TakeResponse(c) ==
  /\ pc[c] = "waiting"
  /\ ch[c] # <<>>
  /\ outcome' = [outcome EXCEPT ![c] = Head(ch[c]).answer]
  /\ ch'      = [ch EXCEPT ![c] = Tail(@)]
  /\ pc'      = [pc EXCEPT ![c] = "leaving"]
  /\ UNCHANGED <<nextID, pending, id, wire, inbox, reader, hand, answered>>

\* A plausible bug: The timer is stopped as soon as the read loop has ended.
TimerFiresWhileReading(c) ==
  /\ reader # "gone"
  /\ pc[c] = "waiting"
  /\ outcome' = [outcome EXCEPT ![c] = Failed]
  /\ pc'      = [pc EXCEPT ![c] = "leaving"]
  /\ UNCHANGED <<nextID, pending, id, ch, wire, inbox, reader, hand, answered>>

TimerFires(c) ==
  /\ pc[c] = "waiting"
  /\ outcome' = [outcome EXCEPT ![c] = Failed]
  /\ pc'      = [pc EXCEPT ![c] = "leaving"]
  /\ UNCHANGED <<nextID, pending, id, ch, wire, inbox, reader, hand, answered>>

\* The deferred delete.
Leave(c) ==
  /\ pc[c] = "leaving"
  /\ pending' = Delete(pending, id[c])
  /\ pc'      = [pc EXCEPT ![c] = "done"]
  /\ UNCHANGED <<nextID, id, ch, outcome, wire, inbox, reader, hand, answered>>
----------------------------------------------------------------------------
\* The read loop takes the next line.  DeliverResponse looks the id up under
\* pendingMu and drops a response nobody waits for ...
Lookup ==
  /\ reader = "reading"
  /\ inbox # <<>>
  /\ inbox' = Tail(inbox)
  /\ LET i == Head(inbox).id
     IN  IF i \in DOMAIN pending
           THEN /\ hand'   = <<[to |-> pending[i], msg |-> Head(inbox)]>>
                /\ reader' = "delivering"
           ELSE UNCHANGED <<reader, hand>>
  /\ UNCHANGED <<nextID, pending, pc, id, ch, outcome, wire, answered>>

\* ... and sends on the channel after it has released the lock: the call may
\* have left by now, and the channel may be full.
Deliver ==
  /\ reader = "delivering"
  /\ Room(Head(hand).to)
  /\ ch'     = [ch EXCEPT ![Head(hand).to] = Append(@, Head(hand).msg)]
  /\ hand'   = <<>>
  /\ reader' = "reading"
  /\ UNCHANGED <<nextID, pending, pc, id, outcome, wire, inbox, answered>>

\* End of the stream, or a line that is not JSON: the read loop returns.
ReadFails ==
  /\ reader = "reading"
  /\ reader' = "gone"
  /\ UNCHANGED <<nextID, pending, pc, id, ch, outcome, wire, inbox, hand, answered>>

\* The agent, outside this repository, writes a response to a request.
PeerAnswers(r, n, a) ==
  LET m == [id |-> r.id, call |-> r.call, nth |-> n, answer |-> a]
  IN  /\ n > 1 => \E x \in answered : x.call = r.call /\ x.nth = n - 1
      /\ \A x \in answered : x.call = r.call => x.nth < n
      /\ inbox'    = Append(inbox, m)
      /\ answered' = answered \cup {m}
      /\ UNCHANGED <<nextID, pending, pc, id, ch, outcome, wire, reader, hand>>
----------------------------------------------------------------------------
SendRequest(c) == \/ Register(c) \/ Write(c) \/ WriteFails(c)
                  \/ TakeResponse(c) \/ TimerFires(c) \/ Leave(c)

Next == \/ \E c \in Calls : SendRequest(c)
        \/ Lookup \/ Deliver \/ ReadFails
        \/ \E r \in wire, n \in 1..MaxAnswers, a \in Answers : PeerAnswers(r, n, a)

Spec == Init /\ [][Next]_vars

\* A goroutine in its select gets out of it, by its timer at the latest.  A
\* write may last for ever: the peer need not read.
FairSpec == /\ Spec
            /\ \A c \in Calls : /\ WF_vars(TakeResponse(c) \/ TimerFires(c))
                                /\ WF_vars(Leave(c))
----------------------------------------------------------------------------
TypeOK ==
  /\ nextID \in Nat
  /\ pending = [i \in DOMAIN pending |-> pending[i]]
  /\ DOMAIN pending \subseteq 1..nextID
  /\ \A i \in DOMAIN pending : pending[i] \in Calls
  /\ pc \in [Calls -> Steps]
  /\ id \in [Calls -> Nat]
  /\ ch \in [Calls -> Seq(Msgs)]
  /\ outcome \in [Calls -> Answers \cup {None, Failed}]
  /\ wire \subseteq [id : Nat, call : Calls]
  /\ inbox \in Seq(Msgs)
  /\ reader \in {"reading", "delivering", "gone"}
  /\ hand \in Seq(Deliveries)
  /\ Len(hand) = IF reader = "delivering" THEN 1 ELSE 0
  /\ answered \subseteq Msgs

\* The table of pending calls names exactly the calls that are under way, each
\* under its own id: none is lost, and none is left behind by an error or by
\* a timeout (SendRequest's deferred delete).
PendingIsExact ==
  /\ \A c \in Calls : Registered(c) => id[c] \in DOMAIN pending /\ pending[id[c]] = c
  /\ \A i \in DOMAIN pending : \E c \in Calls : Registered(c) /\ id[c] = i

\* As long as the peer answers no request twice, the read loop never waits in
\* DeliverResponse, not even for a call that has timed out and gone: the
\* channel it was given has room for the one answer.
ReaderStuckOnlyByDuplicates ==
  reader = "delivering" /\ (\A m \in answered : m.nth = 1) => Room(Head(hand).to)

\* What the transport promises to its callers: an outcome is an answer the
\* peer gave to this very call, or a failure.
Promise == INSTANCE Rpc WITH
  phase   <- [c \in Calls |-> CASE pc[c] = "idle" -> "idle"
                                [] pc[c] \in {"writing", "waiting"} -> "open"
                                [] OTHER -> "closed"],
  given   <- [c \in Calls |-> {m.answer : m \in {x \in answered : x.call = c}}]
RefinesRpc == Promise!RpcSpec

\* Once its request is written SendRequest returns, whatever the peer and the
\* read loop do: a full channel, a dead read loop or a silent peer cost it a
\* timeout at most.
CallsEnd == \A c \in Calls : pc[c] = "waiting" ~> pc[c] = "done"
============================================================================
