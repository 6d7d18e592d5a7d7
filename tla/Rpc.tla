------------------------------- MODULE Rpc -------------------------------
(***************************************************************************)
(* What the JSON-RPC transport promises to its callers (transport.go): a   *)
(* call is opened once and closed once, and what closes it is an answer    *)
(* the peer gave to this very call, or a failure (the request could not    *)
(* be written, or no answer came in time).  Transport implements it.       *)
(***************************************************************************)
CONSTANTS Calls,     \* the invocations of SendRequest
          Answers    \* the answers the peer may give

\* A call that has no outcome yet, and one that ended with an error of the
\* transport itself.
None   == "none"
Failed == "failed"

VARIABLES phase,     \* [Calls -> {"idle", "open", "closed"}]
          given,     \* [Calls -> SUBSET Answers]: what the peer has answered
          outcome    \* [Calls -> Answers \cup {None, Failed}]
rpcVars == <<phase, given, outcome>>
----------------------------------------------------------------------------
Init ==
  /\ phase   = [c \in Calls |-> "idle"]
  /\ given   = [c \in Calls |-> {}]
  /\ outcome = [c \in Calls |-> None]

Open(c) ==
  /\ phase[c] = "idle"
  /\ phase' = [phase EXCEPT ![c] = "open"]
  /\ UNCHANGED <<given, outcome>>

\* The peer may answer a call it was never going to be heard on, and more
\* than once.
Answer(c, a) ==
  /\ phase[c] # "idle"
  /\ given' = [given EXCEPT ![c] = @ \cup {a}]
  /\ UNCHANGED <<phase, outcome>>

Close(c) ==
  /\ phase[c] = "open"
  /\ \E o \in given[c] \cup {Failed} : outcome' = [outcome EXCEPT ![c] = o]
  /\ phase' = [phase EXCEPT ![c] = "closed"]
  /\ UNCHANGED given

Next == \E c \in Calls : Open(c) \/ Close(c) \/ \E a \in Answers : Answer(c, a)

RpcSpec == Init /\ [][Next]_rpcVars
============================================================================
