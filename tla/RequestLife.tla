----------------------------- MODULE RequestLife -----------------------------
(***************************************************************************)
(* What the queue of a session promises to those who put a request into    *)
(* it: it is run when its turn comes, one at a time, and once by an owner; *)
(* what a dead owner left running is put back before the next owner runs   *)
(* anything; an outcome is for good, and who waits is told no other.  Of a *)
(* request that somebody tries to cancel nothing is promised.  OwnerQueue  *)
(* implements it with the owner's loop and the cancels, OwnerIPC with the  *)
(* ways a prompt takes to the owner and its outcome back.                  *)
(***************************************************************************)
CONSTANT Req       \* the requests of one session

VARIABLES life,    \* [Req -> {"absent", "queued", "running", "contested"} \cup Outcome]
          heard,   \* [Req -> {"absent"} \cup Told]: what the one who waits was told
          up       \* an owner is at work
lifeVars == <<life, heard, up>>

Outcome == {"completed", "failed"}
Told    == Outcome \cup {"cancelled"}
Running == {r \in Req : life[r] = "running"}
-----------------------------------------------------------------------------
Init ==
  /\ life  = [r \in Req |-> "absent"]
  /\ heard = [r \in Req |-> "absent"]
  /\ up \in BOOLEAN

Become(r, state) == life' = [life EXCEPT ![r] = state]

Submit(r) ==
  /\ life[r] = "absent" /\ Become(r, "queued")
  /\ UNCHANGED <<heard, up>>

Start(r) ==
  /\ up /\ Running = {}
  /\ life[r] = "queued" /\ Become(r, "running")
  /\ UNCHANGED <<heard, up>>

Finish(r) ==
  /\ up /\ life[r] = "running"
  /\ \E s \in Outcome : Become(r, s)
  /\ UNCHANGED <<heard, up>>

\* The owner leaves or dies, whatever it has in hand.
Stop == up /\ up' = FALSE /\ UNCHANGED <<life, heard>>

\* A new owner puts back what it finds running, all of it before it goes to work.
Recover ==
  /\ ~up
  /\ \E S \in SUBSET Running :
       /\ life' = [r \in Req |-> IF r \in S THEN "queued" ELSE life[r]]
       /\ up' = FALSE \/ (up' = TRUE /\ S = Running)
  /\ UNCHANGED heard

\* Somebody tries to cancel the request.
Contest(r) ==
  /\ life[r] # "absent" /\ Become(r, "contested")
  /\ UNCHANGED <<heard, up>>

Tell(r) ==
  /\ heard[r] = "absent"
  /\ \E s \in Told : /\ life[r] \in {s, "contested"}
                     /\ heard' = [heard EXCEPT ![r] = s]
  /\ UNCHANGED <<life, up>>

Next == \/ Stop \/ Recover
        \/ \E r \in Req : Submit(r) \/ Start(r) \/ Finish(r) \/ Contest(r) \/ Tell(r)

LifeSpec == Init /\ [][Next]_lifeVars

\* What who waits was told of a request stays true of it: the next owner does not run
\* what somebody was told is over (queue.go:519-552, cmd/acp-go/main.go:279-286).
WordIsKept == \A r \in Req : heard[r] # "absent" => life[r] \in {heard[r], "contested"}
=============================================================================
