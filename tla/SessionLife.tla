----------------------------- MODULE SessionLife -----------------------------
(***************************************************************************)
(* What the runtime manager promises of a session record to those who work *)
(* on it: an operation is one change of the record, however long it holds  *)
(* its copy, and no other operation undoes it; only a closed session is    *)
(* pruned, and for good; and who is told of a change finds it there.  Once *)
(* a copy that was no longer current is saved over the record, or it is    *)
(* imported, nothing is promised.                                          *)
(***************************************************************************)
CONSTANT Ids       \* record ids

VARIABLES life,    \* [Ids -> {"absent", "kept", "gone", "contested"}]
          has,     \* [Ids -> SUBSET Tags]: the changes a kept record shows
          heard     \* [Ids -> SUBSET Tags]: the changes somebody was told of
lifeVars == <<life, has, heard>>

Tags == {"mode", "config", "close"}
-----------------------------------------------------------------------------
Put(i, state, tags) ==
  /\ life' = [life EXCEPT ![i] = state]
  /\ has'  = [has EXCEPT ![i] = tags]
  /\ UNCHANGED heard

Init ==
  /\ life \in [Ids -> {"absent", "kept"}]
  /\ has \in [Ids -> SUBSET Tags]
  /\ \A i \in Ids : life[i] = "absent" => has[i] = {}
  /\ heard = [i \in Ids |-> {}]

Create(i) ==
  /\ life[i] = "absent"
  /\ has'[i] \in SUBSET (Tags \ {"close"})
  /\ Put(i, "kept", has'[i])

Change(i) ==
  /\ life[i] = "kept"
  /\ has'[i] \in SUBSET Tags /\ has[i] \subseteq has'[i]
  /\ Put(i, "kept", has'[i])

Prune(i) == life[i] = "kept" /\ "close" \in has[i] /\ Put(i, "gone", {})

\* An old copy is saved over the record, or the record is imported.
Contest(i) == Put(i, "contested", {})

Tell(i) ==
  /\ life[i] # "absent"
  /\ \E tags \in SUBSET Tags :
       /\ life[i] = "kept" => tags \subseteq has[i]
       /\ heard' = [heard EXCEPT ![i] = @ \cup tags]
  /\ UNCHANGED <<life, has>>

Next == \E i \in Ids : Create(i) \/ Change(i) \/ Prune(i) \/ Contest(i) \/ Tell(i)

SessionSpec == Init /\ [][Next]_lifeVars
=============================================================================
