----------------------------- MODULE Permissions -----------------------------
(***************************************************************************)
(* What a client decides about an agent's request: the policy              *)
(* (permission.go) and the choice among the options the agent offers       *)
(* (client.go).  An option has a kind, which an agent may leave out (""),  *)
(* and an id, which is compared without regard to case.                    *)
(***************************************************************************)
EXTENDS Naturals, Sequences

Decisions == {"allow", "deny", "ask"}

\* An agent may say deny_once for reject_once and deny_always for reject_always.
Same(actual, expected) ==
  \/ actual = expected
  \/ expected = "reject_once"   /\ actual = "deny_once"
  \/ expected = "reject_always" /\ actual = "deny_always"

Kinds(decision, persistent) ==
  CASE decision = "allow" /\ persistent  -> <<"allow_always", "allow_once">>
    [] decision = "allow" /\ ~persistent -> <<"allow_once", "allow_always">>
    [] decision # "allow" /\ persistent  -> <<"reject_always", "reject_once">>
    [] OTHER                             -> <<"reject_once", "reject_always">>

PreferredIds(decision, persistent) ==
  CASE decision = "allow" /\ persistent  -> <<"approve_for_session", "allow_always", "allow_once", "allow">>
    [] decision = "allow" /\ ~persistent -> <<"allow_once", "allow_always", "allow", "approve_for_session">>
    [] decision # "allow" /\ persistent  ->
         <<"reject_always", "deny_always", "reject_once", "deny_once", "reject", "deny", "cancel">>
    [] OTHER ->
         <<"reject_once", "deny_once", "reject_always", "deny_always", "reject", "deny", "cancel">>

\* The first option that matches the first entry of a list of wishes that any matches; met
\* holds the pairs of a wish and an option that match.
FirstOf(met) ==
  IF met = {} THEN 0
  ELSE (CHOOSE m \in met : \A other \in met : m[1] < other[1] \/ (m[1] = other[1] /\ m[2] <= other[2]))[2]

ByKind(options, kinds) ==
  FirstOf({m \in (DOMAIN kinds) \X (DOMAIN options) : Same(options[m[2]].kind, kinds[m[1]])})
ById(options, ids) ==
  FirstOf({m \in (DOMAIN ids) \X (DOMAIN options) : options[m[2]].id = ids[m[1]]})

\* To deny, any option will do that does not say it allows.
NotAllowing(options) ==
  LET fit == {n \in DOMAIN options : options[n].kind = "" \/ Same(options[n].kind, "reject_once")
                                                          \/ Same(options[n].kind, "reject_always")}
  IN  IF fit = {} THEN 0 ELSE CHOOSE n \in fit : \A k \in fit : n <= k

\* Mutant: the last resort is open to an approval too.
SelectAny(options, decision, persistent) ==
  LET byKind == ByKind(options, Kinds(decision, persistent))
      byId   == ById(options, PreferredIds(decision, persistent))
  IN  IF byKind # 0 THEN byKind ELSE IF byId # 0 THEN byId ELSE NotAllowing(options)
\* selectPermissionOptionID: the place of the option that is selected, or 0.
Select(options, decision, persistent) ==
  LET byKind == ByKind(options, Kinds(decision, persistent))
      byId   == ById(options, PreferredIds(decision, persistent))
  IN  IF byKind # 0 THEN byKind
      ELSE IF byId # 0 THEN byId
      ELSE IF decision = "allow" THEN 0
      ELSE NotAllowing(options)

\* factoryPermissionAsACP: the kinds of options that have none.
FactoryKind(id) ==
  CASE id = "proceed_always" -> "allow_always"
    [] id = "cancel"         -> "reject_once"
    [] OTHER                 -> "allow_once"
AsACP(options) == [n \in DOMAIN options |-> [kind |-> FactoryKind(options[n].id), id |-> options[n].id]]

-----------------------------------------------------------------------------
\* A policy is a record: set (there may be none), bypass (its mode), limited (it names
\* directories) and over (the overrides, by tool).

\* Check
Check(policy, tool) ==
  IF policy.over[tool] # "unset" THEN policy.over[tool]
  ELSE IF policy.bypass THEN "allow" ELSE "ask"

\* AllowedPathForTool, for a path under one of the directories or elsewhere.
AllowedPath(policy, inside) == ~policy.limited \/ inside

\* authorizeFileTool, before it asks anybody.
FileDecision(policy, tool, inside) ==
  IF ~policy.set THEN "allow"
  ELSE IF AllowedPath(policy, inside) THEN Check(policy, tool) ELSE "deny"

\* permissionPolicyDecision: "ask" when the policy leaves it to others.
PolicyDecision(policy, tool) == IF policy.set THEN Check(policy, tool) ELSE "ask"
=============================================================================
