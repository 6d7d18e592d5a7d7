---------------------------- MODULE MCAgentRequests ----------------------------
(* Agents that ask for files and for permission, under policies and handlers of each sort. *)
EXTENDS AgentRequests, TLC

CONSTANTS k1, t1, u1, u2

Unset == [tool \in Tools |-> "unset"]
None  == [set |-> FALSE, bypass |-> FALSE, limited |-> FALSE, over |-> Unset]
Ask   == [set |-> TRUE, bypass |-> FALSE, limited |-> TRUE, over |-> Unset]
Yes   == [Ask EXCEPT !.bypass = TRUE]
No    == [Ask EXCEPT !.over = [tool \in Tools |-> "deny"]]

File(tool, inside)   == [kind |-> "file", tool |-> tool, inside |-> inside, options |-> <<>>]
Other(kind)          == [kind |-> kind, tool |-> "delegate", inside |-> FALSE, options |-> <<>>]
Permission(options)  == [kind |-> "permission", tool |-> "delegate", inside |-> FALSE, options |-> options]
Kinded(k)            == [kind |-> k, id |-> "x"]
Named(i)             == [kind |-> "", id |-> i]

Options == {
  <<Kinded("allow_always"), Kinded("allow_once"), Kinded("reject_always"), Kinded("deny_once")>>,
  <<Kinded("allow_always"), Kinded("reject_always")>>,
  <<Kinded("allow_once")>>,
  <<Kinded("deny_once")>>,
  <<Named("allow"), Named("deny")>>,
  <<Named("allow")>>,
  <<Named("allow"), Kinded("deny_always")>>,
  <<>> }
Droid == AsACP(<<Named("proceed_once"), Named("proceed_always"), Named("cancel")>>)

Race == <<Kinded("allow_once"), Kinded("allow_always"), Kinded("reject_once")>>

Setting(protocol, standing, handler, requests, procs, callers) ==
  [style |-> protocol, policy |-> standing, handler |-> handler, requests |-> requests,
   procs |-> procs, callers |-> callers]

\* What is decided, by one caller and two processes or one ...
Files     == {File("read_file", TRUE), File("write_file", FALSE)}
Choices   == {Permission(o) : o \in Options} \cup Files
Consents  == {
  Setting("acp", Ask, "approval", Choices \cup {File("write_file", TRUE)}, 1, 1),
  Setting("acp", Yes, "none", Choices, 1, 1),
  Setting("acp", No, "approval", Choices \cup {Other("terminal")}, 1, 1),
  Setting("factory", Ask, "none", Files \cup {Permission(Droid)}, 1, 1),
  Setting("acp", None, "permission", Files \cup {Permission(Race)}, 1, 1),
  Setting("factory", None, "approval", {Permission(Droid), Other("notice")}, 2, 1) }
\* ... and two callers whose calls cross.
Crossings == {Setting("acp", None, "none", {}, 2, 2)}
All       == Consents \cup Crossings

Symmetry == Permutations({u1, u2})
=============================================================================
