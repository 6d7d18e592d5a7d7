----------------------------- MODULE MCClient -----------------------------
(* Small instances of Client for TLC. *)
EXTENDS Client

CONSTANTS p1, p2

\* Prompts that are given up or refused, by agents that end a turn in either way; and an
\* agent that exits or garbles its output, with a client that is shut down.
GivenUp == {[style |-> "response", trouble |-> {"idle", "refusal"}, chunks |-> 2],
            [style |-> "notify", trouble |-> {"idle", "refusal"}, chunks |-> 1]}
Ends    == {[style |-> "response", trouble |-> {"cancel", "exit", "garbage", "shutdown"},
             chunks |-> 1]}
Both    == GivenUp \cup Ends
=============================================================================
