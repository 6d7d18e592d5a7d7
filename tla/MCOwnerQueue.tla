----------------------------- MODULE MCOwnerQueue -----------------------------
(***************************************************************************)
(* Instances of OwnerQueue for TLC.  Request 1 is older than request 2.    *)
(***************************************************************************)
EXTENDS OwnerQueue, TLC

\* Two prompts, and a prompt before a close.
Prompts == [r \in Req |-> "prompt"]
PromptThenClose == [r \in Req |-> IF r = 1 THEN "prompt" ELSE "close"]
=============================================================================
