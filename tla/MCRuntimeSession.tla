--------------------------- MODULE MCRuntimeSession ---------------------------
\* What each command of the checked instances may be: two are any, a third brings an
\* exported session back.
EXTENDS RuntimeSession, TLC
CONSTANTS c1, c2, c3
Three == [c \in Cmds |-> IF c = c3 THEN {"import"} ELSE Ops]
Alike == Permutations({c1, c2})
=============================================================================
