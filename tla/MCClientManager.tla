---------------------------- MODULE MCClientManager ----------------------------
(* One goroutine, a client in the manager's table and one that Get makes. *)
EXTENDS ClientManager

CONSTANTS k1, t1, u1
=============================================================================
