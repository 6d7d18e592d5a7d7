---------------------------- MODULE MCOwnerIPC ----------------------------
(* A small instance of OwnerIPC for TLC. *)
EXTENDS OwnerIPC

CONSTANTS c1, c2
=============================================================================
