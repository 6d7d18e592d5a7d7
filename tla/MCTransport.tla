---------------------------- MODULE MCTransport ----------------------------
(* A small instance of Transport for TLC. *)
EXTENDS Transport

CONSTANTS c1, c2
=============================================================================
