------------------------------ MODULE MCGateway ------------------------------
(***************************************************************************)
(* A small instance of Gateway: two starts of the client and of the        *)
(* server, two threads that are interchangeable.                           *)
(***************************************************************************)
EXTENDS Gateway, TLC

Threads == Permutations(Workers)
=============================================================================
