---------------------------- MODULE MCSystemProxy ----------------------------
(***************************************************************************)
(* A small instance of SystemProxy: two clients on one host.               *)
(***************************************************************************)
EXTENDS SystemProxy
=============================================================================
