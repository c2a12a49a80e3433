----------------------------- MODULE MCUdpProxy -----------------------------
(***************************************************************************)
(* A small instance of UdpProxy: two runs of the program, each with one of *)
(* two servers, and frames that reach past a window of two.                *)
(***************************************************************************)
EXTENDS UdpProxy
=============================================================================
