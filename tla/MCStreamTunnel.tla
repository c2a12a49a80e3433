--------------------------- MODULE MCStreamTunnel ---------------------------
(***************************************************************************)
(* An instance of StreamTunnel for TLC.                                    *)
(***************************************************************************)
EXTENDS StreamTunnel, TLC

Symmetry == Permutations(Workers)
=============================================================================
