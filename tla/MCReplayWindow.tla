--------------------------- MODULE MCReplayWindow ---------------------------
(* Four words of two bits.  The numbers go round the ring nearly twice, so *)
(* that a word is reused, skipped, and cleared by a jump over the whole    *)
(* window.  One packet is in flight while others are taken in one go.      *)
EXTENDS ReplayWindow, FiniteSets

OneInFlight == Cardinality(candidates) <= 1
=============================================================================
