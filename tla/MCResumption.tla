---------------------------- MODULE MCResumption ----------------------------
(* Two workers, two tokens, one restart, and a clock that runs past the    *)
(* expiry of a token and several prunings.                                 *)
EXTENDS Resumption, TLC

CONSTANTS w1, w2, t1, t2

MCCalls    == {w1, w2}
MCTokens   == {t1, t2}
MCSymmetry == Permutations(MCCalls) \cup Permutations(MCTokens)
=============================================================================
