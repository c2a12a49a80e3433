----------------------------- MODULE MCDataPath -----------------------------
(* The default of one worker thread, and the two threads of a server that  *)
(* was configured for more.                                                *)
EXTENDS DataPath, TLC

CONSTANTS w1, w2

MCOneWorker  == {w1}
MCTwoWorkers == {w1, w2}
MCSymmetry   == Permutations(MCTwoWorkers)
=============================================================================
