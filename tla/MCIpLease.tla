----------------------------- MODULE MCIpLease -----------------------------
(* One worker, the default, and the GC thread; two users and two addresses,*)
(* so that the pool can be exhausted.                                      *)
EXTENDS IpLease, TLC

CONSTANTS w1, s1, s2, i1, i2

MCWorkers  == {w1}
MCSessions == {s1, s2}
MCIPs      == {i1, i2}
MCSymmetry == Permutations(MCSessions) \cup Permutations(MCIPs)

(* At most one of the two users comes back after a revocation.             *)
OneReturns == life[s1] + life[s2] <= 3
=============================================================================
