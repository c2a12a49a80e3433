--------------------------- MODULE IpLeaseProofs ---------------------------
(***************************************************************************)
(* A tunnel address is in the pool or allocated, once and never both, for  *)
(* any number of workers, sessions and addresses; with one packet thread,  *)
(* an address that was not compromised has one holder, and at most one is  *)
(* lost to the sessions with every revocation.                             *)
(***************************************************************************)
EXTENDS IpLease, TLAPS, FiniteSetTheorems

(* The state the pool and its callers leave alone together is typed.       *)
IInv == TypeOK /\ PoolPartition

(* Handing out the head of the queue keeps the partition.                  *)
LEMMA AllocateKeeps ==
  ASSUME free \in Seq(IPs), allocated \in SUBSET IPs, PoolPartition,
         NEW i \in IPs, Allocate(i)
  PROVE  free' \in Seq(IPs) /\ allocated' \in SUBSET IPs /\ PoolPartition'
<1>1. /\ free # <<>> /\ i = free[1] /\ free' = Tail(free)
      /\ allocated' = allocated \cup {i}
  BY DEF Allocate
<1>2. /\ Len(free) \in Nat \ {0}
      /\ DOMAIN free = 1..Len(free)
      /\ \A j \in 1..Len(free) : free[j] \in IPs
  BY <1>1
<1>3. /\ free' \in Seq(IPs)
      /\ DOMAIN free' = 1..(Len(free) - 1)
      /\ \A j \in 1..(Len(free) - 1) : free'[j] = free[j + 1]
  BY <1>1, <1>2
<1>4. Range(free') = Range(free) \ {i}
  <2>1. \A x \in Range(free') : x \in Range(free) /\ x # i
    BY <1>1, <1>2, <1>3 DEF Range, PoolPartition, IsInjective
  <2>2. ASSUME NEW x \in Range(free), x # i
        PROVE  x \in Range(free')
    <3>1. PICK j \in 1..Len(free) : x = free[j]
      BY <1>2, <2>2 DEF Range
    <3>2. j # 1 /\ j - 1 \in 1..(Len(free) - 1) /\ x = free'[j - 1]
      BY <1>1, <1>2, <1>3, <2>2, <3>1
    <3> QED
      BY <1>3, <3>2 DEF Range
  <2> QED
    BY <2>1, <2>2
<1>5. i \in Range(free)
  BY <1>1, <1>2 DEF Range
<1>6. IsInjective(free')
  <2>1. SUFFICES ASSUME NEW j \in 1..(Len(free) - 1),
                        NEW k \in 1..(Len(free) - 1), free'[j] = free'[k]
                 PROVE  j = k
    BY <1>3 DEF IsInjective
  <2>2. /\ j + 1 \in 1..Len(free) /\ k + 1 \in 1..Len(free)
        /\ free[j + 1] = free[k + 1]
    BY <1>2, <1>3, <2>1
  <2>3. j + 1 = k + 1
    BY <1>2, <2>2 DEF PoolPartition, IsInjective
  <2> QED
    BY <2>3
<1> QED
  BY <1>1, <1>3, <1>4, <1>5, <1>6 DEF PoolPartition

(* Releasing an address, or one that was released before, keeps it too.    *)
LEMMA ReleaseKeeps ==
  ASSUME free \in Seq(IPs), allocated \in SUBSET IPs, PoolPartition,
         NEW i, PoolRelease(i)
  PROVE  free' \in Seq(IPs) /\ allocated' \in SUBSET IPs /\ PoolPartition'
<1>1. CASE i \notin allocated
  BY <1>1 DEF PoolRelease, PoolPartition, IsInjective, Range
<1>2. CASE i \in allocated
  <2>1. /\ free' = Append(free, i) /\ i \in IPs
        /\ allocated' = allocated \ {i}
    BY <1>2 DEF PoolRelease
  <2>2. /\ Len(free) \in Nat
        /\ DOMAIN free = 1..Len(free)
        /\ free' \in Seq(IPs)
        /\ DOMAIN free' = 1..(Len(free) + 1)
        /\ \A j \in 1..Len(free) : free'[j] = free[j]
        /\ free'[Len(free) + 1] = i
    BY <2>1
  <2>3. Range(free') = Range(free) \cup {i}
    <3>1. \A x \in Range(free') : x \in Range(free) \cup {i}
      BY <2>2 DEF Range
    <3>2. \A x \in Range(free) : x \in Range(free')
      BY <2>2 DEF Range
    <3>3. i \in Range(free')
      BY <2>2 DEF Range
    <3> QED
      BY <3>1, <3>2, <3>3
  <2>4. i \notin Range(free)
    BY <1>2 DEF PoolPartition
  <2>5. IsInjective(free')
    <3> SUFFICES ASSUME NEW j \in 1..(Len(free) + 1),
                        NEW k \in 1..(Len(free) + 1), free'[j] = free'[k]
                 PROVE  j = k
      BY <2>2 DEF IsInjective
    <3>1. CASE j \in 1..Len(free) /\ k \in 1..Len(free)
      BY <2>2, <3>1 DEF PoolPartition, IsInjective
    <3>2. CASE j = Len(free) + 1 /\ k \in 1..Len(free)
      BY <2>2, <2>4, <3>2 DEF Range
    <3>3. CASE k = Len(free) + 1 /\ j \in 1..Len(free)
      BY <2>2, <2>4, <3>3 DEF Range
    <3>4. CASE j = Len(free) + 1 /\ k = Len(free) + 1
      BY <3>4
    <3> QED
      BY <2>2, <3>1, <3>2, <3>3, <3>4
  <2> QED
    BY <1>2, <2>1, <2>2, <2>3, <2>4, <2>5 DEF PoolPartition
<1> QED
  BY <1>1, <1>2

(* A worker's step, but for the pool, keeps the types.                     *)
LEMMA WorkTypes ==
  ASSUME TypeOK, NEW w \in Workers, Work(w),
         free' \in Seq(IPs), allocated' \in SUBSET IPs
  PROVE  TypeOK'
<1> USE NoneFresh, TimesNat
<1>1. CASE HandshakeFind(w)
  BY <1>1 DEF HandshakeFind, At, Hold, TypeOK, Address, Token, pool, table,
              clock, client, gc
<1>2. CASE HandshakeMap(w)
  BY <1>2 DEF HandshakeMap, At, Hold, TypeOK, Address, Token, pool, table,
              clock, client, gc
<1>3. CASE HandshakeInstall(w)
  BY <1>3 DEF HandshakeInstall, At, Hold, Install, TypeOK, Address, Token,
              pool, table, clock, client, gc
<1>4. CASE IssueToken(w)
  <2> DEFINE t == [ip |-> lease[w], expiry |-> now + TTL,
                   life |-> life[sess[w]]]
  <2>1. pc[w] = "token" /\ w \in Workers
    BY <1>4 DEF IssueToken, At
  <2>2. sess[w] \in Sessions /\ lease[w] \in IPs
    BY <2>1 DEF TypeOK
  <2>3. now + TTL \in Nat /\ life[sess[w]] \in 0..MaxLife
    BY <2>2 DEF TypeOK
  <2>4. t \in Token
    BY <2>2, <2>3 DEF Token
  <2>5. tokens' \in [Sessions -> SUBSET Token]
    <3>1. CASE tokens' = [tokens EXCEPT ![sess[w]] = {t}]
      BY <2>4, <3>1 DEF TypeOK
    <3>2. CASE tokens' = tokens
      BY <3>2 DEF TypeOK
    <3> QED
      BY <1>4, <3>1, <3>2 DEF IssueToken
  <2> QED
    BY <1>4, <2>5 DEF IssueToken, At, Hold, Return, TypeOK, Address, pool,
                      table, clock, gc
<1>5. CASE ResumeVerify(w)
  BY <1>5 DEF ResumeVerify, At, Hold, TypeOK, Address, Token, pool, table,
              clock, client, gc
<1>6. CASE ResumeAbort(w)
  BY <1>6 DEF ResumeAbort, At, Hold, Return, TypeOK, Address, Token, pool,
              table, clock, client, gc
<1>7. CASE ResumeAssign(w)
  <2>1. /\ pc[w] = "resume" /\ sess[w] \in Sessions /\ lease[w] \in IPs
        /\ pc' = [pc EXCEPT ![w] = "restore"]
        /\ UNCHANGED <<pool, table, clock, client, gc>>
    BY <1>7 DEF ResumeAssign, At, TypeOK
  <2>2. CASE /\ ip[sess[w]] # None
             /\ Hold(w, sess[w], ip[sess[w]])
             /\ UNCHANGED compromised
    BY <2>1, <2>2 DEF Hold, TypeOK, Address, pool, table, clock, client, gc
  <2>3. CASE /\ compromised' = compromised \cup {lease[w]}
             /\ UNCHANGED <<sess, lease>>
    BY <2>1, <2>3 DEF TypeOK, Address, pool, table, clock, client, gc
  <2> QED
    BY <1>7, <2>2, <2>3 DEF ResumeAssign
<1>8. CASE ResumeInstall(w)
  BY <1>8 DEF ResumeInstall, At, Hold, Install, TypeOK, Address, Token, pool,
              table, clock, client, gc
<1>9. CASE ResumeMap(w)
  BY <1>9 DEF ResumeMap, At, Hold, TypeOK, Address, Token, pool, table, clock,
              client, gc
<1>10. CASE DataDecrypt(w)
  BY <1>10 DEF DataDecrypt, At, Hold, TypeOK, Address, Token, pool, table,
               clock, client, gc
<1>11. CASE DataRead(w)
  BY <1>11 DEF DataRead, At, Hold, TypeOK, Address, Token, pool, table, clock,
               client, gc
<1>12. CASE DataWrite(w)
  BY <1>12 DEF DataWrite, At, Hold, Install, Return, TypeOK, Address, Token,
               pool, table, clock, client, gc
<1>13. CASE HandshakeAllocate(w)
  <2>1. /\ pc[w] = "alloc" /\ sess[w] \in Sessions
        /\ UNCHANGED <<table, clock, client, gc>>
    BY <1>13 DEF HandshakeAllocate, At, TypeOK
  <2>2. ASSUME NEW i \in IPs, pc' = [pc EXCEPT ![w] = "map"],
               Hold(w, sess[w], i), compromised' \in SUBSET IPs
        PROVE  TypeOK'
    BY <2>1, <2>2 DEF Hold, TypeOK, Address, table, clock, client, gc
  <2>3. CASE /\ pc' = [pc EXCEPT ![w] = "idle"] /\ Return(w)
             /\ UNCHANGED compromised
    BY <2>1, <2>3 DEF Hold, Return, TypeOK, Address, table, clock, client, gc
  <2>4. compromised \in SUBSET IPs
    BY DEF TypeOK
  <2> QED
    BY <1>13, <2>2, <2>3, <2>4 DEF HandshakeAllocate, At
<1>14. CASE Egress(w)
  BY <1>14 DEF Egress, TypeOK, Address, pool, table, client, worker, gc
<1>15. CASE HandshakeRead(w)
  <2>1. /\ sess[w] \in Sessions /\ ip[sess[w]] \in Address
        /\ pc' = [pc EXCEPT ![w] = IF ip[sess[w]] = None THEN "alloc"
                                                        ELSE "install"]
        /\ sess' = [sess EXCEPT ![w] = sess[w]]
        /\ lease' = [lease EXCEPT ![w] = ip[sess[w]]]
        /\ UNCHANGED <<pool, table, clock, client, gc, compromised>>
    BY <1>15 DEF HandshakeRead, At, Hold, TypeOK
  <2>2. CASE ip[sess[w]] = None
    BY <2>1, <2>2 DEF TypeOK, Address, pool, table, clock, client, gc
  <2>3. CASE ip[sess[w]] # None
    BY <2>1, <2>3 DEF TypeOK, Address, pool, table, clock, client, gc
  <2> QED
    BY <2>2, <2>3
<1> QED
  BY <1>1, <1>2, <1>3, <1>4, <1>5, <1>6, <1>7, <1>8, <1>9, <1>10, <1>11,
     <1>12, <1>13, <1>14, <1>15 DEF Work

(* Nor does a step of the GC thread change a type, but for the pool.       *)
LEMMA GcTypes ==
  ASSUME TypeOK, Gc, free' \in Seq(IPs), allocated' \in SUBSET IPs
  PROVE  TypeOK'
<1> USE NoneFresh, TimesNat
        DEF GcAt, TypeOK, Address, table, clock, client, worker, gc
<1>1. CASE CleanupFind
  BY <1>1 DEF CleanupFind, IdleOut
<1>2. CASE CleanupWipe
  BY <1>2 DEF CleanupWipe, IdleOut
<1>3. CASE CleanupUnmap
  BY <1>3 DEF CleanupUnmap
<1>4. CASE CleanupRelease
  BY <1>4 DEF CleanupRelease, GcRelease
<1>5. CASE RevokeFind
  BY <1>5 DEF RevokeFind
<1>6. CASE RevokeRelease
  BY <1>6 DEF RevokeRelease, GcRelease
<1>7. CASE RevokeErase
  BY <1>7 DEF RevokeErase
<1>8. CASE RevokeUnmap
  BY <1>8 DEF RevokeUnmap
<1>9. CASE RevokeRecycle
  BY <1>9 DEF RevokeRecycle
<1>10. CASE Register
  BY <1>10 DEF Register
<1>11. CASE Poll
  BY <1>11 DEF Poll, vars
<1> QED
  BY <1>1, <1>2, <1>3, <1>4, <1>5, <1>6, <1>7, <1>8, <1>9, <1>10, <1>11 DEF Gc

(* Every step leaves the pool alone, takes an address from it or releases  *)
(* one.                                                                    *)
LEMMA PoolSteps ==
  ASSUME [Next]_vars
  PROVE  \/ UNCHANGED pool
         \/ \E i \in IPs : Allocate(i)
         \/ PoolRelease(gcip)
<1>1. CASE UNCHANGED vars
  BY <1>1 DEF vars
<1>2. ASSUME NEW w \in Workers, Work(w)
      PROVE  UNCHANGED pool \/ \E i \in IPs : Allocate(i)
  BY <1>2 DEF Work, HandshakeFind, HandshakeRead, HandshakeAllocate,
              HandshakeMap, HandshakeInstall, IssueToken, ResumeVerify,
              ResumeAbort, ResumeAssign, ResumeInstall, ResumeMap,
              DataDecrypt, DataRead, DataWrite, Egress
<1>3. CASE Gc
  BY <1>3 DEF Gc, CleanupFind, CleanupWipe, CleanupUnmap, CleanupRelease,
              RevokeFind, RevokeRelease, RevokeErase, RevokeUnmap,
              RevokeRecycle, Register, Poll, GcRelease, vars
<1>4. CASE Tick
  BY <1>4 DEF Tick
<1> QED
  BY <1>1, <1>2, <1>3, <1>4 DEF Next

LEMMA PoolKeeps ==
  ASSUME IInv, [Next]_vars
  PROVE  free' \in Seq(IPs) /\ allocated' \in SUBSET IPs /\ PoolPartition'
<1>1. free \in Seq(IPs) /\ allocated \in SUBSET IPs /\ PoolPartition
  BY DEF IInv, TypeOK
<1>2. CASE UNCHANGED pool
  <2>1. free' = free /\ allocated' = allocated
    BY <1>2 DEF pool
  <2> QED
    BY <1>1, <2>1 DEF PoolPartition, IsInjective, Range
<1>3. ASSUME NEW i \in IPs, Allocate(i)
      PROVE  free' \in Seq(IPs) /\ allocated' \in SUBSET IPs /\ PoolPartition'
  BY <1>1, <1>3, AllocateKeeps
<1>4. CASE PoolRelease(gcip)
  BY <1>1, <1>4, ReleaseKeeps
<1> QED
  BY <1>2, <1>3, <1>4, PoolSteps

LEMMA InitInv == Init => IInv
<1> SUFFICES ASSUME Init PROVE IInv
  OBVIOUS
<1>1. free \in Seq(IPs) /\ IsInjective(free) /\ Range(free) = IPs
  <2>1. Cardinality(IPs) \in Nat
    BY IPsFinite, FS_CardinalityType
  <2>2. free \in [1..Cardinality(IPs) -> IPs] /\ IsInjective(free)
    BY DEF Init, Bijection, Injection
  <2>3. \A i \in IPs : \E j \in 1..Cardinality(IPs) : free[j] = i
    BY DEF Init, Bijection, Surjection
  <2>4. Range(free) = IPs
    BY <2>2, <2>3 DEF Range
  <2>5. free \in Seq(IPs)
    BY <2>1, <2>2
  <2> QED
    BY <2>2, <2>4, <2>5
<1>2. PoolPartition
  BY <1>1 DEF Init, PoolPartition
<1>3. TypeOK
  BY <1>1, TimesNat DEF Init, TypeOK, Address
<1> QED
  BY <1>2, <1>3 DEF IInv

LEMMA NextInv == IInv /\ [Next]_vars => IInv'
<1> SUFFICES ASSUME IInv, [Next]_vars PROVE IInv'
  OBVIOUS
<1>1. free' \in Seq(IPs) /\ allocated' \in SUBSET IPs /\ PoolPartition'
  BY PoolKeeps
<1>2. TypeOK
  BY DEF IInv
<1>3. ASSUME UNCHANGED vars PROVE TypeOK'
  BY <1>2, <1>3 DEF TypeOK, Address, vars, pool, table, clock, client, worker,
                    gc
<1>4. ASSUME NEW w \in Workers, Work(w)
      PROVE  TypeOK'
  BY <1>1, <1>2, <1>4, WorkTypes
<1>5. ASSUME Gc PROVE TypeOK'
  BY <1>1, <1>2, <1>5, GcTypes
<1>6. ASSUME Tick PROVE TypeOK'
  BY <1>2, <1>6, TimesNat DEF Tick, TypeOK, Address, pool, table, client,
                              worker, gc
<1> QED
  BY <1>1, <1>3, <1>4, <1>5, <1>6 DEF Next, IInv

(* Types of the pool, the tables, the handlers and the GC thread, whatever *)
(* the number of workers, sessions and addresses.                          *)
THEOREM TypeCorrect == Spec => []TypeOK
<1>1. IInv => TypeOK
  BY DEF IInv
<1> QED
  BY <1>1, InitInv, NextInv, PTL DEF Spec

(* IpPool::allocate and release: although cleanup and revocation release   *)
(* addresses that others release or use, an address is queued once or      *)
(* allocated, never both and never neither.                                *)
THEOREM PoolIsPartitioned == Spec => []PoolPartition
<1>1. IInv => PoolPartition
  BY DEF IInv
<1> QED
  BY <1>1, InitInv, NextInv, PTL DEF Spec

-----------------------------------------------------------------------------
(* Leases, for a server with one packet thread.                            *)

(* The packet threads are at most one, the default.                        *)
OneWorker == \A v, w \in Workers : v = w

(* What the GC thread has in hand; a session that was removed is empty.    *)
GcHolds ==
  /\ gcpc = "idle" <=> victim = None
  /\ gcpc = "idle" => gcip = None
  /\ gcpc \in {"wipe", "unmap", "release", "revoke", "erase"} =>
       victim \in present
  /\ gcpc \in {"withdraw", "recycle"} => victim \notin present
  /\ gcpc \in {"wipe", "unmap", "release"} => gcip \in IPs
  /\ gcpc = "wipe" => ip[victim] = gcip
  /\ \A s \in Sessions \ present :
       s # victim => ip[s] = None /\ \A w \in Workers : sess[w] # s

(* A worker that has read or allocated its session's address.              *)
HasLease(w) ==
  pc[w] \in {"map", "install", "token", "restore", "remap", "copied"}

(* Only the worker gives its session an address: what it holds is what the *)
(* session has, unless the GC thread has wiped it since.                   *)
LeaseFits ==
  \A w \in Workers :
    /\ pc[w] \in {"alloc", "map"} => ip[sess[w]] = None
    /\ HasLease(w) /\ ip[sess[w]] # None => lease[w] = ip[sess[w]]

(* The address of a revoked user, which the session keeps to the end.      *)
Revoked(i, s) ==
  /\ gcpc \in {"erase", "withdraw", "recycle"}
  /\ gcip = i /\ victim = s

Has(s, i) ==
  \/ ip[s] = i
  \/ \E w \in Workers : HasLease(w) /\ sess[w] = s /\ lease[w] = i

(* An address has one holder, but for a revoked user that is going away.   *)
Exclusive ==
  \A i \in IPs \ compromised : \A s, t \in Sessions :
    s # t /\ Has(s, i) /\ Has(t, i) =>
      /\ gcpc = "recycle" /\ gcip = i
      /\ victim \in {s, t} /\ ip[victim] = i
      /\ \A w \in Workers : sess[w] # victim

(* What is held is allocated, and routed once it was mapped.               *)
HeldAllocated ==
  \A i \in IPs \ compromised : \A s \in Sessions :
    Has(s, i) => i \in allocated \/ Revoked(i, s)

Mapped(s, i) ==
  \/ ip[s] = i
  \/ \E w \in Workers :
       HasLease(w) /\ pc[w] # "map" /\ sess[w] = s /\ lease[w] = i

HeldRouted ==
  \A i \in IPs \ compromised : \A s \in Sessions :
    Mapped(s, i) => \/ routes[i] = s
                    \/ s = victim /\ (gcip = i \/ gcpc = "recycle")

(* What the GC thread is about to take away is its victim's alone.         *)
GcTakes ==
  gcip \in IPs \ compromised =>
    /\ gcpc \in {"wipe", "unmap", "release", "revoke"} =>
         gcip \in allocated /\ \A s \in Sessions : Has(s, gcip) => s = victim
    /\ gcpc \in {"erase", "withdraw"} => gcip \notin allocated

(* A token is of its session's latest activity; one that is of use names   *)
(* the address that the session has.                                       *)
Issuing ==
  \A w \in Workers :
    pc[w] \in {"remap", "token"} =>
      /\ last[sess[w]] = now
      /\ ip[sess[w]] = lease[w] \/ lease[w] \in compromised

TokensOfSession ==
  \A s \in Sessions : \A t \in tokens[s] :
    /\ t.expiry <= last[s] + TTL
    /\ t.life <= life[s]
    /\ s \in present /\ t.life = life[s] /\ now <= t.expiry =>
         ip[s] = t.ip \/ t.ip \in compromised

Leases ==
  /\ GcHolds /\ LeaseFits
  /\ Exclusive /\ HeldAllocated /\ HeldRouted /\ GcTakes
  /\ Issuing /\ TokensOfSession

LeaseInv == IInv /\ Leases

(* A token keeps naming the address of its session as long as the session  *)
(* keeps its address, has none, or has one that was compromised.           *)
LEMMA TokensKept ==
  ASSUME TypeOK, TypeOK', TokensOfSession,
         UNCHANGED <<present, now, tokens, life>>,
         compromised \subseteq compromised',
         \A s \in Sessions : last[s] <= last'[s],
         \A s \in present :
           ip'[s] = ip[s] \/ ip[s] = None \/ ip[s] \in compromised'
  PROVE  TokensOfSession'
<1>1. SUFFICES ASSUME NEW s \in Sessions, NEW t \in tokens[s]
      PROVE  /\ t.expiry <= last'[s] + TTL
             /\ t.life <= life[s]
             /\ s \in present /\ t.life = life[s] /\ now <= t.expiry =>
                  ip'[s] = t.ip \/ t.ip \in compromised'
  BY DEF TokensOfSession
<1>2. t.expiry \in Nat /\ t.ip \in IPs
  BY DEF TypeOK, Token
<1>3. last[s] \in Nat /\ last'[s] \in Nat /\ TTL \in Nat
  BY TimesNat DEF TypeOK
<1>4. t.expiry <= last[s] + TTL /\ t.life <= life[s]
  BY DEF TokensOfSession
<1>5. s \in present /\ t.life = life[s] /\ now <= t.expiry =>
        ip[s] = t.ip \/ t.ip \in compromised
  BY DEF TokensOfSession
<1> QED
  BY <1>2, <1>3, <1>4, <1>5, NoneFresh

(* A handler's step.  With one packet thread nobody else handles a packet  *)
(* while the session's routing is read, changed and put back.              *)
LEMMA WorkLeases ==
  ASSUME OneWorker, LeaseInv, IInv', NEW w \in Workers, Work(w)
  PROVE  Leases'
<1> USE NoneFresh, TimesNat, IdleLonger
        DEF At, TypeOK, Address, pool, table, clock, client, worker, gc,
            Leases
<1>0. /\ PoolPartition /\ TypeOK /\ TypeOK' /\ GcHolds /\ LeaseFits
      /\ Exclusive /\ HeldAllocated /\ HeldRouted /\ GcTakes
      /\ Issuing /\ TokensOfSession
      /\ \A v \in Workers : v = w
  BY DEF LeaseInv, IInv, OneWorker
<1>1. CASE HandshakeFind(w)
  <2>1. TokensOfSession'
    BY <1>0, <1>1 DEF HandshakeFind, Hold, TokensOfSession
  <2>2. GcHolds' /\ LeaseFits' /\ Issuing'
    BY <1>0, <1>1 DEF HandshakeFind, Hold, GcHolds, LeaseFits, HasLease,
                      Issuing
  <2>3. Exclusive' /\ HeldAllocated' /\ HeldRouted' /\ GcTakes'
    BY <1>0, <1>1 DEF HandshakeFind, Hold, Exclusive, Has, HasLease, GcHolds,
                      HeldAllocated, Revoked, HeldRouted, Mapped, GcTakes
  <2> QED
    BY <2>1, <2>2, <2>3
<1>2. CASE HandshakeAllocate(w)
  <2>1. GcHolds' /\ LeaseFits' /\ Issuing' /\ TokensOfSession'
    BY <1>0, <1>2 DEF HandshakeAllocate, Hold, Return, Allocate, GcHolds,
                      LeaseFits, HasLease, Issuing, TokensOfSession
  <2>2. HeldAllocated' /\ HeldRouted'
    BY <1>0, <1>2 DEF HandshakeAllocate, Hold, Return, Allocate, HeldAllocated,
                      Has, HasLease, Revoked, HeldRouted, Mapped
  <2>3. Exclusive'
    <3>1. /\ pc[w] = "alloc" /\ sess[w] \in Sessions /\ ip[sess[w]] = None
          /\ UNCHANGED <<ip, present, gcpc, gcip, victim>>
      BY <1>0, <1>2 DEF HandshakeAllocate, LeaseFits
    <3>2. CASE /\ pc' = [pc EXCEPT ![w] = "idle"] /\ Return(w)
               /\ UNCHANGED <<allocated, compromised>>
      BY <1>0, <3>1, <3>2 DEF Return, Hold, Exclusive, Has, HasLease
    <3>3. ASSUME NEW a \in IPs, pc' = [pc EXCEPT ![w] = "map"], Allocate(a),
                 Hold(w, sess[w], a),
                 compromised' = compromised \cup
                   {j \in {a} : gcpc \in {"erase", "withdraw"} /\ gcip = a}
          PROVE  Exclusive'
      <4>1. a \notin allocated /\ allocated' = allocated \cup {a}
        <5>1. a \in Range(free) /\ allocated' = allocated \cup {a}
          BY <1>0, <3>3 DEF Allocate, Range
        <5> QED
          BY <1>0, <5>1 DEF PoolPartition
      <4>2. \A s \in Sessions, i \in IPs :
              Has(s, i)' <=> ip[s] = i \/ (s = sess[w] /\ i = a)
        BY <1>0, <3>1, <3>3 DEF Has, HasLease, Hold
      <4>3. \A s \in Sessions, i \in IPs : ip[s] = i => Has(s, i)
        BY DEF Has
      <4>4. UNCHANGED sess
        BY <1>0, <3>3 DEF Hold
      <4>5. a \notin compromised' => \A s \in Sessions :
              ip[s] = a => s = victim /\ gcip = a /\ gcpc = "recycle"
        <5> SUFFICES ASSUME a \notin compromised', NEW s \in Sessions,
                            ip[s] = a
                     PROVE  s = victim /\ gcip = a /\ gcpc = "recycle"
          OBVIOUS
        <5>1. a \notin compromised /\ Has(s, a)
          BY <3>3, <4>3
        <5>2. Revoked(a, s)
          BY <1>0, <4>1, <5>1 DEF HeldAllocated
        <5> QED
          BY <3>3, <5>2 DEF Revoked
      <4>6. SUFFICES ASSUME NEW i \in IPs \ compromised', NEW s \in Sessions,
                            NEW t \in Sessions, s # t, Has(s, i)', Has(t, i)'
                     PROVE  /\ gcpc = "recycle" /\ gcip = i
                            /\ victim \in {s, t} /\ ip[victim] = i
                            /\ \A v \in Workers : sess[v] # victim
        BY <3>1, <4>4 DEF Exclusive
      <4>7. CASE ip[s] = i /\ ip[t] = i
        BY <1>0, <3>3, <4>3, <4>6, <4>7 DEF Exclusive
      <4>8. CASE i = a /\ s = sess[w] /\ ip[t] = i
        BY <1>0, <3>1, <4>5, <4>6, <4>8
      <4>9. CASE i = a /\ t = sess[w] /\ ip[s] = i
        BY <1>0, <3>1, <4>5, <4>6, <4>9
      <4> QED
        BY <4>2, <4>6, <4>7, <4>8, <4>9
    <3> QED
      BY <1>2, <3>1, <3>2, <3>3 DEF HandshakeAllocate
  <2>4. GcTakes'
    <3>1. /\ pc[w] = "alloc" /\ sess[w] \in Sessions /\ ip[sess[w]] = None
          /\ UNCHANGED <<ip, present, gcpc, gcip, victim>>
      BY <1>0, <1>2 DEF HandshakeAllocate, LeaseFits
    <3>2. CASE /\ pc' = [pc EXCEPT ![w] = "idle"] /\ Return(w)
               /\ UNCHANGED <<allocated, compromised>>
      BY <1>0, <3>1, <3>2 DEF Return, Hold, GcTakes, Has, HasLease
    <3>3. ASSUME NEW a \in IPs, pc' = [pc EXCEPT ![w] = "map"], Allocate(a),
                 Hold(w, sess[w], a),
                 compromised' = compromised \cup
                   {j \in {a} : gcpc \in {"erase", "withdraw"} /\ gcip = a}
          PROVE  GcTakes'
      <4>1. a \notin allocated /\ allocated' = allocated \cup {a}
        <5>1. a \in Range(free) /\ allocated' = allocated \cup {a}
          BY <1>0, <3>3 DEF Allocate, Range
        <5> QED
          BY <1>0, <5>1 DEF PoolPartition
      <4>2. \A s \in Sessions, i \in IPs :
              Has(s, i)' <=> ip[s] = i \/ (s = sess[w] /\ i = a)
        BY <1>0, <3>1, <3>3 DEF Has, HasLease, Hold
      <4>3. \A s \in Sessions, i \in IPs : ip[s] = i => Has(s, i)
        BY DEF Has
      <4>4. UNCHANGED sess
        BY <1>0, <3>3 DEF Hold
      <4>5. ASSUME gcip \in IPs \ compromised',
                   gcpc \in {"wipe", "unmap", "release", "revoke"}
            PROVE  /\ gcip \in allocated'
                   /\ \A s \in Sessions : Has(s, gcip)' => s = victim
        <5>1. /\ gcip \in allocated /\ gcip # a
              /\ \A s \in Sessions : Has(s, gcip) => s = victim
          BY <1>0, <3>3, <4>1, <4>5 DEF GcTakes
        <5>2. \A s \in Sessions : Has(s, gcip)' => ip[s] = gcip
          BY <3>1, <4>2, <4>5, <5>1
        <5> QED
          BY <4>1, <4>3, <4>5, <5>1, <5>2
      <4>6. ASSUME gcip \in IPs \ compromised', gcpc \in {"erase", "withdraw"}
            PROVE  gcip \notin allocated'
        BY <1>0, <3>3, <4>1, <4>6 DEF GcTakes
      <4> QED
        BY <3>1, <4>5, <4>6 DEF GcTakes
    <3> QED
      BY <1>2, <3>1, <3>2, <3>3 DEF HandshakeAllocate
  <2> QED
    BY <2>1, <2>2, <2>3, <2>4
<1>3. CASE HandshakeMap(w)
  <2>1. GcHolds' /\ TokensOfSession'
    BY <1>0, <1>3 DEF HandshakeMap, GcHolds, TokensOfSession
  <2>2. LeaseFits' /\ Issuing'
    BY <1>0, <1>3 DEF HandshakeMap, LeaseFits, HasLease, Issuing
  <2>3. Exclusive' /\ HeldAllocated' /\ GcTakes'
    BY <1>0, <1>3 DEF HandshakeMap, Exclusive, Has, HasLease, HeldAllocated,
                      Revoked, GcTakes
  <2>4. HeldRouted'
    <3>1. /\ HasLease(w) /\ sess[w] \in Sessions /\ lease[w] \in IPs
          /\ routes' = [routes EXCEPT ![lease[w]] = sess[w]]
          /\ pc' = [pc EXCEPT ![w] = "install"]
          /\ UNCHANGED <<ip, sess, lease, gcpc, gcip, victim, compromised>>
      BY <1>0, <1>3 DEF HandshakeMap, HasLease
    <3>2. SUFFICES ASSUME NEW i \in IPs \ compromised, NEW s \in Sessions,
                          Mapped(s, i)'
                   PROVE  \/ routes'[i] = s
                          \/ s = victim /\ (gcip = i \/ gcpc = "recycle")
      BY <3>1 DEF HeldRouted
    <3>3. Has(s, i)
      BY <3>1, <3>2 DEF Mapped, Has, HasLease
    <3>4. CASE i = lease[w]
      <4>1. Has(sess[w], i)
        BY <3>1, <3>4 DEF Has
      <4>2. CASE s = sess[w]
        BY <1>0, <3>1, <3>4, <4>2
      <4>3. CASE s # sess[w]
        <5>1. /\ gcpc = "recycle" /\ gcip = i
              /\ victim \in {s, sess[w]} /\ sess[w] # victim
          BY <1>0, <3>1, <3>3, <4>1, <4>3 DEF Exclusive
        <5> QED
          BY <5>1
      <4> QED
        BY <4>2, <4>3
    <3>5. CASE i # lease[w]
      <4>1. ip[s] = i /\ routes'[i] = routes[i]
        BY <1>0, <3>1, <3>2, <3>5 DEF Mapped
      <4> QED
        BY <1>0, <4>1 DEF HeldRouted, Mapped
    <3> QED
      BY <3>4, <3>5
  <2> QED
    BY <2>1, <2>2, <2>3, <2>4
<1>4. CASE HandshakeInstall(w)
  <2>1. LeaseFits' /\ Issuing'
    BY <1>0, <1>4 DEF HandshakeInstall, Install, LeaseFits, HasLease, Issuing
  <2>2. Exclusive' /\ HeldAllocated' /\ HeldRouted' /\ GcTakes'
    BY <1>0, <1>4 DEF HandshakeInstall, Install, Exclusive, Has, HasLease,
                      HeldAllocated, Revoked, HeldRouted, Mapped, GcTakes
  <2>3. GcHolds'
    <3>1. /\ sess[w] \in Sessions /\ HasLease(w)
          /\ ip' = [ip EXCEPT ![sess[w]] = lease[w]]
          /\ UNCHANGED <<present, gcpc, victim, gcip>>
          /\ \A v \in Workers, s \in Sessions : sess[v] # s => sess'[v] # s
      BY <1>0, <1>4 DEF HandshakeInstall, Install, HasLease
    <3>2. \A s \in Sessions \ present : s # victim => sess[w] # s
      BY <1>0 DEF GcHolds
    <3>3. gcpc = "wipe" => ip'[victim] = ip[victim]
      BY <1>0, <3>1 DEF GcHolds, LeaseFits
    <3> QED
      BY <1>0, <3>1, <3>2, <3>3 DEF GcHolds
  <2>4. TokensOfSession'
    <3>1. /\ sess[w] \in Sessions /\ HasLease(w)
          /\ ip' = [ip EXCEPT ![sess[w]] = lease[w]]
          /\ last' = [last EXCEPT ![sess[w]] = now]
          /\ UNCHANGED <<present, now, tokens, life, compromised>>
      BY <1>0, <1>4 DEF HandshakeInstall, Install, HasLease
    <3>2. \A s \in Sessions : ip'[s] = ip[s] \/ ip[s] = None
      BY <1>0, <3>1 DEF LeaseFits
    <3>3. \A s \in Sessions : last[s] <= last'[s]
      BY <1>0, <3>1
    <3> QED
      BY <1>0, <3>1, <3>2, <3>3, TokensKept
  <2> QED
    BY <2>1, <2>2, <2>3, <2>4
<1>5. CASE IssueToken(w)
  <2>1. GcHolds' /\ LeaseFits' /\ Issuing'
    BY <1>0, <1>5 DEF IssueToken, Hold, Return, GcHolds, LeaseFits, HasLease,
                      Issuing
  <2>2. Exclusive' /\ HeldAllocated' /\ HeldRouted' /\ GcTakes'
    BY <1>0, <1>5 DEF IssueToken, Hold, Return, Exclusive, Has, HasLease,
                      HeldAllocated, Revoked, HeldRouted, Mapped, GcTakes
  <2>3. TokensOfSession'
    <3>1. /\ pc[w] = "token" /\ sess[w] \in Sessions /\ lease[w] \in IPs
          /\ UNCHANGED <<ip, last, present, now, life, compromised>>
      BY <1>0, <1>5 DEF IssueToken
    <3>2. CASE UNCHANGED tokens
      BY <1>0, <3>1, <3>2, TokensKept
    <3>3. CASE tokens' = [tokens EXCEPT ![sess[w]] =
                    {[ip |-> lease[w], expiry |-> now + TTL,
                      life |-> life[sess[w]]]}]
      <4>1. /\ last[sess[w]] = now
            /\ ip[sess[w]] = lease[w] \/ lease[w] \in compromised
        BY <1>0, <3>1 DEF Issuing
      <4>2. ASSUME NEW s \in Sessions, NEW t \in tokens'[s]
            PROVE  /\ t.expiry <= last[s] + TTL
                   /\ t.life <= life[s]
                   /\ s \in present /\ t.life = life[s] /\ now <= t.expiry =>
                        ip[s] = t.ip \/ t.ip \in compromised
        <5>1. CASE s # sess[w]
          BY <1>0, <3>1, <3>3, <5>1 DEF TokensOfSession
        <5>2. CASE s = sess[w]
          <6>1. t = [ip |-> lease[w], expiry |-> now + TTL, life |-> life[s]]
            BY <1>0, <3>1, <3>3, <5>2
          <6> QED
            BY <1>0, <3>1, <4>1, <5>2, <6>1
        <5> QED
          BY <5>1, <5>2
      <4> QED
        BY <3>1, <4>2 DEF TokensOfSession
    <3> QED
      BY <1>5, <3>2, <3>3 DEF IssueToken
  <2> QED
    BY <2>1, <2>2, <2>3
<1>6. CASE ResumeVerify(w)
  <2>1. GcHolds' /\ LeaseFits' /\ Issuing' /\ TokensOfSession'
    BY <1>0, <1>6 DEF ResumeVerify, Hold, GcHolds, LeaseFits, HasLease,
                      Issuing, TokensOfSession
  <2>2. Exclusive' /\ HeldAllocated' /\ HeldRouted' /\ GcTakes'
    BY <1>0, <1>6 DEF ResumeVerify, Hold, Exclusive, Has, HasLease, GcHolds,
                      HeldAllocated, Revoked, HeldRouted, Mapped, GcTakes
  <2> QED
    BY <2>1, <2>2
<1>7. CASE ResumeAbort(w)
  <2>1. TokensOfSession'
    BY <1>0, <1>7 DEF ResumeAbort, Hold, Return, TokensOfSession
  <2>2. GcHolds' /\ LeaseFits' /\ Issuing'
    BY <1>0, <1>7 DEF ResumeAbort, Hold, Return, GcHolds, LeaseFits, HasLease,
                      Issuing
  <2>3. Exclusive' /\ HeldAllocated' /\ HeldRouted' /\ GcTakes'
    BY <1>0, <1>7 DEF ResumeAbort, Hold, Return, Exclusive, Has, HasLease,
                      HeldAllocated, Revoked, HeldRouted, Mapped, GcTakes
  <2> QED
    BY <2>1, <2>2, <2>3
<1>8. CASE ResumeAssign(w)
  <2>1. GcHolds' /\ LeaseFits' /\ Issuing' /\ TokensOfSession'
    BY <1>0, <1>8 DEF ResumeAssign, Hold, GcHolds, LeaseFits, HasLease,
                      Issuing, TokensOfSession
  <2>2. Exclusive' /\ HeldAllocated' /\ HeldRouted' /\ GcTakes'
    BY <1>0, <1>8 DEF ResumeAssign, Hold, Exclusive, Has, HasLease,
                      HeldAllocated, Revoked, HeldRouted, Mapped, GcTakes
  <2> QED
    BY <2>1, <2>2
<1>9. CASE ResumeInstall(w)
  <2>1. LeaseFits' /\ Issuing'
    BY <1>0, <1>9 DEF ResumeInstall, Install, LeaseFits, HasLease, Issuing
  <2>2. Exclusive' /\ HeldAllocated' /\ HeldRouted' /\ GcTakes'
    BY <1>0, <1>9 DEF ResumeInstall, Install, Exclusive, Has, HasLease,
                      HeldAllocated, Revoked, HeldRouted, Mapped, GcTakes
  <2>3. GcHolds'
    <3>1. /\ sess[w] \in Sessions /\ HasLease(w)
          /\ ip' = [ip EXCEPT ![sess[w]] = lease[w]]
          /\ UNCHANGED <<present, gcpc, victim, gcip>>
          /\ \A v \in Workers, s \in Sessions : sess[v] # s => sess'[v] # s
      BY <1>0, <1>9 DEF ResumeInstall, Install, HasLease
    <3>2. \A s \in Sessions \ present : s # victim => sess[w] # s
      BY <1>0 DEF GcHolds
    <3>3. gcpc = "wipe" => ip'[victim] = ip[victim]
      BY <1>0, <3>1 DEF GcHolds, LeaseFits
    <3> QED
      BY <1>0, <3>1, <3>2, <3>3 DEF GcHolds
  <2>4. TokensOfSession'
    <3>1. /\ sess[w] \in Sessions /\ HasLease(w)
          /\ ip' = [ip EXCEPT ![sess[w]] = lease[w]]
          /\ last' = [last EXCEPT ![sess[w]] = now]
          /\ UNCHANGED <<present, now, tokens, life, compromised>>
      BY <1>0, <1>9 DEF ResumeInstall, Install, HasLease
    <3>2. \A s \in Sessions : ip'[s] = ip[s] \/ ip[s] = None
      BY <1>0, <3>1 DEF LeaseFits
    <3>3. \A s \in Sessions : last[s] <= last'[s]
      BY <1>0, <3>1
    <3> QED
      BY <1>0, <3>1, <3>2, <3>3, TokensKept
  <2> QED
    BY <2>1, <2>2, <2>3, <2>4
<1>10. CASE ResumeMap(w)
  <2>1. GcHolds' /\ TokensOfSession'
    BY <1>0, <1>10 DEF ResumeMap, GcHolds, TokensOfSession
  <2>2. LeaseFits' /\ Issuing'
    BY <1>0, <1>10 DEF ResumeMap, LeaseFits, HasLease, Issuing
  <2>3. Exclusive' /\ HeldAllocated' /\ GcTakes'
    BY <1>0, <1>10 DEF ResumeMap, Exclusive, Has, HasLease, HeldAllocated,
                       Revoked, GcTakes
  <2>4. HeldRouted'
    <3>1. /\ HasLease(w) /\ sess[w] \in Sessions /\ lease[w] \in IPs
          /\ routes' = [routes EXCEPT ![lease[w]] = sess[w]]
          /\ pc' = [pc EXCEPT ![w] = "token"]
          /\ UNCHANGED <<ip, sess, lease, gcpc, gcip, victim, compromised>>
      BY <1>0, <1>10 DEF ResumeMap, HasLease
    <3>2. SUFFICES ASSUME NEW i \in IPs \ compromised, NEW s \in Sessions,
                          Mapped(s, i)'
                   PROVE  \/ routes'[i] = s
                          \/ s = victim /\ (gcip = i \/ gcpc = "recycle")
      BY <3>1 DEF HeldRouted
    <3>3. Has(s, i)
      BY <3>1, <3>2 DEF Mapped, Has, HasLease
    <3>4. CASE i = lease[w]
      <4>1. Has(sess[w], i)
        BY <3>1, <3>4 DEF Has
      <4>2. CASE s = sess[w]
        BY <1>0, <3>1, <3>4, <4>2
      <4>3. CASE s # sess[w]
        <5>1. /\ gcpc = "recycle" /\ gcip = i
              /\ victim \in {s, sess[w]} /\ sess[w] # victim
          BY <1>0, <3>1, <3>3, <4>1, <4>3 DEF Exclusive
        <5> QED
          BY <5>1
      <4> QED
        BY <4>2, <4>3
    <3>5. CASE i # lease[w]
      <4>1. ip[s] = i /\ routes'[i] = routes[i]
        BY <1>0, <3>1, <3>2, <3>5 DEF Mapped
      <4> QED
        BY <1>0, <4>1 DEF HeldRouted, Mapped
    <3> QED
      BY <3>4, <3>5
  <2> QED
    BY <2>1, <2>2, <2>3, <2>4
<1>11. CASE DataDecrypt(w)
  <2>1. TokensOfSession'
    BY <1>0, <1>11 DEF DataDecrypt, Hold, TokensOfSession
  <2>2. GcHolds' /\ LeaseFits' /\ Issuing'
    BY <1>0, <1>11 DEF DataDecrypt, Hold, GcHolds, LeaseFits, HasLease, Issuing
  <2>3. Exclusive' /\ HeldAllocated' /\ HeldRouted' /\ GcTakes'
    BY <1>0, <1>11 DEF DataDecrypt, Hold, Exclusive, Has, HasLease, GcHolds,
                       HeldAllocated, Revoked, HeldRouted, Mapped, GcTakes
  <2> QED
    BY <2>1, <2>2, <2>3
<1>12. CASE DataRead(w)
  <2>1. TokensOfSession'
    BY <1>0, <1>12 DEF DataRead, Hold, TokensOfSession
  <2>2. GcHolds' /\ LeaseFits' /\ Issuing'
    BY <1>0, <1>12 DEF DataRead, Hold, GcHolds, LeaseFits, HasLease, Issuing
  <2>3. Exclusive' /\ HeldAllocated' /\ HeldRouted' /\ GcTakes'
    BY <1>0, <1>12 DEF DataRead, Hold, Exclusive, Has, HasLease, HeldAllocated,
                       Revoked, HeldRouted, Mapped, GcTakes
  <2> QED
    BY <2>1, <2>2, <2>3
<1>13. CASE DataWrite(w)
  <2>1. LeaseFits' /\ Issuing'
    BY <1>0, <1>13 DEF DataWrite, Hold, Return, Install, LeaseFits, HasLease,
                       Issuing
  <2>2. Exclusive' /\ HeldAllocated' /\ HeldRouted' /\ GcTakes'
    BY <1>0, <1>13 DEF DataWrite, Hold, Return, Install, Exclusive, Has,
                       HasLease, HeldAllocated, Revoked, HeldRouted, Mapped,
                       GcTakes
  <2>3. GcHolds'
    <3>1. /\ sess[w] \in Sessions /\ HasLease(w)
          /\ ip' = [ip EXCEPT ![sess[w]] = lease[w]]
          /\ UNCHANGED <<present, gcpc, victim, gcip>>
          /\ \A v \in Workers, s \in Sessions : sess[v] # s => sess'[v] # s
      BY <1>0, <1>13 DEF DataWrite, Install, HasLease, Return, Hold
    <3>2. \A s \in Sessions \ present : s # victim => sess[w] # s
      BY <1>0 DEF GcHolds
    <3>3. gcpc = "wipe" => ip'[victim] = ip[victim]
      BY <1>0, <3>1 DEF GcHolds, LeaseFits
    <3> QED
      BY <1>0, <3>1, <3>2, <3>3 DEF GcHolds
  <2>4. TokensOfSession'
    <3>1. /\ sess[w] \in Sessions /\ HasLease(w)
          /\ ip' = [ip EXCEPT ![sess[w]] = lease[w]]
          /\ last' = [last EXCEPT ![sess[w]] = now]
          /\ UNCHANGED <<present, now, tokens, life, compromised>>
      BY <1>0, <1>13 DEF DataWrite, Install, HasLease, Return, Hold
    <3>2. \A s \in Sessions : ip'[s] = ip[s] \/ ip[s] = None
      BY <1>0, <3>1 DEF LeaseFits
    <3>3. \A s \in Sessions : last[s] <= last'[s]
      BY <1>0, <3>1
    <3> QED
      BY <1>0, <3>1, <3>2, <3>3, TokensKept
  <2> QED
    BY <2>1, <2>2, <2>3, <2>4
<1>14. CASE Egress(w)
  <2>1. /\ GcHolds' /\ LeaseFits' /\ Exclusive'
        /\ HeldAllocated' /\ HeldRouted' /\ GcTakes'
    BY <1>0, <1>14 DEF Egress, GcHolds, LeaseFits, HasLease, Exclusive, Has,
                       HeldAllocated, Revoked, HeldRouted, Mapped, GcTakes
  <2>2. Issuing'
    BY <1>0, <1>14 DEF Egress, Issuing
  <2>3. TokensOfSession'
    <3>1. UNCHANGED <<ip, present, now, tokens, life, compromised>>
      BY <1>14 DEF Egress
    <3>2. \A s \in Sessions : last[s] <= last'[s]
      BY <1>0, <1>14 DEF Egress
    <3> QED
      BY <1>0, <3>1, <3>2, TokensKept
  <2> QED
    BY <2>1, <2>2, <2>3
<1>15. CASE HandshakeRead(w)
  <2>1. TokensOfSession'
    BY <1>0, <1>15 DEF HandshakeRead, Hold, TokensOfSession
  <2>2. GcHolds' /\ LeaseFits' /\ Issuing'
    BY <1>0, <1>15 DEF HandshakeRead, Hold, GcHolds, LeaseFits, HasLease,
                       Issuing
  <2>3. Exclusive' /\ HeldAllocated' /\ HeldRouted' /\ GcTakes'
    BY <1>0, <1>15 DEF HandshakeRead, Hold, Exclusive, Has, HasLease,
                       HeldAllocated, Revoked, HeldRouted, Mapped, GcTakes
  <2> QED
    BY <2>1, <2>2, <2>3
<1> QED
  BY <1>1, <1>2, <1>3, <1>4, <1>5, <1>6, <1>7, <1>8, <1>9, <1>10, <1>11, <1>12,
     <1>13, <1>14, <1>15
     DEF Work

(* A step of the GC thread, which may fall between any two of a handler's. *)
LEMMA GcLeases ==
  ASSUME OneWorker, LeaseInv, IInv', Gc
  PROVE  Leases'
<1> USE NoneFresh, TimesNat, IdleLonger
        DEF At, TypeOK, Address, pool, table, clock, client, worker, gc,
            Leases
<1>0. /\ PoolPartition /\ TypeOK /\ TypeOK' /\ GcHolds /\ LeaseFits
      /\ Exclusive /\ HeldAllocated /\ HeldRouted /\ GcTakes
      /\ Issuing /\ TokensOfSession
  BY DEF LeaseInv, IInv, OneWorker
<1>1. CASE CleanupFind
  <2>1. LeaseFits' /\ Issuing' /\ TokensOfSession'
    BY <1>0, <1>1 DEF CleanupFind, GcAt, LeaseFits, HasLease, Issuing,
                      TokensOfSession
  <2>2. GcHolds'
    BY <1>0, <1>1 DEF CleanupFind, GcAt, GcHolds
  <2>3. Exclusive' /\ HeldAllocated'
    BY <1>0, <1>1 DEF CleanupFind, GcAt, Exclusive, Has, HasLease,
                      HeldAllocated, Revoked
  <2>4. HeldRouted'
    <3>1. PICK v \in present : /\ victim' = v /\ gcip' = ip[v] /\ ip[v] # None
      BY <1>1 DEF CleanupFind
    <3>2. /\ gcpc = "idle" /\ gcpc' = "wipe" /\ victim = None /\ gcip = None
          /\ UNCHANGED <<ip, routes, allocated, compromised, pc, sess, lease>>
      BY <1>0, <1>1 DEF CleanupFind, GcAt, GcHolds
    <3>3. \A i \in IPs \ compromised, s \in Sessions :
            Mapped(s, i) => routes[i] = s
      BY <1>0, <3>2 DEF HeldRouted
    <3>4. \A i \in IPs, s \in Sessions : Mapped(s, i)' <=> Mapped(s, i)
      BY <3>2 DEF Mapped, HasLease
    <3> QED
      BY <3>2, <3>3, <3>4 DEF HeldRouted
  <2>5. GcTakes'
    <3>1. PICK v \in present : /\ victim' = v /\ gcip' = ip[v] /\ ip[v] # None
      BY <1>1 DEF CleanupFind
    <3>2. /\ gcpc = "idle" /\ gcpc' = "wipe" /\ victim = None /\ gcip = None
          /\ UNCHANGED <<ip, routes, allocated, compromised, pc, sess, lease>>
      BY <1>0, <1>1 DEF CleanupFind, GcAt, GcHolds
    <3>3. \A i \in IPs, s \in Sessions : Has(s, i)' <=> Has(s, i)
      BY <3>2 DEF Has, HasLease
    <3>4. ASSUME gcip' \in IPs \ compromised
          PROVE  /\ gcip' \in allocated
                 /\ \A s \in Sessions : Has(s, gcip') => s = victim'
      <4>1. Has(victim', gcip') /\ victim' \in Sessions
        BY <1>0, <3>1 DEF Has
      <4>2. gcip' \in allocated
        BY <1>0, <3>2, <3>4, <4>1 DEF HeldAllocated, Revoked
      <4>3. \A s \in Sessions : Has(s, gcip') => s = victim'
        BY <1>0, <3>2, <3>4, <4>1 DEF Exclusive
      <4> QED
        BY <4>2, <4>3
    <3>5. \A s \in Sessions : Has(s, gcip)' => Has(s, gcip')
      BY <3>2 DEF Has, HasLease
    <3> QED
      BY <3>2, <3>4, <3>5 DEF GcTakes
  <2> QED
    BY <2>1, <2>2, <2>3, <2>4, <2>5
<1>2. CASE CleanupWipe
  <2>1. GcHolds'
    BY <1>0, <1>2 DEF CleanupWipe, GcAt, GcHolds
  <2>2. LeaseFits'
    BY <1>0, <1>2 DEF CleanupWipe, GcAt, LeaseFits, HasLease
  <2>3. Exclusive'
    BY <1>0, <1>2 DEF CleanupWipe, GcAt, Exclusive, Has, HasLease
  <2>4. HeldAllocated'
    BY <1>0, <1>2 DEF CleanupWipe, GcAt, HeldAllocated, Has, HasLease, Revoked
  <2>5. HeldRouted'
    BY <1>0, <1>2 DEF CleanupWipe, GcAt, HeldRouted, Mapped, HasLease
  <2>6. GcTakes'
    BY <1>0, <1>2 DEF CleanupWipe, GcAt, GcTakes, Has, HasLease
  <2>7. Issuing'
    <3>1. /\ victim \in Sessions /\ gcip = ip[victim] /\ gcip \in IPs
          /\ ip' = [ip EXCEPT ![victim] = None]
          /\ UNCHANGED <<last, now, pc, sess, lease>>
          /\ compromised' = compromised \cup
                {j \in {gcip} \ {None} : ~IdleOut(victim)}
      BY <1>0, <1>2 DEF CleanupWipe, GcAt, GcHolds
    <3>2. last[victim] = now => gcip \in compromised'
      BY <1>0, <3>1 DEF IdleOut
    <3> QED
      BY <1>0, <3>1, <3>2 DEF Issuing
  <2>8. TokensOfSession'
    <3>1. /\ victim \in Sessions /\ gcip = ip[victim] /\ gcip \in IPs
          /\ ip' = [ip EXCEPT ![victim] = None]
          /\ UNCHANGED <<last, present, now, tokens, life>>
          /\ compromised' = compromised \cup
                {j \in {gcip} \ {None} : ~IdleOut(victim)}
      BY <1>0, <1>2 DEF CleanupWipe, GcAt, GcHolds
    <3>2. ASSUME NEW s \in Sessions, NEW t \in tokens[s], s \in present,
                 t.life = life[s], now <= t.expiry
          PROVE  ip'[s] = t.ip \/ t.ip \in compromised'
      <4>1. t.expiry \in Nat /\ t.expiry <= last[s] + TTL
        BY <1>0 DEF TokensOfSession, Token
      <4>2. ip[s] = t.ip \/ t.ip \in compromised
        BY <1>0, <3>2 DEF TokensOfSession
      <4>3. s = victim => gcip \in compromised'
        BY <1>0, <3>1, <3>2, <4>1 DEF IdleOut
      <4> QED
        BY <1>0, <3>1, <4>2, <4>3
    <3> QED
      BY <1>0, <3>1, <3>2 DEF TokensOfSession
  <2> QED
    BY <2>1, <2>2, <2>3, <2>4, <2>5, <2>6, <2>7, <2>8
<1>3. CASE CleanupUnmap
  <2>1. LeaseFits' /\ Issuing' /\ TokensOfSession'
    BY <1>0, <1>3 DEF CleanupUnmap, GcAt, LeaseFits, HasLease, Issuing,
                      TokensOfSession
  <2>2. GcHolds'
    BY <1>0, <1>3 DEF CleanupUnmap, GcAt, GcHolds
  <2>3. Exclusive' /\ HeldAllocated' /\ GcTakes'
    BY <1>0, <1>3 DEF CleanupUnmap, GcAt, Exclusive, Has, HasLease,
                      HeldAllocated, Revoked, GcTakes
  <2>4. HeldRouted'
    <3>1. /\ gcpc = "unmap" /\ gcip \in IPs /\ victim \in Sessions
          /\ routes' = [routes EXCEPT ![gcip] = None]
          /\ UNCHANGED <<ip, pc, sess, lease, victim, gcip, compromised>>
      BY <1>0, <1>3 DEF CleanupUnmap, GcAt, GcHolds
    <3>2. ASSUME NEW i \in IPs \ compromised, NEW s \in Sessions, Mapped(s, i)
          PROVE  routes'[i] = s \/ (s = victim /\ gcip = i)
      <4>1. Has(s, i)
        BY <3>2 DEF Mapped, Has
      <4>2. i = gcip => s = victim
        BY <1>0, <3>1, <4>1 DEF GcTakes
      <4>3. i # gcip => routes'[i] = s
        BY <1>0, <3>1, <3>2 DEF HeldRouted
      <4> QED
        BY <4>2, <4>3
    <3>3. \A i \in IPs, s \in Sessions : Mapped(s, i)' <=> Mapped(s, i)
      BY <3>1 DEF Mapped, HasLease
    <3> QED
      BY <3>1, <3>2, <3>3 DEF HeldRouted
  <2> QED
    BY <2>1, <2>2, <2>3, <2>4
<1>4. CASE CleanupRelease
  <2>1. LeaseFits'
    BY <1>0, <1>4 DEF CleanupRelease, GcAt, GcRelease, PoolRelease, InUse,
                      LeaseFits, HasLease
  <2>2. GcHolds' /\ Issuing' /\ TokensOfSession'
    BY <1>0, <1>4 DEF CleanupRelease, GcAt, GcRelease, PoolRelease, InUse,
                      GcHolds, Issuing, TokensOfSession
  <2>3. Exclusive' /\ GcTakes'
    BY <1>0, <1>4 DEF CleanupRelease, GcAt, GcRelease, PoolRelease, InUse,
                      Exclusive, Has, HasLease, GcTakes
  <2>4. HeldAllocated'
    <3>1. /\ gcpc = "release" /\ gcpc' = "idle"
          /\ allocated' = allocated \ {gcip}
          /\ compromised' = compromised \cup {j \in {gcip} \ {None} : InUse(j)}
          /\ UNCHANGED <<ip, routes, present, pc, sess, lease>>
      BY <1>4 DEF CleanupRelease, GcAt, GcRelease, PoolRelease
    <3>2. \A i \in IPs, s \in Sessions : Has(s, i)' <=> Has(s, i)
      BY <3>1 DEF Has, HasLease
    <3>3. \A s \in Sessions \ present : ip[s] = None
      BY <1>0, <3>1 DEF GcHolds
    <3>4. ASSUME NEW i \in IPs \ compromised', NEW s \in Sessions, Has(s, i)
          PROVE  i \in allocated'
      <4>1. i \in allocated
        BY <1>0, <3>1, <3>4 DEF HeldAllocated, Revoked
      <4>2. i # gcip
        BY <1>0, <3>1, <3>3, <3>4 DEF InUse, Has
      <4> QED
        BY <3>1, <4>1, <4>2
    <3> QED
      BY <3>1, <3>2, <3>4 DEF HeldAllocated, Revoked
  <2>5. HeldRouted'
    <3>1. /\ gcpc = "release" /\ gcpc' = "idle"
          /\ allocated' = allocated \ {gcip}
          /\ compromised' = compromised \cup {j \in {gcip} \ {None} : InUse(j)}
          /\ UNCHANGED <<ip, routes, present, pc, sess, lease>>
      BY <1>4 DEF CleanupRelease, GcAt, GcRelease, PoolRelease
    <3>2. \A i \in IPs, s \in Sessions : Mapped(s, i)' <=> Mapped(s, i)
      BY <3>1 DEF Mapped, HasLease
    <3>3. \A s \in Sessions \ present : ip[s] = None
      BY <1>0, <3>1 DEF GcHolds
    <3>4. ASSUME NEW i \in IPs \ compromised', NEW s \in Sessions, Mapped(s, i)
          PROVE  routes[i] = s
      <4>1. i # gcip
        BY <1>0, <3>1, <3>3, <3>4 DEF InUse, Mapped
      <4> QED
        BY <1>0, <3>1, <3>4, <4>1 DEF HeldRouted
    <3> QED
      BY <3>1, <3>2, <3>4 DEF HeldRouted
  <2> QED
    BY <2>1, <2>2, <2>3, <2>4, <2>5
<1>5. CASE RevokeFind
  <2>1. PICK v \in present : victim' = v /\ gcip' \in {ip[v], None}
    BY <1>5 DEF RevokeFind
  <2>2. /\ gcpc = "idle" /\ gcpc' = "revoke" /\ victim = None /\ gcip = None
        /\ UNCHANGED <<ip, routes, present, allocated, compromised, tokens,
                       life, last, now, pc, sess, lease>>
    BY <1>0, <1>5 DEF RevokeFind, GcAt, GcHolds
  <2>3. LeaseFits' /\ Issuing' /\ TokensOfSession'
    BY <1>0, <2>2 DEF LeaseFits, HasLease, Issuing, TokensOfSession
  <2>4. GcHolds'
    BY <1>0, <2>1, <2>2 DEF GcHolds
  <2>5. Exclusive' /\ HeldAllocated'
    BY <1>0, <2>2 DEF Exclusive, Has, HasLease, HeldAllocated, Revoked
  <2>6. HeldRouted'
    <3>1. \A i \in IPs \ compromised, s \in Sessions :
            Mapped(s, i) => routes[i] = s
      BY <1>0, <2>2 DEF HeldRouted
    <3>2. \A i \in IPs, s \in Sessions : Mapped(s, i)' <=> Mapped(s, i)
      BY <2>2 DEF Mapped, HasLease
    <3> QED
      BY <2>2, <3>1, <3>2 DEF HeldRouted
  <2>7. GcTakes'
    <3>1. \A i \in IPs, s \in Sessions : Has(s, i)' <=> Has(s, i)
      BY <2>2 DEF Has, HasLease
    <3>2. ASSUME gcip' \in IPs \ compromised
          PROVE  /\ gcip' \in allocated
                 /\ \A s \in Sessions : Has(s, gcip') => s = victim'
      <4>1. Has(victim', gcip') /\ victim' \in Sessions
        BY <1>0, <2>1, <3>2 DEF Has
      <4>2. gcip' \in allocated
        BY <1>0, <2>2, <3>2, <4>1 DEF HeldAllocated, Revoked
      <4>3. \A s \in Sessions : Has(s, gcip') => s = victim'
        BY <1>0, <2>2, <3>2, <4>1 DEF Exclusive
      <4> QED
        BY <4>2, <4>3
    <3>3. \A s \in Sessions : Has(s, gcip)' => Has(s, gcip')
      BY <2>2 DEF Has, HasLease
    <3> QED
      BY <2>2, <3>2, <3>3 DEF GcTakes
  <2> QED
    BY <2>3, <2>4, <2>5, <2>6, <2>7
<1>6. CASE RevokeRelease
  <2>1. LeaseFits'
    BY <1>0, <1>6 DEF RevokeRelease, GcAt, GcRelease, PoolRelease, InUse,
                      LeaseFits, HasLease
  <2>2. GcHolds' /\ Issuing' /\ TokensOfSession'
    BY <1>0, <1>6 DEF RevokeRelease, GcAt, GcRelease, PoolRelease, InUse,
                      GcHolds, Issuing, TokensOfSession
  <2>3. Exclusive' /\ HeldRouted' /\ GcTakes'
    BY <1>0, <1>6 DEF RevokeRelease, GcAt, GcRelease, PoolRelease, InUse,
                      Exclusive, Has, HasLease, HeldRouted, Mapped, GcTakes
  <2>4. HeldAllocated'
    <3>1. /\ gcpc = "revoke" /\ gcpc' = "erase"
          /\ allocated' = allocated \ {gcip}
          /\ compromised' = compromised \cup {j \in {gcip} \ {None} : InUse(j)}
          /\ UNCHANGED <<ip, routes, present, pc, sess, lease, victim, gcip>>
      BY <1>6 DEF RevokeRelease, GcAt, GcRelease, PoolRelease
    <3>2. \A i \in IPs, s \in Sessions : Has(s, i)' <=> Has(s, i)
      BY <3>1 DEF Has, HasLease
    <3>3. ASSUME NEW i \in IPs \ compromised', NEW s \in Sessions, Has(s, i)
          PROVE  i \in allocated' \/ (gcip = i /\ victim = s)
      <4>1. i \in allocated
        BY <1>0, <3>1, <3>3 DEF HeldAllocated, Revoked
      <4>2. i = gcip => victim = s
        BY <1>0, <3>1, <3>3 DEF GcTakes
      <4> QED
        BY <3>1, <4>1, <4>2
    <3> QED
      BY <3>1, <3>2, <3>3 DEF HeldAllocated, Revoked
  <2> QED
    BY <2>1, <2>2, <2>3, <2>4
<1>7. CASE RevokeErase
  <2>1. LeaseFits' /\ Issuing'
    BY <1>0, <1>7 DEF RevokeErase, GcAt, LeaseFits, HasLease, Issuing
  <2>2. GcHolds' /\ TokensOfSession'
    BY <1>0, <1>7 DEF RevokeErase, GcAt, GcHolds, TokensOfSession
  <2>3. Exclusive' /\ HeldAllocated' /\ HeldRouted' /\ GcTakes'
    BY <1>0, <1>7 DEF RevokeErase, GcAt, Exclusive, Has, HasLease,
                      HeldAllocated, Revoked, HeldRouted, Mapped, GcTakes
  <2> QED
    BY <2>1, <2>2, <2>3
<1>8. CASE RevokeUnmap
  <2>1. LeaseFits' /\ Issuing' /\ TokensOfSession'
    BY <1>0, <1>8 DEF RevokeUnmap, GcAt, LeaseFits, HasLease, Issuing,
                      TokensOfSession
  <2>2. GcHolds'
    BY <1>0, <1>8 DEF RevokeUnmap, GcAt, GcHolds
  <2>3. Exclusive' /\ HeldAllocated' /\ GcTakes'
    BY <1>0, <1>8 DEF RevokeUnmap, GcAt, Exclusive, Has, HasLease,
                      HeldAllocated, Revoked, GcTakes
  <2>4. HeldRouted'
    <3>1. /\ gcpc = "withdraw" /\ gcpc' = "recycle" /\ victim \in Sessions
          /\ routes' = [i \in IPs |->
                           IF i = ip[victim] THEN None ELSE routes[i]]
          /\ UNCHANGED <<ip, pc, sess, lease, victim, gcip, compromised>>
      BY <1>0, <1>8 DEF RevokeUnmap, GcAt, GcHolds
    <3>2. ASSUME NEW i \in IPs \ compromised, NEW s \in Sessions, Mapped(s, i)
          PROVE  routes'[i] = s \/ s = victim
      <4>1. Has(s, i) /\ (i = ip[victim] => Has(victim, i))
        BY <3>2 DEF Mapped, Has
      <4>2. i = ip[victim] => s = victim
        BY <1>0, <3>1, <4>1 DEF Exclusive
      <4>3. i # ip[victim] => routes'[i] = routes[i]
        BY <3>1
      <4> QED
        BY <1>0, <3>1, <3>2, <4>2, <4>3 DEF HeldRouted
    <3>3. \A i \in IPs, s \in Sessions : Mapped(s, i)' <=> Mapped(s, i)
      BY <3>1 DEF Mapped, HasLease
    <3> QED
      BY <3>1, <3>2, <3>3 DEF HeldRouted
  <2> QED
    BY <2>1, <2>2, <2>3, <2>4
<1>9. CASE RevokeRecycle
  <2>1. GcHolds'
    BY <1>0, <1>9 DEF RevokeRecycle, GcAt, GcHolds
  <2>2. LeaseFits'
    BY <1>0, <1>9 DEF RevokeRecycle, GcAt, LeaseFits, HasLease
  <2>3. Exclusive'
    BY <1>0, <1>9 DEF RevokeRecycle, GcAt, Exclusive, Has, HasLease
  <2>4. HeldAllocated'
    BY <1>0, <1>9 DEF RevokeRecycle, GcAt, HeldAllocated, Has, HasLease,
                      Revoked
  <2>5. HeldRouted'
    BY <1>0, <1>9 DEF RevokeRecycle, GcAt, HeldRouted, Mapped, HasLease
  <2>6. GcTakes'
    BY <1>0, <1>9 DEF RevokeRecycle, GcAt, GcTakes, Has, HasLease
  <2>7. Issuing'
    BY <1>0, <1>9 DEF RevokeRecycle, GcAt, Issuing
  <2>8. TokensOfSession'
    <3>1. /\ ip' = [ip EXCEPT ![victim] = None] /\ victim \notin present
          /\ UNCHANGED <<last, present, now, tokens, life, compromised>>
      BY <1>0, <1>9 DEF RevokeRecycle, GcAt, GcHolds
    <3>2. \A s \in present : ip'[s] = ip[s]
      BY <1>0, <3>1
    <3> QED
      BY <1>0, <3>1, <3>2, TokensKept
  <2> QED
    BY <2>1, <2>2, <2>3, <2>4, <2>5, <2>6, <2>7, <2>8
<1>10. CASE Register
  <2>1. LeaseFits' /\ Exclusive' /\ HeldAllocated' /\ HeldRouted' /\ GcTakes'
    BY <1>0, <1>10 DEF Register, LeaseFits, HasLease, Exclusive, Has,
                       HeldAllocated, Revoked, HeldRouted, Mapped, GcTakes
  <2>2. GcHolds' /\ Issuing'
    BY <1>0, <1>10 DEF Register, GcHolds, Issuing
  <2>3. TokensOfSession'
    <3>1. PICK r \in Sessions \ present :
            /\ present' = present \cup {r}
            /\ life' = [life EXCEPT ![r] = @ + 1]
            /\ last' = [last EXCEPT ![r] = now]
      BY <1>10 DEF Register
    <3>2. UNCHANGED <<ip, now, tokens, compromised>>
      BY <1>10 DEF Register
    <3>3. ASSUME NEW s \in Sessions, NEW t \in tokens[s]
          PROVE  /\ t.expiry <= last'[s] + TTL
                 /\ t.life <= life'[s]
                 /\ s \in present' /\ t.life = life'[s] /\ now <= t.expiry =>
                      ip[s] = t.ip \/ t.ip \in compromised
      <4>1. /\ t.expiry \in Nat /\ t.life \in Nat
            /\ t.expiry <= last[s] + TTL /\ t.life <= life[s]
        BY <1>0 DEF TokensOfSession, Token
      <4>2. last[s] <= last'[s] /\ last[s] \in Nat /\ last'[s] \in Nat
        BY <1>0, <3>1
      <4>3. /\ life[s] \in Nat
            /\ life'[s] = IF s = r THEN life[s] + 1 ELSE life[s]
        BY <1>0, <3>1
      <4>4. CASE s = r
        BY <4>1, <4>2, <4>3, <4>4
      <4>5. CASE s # r
        BY <1>0, <3>1, <4>1, <4>2, <4>3, <4>5 DEF TokensOfSession
      <4> QED
        BY <4>4, <4>5
    <3> QED
      BY <3>2, <3>3 DEF TokensOfSession
  <2> QED
    BY <2>1, <2>2, <2>3
<1>11. CASE Poll
  BY <1>0, <1>11 DEF Poll, vars, GcHolds, LeaseFits, Exclusive, HeldAllocated,
                     HeldRouted, GcTakes, Issuing, TokensOfSession, Has,
                     HasLease, Mapped, Revoked
<1> QED
  BY <1>1, <1>2, <1>3, <1>4, <1>5, <1>6, <1>7, <1>8, <1>9, <1>10, <1>11 DEF Gc

(* At the start nobody has an address.                                     *)
LEMMA LeaseInit == Init => LeaseInv
<1> SUFFICES ASSUME Init PROVE LeaseInv
  OBVIOUS
<1>1. /\ IInv
      /\ ip = [s \in Sessions |-> None] /\ pc = [w \in Workers |-> "idle"]
      /\ sess = [w \in Workers |-> None]
      /\ tokens = [s \in Sessions |-> {}]
      /\ gcpc = "idle" /\ victim = None /\ gcip = None
  BY InitInv DEF Init
<1>2. \A s \in Sessions, i \in IPs : ~Has(s, i) /\ ~Mapped(s, i)
  BY <1>1, NoneFresh DEF Has, Mapped, HasLease
<1> QED
  BY <1>1, <1>2, NoneFresh
  DEF LeaseInv, Leases, GcHolds, LeaseFits, HasLease, Exclusive, HeldAllocated,
      HeldRouted, GcTakes, Issuing, TokensOfSession

(* Time passes only when no handler runs, and only shortens what is left   *)
(* of a token's life.                                                      *)
LEMMA TickLeases ==
  ASSUME LeaseInv, Tick
  PROVE  Leases'
<1>1. /\ TypeOK /\ now \in Nat /\ now' = now + 1
      /\ \A w \in Workers : pc[w] = "idle"
      /\ UNCHANGED <<routes, present, ip, allocated, tokens, life, last, pc,
                     sess, lease, gcpc, victim, gcip, compromised>>
  BY DEF Tick, LeaseInv, IInv, TypeOK, pool, table, client, worker, gc
<1>2. /\ \A s, i : Has(s, i)' <=> Has(s, i)
      /\ \A s, i : Mapped(s, i)' <=> Mapped(s, i)
      /\ \A s, i : Revoked(i, s)' <=> Revoked(i, s)
  BY <1>1 DEF Has, Mapped, Revoked, HasLease
<1>3. GcHolds' /\ LeaseFits' /\ Issuing'
  BY <1>1 DEF LeaseInv, Leases, GcHolds, LeaseFits, Issuing, HasLease
<1>4. Exclusive' /\ HeldAllocated' /\ HeldRouted' /\ GcTakes'
  BY <1>1, <1>2
  DEF LeaseInv, Leases, Exclusive, HeldAllocated, HeldRouted, GcTakes
<1>5. TokensOfSession'
  <2>1. \A s \in Sessions : \A t \in tokens[s] :
          t.expiry \in Nat /\ (now + 1 <= t.expiry => now <= t.expiry)
    BY <1>1 DEF TypeOK, Token
  <2> QED
    BY <1>1, <2>1 DEF LeaseInv, Leases, TokensOfSession
<1> QED
  BY <1>3, <1>4, <1>5 DEF Leases

LEMMA LeaseNext == OneWorker /\ LeaseInv /\ [Next]_vars => LeaseInv'
<1> SUFFICES ASSUME OneWorker, LeaseInv, [Next]_vars PROVE LeaseInv'
  OBVIOUS
<1>1. IInv'
  BY NextInv DEF LeaseInv, Leases
<1>2. ASSUME UNCHANGED vars PROVE Leases'
  BY <1>2
  DEF vars, pool, table, clock, client, worker, gc, Leases, LeaseInv,
      GcHolds, LeaseFits, HasLease, Exclusive, Has, HeldAllocated, Revoked,
      HeldRouted, Mapped, GcTakes, Issuing, TokensOfSession
<1>3. ASSUME NEW w \in Workers, Work(w) PROVE Leases'
  BY <1>1, <1>3, WorkLeases
<1>4. ASSUME Gc PROVE Leases'
  BY <1>1, <1>4, GcLeases
<1>5. ASSUME Tick PROVE Leases'
  BY <1>5, TickLeases
<1>6. Leases'
  BY <1>2, <1>3, <1>4, <1>5 DEF Next
<1> QED
  BY <1>1, <1>6 DEF LeaseInv, Leases

(* A session that nobody works on keeps its address to itself: it is       *)
(* allocated, routed to that session and not in another live session,      *)
(* whatever a cleanup, a revocation, a handshake, a resumption and a       *)
(* roaming data packet did between each other's steps.                     *)
THEOREM AddressHasOneHolder == OneWorker => (Spec => []OneHolder)
<1>1. LeaseInv => OneHolder
  <2> SUFFICES ASSUME LeaseInv, NEW s \in Sessions, Settled(s),
                      ip[s] # None, ip[s] \notin compromised
               PROVE  /\ ip[s] \in allocated
                      /\ routes[ip[s]] = s
                      /\ \A t \in present \ {s} : ip[t] = ip[s] => t = victim
    BY DEF OneHolder
  <2>1. /\ ip[s] \in IPs \ compromised /\ s # victim
        /\ present \subseteq Sessions
    BY DEF LeaseInv, Leases, IInv, TypeOK, Address, Settled
  <2>2. Has(s, ip[s]) /\ Mapped(s, ip[s])
    BY DEF Has, Mapped
  <2>3. ip[s] \in allocated
    BY <2>1, <2>2 DEF LeaseInv, Leases, HeldAllocated, Revoked
  <2>4. routes[ip[s]] = s
    BY <2>1, <2>2 DEF LeaseInv, Leases, HeldRouted
  <2>5. ASSUME NEW t \in present \ {s}, ip[t] = ip[s] PROVE t = victim
    <3>1. Has(t, ip[s]) /\ t \in Sessions
      BY <2>1, <2>5 DEF Has
    <3> QED
      BY <2>1, <2>2, <2>5, <3>1 DEF LeaseInv, Leases, Exclusive
  <2> QED
    BY <2>3, <2>4, <2>5
<1>2. CASE OneWorker
  BY <1>1, <1>2, LeaseInit, LeaseNext, PTL DEF Spec
<1> QED
  BY <1>2

(* A token that is still good names the address its session has: before    *)
(* the cleanup may take an idle session's address its tokens are dead, so  *)
(* that a resumption does not need the token's copy of the address.        *)
THEOREM TokensAreOutlived == OneWorker => (Spec => []TokenOutlived)
<1>1. LeaseInv => TokenOutlived
  <2> SUFFICES ASSUME LeaseInv, NEW s \in present, NEW t \in tokens[s],
                      t.life = life[s], now <= t.expiry,
                      t.ip \notin compromised
               PROVE  ip[s] # None
    BY DEF TokenOutlived
  <2>1. s \in Sessions /\ t \in Token
    BY DEF LeaseInv, Leases, IInv, TypeOK
  <2>2. ip[s] = t.ip /\ t.ip \in IPs
    BY <2>1 DEF LeaseInv, Leases, TokensOfSession, Token
  <2> QED
    BY <2>2, NoneFresh
<1>2. CASE OneWorker
  BY <1>1, <1>2, LeaseInit, LeaseNext, PTL DEF Spec
<1> QED
  BY <1>2

-----------------------------------------------------------------------------
(* Addresses that are lost, for a server with one packet thread.           *)

(* What was held or free is held, if it is allocated.                      *)
NothingLost == \A i \in allocated' : (i \in allocated => Held(i)) => Held(i)'

(* A handler leaks no address.  One that installs its lease takes nothing  *)
(* else away: the session has no other address than that.                  *)
LEMMA WorkLosesNothing ==
  ASSUME OneWorker, LeaseInv, NEW w \in Workers, Work(w)
  PROVE  NothingLost
<1> USE NoneFresh DEF At, pool, table, clock, client, worker, gc
<1>0. /\ TypeOK /\ LeaseFits
      /\ \A v \in Workers : v = w
      /\ allocated \subseteq IPs
  BY DEF LeaseInv, IInv, OneWorker, Leases, TypeOK
<1>1. CASE HandshakeFind(w)
  BY <1>0, <1>1 DEF HandshakeFind, Hold, NothingLost, Held, TypeOK
<1>2. CASE HandshakeRead(w)
  BY <1>0, <1>2 DEF HandshakeRead, Hold, NothingLost, Held, TypeOK
<1>3. CASE HandshakeAllocate(w)
  <2>1. pc[w] = "alloc" /\ UNCHANGED <<ip, gcpc, gcip>>
    BY <1>3 DEF HandshakeAllocate
  <2>2. CASE Return(w) /\ UNCHANGED allocated
    BY <1>0, <2>1, <2>2 DEF NothingLost, Held
  <2>3. ASSUME NEW a \in IPs, pc' = [pc EXCEPT ![w] = "map"], Allocate(a),
               Hold(w, sess[w], a)
        PROVE  NothingLost
    <3>1. /\ allocated' = allocated \cup {a}
          /\ pc'[w] = "map" /\ lease'[w] = a
      BY <1>0, <2>3 DEF Allocate, Hold, TypeOK
    <3>2. Held(a)'
      BY <3>1 DEF Held
    <3>3. \A i : Held(i) => Held(i)'
      BY <1>0, <2>1, <3>1 DEF Held
    <3> QED
      BY <3>1, <3>2, <3>3 DEF NothingLost
  <2> QED
    BY <1>3, <2>2, <2>3 DEF HandshakeAllocate
<1>4. CASE HandshakeMap(w)
  BY <1>0, <1>4 DEF HandshakeMap, NothingLost, Held, TypeOK
<1>5. CASE HandshakeInstall(w) \/ ResumeInstall(w) \/ DataWrite(w)
  <2>1. /\ sess[w] \in Sessions
        /\ ip' = [ip EXCEPT ![sess[w]] = lease[w]]
        /\ pc[w] \in {"install", "restore", "copied"}
        /\ UNCHANGED <<allocated, gcpc, gcip>>
    BY <1>0, <1>5 DEF HandshakeInstall, ResumeInstall, DataWrite, Install,
                      TypeOK
  <2>2. ip[sess[w]] \in {None, lease[w]}
    BY <1>0, <2>1 DEF LeaseFits, HasLease
  <2>3. ip'[sess[w]] = lease[w] /\ \A s \in Sessions : ip[s] # None =>
                                       ip'[s] = ip[s]
    BY <1>0, <2>1, <2>2 DEF TypeOK
  <2> QED
    BY <1>0, <2>1, <2>3 DEF NothingLost, Held
<1>6. CASE IssueToken(w)
  BY <1>0, <1>6 DEF IssueToken, Hold, Return, NothingLost, Held, TypeOK
<1>7. CASE ResumeVerify(w)
  BY <1>0, <1>7 DEF ResumeVerify, Hold, NothingLost, Held, TypeOK
<1>8. CASE ResumeAbort(w)
  BY <1>0, <1>8 DEF ResumeAbort, Hold, Return, NothingLost, Held, TypeOK
<1>9. CASE ResumeAssign(w)
  BY <1>0, <1>9 DEF ResumeAssign, Hold, NothingLost, Held, TypeOK
<1>10. CASE ResumeMap(w)
  BY <1>0, <1>10 DEF ResumeMap, NothingLost, Held, TypeOK
<1>11. CASE DataDecrypt(w)
  BY <1>0, <1>11 DEF DataDecrypt, Hold, NothingLost, Held, TypeOK
<1>12. CASE DataRead(w)
  BY <1>0, <1>12 DEF DataRead, Hold, NothingLost, Held, TypeOK
<1>13. CASE Egress(w)
  BY <1>0, <1>13 DEF Egress, NothingLost, Held
<1> QED
  BY <1>1, <1>2, <1>3, <1>4, <1>5, <1>6, <1>7, <1>8, <1>9, <1>10, <1>11,
     <1>12, <1>13 DEF Work

(* Nor does the GC thread, until it deletes a session that has one.        *)
LEMMA GcLosesNothing ==
  ASSUME LeaseInv, Gc, ~RevokeRecycle
  PROVE  NothingLost
<1> USE NoneFresh DEF GcAt, pool, table, clock, client, worker, gc
<1>0. /\ TypeOK /\ GcHolds
      /\ allocated \subseteq IPs
  BY DEF LeaseInv, IInv, Leases, TypeOK
<1>1. CASE CleanupFind \/ RevokeFind \/ RevokeErase \/ RevokeUnmap
  BY <1>0, <1>1 DEF CleanupFind, RevokeFind, RevokeErase, RevokeUnmap,
                    NothingLost, Held
<1>2. CASE CleanupWipe
  <2>1. /\ gcpc' = "unmap" /\ gcip' = gcip /\ ip[victim] = gcip
        /\ gcpc = "wipe" /\ victim \in Sessions
        /\ ip' = [ip EXCEPT ![victim] = None]
        /\ UNCHANGED <<allocated, pc, lease>>
    BY <1>0, <1>2 DEF CleanupWipe, GcHolds, TypeOK
  <2>2. \A s \in Sessions : ip[s] = ip'[s] \/ ip[s] = gcip
    BY <1>0, <2>1 DEF TypeOK
  <2> QED
    BY <2>1, <2>2 DEF NothingLost, Held
<1>3. CASE CleanupUnmap
  BY <1>0, <1>3 DEF CleanupUnmap, NothingLost, Held
<1>4. CASE CleanupRelease \/ RevokeRelease
  <2>1. /\ allocated' = allocated \ {gcip}
        /\ gcpc \in {"release", "revoke"}
        /\ UNCHANGED <<ip, pc, lease>>
    BY <1>4 DEF CleanupRelease, RevokeRelease, GcRelease, PoolRelease
  <2> QED
    BY <2>1 DEF NothingLost, Held
<1>5. CASE Register \/ Poll
  BY <1>5 DEF Register, Poll, vars, NothingLost, Held
<1> QED
  BY <1>1, <1>2, <1>3, <1>4, <1>5 DEF Gc

(* A session in the key index is in a registration that has not ended.     *)
Registered == \A s \in present : life[s] \in 1..MaxLife

(* A registration ends when its key is erased; what the session holds then *)
(* may be lost when it is deleted, one step that is still to come.         *)
Owed == IF gcpc \in {"withdraw", "recycle"} THEN 1 ELSE 0

LossInv ==
  /\ LeaseInv /\ Registered
  /\ IsFiniteSet(Ended)
  /\ Cardinality(Lost) + Owed <= Cardinality(Ended)

(* Any addresses are finitely many, and counted by a number.               *)
LEMMA AddressesFinite ==
  ASSUME NEW A \in SUBSET IPs
  PROVE  IsFiniteSet(A) /\ Cardinality(A) \in Nat
<1>1. IsFiniteSet(A)
  BY IPsFinite, FS_Subset
<1> QED
  BY <1>1, FS_CardinalityType

(* Of all steps only the erasure of a key ends a registration, and one.    *)
LEMMA EndedSteps ==
  ASSUME LeaseInv, Registered, [Next]_vars
  PROVE  /\ Registered'
         /\ ~RevokeErase => Ended' = Ended
         /\ RevokeErase => \E r : r \notin Ended /\ Ended' = Ended \cup {r}
<1>0. /\ TypeOK /\ GcHolds /\ MaxLife \in Nat
      /\ present \subseteq Sessions
      /\ life \in [Sessions -> 0..MaxLife]
  BY TimesNat DEF LeaseInv, IInv, Leases, TypeOK
<1>1. CASE UNCHANGED <<present, life>>
  <2>1. Registered' /\ Ended' = Ended
    BY <1>1 DEF Registered, Ended, Over
  <2>2. ~RevokeErase
    BY <1>0, <1>1 DEF RevokeErase, GcAt, GcHolds
  <2> QED
    BY <2>1, <2>2
<1>2. CASE RevokeErase
  <2> DEFINE r == <<victim, life[victim]>>
  <2>1. /\ victim \in present /\ victim \in Sessions
        /\ present' = present \ {victim} /\ life' = life
    BY <1>0, <1>2 DEF RevokeErase, GcAt, GcHolds, client
  <2>2. life[victim] \in 1..MaxLife
    BY <2>1 DEF Registered
  <2>3. r \in Sessions \X (1..MaxLife) /\ r \notin Ended
    BY <1>0, <2>1, <2>2 DEF Ended, Over
  <2>4. \A q \in Sessions \X (1..MaxLife) :
          Over(q[1], q[2])' <=> Over(q[1], q[2]) \/ q = r
    BY <1>0, <2>1, <2>2 DEF Over
  <2>5. Ended' = Ended \cup {r}
    BY <2>3, <2>4 DEF Ended
  <2>6. Registered'
    BY <2>1 DEF Registered
  <2> QED
    BY <1>2, <2>3, <2>5, <2>6
<1>3. CASE Register
  <2>1. PICK s \in Sessions \ present :
          /\ life[s] < MaxLife
          /\ present' = present \cup {s}
          /\ life' = [life EXCEPT ![s] = @ + 1]
    BY <1>3 DEF Register
  <2>2. \A q \in Sessions \X (1..MaxLife) :
          Over(q[1], q[2])' <=> Over(q[1], q[2])
    BY <1>0, <2>1 DEF Over
  <2>3. Ended' = Ended
    BY <2>2 DEF Ended
  <2>4. life'[s] \in 1..MaxLife
    BY <1>0, <2>1
  <2>5. \A x \in present : life'[x] = life[x]
    BY <1>0, <2>1
  <2>6. Registered'
    BY <2>1, <2>4, <2>5 DEF Registered
  <2>7. ~RevokeErase
    BY <1>3 DEF RevokeErase, Register, GcAt
  <2> QED
    BY <2>3, <2>6, <2>7
<1>4. \/ UNCHANGED <<present, life>>
      \/ RevokeErase
      \/ Register
  <2>1. ASSUME NEW w \in Workers, Work(w) PROVE UNCHANGED <<present, life>>
    BY <2>1
    DEF Work, HandshakeFind, HandshakeRead, HandshakeAllocate, HandshakeMap,
        HandshakeInstall, IssueToken, ResumeVerify, ResumeAbort, ResumeAssign,
        ResumeInstall, ResumeMap, DataDecrypt, DataRead, DataWrite, Egress,
        table, client
  <2>2. CASE Gc
    BY <2>2
    DEF Gc, CleanupFind, CleanupWipe, CleanupUnmap, CleanupRelease,
        RevokeFind, RevokeRelease, RevokeUnmap, RevokeRecycle, Poll, vars,
        table, client
  <2>3. CASE Tick
    BY <2>3 DEF Tick, table, client
  <2>4. CASE UNCHANGED vars
    BY <2>4 DEF vars, table, client
  <2> QED
    BY <2>1, <2>2, <2>3, <2>4 DEF Next
<1> QED
  BY <1>1, <1>2, <1>3, <1>4

(* Only the deletion of a session loses an address, at most the one that   *)
(* the session has; the GC thread owes an address from the erasure to it.  *)
LEMMA LostSteps ==
  ASSUME OneWorker, LeaseInv, [Next]_vars
  PROVE  /\ ~RevokeRecycle => Lost' \subseteq Lost
         /\ RevokeRecycle => \E i : Lost' \subseteq Lost \cup {i}
         /\ RevokeRecycle => Owed = 1 /\ Owed' = 0
         /\ RevokeErase => Owed = 0 /\ Owed' = 1
         /\ ~RevokeErase /\ ~RevokeRecycle => Owed' = Owed
<1>0. /\ TypeOK
      /\ \A v, w \in Workers : v = w
  BY DEF LeaseInv, IInv, OneWorker
<1>1. ASSUME NothingLost PROVE Lost' \subseteq Lost
  BY <1>1 DEF NothingLost, Lost
<1>2. ASSUME UNCHANGED vars PROVE NothingLost /\ Owed' = Owed
  BY <1>2 DEF vars, pool, table, worker, gc, NothingLost, Held, Owed
<1>3. ASSUME Tick PROVE NothingLost /\ Owed' = Owed
  BY <1>3 DEF Tick, pool, table, worker, gc, NothingLost, Held, Owed
<1>4. ASSUME NEW w \in Workers, Work(w) PROVE NothingLost /\ Owed' = Owed
  <2>1. NothingLost
    BY <1>4, WorkLosesNothing
  <2>2. UNCHANGED gcpc
    BY <1>4
    DEF Work, HandshakeFind, HandshakeRead, HandshakeAllocate, HandshakeMap,
        HandshakeInstall, IssueToken, ResumeVerify, ResumeAbort, ResumeAssign,
        ResumeInstall, ResumeMap, DataDecrypt, DataRead, DataWrite, Egress,
        gc
  <2> QED
    BY <2>1, <2>2 DEF Owed
<1>5. ASSUME Gc, ~RevokeRecycle
      PROVE  /\ NothingLost
             /\ RevokeErase => Owed = 0 /\ Owed' = 1
             /\ ~RevokeErase => Owed' = Owed
  <2>1. NothingLost
    BY <1>5, GcLosesNothing
  <2>2. RevokeErase => Owed = 0 /\ Owed' = 1
    BY DEF RevokeErase, GcAt, Owed
  <2>3. ~RevokeErase => Owed' = Owed
    BY <1>5
    DEF Gc, CleanupFind, CleanupWipe, CleanupUnmap, CleanupRelease,
        RevokeFind, RevokeRelease, RevokeUnmap, Register, Poll, GcAt, vars,
        gc, Owed
  <2> QED
    BY <2>1, <2>2, <2>3
<1>6. ASSUME RevokeRecycle
      PROVE  /\ Lost' \subseteq Lost \cup {ip[victim]}
             /\ Owed = 1 /\ Owed' = 0
             /\ ~RevokeErase
  <2>1. /\ gcpc = "recycle" /\ gcpc' = "idle"
        /\ ip' = [ip EXCEPT ![victim] = None]
        /\ UNCHANGED <<allocated, pc, lease>>
    BY <1>6 DEF RevokeRecycle, GcAt, pool, worker
  <2>2. \A i : Held(i) => Held(i)' \/ i = ip[victim]
    BY <1>0, <2>1 DEF Held, TypeOK
  <2>3. Lost' \subseteq Lost \cup {ip[victim]}
    BY <2>1, <2>2 DEF Lost
  <2> QED
    BY <2>1, <2>3 DEF Owed, RevokeErase, GcAt
<1>7. RevokeErase => Gc /\ ~RevokeRecycle
  BY DEF Gc, RevokeErase, RevokeRecycle, GcAt
<1>8. CASE RevokeErase
  BY <1>1, <1>5, <1>7, <1>8
<1>9. CASE RevokeRecycle
  BY <1>6, <1>9
<1>10. CASE ~RevokeErase /\ ~RevokeRecycle
  BY <1>1, <1>2, <1>3, <1>4, <1>5, <1>10 DEF Next
<1> QED
  BY <1>8, <1>9, <1>10

LEMMA LossInit == Init => LossInv
<1> SUFFICES ASSUME Init PROVE LossInv
  OBVIOUS
<1>1. LeaseInv /\ Registered
  BY LeaseInit DEF Init, Registered
<1>2. Lost = {}
  BY DEF Init, Lost
<1>3. Ended = {}
  <2>1. \A r \in Sessions \X (1..MaxLife) : ~Over(r[1], r[2])
    BY TimesNat DEF Init, Over
  <2> QED
    BY <2>1 DEF Ended
<1>4. Owed = 0
  BY DEF Init, Owed
<1> QED
  BY <1>1, <1>2, <1>3, <1>4, FS_EmptySet DEF LossInv

LEMMA LossNext == OneWorker /\ LossInv /\ [Next]_vars => LossInv'
<1> SUFFICES ASSUME OneWorker, LossInv, [Next]_vars PROVE LossInv'
  OBVIOUS
<1>1. LeaseInv /\ LeaseInv' /\ Registered
  BY LeaseNext DEF LossInv
<1>2. /\ IsFiniteSet(Lost) /\ IsFiniteSet(Lost')
      /\ Cardinality(Lost) \in Nat /\ Cardinality(Lost') \in Nat
  <2>1. TypeOK /\ TypeOK'
    BY <1>1 DEF LeaseInv, IInv
  <2>2. Lost \in SUBSET IPs
    BY <2>1 DEF Lost, TypeOK
  <2>3. Lost' \in SUBSET IPs
    BY <2>1 DEF Lost, TypeOK
  <2> QED
    BY <2>2, <2>3, AddressesFinite
<1>3. /\ IsFiniteSet(Ended) /\ Cardinality(Ended) \in Nat
      /\ Cardinality(Lost) + Owed <= Cardinality(Ended)
  BY FS_CardinalityType DEF LossInv
<1>4. ASSUME ~RevokeRecycle
      PROVE  Cardinality(Lost') <= Cardinality(Lost)
  BY <1>1, <1>2, <1>4, LostSteps, FS_Subset
<1>5. ASSUME ~RevokeErase
      PROVE  Ended' = Ended
  BY <1>1, <1>5, EndedSteps
<1>6. CASE RevokeErase
  <2>1. PICK r : r \notin Ended /\ Ended' = Ended \cup {r}
    BY <1>1, <1>6, EndedSteps
  <2>2. IsFiniteSet(Ended') /\ Cardinality(Ended') = Cardinality(Ended) + 1
    BY <1>3, <2>1, FS_AddElement
  <2>3. Owed = 0 /\ Owed' = 1 /\ ~RevokeRecycle
    BY <1>1, <1>6, LostSteps DEF RevokeErase, RevokeRecycle, GcAt
  <2> QED
    BY <1>1, <1>2, <1>3, <1>4, <2>2, <2>3, EndedSteps DEF LossInv
<1>7. CASE RevokeRecycle
  <2>1. PICK i : Lost' \subseteq Lost \cup {i}
    BY <1>1, <1>7, LostSteps
  <2>2. /\ IsFiniteSet(Lost \cup {i})
        /\ Cardinality(Lost \cup {i}) \in Nat
        /\ Cardinality(Lost \cup {i}) <= Cardinality(Lost) + 1
    <3>1. /\ IsFiniteSet(Lost \cup {i})
          /\ Cardinality(Lost \cup {i}) =
               IF i \in Lost THEN Cardinality(Lost) ELSE Cardinality(Lost) + 1
      BY <1>2, FS_AddElement
    <3> QED
      BY <1>2, <3>1
  <2>3. Cardinality(Lost') <= Cardinality(Lost \cup {i})
    BY <2>1, <2>2, FS_Subset
  <2>4. Owed = 1 /\ Owed' = 0 /\ ~RevokeErase
    BY <1>1, <1>7, LostSteps DEF RevokeErase, RevokeRecycle, GcAt
  <2> QED
    BY <1>1, <1>2, <1>3, <1>5, <2>2, <2>3, <2>4, EndedSteps DEF LossInv
<1>8. CASE ~RevokeErase /\ ~RevokeRecycle
  <2>1. Owed' = Owed /\ Owed \in {0, 1}
    BY <1>1, <1>8, LostSteps DEF Owed
  <2> QED
    BY <1>1, <1>2, <1>3, <1>4, <1>5, <1>8, <2>1, EndedSteps DEF LossInv
<1> QED
  BY <1>6, <1>7, <1>8

(* The pool loses an address only with a revocation and at most one with   *)
(* each, for any number of users and addresses: cleanup, handshakes,       *)
(* resumptions and roaming lose none, however their steps interleave.      *)
THEOREM LossIsBounded == OneWorker => (Spec => []LostPerRevocation)
<1>1. LossInv => LostPerRevocation
  <2> SUFFICES ASSUME LossInv PROVE LostPerRevocation
    OBVIOUS
  <2>1. Cardinality(Ended) \in Nat
    BY FS_CardinalityType DEF LossInv
  <2>2. Lost \in SUBSET IPs
    BY DEF LossInv, LeaseInv, IInv, TypeOK, Lost
  <2>3. Cardinality(Lost) \in Nat
    BY <2>2, AddressesFinite
  <2> QED
    BY <2>1, <2>3 DEF LossInv, Owed, LostPerRevocation
<1>2. CASE OneWorker
  BY <1>1, <1>2, LossInit, LossNext, PTL DEF Spec
<1> QED
  BY <1>2
=============================================================================
