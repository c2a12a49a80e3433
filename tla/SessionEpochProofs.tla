------------------------- MODULE SessionEpochProofs -------------------------
(***************************************************************************)
(* Proofs about SessionEpoch for every number of handles, sessions, keys,  *)
(* endpoints and IPs.                                                      *)
(***************************************************************************)
EXTENDS SessionEpoch, FiniteSetTheorems, TLAPS

-----------------------------------------------------------------------------
(* The reader count.                                                       *)

(* A handle about to leave is one of those active_readers_ counts, so that *)
(* the fetch_sub of exit_reader never goes below zero.                     *)
LEMMA LeavingIsCounted ==
  ASSUME TypeOK, ReadersExact,
         NEW h \in Handles, pc[h] \in Counted, mem[tgt[h]] # "freed"
  PROVE  readers[tgt[h]] - 1 \in Nat
<1> DEFINE S == {x \in Handles : pc[x] \in Counted /\ tgt[x] = tgt[h]}
<1>1. tgt[h] \in Sessions /\ readers[tgt[h]] \in Nat
  BY DEF TypeOK, Counted, Entering, Held
<1>2. readers[tgt[h]] = Cardinality(S)
  BY <1>1 DEF ReadersExact
<1>3. IsFiniteSet(S)
  BY HandlesFinite, FS_Subset
<1>4. h \in S
  OBVIOUS
<1>5. Cardinality(S) # 0
  BY <1>3, <1>4, FS_EmptySet
<1>6. QED
  BY <1>1, <1>2, <1>5

-----------------------------------------------------------------------------
(* Type correctness: an operation of the handle, of the tables or of the   *)
(* GC thread leaves every field in its type, and a handle in use and the   *)
(* victim of a removal are addresses, never the null pointer.              *)
LEMMA FindType ==
  ASSUME TypeOK, NEW h \in Handles, Find(h)
  PROVE  TypeOK'
BY NoneFresh DEF TypeOK, Find, FindByKeyId, FindByEndpoint, FindByAssignedIp,
   Lookup, Ptr, Entering, Held, tables, epoch, gc

LEMMA HandleType ==
  ASSUME TypeOK, ReadersExact, NEW h \in Handles, Handle(h)
  PROVE  TypeOK'
<1> USE NoneFresh DEF TypeOK, Ptr, Entering, Held, At, tables, epoch, gc
<1>1. CASE TouchFreed(h)   BY <1>1 DEF TouchFreed, Forget
<1>2. CASE LoadGen(h)      BY <1>2 DEF LoadGen
<1>3. CASE EnterCheck(h)   BY <1>3 DEF EnterCheck, Forget
<1>4. CASE EnterCount(h)   BY <1>4 DEF EnterCount
<1>5. CASE EnterRecheck(h) BY <1>5 DEF EnterRecheck
<1>6. CASE RecheckGen(h)   BY <1>6 DEF RecheckGen
<1>7. CASE EnterUndo(h) \/ Release(h)
  <2>1. PICK from \in {"undo", "held", "scanned", "bound"} :
          ExitReader(h, from)
    BY <1>7 DEF EnterUndo, Release
  <2>2. readers[tgt[h]] - 1 \in Nat
    BY <2>1, LeavingIsCounted DEF ExitReader, Counted, Alive
  <2>3. QED
    BY <2>1, <2>2 DEF ExitReader, Forget
<1>8. CASE HandshakeMapIp(h) BY <1>8 DEF HandshakeMapIp, MapIp
<1>9. CASE HandshakeRekey(h) BY <1>9 DEF HandshakeRekey, Rekey, SetRouting
<1>10. CASE HandshakeEndpoint(h)
  BY <1>10 DEF HandshakeEndpoint, PublishEndpoint
<1>11. CASE ResumeRekey(h) BY <1>11 DEF ResumeRekey, Rekey, SetRouting
<1>12. CASE ResumeEndpoint(h) BY <1>12 DEF ResumeEndpoint, PublishEndpoint
<1>13. CASE ResumeMapIp(h) BY <1>13 DEF ResumeMapIp, MapIp
<1>14. CASE RoamEndpoint(h) BY <1>14 DEF RoamEndpoint, PublishEndpoint
<1>15. CASE DataReadRouting(h) BY <1>15 DEF DataReadRouting
<1>16. CASE DataSetRouting(h) BY <1>16 DEF DataSetRouting, SetRouting
<1>17. QED
  BY <1>1, <1>2, <1>3, <1>4, <1>5, <1>6, <1>7, <1>8, <1>9, <1>10, <1>11,
     <1>12, <1>13, <1>14, <1>15, <1>16 DEF Handle

LEMMA GcType ==
  ASSUME TypeOK,
         Register \/ CleanupSession \/ CleanupEndpoint \/ RemoveErase \/ Remove
  PROVE  TypeOK'
<1> USE NoneFresh DEF TypeOK, Ptr, Entering, Held, tables, epoch, gc, handle,
                      GcStep
<1>1. CASE Register        BY <1>1 DEF Register
<1>2. CASE CleanupSession  BY <1>2 DEF CleanupSession
<1>3. CASE CleanupEndpoint BY <1>3 DEF CleanupEndpoint
<1>4. CASE RemoveErase     BY <1>4 DEF RemoveErase
<1>5. CASE RemoveUnmap     BY <1>5 DEF RemoveUnmap
<1>6. CASE RemovePurge     BY <1>6 DEF RemovePurge
<1>7. CASE RecycleBegin    BY <1>7 DEF RecycleBegin
<1>8. CASE RecycleBump     BY <1>8 DEF RecycleBump
<1>9. CASE RecycleQuiesce  BY <1>9 DEF RecycleQuiesce
<1>10. CASE RecycleClear   BY <1>10 DEF RecycleClear
<1>11. CASE RecycleEnd     BY <1>11 DEF RecycleEnd
<1>12. CASE DeleteSession  BY <1>12 DEF DeleteSession
<1>13. QED
  BY <1>1, <1>2, <1>3, <1>4, <1>5, <1>6, <1>7, <1>8, <1>9, <1>10, <1>11,
     <1>12 DEF Remove

LEMMA TypeStep ==
  ASSUME TypeOK, ReadersExact, [Next]_vars
  PROVE  TypeOK'
<1>1. CASE \E h \in Handles : Find(h) BY <1>1, FindType
<1>2. CASE \E h \in Handles : Handle(h) BY <1>2, HandleType
<1>3. CASE Register \/ CleanupSession \/ CleanupEndpoint \/ RemoveErase
             \/ Remove
  BY <1>3, GcType
<1>4. CASE Poll \/ UNCHANGED vars
  BY <1>4 DEF Poll, vars, tables, epoch, handle, gc, TypeOK
<1>5. QED
  BY <1>1, <1>2, <1>3, <1>4 DEF Next

-----------------------------------------------------------------------------
(* The count stays exact: a step that neither counts nor discounts a       *)
(* handle keeps it, the fetch_add and the fetch_sub follow the set.        *)

LEMMA CountKept ==
  ASSUME ReadersExact,
         readers' = readers,
         \A s \in Sessions : mem'[s] # "freed" =>
           /\ mem[s] # "freed"
           /\ \A h \in Handles :
                (pc'[h] \in Counted /\ tgt'[h] = s) <=>
                (pc[h] \in Counted /\ tgt[h] = s)
  PROVE  ReadersExact'
<1> SUFFICES ASSUME NEW s \in Sessions, mem'[s] # "freed"
             PROVE  readers'[s] = Cardinality({h \in Handles :
                                    pc'[h] \in Counted /\ tgt'[h] = s})
  BY DEF ReadersExact, Counted, Held
<1>1. {h \in Handles : pc'[h] \in Counted /\ tgt'[h] = s}
        = {h \in Handles : pc[h] \in Counted /\ tgt[h] = s}
  OBVIOUS
<1>2. QED
  BY <1>1 DEF ReadersExact

LEMMA CountEnter ==
  ASSUME TypeOK, ReadersExact, NEW h \in Handles, EnterCount(h)
  PROVE  ReadersExact'
<1> SUFFICES ASSUME NEW s \in Sessions, mem'[s] # "freed"
             PROVE  readers'[s] = Cardinality({x \in Handles :
                                    pc'[x] \in Counted /\ tgt'[x] = s})
  BY DEF ReadersExact, Counted, Held
<1> DEFINE S == {x \in Handles : pc[x] \in Counted /\ tgt[x] = s}
           T == {x \in Handles : pc'[x] \in Counted /\ tgt'[x] = s}
<1>1. /\ pc[h] = "inc" /\ pc' = [pc EXCEPT ![h] = "recheck"]
      /\ tgt' = tgt /\ mem' = mem
      /\ readers' = [readers EXCEPT ![tgt[h]] = @ + 1]
      /\ tgt[h] \in Sessions
  BY DEF EnterCount, At, TypeOK, Entering
<1>2. readers[s] = Cardinality(S) /\ IsFiniteSet(S)
  BY <1>1, HandlesFinite, FS_Subset DEF ReadersExact
<1>3. CASE tgt[h] = s
  <2>1. h \notin S
    BY <1>1 DEF Counted, Held
  <2>2. T = S \cup {h}
    BY <1>1, <1>3 DEF TypeOK, Counted, Held
  <2>3. Cardinality(T) = Cardinality(S) + 1
    BY <1>2, <2>1, <2>2, FS_AddElement
  <2>4. readers'[s] = readers[s] + 1
    BY <1>1, <1>3 DEF TypeOK
  <2>5. QED
    BY <1>2, <2>3, <2>4
<1>4. CASE tgt[h] # s
  <2>1. T = S
    BY <1>1, <1>4 DEF TypeOK
  <2>2. readers'[s] = readers[s]
    BY <1>1, <1>4 DEF TypeOK
  <2>3. QED
    BY <1>2, <2>1, <2>2
<1>5. QED
  BY <1>3, <1>4

LEMMA CountExit ==
  ASSUME TypeOK, ReadersExact, NEW h \in Handles,
         NEW from \in Counted, ExitReader(h, from)
  PROVE  ReadersExact'
<1> SUFFICES ASSUME NEW s \in Sessions, mem'[s] # "freed"
             PROVE  readers'[s] = Cardinality({x \in Handles :
                                    pc'[x] \in Counted /\ tgt'[x] = s})
  BY DEF ReadersExact, Counted, Held
<1> DEFINE S == {x \in Handles : pc[x] \in Counted /\ tgt[x] = s}
           T == {x \in Handles : pc'[x] \in Counted /\ tgt'[x] = s}
<1>1. /\ pc[h] = from /\ pc' = [pc EXCEPT ![h] = "idle"]
      /\ tgt' = [tgt EXCEPT ![h] = None] /\ mem' = mem
      /\ readers' = [readers EXCEPT ![tgt[h]] = @ - 1]
      /\ tgt[h] \in Sessions
  BY DEF ExitReader, At, Forget, TypeOK, Counted, Entering, Held
<1>2. readers[s] = Cardinality(S) /\ IsFiniteSet(S)
  BY <1>1, HandlesFinite, FS_Subset DEF ReadersExact
<1>3. T = S \ {h}
  BY <1>1 DEF TypeOK, Counted, Held
<1>4. CASE tgt[h] = s
  <2>1. h \in S
    BY <1>1, <1>4
  <2>2. Cardinality(T) = Cardinality(S) - 1
    BY <1>2, <1>3, <2>1, FS_RemoveElement
  <2>3. readers'[s] = readers[s] - 1
    BY <1>1, <1>4 DEF TypeOK
  <2>4. QED
    BY <1>2, <2>2, <2>3
<1>5. CASE tgt[h] # s
  <2>1. T = S
    BY <1>3, <1>5
  <2>2. readers'[s] = readers[s]
    BY <1>1, <1>5 DEF TypeOK
  <2>3. QED
    BY <1>2, <2>1, <2>2
<1>6. QED
  BY <1>4, <1>5

LEMMA CountHandle ==
  ASSUME TypeOK, ReadersExact, NEW h \in Handles, Handle(h)
  PROVE  ReadersExact'
<1>1. CASE EnterCount(h) BY <1>1, CountEnter
<1>2. CASE EnterUndo(h) \/ Release(h)
  BY <1>2, CountExit DEF EnterUndo, Release, Counted, Held
<1>3. CASE TouchFreed(h)
  BY <1>3, CountKept
     DEF TouchFreed, Forget, Alive, TypeOK, Counted, Entering, Held, epoch, Ptr
<1>4. CASE LoadGen(h) \/ EnterCheck(h) \/ EnterRecheck(h) \/ RecheckGen(h)
  BY <1>4, CountKept
     DEF LoadGen, EnterCheck, EnterRecheck, RecheckGen, At, Forget, TypeOK,
         Counted, Held, epoch
<1>5. CASE HandshakeMapIp(h) \/ HandshakeRekey(h) \/ HandshakeEndpoint(h)
  BY <1>5, CountKept
     DEF HandshakeMapIp, HandshakeRekey, HandshakeEndpoint, Rekey, At, TypeOK,
         Counted, Held, epoch
<1>6. CASE ResumeRekey(h) \/ ResumeEndpoint(h) \/ ResumeMapIp(h)
  BY <1>6, CountKept
     DEF ResumeRekey, ResumeEndpoint, ResumeMapIp, Rekey, At, TypeOK,
         Counted, Held, epoch
<1>7. CASE RoamEndpoint(h) \/ DataReadRouting(h) \/ DataSetRouting(h)
  BY <1>7, CountKept
     DEF RoamEndpoint, DataReadRouting, DataSetRouting, At, TypeOK,
         Counted, Held, epoch
<1>8. QED
  BY <1>1, <1>2, <1>3, <1>4, <1>5, <1>6, <1>7 DEF Handle

LEMMA CountStep ==
  ASSUME TypeOK, ReadersExact, [Next]_vars
  PROVE  ReadersExact'
<1>1. CASE \E h \in Handles : Handle(h) BY <1>1, CountHandle
<1>2. CASE \E h \in Handles : Find(h)
  BY <1>2, CountKept
     DEF Find, FindByKeyId, FindByEndpoint, FindByAssignedIp, Lookup, TypeOK,
         Counted, Held, epoch
<1>3. CASE Register
  BY <1>3, CountKept DEF Register, TypeOK, epoch, handle
<1>4. CASE DeleteSession
  BY <1>4, CountKept DEF DeleteSession, GcStep, TypeOK, epoch, handle
<1>5. CASE CleanupSession \/ CleanupEndpoint \/ RemoveErase \/ RemoveUnmap
             \/ RemovePurge \/ RecycleBegin \/ RecycleBump \/ RecycleQuiesce
             \/ RecycleClear \/ RecycleEnd \/ Poll \/ UNCHANGED vars
  BY <1>5, CountKept
     DEF CleanupSession, CleanupEndpoint, RemoveErase, RemoveUnmap,
         RemovePurge, RecycleBegin, RecycleBump, RecycleQuiesce, RecycleClear,
         RecycleEnd, GcStep, Poll, vars, epoch, handle
<1>6. QED
  BY <1>1, <1>2, <1>3, <1>4, <1>5 DEF Next, Remove

(* Type correctness for every value of the constants, together with the    *)
(* exact reader count that keeps active_readers_ from going negative.      *)
THEOREM TypeCorrect == Spec => [](TypeOK /\ ReadersExact)
<1>1. Init => TypeOK /\ ReadersExact
  <2>1. SUFFICES ASSUME Init PROVE TypeOK /\ ReadersExact
    OBVIOUS
  <2>2. TypeOK
    BY <2>1 DEF Init, TypeOK, Ptr, Entering, Held
  <2>3. \A s \in Sessions :
          {h \in Handles : pc[h] \in Counted /\ tgt[h] = s} = {}
    BY <2>1 DEF Init, Counted, Held
  <2>4. QED
    BY <2>1, <2>2, <2>3, FS_EmptySet DEF Init, ReadersExact
<1>2. TypeOK /\ ReadersExact /\ [Next]_vars => (TypeOK /\ ReadersExact)'
  BY TypeStep, CountStep
<1>3. QED
  BY <1>1, <1>2, PTL DEF Spec

-----------------------------------------------------------------------------
(* The fence between remove_session and the handles.                       *)

Fence ==
  /\ VictimFenced /\ NoneInside /\ KeyIndexFresh /\ RawUntouched
  /\ KeyLookupLocked /\ KeyHandleSafe /\ KeyHandlesGone

(* A session that no reader is counted on is in no counted handle.         *)
LEMMA NoneCounted ==
  ASSUME TypeOK, ReadersExact, NEW s \in Sessions,
         mem[s] # "freed", readers[s] = 0
  PROVE  \A h \in Handles : pc[h] \in Counted => tgt[h] # s
<1> DEFINE S == {h \in Handles : pc[h] \in Counted /\ tgt[h] = s}
<1>1. Cardinality(S) = 0
  BY DEF ReadersExact
<1>2. IsFiniteSet(S)
  BY HandlesFinite, FS_Subset
<1>3. S = {}
  BY <1>1, <1>2, FS_EmptySet
<1>4. QED
  BY <1>3

(* A lookup through the key index starts on a session that is not being    *)
(* removed; the other lookups start anywhere, and hold nothing yet.        *)
LEMMA FenceFind ==
  ASSUME TypeOK, Fence, NEW h \in Handles, Find(h)
  PROVE  Fence'
<1>1. CASE FindByKeyId(h)
  BY <1>1 DEF FindByKeyId, Lookup, Fence, VictimFenced, NoneInside,
     KeyIndexFresh, RawUntouched, KeyLookupLocked, KeyHandleSafe,
     KeyHandlesGone, Removing, TypeOK, Entering, Held, tables, epoch, gc
<1>2. CASE FindByEndpoint(h) \/ FindByAssignedIp(h)
  BY <1>2 DEF FindByEndpoint, FindByAssignedIp, Lookup, Fence, VictimFenced,
     NoneInside, KeyIndexFresh, RawUntouched, KeyLookupLocked, KeyHandleSafe,
     KeyHandlesGone, Removing, TypeOK, Entering, Held, tables, epoch, gc
<1>3. QED
  BY <1>1, <1>2 DEF Find

(* A handler step: only EnterRecheck moves a handle past the check of      *)
(* is_recycling_, and it does so while the victim, if it is the target, is *)
(* not fenced.                                                             *)
LEMMA FenceHandle ==
  ASSUME TypeOK, Fence, NEW h \in Handles, Handle(h)
  PROVE  Fence'
<1> USE DEF Fence, VictimFenced, NoneInside, KeyIndexFresh, RawUntouched,
            KeyLookupLocked, KeyHandleSafe, KeyHandlesGone, Removing, TypeOK,
            Entering, Held, At, tables, epoch, gc
<1>1. CASE TouchFreed(h) BY <1>1 DEF TouchFreed, Forget
<1>2. CASE LoadGen(h) BY <1>2 DEF LoadGen
<1>3. CASE EnterCheck(h) BY <1>3 DEF EnterCheck, Forget
<1>4. CASE EnterCount(h) BY <1>4 DEF EnterCount
<1>5. CASE EnterRecheck(h) BY <1>5 DEF EnterRecheck
<1>6. CASE RecheckGen(h)
  <2>1. CASE gen[tgt[h]] # hgen[h]
    BY <1>6, <2>1 DEF RecheckGen
  <2>2. CASE gen[tgt[h]] = hgen[h]
    <3>1. /\ pc[h] = "regen" /\ pc' = [pc EXCEPT ![h] = "held"]
          /\ UNCHANGED <<mem, tables, epoch, gc, via, slot, tgt, hgen, lease>>
      BY <1>6, <2>2 DEF RecheckGen
    <3>2. ASSUME via[h] = "key"
          PROVE  ~cleared[tgt[h]] /\ (Removing => tgt[h] # victim)
      <4>1. slot[h] \in Keys /\ byKey[slot[h]] = tgt[h] /\ tgt[h] # None
        BY <3>1, <3>2, NoneFresh
      <4>2. QED
        BY <4>1
    <3>3. VictimFenced' /\ NoneInside' /\ KeyIndexFresh' /\ RawUntouched'
      BY <3>1
    <3>4. KeyLookupLocked' /\ KeyHandleSafe' /\ KeyHandlesGone'
      BY <3>1, <3>2
    <3>5. QED
      BY <3>3, <3>4
  <2>3. QED
    BY <2>1, <2>2
<1>7. CASE HandshakeMapIp(h) BY <1>7 DEF HandshakeMapIp
<1>8. CASE HandshakeRekey(h) BY <1>8 DEF HandshakeRekey, Rekey
<1>9. CASE HandshakeEndpoint(h) BY <1>9 DEF HandshakeEndpoint
<1>10. CASE ResumeRekey(h) BY <1>10 DEF ResumeRekey, Rekey
<1>11. CASE ResumeEndpoint(h) BY <1>11 DEF ResumeEndpoint
<1>12. CASE ResumeMapIp(h) BY <1>12 DEF ResumeMapIp
<1>13. CASE RoamEndpoint(h) BY <1>13 DEF RoamEndpoint
<1>14. CASE DataReadRouting(h) BY <1>14 DEF DataReadRouting
<1>15. CASE DataSetRouting(h) BY <1>15 DEF DataSetRouting
<1>16. CASE EnterUndo(h) \/ Release(h)
  BY <1>16 DEF EnterUndo, Release, ExitReader, Forget
<1>17. QED
  BY <1>1, <1>2, <1>3, <1>4, <1>5, <1>6, <1>7, <1>8, <1>9, <1>10, <1>11, <1>12,
     <1>13, <1>14, <1>15, <1>16
     DEF Handle

LEMMA FenceGc ==
  ASSUME TypeOK, ReadersExact, Fence,
         Register \/ CleanupSession \/ CleanupEndpoint \/ RemoveErase \/ Remove
  PROVE  Fence'
<1> USE DEF Fence, VictimFenced, NoneInside, KeyIndexFresh, RawUntouched,
            KeyLookupLocked, KeyHandleSafe, KeyHandlesGone, Removing, TypeOK,
            Entering, Held, GcStep, tables, epoch, handle, gc
<1>1. CASE Register BY <1>1, NoneFresh DEF Register, Locked
<1>2. CASE CleanupSession BY <1>2 DEF CleanupSession
<1>3. CASE CleanupEndpoint BY <1>3 DEF CleanupEndpoint
<1>4. CASE RemoveErase BY <1>4, NoneFresh DEF RemoveErase, Locked
<1>5. CASE RemoveUnmap BY <1>5 DEF RemoveUnmap
<1>6. CASE RemovePurge BY <1>6 DEF RemovePurge
<1>7. CASE RecycleBegin BY <1>7 DEF RecycleBegin
<1>8. CASE RecycleBump BY <1>8 DEF RecycleBump
<1>9. CASE RecycleQuiesce
  <2>1. readers[victim] = 0 /\ victim \in Sessions /\ mem[victim] # "freed"
    BY <1>9 DEF RecycleQuiesce
  <2>2. \A h \in Handles : pc[h] \in Counted => tgt[h] # victim
    BY <2>1, NoneCounted
  <2>3. QED
    BY <1>9, <2>2 DEF RecycleQuiesce, Counted
<1>10. CASE RecycleClear BY <1>10 DEF RecycleClear
<1>11. CASE RecycleEnd BY <1>11 DEF RecycleEnd
<1>12. CASE DeleteSession
  <2>1. /\ gcpc = "delete" /\ gcpc' = "idle" /\ victim \in Sessions
        /\ mem' = [mem EXCEPT ![victim] = "freed"]
        /\ UNCHANGED <<tables, epoch, handle, victim>>
    BY <1>12 DEF DeleteSession
  <2>2. \A h \in Handles : via[h] = "key" /\ pc[h] \in Entering \cup Held =>
          tgt[h] # victim
    <3>1. ASSUME NEW h \in Handles, via[h] = "key", pc[h] \in Held
          PROVE  tgt[h] # victim
      BY <2>1, <3>1
    <3>2. ASSUME NEW h \in Handles, via[h] = "key", pc[h] \in Entering
          PROVE  tgt[h] # victim
      <4>1. slot[h] \in Keys /\ byKey[slot[h]] = tgt[h] /\ tgt[h] # None
        BY <3>2, NoneFresh
      <4>2. QED
        BY <2>1, <4>1
    <3>3. QED
      BY <3>1, <3>2
  <2>3. VictimFenced' /\ NoneInside' /\ KeyIndexFresh' /\ RawUntouched'
    BY <2>1
  <2>4. KeyLookupLocked' /\ KeyHandleSafe' /\ KeyHandlesGone'
    BY <2>1, <2>2
  <2>5. QED
    BY <2>3, <2>4
<1>13. QED
  BY <1>1, <1>2, <1>3, <1>4, <1>5, <1>6, <1>7, <1>8, <1>9, <1>10, <1>11, <1>12
     DEF Remove

LEMMA FenceStep ==
  ASSUME TypeOK, ReadersExact, Fence, [Next]_vars
  PROVE  Fence'
<1>1. CASE \E h \in Handles : Find(h) BY <1>1, FenceFind
<1>2. CASE \E h \in Handles : Handle(h) BY <1>2, FenceHandle
<1>3. CASE Register \/ CleanupSession \/ CleanupEndpoint \/ RemoveErase
             \/ Remove
  BY <1>3, FenceGc
<1>4. CASE Poll \/ UNCHANGED vars
  BY <1>4 DEF Poll, vars, tables, epoch, handle, gc, Fence, VictimFenced,
     NoneInside, KeyIndexFresh, RawUntouched, KeyLookupLocked, KeyHandleSafe,
     KeyHandlesGone, Removing
<1>5. QED
  BY <1>1, <1>2, <1>3, <1>4 DEF Next

(* The inductive invariant.                                                *)
THEOREM Inductive == Spec => []IInv
<1>1. Init => Fence
  BY DEF Init, Fence, VictimFenced, NoneInside, KeyIndexFresh, RawUntouched,
     KeyLookupLocked, KeyHandleSafe, KeyHandlesGone, Removing, Entering, Held
<1>2. TypeOK /\ ReadersExact /\ Fence /\ [Next]_vars => Fence'
  BY FenceStep
<1>3. Spec => []Fence
  BY <1>1, <1>2, TypeCorrect, PTL DEF Spec
<1>4. TypeOK /\ ReadersExact /\ Fence => IInv
  BY DEF IInv, Fence
<1>5. QED
  BY <1>3, <1>4, TypeCorrect, PTL

(* recycle() wipes a session only after its readers exit.                  *)
THEOREM QuiescedBeforeClear == Spec => []QuiescedClear
<1>1. IInv => QuiescedClear
  BY DEF IInv, NoneInside, QuiescedClear
<1>2. QED
  BY <1>1, Inductive, PTL

(* A handler that finds its session in the key index is safe from its      *)
(* removal.                                                                *)
THEOREM KeyHandlesSafe == Spec => []KeyHandleSafe
<1>1. IInv => KeyHandleSafe
  BY DEF IInv
<1>2. QED
  BY <1>1, Inductive, PTL

(* active_readers_ is exact.                                               *)
THEOREM ReadersCounted == Spec => []ReadersExact
BY TypeCorrect, PTL
=============================================================================
