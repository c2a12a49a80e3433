---------------------------- MODULE SessionEpoch ----------------------------
(***************************************************************************)
(* The life cycle of a Session object shared by the packet workers and the *)
(* garbage-collection thread: the reader-epoch handle of session.h, the    *)
(* three indexes of session_table.h (by key id, by endpoint, by assigned   *)
(* IP), the handshake that publishes a session in the last two, and        *)
(* remove_session, which withdraws it, recycles it and deletes it.         *)
(*                                                                         *)
(* One step is one atomic operation, one critical section or one           *)
(* copy-on-write publication.  A handle is one SessionHandle variable of   *)
(* a packet handler; a handler that owns several is several handles.  The  *)
(* GC thread is the only caller of remove_session and cleanup_maps.        *)
(***************************************************************************)
EXTENDS Integers, FiniteSets

CONSTANTS
  Handles,     \* the SessionHandle variables of the packet workers
  Sessions,    \* the addresses Session objects are allocated at
  Keys,        \* key ids; each is alone in its shard
  Endpoints,   \* client endpoints; each is alone in its shard
  IPs,         \* tunnel addresses
  None,        \* the null pointer, and the address 0
  MaxGen       \* a session at this generation is not rekeyed again

ASSUME HandlesFinite == IsFiniteSet(Handles)
ASSUME NoneFresh     == None \notin Sessions \cup Keys \cup Endpoints \cup IPs
ASSUME MaxGenNat     == MaxGen \in Nat

VARIABLES
  mem,         \* what is at each address: not yet allocated, live or freed
  byKey,       \* shards_[.].by_key_id
  byEndpoint,  \* ep_shards_[.].by_endpoint
  routes,      \* the current routes_ snapshot
  gen,         \* identity.generation
  readers,     \* active_readers_
  recycling,   \* is_recycling_
  ip,          \* assigned_ip of the current routing snapshot, None for 0
  cleared,     \* recycle() has wiped routing, keys, tx_seq and replay filter
  pc,          \* where each handle is
  via,         \* the index it was looked up in (a scan is of the key index)
  slot,        \* the key, endpoint or IP it was looked up with
  tgt,         \* SessionHandle::ptr, or the Session* being entered
  hgen,        \* SessionHandle::gen
  lease,       \* the IP the handler that holds this handle works with
  gcpc,        \* where the GC thread is
  victim,      \* to_delete in remove_session
  shards       \* the endpoint shards remove_session has yet to purge

tables == <<byKey, byEndpoint, routes>>
epoch  == <<gen, readers, recycling, ip, cleared>>
handle == <<pc, via, slot, tgt, hgen, lease>>
gc     == <<gcpc, victim, shards>>
vars   == <<mem, tables, epoch, handle, gc>>

Ptr  == Sessions \cup {None}

(* A handle under construction: from the load of the raw pointer to the    *)
(* second generation check.                                                *)
Entering == {"loadGen", "check", "inc", "recheck", "undo", "regen"}
(* A handle that was constructed successfully.                             *)
Held     == {"held", "mapped", "rekeyed", "resumed", "remap", "scanned",
             "roam", "bound"}
(* The handle has been counted in active_readers_ and not yet taken out.   *)
Counted  == {"recheck", "undo", "regen"} \cup Held

TypeOK ==
  /\ mem \in [Sessions -> {"raw", "live", "freed"}]
  /\ byKey \in [Keys -> Ptr]
  /\ byEndpoint \in [Endpoints -> Ptr]
  /\ routes \in [IPs -> Ptr]
  /\ gen \in [Sessions -> Nat]
  /\ readers \in [Sessions -> Nat]
  /\ recycling \in [Sessions -> BOOLEAN]
  /\ ip \in [Sessions -> IPs \cup {None}]
  /\ cleared \in [Sessions -> BOOLEAN]
  /\ pc \in [Handles -> {"idle", "ub"} \cup Entering \cup Held]
  /\ via \in [Handles -> {"key", "endpoint", "route", "none"}]
  /\ slot \in [Handles -> Keys \cup Endpoints \cup IPs \cup {None}]
  /\ tgt \in [Handles -> Ptr]
  /\ hgen \in [Handles -> Nat]
  /\ lease \in [Handles -> IPs \cup {None}]
  /\ gcpc \in {"idle", "unmap", "purge", "recycle", "bump", "quiesce",
               "clear", "release", "delete", "ub"}
  /\ victim \in Ptr
  /\ shards \in SUBSET Endpoints
  /\ \A h \in Handles : pc[h] \in Entering \cup Held => tgt[h] \in Sessions
  /\ gcpc \notin {"idle", "ub"} => victim \in Sessions

Init ==
  /\ mem = [s \in Sessions |-> "raw"]
  /\ byKey = [k \in Keys |-> None]
  /\ byEndpoint = [e \in Endpoints |-> None]
  /\ routes = [i \in IPs |-> None]
  /\ gen = [s \in Sessions |-> 1]
  /\ readers = [s \in Sessions |-> 0]
  /\ recycling = [s \in Sessions |-> FALSE]
  /\ ip = [s \in Sessions |-> None]
  /\ cleared = [s \in Sessions |-> FALSE]
  /\ pc = [h \in Handles |-> "idle"]
  /\ via = [h \in Handles |-> "none"]
  /\ slot = [h \in Handles |-> None]
  /\ tgt = [h \in Handles |-> None]
  /\ hgen = [h \in Handles |-> 0]
  /\ lease = [h \in Handles |-> None]
  /\ gcpc = "idle"
  /\ victim = None
  /\ shards = {}

-----------------------------------------------------------------------------
(* Looking a session up.  The key and endpoint indexes are read under the  *)
(* shared lock of the shard, which is held until the handle is built; the  *)
(* route table is read from an atomically loaded snapshot, with no lock.   *)

(* The shard of k (or of e) is locked shared by a handle being built.      *)
Locked(index, x) ==
  \E h \in Handles : pc[h] \in Entering /\ via[h] = index /\ slot[h] = x

Lookup(h, index, x, found) ==
  /\ pc[h] = "idle"
  /\ found # None
  /\ pc' = [pc EXCEPT ![h] = "loadGen"]
  /\ via' = [via EXCEPT ![h] = index]
  /\ slot' = [slot EXCEPT ![h] = x]
  /\ tgt' = [tgt EXCEPT ![h] = found]
  /\ UNCHANGED <<mem, tables, epoch, gc, hgen, lease>>

FindByKeyId(h)      == \E k \in Keys : Lookup(h, "key", k, byKey[k])
FindByEndpoint(h)   == \E e \in Endpoints :
                          Lookup(h, "endpoint", e, byEndpoint[e])
FindByAssignedIp(h) == \E i \in IPs : Lookup(h, "route", i, routes[i])

-----------------------------------------------------------------------------
(* SessionHandle::reset and Session::enter_reader.                         *)

Alive(h) == mem[tgt[h]] # "freed"

(* A handle that is empty again, or still: ptr = nullptr, gen = 0.         *)
Forget(h) ==
  /\ via' = [via EXCEPT ![h] = "none"]
  /\ slot' = [slot EXCEPT ![h] = None]
  /\ tgt' = [tgt EXCEPT ![h] = None]
  /\ hgen' = [hgen EXCEPT ![h] = 0]
  /\ lease' = [lease EXCEPT ![h] = None]

(* Any access through a handle to freed memory is undefined behaviour; the *)
(* model stops following that handle.                                      *)
TouchFreed(h) ==
  /\ pc[h] \in Entering \cup Held
  /\ ~Alive(h)
  /\ pc' = [pc EXCEPT ![h] = "ub"]
  /\ Forget(h)
  /\ UNCHANGED <<mem, tables, epoch, gc>>

At(h, from, to) ==
  /\ pc[h] = from
  /\ Alive(h)
  /\ pc' = [pc EXCEPT ![h] = to]

LoadGen(h) ==
  /\ At(h, "loadGen", "check")
  /\ hgen' = [hgen EXCEPT ![h] = gen[tgt[h]]]
  /\ UNCHANGED <<mem, tables, epoch, gc, via, slot, tgt, lease>>

EnterCheck(h) ==
  \/ /\ At(h, "check", "inc")
     /\ ~recycling[tgt[h]]
     /\ UNCHANGED <<mem, tables, epoch, gc, via, slot, tgt, hgen, lease>>
  \/ /\ At(h, "check", "idle")
     /\ recycling[tgt[h]]
     /\ Forget(h)
     /\ UNCHANGED <<mem, tables, epoch, gc>>

EnterCount(h) ==
  /\ At(h, "inc", "recheck")
  /\ readers' = [readers EXCEPT ![tgt[h]] = @ + 1]
  /\ UNCHANGED <<mem, tables, gen, recycling, ip, cleared, gc,
                 via, slot, tgt, hgen, lease>>

EnterRecheck(h) ==
  /\ At(h, "recheck", IF recycling[tgt[h]] THEN "undo" ELSE "regen")
  /\ UNCHANGED <<mem, tables, epoch, gc, via, slot, tgt, hgen, lease>>

(* Mutated form: reset() that drops a handle of an old generation without  *)
(* exit_reader.                                                            *)
RecheckGenNoExit(h) ==
  \/ /\ At(h, "regen", "held")
     /\ gen[tgt[h]] = hgen[h]
     /\ UNCHANGED <<mem, tables, epoch, gc, via, slot, tgt, hgen, lease>>
  \/ /\ At(h, "regen", "idle")
     /\ gen[tgt[h]] # hgen[h]
     /\ Forget(h)
     /\ UNCHANGED <<mem, tables, epoch, gc>>

RecheckGen(h) ==
  /\ At(h, "regen", IF gen[tgt[h]] = hgen[h] THEN "held" ELSE "undo")
  /\ UNCHANGED <<mem, tables, epoch, gc, via, slot, tgt, hgen, lease>>

(* Mutated form: release() that runs twice, ptr having been kept.          *)
ExitReaderTwice(h, from) ==
  /\ At(h, from, "idle")
  /\ readers' = [readers EXCEPT ![tgt[h]] = @ - 2]
  /\ Forget(h)
  /\ UNCHANGED <<mem, tables, gen, recycling, ip, cleared, gc>>

ExitReader(h, from) ==
  /\ At(h, from, "idle")
  /\ readers' = [readers EXCEPT ![tgt[h]] = @ - 1]
  /\ Forget(h)
  /\ UNCHANGED <<mem, tables, gen, recycling, ip, cleared, gc>>

(* Mutated form: backing out of enter_reader without the fetch_sub.        *)
EnterUndoUncounted(h) ==
  /\ At(h, "undo", "idle")
  /\ Forget(h)
  /\ UNCHANGED <<mem, tables, epoch, gc>>

EnterUndo(h) == ExitReader(h, "undo")
Release(h)   == \E from \in {"held", "scanned", "bound"} : ExitReader(h, from)

-----------------------------------------------------------------------------
(* What a packet handler does with the handle it holds.                    *)

SetRouting(h, i) == ip' = [ip EXCEPT ![tgt[h]] = i]
MapIp(h, i)      == routes' = [routes EXCEPT ![i] = tgt[h]]

PublishEndpoint(h) ==
  \E e \in Endpoints :
    /\ ~Locked("endpoint", e)
    /\ byEndpoint' = [byEndpoint EXCEPT ![e] = tgt[h]]

(* HANDSHAKE_INIT: reuse the session's IP, or take a free one and publish  *)
(* the route; then bump the generation and install keys and routing; then  *)
(* publish the endpoint.                                                   *)
HandshakeMapIp(h) ==
  /\ via[h] = "key"
  /\ At(h, "held", "mapped")
  /\ gen[tgt[h]] < MaxGen
  /\ \/ /\ ip[tgt[h]] # None
        /\ lease' = [lease EXCEPT ![h] = ip[tgt[h]]]
        /\ UNCHANGED routes
     \/ \E i \in IPs :
          /\ ip[tgt[h]] = None
          /\ routes[i] = None
          /\ lease' = [lease EXCEPT ![h] = i]
          /\ MapIp(h, i)
  /\ UNCHANGED <<mem, byKey, byEndpoint, epoch, gc, via, slot, tgt, hgen>>

Rekey(h, i) ==
  /\ gen' = [gen EXCEPT ![tgt[h]] = @ + 1]
  /\ SetRouting(h, i)
  /\ UNCHANGED <<mem, tables, readers, recycling, cleared, gc,
                 via, slot, tgt, hgen>>

HandshakeRekey(h) ==
  /\ At(h, "mapped", "rekeyed")
  /\ Rekey(h, lease[h])
  /\ UNCHANGED lease

HandshakeEndpoint(h) ==
  /\ At(h, "rekeyed", "bound")
  /\ PublishEndpoint(h)
  /\ UNCHANGED <<mem, byKey, routes, epoch, gc, via, slot, tgt, hgen, lease>>

(* FAST_RESUME and PFS_RESUME: bump the generation and install keys and    *)
(* routing, with the session's IP or else the token's; publish the         *)
(* endpoint; publish the route.                                            *)
ResumeRekey(h) ==
  /\ via[h] = "key"
  /\ At(h, "held", "resumed")
  /\ gen[tgt[h]] < MaxGen
  /\ \E tokenIp \in IPs :
       LET assigned == IF ip[tgt[h]] # None THEN ip[tgt[h]] ELSE tokenIp IN
         /\ lease' = [lease EXCEPT ![h] = assigned]
         /\ Rekey(h, assigned)

ResumeEndpoint(h) ==
  /\ At(h, "resumed", "remap")
  /\ PublishEndpoint(h)
  /\ UNCHANGED <<mem, byKey, routes, epoch, gc, via, slot, tgt, hgen, lease>>

ResumeMapIp(h) ==
  /\ At(h, "remap", "bound")
  /\ MapIp(h, lease[h])
  /\ UNCHANGED <<mem, byKey, byEndpoint, epoch, gc, via, slot, tgt, hgen,
                 lease>>

(* Data packet: the scan of the key index publishes the endpoint of a      *)
(* roaming client; a handle that is still valid then rewrites the routing  *)
(* from the snapshot it reads first.                                       *)
RoamEndpoint(h) ==
  /\ via[h] = "key"
  /\ At(h, "held", "scanned")
  /\ PublishEndpoint(h)
  /\ UNCHANGED <<mem, byKey, routes, epoch, gc, via, slot, tgt, hgen, lease>>

DataReadRouting(h) ==
  /\ via[h] \in {"key", "endpoint"}
  /\ \/ At(h, "scanned", "roam")
     \/ via[h] = "endpoint" /\ At(h, "held", "roam")
  /\ gen[tgt[h]] = hgen[h]
  /\ lease' = [lease EXCEPT ![h] = ip[tgt[h]]]
  /\ UNCHANGED <<mem, tables, epoch, gc, via, slot, tgt, hgen>>

DataSetRouting(h) ==
  /\ At(h, "roam", "bound")
  /\ SetRouting(h, lease[h])
  /\ UNCHANGED <<mem, tables, gen, readers, recycling, cleared, gc,
                 via, slot, tgt, hgen, lease>>

-----------------------------------------------------------------------------
(* The GC thread: database synchronisation and idle cleanup.               *)

(* register_device_session_helper for a key id that is not in the table.   *)
Register ==
  /\ gcpc = "idle"
  /\ \E k \in Keys, s \in Sessions :
       /\ byKey[k] = None
       /\ mem[s] = "raw"
       /\ ~Locked("key", k)
       /\ mem' = [mem EXCEPT ![s] = "live"]
       /\ byKey' = [byKey EXCEPT ![k] = s]
  /\ UNCHANGED <<byEndpoint, routes, epoch, handle, gc>>

(* cleanup_maps: a session idle for longer than the timeout loses its      *)
(* routing and its route, and stays in the key index.                      *)
CleanupSession ==
  /\ gcpc = "idle"
  /\ \E k \in Keys :
       LET s == byKey[k] IN
         /\ s # None
         /\ ip[s] # None
         /\ ip' = [ip EXCEPT ![s] = None]
         /\ routes' = [routes EXCEPT ![ip[s]] = None]
  /\ UNCHANGED <<mem, byKey, byEndpoint, gen, readers, recycling, cleared,
                 handle, gc>>

(* cleanup_idle_endpoints reads the session behind every cached endpoint.  *)
CleanupEndpoint ==
  /\ gcpc = "idle"
  /\ \E e \in Endpoints :
       /\ byEndpoint[e] # None
       /\ ~Locked("endpoint", e)
       /\ IF mem[byEndpoint[e]] = "freed"
            THEN /\ gcpc' = "ub"
                 /\ UNCHANGED byEndpoint
            ELSE /\ byEndpoint' = [byEndpoint EXCEPT ![e] = None]
                 /\ UNCHANGED gcpc
  /\ UNCHANGED <<mem, byKey, routes, epoch, handle, victim, shards>>

(* Mutated form: find_by_key_id drops the shard lock before the handle is  *)
(* built, so that the erasure does not wait for it.                        *)
RemoveEraseUnlocked ==
  /\ gcpc = "idle"
  /\ \E k \in Keys :
       /\ byKey[k] # None
       /\ victim' = byKey[k]
       /\ byKey' = [byKey EXCEPT ![k] = None]
  /\ gcpc' = "unmap"
  /\ shards' = Endpoints
  /\ UNCHANGED <<mem, byEndpoint, routes, epoch, handle>>

(* remove_session: erase the key, under the exclusive lock of its shard.   *)
RemoveErase ==
  /\ gcpc = "idle"
  /\ \E k \in Keys :
       /\ byKey[k] # None
       /\ ~Locked("key", k)
       /\ victim' = byKey[k]
       /\ byKey' = [byKey EXCEPT ![k] = None]
  /\ gcpc' = "unmap"
  /\ shards' = Endpoints
  /\ UNCHANGED <<mem, byEndpoint, routes, epoch, handle>>

RemoveUnmap ==
  /\ gcpc = "unmap"
  /\ routes' = [i \in IPs |-> IF i = ip[victim] THEN None ELSE routes[i]]
  /\ gcpc' = "purge"
  /\ UNCHANGED <<mem, byKey, byEndpoint, epoch, handle, victim, shards>>

(* ... withdraw it from one endpoint shard after the other.                *)
RemovePurge ==
  /\ gcpc = "purge"
  /\ \/ \E e \in shards :
          /\ ~Locked("endpoint", e)
          /\ byEndpoint' =
               [byEndpoint EXCEPT ![e] = IF @ = victim THEN None ELSE @]
          /\ shards' = shards \ {e}
          /\ UNCHANGED gcpc
     \/ /\ shards = {}
        /\ gcpc' = "recycle"
        /\ UNCHANGED <<byEndpoint, shards>>
  /\ UNCHANGED <<mem, byKey, routes, epoch, handle, victim>>

GcStep(from, to) ==
  /\ gcpc = from
  /\ gcpc' = to
  /\ UNCHANGED <<tables, handle, victim, shards>>

(* Session::recycle.  The compare-exchange cannot fail: there is one       *)
(* recycler.                                                               *)
RecycleBegin ==
  /\ GcStep("recycle", "bump")
  /\ recycling' = [recycling EXCEPT ![victim] = TRUE]
  /\ UNCHANGED <<mem, gen, readers, ip, cleared>>

RecycleBump ==
  /\ GcStep("bump", "quiesce")
  /\ gen' = [gen EXCEPT ![victim] = @ + 1]
  /\ UNCHANGED <<mem, readers, recycling, ip, cleared>>

(* Mutated form: recycle() without its quiescence loop.                    *)
RecycleQuiesceNoWait ==
  /\ GcStep("quiesce", "clear")
  /\ UNCHANGED <<mem, epoch>>

RecycleQuiesce ==
  /\ GcStep("quiesce", "clear")
  /\ readers[victim] = 0
  /\ UNCHANGED <<mem, epoch>>

RecycleClear ==
  /\ GcStep("clear", "release")
  /\ cleared' = [cleared EXCEPT ![victim] = TRUE]
  /\ ip' = [ip EXCEPT ![victim] = None]
  /\ UNCHANGED <<mem, gen, readers, recycling>>

RecycleEnd ==
  /\ GcStep("release", "delete")
  /\ recycling' = [recycling EXCEPT ![victim] = FALSE]
  /\ UNCHANGED <<mem, gen, readers, ip, cleared>>

DeleteSession ==
  /\ GcStep("delete", "idle")
  /\ mem' = [mem EXCEPT ![victim] = "freed"]
  /\ UNCHANGED epoch

-----------------------------------------------------------------------------
Find(h) == FindByKeyId(h) \/ FindByEndpoint(h) \/ FindByAssignedIp(h)

(* The rest of the handler: it runs to its end, waiting on nobody but the  *)
(* holders of the shard lock it needs exclusively, each of which lets go.  *)
Handle(h) ==
  \/ TouchFreed(h)
  \/ LoadGen(h) \/ EnterCheck(h) \/ EnterCount(h) \/ EnterRecheck(h)
  \/ EnterUndo(h) \/ RecheckGen(h) \/ Release(h)
  \/ HandshakeMapIp(h) \/ HandshakeRekey(h) \/ HandshakeEndpoint(h)
  \/ ResumeRekey(h) \/ ResumeEndpoint(h) \/ ResumeMapIp(h)
  \/ RoamEndpoint(h) \/ DataReadRouting(h) \/ DataSetRouting(h)

Remove ==
  \/ RemoveUnmap \/ RemovePurge
  \/ RecycleBegin \/ RecycleBump \/ RecycleQuiesce \/ RecycleClear
  \/ RecycleEnd \/ DeleteSession

(* A loop of the GC thread or of a worker that finds nothing to do.        *)
Poll ==
  /\ gcpc \in {"idle", "ub"}
  /\ UNCHANGED vars

Next ==
  \/ \E h \in Handles : Find(h) \/ Handle(h)
  \/ Register \/ CleanupSession \/ CleanupEndpoint \/ RemoveErase
  \/ Remove
  \/ Poll

Spec == Init /\ [][Next]_vars

FairSpec ==
  /\ Spec
  /\ \A h \in Handles : SF_vars(Handle(h))
  /\ WF_vars(Remove)
-----------------------------------------------------------------------------
(* Properties.                                                             *)

(* recycle() wipes the session "only AFTER readers exit": while the GC     *)
(* thread is between the quiescence loop of recycle() and its last store,  *)
(* no handle to that session, whatever index it came from, is held.        *)
QuiescedClear ==
  gcpc \in {"clear", "release"} =>
    \A h \in Handles : pc[h] \in Held => tgt[h] # victim

(* A handle found by key id or by the scan of the key index denotes a      *)
(* session that is allocated, and that is not wiped while it is held: the  *)
(* erasure under the exclusive shard lock and the quiescence loop together *)
(* fence every such handler off remove_session.                            *)
KeyHandleSafe ==
  \A h \in Handles :
    via[h] = "key" /\ pc[h] \in Entering \cup Held =>
      /\ mem[tgt[h]] = "live"
      /\ pc[h] \in Held => ~cleared[tgt[h]]

(* active_readers_ counts exactly the handles between the increment of     *)
(* enter_reader and the matching exit_reader, on every path including the  *)
(* two that back out.                                                      *)
ReadersExact ==
  \A s \in Sessions :
    mem[s] # "freed" =>
      readers[s] = Cardinality({h \in Handles : pc[h] \in Counted
                                               /\ tgt[h] = s})

(* The quiescence loop of recycle() ends, so that remove_session returns   *)
(* and the GC thread goes on to its other work.                            *)
RecycleTerminates == gcpc = "quiesce" ~> gcpc = "idle"

(* What session.h and the TUN loop of server.cpp say of SessionHandle: it  *)
(* is "TOCTOU-safe", so a handle that comes from the lock-free route       *)
(* lookup is never built on, or used with, a deleted session.  The code    *)
(* does not keep it: remove_session may end between the two.               *)
RouteHandleSafe ==
  \A h \in Handles :
    via[h] = "route" /\ pc[h] \in Entering \cup Held => Alive(h)

(* The same of the endpoint cache: remove_session purges every endpoint of *)
(* a session before deleting it, so none is left for the data path and for *)
(* cleanup_idle_endpoints to follow.  The code does not keep it: a handler *)
(* in flight puts the session back after the purge.                        *)
EndpointsLive ==
  \A e \in Endpoints : byEndpoint[e] # None => mem[byEndpoint[e]] # "freed"

-----------------------------------------------------------------------------
(* The inductive invariant behind QuiescedClear and KeyHandleSafe.         *)

Removing == gcpc \notin {"idle", "ub"}

(* The victim stays allocated until the last step of its removal, and      *)
(* refuses new readers for as long as recycle() runs.                      *)
VictimFenced ==
  /\ Removing => mem[victim] = "live"
  /\ gcpc \in {"bump", "quiesce", "clear", "release"} => recycling[victim]

(* No handle is past the re-check of enter_reader when the victim is wiped.*)
NoneInside ==
  gcpc \in {"clear", "release"} =>
    \A h \in Handles : pc[h] \in {"regen"} \cup Held => tgt[h] # victim

(* A session in the key index was not recycled, is not being removed, and  *)
(* has one key id.                                                         *)
KeyIndexFresh ==
  \A k \in Keys : byKey[k] # None =>
    /\ mem[byKey[k]] = "live"
    /\ ~recycling[byKey[k]]
    /\ ~cleared[byKey[k]]
    /\ Removing => byKey[k] # victim
    /\ \A j \in Keys : byKey[j] = byKey[k] => j = k

RawUntouched ==
  \A s \in Sessions : mem[s] = "raw" => ~recycling[s] /\ ~cleared[s]

(* The shard lock keeps the index entry of a handle being built in place.  *)
KeyLookupLocked ==
  \A h \in Handles :
    via[h] = "key" /\ pc[h] \in Entering =>
      slot[h] \in Keys /\ byKey[slot[h]] = tgt[h]

(* Once the victim is quiesced no handle found by key ever holds it again. *)
KeyHandlesGone ==
  gcpc \in {"clear", "release", "delete"} =>
    \A h \in Handles : via[h] = "key" /\ pc[h] \in Held => tgt[h] # victim

IInv ==
  /\ TypeOK
  /\ ReadersExact
  /\ VictimFenced
  /\ NoneInside
  /\ KeyIndexFresh
  /\ RawUntouched
  /\ KeyLookupLocked
  /\ KeyHandleSafe
  /\ KeyHandlesGone
=============================================================================
