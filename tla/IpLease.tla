------------------------------ MODULE IpLease ------------------------------
(***************************************************************************)
(* Tunnel addresses: the pool of ip_pool.cpp, the route table, the address *)
(* in each session's routing, and everything that moves an address between *)
(* them.  Packet workers run handshakes, resumptions and data packets; the *)
(* GC thread cleans up idle sessions, removes revoked users and registers  *)
(* new ones.  None of them holds a lock across its steps.                  *)
(*                                                                         *)
(* A handler takes milliseconds and the timeouts are minutes: the clock    *)
(* does not advance while a handler runs.                                  *)
(***************************************************************************)
EXTENDS Integers, FiniteSets, Sequences, Functions

CONSTANTS
  Workers, Sessions, IPs,
  None,        \* no session, and the address 0
  TTL,         \* life of a resumption token, 180 s in the code
  Idle,        \* SESSION_IDLE_TIMEOUT, 600 s in the code
  MaxTime,     \* bound on the clock
  MaxLife      \* bound on the times a key is registered

ASSUME NoneFresh  == None \notin Sessions \cup IPs
ASSUME IPsFinite  == IsFiniteSet(IPs)
ASSUME TimesNat   == /\ TTL \in Nat /\ Idle \in Nat
                     /\ MaxTime \in Nat /\ MaxLife \in Nat
ASSUME IdleLonger == TTL <= Idle

VARIABLES
  free,        \* free_ips_, first come first served
  allocated,   \* allocated_
  routes,      \* the session each address is routed to
  present,     \* sessions in the key index
  ip,          \* assigned_ip of each session's routing
  last,        \* last_activity of each session
  now,
  tokens,      \* the unused token of each session's client, if any
  life,        \* how often each session's key was registered
  pc, sess, lease,  \* workers: step, session held, address worked with
  gcpc, victim, gcip,  \* the GC thread: step, session, address
  compromised  \* history: addresses that lost their one holder, see below

pool   == <<free, allocated>>
table  == <<routes, present, ip>>
clock  == <<last, now>>
client == <<tokens, life>>
worker == <<pc, sess, lease>>
gc     == <<gcpc, victim, gcip>>
vars   == <<pool, table, clock, client, worker, gc, compromised>>

Address == IPs \cup {None}
Token   == [ip : IPs, expiry : Nat, life : 0..MaxLife]

TypeOK ==
  /\ free \in Seq(IPs)
  /\ allocated \in SUBSET IPs
  /\ routes \in [IPs -> Sessions \cup {None}]
  /\ present \in SUBSET Sessions
  /\ ip \in [Sessions -> Address]
  /\ last \in [Sessions -> 0..now]
  /\ now \in 0..MaxTime
  /\ tokens \in [Sessions -> SUBSET Token]
  /\ life \in [Sessions -> 0..MaxLife]
  /\ pc \in [Workers -> {"idle", "found", "alloc", "map", "install", "token",
                         "resume", "restore", "remap", "data", "copied"}]
  /\ sess \in [Workers -> Sessions \cup {None}]
  /\ lease \in [Workers -> Address]
  /\ \A w \in Workers :
       /\ pc[w] = "idle" => sess[w] = None /\ lease[w] = None
       /\ pc[w] # "idle" => sess[w] \in Sessions
       /\ pc[w] \notin {"idle", "found", "alloc", "data", "copied"} =>
            lease[w] \in IPs
  /\ gcpc \in {"idle", "wipe", "unmap", "release",
               "revoke", "erase", "withdraw", "recycle"}
  /\ victim \in Sessions \cup {None}
  /\ gcip \in Address
  /\ compromised \in SUBSET IPs

Init ==
  /\ free \in Bijection(1..Cardinality(IPs), IPs)
  /\ allocated = {}
  /\ routes = [i \in IPs |-> None]
  /\ present = {}
  /\ ip = [s \in Sessions |-> None]
  /\ last = [s \in Sessions |-> 0]
  /\ now = 0
  /\ tokens = [s \in Sessions |-> {}]
  /\ life = [s \in Sessions |-> 0]
  /\ pc = [w \in Workers |-> "idle"]
  /\ sess = [w \in Workers |-> None]
  /\ lease = [w \in Workers |-> None]
  /\ gcpc = "idle" /\ victim = None /\ gcip = None
  /\ compromised = {}

-----------------------------------------------------------------------------
(* The pool.                                                               *)

Allocate(i) ==
  /\ free # <<>>
  /\ i = Head(free)
  /\ free' = Tail(free)
  /\ allocated' = allocated \cup {i}

(* Mutated form: an address is queued again although it is free already.   *)
ReleaseAgain(i) ==
  /\ free' = IF i = None THEN free ELSE Append(free, i)
  /\ allocated' = allocated \ {i}

PoolRelease(i) ==
  /\ free' = IF i \in allocated THEN Append(free, i) ELSE free
  /\ allocated' = allocated \ {i}

-----------------------------------------------------------------------------
(* Packet workers.                                                         *)

At(w, from, to) == pc[w] = from /\ pc' = [pc EXCEPT ![w] = to]

Hold(w, s, i) ==
  /\ sess' = [sess EXCEPT ![w] = s]
  /\ lease' = [lease EXCEPT ![w] = i]

(* Mutated form: the handler ends and keeps its address.                   *)
ReturnKeepsLease(w) == Hold(w, None, lease[w])

Return(w) == Hold(w, None, None)

(* HANDSHAKE_INIT: the session's address is reused, or one is allocated    *)
(* and routed to it; then the routing is installed and a token given out.  *)
HandshakeFind(w) ==
  \E s \in present :
    /\ At(w, "idle", "found")
    /\ Hold(w, s, None)
    /\ UNCHANGED <<pool, table, clock, client, gc, compromised>>

(* Mutated form: an address is allocated although the session has one.     *)
HandshakeReadAnew(w) ==
  /\ At(w, "found", "alloc")
  /\ UNCHANGED <<pool, table, clock, client, sess, lease, gc, compromised>>

HandshakeRead(w) ==
  /\ At(w, "found", IF ip[sess[w]] = None THEN "alloc" ELSE "install")
  /\ Hold(w, sess[w], ip[sess[w]])
  /\ UNCHANGED <<pool, table, clock, client, gc, compromised>>

HandshakeAllocate(w) ==
  \/ \E i \in IPs :
       /\ At(w, "alloc", "map")
       /\ Allocate(i)
       /\ Hold(w, sess[w], i)
       /\ compromised' = compromised \cup
            {j \in {i} : gcpc \in {"erase", "withdraw"} /\ gcip = i}
       /\ UNCHANGED <<table, clock, client, gc>>
  \/ /\ At(w, "alloc", "idle")
     /\ free = <<>>
     /\ Return(w)
     /\ UNCHANGED <<pool, table, clock, client, gc, compromised>>

(* Mutated form: the route of a newly allocated address is not published.  *)
HandshakeMapSkipped(w) ==
  /\ At(w, "map", "install")
  /\ UNCHANGED <<pool, table, clock, client, sess, lease, gc, compromised>>

HandshakeMap(w) ==
  /\ At(w, "map", "install")
  /\ routes' = [routes EXCEPT ![lease[w]] = sess[w]]
  /\ UNCHANGED <<pool, present, ip, clock, client, sess, lease, gc,
                 compromised>>

(* last_activity is stored just before set_routing, just after it by the   *)
(* data path; the GC thread reads the two together.                        *)
Install(w) ==
  /\ ip' = [ip EXCEPT ![sess[w]] = lease[w]]
  /\ last' = [last EXCEPT ![sess[w]] = now]

HandshakeInstall(w) ==
  /\ At(w, "install", "token")
  /\ Install(w)
  /\ UNCHANGED <<pool, routes, present, now, client, sess, lease, gc,
                 compromised>>

(* The client keeps the latest token that reaches it.                      *)
IssueToken(w) ==
  /\ At(w, "token", "idle")
  /\ \/ tokens' = [tokens EXCEPT ![sess[w]] =
            {[ip |-> lease[w], expiry |-> now + TTL, life |-> life[sess[w]]]}]
     \/ UNCHANGED tokens
  /\ Return(w)
  /\ UNCHANGED <<pool, table, clock, life, gc, compromised>>

(* FAST_RESUME, PFS_RESUME: the token is used up, then a session without   *)
(* an address takes the token's.  PFS_RESUME gives up if the new keys      *)
(* cannot be derived.                                                      *)
ResumeVerify(w) ==
  \E s \in present : \E t \in tokens[s] :
    /\ At(w, "idle", "resume")
    /\ now <= t.expiry
    /\ tokens' = [tokens EXCEPT ![s] = @ \ {t}]
    /\ Hold(w, s, t.ip)
    /\ UNCHANGED <<pool, table, clock, life, gc, compromised>>

ResumeAbort(w) ==
  /\ At(w, "resume", "idle")
  /\ Return(w)
  /\ UNCHANGED <<pool, table, clock, client, gc, compromised>>

ResumeAssign(w) ==
  /\ At(w, "resume", "restore")
  /\ \/ /\ ip[sess[w]] # None
        /\ Hold(w, sess[w], ip[sess[w]])
        /\ UNCHANGED compromised
     \/ /\ ip[sess[w]] = None
        /\ compromised' = compromised \cup {lease[w]}
        /\ UNCHANGED <<sess, lease>>
  /\ UNCHANGED <<pool, table, clock, client, gc>>

ResumeInstall(w) ==
  /\ At(w, "restore", "remap")
  /\ Install(w)
  /\ UNCHANGED <<pool, routes, present, now, client, sess, lease, gc,
                 compromised>>

ResumeMap(w) ==
  /\ At(w, "remap", "token")
  /\ routes' = [routes EXCEPT ![lease[w]] = sess[w]]
  /\ UNCHANGED <<pool, present, ip, clock, client, sess, lease, gc,
                 compromised>>

(* A data packet is decrypted with the keys of a session that has done its *)
(* handshake.  If it comes from a new endpoint the routing is then copied  *)
(* and put back.                                                           *)
DataDecrypt(w) ==
  \E s \in present :
    /\ At(w, "idle", "data")
    /\ ip[s] # None
    /\ Hold(w, s, None)
    /\ UNCHANGED <<pool, table, clock, client, gc, compromised>>

DataRead(w) ==
  /\ At(w, "data", "copied")
  /\ Hold(w, sess[w], ip[sess[w]])
  /\ UNCHANGED <<pool, table, clock, client, gc, compromised>>

DataWrite(w) ==
  /\ At(w, "copied", "idle")
  /\ Install(w)
  /\ Return(w)
  /\ UNCHANGED <<pool, routes, present, now, client, gc, compromised>>

(* A packet from the TUN device keeps the session it is routed to alive.   *)
Egress(w) ==
  \E i \in IPs :
    /\ pc[w] = "idle"
    /\ routes[i] # None
    /\ ip[routes[i]] # None
    /\ last' = [last EXCEPT ![routes[i]] = now]
    /\ UNCHANGED <<pool, table, now, client, worker, gc, compromised>>

-----------------------------------------------------------------------------
(* The GC thread.                                                          *)

GcAt(from, to) == gcpc = from /\ gcpc' = to

(* Mutated form: idle after 180 seconds, as long as a token lives.         *)
IdleOutEarly(s) == now - last[s] >= TTL

IdleOut(s) == now - last[s] > Idle

(* cleanup_maps.                                                           *)
CleanupFind ==
  \E s \in present :
    /\ GcAt("idle", "wipe")
    /\ ip[s] # None
    /\ IdleOut(s)
    /\ victim' = s
    /\ gcip' = ip[s]
    /\ UNCHANGED <<pool, table, clock, client, worker, compromised>>

CleanupWipe ==
  /\ GcAt("wipe", "unmap")
  /\ ip' = [ip EXCEPT ![victim] = None]
  /\ compromised' = compromised \cup {j \in {gcip} \ {None} : ~IdleOut(victim)}
  /\ UNCHANGED <<pool, routes, present, clock, client, worker, victim, gcip>>

CleanupUnmap ==
  /\ GcAt("unmap", "release")
  /\ routes' = [routes EXCEPT ![gcip] = None]
  /\ UNCHANGED <<pool, present, ip, clock, client, worker, victim, gcip,
                 compromised>>

(* Somebody other than the session being revoked still works with i.       *)
InUse(i) ==
  \/ \E w \in Workers : lease[w] = i
  \/ \E s \in present : ip[s] = i /\ ~(gcpc = "revoke" /\ s = victim)

GcRelease ==
  /\ PoolRelease(gcip)
  /\ compromised' = compromised \cup {j \in {gcip} \ {None} : InUse(j)}

CleanupRelease ==
  /\ GcAt("release", "idle")
  /\ GcRelease
  /\ victim' = None /\ gcip' = None
  /\ UNCHANGED <<table, clock, client, worker>>

(* sync_users_from_db on a revoked user: the address goes back to the pool *)
(* before remove_session erases the key, unmaps the address the session    *)
(* has by then, waits for its readers and deletes it.  A handler that      *)
(* raises the generation between the look-up and the test of the handle    *)
(* leaves the GC thread without one: it then knows of no address.          *)
Rekeying(s) ==
  \E w \in Workers : sess[w] = s /\ pc[w] \in {"install", "restore"}

RevokeFind ==
  \E s \in present :
    /\ GcAt("idle", "revoke")
    /\ victim' = s
    /\ \/ gcip' = ip[s]
       \/ Rekeying(s) /\ gcip' = None
    /\ UNCHANGED <<pool, table, clock, client, worker, compromised>>

RevokeRelease ==
  /\ GcAt("revoke", "erase")
  /\ GcRelease
  /\ UNCHANGED <<table, clock, client, worker, victim, gcip>>

RevokeErase ==
  /\ GcAt("erase", "withdraw")
  /\ present' = present \ {victim}
  /\ UNCHANGED <<pool, routes, ip, clock, client, worker, victim, gcip,
                 compromised>>

RevokeUnmap ==
  /\ GcAt("withdraw", "recycle")
  /\ routes' = [i \in IPs |-> IF i = ip[victim] THEN None ELSE routes[i]]
  /\ UNCHANGED <<pool, present, ip, clock, client, worker, victim, gcip,
                 compromised>>

RevokeRecycle ==
  /\ GcAt("recycle", "idle")
  /\ \A w \in Workers : sess[w] # victim
  /\ ip' = [ip EXCEPT ![victim] = None]
  /\ victim' = None /\ gcip' = None
  /\ UNCHANGED <<pool, routes, present, clock, client, worker, compromised>>

Register ==
  /\ gcpc = "idle"
  /\ \E s \in Sessions \ present :
       /\ life[s] < MaxLife
       /\ present' = present \cup {s}
       /\ life' = [life EXCEPT ![s] = @ + 1]
       /\ last' = [last EXCEPT ![s] = now]
  /\ UNCHANGED <<pool, routes, ip, now, tokens, worker, gc, compromised>>

(* The GC thread wakes up and finds nothing to do.                         *)
Poll == gcpc = "idle" /\ UNCHANGED vars

Tick ==
  /\ now < MaxTime
  /\ \A w \in Workers : pc[w] = "idle"
  /\ now' = now + 1
  /\ UNCHANGED <<pool, table, last, client, worker, gc, compromised>>

-----------------------------------------------------------------------------
Work(w) ==
  \/ HandshakeFind(w) \/ HandshakeRead(w) \/ HandshakeAllocate(w)
  \/ HandshakeMap(w) \/ HandshakeInstall(w) \/ IssueToken(w)
  \/ ResumeVerify(w) \/ ResumeAbort(w) \/ ResumeAssign(w)
  \/ ResumeInstall(w) \/ ResumeMap(w)
  \/ DataDecrypt(w) \/ DataRead(w) \/ DataWrite(w) \/ Egress(w)

Gc ==
  \/ CleanupFind \/ CleanupWipe \/ CleanupUnmap \/ CleanupRelease
  \/ RevokeFind \/ RevokeRelease \/ RevokeErase \/ RevokeUnmap
  \/ RevokeRecycle \/ Register \/ Poll

Next == (\E w \in Workers : Work(w)) \/ Gc \/ Tick

Spec == Init /\ [][Next]_vars

-----------------------------------------------------------------------------
(* Properties.                                                             *)

(* IpPool: every address is in the queue once or allocated, never both,    *)
(* although cleanup and revocation release the same address independently. *)
PoolPartition ==
  /\ IsInjective(free)
  /\ Range(free) \cap allocated = {}
  /\ Range(free) \cup allocated = IPs

(* A session that is not in the middle of anything.                        *)
Settled(s) ==
  /\ s \in present
  /\ \A w \in Workers : sess[w] # s
  /\ victim # s

(* An address is compromised when it is released while a handler or a      *)
(* session that stays has it, taken from a session that is idle no longer, *)
(* handed out while a revocation has yet to unmap it, or taken from a      *)
(* token.  Any other address has one holder: the live sessions do not      *)
(* share it, it is allocated, and it is routed to its session.             *)
OneHolder ==
  \A s \in Sessions :
    Settled(s) /\ ip[s] # None /\ ip[s] \notin compromised =>
      /\ ip[s] \in allocated
      /\ routes[ip[s]] = s
      /\ \A t \in present \ {s} : ip[t] = ip[s] => t = victim

(* A token dies before the session it resumes can be cleaned up, so that a *)
(* resumption needs the address in the token only if the user was revoked  *)
(* and registered again since.                                             *)
TokenOutlived ==
  \A s \in present : \A t \in tokens[s] :
    /\ t.life = life[s] /\ now <= t.expiry /\ t.ip \notin compromised
    /\ Settled(s)
    => ip[s] # None

(* An address that is allocated is in a session's routing, or a handshake  *)
(* is on its way to install it, or a cleanup to release it.                *)
Held(i) ==
  \/ \E s \in Sessions : ip[s] = i
  \/ \E w \in Workers : pc[w] \in {"map", "install"} /\ lease[w] = i
  \/ gcpc \in {"unmap", "release"} /\ gcip = i

Lost == {i \in allocated : ~Held(i)}

(* The registrations that sync_users_from_db has ended: the n-th of s.     *)
Over(s, n) == n < life[s] \/ (n = life[s] /\ s \notin present)
Ended      == {r \in Sessions \X (1..MaxLife) : Over(r[1], r[2])}

(* IpPool::allocate for a session that has no address: the pool loses an   *)
(* address for good only with a revocation, which reads the address before *)
(* a handshake gives the session one (or without a handle), and never more *)
(* than one with each.  Handshakes, resumptions, roaming and cleanup leak  *)
(* none, in whatever order their steps fall.                               *)
LostPerRevocation == Cardinality(Lost) <= Cardinality(Ended)

(* PROTOCOL.md section 7: 253 addresses for 253 concurrent clients, one    *)
(* each.  The code does not keep it: the idle cleanup races a handshake    *)
(* over an address.                                                        *)
LeaseUnique ==
  \A s, t \in present :
    s # t /\ Settled(s) /\ Settled(t) /\ ip[s] # None => ip[s] # ip[t]
=============================================================================
