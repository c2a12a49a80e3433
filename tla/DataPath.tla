------------------------------ MODULE DataPath ------------------------------
(***************************************************************************)
(* One session's packets and keys: process_udp_packet on data packets, the *)
(* rekey that HANDSHAKE_INIT, FAST_RESUME and PFS_RESUME share, the TUN    *)
(* loop that seals outbound packets, and the idle cleanup of the GC thread.*)
(* Workers run these handlers step by step: a handler takes a handle and   *)
(* an immutable snapshot of the keys, asks the replay filter, decrypts,    *)
(* commits, validates its handle and delivers, holding no lock between.    *)
(*                                                                         *)
(* A key is the number of the rekey that made it; 0 is "no handshake".     *)
(* The network keeps every datagram, so that it may lose, duplicate, delay *)
(* and reorder them.  The filter is known by its promise, SlidingWindow.   *)
(***************************************************************************)
EXTENDS Integers, FiniteSets

CONSTANTS
  Workers,     \* the packet threads
  MaxSeq,      \* packets a peer sends with one key
  MaxKeys,     \* rekeys
  Window       \* numbers the replay filter remembers

ASSUME WorkersFinite == IsFiniteSet(Workers)
ASSUME BoundsNat     == MaxSeq \in Nat /\ MaxKeys \in Nat
ASSUME WindowMany    == Window \in Nat \ {0, 1}

VARIABLES
  gen,         \* identity.generation
  crypto,      \* key of the current crypto snapshot
  peer,        \* key that authenticated the client address in the routing
  txSeq,       \* counters.tx_seq
  high, seen,  \* replay_filter
  keys,        \* number of keys made so far
  sent,        \* datagrams the client has sent: key and number
  delivered,   \* how often each datagram was written to the TUN device
  sealed,      \* how often each key and number was used to seal a packet
  pc,          \* where each worker is
  pkt,         \* the datagram it handles
  hgen,        \* SessionHandle::gen of its handle
  snap,        \* the crypto snapshot it took; the new key in a rekey
  gcpc         \* where the GC thread is in its cleanup of the session

filter  == <<high, seen>>
session == <<gen, crypto, peer, txSeq, filter>>
log     == <<keys, sent, delivered, sealed>>
worker  == <<pc, pkt, hgen, snap>>
vars    == <<session, log, worker, gcpc>>

Keys      == 1..MaxKeys
Datagrams == Keys \X (1..MaxSeq)
NoPacket  == <<0, 0>>
KeyOf(p)  == p[1]
SeqOf(p)  == p[2]

SW == INSTANCE SlidingWindow WITH WordBits <- 1, Words <- Window,
                                  candidates <- {}

Rekeying == {"rekeyTx", "rekeyFilter", "rekeyKeys", "rekeyRouting"}

TypeOK ==
  /\ gen \in 0..MaxKeys
  /\ crypto \in 0..MaxKeys
  /\ peer \in 0..MaxKeys
  /\ txSeq \in 0..MaxSeq
  /\ high \in 0..MaxSeq
  /\ seen \in SUBSET (1..MaxSeq)
  /\ keys \in 0..MaxKeys
  /\ sent \in SUBSET Datagrams
  /\ delivered \in [Datagrams -> Nat]
  /\ sealed \in [Datagrams -> Nat]
  /\ pc \in [Workers -> {"idle", "found", "matched", "peeked", "opened",
                         "committed", "valid", "deliver", "seal"}
                        \cup Rekeying]
  /\ pkt \in [Workers -> Datagrams \cup {NoPacket}]
  /\ hgen \in [Workers -> 0..MaxKeys]
  /\ snap \in [Workers -> 0..MaxKeys]
  /\ gcpc \in {"idle", "keys"}
  /\ \A w \in Workers :
       pc[w] = "idle" => pkt[w] = NoPacket /\ hgen[w] = 0 /\ snap[w] = 0

Init ==
  /\ gen = 0 /\ crypto = 0 /\ peer = 0 /\ txSeq = 0
  /\ high = 0 /\ seen = {}
  /\ keys = 0
  /\ sent = {}
  /\ delivered = [p \in Datagrams |-> 0]
  /\ sealed = [p \in Datagrams |-> 0]
  /\ pc = [w \in Workers |-> "idle"]
  /\ pkt = [w \in Workers |-> NoPacket]
  /\ hgen = [w \in Workers |-> 0]
  /\ snap = [w \in Workers |-> 0]
  /\ gcpc = "idle"

At(w, from, to) == pc[w] = from /\ pc' = [pc EXCEPT ![w] = to]

(* Mutated form: the handle outlives the handler.                          *)
ReturnKeepsHandle(w) ==
  /\ pkt' = [pkt EXCEPT ![w] = NoPacket]
  /\ snap' = [snap EXCEPT ![w] = 0]
  /\ UNCHANGED hgen

(* The handler returns and drops what it held.                             *)
Return(w) ==
  /\ pkt' = [pkt EXCEPT ![w] = NoPacket]
  /\ hgen' = [hgen EXCEPT ![w] = 0]
  /\ snap' = [snap EXCEPT ![w] = 0]

-----------------------------------------------------------------------------
(* The client seals its next packet with any key it was given: it may      *)
(* still use an old one, and a resuming client uses the new one at once.   *)
Send ==
  /\ \E p \in Datagrams :
       /\ KeyOf(p) <= keys
       /\ \A n \in 1..(SeqOf(p) - 1) : <<KeyOf(p), n>> \in sent
       /\ p \notin sent
       /\ sent' = sent \cup {p}
  /\ UNCHANGED <<session, keys, delivered, sealed, worker, gcpc>>

-----------------------------------------------------------------------------
(* A data packet.                                                          *)

(* The session is found by endpoint or by scan ...                         *)
Receive(w) ==
  /\ At(w, "idle", "found")
  /\ \E p \in sent : pkt' = [pkt EXCEPT ![w] = p]
  /\ hgen' = [hgen EXCEPT ![w] = gen]
  /\ UNCHANGED <<session, log, snap, gcpc>>

(* ... and its keys are taken as they are now.                             *)
GetCrypto(w) ==
  /\ At(w, "found", "matched")
  /\ snap' = [snap EXCEPT ![w] = crypto]
  /\ UNCHANGED <<session, log, pkt, hgen, gcpc>>

CheckReplayPeek(w) ==
  \/ /\ At(w, "matched", "peeked")
     /\ SW!Fresh(SeqOf(pkt[w]))
     /\ UNCHANGED <<session, log, pkt, hgen, snap, gcpc>>
  \/ /\ At(w, "matched", "idle")
     /\ ~SW!Fresh(SeqOf(pkt[w]))
     /\ Return(w)
     /\ UNCHANGED <<session, log, gcpc>>

(* A packet opens under the key that sealed it and no other.               *)
Decrypt(w) ==
  \/ /\ At(w, "peeked", "opened")
     /\ snap[w] = KeyOf(pkt[w])
     /\ UNCHANGED <<session, log, pkt, hgen, snap, gcpc>>
  \/ /\ At(w, "peeked", "idle")
     /\ snap[w] # KeyOf(pkt[w])
     /\ Return(w)
     /\ UNCHANGED <<session, log, gcpc>>

CommitReplay(w) ==
  /\ At(w, "opened", "committed")
  /\ SW!Remember(SeqOf(pkt[w]))
  /\ UNCHANGED <<gen, crypto, peer, txSeq, log, pkt, hgen, snap, gcpc>>

(* is_valid decides whether the sender's address becomes the client's; the *)
(* packet is delivered either way.                                         *)
IsValid(w) ==
  /\ At(w, "committed", IF gen = hgen[w] THEN "valid" ELSE "deliver")
  /\ UNCHANGED <<session, log, pkt, hgen, snap, gcpc>>

UpdateRouting(w) ==
  /\ At(w, "valid", "deliver")
  /\ peer' = snap[w]
  /\ UNCHANGED <<gen, crypto, txSeq, filter, log, pkt, hgen, snap, gcpc>>

Deliver(w) ==
  /\ At(w, "deliver", "idle")
  /\ delivered' = [delivered EXCEPT ![pkt[w]] = @ + 1]
  /\ Return(w)
  /\ UNCHANGED <<session, keys, sent, sealed, gcpc>>

-----------------------------------------------------------------------------
(* A rekey: a fresh ephemeral exchange, or a resumption token that is used *)
(* once, makes a new key; the state of the old one is replaced piecemeal.  *)

(* Mutated form: resumption restores the keys of the session it resumes.   *)
RekeyBeginSameKey(w) ==
  /\ At(w, "idle", "rekeyTx")
  /\ keys < MaxKeys
  /\ gen < MaxKeys
  /\ keys' = IF keys = 0 THEN 1 ELSE keys
  /\ snap' = [snap EXCEPT ![w] = IF keys = 0 THEN 1 ELSE keys]
  /\ gen' = gen + 1
  /\ UNCHANGED <<crypto, peer, txSeq, filter, sent, delivered, sealed,
                 pkt, hgen, gcpc>>

RekeyBegin(w) ==
  /\ At(w, "idle", "rekeyTx")
  /\ keys < MaxKeys
  /\ keys' = keys + 1
  /\ snap' = [snap EXCEPT ![w] = keys + 1]
  /\ gen' = gen + 1
  /\ UNCHANGED <<crypto, peer, txSeq, filter, sent, delivered, sealed,
                 pkt, hgen, gcpc>>

RekeyTxSeq(w) ==
  /\ At(w, "rekeyTx", "rekeyFilter")
  /\ txSeq' = 0
  /\ UNCHANGED <<gen, crypto, peer, filter, log, pkt, hgen, snap, gcpc>>

RekeyFilter(w) ==
  /\ At(w, "rekeyFilter", "rekeyKeys")
  /\ SW!AbsReset
  /\ UNCHANGED <<gen, crypto, peer, txSeq, log, pkt, hgen, snap, gcpc>>

RekeyKeys(w) ==
  /\ At(w, "rekeyKeys", "rekeyRouting")
  /\ crypto' = snap[w]
  /\ UNCHANGED <<gen, peer, txSeq, filter, log, pkt, hgen, snap, gcpc>>

(* Mutated form: a session that has a client address keeps it.             *)
RekeyRoutingKept(w) ==
  /\ At(w, "rekeyRouting", "idle")
  /\ peer' = IF peer = 0 THEN snap[w] ELSE peer
  /\ Return(w)
  /\ UNCHANGED <<gen, crypto, txSeq, filter, log, gcpc>>

RekeyRouting(w) ==
  /\ At(w, "rekeyRouting", "idle")
  /\ peer' = snap[w]
  /\ Return(w)
  /\ UNCHANGED <<gen, crypto, txSeq, filter, log, gcpc>>

-----------------------------------------------------------------------------
(* The TUN loop: keys and routing are read, then a number is taken.        *)

EgressSnapshot(w) ==
  /\ At(w, "idle", "seal")
  /\ crypto # 0
  /\ peer # 0
  /\ snap' = [snap EXCEPT ![w] = crypto]
  /\ UNCHANGED <<session, log, pkt, hgen, gcpc>>

EgressSeal(w) ==
  /\ At(w, "seal", "idle")
  /\ txSeq < MaxSeq
  /\ txSeq' = txSeq + 1
  /\ sealed' = [sealed EXCEPT ![<<snap[w], txSeq + 1>>] = @ + 1]
  /\ Return(w)
  /\ UNCHANGED <<gen, crypto, peer, filter, keys, sent, delivered, gcpc>>

(* Bound: the batch ends before the key's last number is exceeded.         *)
EgressEnd(w) ==
  /\ At(w, "seal", "idle")
  /\ txSeq = MaxSeq
  /\ Return(w)
  /\ UNCHANGED <<session, log, gcpc>>

-----------------------------------------------------------------------------
(* cleanup_maps on a session that has been idle: routing first, then keys. *)

CleanupRouting ==
  /\ gcpc = "idle"
  /\ peer # 0
  /\ peer' = 0
  /\ gcpc' = "keys"
  /\ UNCHANGED <<gen, crypto, txSeq, filter, log, worker>>

(* Mutated form: cleanup also restarts the outbound numbers, and leaves    *)
(* the keys in place.                                                      *)
CleanupKeysKept ==
  /\ gcpc = "keys"
  /\ txSeq' = 0
  /\ gcpc' = "idle"
  /\ UNCHANGED <<gen, crypto, peer, filter, log, worker>>

CleanupKeys ==
  /\ gcpc = "keys"
  /\ crypto' = 0
  /\ gcpc' = "idle"
  /\ UNCHANGED <<gen, peer, txSeq, filter, log, worker>>

-----------------------------------------------------------------------------
Ingress(w) ==
  \/ Receive(w) \/ GetCrypto(w) \/ CheckReplayPeek(w) \/ Decrypt(w)
  \/ CommitReplay(w) \/ IsValid(w) \/ UpdateRouting(w) \/ Deliver(w)
RekeyStep(w) ==
  \/ RekeyBegin(w) \/ RekeyTxSeq(w) \/ RekeyFilter(w) \/ RekeyKeys(w)
  \/ RekeyRouting(w)
Egress(w) == EgressSnapshot(w) \/ EgressSeal(w) \/ EgressEnd(w)

(* Bound: the client and the handshakes have used up their numbers.        *)
Quiet ==
  /\ keys = MaxKeys
  /\ UNCHANGED vars

Next ==
  \/ Send
  \/ \E w \in Workers : Ingress(w) \/ RekeyStep(w) \/ Egress(w)
  \/ CleanupRouting \/ CleanupKeys
  \/ Quiet

Spec == Init /\ [][Next]_vars

-----------------------------------------------------------------------------
(* Properties.                                                             *)

NoRekey == \A w \in Workers : pc[w] \notin Rekeying

(* PROTOCOL.md section 6, of the whole receive path: a datagram that comes *)
(* twice is written to the TUN device once, through every rekey, resume    *)
(* and cleanup.                                                            *)
AtMostOnce == \A p \in Datagrams : delivered[p] <= 1

(* "Generation check (Problem #4 fix)": once a rekey is over, the filter   *)
(* that replaced the old one holds numbers of the new key only, so that no *)
(* packet of the new key is refused because of one of the old.  The code   *)
(* does not keep it with several packet threads, and with one no packet    *)
(* crosses a rekey: no run checks it.                                      *)
FilterOfKey ==
  NoRekey /\ crypto # 0 =>
    \A n \in seen :
      \/ delivered[<<crypto, n>>] > 0
      \/ \E w \in Workers : pc[w] \in {"committed", "valid", "deliver"}
                            /\ pkt[w] = <<crypto, n>>

(* The address replies go to was authenticated under the key they are      *)
(* sealed with, unless the GC thread has just taken it away.               *)
PeerOfKey == NoRekey /\ crypto # 0 /\ peer # 0 => peer = crypto

(* No number seals two packets under one key, although tx_seq restarts     *)
(* with every rekey: the receiver would refuse the second.                 *)
SealedOnce == \A p \in Datagrams : sealed[p] <= 1
=============================================================================
