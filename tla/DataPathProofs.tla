--------------------------- MODULE DataPathProofs ---------------------------
(***************************************************************************)
(* What a session accepts it accepts once: packets (DataPath), for any     *)
(* number of packets, rekeys and numbers in the window, and, in the second *)
(* part, the tokens by which a client resumes it (Resumption), for any     *)
(* number of calls, tokens, restarts and ticks.  The two share no state.   *)
(***************************************************************************)
EXTENDS DataPath, Resumption, TLAPS

(* A worker handles a packet, or nothing; each rekey steps the generation. *)
Holding ==
  /\ gen = keys
  /\ \A w \in Workers :
       pc[w] \notin {"idle", "seal"} \cup Rekeying => pkt[w] \in Datagrams

PathTypes == TypeOK /\ Holding

(* The packet threads are at most one, the default.                        *)
OneWorker == \A v, w \in Workers : v = w

InFlight(w) == pc[w] \in {"committed", "valid", "deliver"}
Before(steps) == \E w \in Workers : pc[w] \in steps

(* Nothing is sent, delivered or sealed under a key that is not made yet.  *)
KeysMade ==
  /\ \A p \in sent : KeyOf(p) <= keys
  /\ \A p \in Datagrams :
       KeyOf(p) > keys => delivered[p] = 0 /\ sealed[p] = 0

(* What the worker knows of the packet and the keys it has in hand.        *)
InHand ==
  \A w \in Workers :
    /\ pkt[w] # NoPacket => pkt[w] \in sent
    /\ pc[w] \in Rekeying \cup {"seal"} => snap[w] = keys
    /\ pc[w] \in {"matched", "peeked"} => snap[w] \in {0, keys}
    /\ pc[w] \in {"opened", "committed", "valid", "deliver"} =>
         snap[w] = keys /\ KeyOf(pkt[w]) = keys
    /\ pc[w] \in {"peeked", "opened"} => SeqOf(pkt[w]) \notin seen
    /\ InFlight(w) => SeqOf(pkt[w]) \in seen /\ delivered[pkt[w]] = 0

(* The keys and the address are those of the newest rekey or none.         *)
Newest ==
  /\ ~Before({"rekeyTx", "rekeyFilter", "rekeyKeys"}) => crypto \in {0, keys}
  /\ ~Before(Rekeying) => peer \in {0, keys}

(* The filter has what was delivered under the newest key.                 *)
FilterNewest ==
  \A p \in Datagrams :
    KeyOf(p) = keys /\ delivered[p] > 0 =>
      SeqOf(p) \in seen /\ ~Before(Rekeying)

(* The newest key has sealed the numbers up to tx_seq.                     *)
SealedNewest ==
  \A p \in Datagrams :
    KeyOf(p) = keys /\ sealed[p] > 0 =>
      SeqOf(p) <= txSeq /\ ~Before({"rekeyTx"})

PathInv ==
  /\ PathTypes /\ KeysMade /\ InHand /\ Newest
  /\ FilterNewest /\ SealedNewest
  /\ AtMostOnce /\ SealedOnce

-----------------------------------------------------------------------------
(* Types, for any number of workers.                                       *)

LEMMA InitTypes == Init => PathTypes
BY BoundsNat DEF Init, PathTypes, TypeOK, Holding, Datagrams, NoPacket

(* A handler that returns holds nothing.                                   *)
LEMMA ReturnTypes ==
  ASSUME PathTypes, NEW w \in Workers, Return(w),
         pc' = [pc EXCEPT ![w] = "idle"]
  PROVE  /\ pkt' \in [Workers -> Datagrams \cup {NoPacket}]
         /\ hgen' \in [Workers -> 0..MaxKeys]
         /\ snap' \in [Workers -> 0..MaxKeys]
         /\ \A v \in Workers :
              pc'[v] = "idle" =>
                pkt'[v] = NoPacket /\ hgen'[v] = 0 /\ snap'[v] = 0
         /\ \A v \in Workers :
              pc'[v] \notin {"idle", "seal"} \cup Rekeying =>
                pkt'[v] \in Datagrams
BY BoundsNat DEF PathTypes, TypeOK, Holding, Return

LEMMA RememberTyped ==
  ASSUME NEW n \in 1..MaxSeq, high \in 0..MaxSeq, seen \in SUBSET (1..MaxSeq),
         SW!Remember(n)
  PROVE  high' \in 0..MaxSeq /\ seen' \in SUBSET (1..MaxSeq)
BY BoundsNat DEF SW!Remember

(* A count may go up at a place that has none.                             *)
LEMMA CountTyped ==
  ASSUME NEW S, NEW f \in [S -> Nat], NEW x
  PROVE  [f EXCEPT ![x] = @ + 1] \in [S -> Nat]
<1>1. CASE x \in S
  <2>1. f[x] + 1 \in Nat
    BY <1>1
  <2> QED
    BY <1>1, <2>1
<1>2. CASE x \notin S
  BY <1>2, [f EXCEPT ![x] = @ + 1] = f
<1> QED
  BY <1>1, <1>2

LEMMA IngressTypes ==
  ASSUME PathTypes, NEW w \in Workers, Ingress(w)
  PROVE  PathTypes'
<1> USE BoundsNat DEF PathTypes, TypeOK, Holding, At, session, filter, log,
                      worker
<1>1. CASE Receive(w)
  BY <1>1 DEF Receive, Rekeying
<1>2. CASE GetCrypto(w)
  BY <1>2 DEF GetCrypto, Rekeying
<1>3. CASE CheckReplayPeek(w)
  <2>1. CASE pc' = [pc EXCEPT ![w] = "peeked"] /\ UNCHANGED <<pkt, hgen, snap>>
    BY <1>3, <2>1 DEF CheckReplayPeek, Rekeying
  <2>2. CASE pc' = [pc EXCEPT ![w] = "idle"] /\ Return(w)
    BY <1>3, <2>2, ReturnTypes DEF CheckReplayPeek
  <2> QED
    BY <1>3, <2>1, <2>2 DEF CheckReplayPeek
<1>4. CASE Decrypt(w)
  <2>1. CASE pc' = [pc EXCEPT ![w] = "opened"] /\ UNCHANGED <<pkt, hgen, snap>>
    BY <1>4, <2>1 DEF Decrypt, Rekeying
  <2>2. CASE pc' = [pc EXCEPT ![w] = "idle"] /\ Return(w)
    BY <1>4, <2>2, ReturnTypes DEF Decrypt
  <2> QED
    BY <1>4, <2>1, <2>2 DEF Decrypt
<1>5. CASE CommitReplay(w)
  <2>1. SeqOf(pkt[w]) \in 1..MaxSeq
    BY <1>5 DEF CommitReplay, Rekeying, Datagrams, SeqOf
  <2>2. high' \in 0..MaxSeq /\ seen' \in SUBSET (1..MaxSeq)
    BY <1>5, <2>1, RememberTyped DEF CommitReplay
  <2> QED
    BY <1>5, <2>2 DEF CommitReplay, Rekeying
<1>6. CASE IsValid(w)
  BY <1>6 DEF IsValid, Rekeying
<1>7. CASE UpdateRouting(w)
  BY <1>7 DEF UpdateRouting, Rekeying
<1>8. CASE Deliver(w)
  <2>1. delivered' \in [Datagrams -> Nat]
    BY <1>8 DEF Deliver, Rekeying
  <2>2. Return(w) /\ pc' = [pc EXCEPT ![w] = "idle"]
    BY <1>8 DEF Deliver
  <2> QED
    BY <1>8, <2>1, <2>2, ReturnTypes DEF Deliver
<1> QED
  BY <1>1, <1>2, <1>3, <1>4, <1>5, <1>6, <1>7, <1>8 DEF Ingress

LEMMA RekeyTypes ==
  ASSUME PathTypes, NEW w \in Workers, RekeyStep(w)
  PROVE  PathTypes'
<1> USE BoundsNat DEF PathTypes, TypeOK, Holding, At, session, filter, log,
                      worker
<1>1. CASE RekeyBegin(w)
  BY <1>1 DEF RekeyBegin, Rekeying
<1>2. CASE RekeyTxSeq(w)
  BY <1>2 DEF RekeyTxSeq, Rekeying
<1>3. CASE RekeyFilter(w)
  BY <1>3 DEF RekeyFilter, Rekeying, SW!AbsReset
<1>4. CASE RekeyKeys(w)
  BY <1>4 DEF RekeyKeys, Rekeying
<1>5. CASE RekeyRouting(w)
  <2>1. peer' \in 0..MaxKeys
    BY <1>5 DEF RekeyRouting
  <2> QED
    BY <1>5, <2>1, ReturnTypes DEF RekeyRouting
<1> QED
  BY <1>1, <1>2, <1>3, <1>4, <1>5 DEF RekeyStep

LEMMA EgressTypes ==
  ASSUME PathTypes, NEW w \in Workers, Egress(w)
  PROVE  PathTypes'
<1> USE BoundsNat DEF PathTypes, TypeOK, Holding, At, session, filter, log,
                      worker
<1>1. CASE EgressSnapshot(w)
  BY <1>1 DEF EgressSnapshot, Rekeying
<1>2. CASE EgressSeal(w)
  <2>1. txSeq' \in 0..MaxSeq
    BY <1>2 DEF EgressSeal
  <2>2. sealed' \in [Datagrams -> Nat]
    BY <1>2, CountTyped DEF EgressSeal
  <2>3. Return(w) /\ pc' = [pc EXCEPT ![w] = "idle"]
    BY <1>2 DEF EgressSeal
  <2> QED
    BY <1>2, <2>1, <2>2, <2>3, ReturnTypes DEF EgressSeal
<1>3. CASE EgressEnd(w)
  BY <1>3, ReturnTypes DEF EgressEnd
<1> QED
  BY <1>1, <1>2, <1>3 DEF Egress

LEMMA NextTypes == PathTypes /\ [Next]_vars => PathTypes'
<1> SUFFICES ASSUME PathTypes, [Next]_vars PROVE PathTypes'
  OBVIOUS
<1>1. CASE Send
  BY <1>1, BoundsNat DEF Send, PathTypes, TypeOK, Holding, session, filter,
                         worker
<1>2. CASE CleanupRouting
  BY <1>2, BoundsNat DEF CleanupRouting, PathTypes, TypeOK, Holding, filter,
                         log, worker
<1>3. CASE CleanupKeys
  BY <1>3, BoundsNat DEF CleanupKeys, PathTypes, TypeOK, Holding, filter, log,
                         worker
<1>4. CASE UNCHANGED vars
  BY <1>4 DEF vars, PathTypes, TypeOK, Holding, session, filter, log, worker
<1> QED
  BY <1>1, <1>2, <1>3, <1>4, IngressTypes, RekeyTypes, EgressTypes
     DEF Next, Quiet

(* Types of the session, the network, the workers and the GC thread, for   *)
(* any number of workers, keys, packets and numbers in the window.         *)
THEOREM PathTypeCorrect == Spec => []TypeOK
<1>1. PathTypes => TypeOK
  BY DEF PathTypes
<1> QED
  BY <1>1, InitTypes, NextTypes, PTL DEF Spec

-----------------------------------------------------------------------------
(* Packets and numbers, for a server with one packet thread.               *)

LEMMA InitInv == Init => PathInv
<1> SUFFICES ASSUME Init PROVE PathInv
  OBVIOUS
<1> USE InitTypes, BoundsNat
<1>1. KeysMade
  BY DEF Init, KeysMade
<1>2. InHand
  BY DEF Init, InHand, Rekeying, InFlight
<1>3. Newest /\ FilterNewest /\ SealedNewest
  BY DEF Init, Newest, FilterNewest, SealedNewest
<1>4. AtMostOnce /\ SealedOnce
  BY DEF Init, AtMostOnce, SealedOnce
<1> QED
  BY <1>1, <1>2, <1>3, <1>4 DEF PathInv

(* With one worker, what some worker does that worker does.                *)
LEMMA OneBefore ==
  ASSUME OneWorker, NEW w \in Workers, NEW steps
  PROVE  /\ Before(steps) <=> pc[w] \in steps
         /\ Before(steps)' <=> pc'[w] \in steps
BY DEF OneWorker, Before

LEMMA IngressInv ==
  ASSUME OneWorker, PathInv, NEW w \in Workers, Ingress(w), PathTypes'
  PROVE  PathInv'
<1> USE DEF At, session, filter, log, worker, KeyOf, SeqOf
<1>0. /\ PathTypes /\ KeysMade /\ InHand /\ Newest
      /\ FilterNewest /\ SealedNewest
      /\ AtMostOnce /\ SealedOnce
      /\ \A v \in Workers : v = w
  BY DEF PathInv, OneWorker
<1>1. CASE Receive(w)
  <2>1. InHand'
    BY <1>0, <1>1, OneBefore DEF Receive, InHand, Rekeying, InFlight,
                                 PathTypes, TypeOK
  <2>2. /\ KeysMade' /\ Newest' /\ FilterNewest' /\ SealedNewest'
        /\ AtMostOnce' /\ SealedOnce'
    BY <1>0, <1>1, OneBefore DEF Receive, KeysMade, PathTypes, TypeOK, Newest,
                                 Rekeying, FilterNewest, InFlight,
                                 SealedNewest, AtMostOnce, SealedOnce
  <2> QED
    BY <2>1, <2>2 DEF PathInv
<1>2. CASE GetCrypto(w)
  <2>1. InHand'
    BY <1>0, <1>2, OneBefore DEF GetCrypto, InHand, Newest, Rekeying, InFlight,
     PathTypes, TypeOK
  <2>2. /\ KeysMade' /\ Newest' /\ FilterNewest' /\ SealedNewest'
        /\ AtMostOnce' /\ SealedOnce'
    BY <1>0, <1>2, OneBefore DEF GetCrypto, KeysMade, PathTypes, TypeOK,
                                 Newest, Rekeying, FilterNewest, InFlight,
                                 SealedNewest, AtMostOnce, SealedOnce
  <2> QED
    BY <2>1, <2>2 DEF PathInv
<1>3. CASE CheckReplayPeek(w)
  <2>1. InHand'
    BY <1>0, <1>3, OneBefore DEF CheckReplayPeek, InHand, Rekeying, InFlight,
                                 PathTypes, TypeOK, Return, SW!Fresh
  <2>2. FilterNewest'
    BY <1>0, <1>3, OneBefore DEF CheckReplayPeek, FilterNewest, Rekeying,
                                 InFlight, InHand, PathTypes, TypeOK, Return,
                                 SW!Fresh
  <2>3. KeysMade' /\ Newest' /\ SealedNewest' /\ AtMostOnce' /\ SealedOnce'
    BY <1>0, <1>3, OneBefore DEF CheckReplayPeek, KeysMade, PathTypes, TypeOK,
                                 Newest, Rekeying, SealedNewest, AtMostOnce,
                                 SealedOnce
  <2> QED
    BY <2>1, <2>2, <2>3 DEF PathInv
<1>4. CASE Decrypt(w)
  <2>1. InHand'
    <3>1. CASE pc' = [pc EXCEPT ![w] = "opened"] /\ UNCHANGED <<pkt, snap>>
             /\ snap[w] = KeyOf(pkt[w])
      <4>1. pkt[w] \in Datagrams /\ pc[w] = "peeked" /\ snap[w] \in {0, keys}
        BY <1>0, <1>4 DEF Decrypt, InHand, PathTypes, Holding, Rekeying
      <4>2. snap[w] = keys
        BY <3>1, <4>1, BoundsNat DEF Datagrams, Keys
      <4> QED
        BY <1>0, <1>4, <3>1, <4>1, <4>2
           DEF Decrypt, InHand, Rekeying, InFlight, PathTypes, TypeOK
    <3>2. CASE pc' = [pc EXCEPT ![w] = "idle"] /\ Return(w)
      BY <1>0, <1>4, <3>2 DEF Decrypt, InHand, Rekeying, InFlight, Return,
         PathTypes, TypeOK
    <3> QED
      BY <1>4, <3>1, <3>2 DEF Decrypt
  <2>2. FilterNewest'
    BY <1>0, <1>4, OneBefore DEF Decrypt, FilterNewest, Rekeying, InFlight,
                                 InHand, PathTypes, TypeOK, Return
  <2>3. KeysMade' /\ Newest' /\ SealedNewest' /\ AtMostOnce' /\ SealedOnce'
    BY <1>0, <1>4, OneBefore DEF Decrypt, KeysMade, PathTypes, TypeOK, Newest,
                                 Rekeying, SealedNewest, AtMostOnce, SealedOnce
  <2> QED
    BY <2>1, <2>2, <2>3 DEF PathInv
<1>5. CASE CommitReplay(w)
  <2>1. InHand'
    <3>1. /\ pkt[w] \in Datagrams /\ KeyOf(pkt[w]) = keys
          /\ SeqOf(pkt[w]) \notin seen
      BY <1>0, <1>5 DEF CommitReplay, InHand, PathTypes, Holding, Rekeying
    <3>2. delivered[pkt[w]] = 0
      BY <1>0, <3>1 DEF FilterNewest, PathTypes, TypeOK
    <3> QED
      BY <1>0, <1>5, <3>1, <3>2 DEF CommitReplay, InHand, Rekeying, InFlight,
         SW!Remember, PathTypes, TypeOK
  <2>2. FilterNewest'
    <3>1. pkt[w] = <<keys, SeqOf(pkt[w])>> /\ pc[w] = "opened"
      BY <1>0, <1>5 DEF CommitReplay, InHand, PathTypes, Holding, Rekeying,
                        Datagrams
    <3>2. seen' = seen \cup {SeqOf(pkt[w])}
      BY <1>5 DEF CommitReplay, SW!Remember
    <3>3. pc'[w] = "committed" /\ UNCHANGED <<delivered, keys, pkt>>
      BY <1>0, <1>5 DEF CommitReplay, PathTypes, TypeOK
    <3> QED
      BY <1>0, <3>1, <3>2, <3>3, OneBefore DEF FilterNewest, Rekeying
  <2>3. KeysMade' /\ Newest' /\ SealedNewest' /\ AtMostOnce' /\ SealedOnce'
    BY <1>0, <1>5, OneBefore DEF CommitReplay, KeysMade, PathTypes, TypeOK,
                                 Newest, Rekeying, SealedNewest, AtMostOnce,
                                 SealedOnce
  <2> QED
    BY <2>1, <2>2, <2>3 DEF PathInv
<1>6. CASE IsValid(w)
  <2>1. InHand'
    BY <1>0, <1>6, OneBefore DEF IsValid, InHand, Rekeying, InFlight,
                                 PathTypes, TypeOK
  <2>2. FilterNewest'
    <3>1. /\ pc[w] \notin Rekeying /\ pc'[w] \notin Rekeying
          /\ UNCHANGED <<delivered, keys, seen>>
      BY <1>0, <1>6 DEF IsValid, PathTypes, TypeOK, Rekeying
    <3> QED
      BY <1>0, <3>1, OneBefore DEF FilterNewest, Rekeying
  <2>3. KeysMade' /\ Newest' /\ SealedNewest' /\ AtMostOnce' /\ SealedOnce'
    BY <1>0, <1>6, OneBefore DEF IsValid, KeysMade, PathTypes, TypeOK, Newest,
                                 Rekeying, SealedNewest, AtMostOnce, SealedOnce
  <2> QED
    BY <2>1, <2>2, <2>3 DEF PathInv
<1>7. CASE UpdateRouting(w)
  <2>1. InHand'
    BY <1>0, <1>7, OneBefore DEF UpdateRouting, InHand, Rekeying, InFlight,
                                 PathTypes, TypeOK
  <2>2. Newest'
    BY <1>0, <1>7, OneBefore DEF UpdateRouting, Newest, InHand, Rekeying,
     PathTypes, TypeOK
  <2>3. FilterNewest'
    <3>1. /\ pc[w] \notin Rekeying /\ pc'[w] \notin Rekeying
          /\ UNCHANGED <<delivered, keys, seen>>
      BY <1>0, <1>7 DEF UpdateRouting, PathTypes, TypeOK, Rekeying
    <3> QED
      BY <1>0, <3>1, OneBefore DEF FilterNewest, Rekeying
  <2>4. KeysMade' /\ SealedNewest' /\ AtMostOnce' /\ SealedOnce'
    BY <1>0, <1>7, OneBefore DEF UpdateRouting, KeysMade, PathTypes, TypeOK,
                                 SealedNewest, AtMostOnce, SealedOnce
  <2> QED
    BY <2>1, <2>2, <2>3, <2>4 DEF PathInv
<1>8. CASE Deliver(w)
  <2>1. KeysMade'
    <3>1. pkt[w] \in Datagrams /\ KeyOf(pkt[w]) = keys /\ delivered[pkt[w]] = 0
      BY <1>0, <1>8 DEF Deliver, InHand, InFlight, PathTypes, Holding, Rekeying
    <3>2. /\ delivered' = [delivered EXCEPT ![pkt[w]] = @ + 1]
          /\ UNCHANGED <<keys, sent, sealed, seen>>
      BY <1>8 DEF Deliver
    <3> QED
      BY <1>0, <3>1, <3>2 DEF KeysMade, PathTypes, TypeOK, Datagrams
  <2>2. InHand'
    BY <1>0, <1>8, OneBefore DEF Deliver, InHand, Rekeying, InFlight,
                                 PathTypes, TypeOK, Return
  <2>3. FilterNewest'
    <3>1. pkt[w] \in Datagrams /\ KeyOf(pkt[w]) = keys /\ delivered[pkt[w]] = 0
      BY <1>0, <1>8 DEF Deliver, InHand, InFlight, PathTypes, Holding, Rekeying
    <3>2. /\ delivered' = [delivered EXCEPT ![pkt[w]] = @ + 1]
          /\ UNCHANGED <<keys, sent, sealed, seen>>
      BY <1>8 DEF Deliver
    <3>3. delivered'[pkt[w]] > 0 /\ SeqOf(pkt[w]) \in seen
      BY <1>0, <1>8, <3>1, <3>2
         DEF Deliver, InHand, InFlight, PathTypes, TypeOK
    <3>4. pc[w] = "deliver" /\ pc'[w] = "idle"
      BY <1>0, <1>8 DEF Deliver, PathTypes, TypeOK
    <3>5. \A p \in Datagrams : p # pkt[w] => delivered'[p] = delivered[p]
      BY <1>0, <3>2 DEF PathTypes, TypeOK
    <3>6. \A p \in Datagrams :
            KeyOf(p) = keys /\ delivered'[p] > 0 => SeqOf(p) \in seen
      BY <1>0, <3>3, <3>5 DEF FilterNewest
    <3> QED
      BY <3>2, <3>4, <3>6, OneBefore DEF FilterNewest, Rekeying
  <2>4. AtMostOnce' /\ SealedOnce'
    <3>1. pkt[w] \in Datagrams /\ KeyOf(pkt[w]) = keys /\ delivered[pkt[w]] = 0
      BY <1>0, <1>8 DEF Deliver, InHand, InFlight, PathTypes, Holding, Rekeying
    <3>2. /\ delivered' = [delivered EXCEPT ![pkt[w]] = @ + 1]
          /\ UNCHANGED <<keys, sent, sealed, seen>>
      BY <1>8 DEF Deliver
    <3> QED
      BY <1>0, <3>1, <3>2 DEF AtMostOnce, SealedOnce, PathTypes, TypeOK
  <2>5. Newest' /\ SealedNewest'
    BY <1>0, <1>8, OneBefore DEF Deliver, Newest, Rekeying, PathTypes, TypeOK,
                                 SealedNewest
  <2> QED
    BY <2>1, <2>2, <2>3, <2>4, <2>5 DEF PathInv
<1> QED
  BY <1>1, <1>2, <1>3, <1>4, <1>5, <1>6, <1>7, <1>8 DEF Ingress

LEMMA RekeyInv ==
  ASSUME OneWorker, PathInv, NEW w \in Workers, RekeyStep(w), PathTypes'
  PROVE  PathInv'
<1> USE DEF At, session, filter, log, worker, KeyOf, SeqOf
<1>0. /\ PathTypes /\ KeysMade /\ InHand /\ Newest
      /\ FilterNewest /\ SealedNewest
      /\ AtMostOnce /\ SealedOnce
      /\ \A v \in Workers : v = w
  BY DEF PathInv, OneWorker
<1>1. CASE RekeyBegin(w)
  <2>1. KeysMade'
    <3>1. keys' = keys + 1 /\ UNCHANGED <<sent, delivered, sealed>>
      BY <1>1 DEF RekeyBegin
    <3>2. \A p \in Datagrams : KeyOf(p) \in Int
      BY BoundsNat DEF Datagrams, Keys
    <3> QED
      BY <1>0, <3>1, <3>2 DEF KeysMade, PathTypes, TypeOK
  <2>2. InHand'
    BY <1>0, <1>1, OneBefore DEF RekeyBegin, InHand, Rekeying, InFlight,
                                 PathTypes, TypeOK
  <2>3. FilterNewest'
    <3>1. \A p \in Datagrams :
            KeyOf(p) = keys' => delivered[p] = 0 /\ sealed[p] = 0
      BY <1>0, <1>1 DEF RekeyBegin, KeysMade, PathTypes, TypeOK
    <3>2. pc'[w] = "rekeyTx" /\ UNCHANGED delivered
      BY <1>0, <1>1 DEF RekeyBegin, PathTypes, TypeOK
    <3> QED
      BY <3>1, <3>2, OneBefore DEF FilterNewest
  <2>4. SealedNewest'
    <3>1. \A p \in Datagrams :
            KeyOf(p) = keys' => delivered[p] = 0 /\ sealed[p] = 0
      BY <1>0, <1>1 DEF RekeyBegin, KeysMade, PathTypes, TypeOK
    <3>2. UNCHANGED sealed
      BY <1>1 DEF RekeyBegin
    <3> QED
      BY <3>1, <3>2 DEF SealedNewest
  <2>5. Newest' /\ AtMostOnce' /\ SealedOnce'
    BY <1>0, <1>1, OneBefore DEF RekeyBegin, Newest, Rekeying, PathTypes,
                                 TypeOK, AtMostOnce, SealedOnce
  <2> QED
    BY <2>1, <2>2, <2>3, <2>4, <2>5 DEF PathInv
<1>2. CASE RekeyTxSeq(w)
  <2>1. InHand'
    BY <1>0, <1>2, OneBefore DEF RekeyTxSeq, InHand, Rekeying, InFlight,
                                 PathTypes, TypeOK
  <2>2. SealedNewest'
    BY <1>0, <1>2, OneBefore DEF RekeyTxSeq, SealedNewest, PathTypes, TypeOK
  <2>3. KeysMade' /\ Newest' /\ FilterNewest' /\ AtMostOnce' /\ SealedOnce'
    BY <1>0, <1>2, OneBefore DEF RekeyTxSeq, KeysMade, PathTypes, TypeOK,
                                 Newest, Rekeying, FilterNewest, InFlight,
                                 AtMostOnce, SealedOnce
  <2> QED
    BY <2>1, <2>2, <2>3 DEF PathInv
<1>3. CASE RekeyFilter(w)
  <2>1. InHand'
    BY <1>0, <1>3, OneBefore DEF RekeyFilter, InHand, Rekeying, InFlight,
                                 PathTypes, TypeOK, SW!AbsReset
  <2>2. FilterNewest'
    BY <1>0, <1>3, OneBefore DEF RekeyFilter, FilterNewest, Rekeying, InFlight,
                                 InHand, PathTypes, TypeOK, SW!AbsReset
  <2>3. KeysMade' /\ Newest' /\ SealedNewest' /\ AtMostOnce' /\ SealedOnce'
    BY <1>0, <1>3, OneBefore DEF RekeyFilter, KeysMade, PathTypes, TypeOK,
                                 Newest, Rekeying, SealedNewest, AtMostOnce,
                                 SealedOnce
  <2> QED
    BY <2>1, <2>2, <2>3 DEF PathInv
<1>4. CASE RekeyKeys(w)
  <2>1. InHand'
    BY <1>0, <1>4, OneBefore DEF RekeyKeys, InHand, Rekeying, InFlight,
                                 PathTypes, TypeOK
  <2>2. Newest'
    BY <1>0, <1>4, OneBefore DEF RekeyKeys, Newest, InHand, Rekeying,
     PathTypes, TypeOK
  <2>3. /\ KeysMade' /\ FilterNewest' /\ SealedNewest'
        /\ AtMostOnce' /\ SealedOnce'
    BY <1>0, <1>4, OneBefore DEF RekeyKeys, KeysMade, PathTypes, TypeOK,
                                 FilterNewest, Rekeying, InFlight,
                                 SealedNewest, AtMostOnce, SealedOnce
  <2> QED
    BY <2>1, <2>2, <2>3 DEF PathInv
<1>5. CASE RekeyRouting(w)
  <2>1. InHand'
    BY <1>0, <1>5, OneBefore DEF RekeyRouting, InHand, Rekeying, InFlight,
                                 PathTypes, TypeOK, Return
  <2>2. Newest'
    BY <1>0, <1>5, OneBefore DEF RekeyRouting, Newest, InHand, Rekeying,
     PathTypes, TypeOK
  <2>3. /\ KeysMade' /\ FilterNewest' /\ SealedNewest'
        /\ AtMostOnce' /\ SealedOnce'
    BY <1>0, <1>5, OneBefore DEF RekeyRouting, KeysMade, PathTypes, TypeOK,
                                 FilterNewest, Rekeying, InFlight,
                                 SealedNewest, AtMostOnce, SealedOnce
  <2> QED
    BY <2>1, <2>2, <2>3 DEF PathInv
<1> QED
  BY <1>1, <1>2, <1>3, <1>4, <1>5 DEF RekeyStep

LEMMA EgressInv ==
  ASSUME OneWorker, PathInv, NEW w \in Workers, Egress(w), PathTypes'
  PROVE  PathInv'
<1> USE DEF At, session, filter, log, worker, KeyOf, SeqOf
<1>0. /\ PathTypes /\ KeysMade /\ InHand /\ Newest
      /\ FilterNewest /\ SealedNewest
      /\ AtMostOnce /\ SealedOnce
      /\ \A v \in Workers : v = w
  BY DEF PathInv, OneWorker
<1>1. CASE EgressSnapshot(w)
  <2>1. InHand'
    BY <1>0, <1>1, OneBefore DEF EgressSnapshot, InHand, Newest, Rekeying,
     InFlight, PathTypes, TypeOK
  <2>2. /\ KeysMade' /\ Newest' /\ FilterNewest' /\ SealedNewest'
        /\ AtMostOnce' /\ SealedOnce'
    BY <1>0, <1>1, OneBefore DEF EgressSnapshot, KeysMade, PathTypes, TypeOK,
                                 Newest, Rekeying, FilterNewest, InFlight,
                                 SealedNewest, AtMostOnce, SealedOnce
  <2> QED
    BY <2>1, <2>2 DEF PathInv
<1>2. CASE EgressSeal(w)
  <2>1. KeysMade'
    <3>1. /\ pc[w] = "seal" /\ pc'[w] = "idle" /\ txSeq' = txSeq + 1
          /\ snap[w] = keys /\ UNCHANGED <<keys, sent, delivered>>
          /\ sealed' = [sealed EXCEPT ![<<keys, txSeq + 1>>] = @ + 1]
      BY <1>0, <1>2 DEF EgressSeal, InHand, PathTypes, TypeOK, Rekeying
    <3>2. \A p \in Datagrams :
            p # <<keys, txSeq + 1>> => sealed'[p] = sealed[p]
      BY <1>0, <3>1 DEF PathTypes, TypeOK
    <3> QED
      BY <1>0, <3>1, <3>2 DEF KeysMade, PathTypes, TypeOK, Datagrams
  <2>2. InHand'
    BY <1>0, <1>2, OneBefore DEF EgressSeal, InHand, Rekeying, InFlight,
                                 PathTypes, TypeOK, Return
  <2>3. SealedNewest'
    <3>1. /\ pc[w] = "seal" /\ pc'[w] = "idle" /\ txSeq' = txSeq + 1
          /\ snap[w] = keys /\ UNCHANGED <<keys, sent, delivered>>
          /\ sealed' = [sealed EXCEPT ![<<keys, txSeq + 1>>] = @ + 1]
      BY <1>0, <1>2 DEF EgressSeal, InHand, PathTypes, TypeOK, Rekeying
    <3>2. \A p \in Datagrams :
            p # <<keys, txSeq + 1>> => sealed'[p] = sealed[p]
      BY <1>0, <3>1 DEF PathTypes, TypeOK
    <3> QED
      BY <1>0, <3>1, <3>2, OneBefore
         DEF SealedNewest, PathTypes, TypeOK, Datagrams
  <2>4. AtMostOnce' /\ SealedOnce'
    <3>1. /\ pc[w] = "seal" /\ pc'[w] = "idle" /\ txSeq' = txSeq + 1
          /\ snap[w] = keys /\ UNCHANGED <<keys, sent, delivered>>
          /\ sealed' = [sealed EXCEPT ![<<keys, txSeq + 1>>] = @ + 1]
      BY <1>0, <1>2 DEF EgressSeal, InHand, PathTypes, TypeOK, Rekeying
    <3>2. \A p \in Datagrams :
            p # <<keys, txSeq + 1>> => sealed'[p] = sealed[p]
      BY <1>0, <3>1 DEF PathTypes, TypeOK
    <3>3. LET q == <<keys, txSeq + 1>> IN q \in Datagrams => sealed[q] = 0
      BY <1>0 DEF SealedNewest, PathTypes, TypeOK
    <3> QED
      BY <1>0, <3>1, <3>2, <3>3 DEF AtMostOnce, SealedOnce, PathTypes, TypeOK
  <2>5. Newest' /\ FilterNewest'
    BY <1>0, <1>2, OneBefore DEF EgressSeal, Newest, Rekeying, PathTypes,
                                 TypeOK, FilterNewest, InFlight
  <2> QED
    BY <2>1, <2>2, <2>3, <2>4, <2>5 DEF PathInv
<1>3. CASE EgressEnd(w)
  <2>1. InHand'
    BY <1>0, <1>3, OneBefore DEF EgressEnd, InHand, Rekeying, InFlight,
                                 PathTypes, TypeOK, Return
  <2>2. /\ KeysMade' /\ Newest' /\ FilterNewest' /\ SealedNewest'
        /\ AtMostOnce' /\ SealedOnce'
    BY <1>0, <1>3, OneBefore DEF EgressEnd, KeysMade, PathTypes, TypeOK,
                                 Newest, Rekeying, FilterNewest, InFlight,
                                 SealedNewest, AtMostOnce, SealedOnce
  <2> QED
    BY <2>1, <2>2 DEF PathInv
<1> QED
  BY <1>1, <1>2, <1>3 DEF Egress

LEMMA NextInv == OneWorker /\ PathInv /\ [Next]_vars => PathInv'
<1> SUFFICES ASSUME OneWorker, PathInv, [Next]_vars PROVE PathInv'
  OBVIOUS
<1>1. PathTypes'
  BY NextTypes DEF PathInv
<1>2. CASE Send
  <2>1. KeysMade' /\ InHand'
    BY <1>2 DEF Send, PathInv, KeysMade, InHand, InFlight, session, filter,
                worker
  <2>2. Newest' /\ FilterNewest' /\ SealedNewest' /\ AtMostOnce' /\ SealedOnce'
    BY <1>2 DEF Send, PathInv, Newest, FilterNewest, SealedNewest, Before,
                AtMostOnce, SealedOnce, InFlight, session, filter, worker
  <2> QED
    BY <1>1, <2>1, <2>2 DEF PathInv
<1>3. CASE CleanupRouting \/ CleanupKeys
  <2>1. KeysMade' /\ InHand' /\ Newest'
    BY <1>3 DEF CleanupRouting, CleanupKeys, PathInv, KeysMade, InHand, Newest,
                Before, InFlight, filter, log, worker
  <2>2. FilterNewest' /\ SealedNewest' /\ AtMostOnce' /\ SealedOnce'
    BY <1>3 DEF CleanupRouting, CleanupKeys, PathInv, FilterNewest,
                SealedNewest, Before, AtMostOnce, SealedOnce, InFlight, filter,
                log, worker
  <2> QED
    BY <1>1, <2>1, <2>2 DEF PathInv
<1>4. CASE UNCHANGED vars
  BY <1>1, <1>4 DEF vars, session, filter, log, worker, PathInv, KeysMade,
     InHand, InFlight, Newest, FilterNewest, SealedNewest, Before, AtMostOnce,
     SealedOnce
<1> QED
  BY <1>1, <1>2, <1>3, <1>4, IngressInv, RekeyInv, EgressInv DEF Next, Quiet

LEMMA PathInvariant == OneWorker => (Spec => []PathInv)
<1> SUFFICES ASSUME OneWorker PROVE Spec => []PathInv
  OBVIOUS
<1>1. PathInv /\ [Next]_vars => PathInv'
  BY NextInv
<1> QED
  BY <1>1, InitInv, PTL DEF Spec

(* With one packet thread a datagram is written to the TUN device at most  *)
(* once, however often it comes and whatever the session is rekeyed,       *)
(* resumed or cleaned up in between.                                       *)
THEOREM DeliveredOnce == OneWorker => (Spec => []AtMostOnce)
<1>1. PathInv => AtMostOnce
  BY DEF PathInv
<1> QED
  BY <1>1, PathInvariant, PTL

(* With one packet thread the address that replies go to was authenticated *)
(* under the key they are sealed with.                                     *)
THEOREM PeerKeepsKey == OneWorker => (Spec => []PeerOfKey)
<1>1. PathInv => PeerOfKey
  BY DEF PathInv, PeerOfKey, Newest, Before, NoRekey, Rekeying
<1> QED
  BY <1>1, PathInvariant, PTL

(* With one packet thread no number seals two packets under one key.       *)
THEOREM NumbersSealOnce == OneWorker => (Spec => []SealedOnce)
<1>1. PathInv => SealedOnce
  BY DEF PathInv
<1> QED
  BY <1>1, PathInvariant, PTL

-----------------------------------------------------------------------------
(***************************************************************************)
(* Resumption tokens.                                                      *)
(***************************************************************************)

LEMMA ResumeInitHolds == ResumeInit => ResumeInv
BY TimesNat, TokensFresh
   DEF ResumeInit, ResumeInv, TokensOK, Times, OpenedHere, NoneFromTheFuture,
       RememberedUntilExpiry, OnceWhileValid

(* Pruning with a sample of the clock that is not in the future forgets    *)
(* expired nonces only.                                                    *)
LEMMA PruneForgetsExpired ==
  ASSUME TokensOK, NEW t \in 0..now, NEW u \in used, now <= expiry[u]
  PROVE  u \in Unexpired(t)
BY TimesNat DEF TokensOK, Times, Unexpired

(* A call that has opened a token of this boot inserts it: the only step   *)
(* that accepts.                                                           *)
LEMMA InsertHolds ==
  ASSUME ResumeInv, NEW w \in Calls, Insert(w)
  PROVE  ResumeInv'
<1>1. /\ tok[w] \in issued /\ tok[w] \in Tokens
      /\ origin[tok[w]] = boot
  BY DEF Insert, tokens, ResumeInv, TokensOK, OpenedHere
<1>2. TokensOK'
  BY <1>1 DEF Insert, Reject, tokens, ResumeInv, TokensOK
<1>3. OpenedHere'
  BY DEF Insert, Reject, tokens, ResumeInv, TokensOK, OpenedHere
<1>4. NoneFromTheFuture'
  BY <1>1 DEF Insert, tokens, ResumeInv, TokensOK, NoneFromTheFuture
<1>5. RememberedUntilExpiry'
  BY <1>1 DEF Insert, tokens, ResumeInv, TokensOK, RememberedUntilExpiry
<1>6. OnceWhileValid'
  <2>1. CASE tok[w] \in used
    BY <2>1 DEF Insert, tokens, ResumeInv, OnceWhileValid
  <2>2. CASE tok[w] \notin used
    <3>1. accepted[tok[w]] = 0 \/ now > expiry[tok[w]]
      BY <1>1, <2>2, TimesNat
         DEF ResumeInv, TokensOK, Times, RememberedUntilExpiry
    <3>2. /\ accepted' = [accepted EXCEPT ![tok[w]] = @ + 1]
          /\ now' = now /\ expiry' = expiry
      BY <2>2 DEF Insert, tokens
    <3>3. SUFFICES ASSUME NEW t \in Tokens, accepted'[t] > 1
                   PROVE  now > expiry[t]
      BY <3>2 DEF OnceWhileValid
    <3>4. CASE t = tok[w]
      BY <1>1, <3>1, <3>2, <3>3, <3>4 DEF ResumeInv, TokensOK
    <3>5. CASE t # tok[w]
      BY <3>2, <3>3, <3>5 DEF ResumeInv, TokensOK, OnceWhileValid
    <3>6. QED
      BY <3>4, <3>5
  <2>3. QED
    BY <2>1, <2>2
<1>7. QED
  BY <1>2, <1>3, <1>4, <1>5, <1>6 DEF ResumeInv

LEMMA ResumeStepHolds == ResumeInv /\ [ResumeNext]_resumeVars => ResumeInv'
<1> SUFFICES ASSUME ResumeInv, [ResumeNext]_resumeVars
             PROVE  ResumeInv'
  OBVIOUS
<1> USE DEF ResumeInv
<1>1. ASSUME NEW t \in Tokens, Issue(t)
      PROVE  ResumeInv'
  <2>1. TokensOK'
    BY <1>1, TimesNat DEF Issue, calls, TokensOK, Times
  <2>2. OpenedHere'
    BY <1>1 DEF Issue, calls, TokensOK, OpenedHere
  <2>3. NoneFromTheFuture'
    BY <1>1 DEF Issue, TokensOK, NoneFromTheFuture
  <2>4. RememberedUntilExpiry' /\ OnceWhileValid'
    <3>1. accepted[t] = 0
      BY <1>1 DEF Issue, NoneFromTheFuture
    <3>2. QED
      BY <1>1, <3>1 DEF Issue, TokensOK, RememberedUntilExpiry, OnceWhileValid
  <2>5. QED
    BY <2>1, <2>2, <2>3, <2>4
<1>2. ASSUME NEW w \in Calls, Sample(w)
      PROVE  ResumeInv'
  <2>1. TokensOK'
    BY <1>2, TimesNat, TokensFresh DEF Sample, tokens, TokensOK, Times
  <2>2. QED
    BY <1>2, <2>1 DEF Sample, tokens, TokensOK, OpenedHere, NoneFromTheFuture,
                      RememberedUntilExpiry, OnceWhileValid
<1>3. ASSUME NEW w \in Calls, Precheck(w)
      PROVE  ResumeInv'
  <2>1. cur[w] \in 0..now /\ used' \subseteq used /\ lastPrune' \in Times
    BY <1>3, TimesNat DEF Precheck, TokensOK, Times, Unexpired
  <2>2. TokensOK'
    BY <1>3, <2>1 DEF Precheck, Reject, tokens, TokensOK
  <2>3. \A u \in used : now <= expiry[u] => u \in used'
    BY <1>3, <2>1, PruneForgetsExpired DEF Precheck
  <2>4. RememberedUntilExpiry'
    BY <1>3, <2>3 DEF Precheck, tokens, RememberedUntilExpiry
  <2>5. QED
    BY <1>3, <2>2, <2>4 DEF Precheck, Reject, tokens, TokensOK, OpenedHere,
                            NoneFromTheFuture, OnceWhileValid
<1>4. ASSUME NEW w \in Calls, Open(w)
      PROVE  ResumeInv'
  <2>1. TokensOK'
    BY <1>4 DEF Open, Reject, tokens, TokensOK
  <2>2. QED
    BY <1>4, <2>1 DEF Open, Reject, tokens, TokensOK, OpenedHere,
                      NoneFromTheFuture, RememberedUntilExpiry, OnceWhileValid
<1>5. ASSUME NEW w \in Calls, Insert(w)
      PROVE  ResumeInv'
  BY <1>5, InsertHolds
<1>6. CASE Tick
  <2>1. TokensOK'
    BY <1>6, TimesNat DEF Tick, tokens, calls, TokensOK, Times
  <2>2. now' > now /\ now \in Nat /\ \A t \in Tokens : expiry[t] \in Nat
    BY <1>6, TimesNat DEF Tick, TokensOK, Times
  <2>3. RememberedUntilExpiry' /\ OnceWhileValid'
    BY <1>6, <2>2 DEF Tick, tokens, TokensOK, RememberedUntilExpiry,
                      OnceWhileValid
  <2>4. QED
    BY <1>6, <2>1, <2>3 DEF Tick, tokens, calls, OpenedHere, NoneFromTheFuture
<1>7. CASE Restart
  <2>1. TokensOK'
    BY <1>7, TimesNat DEF Restart, tokens, TokensOK, Times
  <2>2. boot \in Nat /\ \A t \in Tokens : origin[t] \in Nat
    BY TimesNat DEF TokensOK
  <2>3. boot' = boot + 1 /\ UNCHANGED tokens /\ UNCHANGED accepted
    BY <1>7 DEF Restart
  <2>4. \A t \in Tokens : origin'[t] # boot' /\ origin'[t] <= boot'
    BY <2>2, <2>3 DEF tokens, NoneFromTheFuture
  <2>5. NoneFromTheFuture' /\ RememberedUntilExpiry'
    BY <2>3, <2>4 DEF tokens, NoneFromTheFuture, RememberedUntilExpiry
  <2>6. QED
    BY <1>7, <2>1, <2>5 DEF Restart, tokens, TokensOK, OpenedHere,
                            OnceWhileValid
<1>8. CASE UNCHANGED resumeVars
  BY <1>8 DEF resumeVars, tokens, calls, TokensOK, OpenedHere,
              NoneFromTheFuture, RememberedUntilExpiry, OnceWhileValid
<1>9. QED
  BY <1>1, <1>2, <1>3, <1>4, <1>5, <1>6, <1>7, <1>8 DEF ResumeNext, Verify

-----------------------------------------------------------------------------
(* The types hold: nothing but issued tokens is ever used or verified, and *)
(* no call has a sample of the clock from the future.                      *)
THEOREM TokensTypeCorrect == ResumeSpec => []TokensOK
<1>1. ResumeInv => TokensOK
  BY DEF ResumeInv
<1>2. QED
  BY <1>1, ResumeInitHolds, ResumeStepHolds, PTL DEF ResumeSpec

(* prune_expired_locked never forgets a nonce that could still be used.    *)
THEOREM NoncesRemembered == ResumeSpec => []RememberedUntilExpiry
<1>1. ResumeInv => RememberedUntilExpiry
  BY DEF ResumeInv
<1>2. QED
  BY <1>1, ResumeInitHolds, ResumeStepHolds, PTL DEF ResumeSpec

(* verify accepts a token at most once while the token is valid, with any  *)
(* number of concurrent calls and restarts.                                *)
THEOREM ValidTokensAcceptedOnce == ResumeSpec => []OnceWhileValid
<1>1. ResumeInv => OnceWhileValid
  BY DEF ResumeInv
<1>2. QED
  BY <1>1, ResumeInitHolds, ResumeStepHolds, PTL DEF ResumeSpec
=============================================================================
