---------------------------- MODULE GatewayProofs ----------------------------
(***************************************************************************)
(* Proofs about the tunnel gateway, for any number of threads, starts,     *)
(* streams and frames.                                                     *)
(***************************************************************************)
EXTENDS Gateway, TLAPS

(* The invariant behind HandledOnce.  A start of the server has private    *)
(* keys of its own, so that a frame handled under an earlier start opens   *)
(* no more; a frame handled under this one left its number in seen_seqs,   *)
(* which no handshake empties.                                             *)
Remembered == \A f \in done : /\ f.key[2] \in 1..boot
                              /\ f.key[2] = boot => f.seq \in seen

IInv == TypeOK /\ Remembered /\ HandledOnce /\ RegisteredOpen

LEMMA InitHolds == Init => IInv
BY GatewayAssumption
   DEF Init, IInv, TypeOK, Remembered, HandledOnce, RegisteredOpen, Runs,
       Sids, Keys, NoKey, Nobody, AllIdle, Idle

-----------------------------------------------------------------------------
(* Type correctness, one step per action.                                  *)

LEMMA SendTyped ==
  ASSUME TypeOK, NEW s \in Sids, NEW cmd \in Cmds, cl = "up", Send(s, cmd)
  PROVE  /\ tx' \in 0..MaxSeq /\ up' \subseteq Frames /\ up \subseteq up'
<1>1. ckey \in Keys
  BY DEF TypeOK
<1>2. PICK n \in Numbers \cap (1..MaxSeq) :
        /\ tx' = n
        /\ up' = up \cup {[key |-> ckey, seq |-> n, cmd |-> cmd, sid |-> s]}
  BY DEF Send
<1>3. [key |-> ckey, seq |-> n, cmd |-> cmd, sid |-> s] \in Frames
  BY <1>1, <1>2 DEF Frames
<1>4. n \in 0..MaxSeq
  BY <1>2, GatewayAssumption
<1>5. QED
  BY <1>2, <1>3, <1>4 DEF TypeOK

LEMMA ClientTyped ==
  ASSUME TypeOK, NEW s \in Sids,
         Accept(s) \/ Request(s) \/ Upload(s) \/ End(s)
  PROVE  TypeOK'
<1>1. CASE Accept(s)
  BY <1>1 DEF TypeOK, Accept, net, server, hist
<1>2. ASSUME NEW cmd \in Cmds, Send(s, cmd), cl = "up",
             UNCHANGED <<run, cl, ckey, inits, answers, down, server, hist>>
      PROVE  /\ run' \in 0..MaxRuns /\ cl' \in {"off", "wait", "up"}
             /\ ckey' \in Keys \cup {NoKey}
             /\ (cl' = "up" => ckey' \in Keys /\ ckey'[1] = run')
             /\ tx' \in 0..MaxSeq
             /\ inits' \subseteq Runs /\ answers' \subseteq Keys
             /\ up' \subseteq Frames /\ down' \subseteq Closes
             /\ boot' \in 1..MaxServer /\ seen' \subseteq 1..MaxSeq
             /\ skey' \in {k \in Keys : k[2] = boot'} \cup {NoKey}
             /\ streams' \in [Sids -> Workers \cup {None}]
             /\ worker' \in [Workers -> [at : {"idle", "connecting", "open"},
                                         sid : Sids]]
             /\ again' \subseteq done' /\ done' \subseteq up'
  BY <1>2, SendTyped DEF TypeOK, server, hist
<1>3. CASE Request(s)
  <2>1. conn' \in [Sids -> {"none", "accepted", "open", "ended"}]
        /\ local' \subseteq Sids
        /\ \A t \in local' : conn'[t] \in {"accepted", "open"}
    BY <1>3 DEF Request, TypeOK
  <2>2. QED
    BY <2>1, <1>2, <1>3 DEF Request, TypeOK, Cmds
<1>4. CASE Upload(s)
  <2>1. conn' \in [Sids -> {"none", "accepted", "open", "ended"}]
        /\ local' \subseteq Sids
        /\ \A t \in local' : conn'[t] \in {"accepted", "open"}
    BY <1>4 DEF Upload, TypeOK
  <2>2. QED
    BY <2>1, <1>2, <1>4 DEF Upload, TypeOK, Cmds
<1>5. CASE End(s)
  <2>1. conn' \in [Sids -> {"none", "accepted", "open", "ended"}]
        /\ local' \subseteq Sids
        /\ \A t \in local' : conn'[t] \in {"accepted", "open"}
    BY <1>5 DEF End, TypeOK
  <2>2. QED
    BY <2>1, <1>2, <1>5 DEF End, TypeOK, Cmds
<1>6. QED
  BY <1>1, <1>3, <1>4, <1>5

LEMMA SessionTyped ==
  ASSUME TypeOK,
         \/ Start \/ Leave \/ \E k \in Keys : Answered(k)
         \/ \E f \in down : Closed(f)
  PROVE  TypeOK'
<1>1. CASE Start
  BY <1>1, GatewayAssumption
     DEF TypeOK, Start, server, hist, Runs, Keys, NoKey
<1>2. CASE Leave
  BY <1>2 DEF TypeOK, Leave, net, server, hist
<1>3. ASSUME NEW k \in Keys, Answered(k) PROVE TypeOK'
  BY <1>3 DEF TypeOK, Answered, net, server, hist
<1>4. ASSUME NEW f \in down, Closed(f) PROVE TypeOK'
  BY <1>4 DEF TypeOK, Closed, net, server, hist
<1>5. QED
  BY <1>1, <1>2, <1>3, <1>4

LEMMA ServerTyped ==
  ASSUME TypeOK,
         \/ Restart \/ \E r \in Runs : Handshake(r)
         \/ \E f \in up : Receive(f)
         \/ \E w \in Workers : Connected(w) \/ Finish(w)
  PROVE  TypeOK'
<1>1. CASE Restart
  BY <1>1, GatewayAssumption
     DEF TypeOK, Restart, client, net, hist, Nobody, AllIdle, Idle, Sids
<1>2. ASSUME NEW r \in Runs, Handshake(r) PROVE TypeOK'
  BY <1>2 DEF TypeOK, Handshake, Exchanged, Keys, client, hist
<1>3. ASSUME NEW f \in up, Receive(f) PROVE TypeOK'
  <2>1. f.seq \in 1..MaxSeq /\ f.sid \in Sids /\ f \in up
    BY DEF TypeOK, Frames
  <2>2. ASSUME Handle(f)
        PROVE  /\ streams' \in [Sids -> Workers \cup {None}]
               /\ worker' \in [Workers ->
                     [at : {"idle", "connecting", "open"}, sid : Sids]]
    BY <2>1, <2>2 DEF Handle, TypeOK
  <2>3. /\ streams' \in [Sids -> Workers \cup {None}]
        /\ worker' \in [Workers ->
              [at : {"idle", "connecting", "open"}, sid : Sids]]
        /\ again' \subseteq done' /\ done' \subseteq up
    BY <1>3, <2>1, <2>2 DEF TypeOK, Receive, hist
  <2>4. seen' \subseteq 1..MaxSeq
    BY <1>3, <2>1 DEF TypeOK, Receive
  <2>5. UNCHANGED <<client, net, boot, skey>>
    BY <1>3 DEF Receive
  <2>6. QED
    BY <2>3, <2>4, <2>5 DEF TypeOK, client, net
<1>4. ASSUME NEW w \in Workers, Connected(w) PROVE TypeOK'
  BY <1>4 DEF TypeOK, Connected, client, net, hist
<1>5. ASSUME NEW w \in Workers, Finish(w) PROVE TypeOK'
  <2>1. worker[w].sid \in Sids
    BY DEF TypeOK
  <2>2. skey # NoKey => [key |-> skey, sid |-> worker[w].sid] \in Closes
    BY <2>1 DEF TypeOK, Closes
  <2>3. 1 \in Sids
    BY <2>1, GatewayAssumption DEF Sids
  <2>4. QED
    BY <1>5, <2>1, <2>2, <2>3 DEF TypeOK, Finish, client, hist, Idle
<1>6. QED
  BY <1>1, <1>2, <1>3, <1>4, <1>5

-----------------------------------------------------------------------------
(* Frames handled, and the table of streams.                               *)

LEMMA DoneHolds == IInv /\ [Next]_vars => Remembered' /\ HandledOnce'
<1> SUFFICES ASSUME IInv, [Next]_vars PROVE Remembered' /\ HandledOnce'
  OBVIOUS
<1>1. CASE UNCHANGED <<boot, seen, done, again>>
  BY <1>1 DEF IInv, Remembered, HandledOnce
<1>2. ASSUME NEW f \in up, Receive(f) PROVE Remembered' /\ HandledOnce'
  <2>1. CASE f.key = skey
    <3>1. f.key[2] = boot /\ boot \in 1..boot
      BY <1>2, <2>1, GatewayAssumption DEF IInv, TypeOK, Receive
    <3>2. f \notin done
      BY <3>1, <1>2 DEF IInv, Remembered, Receive
    <3>3. QED
      BY <1>2, <2>1, <3>1, <3>2
         DEF IInv, Remembered, HandledOnce, Receive
  <2>2. CASE f.key # skey
    BY <1>2, <2>2 DEF IInv, Remembered, HandledOnce, Receive, hist
  <2>3. QED
    BY <2>1, <2>2
<1>3. CASE Restart
  <2>1. \A f \in done : f.key[2] \in 1..(boot + 1) /\ f.key[2] # boot + 1
    BY DEF IInv, TypeOK, Remembered
  <2>2. QED
    BY <1>3, <2>1 DEF IInv, Remembered, HandledOnce, Restart, hist
<1>4. QED
  BY <1>1, <1>2, <1>3
     DEF Next, Start, Leave, Poll, Answered, Accept, Request, Upload, End,
         Closed, Handshake, Connected, Finish, vars, client, net, server,
         hist

LEMMA TableHolds == IInv /\ [Next]_vars => RegisteredOpen'
<1> SUFFICES ASSUME IInv, [Next]_vars PROVE RegisteredOpen'
  OBVIOUS
<1> USE DEF RegisteredOpen
<1>1. CASE UNCHANGED <<streams, worker>>
  BY <1>1 DEF IInv
<1>2. ASSUME NEW f \in up, Receive(f) PROVE RegisteredOpen'
  <2>1. CASE Handle(f)
    BY <2>1 DEF IInv, TypeOK, Handle, Idle
  <2>2. QED
    BY <1>2, <2>1 DEF IInv, Receive
<1>3. ASSUME NEW w \in Workers, Connected(w) PROVE RegisteredOpen'
  BY <1>3, GatewayAssumption DEF IInv, TypeOK, Connected
<1>4. ASSUME NEW w \in Workers, Finish(w) PROVE RegisteredOpen'
  BY <1>4, GatewayAssumption DEF IInv, TypeOK, Finish
<1>5. CASE Restart
  BY <1>5 DEF Restart, Nobody
<1>6. QED
  BY <1>1, <1>2, <1>3, <1>4, <1>5
     DEF Next, Start, Leave, Poll, Answered, Accept, Request, Upload, End,
         Closed, Handshake, vars, client, net, server

LEMMA StepHolds == IInv /\ [Next]_vars => IInv'
<1> SUFFICES ASSUME IInv, [Next]_vars PROVE IInv'
  OBVIOUS
<1>1. CASE UNCHANGED vars
  BY <1>1 DEF vars, client, net, server, hist, IInv, TypeOK, Remembered,
              HandledOnce, RegisteredOpen
<1>2. TypeOK'
  <2>1. CASE Poll
    BY <2>1, <1>1 DEF Poll, IInv
  <2>2. QED
    BY <1>1, <2>1, ClientTyped, SessionTyped, ServerTyped DEF Next, IInv
<1>3. QED
  BY <1>2, DoneHolds, TableHolds DEF IInv

(* Type correctness: the keys the server uses are always those of its own  *)
(* start.                                                                  *)
THEOREM TypesHold == Spec => []TypeOK
<1>1. Spec => []IInv
  BY InitHolds, StepHolds, PTL DEF Spec
<1>2. IInv => TypeOK
  BY DEF IInv
<1>3. QED
  BY <1>1, <1>2, PTL

(* HandledOnce: no frame is handled twice, whatever is repeated, however   *)
(* the handshakes and restarts come.                                       *)
THEOREM FramesHandledOnce == Spec => []HandledOnce
<1>1. Spec => []IInv
  BY InitHolds, StepHolds, PTL DEF Spec
<1>2. IInv => HandledOnce
  BY DEF IInv
<1>3. QED
  BY <1>1, <1>2, PTL

(* RegisteredOpen: what is registered under a number is the socket of a    *)
(* thread that runs.                                                       *)
THEOREM RegisteredAreOpen == Spec => []RegisteredOpen
<1>1. Spec => []IInv
  BY InitHolds, StepHolds, PTL DEF Spec
<1>2. IInv => RegisteredOpen
  BY DEF IInv
<1>3. QED
  BY <1>1, <1>2, PTL
=============================================================================
