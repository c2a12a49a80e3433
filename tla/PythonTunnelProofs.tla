------------------------- MODULE PythonTunnelProofs -------------------------
(***************************************************************************)
(* What holds of the two halves of aegs_client.py, for any number of       *)
(* starts, connections and clients on a host: the tunnel that it and       *)
(* aegs_server.py make (StreamTunnel), and the Windows proxy settings      *)
(* (SystemProxy).  The two share no state.                                 *)
(***************************************************************************)
EXTENDS StreamTunnel, SystemProxy, FiniteSetTheorems, TLAPS

(* Everything that has a stream number has that of a connection: the       *)
(* connection's own.  A started client has a start.                        *)
Numbered ==
  /\ ready => epoch \in Epochs
  /\ \A c \in Conns :
        pc[c] \in {"accepted", "open", "closing"} => sid[c] = c[2]
  /\ \A s \in Sids :
        streams[s] # None => streams[s][1] = epoch /\ streams[s][2] = s
  /\ \A f \in up :
        f.cmd # "CHAFF" => f.conn \in Conns /\ f.sid = f.conn[2]
  /\ \A f \in down : f.sid = f.from[2]
  /\ \A w \in Workers :
        worker[w] # Idle => worker[w].sid = worker[w].conn[2]

(* A thread that has not registered yet cannot have been closed.           *)
Unshut == \A w \in Workers : worker[w].state = "dial" => ~worker[w].shut

Below == taken \subseteq 1..max_seq

Table  == Unshut /\ RegisteredAlive
Filter == Below /\ RecentKnown
IInv   == TypeOK /\ Numbered /\ Table /\ Filter

-----------------------------------------------------------------------------
(* The window: only byte 0 and shifts by less than a byte matter.          *)

LEMMA Division ==
  ASSUME NEW n \in Nat
  PROVE  /\ n % ByteBits \in 0..(ByteBits - 1)
         /\ n < ByteBits => n \div ByteBits = 0 /\ n % ByteBits = n
<1>1. ByteBits \in Nat \ {0}
  BY WindowPositive
<1>2. n % ByteBits \in 0..(ByteBits - 1)
  BY <1>1
<1>3. CASE n < ByteBits
  BY <1>1, <1>3
<1>4. QED
  BY <1>2, <1>3

LEMMA WindowIsWide == Bytes * ByteBits >= ByteBits
BY WindowPositive

Windows == [0..Bytes - 1 -> SUBSET (0..ByteBits - 1)]

LEMMA MarkTyped ==
  ASSUME NEW win \in Windows, NEW i, NEW x \in 0..ByteBits - 1
  PROVE  Mark(win, i, x) \in Windows
BY DEF Mark, Windows

LEMMA RecordTyped ==
  ASSUME window \in Windows, max_seq \in 0..MaxSeq,
         NEW seq \in 1..MaxSeq, taken \subseteq 1..MaxSeq, Record(seq)
  PROVE  /\ window' \in Windows /\ max_seq' \in 0..MaxSeq
         /\ taken' \subseteq 1..MaxSeq
<1>1. max_seq' \in 0..MaxSeq /\ taken' \subseteq 1..MaxSeq
  BY WindowPositive DEF Record
<1>2. CASE seq > max_seq
  <2>1. EmptyWindow \in Windows /\ Shifted(seq - max_seq) \in Windows
    BY DEF EmptyWindow, Shifted, Windows
  <2>2. 0 \in 0..ByteBits - 1
    BY WindowPositive
  <2>3. QED
    BY <1>1, <1>2, <2>1, <2>2, MarkTyped DEF Record
<1>3. CASE ~(seq > max_seq)
  <2>1. max_seq - seq \in Nat
    BY <1>3, WindowPositive
  <2>2. (max_seq - seq) % ByteBits \in 0..ByteBits - 1
    BY <2>1, Division
  <2>3. QED
    BY <1>1, <1>3, <2>2, MarkTyped DEF Record
<1>4. QED
  BY <1>2, <1>3

(* A number fewer than a byte behind the newest stays in byte 0.           *)
LEMMA RecordKnown ==
  ASSUME window \in Windows, max_seq \in 0..MaxSeq, Filter,
         NEW seq \in 1..MaxSeq, Record(seq)
  PROVE  Filter'
<1>1. Below'
  BY WindowPositive DEF Filter, Below, Record
<1>2. 0 \in DOMAIN window /\ 0 \in 0..ByteBits - 1
  BY WindowPositive DEF Windows
<1>3. ASSUME NEW s \in taken', max_seq' - s < ByteBits
      PROVE  max_seq' - s \in window'[0]
  <2>1. CASE seq > max_seq
    <3> DEFINE n == seq - max_seq
    <3>1. /\ max_seq' = seq /\ n \in Nat \ {0}
          /\ window' = Mark(IF n >= Bytes * ByteBits THEN EmptyWindow
                                                     ELSE Shifted(n), 0, 0)
      BY <2>1 DEF Record
    <3>2. CASE s = seq
      <4>1. 0 \in window'[0]
        BY <3>1, <1>2 DEF Mark, EmptyWindow, Shifted, Windows
      <4>2. QED
        BY <3>1, <3>2, <4>1
    <3>3. CASE s # seq
      <4>1. s \in taken /\ s \in 1..max_seq
        BY <3>3, <1>3 DEF Record, Filter, Below
      <4>2. n < ByteBits /\ max_seq - s < ByteBits /\ ~(n >= Bytes * ByteBits)
        BY <1>3, <3>1, <4>1, WindowIsWide, WindowPositive
      <4>3. max_seq - s \in window[0]
        BY <4>1, <4>2 DEF Filter, RecentKnown
      <4>4. n \div ByteBits = 0 /\ n % ByteBits = n
        BY <3>1, <4>2, Division
      <4>5. seq - s \in 0..ByteBits - 1 /\ (seq - s) - n = max_seq - s
        BY <1>3, <3>1, <4>1, WindowPositive
      <4>6. seq - s \in Shifted(n)[0]
        BY <4>3, <4>4, <4>5, <1>2 DEF Shifted, Windows
      <4>7. QED
        BY <3>1, <4>2, <4>6, <1>2 DEF Mark, Shifted, Windows
    <3>4. QED
      BY <3>2, <3>3
  <2>2. CASE ~(seq > max_seq)
    <3> DEFINE diff == max_seq - seq
    <3>1. /\ max_seq' = max_seq /\ diff \in Nat
          /\ window' = Mark(window, diff \div ByteBits, diff % ByteBits)
      BY <2>2, WindowPositive DEF Record
    <3>2. CASE s = seq
      <4>1. diff \div ByteBits = 0 /\ diff % ByteBits = diff
        BY <1>3, <3>1, <3>2, Division
      <4>2. QED
        BY <3>1, <3>2, <4>1, <1>2 DEF Mark, Windows
    <3>3. CASE s # seq
      <4>1. s \in taken
        BY <3>3, <1>3 DEF Record
      <4>2. max_seq - s \in window[0]
        BY <1>3, <3>1, <4>1 DEF Filter, RecentKnown
      <4>3. QED
        BY <3>1, <4>2, <1>2 DEF Mark, Windows
    <3>4. QED
      BY <3>2, <3>3
  <2>3. QED
    BY <2>1, <2>2
<1>4. QED
  BY <1>1, <1>3 DEF Filter, RecentKnown

-----------------------------------------------------------------------------
(* Types and numbers.                                                      *)

LEMMA InitHolds == Init => IInv
<1> SUFFICES ASSUME Init PROVE IInv
  OBVIOUS
<1>1. TypeOK
  <2>1. EmptyWindow \in [0..Bytes - 1 -> SUBSET (0..ByteBits - 1)]
    BY DEF EmptyWindow
  <2>2. Idle \in Thread
    BY DEF Thread
  <2>3. /\ 0 \in 0..MaxEpoch /\ 0 \in 0..MaxSeq /\ 0 \in 0..MaxConn
    BY WindowPositive
  <2>4. QED
    BY <2>1, <2>2, <2>3 DEF Init, TypeOK
<1>2. Numbered /\ Table /\ Filter
  BY DEF Init, Numbered, Table, Unshut, RegisteredAlive, Idle, Filter, Below,
         RecentKnown
<1>3. QED
  BY <1>1, <1>2 DEF IInv

TypesAndNumbers == TypeOK /\ Numbered

LEMMA ConnTyped ==
  ASSUME NEW c \in Conns
  PROVE  c[1] \in Epochs /\ c[2] \in Sids /\ c[2] \in 1..MaxConn
BY DEF Conns, Sids

LEMMA EmitHolds ==
  ASSUME TypesAndNumbers, epoch \in Epochs,
         NEW s \in 0..MaxConn, NEW cmd, NEW c,
         \/ /\ cmd = "CHAFF" /\ c = None
         \/ /\ cmd \in {"CONNECT", "DATA", "CLOSE"} /\ c \in Conns
            /\ s = c[2],
         Emit(s, cmd, c)
  PROVE  /\ tx_seq' \in 0..MaxSeq /\ up' \in SUBSET Frame
         /\ \A f \in up' :
               f.cmd # "CHAFF" => f.conn \in Conns /\ f.sid = f.conn[2]
<1>1. PICK seq \in 1..MaxSeq :
        up' \subseteq up \cup {[key |-> epoch, seq |-> seq, sid |-> s,
                               cmd |-> cmd, conn |-> c]}
  BY DEF Emit
<1> DEFINE new == [key |-> epoch, seq |-> seq, sid |-> s, cmd |-> cmd,
                   conn |-> c]
<1>2. /\ new \in Frame
      /\ new.cmd # "CHAFF" => new.conn \in Conns /\ new.sid = new.conn[2]
  BY DEF Frame
<1>3. tx_seq' \in 0..MaxSeq
  BY WindowPositive DEF Emit, TypesAndNumbers, TypeOK
<1>4. QED
  BY <1>1, <1>2, <1>3 DEF TypesAndNumbers, TypeOK, Numbered

(* What a step of a connection's thread leaves alone besides what Emit     *)
(* names.                                                                  *)
LEMMA ThreadHolds ==
  ASSUME TypesAndNumbers, NEW c \in Conns,
         Request(c) \/ Forward(c) \/ HangUp(c) \/ SendClose(c)
  PROVE  TypesAndNumbers'
<1>1. /\ c[1] = epoch /\ c[1] \in Epochs /\ c[2] \in Sids /\ sid[c] = c[2]
      /\ sid[c] \in 0..MaxConn
  BY ConnTyped DEF TypesAndNumbers, TypeOK, Numbered, Request, Forward, HangUp,
                   SendClose, Live
<1>2. CASE HangUp(c)
  BY <1>1, <1>2 DEF TypesAndNumbers, TypeOK, Numbered, HangUp, client, network,
                    server, filter
<1>3. ASSUME NEW cmd \in {"CONNECT", "DATA", "CLOSE"},
             Emit(sid[c], cmd, c), UNCHANGED streams,
             pc' \in [Conns ->
                      {"none", "accepted", "open", "closing", "closed"}],
             \A d \in Conns : pc'[d] \in {"accepted", "open", "closing"} =>
                pc[d] \in {"accepted", "open", "closing"}
      PROVE  TypesAndNumbers'
  <2>1. /\ tx_seq' \in 0..MaxSeq /\ up' \in SUBSET Frame
        /\ \A f \in up' :
              f.cmd # "CHAFF" => f.conn \in Conns /\ f.sid = f.conn[2]
    BY <1>1, <1>3, EmitHolds
  <2>2. UNCHANGED <<epoch, ready, accepted, sid, inits, resps, down, server,
                    reinstalled, streams>>
    BY <1>3 DEF Emit
  <2>3. TypeOK'
    BY <2>1, <2>2, <1>3 DEF TypesAndNumbers, TypeOK, server, filter
  <2>4. Numbered'
    BY <2>1, <2>2, <1>3 DEF TypesAndNumbers, Numbered, server
  <2>5. QED
    BY <2>3, <2>4 DEF TypesAndNumbers
<1>4. CASE Request(c)
  BY <1>3, <1>4 DEF Request, TypesAndNumbers, TypeOK
<1>5. CASE Forward(c)
  BY <1>3, <1>5 DEF Forward, TypesAndNumbers, TypeOK
<1>6. CASE SendClose(c)
  BY <1>3, <1>6 DEF SendClose, TypesAndNumbers, TypeOK
<1>7. QED
  BY <1>2, <1>4, <1>5, <1>6

LEMMA ClientHolds ==
  ASSUME TypesAndNumbers,
         \/ StartClient \/ PerformHandshake \/ Accept \/ Chaff
         \/ \E f \in down : Receive(f) \/ Lose(f)
  PROVE  TypesAndNumbers'
<1>1. CASE StartClient
  <2>1. /\ epoch' \in 0..MaxEpoch /\ epoch' \in Epochs
        /\ 0 \in 0..MaxSeq /\ 0 \in 0..MaxConn
    BY <1>1, WindowPositive
       DEF TypesAndNumbers, TypeOK, StartClient, Epochs
  <2>2. /\ pc' \in [Conns ->
                   {"none", "accepted", "open", "closing", "closed"}]
        /\ \A c \in Conns : pc'[c] \in {"none", "closed"}
    BY <1>1 DEF StartClient
  <2>3. /\ streams' \in [Sids -> Conns \cup {None}]
        /\ \A s \in Sids : streams'[s] = None
    BY <1>1 DEF StartClient
  <2>4. /\ inits' \in SUBSET Epochs /\ ready' = FALSE
        /\ tx_seq' = 0 /\ accepted' = 0
        /\ UNCHANGED <<sid, resps, up, down, server, reinstalled>>
    BY <1>1, <2>1 DEF StartClient, TypesAndNumbers, TypeOK
  <2>5. TypeOK'
    BY <2>1, <2>2, <2>3, <2>4
       DEF TypesAndNumbers, TypeOK, server, filter
  <2>6. Numbered'
    BY <2>2, <2>3, <2>4 DEF TypesAndNumbers, Numbered, server
  <2>7. QED
    BY <2>5, <2>6 DEF TypesAndNumbers
<1>2. CASE PerformHandshake
  BY <1>2 DEF TypesAndNumbers, TypeOK, Numbered, PerformHandshake, conns,
              network, server, filter
<1>3. CASE Accept
  <2> DEFINE s == accepted + 1
             c == <<epoch, accepted + 1>>
  <2>1. /\ epoch \in Epochs /\ s \in 1..MaxConn /\ s \in Sids
        /\ s \in 0..MaxConn
    BY <1>3, WindowPositive
       DEF Accept, TypesAndNumbers, TypeOK, Numbered, Sids
  <2>2. c \in Conns /\ c[1] = epoch /\ c[2] = s
    BY <2>1 DEF Conns
  <2>3. /\ accepted' = s /\ sid' = [sid EXCEPT ![c] = s]
        /\ streams' = [streams EXCEPT ![s] = c]
        /\ pc' = [pc EXCEPT ![c] = "accepted"]
        /\ UNCHANGED <<epoch, ready, tx_seq, network, server, reinstalled>>
    BY <1>3 DEF Accept, StreamId
  <2> HIDE DEF c, s
  <2>4. TypeOK'
    BY <2>1, <2>2, <2>3
       DEF TypesAndNumbers, TypeOK, network, server, filter
  <2>5. Numbered'
    BY <2>1, <2>2, <2>3
       DEF TypesAndNumbers, TypeOK, Numbered, network, server
  <2>6. QED
    BY <2>4, <2>5 DEF TypesAndNumbers
<1>4. CASE Chaff
  <2>1. 0 \in 0..MaxConn
    BY WindowPositive
  <2>2. /\ tx_seq' \in 0..MaxSeq /\ up' \in SUBSET Frame
        /\ \A f \in up' :
              f.cmd # "CHAFF" => f.conn \in Conns /\ f.sid = f.conn[2]
    BY <1>4, <2>1, EmitHolds DEF Chaff, TypesAndNumbers, Numbered
  <2>3. UNCHANGED <<epoch, ready, accepted, sid, inits, resps, down, server,
                    reinstalled, pc, streams>>
    BY <1>4 DEF Chaff, Emit
  <2>4. QED
    BY <2>2, <2>3 DEF TypesAndNumbers, TypeOK, Numbered, server, filter
<1>5. ASSUME NEW f \in down, Receive(f) PROVE TypesAndNumbers'
  <2>1. f.sid \in Sids
    BY DEF TypesAndNumbers, TypeOK, Reply
  <2>2. QED
    BY <1>5, <2>1 DEF TypesAndNumbers, TypeOK, Numbered, Receive, client,
                      network, server, filter
<1>6. ASSUME NEW f \in down, Lose(f) PROVE TypesAndNumbers'
  BY <1>6 DEF TypesAndNumbers, TypeOK, Numbered, Lose, client, conns,
              server, filter
<1>7. QED
  BY <1>1, <1>2, <1>3, <1>4, <1>5, <1>6

(* The server, whose workers must be in a state that fits the table.       *)
LEMMA ServerHolds ==
  ASSUME TypesAndNumbers, Table,
         \/ \E e \in Epochs : InstallKeys(e)
         \/ TakeOver
         \/ \E f \in up : ProcessFrame(f)
  PROVE  TypesAndNumbers'
<1>1. EmptyWindow \in [0..Bytes - 1 -> SUBSET (0..ByteBits - 1)]
  BY DEF EmptyWindow
<1>2. ASSUME NEW e \in Epochs, InstallKeys(e) PROVE TypesAndNumbers'
  <2>1. e \in 0..MaxEpoch /\ 0 \in 0..MaxSeq
    BY WindowPositive DEF Epochs
  <2>2. QED
    BY <1>1, <1>2, <2>1 DEF TypesAndNumbers, TypeOK, Numbered, InstallKeys,
                            client, conns
<1>3. CASE TakeOver
  <2>1. 0 \in 0..MaxEpoch /\ 0 \in 0..MaxSeq
    BY WindowPositive
  <2>2. QED
    BY <1>1, <1>3, <2>1 DEF TypesAndNumbers, TypeOK, Numbered, TakeOver,
                            client, conns, network
<1>4. ASSUME NEW f \in up, ProcessFrame(f) PROVE TypesAndNumbers'
  <2>1. /\ f \in Frame /\ f.seq \in 1..MaxSeq
        /\ f.cmd # "CHAFF" => /\ f.conn \in Conns /\ f.sid = f.conn[2]
                             /\ f.sid \in Sids
    BY ConnTyped DEF TypesAndNumbers, TypeOK, Numbered, Frame
  <2>2. /\ window' \in Windows /\ max_seq' \in 0..MaxSeq
        /\ taken' \subseteq 1..MaxSeq
    BY <1>4, <2>1, RecordTyped
       DEF ProcessFrame, TypesAndNumbers, TypeOK, Windows
  <2>3. /\ table' \in [Sids -> Workers \cup {None}]
        /\ worker' \in [Workers -> Thread]
        /\ \A w \in Workers :
              worker'[w] # Idle => worker'[w].sid = worker'[w].conn[2]
    <3>1. CASE UNCHANGED <<table, worker>>
      BY <3>1 DEF TypesAndNumbers, TypeOK, Numbered
    <3>2. CASE f.cmd = "CONNECT" /\ Spawn(f)
      <4>1. PICK w \in Workers :
              worker' = [worker EXCEPT ![w] =
                 [state |-> "dial", sid |-> f.sid, conn |-> f.conn,
                  shut |-> FALSE]]
        BY <3>2 DEF Spawn
      <4>2. [state |-> "dial", sid |-> f.sid, conn |-> f.conn,
             shut |-> FALSE] \in Thread
        BY <2>1, <3>2 DEF Thread
      <4>3. QED
        BY <2>1, <3>2, <4>1, <4>2
           DEF Spawn, TypesAndNumbers, TypeOK, Numbered
    <3>3. CASE f.cmd = "CLOSE" /\ CloseStream(f)
      <4>1. CASE table[f.sid] = None
        BY <3>1, <3>3, <4>1 DEF CloseStream
      <4>2. CASE table[f.sid] # None
        <5>1. PICK w \in Workers : w = table[f.sid]
          BY <2>1, <3>3, <4>2 DEF TypesAndNumbers, TypeOK
        <5>2. worker[w].state = "open" /\ worker[w] # Idle
          BY <2>1, <3>3, <4>2, <5>1 DEF Table, RegisteredAlive, Idle
        <5>3. /\ worker' = [worker EXCEPT ![w].shut = TRUE]
              /\ table' = [table EXCEPT ![f.sid] = None]
          BY <3>3, <4>2, <5>1 DEF CloseStream
        <5>4. /\ worker[w] \in [state : {"dial", "open", "end"}, sid : Sids,
                                 conn : Conns, shut : BOOLEAN]
              /\ worker[w].sid = worker[w].conn[2]
          BY <5>2 DEF TypesAndNumbers, TypeOK, Numbered, Thread
        <5>5. /\ worker'[w] \in Thread
              /\ worker'[w].sid = worker'[w].conn[2]
          BY <5>3, <5>4 DEF Thread, TypesAndNumbers, TypeOK
        <5>6. QED
          BY <5>3, <5>5 DEF TypesAndNumbers, TypeOK, Numbered
      <4>3. QED
        BY <4>1, <4>2
    <3>4. QED
      BY <1>4, <3>1, <3>2, <3>3 DEF ProcessFrame, HandleClientPayload
  <2>4. UNCHANGED <<client, conns, network, key, reinstalled>>
    BY <1>4 DEF ProcessFrame
  <2>5. TypeOK'
    BY <2>2, <2>3, <2>4
       DEF TypesAndNumbers, TypeOK, Windows, client, conns, network
  <2>6. Numbered'
    BY <2>3, <2>4 DEF TypesAndNumbers, Numbered, client, conns, network
  <2>7. QED
    BY <2>5, <2>6 DEF TypesAndNumbers
<1>5. QED
  BY <1>2, <1>3, <1>4

LEMMA AnswerHolds ==
  ASSUME TypesAndNumbers, NEW w \in Workers, worker[w] # Idle,
         NEW cmd \in {"DATA", "CLOSE"}, Answer(w, cmd)
  PROVE  down' \in SUBSET Reply /\ \A f \in down' : f.sid = f.from[2]
<1> DEFINE new == [key |-> key, sid |-> worker[w].sid, cmd |-> cmd,
                   from |-> worker[w].conn]
<1>1. /\ worker[w].sid \in Sids /\ worker[w].conn \in Conns
      /\ worker[w].sid = worker[w].conn[2]
  BY DEF TypesAndNumbers, TypeOK, Numbered, Thread
<1>2. key # 0 => new \in Reply
  BY <1>1, WindowPositive DEF Reply, Epochs, TypesAndNumbers, TypeOK
<1>3. new.sid = new.from[2]
  BY <1>1
<1> HIDE DEF new
<1>4. down' = (IF key # 0 /\ Cardinality(down) < MaxDown
               THEN down \cup {new} ELSE down)
  BY DEF Answer, new
<1>5. QED
  BY <1>2, <1>3, <1>4 DEF TypesAndNumbers, TypeOK, Numbered

LEMMA WorkerHolds ==
  ASSUME TypesAndNumbers, NEW w \in Workers,
         Register(w) \/ RelayBack(w) \/ EndWorker(w) \/ SayClosed(w)
  PROVE  TypesAndNumbers'
<1>1. worker[w].state \in {"dial", "open", "end"} /\ worker[w] # Idle
  BY DEF Register, RelayBack, EndWorker, SayClosed, Idle
<1>2. /\ worker[w] \in [state : {"dial", "open", "end"}, sid : Sids,
                         conn : Conns, shut : BOOLEAN]
      /\ worker[w].sid \in Sids /\ worker[w].sid = worker[w].conn[2]
  BY <1>1 DEF TypesAndNumbers, TypeOK, Numbered, Thread
<1>3. ASSUME NEW t \in {"open", "end"},
             worker' = [worker EXCEPT ![w].state = t]
      PROVE  /\ worker' \in [Workers -> Thread]
             /\ \A v \in Workers :
                   worker'[v] # Idle => worker'[v].sid = worker'[v].conn[2]
  <2>1. worker'[w] \in Thread /\ worker'[w].sid = worker'[w].conn[2]
    BY <1>2, <1>3 DEF Thread, TypesAndNumbers, TypeOK
  <2>2. QED
    BY <1>3, <2>1 DEF TypesAndNumbers, TypeOK, Numbered
<1>4. CASE Register(w)
  BY <1>2, <1>3, <1>4 DEF TypesAndNumbers, TypeOK, Numbered, Register,
                          client, conns, network, filter
<1>5. CASE EndWorker(w)
  BY <1>2, <1>3, <1>5 DEF TypesAndNumbers, TypeOK, Numbered, EndWorker,
                          Unregister, client, conns, network, filter
<1>6. CASE RelayBack(w)
  <2>1. down' \in SUBSET Reply /\ \A f \in down' : f.sid = f.from[2]
    BY <1>1, <1>6, AnswerHolds DEF RelayBack
  <2>2. QED
    BY <1>6, <2>1 DEF TypesAndNumbers, TypeOK, Numbered, RelayBack, client,
                      conns, server, filter
<1>7. CASE SayClosed(w)
  <2>1. down' \in SUBSET Reply /\ \A f \in down' : f.sid = f.from[2]
    BY <1>1, <1>7, AnswerHolds DEF SayClosed
  <2>2. Idle \in Thread
    BY DEF Thread
  <2>3. QED
    BY <1>7, <2>1, <2>2 DEF TypesAndNumbers, TypeOK, Numbered, SayClosed,
                            client, conns, filter
<1>8. QED
  BY <1>4, <1>5, <1>6, <1>7

-----------------------------------------------------------------------------
(* The table and the filter.                                               *)

LEMMA TableHolds == IInv /\ [Next]_vars => Table'
<1> SUFFICES ASSUME IInv, [Next]_vars PROVE Table'
  OBVIOUS
<1>1. CASE UNCHANGED <<table, worker>>
  BY <1>1 DEF IInv, Table, Unshut, RegisteredAlive
<1>2. ASSUME NEW f \in up, ProcessFrame(f) PROVE Table'
  <2>1. f.cmd # "CHAFF" => f.sid \in Sids
    BY ConnTyped DEF IInv, Numbered
  <2>2. CASE f.cmd = "CONNECT" /\ Spawn(f)
    <3>1. PICK w \in Workers :
            /\ worker[w] = Idle
            /\ worker' = [worker EXCEPT ![w] =
                 [state |-> "dial", sid |-> f.sid, conn |-> f.conn,
                  shut |-> FALSE]]
            /\ UNCHANGED table
      BY <2>2 DEF Spawn
    <3>2. \A s \in Sids : table[s] # w
      BY <3>1, NonePlain DEF IInv, Table, RegisteredAlive, Idle
    <3>3. QED
      BY <3>1, <3>2 DEF IInv, TypeOK, Table, Unshut, RegisteredAlive
  <2>3. CASE f.cmd = "CLOSE" /\ CloseStream(f)
    <3>1. CASE table[f.sid] = None
      BY <1>1, <2>3, <3>1 DEF CloseStream
    <3>2. CASE table[f.sid] # None
      <4>1. PICK w \in Workers : w = table[f.sid]
        BY <2>1, <2>3, <3>2 DEF IInv, TypeOK
      <4>2. worker[w].state = "open" /\ worker[w].sid = f.sid
        BY <2>1, <2>3, <3>2, <4>1 DEF IInv, Table, RegisteredAlive
      <4>3. /\ worker' = [worker EXCEPT ![w].shut = TRUE]
            /\ table' = [table EXCEPT ![f.sid] = None]
        BY <2>3, <3>2, <4>1 DEF CloseStream
      <4>4. \A s \in Sids : table'[s] # None => table'[s] # w
        BY <4>2, <4>3, NonePlain DEF IInv, TypeOK, Table, RegisteredAlive
      <4>5. QED
        BY <4>2, <4>3, <4>4 DEF IInv, TypeOK, Table, Unshut, RegisteredAlive
    <3>3. QED
      BY <3>1, <3>2
  <2>4. QED
    BY <1>1, <1>2, <2>2, <2>3 DEF ProcessFrame, HandleClientPayload
<1>3. ASSUME NEW w \in Workers, Register(w) PROVE Table'
  BY <1>3, NonePlain
     DEF IInv, TypeOK, Table, Unshut, RegisteredAlive, Register
<1>4. ASSUME NEW w \in Workers, EndWorker(w) PROVE Table'
  BY <1>4, NonePlain
     DEF IInv, TypeOK, Table, Unshut, RegisteredAlive, EndWorker, Unregister
<1>5. ASSUME NEW w \in Workers, SayClosed(w) PROVE Table'
  BY <1>5, NonePlain
     DEF IInv, TypeOK, Table, Unshut, RegisteredAlive, SayClosed, Idle
<1>6. QED
  BY <1>1, <1>2, <1>3, <1>4, <1>5
     DEF Next, StartClient, PerformHandshake, Accept, Chaff, Request, Forward,
         HangUp, SendClose, Emit, Receive, Lose, InstallKeys, TakeOver,
         RelayBack, Poll, vars, server

LEMMA FilterHolds == IInv /\ [Next]_vars => Filter'
<1> SUFFICES ASSUME IInv, [Next]_vars PROVE Filter'
  OBVIOUS
<1>1. CASE UNCHANGED filter
  BY <1>1 DEF IInv, Filter, Below, RecentKnown, filter
<1>2. CASE taken' = {}
  BY <1>2 DEF Filter, Below, RecentKnown
<1>3. ASSUME NEW f \in up, ProcessFrame(f) PROVE Filter'
  <2>1. f.seq \in 1..MaxSeq /\ Record(f.seq)
    BY <1>3 DEF IInv, TypeOK, Frame, ProcessFrame
  <2>2. QED
    BY <2>1, RecordKnown DEF IInv, TypeOK, Windows
<1>4. QED
  BY <1>1, <1>2, <1>3
     DEF Next, StartClient, PerformHandshake, Accept, Chaff, Request, Forward,
         HangUp, SendClose, Emit, Receive, Lose, InstallKeys, TakeOver,
         Register, RelayBack, EndWorker, SayClosed, Poll, vars, server

LEMMA StepHolds == IInv /\ [Next]_vars => IInv'
<1> SUFFICES ASSUME IInv, [Next]_vars PROVE IInv'
  OBVIOUS
<1>1. TypesAndNumbers /\ Table
  BY DEF IInv, TypesAndNumbers
<1>2. CASE UNCHANGED vars
  <2>1. TypeOK' /\ Numbered'
    BY <1>1, <1>2 DEF TypesAndNumbers, TypeOK, Numbered, vars, client, conns,
                      network, server, filter
  <2>2. QED
    BY <2>1, TableHolds, FilterHolds DEF IInv
<1>3. CASE Next
  <2>1. TypesAndNumbers'
    BY <1>1, <1>2, <1>3, ClientHolds, ThreadHolds, ServerHolds, WorkerHolds
       DEF Next, Poll, IInv, TypesAndNumbers
  <2>2. QED
    BY <2>1, TableHolds, FilterHolds DEF IInv, TypesAndNumbers
<1>4. QED
  BY <1>2, <1>3

-----------------------------------------------------------------------------
LEMMA Invariant == Spec => []IInv
BY InitHolds, StepHolds, PTL DEF Spec

(* Type correctness; byte 0 of the window never holds more than a byte.    *)
THEOREM TypesHold == Spec => []TypeOK
<1>1. IInv => TypeOK
  BY DEF IInv
<1>2. QED
  BY <1>1, Invariant, PTL

(* RecentKnown: whatever the size of the window, and although its shift    *)
(* carries bits the wrong way, no number is forgotten within a byte.       *)
THEOREM RecentStaysKnown == Spec => []RecentKnown
<1>1. IInv => RecentKnown
  BY DEF IInv, Filter
<1>2. QED
  BY <1>1, Invariant, PTL

(* RegisteredAlive: every entry of the server's table is a thread that     *)
(* relays.                                                                 *)
THEOREM EntriesAlive == Spec => []RegisteredAlive
<1>1. IInv => RegisteredAlive
  BY DEF IInv, Table
<1>2. QED
  BY <1>1, Invariant, PTL

(* StreamsApart: data reach the other end of their stream, or the          *)
(* connection of the same number in another start.                         *)
THEOREM StreamsStayApart == Spec => []StreamsApart
<1>1. ASSUME IInv, NEW f \in up, f.cmd = "DATA", table[f.sid] # None
      PROVE  LET c == worker[table[f.sid]].conn IN
             c = f.conn \/ (c[1] # f.conn[1] /\ c[2] = f.conn[2])
  <2>1. f.conn \in Conns /\ f.sid = f.conn[2] /\ f.sid \in Sids
    BY <1>1, ConnTyped DEF IInv, Numbered
  <2>2. PICK w \in Workers : w = table[f.sid]
    BY <1>1, <2>1 DEF IInv, TypeOK
  <2>3. worker[w].state = "open" /\ worker[w].sid = f.sid
    BY <1>1, <2>1, <2>2 DEF IInv, Table, RegisteredAlive
  <2>4. worker[w].conn \in Conns /\ worker[w].conn[2] = f.sid
    BY <1>1, <2>3 DEF IInv, TypeOK, Numbered, Thread, Idle
  <2>5. QED
    BY <2>1, <2>2, <2>4 DEF Conns
<1>2. ASSUME IInv, NEW f \in down, streams[f.sid] # None
      PROVE  LET c == streams[f.sid] IN
             c = f.from \/ (c[1] # f.from[1] /\ c[2] = f.from[2])
  <2>1. f.from \in Conns /\ f.sid = f.from[2] /\ f.sid \in Sids
    BY <1>2 DEF IInv, TypeOK, Numbered, Reply
  <2>2. streams[f.sid] \in Conns /\ streams[f.sid][2] = f.sid
    BY <1>2, <2>1 DEF IInv, TypeOK, Numbered
  <2>3. QED
    BY <2>1, <2>2 DEF Conns
<1>3. IInv => StreamsApart
  BY <1>1, <1>2 DEF StreamsApart
<1>4. QED
  BY <1>3, Invariant, PTL

-----------------------------------------------------------------------------
(* One worker for each connection.                                         *)

(* A connection sends its CONNECT once, under the keys of its start.       *)
Connects(f, c) == f.cmd = "CONNECT" /\ f.conn = c

Opened ==
  /\ \A c \in Conns :
        pc[c] # "none" => \/ c[1] < epoch
                          \/ c[1] = epoch /\ c[2] <= accepted
  /\ \A f \in up : f.cmd # "CHAFF" => f.key = f.conn[1]
  /\ \A c \in Conns : \A f, g \in up :
        Connects(f, c) /\ Connects(g, c) =>
          f = g /\ pc[c] \notin {"none", "accepted"}

(* A worker of the present keys was spawned by its connection's CONNECT,   *)
(* whose number the present filter has taken, if the keys are installed    *)
(* for the first time.  A second one was spawned by the same frame.        *)
ByConnect ==
  /\ key # 0 => key \in resps
  /\ \A w \in Workers : worker[w] # Idle =>
       /\ worker[w].conn[1] \in resps
       /\ worker[w].conn[1] = key /\ key \notin reinstalled =>
            \E f \in up : Connects(f, worker[w].conn) /\ f.seq \in taken
  /\ \A v, w \in Workers :
       /\ v # w /\ worker[v] # Idle /\ worker[w] # Idle
       /\ worker[v].conn = worker[w].conn
       /\ worker[w].conn[1] = key /\ key \notin reinstalled
       => \E f \in up : /\ Connects(f, worker[w].conn)
                        /\ max_seq - f.seq >= ByteBits

OnceInv == IInv /\ Opened /\ ByConnect

LEMMA OnceInit == Init => OnceInv
BY InitHolds DEF Init, OnceInv, Opened, ByConnect

LEMMA EmitAdds ==
  ASSUME NEW s, NEW cmd, NEW c, Emit(s, cmd, c)
  PROVE  /\ up \subseteq up'
         /\ \A f \in up' \ up : f.key = epoch /\ f.cmd = cmd /\ f.conn = c
         /\ \A f, g \in up' \ up : f = g
BY DEF Emit

(* A connection's first frame is its CONNECT; no thread sends one again.   *)
LEMMA OpenedStep == IInv /\ Opened /\ [Next]_vars => Opened'
<1> SUFFICES ASSUME IInv, Opened, [Next]_vars PROVE Opened'
  OBVIOUS
<1>1. CASE UNCHANGED <<epoch, accepted, pc, up>>
  BY <1>1 DEF Opened, Connects
<1>2. epoch \in Nat /\ accepted \in Nat
  BY WindowPositive DEF IInv, TypeOK
<1>3. \A c \in Conns : c[1] \in Nat /\ c[2] \in Nat
  BY ConnTyped, WindowPositive DEF Epochs, Sids
<1>4. pc \in [Conns -> {"none", "accepted", "open", "closing", "closed"}]
  BY DEF IInv, TypeOK
<1>5. CASE StartClient
  <2>1. /\ epoch' = epoch + 1 /\ UNCHANGED up
        /\ \A c \in Conns : pc[c] = "none" => pc'[c] = "none"
        /\ \A c \in Conns : pc[c] # "none" => pc'[c] = "closed"
    BY <1>5 DEF StartClient
  <2>2. \A c \in Conns : pc'[c] # "none" => c[1] < epoch'
    BY <1>2, <1>3, <2>1 DEF Opened
  <2>3. \A c \in Conns : pc[c] \notin {"none", "accepted"} =>
          pc'[c] \notin {"none", "accepted"}
    BY <2>1
  <2> QED
    BY <2>1, <2>2, <2>3 DEF Opened, Connects
<1>6. CASE Accept
  <2> DEFINE a == <<epoch, accepted + 1>>
  <2>1. /\ epoch \in Epochs /\ accepted + 1 \in 1..MaxConn
        /\ accepted' = accepted + 1 /\ pc' = [pc EXCEPT ![a] = "accepted"]
        /\ UNCHANGED <<epoch, up>>
    BY <1>2, <1>6, WindowPositive DEF Accept, IInv, Numbered, network
  <2>2. a \in Conns /\ a[1] = epoch /\ a[2] = accepted + 1
    BY <2>1 DEF Conns
  <2>3. pc[a] = "none"
    BY <1>2, <2>2 DEF Opened
  <2> HIDE DEF a
  <2>4. \A c \in Conns : pc'[c] # "none" =>
          c[1] < epoch \/ (c[1] = epoch /\ c[2] <= accepted')
    BY <1>2, <1>3, <1>4, <2>1, <2>2 DEF Opened
  <2>5. \A c \in Conns : pc[c] \notin {"none", "accepted"} =>
          pc'[c] \notin {"none", "accepted"}
    BY <1>4, <2>1, <2>3
  <2> QED
    BY <2>1, <2>4, <2>5 DEF Opened, Connects
<1>7. ASSUME NEW c \in Conns, HangUp(c) PROVE Opened'
  BY <1>4, <1>7 DEF HangUp, Opened, Connects, client, network
<1>8. ASSUME NEW c \in Conns, Request(c) PROVE Opened'
  <2>1. /\ c[1] = epoch /\ pc[c] = "accepted"
        /\ pc' = [pc EXCEPT ![c] = "open"]
        /\ Emit(sid[c], "CONNECT", c) /\ UNCHANGED <<epoch, accepted>>
    BY <1>8 DEF Request, Live, Emit
  <2>2. /\ up \subseteq up'
        /\ \A f \in up' \ up :
              f.key = epoch /\ f.cmd = "CONNECT" /\ f.conn = c
        /\ \A f, g \in up' \ up : f = g
    BY <2>1, EmitAdds
  <2>3. \A f \in up : ~Connects(f, c)
    BY <2>1 DEF Opened
  <2>4. ASSUME NEW d \in Conns, NEW f \in up', NEW g \in up',
               Connects(f, d), Connects(g, d)
        PROVE  f = g /\ pc'[d] \notin {"none", "accepted"}
    BY <1>4, <2>1, <2>2, <2>3, <2>4 DEF Opened, Connects
  <2> QED
    BY <1>4, <2>1, <2>2, <2>4 DEF Opened, Connects
<1>9. ASSUME NEW c \in Conns, Forward(c) \/ SendClose(c) PROVE Opened'
  <2>1. PICK cmd \in {"DATA", "CLOSE"} : Emit(sid[c], cmd, c)
    BY <1>9 DEF Forward, SendClose
  <2>2. /\ c[1] = epoch /\ UNCHANGED <<epoch, accepted>>
        /\ pc[c] \in {"open", "closing"}
        /\ pc' = pc \/ pc' = [pc EXCEPT ![c] = "closed"]
    BY <1>9 DEF Forward, SendClose, Live, Emit
  <2>3. /\ up \subseteq up'
        /\ \A f \in up' \ up : f.key = epoch /\ f.cmd = cmd /\ f.conn = c
    BY <2>1, EmitAdds
  <2>4. /\ \A d \in Conns : pc'[d] # "none" => pc[d] # "none"
        /\ \A d \in Conns : pc[d] \notin {"none", "accepted"} =>
             pc'[d] \notin {"none", "accepted"}
    BY <1>4, <2>2
  <2>5. \A d \in Conns : \A f \in up' : Connects(f, d) => f \in up
    BY <2>3 DEF Connects
  <2> QED
    BY <2>2, <2>3, <2>4, <2>5 DEF Opened, Connects
<1>10. CASE Chaff
  <2>1. /\ UNCHANGED <<epoch, accepted, pc>> /\ Emit(0, "CHAFF", None)
    BY <1>10 DEF Chaff, Emit
  <2>2. /\ up \subseteq up' /\ \A f \in up' \ up : f.cmd = "CHAFF"
    BY <2>1, EmitAdds
  <2> QED
    BY <2>1, <2>2 DEF Opened, Connects
<1> QED
  BY <1>1, <1>5, <1>6, <1>7, <1>8, <1>9, <1>10
  DEF Next, PerformHandshake, Receive, Lose, InstallKeys, TakeOver,
      ProcessFrame, Register, RelayBack, EndWorker, SayClosed, Poll, vars,
      client, conns, network

(* A number that was taken and is taken again is a byte behind the newest. *)
LEMMA TakenAgain ==
  ASSUME IInv, NEW seq \in taken, ~Seen(seq)
  PROVE  max_seq - seq >= ByteBits
<1>1. seq \in 1..max_seq /\ max_seq \in Nat /\ max_seq - seq \in Nat
  BY WindowPositive DEF IInv, Filter, Below, TypeOK
<1>2. CASE max_seq - seq < ByteBits
  <2>1. max_seq - seq \in window[0]
    BY <1>2 DEF IInv, Filter, RecentKnown
  <2>2. /\ (max_seq - seq) \div ByteBits = 0
        /\ (max_seq - seq) % ByteBits = max_seq - seq
    BY <1>1, <1>2, Division
  <2> QED
    BY <1>1, <2>1, <2>2 DEF Seen
<1> QED
  BY <1>1, <1>2, WindowPositive

(* The workers stay with their connections but for one that is spawned.    *)
LEMMA ByConnectKept ==
  ASSUME ByConnect, up \subseteq up', taken \subseteq taken',
         max_seq \in Nat, max_seq' \in Nat, max_seq <= max_seq',
         \A f \in up : f.seq \in Nat,
         UNCHANGED <<key, resps, reinstalled>>,
         \A w \in Workers : worker'[w] # Idle =>
            worker[w] # Idle /\ worker'[w].conn = worker[w].conn
  PROVE  ByConnect'
<1>1. key' # 0 => key' \in resps'
  BY DEF ByConnect
<1>2. ASSUME NEW w \in Workers, worker'[w] # Idle
      PROVE  /\ worker'[w].conn[1] \in resps'
             /\ worker'[w].conn[1] = key' /\ key' \notin reinstalled' =>
                  \E f \in up' :
                     Connects(f, worker'[w].conn) /\ f.seq \in taken'
  BY <1>2 DEF ByConnect
<1>3. ASSUME NEW v \in Workers, NEW w \in Workers, v # w,
             worker'[w] # Idle, worker'[v] # Idle,
             worker'[v].conn = worker'[w].conn,
             worker'[w].conn[1] = key', key' \notin reinstalled'
      PROVE  \E f \in up' : /\ Connects(f, worker'[w].conn)
                            /\ max_seq' - f.seq >= ByteBits
  <2>1. PICK f \in up : /\ Connects(f, worker[w].conn)
                        /\ max_seq - f.seq >= ByteBits
    BY <1>3 DEF ByConnect
  <2>2. max_seq' - f.seq >= ByteBits
    BY <2>1, WindowPositive
  <2> QED
    BY <1>3, <2>1, <2>2
<1> QED
  BY <1>1, <1>2, <1>3 DEF ByConnect

(* A frame of the present keys may spawn a worker for its connection.  If  *)
(* that has one, the frame was taken before: it is a byte behind.          *)
LEMMA ByConnectSpawn ==
  ASSUME IInv, Opened, ByConnect, NEW f \in up, ProcessFrame(f)
  PROVE  ByConnect'
<1>1. /\ f.seq \in 1..MaxSeq /\ f.seq \in Nat /\ max_seq \in Nat
      /\ \A g \in up : g.seq \in Nat
      /\ f.cmd # "CHAFF" => f.conn \in Conns /\ f.key = f.conn[1]
                            /\ f.sid \in Sids
  <2>1. /\ up \subseteq Frame /\ max_seq \in 0..MaxSeq
        /\ f.cmd # "CHAFF" => f.conn \in Conns /\ f.sid = f.conn[2]
    BY DEF IInv, TypeOK, Numbered
  <2>2. \A g \in up : g.seq \in 1..MaxSeq
    BY <2>1 DEF Frame
  <2>3. f.cmd # "CHAFF" => f.key = f.conn[1]
    BY DEF Opened
  <2>4. f.cmd # "CHAFF" => f.sid \in Sids
    BY <2>1, ConnTyped
  <2> QED
    BY <2>1, <2>2, <2>3, <2>4, WindowPositive
<1>2. /\ ~Seen(f.seq) /\ Record(f.seq) /\ key # 0
      /\ UNCHANGED <<up, key, resps, reinstalled>>
  BY DEF ProcessFrame, network
<1>3. /\ taken' = taken \cup {f.seq}
      /\ max_seq' \in Nat /\ max_seq <= max_seq'
  BY <1>1, <1>2, WindowPositive DEF Record
<1>4. CASE \A w \in Workers : worker'[w] # Idle =>
             worker[w] # Idle /\ worker'[w].conn = worker[w].conn
  BY <1>1, <1>2, <1>3, <1>4, ByConnectKept
<1>5. CASE f.cmd = "CLOSE" /\ CloseStream(f)
  <2>1. CASE table[f.sid] = None
    BY <1>4, <1>5, <2>1 DEF CloseStream
  <2>2. CASE table[f.sid] # None
    <3>1. PICK w \in Workers : w = table[f.sid]
      BY <1>1, <1>5, <2>2 DEF IInv, TypeOK
    <3>2. worker[w] # Idle
      BY <1>1, <1>5, <2>2, <3>1 DEF IInv, Table, RegisteredAlive, Idle
    <3>3. worker' = [worker EXCEPT ![w].shut = TRUE]
      BY <1>5, <2>2, <3>1 DEF CloseStream
    <3>4. worker'[w].conn = worker[w].conn
      BY <3>2, <3>3 DEF IInv, TypeOK, Thread
    <3> QED
      BY <1>4, <3>2, <3>3, <3>4 DEF IInv, TypeOK
  <2> QED
    BY <2>1, <2>2
<1>6. CASE f.key = key /\ f.cmd = "CONNECT" /\ Spawn(f)
  <2>1. PICK n \in Workers :
          /\ worker[n] = Idle
          /\ worker' = [worker EXCEPT ![n] =
               [state |-> "dial", sid |-> f.sid, conn |-> f.conn,
                shut |-> FALSE]]
    BY <1>6 DEF Spawn
  <2>2. /\ worker'[n].conn = f.conn
        /\ \A w \in Workers \ {n} : worker'[w] = worker[w]
    BY <2>1 DEF IInv, TypeOK
  <2>3. f.conn[1] = key /\ f.conn \in Conns /\ Connects(f, f.conn)
    BY <1>1, <1>6 DEF Connects
  <2>4. key' # 0 => key' \in resps'
    BY <1>2 DEF ByConnect
  <2>5. ASSUME NEW w \in Workers, worker'[w] # Idle
        PROVE  /\ worker'[w].conn[1] \in resps'
               /\ worker'[w].conn[1] = key' /\ key' \notin reinstalled' =>
                    \E g \in up' :
                       Connects(g, worker'[w].conn) /\ g.seq \in taken'
    <3>1. CASE w = n
      BY <1>2, <1>3, <2>2, <2>3, <2>4, <3>1
    <3>2. CASE w # n
      BY <1>2, <1>3, <2>2, <2>5, <3>2 DEF ByConnect
    <3> QED
      BY <3>1, <3>2
  <2>6. ASSUME NEW w \in Workers, w # n, worker[w] # Idle,
               worker[w].conn = f.conn, key \notin reinstalled
        PROVE  max_seq' - f.seq >= ByteBits
    <3>1. PICK g \in up : Connects(g, f.conn) /\ g.seq \in taken
      BY <2>3, <2>6 DEF ByConnect
    <3>2. f \in up /\ g = f
      BY <2>3, <3>1 DEF Opened
    <3>3. max_seq - f.seq >= ByteBits
      BY <1>2, <3>1, <3>2, TakenAgain
    <3> QED
      BY <1>1, <1>3, <3>3, WindowPositive
  <2>7. ASSUME NEW v \in Workers, NEW w \in Workers, v # w,
               worker'[v] # Idle, worker'[w] # Idle,
               worker'[v].conn = worker'[w].conn,
               worker'[w].conn[1] = key', key' \notin reinstalled'
        PROVE  \E g \in up' : /\ Connects(g, worker'[w].conn)
                              /\ max_seq' - g.seq >= ByteBits
    <3>1. CASE w = n \/ v = n
      BY <1>2, <2>2, <2>3, <2>6, <2>7, <3>1
    <3>2. CASE w # n /\ v # n
      <4>1. PICK g \in up : /\ Connects(g, worker[w].conn)
                            /\ max_seq - g.seq >= ByteBits
        BY <1>2, <2>2, <2>7, <3>2 DEF ByConnect
      <4>2. max_seq' - g.seq >= ByteBits
        BY <1>1, <1>3, <4>1, WindowPositive
      <4> QED
        BY <1>2, <2>2, <3>2, <4>1, <4>2
    <3> QED
      BY <3>1, <3>2
  <2> QED
    BY <2>4, <2>5, <2>7 DEF ByConnect
<1>7. CASE UNCHANGED worker
  BY <1>4, <1>7
<1> QED
  BY <1>5, <1>6, <1>7 DEF ProcessFrame, HandleClientPayload

LEMMA ByConnectStep ==
  IInv /\ IInv' /\ Opened /\ ByConnect /\ [Next]_vars => ByConnect'
<1> SUFFICES ASSUME IInv, IInv', Opened, ByConnect, [Next]_vars
             PROVE  ByConnect'
  OBVIOUS
<1>1. /\ max_seq \in Nat /\ max_seq' \in Nat
      /\ \A f \in up : f.seq \in Nat
      /\ worker \in [Workers -> Thread]
  BY WindowPositive DEF IInv, TypeOK, Frame
<1>2. CASE /\ UNCHANGED <<server, resps, reinstalled>>
           /\ up \subseteq up'
  BY <1>1, <1>2, ByConnectKept DEF server, filter
<1>3. ASSUME NEW f \in up, ProcessFrame(f) PROVE ByConnect'
  BY <1>3, ByConnectSpawn
<1>4. ASSUME NEW e \in Epochs, InstallKeys(e) PROVE ByConnect'
  <2>1. /\ key' = e /\ resps' = resps \cup {e} /\ UNCHANGED <<worker, up>>
        /\ e \in resps => key' \in reinstalled'
    BY <1>4 DEF InstallKeys
  <2>2. \A w \in Workers : worker[w] # Idle => worker[w].conn[1] \in resps
    BY DEF ByConnect
  <2> QED
    BY <2>1, <2>2 DEF ByConnect
<1>5. CASE TakeOver
  <2>1. key' = 0 /\ UNCHANGED <<resps, up, worker, reinstalled>>
    BY <1>5 DEF TakeOver, network
  <2>2. \A w \in Workers : worker[w] # Idle =>
          worker[w].conn[1] \in resps /\ worker[w].conn[1] # 0
    BY WindowPositive DEF ByConnect, IInv, TypeOK, Epochs
  <2> QED
    BY <2>1, <2>2 DEF ByConnect
<1>6. ASSUME NEW w \in Workers,
             Register(w) \/ RelayBack(w) \/ EndWorker(w) \/ SayClosed(w)
      PROVE  ByConnect'
  <2>1. UNCHANGED <<up, key, resps, reinstalled, max_seq, taken>>
    BY <1>6 DEF Register, RelayBack, EndWorker, SayClosed, network, filter,
                server
  <2>2. worker[w] # Idle
    BY <1>6 DEF Register, RelayBack, EndWorker, SayClosed, Idle
  <2>3. \/ worker' = worker
        \/ worker' = [worker EXCEPT ![w] = Idle]
        \/ \E t \in {"open", "end"} : worker' = [worker EXCEPT ![w].state = t]
    BY <1>6 DEF Register, RelayBack, EndWorker, SayClosed, server
  <2>4. \A t : [worker[w] EXCEPT !.state = t].conn = worker[w].conn
    BY <1>1, <2>2 DEF Thread
  <2>5. \A v \in Workers : worker'[v] # Idle =>
          worker[v] # Idle /\ worker'[v].conn = worker[v].conn
    BY <1>1, <2>2, <2>3, <2>4
  <2> QED
    BY <1>1, <2>1, <2>5, ByConnectKept
<1>7. ASSUME NEW s, NEW cmd, NEW c, Emit(s, cmd, c) PROVE ByConnect'
  <2>1. up \subseteq up'
    BY <1>7, EmitAdds
  <2>2. UNCHANGED <<server, resps, reinstalled>>
    BY <1>7 DEF Emit
  <2> QED
    BY <1>2, <2>1, <2>2
<1> QED
  BY <1>2, <1>3, <1>4, <1>5, <1>6, <1>7
  DEF Next, StartClient, PerformHandshake, Accept, Chaff, Request, Forward,
      HangUp, SendClose, Receive, Lose, Poll, vars, network

(* OneWorker: a connection opens one at its destination, unless the window *)
(* has forgotten its CONNECT.                                              *)
THEOREM ConnectionsServedOnce == Spec => []OneWorker
<1>1. Init => OnceInv
  BY OnceInit
<1>2. OnceInv /\ [Next]_vars => OnceInv'
  <2> SUFFICES ASSUME OnceInv, [Next]_vars PROVE OnceInv'
    OBVIOUS
  <2>1. IInv' /\ Opened'
    BY StepHolds, OpenedStep DEF OnceInv
  <2> QED
    BY <2>1, ByConnectStep DEF OnceInv
<1>3. OnceInv => OneWorker
  <2> SUFFICES ASSUME OnceInv, NEW c \in Conns, c[1] = key,
                      key \notin reinstalled, Cardinality(Served(c)) > 1
               PROVE  \E f \in up : /\ f.conn = c /\ f.cmd = "CONNECT"
                                    /\ max_seq - f.seq >= ByteBits
    BY DEF OneWorker
  <2>1. PICK v \in Served(c), w \in Served(c) : v # w
    <3>1. CASE Served(c) = {}
      BY <3>1, FS_EmptySet
    <3>2. ASSUME NEW v \in Served(c), \A w \in Served(c) : w = v
          PROVE  FALSE
      <4>1. Served(c) = {v}
        BY <3>2
      <4> QED
        BY <4>1, FS_Singleton
    <3> QED
      BY <3>1, <3>2
  <2>2. /\ v \in Workers /\ w \in Workers
        /\ worker[v].conn = c /\ worker[w].conn = c
    BY <2>1 DEF Served
  <2>3. worker[v] # Idle /\ worker[w] # Idle
    BY <2>2, NonePlain DEF Idle
  <2> QED
    BY <2>1, <2>2, <2>3 DEF OnceInv, ByConnect, Connects
<1> QED
  BY <1>1, <1>2, <1>3, PTL DEF Spec

-----------------------------------------------------------------------------
(***************************************************************************)
(* The proxy settings.                                                     *)
(***************************************************************************)

Domains == UserSettings \subseteq Setting

LEMMA UserSettingsTyped == Domains
BY DEF Domains, UserSettings, Setting, Settings, Values

LEMMA ProxyInitHolds == ProxyInit => ProxyInv
<1> SUFFICES ASSUME ProxyInit PROVE ProxyInv
  OBVIOUS
<1>1. ProxyTypeOK /\ Switched
  BY UserSettingsTyped DEF Switched, Undoing, Domains, ProxyInit, ProxyTypeOK,
                           Steps, Setting, Settings, Values, NoCommand
<1>2. Clean
  BY DEF ProxyInit, Clean, Alone, RebootRestores, Quiet, Own, Progress,
         Registered, Undoing, AsChosen, NoCommand
<1>3. QED
  BY <1>1, <1>2 DEF ProxyInv

(* Steps of a client that is the only one: the facts about the others are  *)
(* about clients that are off.                                             *)
LEMMA ReadHolds ==
  ASSUME ProxyInv, NEW c \in Clients, ReadOriginal(c) PROVE ProxyInv'
<1>1. ProxyTypeOK' /\ Switched'
  BY DEF Switched, Undoing, ProxyInv, ProxyTypeOK, ReadOriginal, At, Steps,
         Enabling
<1>2. Clean'
  <2> SUFFICES ASSUME ~stale' PROVE /\ Alone' /\ RebootRestores' /\ Quiet'
                                    /\ \A d \in Clients :
                                          (Own(d) /\ Progress(d))'
    BY DEF Clean
  <2>1. /\ ~stale /\ ~broken /\ \A d \in Clients : step[d] = "off"
        /\ AsChosen(reg) /\ RebootRestores
    BY DEF ReadOriginal, ProxyInv, Clean, Quiet
  <2>2. Alone' /\ RebootRestores' /\ Quiet'
    BY <2>1 DEF ReadOriginal, At, ProxyInv, ProxyTypeOK, Alone, RebootRestores,
                Quiet
  <2>3. ASSUME NEW d \in Clients PROVE (Own(d) /\ Progress(d))'
    BY <2>1 DEF ReadOriginal, At, ProxyInv, ProxyTypeOK, Own, Progress,
                Registered, Undoing, AsChosen, Clean
  <2>4. QED
    BY <2>2, <2>3
<1>3. QED
  BY <1>1, <1>2 DEF ProxyInv

LEMMA NotifyHolds ==
  ASSUME ProxyInv, NEW c \in Clients, Notify(c) PROVE ProxyInv'
<1>1. ProxyTypeOK' /\ Switched'
  BY DEF Switched, Undoing, ProxyInv, ProxyTypeOK, Notify, At, Steps, Enabling
<1>2. Clean'
  <2> SUFFICES ASSUME ~stale' PROVE /\ Alone' /\ RebootRestores' /\ Quiet'
                                    /\ \A d \in Clients :
                                          (Own(d) /\ Progress(d))'
    BY DEF Clean
  <2>1. /\ Switched /\ ~stale /\ Own(c) /\ Progress(c) /\ RebootRestores
        /\ step[c] # "off" /\ \A d \in Clients : d # c => step[d] = "off"
        /\ \A d \in Clients : Progress(d)
    BY DEF Notify, At, ProxyInv, Clean, Alone
  <2>2. Alone' /\ RebootRestores' /\ Quiet'
    BY <2>1 DEF Notify, At, ProxyInv, ProxyTypeOK, Alone, RebootRestores,
                Quiet, Own, Progress, Registered, AsChosen, Undoing
  <2>3. ASSUME NEW d \in Clients PROVE (Own(d) /\ Progress(d))'
    BY <2>1 DEF Notify, At, ProxyInv, ProxyTypeOK, Own, Progress, Registered,
                Undoing, AsChosen, RebootRestores
  <2>4. QED
    BY <2>2, <2>3
<1>3. QED
  BY <1>1, <1>2 DEF ProxyInv

LEMMA EnableFailsHolds ==
  ASSUME ProxyInv, NEW c \in Clients, EnableFails(c) PROVE ProxyInv'
<1>1. ProxyTypeOK' /\ Switched'
  BY DEF Switched, Undoing, ProxyInv, ProxyTypeOK, EnableFails, Steps, Enabling
<1>2. Clean'
  <2> SUFFICES ASSUME ~stale' PROVE /\ Alone' /\ RebootRestores' /\ Quiet'
                                    /\ \A d \in Clients :
                                          (Own(d) /\ Progress(d))'
    BY DEF Clean
  <2>1. /\ Switched /\ ~stale /\ Own(c) /\ Progress(c) /\ RebootRestores
        /\ step[c] # "off" /\ \A d \in Clients : d # c => step[d] = "off"
        /\ \A d \in Clients : Progress(d)
    BY DEF EnableFails, Enabling, ProxyInv, Clean, Alone
  <2>2. Alone' /\ RebootRestores' /\ Quiet'
    BY <2>1 DEF EnableFails, Enabling, ProxyInv, ProxyTypeOK, Alone,
                RebootRestores, Quiet, Own, Progress, Registered, AsChosen,
                Undoing
  <2>3. ASSUME NEW d \in Clients PROVE (Own(d) /\ Progress(d))'
    BY <2>1 DEF EnableFails, Enabling, ProxyInv, ProxyTypeOK, Switched, Own,
                Progress, Registered, Undoing, AsChosen, RebootRestores
  <2>4. QED
    BY <2>2, <2>3
<1>3. QED
  BY <1>1, <1>2 DEF ProxyInv

LEMMA StopHolds ==
  ASSUME ProxyInv, NEW c \in Clients, Stop(c) PROVE ProxyInv'
<1>1. ProxyTypeOK' /\ Switched'
  BY DEF Switched, Undoing, ProxyInv, ProxyTypeOK, Stop, At, Steps
<1>2. Clean'
  <2> SUFFICES ASSUME ~stale' PROVE /\ Alone' /\ RebootRestores' /\ Quiet'
                                    /\ \A d \in Clients :
                                          (Own(d) /\ Progress(d))'
    BY DEF Clean
  <2>1. /\ Switched /\ ~stale /\ Own(c) /\ Progress(c) /\ RebootRestores
        /\ step[c] # "off" /\ \A d \in Clients : d # c => step[d] = "off"
        /\ \A d \in Clients : Progress(d)
    BY DEF Stop, At, ProxyInv, Clean, Alone
  <2>2. Alone' /\ RebootRestores' /\ Quiet'
    BY <2>1 DEF Stop, At, ProxyInv, ProxyTypeOK, Alone, RebootRestores, Quiet,
                Own, Progress, Registered, AsChosen, Undoing
  <2>3. ASSUME NEW d \in Clients PROVE (Own(d) /\ Progress(d))'
    BY <2>1 DEF Stop, At, ProxyInv, ProxyTypeOK, Own, Progress, Registered,
                Undoing, AsChosen, RebootRestores
  <2>4. QED
    BY <2>2, <2>3
<1>3. QED
  BY <1>1, <1>2 DEF ProxyInv

LEMMA DisableFailsHolds ==
  ASSUME ProxyInv, NEW c \in Clients, DisableFails(c) PROVE ProxyInv'
<1>1. ProxyTypeOK' /\ Switched'
  BY DEF Switched, Undoing, ProxyInv, ProxyTypeOK, DisableFails, Disabling,
         Steps
<1>2. Clean'
  <2> SUFFICES ASSUME ~stale' PROVE /\ Alone' /\ RebootRestores' /\ Quiet'
                                    /\ \A d \in Clients :
                                          (Own(d) /\ Progress(d))'
    BY DEF Clean
  <2>1. /\ Switched /\ ~stale /\ Own(c) /\ Progress(c) /\ RebootRestores
        /\ step[c] # "off" /\ \A d \in Clients : d # c => step[d] = "off"
        /\ \A d \in Clients : Progress(d)
    BY DEF DisableFails, Disabling, ProxyInv, Clean, Alone
  <2>2. Alone' /\ RebootRestores' /\ Quiet'
    BY <2>1 DEF DisableFails, Disabling, ProxyInv, ProxyTypeOK, Alone,
                RebootRestores, Quiet, Own, Progress, Registered, AsChosen,
                Undoing
  <2>3. ASSUME NEW d \in Clients PROVE (Own(d) /\ Progress(d))'
    BY <2>1 DEF DisableFails, Disabling, ProxyInv, ProxyTypeOK, Own, Progress,
                Registered, Undoing, AsChosen, RebootRestores
  <2>4. QED
    BY <2>2, <2>3
<1>3. QED
  BY <1>1, <1>2 DEF ProxyInv

LEMMA DieHolds ==
  ASSUME ProxyInv, NEW c \in Clients, Die(c) PROVE ProxyInv'
<1>1. ProxyTypeOK' /\ Switched'
  BY DEF Switched, Undoing, ProxyInv, ProxyTypeOK, Die, Steps
<1>2. Clean'
  <2> SUFFICES ASSUME ~stale' PROVE /\ Alone' /\ RebootRestores' /\ Quiet'
                                    /\ \A d \in Clients :
                                          (Own(d) /\ Progress(d))'
    BY DEF Clean
  <2>1. /\ Switched /\ ~stale /\ Own(c) /\ Progress(c) /\ RebootRestores
        /\ step[c] # "off" /\ \A d \in Clients : d # c => step[d] = "off"
        /\ \A d \in Clients : Progress(d)
    BY DEF Die, proxyVars, ProxyInv, Clean, Alone
  <2>2. Alone' /\ RebootRestores' /\ Quiet'
    BY <2>1 DEF Die, proxyVars, ProxyInv, ProxyTypeOK, Alone, RebootRestores,
                Quiet, Own, Progress, Registered, AsChosen, Undoing
  <2>3. ASSUME NEW d \in Clients PROVE (Own(d) /\ Progress(d))'
    BY <2>1 DEF Die, proxyVars, ProxyInv, ProxyTypeOK, Own, Progress,
                Registered, Undoing, AsChosen, RebootRestores
  <2>4. QED
    BY <2>2, <2>3
<1>3. QED
  BY <1>1, <1>2 DEF ProxyInv

LEMMA EnableHolds ==
  ASSUME ProxyInv, NEW c \in Clients, Enable(c) PROVE ProxyInv'
<1>1. ProxyTypeOK' /\ Switched'
  BY DEF Switched, Undoing, ProxyInv, ProxyTypeOK, Enable, SwitchOn, Point, At,
         Steps, Enabling, Setting, Values, NoCommand
<1>2. Clean'
  <2> SUFFICES ASSUME ~stale' PROVE /\ Alone' /\ RebootRestores' /\ Quiet'
                                    /\ \A d \in Clients :
                                          (Own(d) /\ Progress(d))'
    BY DEF Clean
  <2>1. /\ Switched /\ ~stale /\ Own(c) /\ Progress(c) /\ RebootRestores
        /\ step[c] # "off" /\ \A d \in Clients : d # c => step[d] = "off"
        /\ \A d \in Clients : Progress(d)
    BY DEF Enable, SwitchOn, Point, At, ProxyInv, Clean, Alone
  <2>2. /\ step' = [step EXCEPT ![c] = step'[c]]
        /\ step'[c] \in {"enable", "server", "override", "notify"}
        /\ \A d \in Clients : d # c => step'[d] = "off"
        /\ UNCHANGED <<orig, active, truth, broken, stale>>
    BY <2>1 DEF Enable, SwitchOn, Point, At, ProxyInv, ProxyTypeOK
  <2>3. runonce' = truth.enabled
    BY <2>1 DEF Enable, SwitchOn, Point, At, Own, Progress, Registered,
                AsChosen, ProxyInv, ProxyTypeOK
  <2>4. truth.enabled # NoCommand
    BY DEF ProxyInv, ProxyTypeOK, UserSettings, Settings, NoCommand
  <2>5. Alone' /\ RebootRestores' /\ Quiet'
    BY <2>1, <2>2, <2>3, <2>4 DEF Alone, RebootRestores, Quiet
  <2>6. ASSUME NEW d \in Clients PROVE (Own(d) /\ Progress(d))'
    <3>1. CASE d = c
      BY <3>1, <2>1, <2>2, <2>3
         DEF Own, Progress, Registered, AsChosen, Undoing
    <3>2. CASE d # c
      BY <3>2, <2>1, <2>2, <2>3
         DEF Own, Progress, Registered, AsChosen, Undoing
    <3>3. QED
      BY <3>1, <3>2
  <2>7. QED
    BY <2>5, <2>6
<1>3. QED
  BY <1>1, <1>2 DEF ProxyInv

LEMMA WriteBackHolds ==
  ASSUME ProxyInv, NEW c \in Clients, WriteBack(c) PROVE ProxyInv'
<1>1. ProxyTypeOK' /\ Switched'
  BY DEF Switched, Undoing, ProxyInv, ProxyTypeOK, WriteBack, At, Steps,
         Setting
<1>2. Clean'
  <2> SUFFICES ASSUME ~stale' PROVE /\ Alone' /\ RebootRestores' /\ Quiet'
                                    /\ \A d \in Clients :
                                          (Own(d) /\ Progress(d))'
    BY DEF Clean
  <2>1. /\ Switched /\ ~stale /\ Own(c) /\ Progress(c) /\ RebootRestores
        /\ step[c] # "off" /\ \A d \in Clients : d # c => step[d] = "off"
        /\ \A d \in Clients : Progress(d)
    BY DEF WriteBack, At, Setting, UserSettings, Settings, ProxyInv, Clean,
           Alone
  <2>2. Alone' /\ RebootRestores' /\ Quiet'
    BY UserProxyPlain, <2>1 DEF WriteBack, At, Setting, UserSettings, Settings,
                                ProxyInv, ProxyTypeOK, Alone, RebootRestores,
                                Quiet, Own, Progress, Registered, AsChosen,
                                Undoing
  <2>3. ASSUME NEW d \in Clients PROVE (Own(d) /\ Progress(d))'
    BY UserProxyPlain, <2>1 DEF WriteBack, At, Setting, UserSettings,
                                Settings, ProxyInv, ProxyTypeOK, Own, Progress,
                                Registered, Undoing, AsChosen, RebootRestores
  <2>4. QED
    BY <2>2, <2>3
<1>3. QED
  BY <1>1, <1>2 DEF ProxyInv

LEMMA DisabledHolds ==
  ASSUME ProxyInv, NEW c \in Clients, Disabled(c) PROVE ProxyInv'
<1>1. ProxyTypeOK' /\ Switched'
  BY DEF Switched, Undoing, ProxyInv, ProxyTypeOK, Disabled, Forget, At, Steps,
         NoCommand
<1>2. Clean'
  <2> SUFFICES ASSUME ~stale' PROVE /\ Alone' /\ RebootRestores' /\ Quiet'
                                    /\ \A d \in Clients :
                                          (Own(d) /\ Progress(d))'
    BY DEF Clean
  <2>1. /\ Switched /\ ~stale /\ Own(c) /\ Progress(c) /\ RebootRestores
        /\ step[c] # "off" /\ \A d \in Clients : d # c => step[d] = "off"
        /\ \A d \in Clients : Progress(d)
    BY DEF Disabled, Forget, At, ProxyInv, Clean, Alone
  <2>2. Alone' /\ RebootRestores' /\ Quiet'
    BY <2>1 DEF Disabled, Forget, At, ProxyInv, ProxyTypeOK, Alone,
                RebootRestores, Quiet, Own, Progress, Registered, AsChosen,
                Undoing
  <2>3. ASSUME NEW d \in Clients PROVE (Own(d) /\ Progress(d))'
    BY <2>1 DEF Disabled, Forget, At, ProxyInv, ProxyTypeOK, Own, Progress,
                Registered, Undoing, AsChosen, RebootRestores
  <2>4. QED
    BY <2>2, <2>3
<1>3. QED
  BY <1>1, <1>2 DEF ProxyInv

LEMMA RebootHolds == ProxyInv /\ Reboot => ProxyInv'
<1> SUFFICES ASSUME ProxyInv, Reboot PROVE ProxyInv'
  OBVIOUS
<1>1. ProxyTypeOK' /\ Switched'
  BY DEF Switched, Undoing, ProxyInv, ProxyTypeOK, Reboot, Steps, Setting,
         NoCommand
<1>2. Clean'
  BY DEF ProxyInv, ProxyTypeOK, Clean, Reboot, Alone, RebootRestores, Quiet,
         Own, Progress, Registered, AsChosen, Setting, Undoing
<1>3. QED
  BY <1>1, <1>2 DEF ProxyInv

LEMMA ChooseHolds ==
  ASSUME ProxyInv, NEW s \in UserSettings, Choose(s) PROVE ProxyInv'
<1>1. ProxyTypeOK' /\ Switched'
  BY UserSettingsTyped DEF Switched, Undoing, Domains, ProxyInv, ProxyTypeOK,
                           Choose
<1>2. Clean'
  BY DEF ProxyInv, ProxyTypeOK, Clean, Choose, Alone, RebootRestores, Quiet,
         Own, Progress, Registered, AsChosen, Undoing
<1>3. QED
  BY <1>1, <1>2 DEF ProxyInv

LEMMA ProxyStepHolds == ProxyInv /\ [ProxyNext]_proxyVars => ProxyInv'
<1> SUFFICES ASSUME ProxyInv, [ProxyNext]_proxyVars PROVE ProxyInv'
  OBVIOUS
<1>1. ASSUME NEW c \in Clients,
             \/ ReadOriginal(c) \/ Enable(c) \/ Notify(c)
             \/ EnableFails(c) \/ Stop(c) \/ WriteBack(c)
             \/ Disabled(c) \/ DisableFails(c) \/ Die(c)
      PROVE  ProxyInv'
  BY <1>1, ReadHolds, EnableHolds, NotifyHolds, EnableFailsHolds, StopHolds,
     WriteBackHolds, DisabledHolds, DisableFailsHolds, DieHolds
<1>2. CASE Reboot
  BY <1>2, RebootHolds
<1>3. ASSUME NEW s \in UserSettings, Choose(s) PROVE ProxyInv'
  BY <1>3, ChooseHolds
<1>4. CASE UNCHANGED proxyVars
  BY <1>4 DEF proxyVars, ProxyInv, ProxyTypeOK, Switched, Clean, Alone,
              RebootRestores, Quiet, Own, Progress, Registered, AsChosen
<1>5. QED
  BY <1>1, <1>2, <1>3, <1>4 DEF ProxyNext

(* The settings are typed and the invariant behind the next two theorems   *)
(* holds throughout.                                                       *)
THEOREM SettingsInvariant == ProxySpec => []ProxyInv
BY ProxyInitHolds, ProxyStepHolds, PTL DEF ProxySpec

(* RebootRestores: a restart of the computer at any moment gives the user  *)
(* the ProxyEnable of before, unless a client took another one's settings  *)
(* for the user's.                                                         *)
THEOREM RebootAlwaysRestores == ProxySpec => []RebootRestores
<1>1. ProxyInv => RebootRestores
  BY DEF ProxyInv, Clean, RebootRestores
<1>2. QED
  BY <1>1, SettingsInvariant, PTL

(* Restored: after orderly ends the user's proxy is in force and no        *)
(* command is left.                                                        *)
THEOREM OrderlyEndRestores == ProxySpec => []Restored
<1>1. ProxyInv => Restored
  BY DEF ProxyInv, Clean, Quiet, AsChosen, Restored
<1>2. QED
  BY <1>1, SettingsInvariant, PTL
=============================================================================
