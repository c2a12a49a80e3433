---------------------------- MODULE StreamTunnel ----------------------------
(***************************************************************************)
(* The pure Python tunnel: aegs_client.py, a local gateway that carries    *)
(* each connection it accepts as a numbered stream of encrypted UDP        *)
(* frames, and aegs_server.py, which opens a connection to the destination *)
(* for every stream.                                                       *)
(*                                                                         *)
(* The client runs a thread per connection, a receiver and a chaff thread; *)
(* the server a packet loop and a thread per stream.  The network keeps    *)
(* every datagram: it may deliver one late, again, out of order or never.  *)
(* The client may die and start again: it draws new keys and counts its    *)
(* frames and streams from the beginning, while the server's workers live  *)
(* on.  A key is named after the start of the client that drew it.         *)
(*                                                                         *)
(* A blocked recv does not return because another thread closes the        *)
(* socket: a connection's thread may notice at any later time, or never.   *)
(***************************************************************************)
EXTENDS Integers, FiniteSets

CONSTANTS
  Workers,     \* the server's stream threads
  MaxEpoch,    \* bound on the starts of the client
  MaxConn,     \* bound on the connections accepted in one start
  MaxTotal,    \* bound on the connections accepted in all starts
  MaxSeq,      \* bound on the frames of one start
  MaxUp,       \* bound on the client's frames in the network
  MaxDown,     \* bound on the server's frames in the network
  ByteBits,    \* bits of a byte of the replay window, 8 in the code
  Bytes,       \* bytes of the replay window, 256 in the code
  None

Epochs  == 1..MaxEpoch
Conns   == Epochs \X (1..MaxConn)   \* start and number of a connection
Sids    == 1..MaxConn

ASSUME NonePlain == None \notin Workers /\ None \notin Conns
ASSUME WindowPositive == /\ ByteBits \in Nat \ {0} /\ Bytes \in Nat \ {0}
                         /\ MaxEpoch \in Nat /\ MaxConn \in Nat
                         /\ MaxTotal \in Nat
                         /\ MaxSeq \in Nat /\ MaxUp \in Nat
                         /\ MaxDown \in Nat

VARIABLES
  epoch, ready,   \* the client's start, and whether its handshake succeeded
  tx_seq,         \* the client's frame counter
  accepted,       \* connections accepted in this start
  pc,             \* each connection's thread
  sid,            \* each connection's stream number
  streams,        \* the client's table: stream number -> connection
  inits, resps,   \* handshake messages in the network, by start
  up, down,       \* frames in the network
  key,            \* start whose keys the server has installed, or 0
  max_seq, window, \* the server's replay filter
  table,          \* the server's table: stream number -> worker
  worker,         \* the server's stream threads
  taken,          \* history: numbers accepted under the present filter
  reinstalled     \* history: starts whose keys were installed twice

client  == <<epoch, ready, tx_seq, accepted>>
conns   == <<pc, sid, streams>>
network == <<inits, resps, up, down>>
filter  == <<max_seq, window, taken>>
server  == <<key, filter, table, worker>>
vars == <<client, conns, network, server, reinstalled>>

Frame == [key : Epochs, seq : 1..MaxSeq, sid : 0..MaxConn,
          cmd : {"CONNECT", "DATA", "CLOSE", "CHAFF"},
          conn : Conns \cup {None}]
Reply == [key : Epochs, sid : Sids, cmd : {"DATA", "CLOSE"}, from : Conns]
Idle  == [state |-> "free", sid |-> 0, conn |-> None, shut |-> FALSE]
Thread == {Idle} \cup [state : {"dial", "open", "end"}, sid : Sids,
                       conn : Conns, shut : BOOLEAN]

TypeOK ==
  /\ epoch \in 0..MaxEpoch /\ ready \in BOOLEAN
  /\ tx_seq \in 0..MaxSeq /\ accepted \in 0..MaxConn
  /\ pc \in [Conns -> {"none", "accepted", "open", "closing", "closed"}]
  /\ sid \in [Conns -> 0..MaxConn]
  /\ streams \in [Sids -> Conns \cup {None}]
  /\ inits \in SUBSET Epochs /\ resps \in SUBSET Epochs
  /\ up \in SUBSET Frame /\ down \in SUBSET Reply
  /\ key \in 0..MaxEpoch
  /\ max_seq \in 0..MaxSeq
  /\ window \in [0..Bytes - 1 -> SUBSET (0..ByteBits - 1)]
  /\ table \in [Sids -> Workers \cup {None}]
  /\ worker \in [Workers -> Thread]
  /\ taken \in SUBSET (1..MaxSeq) /\ reinstalled \in SUBSET Epochs

EmptyWindow == [i \in 0..Bytes - 1 |-> {}]

Init ==
  /\ epoch = 0 /\ ready = FALSE /\ tx_seq = 0 /\ accepted = 0
  /\ pc = [c \in Conns |-> "none"] /\ sid = [c \in Conns |-> 0]
  /\ streams = [s \in Sids |-> None]
  /\ inits = {} /\ resps = {} /\ up = {} /\ down = {}
  /\ key = 0 /\ max_seq = 0 /\ window = EmptyWindow
  /\ table = [s \in Sids |-> None] /\ worker = [w \in Workers |-> Idle]
  /\ taken = {} /\ reinstalled = {}

-----------------------------------------------------------------------------
(* AntiReplayFilter.check_and_update.                                      *)

(* The window moved up by n: whole bytes first, then the bits of a byte.   *)
(* The loop runs from the last byte to the first, and so what leaves a     *)
(* byte at the top enters the byte before it, not the one after.           *)
(* Mutated forms: bits are not cut off at the end of a byte; the bits of a *)
(* byte are moved down.                                                    *)
ShiftedWideMut(n) ==
  [i \in 0..Bytes - 1 |-> {x + n : x \in window[i]}]
ShiftedDownMut(n) ==
  [i \in 0..Bytes - 1 |-> {x \in 0..ByteBits - 1 : x + n \in window[i]}]
Shifted(n) ==
  LET q == n \div ByteBits
      r == n % ByteBits
      moved == [i \in 0..Bytes - 1 |-> IF i < q THEN {} ELSE window[i - q]]
  IN  [i \in 0..Bytes - 1 |->
         {x \in 0..ByteBits - 1 :
            \/ x - r \in moved[i]
            \/ i + 1 < Bytes /\ x < r /\ x - r + ByteBits \in moved[i + 1]}]

Mark(win, i, x) == [win EXCEPT ![i] = @ \cup {x}]

(* Mutated form: a number below the newest is not looked up.               *)
SeenMut(seq) == seq <= max_seq - Bytes * ByteBits
Seen(seq) ==
  LET diff == max_seq - seq IN
  /\ diff >= 0
  /\ diff >= Bytes * ByteBits
       \/ diff % ByteBits \in window[diff \div ByteBits]

Record(seq) ==
  /\ taken' = taken \cup {seq}
  /\ IF seq > max_seq
     THEN LET n == seq - max_seq IN
          /\ max_seq' = seq
          /\ window' = Mark(IF n >= Bytes * ByteBits THEN EmptyWindow
                                                     ELSE Shifted(n), 0, 0)
     ELSE LET diff == max_seq - seq IN
          /\ UNCHANGED max_seq
          /\ window' = Mark(window, diff \div ByteBits, diff % ByteBits)

-----------------------------------------------------------------------------
(* The client starts: its INIT is sent once and answered within 3 seconds, *)
(* or it ends.  Nothing of the start before survives.                      *)

StartClient ==
  /\ epoch < MaxEpoch
  /\ epoch' = epoch + 1 /\ ready' = FALSE
  /\ tx_seq' = 0 /\ accepted' = 0
  /\ streams' = [s \in Sids |-> None]
  /\ pc' = [c \in Conns |-> IF pc[c] = "none" THEN "none" ELSE "closed"]
  /\ inits' = inits \cup {epoch'}
  /\ UNCHANGED <<sid, resps, up, down, server, reinstalled>>

PerformHandshake ==
  /\ epoch \in resps /\ ~ready
  /\ ready' = TRUE
  /\ UNCHANGED <<epoch, tx_seq, accepted, conns, network, server, reinstalled>>

(* The gateway accepts: the number and the table entry are taken under the *)
(* lock.  Mutated form: the lowest number that is not in use.              *)
StreamIdMut(n) == CHOOSE s \in Sids : streams[s] = None
StreamId(n) == n

Accept ==
  /\ ready /\ accepted < MaxConn
  /\ Cardinality({c \in Conns : pc[c] # "none"}) < MaxTotal
  /\ accepted' = accepted + 1
  /\ LET c == <<epoch, accepted'>>
         s == StreamId(accepted') IN
     /\ sid' = [sid EXCEPT ![c] = s]
     /\ streams' = [streams EXCEPT ![s] = c]
     /\ pc' = [pc EXCEPT ![c] = "accepted"]
  /\ UNCHANGED <<epoch, ready, tx_seq, network, server, reinstalled>>

(* send_raw_packet increments the counter and reads it again later: when   *)
(* another thread increments it in between, the frame carries the number   *)
(* that the other's frame will carry too.  What exceeds the bound of the   *)
(* network is lost.                                                        *)
Emit(s, cmd, c) ==
  /\ tx_seq < MaxSeq
  /\ tx_seq' = tx_seq + 1
  /\ \E seq \in {tx_seq + 1, tx_seq + 2} \cap (1..MaxSeq) :
       up' = IF Cardinality(up) < MaxUp
             THEN up \cup {[key |-> epoch, seq |-> seq, sid |-> s,
                            cmd |-> cmd, conn |-> c]}
             ELSE up
  /\ UNCHANGED <<epoch, ready, accepted, sid, inits, resps, down, server,
                 reinstalled>>

Live(c) == c[1] = epoch

(* handle_client_conn: a request it cannot serve ends the thread.          *)
Request(c) ==
  /\ Live(c) /\ pc[c] = "accepted"
  /\ Emit(sid[c], "CONNECT", c)
  /\ pc' = [pc EXCEPT ![c] = "open"]
  /\ UNCHANGED streams

Forward(c) ==
  /\ Live(c) /\ pc[c] = "open"
  /\ Emit(sid[c], "DATA", c)
  /\ UNCHANGED <<pc, streams>>

(* The application is done, sent no request, or lost its socket.           *)
HangUp(c) ==
  /\ Live(c) /\ pc[c] \in {"accepted", "open"}
  /\ pc' = [pc EXCEPT ![c] = "closing"]
  /\ streams' = [streams EXCEPT ![sid[c]] = None]
  /\ UNCHANGED <<client, sid, network, server, reinstalled>>

SendClose(c) ==
  /\ Live(c) /\ pc[c] = "closing"
  /\ Emit(sid[c], "CLOSE", c)
  /\ pc' = [pc EXCEPT ![c] = "closed"]
  /\ UNCHANGED streams

(* The chaff thread sends when the client is idle.                         *)
Chaff == ready /\ Emit(0, "CHAFF", None) /\ UNCHANGED <<pc, streams>>

(* udp_receiver_loop: no replay filter on this side.                       *)
Receive(f) ==
  /\ ready /\ f.key = epoch
  /\ streams' = IF f.cmd = "CLOSE"
                THEN [streams EXCEPT ![f.sid] = None] ELSE streams
  /\ UNCHANGED <<client, pc, sid, network, server, reinstalled>>

-----------------------------------------------------------------------------
(* The server's packet loop.  An INIT is accepted whenever it arrives; a   *)
(* third copy is not modelled.                                             *)
InstallKeys(e) ==
  /\ e \in inits \ reinstalled
  /\ key' = e
  /\ max_seq' = 0 /\ window' = EmptyWindow /\ taken' = {}
  /\ resps' = resps \cup {e}
  /\ reinstalled' = IF e \in resps THEN reinstalled \cup {e} ELSE reinstalled
  /\ UNCHANGED <<client, conns, inits, up, down, table, worker>>

(* Another program with the token shakes hands in the raw format, or       *)
(* presents a resumption token: the server has one session and gives it to *)
(* the newcomer, whose frames are not modelled.  Until the next INIT of    *)
(* the client, which starts a filter of its own, no frame is of the keys.  *)
TakeOver ==
  /\ key # 0
  /\ key' = 0
  /\ max_seq' = 0 /\ window' = EmptyWindow /\ taken' = {}
  /\ UNCHANGED <<client, conns, network, table, worker, reinstalled>>

(* handle_client_payload: CONNECT starts a thread; DATA goes to the socket *)
(* of the stream's entry, if there is one; CLOSE takes the entry out and   *)
(* closes the socket.                                                      *)
Spawn(f) ==
  /\ \E w \in Workers :
       /\ worker[w] = Idle
       /\ worker' = [worker EXCEPT ![w] =
            [state |-> "dial", sid |-> f.sid, conn |-> f.conn,
             shut |-> FALSE]]
  /\ UNCHANGED table

CloseStream(f) ==
  IF table[f.sid] = None THEN UNCHANGED <<table, worker>>
  ELSE /\ worker' = [worker EXCEPT ![table[f.sid]].shut = TRUE]
       /\ table' = [table EXCEPT ![f.sid] = None]

HandleClientPayload(f) ==
  \/ f.cmd = "CONNECT" /\ Spawn(f)
  \/ f.cmd = "CLOSE" /\ CloseStream(f)
  \/ f.cmd \in {"DATA", "CHAFF"} /\ UNCHANGED <<table, worker>>

(* The filter is updated before the frame is decrypted: a frame of another *)
(* key uses its number up.                                                 *)
ProcessFrame(f) ==
  /\ key # 0 /\ ~Seen(f.seq)
  /\ Record(f.seq)
  /\ IF f.key = key THEN HandleClientPayload(f)
                    ELSE UNCHANGED <<table, worker>>
  /\ UNCHANGED <<client, conns, network, key, reinstalled>>

-----------------------------------------------------------------------------
(* proxy_worker: connect, register, relay, and at the end take the entry   *)
(* of its number out of the table, whoever it belongs to, and send CLOSE.  *)

Register(w) ==
  /\ worker[w].state = "dial"
  /\ table' = [table EXCEPT ![worker[w].sid] = w]
  /\ worker' = [worker EXCEPT ![w].state = "open"]
  /\ UNCHANGED <<client, conns, network, key, filter, reinstalled>>

(* send_aegs_frame, under the keys of the moment.  What is meant for       *)
(* another program does not reach the client.                              *)
Answer(w, cmd) ==
  down' = IF key # 0 /\ Cardinality(down) < MaxDown
          THEN down \cup {[key |-> key, sid |-> worker[w].sid, cmd |-> cmd,
                           from |-> worker[w].conn]}
          ELSE down

RelayBack(w) ==
  /\ worker[w].state = "open"
  /\ Answer(w, "DATA")
  /\ UNCHANGED <<client, conns, inits, resps, up, server, reinstalled>>

(* Mutated form: a worker whose connection failed leaves the table alone.  *)
UnregisterMut(w) == UNCHANGED table
Unregister(w) == table' = [table EXCEPT ![worker[w].sid] = None]

EndWorker(w) ==
  /\ worker[w].state \in {"dial", "open"}
  /\ Unregister(w)
  /\ worker' = [worker EXCEPT ![w].state = "end"]
  /\ UNCHANGED <<client, conns, network, key, filter, reinstalled>>

SayClosed(w) ==
  /\ worker[w].state = "end"
  /\ Answer(w, "CLOSE")
  /\ worker' = [worker EXCEPT ![w] = Idle]
  /\ UNCHANGED <<client, conns, inits, resps, up, key, filter, table,
                 reinstalled>>

(* The network loses a frame of the server; one of the client it merely    *)
(* never delivers.                                                         *)
Lose(f) ==
  /\ down' = down \ {f}
  /\ UNCHANGED <<client, conns, inits, resps, up, server, reinstalled>>

(* select returns with nothing to read.                                    *)
Poll == UNCHANGED vars

Next ==
  \/ StartClient \/ PerformHandshake \/ Accept \/ Chaff
  \/ \E c \in Conns :
       Request(c) \/ Forward(c) \/ HangUp(c) \/ SendClose(c)
  \/ \E f \in down : Receive(f) \/ Lose(f)
  \/ \E e \in Epochs : InstallKeys(e)
  \/ TakeOver
  \/ \E f \in up : ProcessFrame(f)
  \/ \E w \in Workers :
       Register(w) \/ RelayBack(w) \/ EndWorker(w) \/ SayClosed(w)
  \/ Poll

Spec == Init /\ [][Next]_vars

-----------------------------------------------------------------------------
(* The replay filter knows every number that it accepted and that is fewer *)
(* than a byte behind the newest: no shift loses one of these.  Further    *)
(* back it forgets, and takes fresh numbers for seen ones.                 *)
RecentKnown ==
  \A s \in taken : max_seq - s < ByteBits => max_seq - s \in window[0]

(* One connection of an application opens one connection to its            *)
(* destination.  It may open a second only when its CONNECT arrives again  *)
(* a byte of the window later, or after the same INIT arrived again.       *)
Served(c) == {w \in Workers : worker[w].conn = c}
OneWorker ==
  \A c \in Conns :
    (c[1] = key /\ key \notin reinstalled /\ Cardinality(Served(c)) > 1) =>
      \E f \in up : /\ f.conn = c /\ f.cmd = "CONNECT"
                    /\ max_seq - f.seq >= ByteBits

(* An entry of the server's table is a thread that relays, and its socket  *)
(* has not been closed: no DATA is written to a dead connection.           *)
RegisteredAlive ==
  \A s \in Sids : table[s] # None =>
    LET t == worker[table[s]] IN
    t.state = "open" /\ ~t.shut /\ t.sid = s

(* Streams do not mix: what the network holds for a stream reaches the     *)
(* worker, or the connection, that it came from the other end of.  Only    *)
(* across a restart of the client can it reach a stranger, the one that    *)
(* has the same number in another start.                                   *)
StreamsApart ==
  /\ \A f \in up : (f.cmd = "DATA" /\ f.key = key /\ table[f.sid] # None) =>
       LET c == worker[table[f.sid]].conn IN
       c = f.conn \/ (c[1] # f.conn[1] /\ c[2] = f.conn[2])
  /\ \A f \in down : (f.key = epoch /\ streams[f.sid] # None) =>
       LET c == streams[f.sid] IN
       c = f.from \/ (c[1] # f.from[1] /\ c[2] = f.from[2])
=============================================================================
