------------------------------- MODULE Gateway -------------------------------
(***************************************************************************)
(* aegs_tunnel_gateway.py: a client that offers SOCKS on its host and      *)
(* carries every connection as a numbered stream of UDP frames, and a      *)
(* server for one client at a time that opens the connections.             *)
(*                                                                         *)
(* The server accepts any HANDSHAKE_INIT of the token, a repeated or late  *)
(* one too, and takes its keys; the set of the sequence numbers it has     *)
(* seen is kept over handshakes.  The network may deliver what was sent at *)
(* any later time, again, out of order or never.  Client and server may    *)
(* stop and start again.  Each start of the client has a port of its own,  *)
(* so that only frames sent to it reach it.                                *)
(***************************************************************************)
EXTENDS Naturals, FiniteSets

CONSTANTS Workers,   \* proxy_worker threads of the server
          MaxRuns,   \* bound: starts of the client
          MaxServer, \* bound: starts of the server
          MaxSid,    \* bound: SOCKS connections of one start
          MaxSeq,    \* bound: frames of one start
          MaxUp,     \* bound: frames of all starts
          MaxDown,   \* bound: different CLOSE frames of the server
          None

ASSUME GatewayAssumption ==
          /\ MaxRuns \in Nat /\ MaxServer \in Nat \ {0}
          /\ MaxSid \in Nat \ {0} /\ MaxSeq \in Nat
          /\ MaxUp \in Nat /\ MaxDown \in Nat
          /\ None \notin Workers

VARIABLES run,      \* the client's start
          cl,       \* the client: off, waiting for the answer, up
          ckey,     \* the client's keys, NoKey before the answer
          tx,       \* its tx_seq
          conn,     \* its SOCKS connections, by stream number
          local,    \* its streams table
          inits,    \* starts whose HANDSHAKE_INIT is on the network
          answers,  \* keys whose HANDSHAKE_RESP is
          up,       \* frames of clients on the network
          down,     \* CLOSE frames of the server on the network
          boot,     \* the server's start: it draws server_priv
          skey,     \* the keys the server has installed
          seen,     \* seen_seqs
          streams,  \* the server's streams table
          worker,   \* the server's threads
          done,     \* history: frames handled
          again     \* history: frames handled more than once

client == <<run, cl, ckey, tx, conn, local>>
net    == <<inits, answers, up, down>>
server == <<boot, skey, seen, streams, worker>>
hist   == <<done, again>>
vars   == <<client, net, server, hist>>

Runs   == 1..MaxRuns
Sids   == 1..MaxSid
Keys   == Runs \X (1..MaxServer)
NoKey  == <<0, 0>>
Cmds   == {"CONNECT", "DATA", "CLOSE"}
Frames == [key : Keys, seq : 1..MaxSeq, cmd : Cmds, sid : Sids]
Closes == [key : Keys, sid : Sids]
Idle   == [at |-> "idle", sid |-> 1]

TypeOK ==
  /\ run \in 0..MaxRuns /\ cl \in {"off", "wait", "up"}
  /\ ckey \in Keys \cup {NoKey}
  /\ (cl = "up" => ckey \in Keys /\ ckey[1] = run)
  /\ tx \in 0..MaxSeq /\ local \subseteq Sids
  /\ conn \in [Sids -> {"none", "accepted", "open", "ended"}]
  /\ \A s \in local : conn[s] \in {"accepted", "open"}
  /\ inits \subseteq Runs /\ answers \subseteq Keys
  /\ up \subseteq Frames /\ down \subseteq Closes
  /\ boot \in 1..MaxServer /\ seen \subseteq 1..MaxSeq
  /\ skey \in {k \in Keys : k[2] = boot} \cup {NoKey}
  /\ streams \in [Sids -> Workers \cup {None}]
  /\ worker \in [Workers -> [at : {"idle", "connecting", "open"},
                             sid : Sids]]
  /\ again \subseteq done /\ done \subseteq up

Nobody == [s \in Sids |-> None]
AllIdle == [w \in Workers |-> Idle]

Init == /\ run = 0 /\ cl = "off" /\ ckey = NoKey /\ tx = 0
        /\ conn = [s \in Sids |-> "none"] /\ local = {}
        /\ inits = {} /\ answers = {} /\ up = {} /\ down = {}
        /\ boot = 1 /\ skey = NoKey /\ seen = {}
        /\ streams = Nobody /\ worker = AllIdle
        /\ done = {} /\ again = {}

-----------------------------------------------------------------------------
(* The client.                                                             *)

(* One HANDSHAKE_INIT with a new ephemeral key is sent.                    *)
Start == /\ cl = "off" /\ run < MaxRuns
         /\ run' = run + 1 /\ cl' = "wait" /\ ckey' = NoKey /\ tx' = 0
         /\ conn' = [s \in Sids |-> "none"] /\ local' = {}
         /\ inits' = inits \cup {run + 1}
         /\ UNCHANGED <<answers, up, down, server, hist>>

Answered(k) == /\ cl = "wait" /\ k \in answers /\ k[1] = run
               /\ cl' = "up" /\ ckey' = k
               /\ UNCHANGED <<run, tx, conn, local, net, server, hist>>

(* Four seconds pass, or the program is stopped: its connections go too.   *)
Leave == /\ cl # "off"
         /\ cl' = "off" /\ local' = {}
         /\ UNCHANGED <<run, ckey, tx, conn, net, server, hist>>

(* A connection is accepted: stream_counter is the number of those before. *)
Accept(s) == /\ cl = "up" /\ conn[s] = "none"
             /\ \A t \in 1..(s - 1) : conn[t] # "none"
             /\ conn' = [conn EXCEPT ![s] = "accepted"]
             /\ local' = local \cup {s}
             /\ UNCHANGED <<run, cl, ckey, tx, net, server, hist>>

Live == {s \in Sids : conn[s] \in {"accepted", "open"}}

(* send_aegs_packet increments tx_seq and reads it again without a lock:   *)
(* two threads may seal with the same number.                              *)
Numbers == {tx + 1} \cup (IF tx > 0 /\ Cardinality(Live) > 1
                          THEN {tx} ELSE {})

Send(s, cmd) ==
  /\ Cardinality(up) < MaxUp
  /\ \E n \in Numbers \cap (1..MaxSeq) :
        /\ tx' = n
        /\ up' = up \cup {[key |-> ckey, seq |-> n, cmd |-> cmd, sid |-> s]}

(* The SOCKS request is read: the application is told of success at once.  *)
Request(s) == /\ cl = "up" /\ conn[s] = "accepted"
              /\ Send(s, "CONNECT")
              /\ conn' = [conn EXCEPT ![s] = "open"]
              /\ UNCHANGED <<run, cl, ckey, local, inits, answers, down,
                             server, hist>>

Upload(s) == /\ cl = "up" /\ conn[s] = "open"
             /\ Send(s, "DATA")
             /\ UNCHANGED <<run, cl, ckey, conn, local, inits, answers, down,
                            server, hist>>

(* The thread ends, for an unsupported request, the application's end or   *)
(* an error; it closes a stream that it may not have opened.               *)
End(s) == /\ cl = "up" /\ s \in Live
          /\ Send(s, "CLOSE")
          /\ conn' = [conn EXCEPT ![s] = "ended"]
          /\ local' = local \ {s}
          /\ UNCHANGED <<run, cl, ckey, inits, answers, down, server, hist>>

(* udp_receiver: a CLOSE for a stream in the table.  The thread that reads *)
(* the application need not notice.  A DATA frame is written to the        *)
(* application, whose state is not modelled.                               *)
Closed(f) == /\ cl = "up" /\ f \in down /\ f.key = ckey
             /\ f.sid \in local
             /\ local' = local \ {f.sid}
             /\ UNCHANGED <<run, cl, ckey, tx, conn, net, server, hist>>

-----------------------------------------------------------------------------
(* The server.                                                             *)

(* Mutated form: server_priv is the same at every start of the server.     *)
ExchangedMut(r) == <<r, 1>>
(* The secret of the client's ephemeral key and the server's.              *)
Exchanged(r) == <<r, boot>>

(* Mutated form: the numbers seen are forgotten with the old keys.         *)
HandshakeMut(r) ==
  /\ r \in inits
  /\ skey' = Exchanged(r) /\ seen' = {}
  /\ answers' = answers \cup {Exchanged(r)}
  /\ UNCHANGED <<client, inits, up, down, boot, streams, worker, hist>>
(* A HANDSHAKE_INIT of the token.                                          *)
Handshake(r) ==
  /\ r \in inits
  /\ skey' = Exchanged(r)
  /\ answers' = answers \cup {Exchanged(r)}
  /\ UNCHANGED <<client, inits, up, down, boot, seen, streams, worker, hist>>

(* handle_client_payload: CONNECT starts a thread; DATA is written to the  *)
(* remote socket, if it is registered; CLOSE unregisters and closes it,    *)
(* which the thread blocked on it need not notice.                         *)
Handle(f) ==
  \/ /\ f.cmd = "CONNECT"
     /\ \E w \in Workers :
           /\ worker[w] = Idle
           /\ worker' = [worker EXCEPT
                           ![w] = [at |-> "connecting", sid |-> f.sid]]
     /\ UNCHANGED streams
  \/ f.cmd = "DATA" /\ UNCHANGED <<streams, worker>>
  \/ /\ f.cmd = "CLOSE"
     /\ streams' = [streams EXCEPT ![f.sid] = None]
     /\ UNCHANGED worker

(* A data frame: its number is noted before it is decrypted.               *)
Receive(f) ==
  /\ skey # NoKey /\ f \in up /\ f.seq \notin seen
  /\ seen' = seen \cup {f.seq}
  /\ IF f.key = skey
     THEN /\ Handle(f)
          /\ done' = done \cup {f}
          /\ again' = again \cup (done \cap {f})
     ELSE UNCHANGED <<streams, worker, hist>>
  /\ UNCHANGED <<client, net, boot, skey>>

(* proxy_worker: the remote connection is made and registered, over        *)
(* whatever the number stood for.  Its data go to the client that          *)
(* connected last.                                                         *)
Connected(w) == /\ worker[w].at = "connecting"
                /\ worker' = [worker EXCEPT ![w].at = "open"]
                /\ streams' = [streams EXCEPT ![worker[w].sid] = w]
                /\ UNCHANGED <<client, net, boot, skey, seen, hist>>

(* Mutated form: the thread leaves its number in the table.                *)
FinishMut(w) ==
  /\ worker[w].at # "idle"
  /\ worker' = [worker EXCEPT ![w] = Idle]
  /\ UNCHANGED <<client, net, boot, skey, seen, streams, hist>>
(* The finally clause: whatever is registered under the number goes, and a *)
(* CLOSE is sent to the client that connected last.                        *)
Finish(w) == /\ worker[w].at # "idle"
             /\ worker' = [worker EXCEPT ![w] = Idle]
             /\ streams' = [streams EXCEPT ![worker[w].sid] = None]
             /\ down' = IF skey = NoKey THEN down
                        ELSE down \cup {[key |-> skey,
                                         sid |-> worker[w].sid]}
             /\ Cardinality(down') <= MaxDown
             /\ UNCHANGED <<client, inits, answers, up, boot, skey, seen,
                            hist>>

(* The server stops and is started again, with a new server_priv.          *)
Restart == /\ boot < MaxServer
           /\ boot' = boot + 1 /\ skey' = NoKey /\ seen' = {}
           /\ streams' = Nobody /\ worker' = AllIdle
           /\ UNCHANGED <<client, net, hist>>

(* The server waits for a datagram.                                        *)
Poll == UNCHANGED vars

Next == \/ Start \/ Leave \/ Restart \/ Poll
        \/ \E k \in Keys : Answered(k)
        \/ \E s \in Sids : Accept(s) \/ Request(s) \/ Upload(s) \/ End(s)
        \/ \E f \in down : Closed(f)
        \/ \E r \in Runs : Handshake(r)
        \/ \E f \in up : Receive(f)
        \/ \E w \in Workers : Connected(w) \/ Finish(w)

Spec == Init /\ [][Next]_vars

-----------------------------------------------------------------------------
(* aegs_tunnel_gateway.py:171-174: the server handles a frame at most once *)
(* and so opens one connection for a SOCKS request, although handshakes    *)
(* are repeated, old keys come back and the server forgets at a restart.   *)
HandledOnce == again = {}

(* aegs_tunnel_gateway.py:230-249: the socket that is registered under a   *)
(* number belongs to a running thread: no data are written to a socket     *)
(* that its thread has closed, though restarts reuse the numbers.          *)
RegisteredOpen ==
  \A s \in Sids : streams[s] # None =>
     worker[streams[s]] = [at |-> "open", sid |-> s]
=============================================================================
