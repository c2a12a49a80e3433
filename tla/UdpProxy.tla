------------------------------ MODULE UdpProxy ------------------------------
(***************************************************************************)
(* The pure-Python UDP proxy of scripts/quick_client.py on a Linux host:   *)
(* consecutive runs of run_python_proxy with the same local port and the   *)
(* same token, the iptables chains they share, the handshake of each run   *)
(* and the replay filter in front of the local WireGuard socket.           *)
(*                                                                         *)
(* A run executes its iptables commands one subprocess at a time and may   *)
(* be killed between any two of them.  The network loses, repeats, delays  *)
(* and reorders: whatever was sent once may be received at any later time, *)
(* by the run that holds the port then.  The server is external: it        *)
(* answers each HANDSHAKE_INIT it reads with a new key.                    *)
(***************************************************************************)
EXTENDS Naturals, Sequences, FiniteSets

CONSTANTS Servers,   \* addresses a run may be started with
          Window,    \* width of the replay bitmap (64 in the code)
          MaxRuns,   \* bound: runs of the program
          MaxKeys,   \* bound: INITs of one run the server answers
          MaxSeq,    \* bound: frames the server seals with one key
          MaxTx      \* bound: frames a run seals

ASSUME UdpProxyAssumption ==
          /\ Window \in Nat \ {0} /\ MaxRuns \in Nat
          /\ MaxKeys \in Nat /\ MaxSeq \in Nat /\ MaxTx \in Nat

VARIABLES pc,       \* where the current run is
          run,      \* number of the current (or last) run
          dest,     \* its server
          opts,     \* its options: "ks" (--kill-switch), "dns"
          todo,     \* iptables commands it has still to execute
          chain,    \* the two iptables chains of the host
          died,     \* a run with options ended and nobody cleaned up
          attempt,  \* HANDSHAKE_INITs the run has sent
          key,      \* session key of the run, NoKey before the answer
          inited,   \* runs whose HANDSHAKE_INIT is on the network
          issued,   \* keys the server has made for each run
          sent,     \* frames the server has sealed with each key
          tx,       \* client_tx_seq
          last,     \* replay_last_seq
          bitmap,   \* positions of the bits set in replay_bitmap
          wg,       \* wg_client_addr is known
          got       \* frames handed to WireGuard by the run

fwVars   == <<todo, chain, died>>
srvVars  == <<inited, issued, sent>>
rxVars   == <<last, bitmap, wg, got>>
runVars  == <<run, dest, opts>>
vars == <<pc, runVars, fwVars, attempt, key, srvVars, tx, rxVars>>

Options  == {"ks", "dns"}
Runs     == 1..MaxRuns
Keys     == Runs \X (1..MaxKeys)
NoKey    == <<0, 0>>
Frames   == Keys \X (1..MaxSeq)
Attempts == 3

-----------------------------------------------------------------------------
(* iptables: a chain that may be absent, its rules in order, and the jumps *)
(* from OUTPUT.  A command that cannot be executed fails unnoticed.        *)

Absent == [there |-> FALSE, rules |-> <<>>, jumps |-> 0]

Make(c)      == IF c.there THEN c ELSE [c EXCEPT !.there = TRUE]
Add(c, r)    == IF c.there THEN [c EXCEPT !.rules = Append(@, r)] ELSE c
Jump(c)      == IF c.there THEN [c EXCEPT !.jumps = @ + 1] ELSE c
Unjump(c)    == IF c.jumps > 0 THEN [c EXCEPT !.jumps = @ - 1] ELSE c
Flush(c)     == [c EXCEPT !.rules = <<>>]
Delete(c)    == IF c.jumps = 0 /\ c.rules = <<>> THEN Absent ELSE c

Effect(op, c, r) == CASE op = "N" -> Make(c)
                      [] op = "A" -> Add(c, r)
                      [] op = "I" -> Jump(c)
                      [] op = "D" -> Unjump(c)
                      [] op = "F" -> Flush(c)
                      [] op = "X" -> Delete(c)

DROP == "DROP"
Command(op, c, r) == [op |-> op, chain |-> c, rule |-> r]

(* Only the rules that tell destinations apart are kept: loopback, DHCP    *)
(* and replies to established flows are accepted in front of these.        *)
EnableKillswitch(s) == <<Command("N", "ks", DROP), Command("A", "ks", s),
                         Command("A", "ks", DROP), Command("I", "ks", DROP)>>
EnableDnsShield     == <<Command("N", "dns", DROP),
                         Command("A", "dns", DROP),
                         Command("I", "dns", DROP)>>

ArmCommands(s, o) == (IF "ks" \in o THEN EnableKillswitch(s) ELSE <<>>)
                     \o (IF "dns" \in o THEN EnableDnsShield ELSE <<>>)

(* Mutated form: the chain is unlinked and deleted without being emptied.  *)
ClearMut(c) == <<Command("D", c, DROP), Command("X", c, DROP)>>
Clear(c) == <<Command("D", c, DROP), Command("F", c, DROP),
              Command("X", c, DROP)>>

(* disable_killswitch clears both chains when either option was given.     *)
CleanCommands(o) == IF o = {} THEN <<>> ELSE Clear("ks") \o Clear("dns")

Drops(c) == /\ chain[c].jumps > 0
            /\ DROP \in {chain[c].rules[i] : i \in DOMAIN chain[c].rules}

(* The server is reachable when its rule comes before the first DROP.      *)
Blocked(s) ==
  /\ Drops("ks")
  /\ \E i \in DOMAIN chain["ks"].rules :
        /\ chain["ks"].rules[i] = DROP
        /\ \A j \in 1..(i - 1) : chain["ks"].rules[j] # s

-----------------------------------------------------------------------------
(* The replay filter: a window of Window positions below replay_last_seq.  *)

(* check_replay: the sequence number is refused.                           *)
Refused(seq, l, b) == \/ seq = 0
                      \/ seq <= l /\ (l - seq >= Window \/ l - seq \in b)

(* ... and otherwise the window moves, or the bit is set.                  *)
(* Mutated form: bits that leave the window are kept.                      *)
ShiftedMut(b, diff) == {y + diff : y \in b} \cup {0}
Shifted(b, diff) == {x \in {y + diff : y \in b} : x < Window} \cup {0}
(* Mutated form: a jump ahead keeps the bits where they are.               *)
MarkedMut(seq, l, b) == IF seq > l THEN b \cup {0} ELSE b \cup {l - seq}
Marked(seq, l, b)  == IF seq > l THEN Shifted(b, seq - l)
                                 ELSE b \cup {l - seq}

-----------------------------------------------------------------------------
TypeOK ==
  /\ pc \in {"off", "arm", "decoy", "hello", "wait", "token", "run",
              "clean"}
  /\ run \in 0..MaxRuns /\ dest \in Servers /\ opts \subseteq Options
  /\ \A i \in DOMAIN todo : todo[i].chain \in Options
  /\ \A c \in Options : /\ chain[c].jumps \in 0..MaxRuns
                        /\ \A i \in DOMAIN chain[c].rules :
                              chain[c].rules[i] \in Servers \cup {DROP}
                        /\ ~chain[c].there => chain[c] = Absent
  /\ died \in BOOLEAN /\ wg \in BOOLEAN
  /\ attempt \in 0..Attempts /\ key \in Keys \cup {NoKey}
  /\ inited \subseteq Runs /\ issued \in [Runs -> 0..MaxKeys]
  /\ sent \in [Keys -> 0..MaxSeq] /\ tx \in 0..MaxTx
  /\ last \in 0..MaxSeq /\ bitmap \subseteq 0..(Window - 1)
  /\ got \subseteq Frames

FreshRun == /\ attempt' = 0 /\ key' = NoKey /\ tx' = 0
            /\ last' = 0 /\ bitmap' = {} /\ wg' = FALSE /\ got' = {}

Init == /\ pc = "off" /\ run = 0 /\ dest \in Servers /\ opts = {}
        /\ todo = <<>> /\ chain = [c \in Options |-> Absent]
        /\ died = FALSE /\ attempt = 0 /\ key = NoKey
        /\ inited = {} /\ issued = [r \in Runs |-> 0]
        /\ sent = [k \in Keys |-> 0] /\ tx = 0
        /\ last = 0 /\ bitmap = {} /\ wg = FALSE /\ got = {}

-----------------------------------------------------------------------------
(* The command line starts a run; the server's name has been resolved.     *)
Start(s, o) ==
  /\ pc = "off" /\ run < MaxRuns
  /\ pc' = "arm" /\ run' = run + 1 /\ dest' = s /\ opts' = o
  /\ todo' = ArmCommands(s, o)
  /\ FreshRun
  /\ UNCHANGED <<chain, died, srvVars>>

(* One subprocess.run of iptables.                                         *)
Iptables ==
  /\ todo # <<>>
  /\ LET c == Head(todo)
     IN chain' = [chain EXCEPT ![c.chain] = Effect(c.op, @, c.rule)]
  /\ todo' = Tail(todo)
  /\ UNCHANGED <<pc, runVars, died, attempt, key, srvVars, tx, rxVars>>

(* The run ends without its finally clause: an exception before the try,   *)
(* or a kill.  The rules it has put in place stay.                         *)
Die == /\ pc' = "off" /\ todo' = <<>>
       /\ died' = (died \/ opts # {})
       /\ UNCHANGED <<runVars, chain, attempt, key, srvVars, tx, rxVars>>

Kill == pc # "off" /\ Die

(* The local port is bound; or it is taken, which ends the run.            *)
Bind == /\ pc = "arm" /\ todo = <<>>
        /\ \/ /\ pc' = "decoy"
              /\ UNCHANGED <<runVars, fwVars, attempt, key, srvVars, tx,
                             rxVars>>
           \/ Die

(* send_illusion_sequence: decoys are sent that nobody needs to answer; a  *)
(* failing send, and any packet that comes in between, are ignored.        *)
Decoys == /\ pc = "decoy"
          /\ pc' = "hello"
          /\ UNCHANGED <<runVars, fwVars, attempt, key, srvVars, tx, rxVars>>

(* sendto raises OSError on a filtered address, and may raise on others    *)
(* (the socket is bound to the loopback address).                          *)
SendInit ==
  /\ pc = "hello" /\ attempt < Attempts
  /\ \/ /\ ~Blocked(dest)
        /\ pc' = "wait" /\ attempt' = attempt + 1
        /\ inited' = inited \cup {run}
        /\ UNCHANGED <<runVars, fwVars, key, issued, sent, tx, rxVars>>
     \/ Die

GiveUp == pc = "hello" /\ attempt = Attempts /\ Die

(* Answers that decrypt: those to the ephemeral key of this run.           *)
Answers == {k \in Keys : k[1] = run /\ k[2] <= issued[run]}

GetAnswer(k) ==
  /\ pc = "wait" /\ k \in Answers
  /\ key' = k /\ pc' = "token"
  /\ UNCHANGED <<runVars, fwVars, attempt, srvVars, tx, rxVars>>

(* Mutated form: an attempt that reads something else is not counted.      *)
NoAnswerMut ==
  /\ pc = "wait"
  /\ pc' = "hello" /\ attempt' = attempt - 1
  /\ UNCHANGED <<runVars, fwVars, key, srvVars, tx, rxVars>>
(* Three seconds pass, or any other packet is read: the next attempt.      *)
NoAnswer ==
  /\ pc = "wait"
  /\ pc' = "hello"
  /\ UNCHANGED <<runVars, fwVars, attempt, key, srvVars, tx, rxVars>>

(* Half a second for a resumption token; whatever is read is discarded.    *)
Token ==
  /\ pc = "token"
  /\ pc' = "run"
  /\ UNCHANGED <<runVars, fwVars, attempt, key, srvVars, tx, rxVars>>

-----------------------------------------------------------------------------
(* The loop under try/finally.                                             *)
Stop == /\ pc = "run"
        /\ pc' = "clean" /\ todo' = CleanCommands(opts)
        /\ UNCHANGED <<runVars, chain, died, attempt, key, srvVars, tx,
                       rxVars>>

(* A packet of WireGuard is sealed and sent; an OSError leaves the loop    *)
(* through the finally clause, with the address learned and the number     *)
(* used.                                                                   *)
Outbound ==
  /\ pc = "run" /\ tx < MaxTx
  /\ wg' = TRUE /\ tx' = tx + 1
  /\ \/ ~Blocked(dest) /\ UNCHANGED <<pc, todo>>
     \/ pc' = "clean" /\ todo' = CleanCommands(opts)
  /\ UNCHANGED <<runVars, chain, died, attempt, key, srvVars, last, bitmap,
                 got>>

(* An idle run sends chaff; a failing send is ignored.                     *)
Chaff ==
  /\ pc = "run" /\ tx < MaxTx
  /\ tx' = tx + 1
  /\ UNCHANGED <<pc, runVars, fwVars, attempt, key, srvVars, rxVars>>

(* A frame of the server, of this run's key or of an earlier one: all have *)
(* the header of the token.  The window moves before the frame is          *)
(* decrypted, and also while no WireGuard address is known.                *)
Inbound(k, s) ==
  /\ pc = "run" /\ s \in 1..sent[k]
  /\ ~Refused(s, last, bitmap)
  /\ bitmap' = Marked(s, last, bitmap)
  /\ last' = IF s > last THEN s ELSE last
  /\ got' = IF k = key /\ wg THEN got \cup {<<k, s>>} ELSE got
  /\ UNCHANGED <<pc, runVars, fwVars, attempt, key, srvVars, tx, wg>>

(* The end of the finally clause.                                          *)
Cleaned == /\ pc = "clean" /\ todo = <<>>
           /\ pc' = "off" /\ died' = (died /\ opts = {})
           /\ UNCHANGED <<runVars, todo, chain, attempt, key, srvVars, tx,
                          rxVars>>

-----------------------------------------------------------------------------
(* The server (external): a new key for each INIT it reads, and frames.    *)
Answer(r) == /\ r \in inited /\ issued[r] < MaxKeys
             /\ issued' = [issued EXCEPT ![r] = @ + 1]
             /\ UNCHANGED <<pc, runVars, fwVars, attempt, key, inited, sent,
                            tx, rxVars>>

Seal(k) == /\ k[2] <= issued[k[1]] /\ sent[k] < MaxSeq
           /\ sent' = [sent EXCEPT ![k] = @ + 1]
           /\ UNCHANGED <<pc, runVars, fwVars, attempt, key, inited, issued,
                          tx, rxVars>>

(* Rules are not saved: the host restarts without them.                    *)
Reboot == /\ pc' = "off" /\ todo' = <<>> /\ died' = FALSE
          /\ chain' = [c \in Options |-> Absent]
          /\ UNCHANGED <<runVars, attempt, key, srvVars, tx, rxVars>>

Next == \/ \E s \in Servers, o \in SUBSET Options : Start(s, o)
        \/ Iptables \/ Kill \/ Bind \/ Decoys \/ SendInit \/ GiveUp
        \/ \E k \in Keys : GetAnswer(k)
        \/ NoAnswer \/ Token \/ Stop \/ Outbound \/ Chaff
        \/ \E k \in Keys, s \in 1..MaxSeq : Inbound(k, s)
        \/ Cleaned \/ Reboot
        \/ \E r \in Runs : Answer(r)
        \/ \E k \in Keys : Seal(k)

Spec == Init /\ [][Next]_vars

(* A started run goes on: a subprocess returns, select wakes up.           *)
Fairness == /\ WF_vars(Iptables) /\ WF_vars(Bind) /\ WF_vars(Decoys)
            /\ WF_vars(SendInit) /\ WF_vars(GiveUp) /\ WF_vars(NoAnswer)
            /\ WF_vars(Token) /\ WF_vars(Cleaned)

LiveSpec == Spec /\ Fairness

-----------------------------------------------------------------------------
(* quick_client.py:269-281 and 585-587: when no run is active and traffic  *)
(* is still dropped, a run with options died and none that was given an    *)
(* option has ended in an orderly way since: a clean-up opens the host     *)
(* again whatever runs before it left behind.                              *)
BlockedMeansDied ==
  pc = "off" /\ (Drops("ks") \/ Drops("dns")) => died

(* quick_client.py:454-472: what was handed to WireGuard would be refused  *)
(* if it came again, whatever arrived in between.                          *)
DeliveredOnce == \A f \in got : Refused(f[2], last, bitmap)

(* quick_client.py:319-384: a started run reaches its loop or ends: late   *)
(* packets at its port cannot hold it in the handshake for ever.           *)
HandshakeEnds == pc = "arm" ~> pc \in {"run", "off"}
=============================================================================
