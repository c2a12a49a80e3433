---------------------------- MODULE UdpProxyProofs ----------------------------
(***************************************************************************)
(* Proofs about the UDP proxy, for any width of the window and any number  *)
(* of runs, keys and frames: the replay filter, and the iptables chains    *)
(* that consecutive runs share.                                            *)
(***************************************************************************)
EXTENDS UdpProxy, SequenceTheorems, TLAPS

-----------------------------------------------------------------------------
(* The replay filter.                                                      *)

FilterTyped == /\ last \in Nat /\ bitmap \subseteq 0..(Window - 1)
               /\ \A f \in got : f[2] \in Nat

(* A number below the window or set in it stays so, however far the window *)
(* moves.                                                                  *)
LEMMA RefusedForEver ==
  ASSUME NEW l \in Nat, NEW b \in SUBSET (0..(Window - 1)),
         NEW n \in Nat, NEW s \in Nat, Refused(n, l, b)
  PROVE  Refused(n, IF s > l THEN s ELSE l, Marked(s, l, b))
<1>1. CASE s > l
  <2>1. \/ n = 0
        \/ n <= l /\ l - n >= Window
        \/ n <= l /\ l - n \in b
    BY DEF Refused
  <2>2. CASE n <= l /\ l - n \in b
    <3>1. s - n = (l - n) + (s - l) /\ l - n \in 0..(Window - 1)
      BY <2>2
    <3>2. s - n < Window => s - n \in Shifted(b, s - l)
      BY <2>2, <3>1 DEF Shifted
    <3>3. QED
      BY <1>1, <2>2, <3>2, UdpProxyAssumption DEF Refused, Marked
  <2>3. CASE n <= l /\ l - n >= Window
    BY <1>1, <2>3, UdpProxyAssumption DEF Refused
  <2>4. CASE n = 0
    BY <2>4 DEF Refused
  <2>5. QED
    BY <2>1, <2>2, <2>3, <2>4
<1>2. CASE ~(s > l)
  BY <1>2 DEF Refused, Marked
<1>3. QED
  BY <1>1, <1>2

(* A number that is accepted is refused from then on.                      *)
LEMMA AcceptedIsRefused ==
  ASSUME NEW l \in Nat, NEW b, NEW s \in Nat
  PROVE  Refused(s, IF s > l THEN s ELSE l, Marked(s, l, b))
BY UdpProxyAssumption DEF Refused, Marked, Shifted

LEMMA MarkedTyped ==
  ASSUME NEW l \in Nat, NEW b \in SUBSET (0..(Window - 1)), NEW s \in Nat,
         ~Refused(s, l, b)
  PROVE  Marked(s, l, b) \subseteq 0..(Window - 1)
<1>1. CASE s > l
  <2>1. ASSUME NEW y \in b, y + (s - l) < Window
        PROVE  y + (s - l) \in 0..(Window - 1)
    BY <1>1, <2>1, UdpProxyAssumption
  <2>2. QED
    BY <1>1, <2>1, UdpProxyAssumption DEF Marked, Shifted
<1>2. CASE ~(s > l)
  <2>1. l - s \in 0..(Window - 1)
    BY <1>2, UdpProxyAssumption DEF Refused
  <2>2. QED
    BY <1>2, <2>1 DEF Marked
<1>3. QED
  BY <1>1, <1>2

Filter == FilterTyped /\ DeliveredOnce

LEMMA FilterInit == Init => Filter
BY DEF Init, Filter, FilterTyped, DeliveredOnce

LEMMA FilterStep == Filter /\ [Next]_vars => Filter'
<1> SUFFICES ASSUME Filter, [Next]_vars PROVE Filter'
  OBVIOUS
<1>1. CASE UNCHANGED <<last, bitmap, got>>
  BY <1>1 DEF Filter, FilterTyped, DeliveredOnce
<1>2. CASE last' = 0 /\ bitmap' = {} /\ got' = {}
  BY <1>2 DEF Filter, FilterTyped, DeliveredOnce
<1>3. ASSUME NEW k \in Keys, NEW s \in 1..MaxSeq, Inbound(k, s)
      PROVE  Filter'
  <2>1. s \in Nat /\ last \in Nat /\ bitmap \in SUBSET (0..(Window - 1))
    BY UdpProxyAssumption DEF Filter, FilterTyped
  <2>2. /\ last' = (IF s > last THEN s ELSE last)
        /\ bitmap' = Marked(s, last, bitmap)
        /\ got' \subseteq got \cup {<<k, s>>}
        /\ ~Refused(s, last, bitmap)
    BY <1>3 DEF Inbound
  <2>3. FilterTyped'
    BY <2>1, <2>2, MarkedTyped DEF Filter, FilterTyped
  <2>4. ASSUME NEW f \in got' PROVE Refused(f[2], last', bitmap')
    <3>1. CASE f \in got
      <4>1. f[2] \in Nat /\ Refused(f[2], last, bitmap)
        BY <3>1 DEF Filter, FilterTyped, DeliveredOnce
      <4>2. QED
        BY <4>1, <2>1, <2>2, RefusedForEver
    <3>2. CASE f = <<k, s>>
      BY <3>2, <2>1, <2>2, AcceptedIsRefused
    <3>3. QED
      BY <2>2, <3>1, <3>2
  <2>5. QED
    BY <2>3, <2>4 DEF Filter, DeliveredOnce
<1>4. QED
  BY <1>1, <1>2, <1>3
     DEF Next, Start, FreshRun, Iptables, Kill, Die, Bind, Decoys, SendInit,
         GiveUp, GetAnswer, NoAnswer, Token, Stop, Outbound, Chaff, Cleaned,
         Reboot, Answer, Seal, vars, rxVars

(* DeliveredOnce: what WireGuard was given is refused if it comes again.   *)
THEOREM FramesDeliveredOnce == Spec => []DeliveredOnce
<1>1. Filter => DeliveredOnce
  BY DEF Filter
<1>2. QED
  BY <1>1, FilterInit, FilterStep, PTL DEF Spec

-----------------------------------------------------------------------------
(* The chains.                                                             *)

NoRules == \A c \in Options : chain[c].rules = <<>>
Flushes(i, c) == todo[i].op = "F" /\ todo[i].chain = c

CommandSet == [op : {"N", "A", "I", "D", "F", "X"}, chain : Options,
               rule : Servers \cup {DROP}]
ChainSet   == [there : BOOLEAN, rules : Seq(Servers \cup {DROP}),
               jumps : Nat]

(* The invariant behind BlockedMeansDied.  A run without options executes  *)
(* nothing; a clean-up only takes away, and each chain it has not emptied  *)
(* yet is one it is still going to empty.                                  *)
Chains ==
  /\ todo \in Seq(CommandSet) /\ chain \in [Options -> ChainSet]
  /\ opts \subseteq Options
  /\ died \in BOOLEAN
  /\ pc = "off" \/ opts = {} => todo = <<>>
  /\ (pc = "off" \/ opts = {}) /\ ~died => NoRules
  /\ pc = "clean" =>
        \A i \in DOMAIN todo : todo[i].op \in {"D", "F", "X"}
  /\ pc = "clean" /\ opts # {} =>
        \A c \in Options : \/ chain[c].rules = <<>>
                           \/ \E i \in DOMAIN todo : Flushes(i, c)

LEMMA NothingTyped ==
  /\ Absent \in ChainSet /\ Absent.rules = <<>>
  /\ <<>> \in Seq(CommandSet)
<1>1. <<>> \in Seq(Servers \cup {DROP}) /\ <<>> \in Seq(CommandSet)
  OBVIOUS
<1>2. QED
  BY <1>1 DEF Absent, ChainSet

LEMMA ChainsInit == Init => Chains
<1> SUFFICES ASSUME Init PROVE Chains
  OBVIOUS
<1>1. /\ todo = <<>> /\ opts = {} /\ died = FALSE /\ pc = "off"
      /\ chain = [c \in Options |-> Absent]
  BY DEF Init
<1>2. NoRules
  BY <1>1, NothingTyped DEF NoRules
<1>3. QED
  BY <1>1, <1>2, NothingTyped DEF Chains

LEMMA CommandsTyped ==
  ASSUME NEW s \in Servers, NEW o \in SUBSET Options
  PROVE  /\ ArmCommands(s, o) \in Seq(CommandSet)
         /\ o = {} => ArmCommands(s, o) = <<>>
<1>1. EnableKillswitch(s) \in Seq(CommandSet)
  BY DEF EnableKillswitch, Command, CommandSet, Options
<1>2. EnableDnsShield \in Seq(CommandSet)
  BY DEF EnableDnsShield, Command, CommandSet, Options
<1>3. QED
  BY <1>1, <1>2 DEF ArmCommands, Options

LEMMA CleanCommandsTyped ==
  ASSUME NEW o \in SUBSET Options
  PROVE  CleanCommands(o) \in Seq(CommandSet)
<1>1. ASSUME NEW c \in Options PROVE Clear(c) \in Seq(CommandSet)
  BY DEF Clear, Command, CommandSet, Options
<1>2. QED
  BY <1>1 DEF CleanCommands, Options

LEMMA TwoThrees ==
  ASSUME NEW S, NEW a \in Seq(S), NEW b \in Seq(S), Len(a) = 3, Len(b) = 3
  PROVE  /\ DOMAIN (a \o b) = 1..6
         /\ \A i \in 1..6 : (a \o b)[i] = IF i <= 3 THEN a[i] ELSE b[i - 3]
<1>1. /\ a \o b \in Seq(S)
      /\ Len(a \o b) = Len(a) + Len(b)
      /\ \A i \in 1..(Len(a) + Len(b)) : (a \o b)[i] =
            IF i <= Len(a) THEN a[i] ELSE b[i - Len(a)]
  BY ConcatProperties, Zenon
<1> DEFINE ab == a \o b
<1>2. /\ ab \in Seq(S) /\ Len(ab) = 6
      /\ \A i \in 1..6 : ab[i] = IF i <= 3 THEN a[i] ELSE b[i - 3]
  BY <1>1
<1> HIDE DEF ab
<1>3. DOMAIN ab = 1..6
  BY <1>2
<1>4. QED
  BY <1>2, <1>3 DEF ab

(* What a clean-up is going to do.                                         *)
LEMMA CleanCommandsClean ==
  ASSUME NEW o \in SUBSET Options, o # {}
  PROVE  /\ \A i \in DOMAIN CleanCommands(o) :
               CleanCommands(o)[i].op \in {"D", "F", "X"}
         /\ \A c \in Options : \E i \in DOMAIN CleanCommands(o) :
               /\ CleanCommands(o)[i].op = "F"
               /\ CleanCommands(o)[i].chain = c
<1> DEFINE both == Clear("ks") \o Clear("dns")
<1>1. CleanCommands(o) = both
  BY DEF CleanCommands
<1>2. /\ Len(Clear("ks")) = 3 /\ Len(Clear("dns")) = 3
      /\ Clear("ks") \in Seq(CommandSet) /\ Clear("dns") \in Seq(CommandSet)
  BY DEF Clear, Command, CommandSet, Options
<1>3. /\ DOMAIN both = 1..6
      /\ \A i \in 1..6 :
            both[i] = IF i <= 3 THEN Clear("ks")[i] ELSE Clear("dns")[i - 3]
  BY <1>2, TwoThrees, Zenon
<1> HIDE DEF both
<1>4. \A c \in Options : /\ Clear(c)[1].op = "D" /\ Clear(c)[2].op = "F"
                         /\ Clear(c)[3].op = "X" /\ Clear(c)[2].chain = c
  BY DEF Clear, Command
<1>5. \A i \in 1..6 : both[i].op \in {"D", "F", "X"}
  BY <1>3, <1>4 DEF Options
<1>6. /\ both[2].op = "F" /\ both[2].chain = "ks"
      /\ both[5].op = "F" /\ both[5].chain = "dns"
  BY <1>3, <1>4 DEF Options
<1>7. /\ \A i \in DOMAIN both : both[i].op \in {"D", "F", "X"}
      /\ \A c \in Options : \E i \in DOMAIN both :
            both[i].op = "F" /\ both[i].chain = c
  BY <1>3, <1>5, <1>6 DEF Options
<1> QED
  BY <1>1, <1>7

(* Commands that only take away empty no chain that they do not flush.     *)
LEMMA TakesAway ==
  ASSUME NEW c \in ChainSet, NEW r, NEW op \in {"D", "F", "X"}
  PROVE  /\ Effect(op, c, r) \in ChainSet
         /\ c.rules = <<>> => Effect(op, c, r).rules = <<>>
         /\ Effect("F", c, r).rules = <<>>
<1>1. Flush(c) \in ChainSet /\ Flush(c).rules = <<>>
  <2>1. <<>> \in Seq(Servers \cup {DROP})
    OBVIOUS
  <2>2. QED
    BY <2>1 DEF Flush, ChainSet
<1>2. Unjump(c) \in ChainSet /\ Unjump(c).rules = c.rules
  BY DEF Unjump, ChainSet
<1>3. Delete(c) \in ChainSet /\ (c.rules = <<>> => Delete(c).rules = <<>>)
  BY NothingTyped DEF Delete
<1>4. QED
  BY <1>1, <1>2, <1>3 DEF Effect

LEMMA PutsTogether ==
  ASSUME NEW c \in ChainSet, NEW r \in Servers \cup {DROP},
         NEW op \in {"N", "A", "I"}
  PROVE  Effect(op, c, r) \in ChainSet
<1>1. Make(c) \in ChainSet
  BY DEF Make, ChainSet
<1>2. Jump(c) \in ChainSet
  BY DEF Jump, ChainSet
<1>3. Add(c, r) \in ChainSet
  <2>1. Append(c.rules, r) \in Seq(Servers \cup {DROP})
    BY DEF ChainSet
  <2>2. QED
    BY <2>1 DEF Add, ChainSet
<1>4. QED
  BY <1>1, <1>2, <1>3 DEF Effect

LEMMA IptablesHolds == Chains /\ Iptables => Chains'
<1> SUFFICES ASSUME Chains, Iptables PROVE Chains'
  OBVIOUS
<1> DEFINE h == Head(todo)
<1>1. /\ todo \in Seq(CommandSet) /\ todo # <<>> /\ todo' = Tail(todo)
      /\ UNCHANGED <<pc, opts, died>> /\ opts # {} /\ pc # "off"
  BY DEF Iptables, Chains, runVars
<1>2. /\ h \in CommandSet /\ h = todo[1] /\ Tail(todo) \in Seq(CommandSet)
      /\ \A i \in 1..(Len(todo) - 1) : Tail(todo)[i] = todo[i + 1]
      /\ Len(Tail(todo)) = Len(todo) - 1
  BY <1>1, HeadTailProperties
<1>3. DOMAIN todo = 1..Len(todo) /\ DOMAIN todo' = 1..(Len(todo) - 1)
      /\ Len(todo) \in Nat \ {0}
  BY <1>1, <1>2
<1>4. chain' = [chain EXCEPT
                  ![h.chain] = Effect(h.op, chain[h.chain], h.rule)]
  BY DEF Iptables
<1>5. h.chain \in Options /\ h.rule \in Servers \cup {DROP}
      /\ h.op \in {"N", "A", "I", "D", "F", "X"}
  BY <1>2 DEF CommandSet
<1>6. chain \in [Options -> ChainSet]
  BY DEF Chains
<1>7. chain' \in [Options -> ChainSet]
  <2>1. Effect(h.op, chain[h.chain], h.rule) \in ChainSet
    BY <1>5, <1>6, TakesAway, PutsTogether
  <2>2. QED
    BY <2>1, <1>4, <1>6
<1>8. ASSUME pc = "clean"
      PROVE  /\ \A i \in DOMAIN todo' : todo'[i].op \in {"D", "F", "X"}
             /\ \A c \in Options : \/ chain'[c].rules = <<>>
                                   \/ \E i \in DOMAIN todo' : Flushes(i, c)'
  <2>1. /\ \A i \in DOMAIN todo : todo[i].op \in {"D", "F", "X"}
        /\ \A c \in Options : \/ chain[c].rules = <<>>
                              \/ \E i \in DOMAIN todo : Flushes(i, c)
    BY <1>1, <1>8 DEF Chains
  <2>2. h.op \in {"D", "F", "X"}
    BY <2>1, <1>2, <1>3
  <2>3. ASSUME NEW i \in DOMAIN todo' PROVE todo'[i].op \in {"D", "F", "X"}
    BY <2>1, <1>1, <1>2, <1>3
  <2>4. ASSUME NEW c \in Options, chain[c].rules = <<>>
        PROVE  chain'[c].rules = <<>>
    BY <2>2, <2>4, <1>4, <1>5, <1>6, TakesAway
  <2>5. ASSUME NEW c \in Options, NEW i \in DOMAIN todo, Flushes(i, c)
        PROVE  \/ chain'[c].rules = <<>>
               \/ \E j \in DOMAIN todo' : Flushes(j, c)'
    <3>1. CASE i = 1
      <4>1. h.op = "F" /\ h.chain = c
        BY <2>5, <3>1, <1>2 DEF Flushes
      <4>2. Effect("F", chain[c], h.rule).rules = <<>>
        BY <1>6, TakesAway
      <4>3. QED
        BY <4>1, <4>2, <1>4, <1>6
    <3>2. CASE i # 1
      <4>1. i - 1 \in DOMAIN todo' /\ todo'[i - 1] = todo[i]
        BY <3>2, <1>1, <1>2, <1>3
      <4>2. Flushes(i - 1, c)'
        BY <4>1, <2>5 DEF Flushes
      <4>3. QED
        BY <4>1, <4>2
    <3>3. QED
      BY <3>1, <3>2
  <2>6. QED
    BY <2>1, <2>3, <2>4, <2>5
<1>9. QED
  BY <1>1, <1>2, <1>7, <1>8 DEF Chains

LEMMA ChainsStep == Chains /\ [Next]_vars => Chains'
<1> SUFFICES ASSUME Chains, [Next]_vars PROVE Chains'
  OBVIOUS
<1>1. CASE /\ UNCHANGED <<opts, todo, chain, died>>
           /\ pc # "off" /\ pc' = "off" => todo = <<>> /\ (~died => NoRules)
           /\ pc' = "clean" => pc = "clean"
           /\ pc = "off" => pc' = "off"
  BY <1>1 DEF Chains, NoRules, Flushes
<1>2. ASSUME NEW s \in Servers, NEW o \in SUBSET Options, Start(s, o)
      PROVE  Chains'
  BY <1>2, CommandsTyped DEF Chains, Start, NoRules
<1>3. CASE Iptables
  BY <1>3, IptablesHolds
<1>4. CASE Die
  BY <1>4, NothingTyped DEF Chains, Die, NoRules, runVars
<1>5. ASSUME pc' = "clean", todo' = CleanCommands(opts),
             UNCHANGED <<runVars, chain, died>>, pc = "run"
      PROVE  Chains'
  <2>1. opts \in SUBSET Options /\ opts' = opts
    BY <1>5 DEF Chains, runVars
  <2>2. CASE opts = {}
    <3>1. todo' = <<>>
      BY <1>5, <2>2 DEF CleanCommands
    <3>2. todo' \in Seq(CommandSet) /\ DOMAIN todo' = {}
      BY <3>1, NothingTyped
    <3>3. UNCHANGED <<chain, died>> /\ pc' = "clean" /\ opts' = {}
      BY <1>5, <2>1, <2>2
    <3>4. QED
      BY <2>2, <3>1, <3>2, <3>3 DEF Chains, NoRules
  <2>3. CASE opts # {}
    <3>1. /\ \A i \in DOMAIN todo' : todo'[i].op \in {"D", "F", "X"}
          /\ \A c \in Options : \E i \in DOMAIN todo' : Flushes(i, c)'
      BY <1>5, <2>1, <2>3, CleanCommandsClean DEF Flushes
    <3>2. todo' \in Seq(CommandSet)
      BY <1>5, <2>1, CleanCommandsTyped
    <3>3. /\ UNCHANGED <<chain, died>> /\ pc' = "clean"
          /\ chain' \in [Options -> ChainSet] /\ opts' \subseteq Options
          /\ died' \in BOOLEAN
      BY <1>5, <2>1 DEF Chains
    <3>4. opts' # {}
      BY <2>1, <2>3
    <3>5. QED
      BY <3>1, <3>2, <3>3, <3>4 DEF Chains
  <2>4. QED
    BY <2>2, <2>3
<1>6. CASE Cleaned
  BY <1>6 DEF Chains, Cleaned, NoRules, runVars, Flushes
<1>7. CASE Reboot
  <2>1. chain' \in [Options -> ChainSet] /\ NoRules'
    BY <1>7, NothingTyped DEF Reboot, NoRules
  <2>2. QED
    BY <1>7, <2>1, NothingTyped DEF Chains, Reboot, runVars
<1>8. QED
  BY <1>1, <1>2, <1>3, <1>4, <1>5, <1>6, <1>7
     DEF Next, Kill, Bind, Decoys, SendInit, GiveUp, GetAnswer, NoAnswer,
         Token, Stop, Outbound, Chaff, Inbound, Answer, Seal, vars, runVars,
         fwVars

(* BlockedMeansDied: while no run is active and traffic is dropped, a run  *)
(* with options has died since the last orderly end of one.                *)
THEOREM OrderlyEndUnblocks == Spec => []BlockedMeansDied
<1>1. Chains => BlockedMeansDied
  BY DEF Chains, NoRules, BlockedMeansDied, Drops, Options
<1>2. QED
  BY <1>1, ChainsInit, ChainsStep, PTL DEF Spec

-----------------------------------------------------------------------------
(* Types.                                                                  *)

(* The invariant behind TypeOK.  A run jumps to a chain at most once, so   *)
(* that a host has as many jumps at most as there were runs.               *)
Counters ==
  /\ pc \in {"off", "arm", "decoy", "hello", "wait", "token", "run", "clean"}
  /\ run \in 0..MaxRuns /\ (pc # "off" => run # 0)
  /\ dest \in Servers /\ wg \in BOOLEAN
  /\ attempt \in 0..Attempts /\ key \in Keys \cup {NoKey}
  /\ inited \subseteq Runs /\ issued \in [Runs -> 0..MaxKeys]
  /\ sent \in [Keys -> 0..MaxSeq] /\ tx \in 0..MaxTx
  /\ last \in 0..MaxSeq /\ got \subseteq Frames

Links(i, c) == todo[i].op = "I" /\ todo[i].chain = c

Jumps ==
  \A c \in Options :
    /\ chain[c].jumps <= run
    /\ ~chain[c].there => chain[c] = Absent
    /\ \A i, j \in DOMAIN todo : Links(i, c) /\ Links(j, c) => i = j
    /\ (\E i \in DOMAIN todo : Links(i, c)) => chain[c].jumps < run

LEMMA CountersInit == Init => Counters
<1> SUFFICES ASSUME Init PROVE Counters
  OBVIOUS
<1>1. /\ issued = [r \in Runs |-> 0] /\ sent = [k \in Keys |-> 0]
      /\ pc = "off" /\ run = 0 /\ dest \in Servers /\ attempt = 0
      /\ key = NoKey /\ inited = {} /\ tx = 0 /\ last = 0 /\ got = {}
      /\ wg = FALSE
  BY DEF Init
<1>2. /\ 0 \in 0..MaxRuns /\ 0 \in 0..MaxKeys /\ 0 \in 0..MaxSeq
      /\ 0 \in 0..MaxTx /\ 0 \in 0..Attempts
  BY UdpProxyAssumption DEF Attempts
<1> QED
  BY <1>1, <1>2 DEF Counters

LEMMA CountersStep == Counters /\ [Next]_vars => Counters'
<1> SUFFICES ASSUME Counters, [Next]_vars PROVE Counters'
  OBVIOUS
<1> USE UdpProxyAssumption DEF Counters, Attempts
<1>1. CASE UNCHANGED vars
  BY <1>1 DEF vars, runVars, srvVars, rxVars
<1>2. ASSUME NEW s \in Servers, NEW o \in SUBSET Options, Start(s, o)
      PROVE  Counters'
  <2>1. /\ pc' = "arm" /\ run' \in 0..MaxRuns /\ run' # 0 /\ dest' = s
        /\ attempt' = 0 /\ key' = NoKey /\ tx' = 0 /\ last' = 0
        /\ wg' = FALSE /\ got' = {}
        /\ UNCHANGED <<inited, issued, sent>>
    BY <1>2 DEF Start, FreshRun, srvVars
  <2>2. 0 \in 0..MaxSeq /\ 0 \in 0..MaxTx /\ 0 \in 0..Attempts
    OBVIOUS
  <2> QED
    BY <2>1, <2>2
<1>3. CASE Die \/ Reboot \/ Iptables
  BY <1>3 DEF Die, Reboot, Iptables, runVars, srvVars, rxVars
<1>4. CASE Bind \/ Decoys \/ NoAnswer \/ Token \/ Stop \/ Cleaned
  BY <1>3, <1>4 DEF Bind, Decoys, NoAnswer, Token, Stop, Cleaned, runVars,
                    srvVars, rxVars
<1>5. CASE SendInit \/ GiveUp
  <2>1. CASE pc = "hello" /\ run \in Runs
    <3>1. CASE Die
      BY <1>3, <3>1
    <3>2. CASE /\ pc' = "wait" /\ attempt' = attempt + 1
               /\ attempt < Attempts /\ inited' = inited \cup {run}
               /\ UNCHANGED <<runVars, key, issued, sent, tx, rxVars>>
      BY <2>1, <3>2 DEF runVars, rxVars
    <3> QED
      BY <1>5, <3>1, <3>2 DEF SendInit, GiveUp
  <2>2. pc = "hello" => run \in Runs
    BY DEF Runs
  <2> QED
    BY <1>5, <2>1, <2>2 DEF SendInit, GiveUp
<1>6. ASSUME NEW k \in Keys, GetAnswer(k) PROVE Counters'
  BY <1>6 DEF GetAnswer, runVars, srvVars, rxVars
<1>7. CASE Outbound \/ Chaff
  <2>1. /\ pc = "run" /\ pc' \in {"run", "clean"} /\ tx' = tx + 1
        /\ tx < MaxTx /\ wg' \in BOOLEAN
        /\ UNCHANGED <<run, dest, attempt, key, inited, issued, sent, last,
                       got>>
    BY <1>7 DEF Outbound, Chaff, runVars, srvVars, rxVars
  <2> QED
    BY <2>1
<1>8. ASSUME NEW k \in Keys, NEW s \in 1..MaxSeq, Inbound(k, s)
      PROVE  Counters'
  BY <1>8 DEF Inbound, runVars, srvVars, Frames
<1>9. ASSUME NEW r \in Runs, Answer(r) PROVE Counters'
  BY <1>9 DEF Answer, runVars, rxVars
<1>10. ASSUME NEW k \in Keys, Seal(k) PROVE Counters'
  BY <1>10 DEF Seal, runVars, rxVars
<1> QED
  BY <1>1, <1>2, <1>3, <1>4, <1>5, <1>6, <1>7, <1>8, <1>9, <1>10
  DEF Next, Kill

(* What a run puts in place has one jump to each chain at most.            *)
LEMMA ArmLinksOnce ==
  ASSUME NEW s \in Servers, NEW o \in SUBSET Options
  PROVE  \A i, j \in DOMAIN ArmCommands(s, o) :
           /\ ArmCommands(s, o)[i].op = "I"
           /\ ArmCommands(s, o)[j].op = "I"
           /\ ArmCommands(s, o)[i].chain = ArmCommands(s, o)[j].chain
           => i = j
<1> DEFINE ks  == IF "ks" \in o THEN EnableKillswitch(s) ELSE <<>>
           dns == IF "dns" \in o THEN EnableDnsShield ELSE <<>>
           all == ks \o dns
<1>1. /\ ks \in Seq(CommandSet)
      /\ \A i \in 1..Len(ks) : ks[i].op = "I" => i = 4
      /\ \A i \in 1..Len(ks) : ks[i].chain = "ks"
  <2>1. CASE "ks" \in o
    <3>1. ks = EnableKillswitch(s)
      BY <2>1
    <3> HIDE DEF ks
    <3> QED
      BY <3>1 DEF EnableKillswitch, Command, CommandSet, Options
  <2>2. CASE "ks" \notin o
    BY <2>2
  <2> QED
    BY <2>1, <2>2
<1>2. /\ dns \in Seq(CommandSet)
      /\ \A i \in 1..Len(dns) : dns[i].op = "I" => i = 3
      /\ \A i \in 1..Len(dns) : dns[i].chain = "dns"
  <2>1. CASE "dns" \in o
    <3>1. dns = EnableDnsShield
      BY <2>1
    <3> HIDE DEF dns
    <3> QED
      BY <3>1 DEF EnableDnsShield, Command, CommandSet, Options
  <2>2. CASE "dns" \notin o
    BY <2>2
  <2> QED
    BY <2>1, <2>2
<1> HIDE DEF ks, dns
<1>3. /\ all \in Seq(CommandSet)
      /\ Len(all) = Len(ks) + Len(dns)
      /\ \A i \in 1..(Len(ks) + Len(dns)) : all[i] =
            IF i <= Len(ks) THEN ks[i] ELSE dns[i - Len(ks)]
  BY <1>1, <1>2, ConcatProperties, Zenon
<1>4. ArmCommands(s, o) = all
  BY DEF ArmCommands, ks, dns
<1> HIDE DEF all
<1>5. /\ DOMAIN all = 1..(Len(ks) + Len(dns))
      /\ Len(ks) \in Nat /\ Len(dns) \in Nat
  BY <1>1, <1>2, <1>3
<1>6. ASSUME NEW i \in DOMAIN all, all[i].op = "I"
      PROVE  \/ i = 4 /\ all[i].chain = "ks"
             \/ i = Len(ks) + 3 /\ all[i].chain = "dns"
  <2>1. CASE i <= Len(ks)
    <3>1. i \in 1..Len(ks) /\ all[i] = ks[i]
      BY <1>3, <1>5, <2>1
    <3> QED
      BY <1>1, <1>6, <3>1
  <2>2. CASE i > Len(ks)
    <3>1. i - Len(ks) \in 1..Len(dns) /\ all[i] = dns[i - Len(ks)]
      BY <1>3, <1>5, <2>2
    <3>2. i - Len(ks) = 3 /\ all[i].chain = "dns"
      BY <1>2, <1>6, <3>1
    <3> QED
      BY <1>5, <3>2
  <2> QED
    BY <1>5, <2>1, <2>2
<1> QED
  BY <1>4, <1>6

(* A command adds a jump only if it is one, and leaves no trace of a chain *)
(* that is not there.                                                      *)
LEMMA OneMoreJump ==
  ASSUME NEW c \in ChainSet, NEW r \in Servers \cup {DROP},
         NEW op \in {"N", "A", "I", "D", "F", "X"},
         ~c.there => c = Absent
  PROVE  /\ Effect(op, c, r).jumps <= IF op = "I" THEN c.jumps + 1
                                                  ELSE c.jumps
         /\ ~Effect(op, c, r).there => Effect(op, c, r) = Absent
<1>1. c.jumps \in Nat /\ c.there \in BOOLEAN
  BY DEF ChainSet
<1>2. CASE op = "N"
  BY <1>1, <1>2 DEF Effect, Make, ChainSet
<1>3. CASE op = "A"
  BY <1>1, <1>3 DEF Effect, Add, ChainSet
<1>4. CASE op = "I"
  BY <1>1, <1>4 DEF Effect, Jump, ChainSet
<1>5. CASE op = "D"
  <2>1. c.jumps > 0 => c.there
    BY DEF Absent
  <2>2. Unjump(c).jumps <= c.jumps /\ Unjump(c).there = c.there
    BY <1>1 DEF Unjump, ChainSet
  <2>3. ~c.there => Unjump(c) = c
    BY <1>1, <2>1 DEF Unjump
  <2> QED
    BY <1>5, <2>2, <2>3 DEF Effect
<1>6. CASE op = "F"
  <2>1. Flush(c).jumps = c.jumps /\ Flush(c).there = c.there
    BY DEF Flush, ChainSet
  <2>2. Flush(Absent) = Absent
    BY DEF Flush, Absent
  <2> QED
    BY <1>1, <1>6, <2>1, <2>2 DEF Effect
<1>7. CASE op = "X"
  BY <1>1, <1>7 DEF Effect, Delete, ChainSet, Absent
<1> QED
  BY <1>2, <1>3, <1>4, <1>5, <1>6, <1>7

LEMMA JumpsInit == Init => Jumps
<1> SUFFICES ASSUME Init PROVE Jumps
  OBVIOUS
<1>1. /\ todo = <<>> /\ DOMAIN todo = {} /\ run = 0
      /\ chain = [c \in Options |-> Absent]
  BY DEF Init
<1>2. Absent.jumps = 0
  BY DEF Absent
<1> QED
  BY <1>1, <1>2 DEF Jumps

LEMMA JumpsIptables ==
  ASSUME Chains, Counters, Jumps, Iptables
  PROVE  Jumps'
<1> DEFINE h == Head(todo)
<1>1. /\ todo \in Seq(CommandSet) /\ todo # <<>> /\ todo' = Tail(todo)
      /\ run' = run /\ chain \in [Options -> ChainSet] /\ run \in Nat
  BY DEF Iptables, Chains, Counters, runVars
<1>2. /\ h \in CommandSet /\ h = todo[1] /\ Tail(todo) \in Seq(CommandSet)
      /\ \A i \in 1..(Len(todo) - 1) : Tail(todo)[i] = todo[i + 1]
      /\ Len(Tail(todo)) = Len(todo) - 1
  BY <1>1, HeadTailProperties
<1>3. /\ DOMAIN todo = 1..Len(todo) /\ DOMAIN todo' = 1..(Len(todo) - 1)
      /\ Len(todo) \in Nat \ {0}
  BY <1>1, <1>2
<1>4. chain' = [chain EXCEPT
                  ![h.chain] = Effect(h.op, chain[h.chain], h.rule)]
  BY DEF Iptables
<1>5. /\ h.chain \in Options /\ h.rule \in Servers \cup {DROP}
      /\ h.op \in {"N", "A", "I", "D", "F", "X"}
  BY <1>2 DEF CommandSet
<1> HIDE DEF h
<1>6. \A i \in DOMAIN todo', c \in Options :
        Links(i, c)' => i + 1 \in DOMAIN todo /\ Links(i + 1, c)
  BY <1>1, <1>2, <1>3 DEF Links
<1>7. ASSUME NEW c \in Options
      PROVE  /\ \A i, j \in DOMAIN todo' :
                   Links(i, c)' /\ Links(j, c)' => i = j
             /\ chain'[c].jumps <= run
             /\ ~chain'[c].there => chain'[c] = Absent
             /\ (\E i \in DOMAIN todo' : Links(i, c)') => chain'[c].jumps < run
  <2>1. \A i, j \in DOMAIN todo' : Links(i, c)' /\ Links(j, c)' => i = j
    BY <1>3, <1>6 DEF Jumps
  <2>2. chain[c].jumps \in Nat /\ chain[c] \in ChainSet
    BY <1>1 DEF ChainSet
  <2>3. CASE h.chain # c
    BY <1>1, <1>4, <1>6, <2>1, <2>3 DEF Jumps
  <2>4. CASE h.chain = c
    <3>1. chain'[c] = Effect(h.op, chain[c], h.rule)
      BY <1>1, <1>4, <2>4
    <3>2. chain'[c] \in ChainSet
      BY <1>5, <2>2, <3>1, TakesAway, PutsTogether
    <3>3. /\ chain'[c].jumps <= IF h.op = "I" THEN chain[c].jumps + 1
                                              ELSE chain[c].jumps
          /\ ~chain'[c].there => chain'[c] = Absent
      BY <1>5, <2>2, <3>1, OneMoreJump DEF Jumps
    <3>4. CASE h.op = "I"
      <4>1. 1 \in DOMAIN todo /\ Links(1, c)
        BY <1>2, <1>3, <2>4, <3>4 DEF Links
      <4>2. chain[c].jumps < run
        BY <4>1 DEF Jumps
      <4>3. \A i \in DOMAIN todo' : ~Links(i, c)'
        BY <1>3, <1>6, <4>1 DEF Jumps
      <4>4. chain'[c].jumps \in Nat
        BY <3>2 DEF ChainSet
      <4> QED
        BY <1>1, <2>1, <2>2, <3>3, <3>4, <4>2, <4>3, <4>4
    <3>5. CASE h.op # "I"
      <4>1. chain'[c].jumps \in Nat
        BY <3>2 DEF ChainSet
      <4>2. (\E i \in DOMAIN todo' : Links(i, c)') => chain[c].jumps < run
        BY <1>6 DEF Jumps
      <4>3. chain[c].jumps <= run
        BY DEF Jumps
      <4> QED
        BY <1>1, <2>1, <2>2, <3>3, <3>5, <4>1, <4>2, <4>3
    <3> QED
      BY <3>4, <3>5
  <2> QED
    BY <2>3, <2>4
<1> QED
  BY <1>1, <1>7 DEF Jumps

LEMMA JumpsStep ==
  ASSUME Chains, Counters, Jumps, [Next]_vars
  PROVE  Jumps'
<1>1. run \in Nat /\ opts \in SUBSET Options
  BY DEF Counters, Chains
<1>2. CASE UNCHANGED <<run, todo, chain>>
  BY <1>2 DEF Jumps, Links
<1>3. ASSUME NEW s \in Servers, NEW o \in SUBSET Options, Start(s, o)
      PROVE  Jumps'
  <2>1. run' = run + 1 /\ chain' = chain /\ todo' = ArmCommands(s, o)
    BY <1>3 DEF Start
  <2>2. \A c \in Options : chain[c].jumps \in Nat
    BY DEF Chains, ChainSet
  <2>3. \A i, j \in DOMAIN todo', c \in Options :
          Links(i, c)' /\ Links(j, c)' => i = j
    BY <2>1, ArmLinksOnce DEF Links
  <2> QED
    BY <1>1, <2>1, <2>2, <2>3 DEF Jumps
<1>4. CASE Iptables
  BY <1>4, JumpsIptables
<1>5. CASE Die
  BY <1>5 DEF Die, Jumps, runVars, Links
<1>6. CASE UNCHANGED <<run, chain>> /\ todo' = CleanCommands(opts)
  <2>1. \A i \in DOMAIN todo' : todo'[i].op # "I"
    <3>1. CASE opts = {}
      BY <1>6, <3>1 DEF CleanCommands
    <3>2. CASE opts # {}
      BY <1>1, <1>6, <3>2, CleanCommandsClean
    <3> QED
      BY <3>1, <3>2
  <2> QED
    BY <1>6, <2>1 DEF Jumps, Links
<1>7. CASE Reboot
  <2>1. /\ DOMAIN todo' = {} /\ run' = run
        /\ \A c \in Options : chain'[c] = Absent
    BY <1>7 DEF Reboot, runVars
  <2>2. Absent.jumps = 0
    BY DEF Absent
  <2> QED
    BY <1>1, <2>1, <2>2 DEF Jumps
<1> QED
  BY <1>2, <1>3, <1>4, <1>5, <1>6, <1>7
  DEF Next, Kill, Bind, Decoys, SendInit, GiveUp, GetAnswer, NoAnswer, Token,
      Stop, Outbound, Chaff, Inbound, Cleaned, Answer, Seal, vars, runVars,
      fwVars

(* Types: whatever runs are started and killed on a host, each chain has   *)
(* the jumps of those that linked it and only rules that they have made.   *)
THEOREM UdpTypeCorrect == Spec => []TypeOK
<1> DEFINE UdpInv == Filter /\ Chains /\ Counters /\ Jumps
<1>1. Init => UdpInv
  BY FilterInit, ChainsInit, CountersInit, JumpsInit
<1>2. UdpInv /\ [Next]_vars => UdpInv'
  <2> SUFFICES ASSUME UdpInv, [Next]_vars PROVE UdpInv'
    OBVIOUS
  <2>1. Filter' /\ Chains' /\ Counters'
    BY FilterStep, ChainsStep, CountersStep
  <2> QED
    BY <2>1, JumpsStep
<1>3. UdpInv => TypeOK
  <2> SUFFICES ASSUME UdpInv PROVE TypeOK
    OBVIOUS
  <2>1. \A i \in DOMAIN todo : todo[i].chain \in Options
    <3>1. \A i \in DOMAIN todo : todo[i] \in CommandSet
      BY DEF Chains
    <3> QED
      BY <3>1 DEF CommandSet
  <2>2. ASSUME NEW c \in Options
        PROVE  /\ chain[c].jumps \in 0..MaxRuns
               /\ \A i \in DOMAIN chain[c].rules :
                    chain[c].rules[i] \in Servers \cup {DROP}
               /\ ~chain[c].there => chain[c] = Absent
    <3>1. chain[c].jumps \in Nat /\ chain[c].rules \in Seq(Servers \cup {DROP})
      BY DEF Chains, ChainSet
    <3>2. /\ chain[c].jumps <= run /\ run \in 0..MaxRuns
          /\ ~chain[c].there => chain[c] = Absent
      BY DEF Jumps, Counters
    <3> QED
      BY <3>1, <3>2, UdpProxyAssumption
  <2> QED
    BY <2>1, <2>2 DEF TypeOK, Counters, Chains, Filter, FilterTyped
<1> HIDE DEF UdpInv
<1> QED
  BY <1>1, <1>2, <1>3, PTL DEF Spec
=============================================================================
