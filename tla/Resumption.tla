----------------------------- MODULE Resumption -----------------------------
(***************************************************************************)
(* ResumptionManager of session_resumption.h: tokens that several workers  *)
(* verify at once, the set of used nonces with its throttled pruning, and  *)
(* the per-boot secret.  verify() samples the clock first and takes the    *)
(* lock twice, around the decryption; time and other workers go on in      *)
(* between.  A restart makes a new secret and forgets the used nonces.     *)
(* The nonces are random, so that a token is its nonce.                    *)
(***************************************************************************)
EXTENDS Integers, FiniteSets

CONSTANTS
  Calls,       \* calls of verify under way at once
  Tokens,      \* tokens
  NoToken,
  TTL,         \* life of a token, 180000 ms in the code
  PruneEvery,  \* shortest time between prunings, 10000 ms in the code
  PruneSize,   \* size from which every call prunes, 10000 in the code
  ClockMod,    \* 2^64, at which differences of times wrap round
  MaxTime,     \* bound on the clock
  MaxBoot      \* bound on the restarts

ASSUME TokensFresh == NoToken \notin Tokens
ASSUME TimesNat    == /\ TTL \in Nat /\ PruneEvery \in Nat /\ PruneSize \in Nat
                      /\ MaxTime \in Nat /\ MaxBoot \in Nat
                      /\ ClockMod \in Nat /\ ClockMod > MaxTime
                      /\ PruneEvery <= MaxTime

VARIABLES
  now,         \* now_ms()
  boot,        \* boot_secret_
  issued,      \* tokens given out
  expiry,      \* the expiry sealed in each
  origin,      \* the secret each was sealed under
  used,        \* used_nonces_
  lastPrune,   \* last_prune_ms_
  step,        \* where each call of verify is
  tok,         \* its token
  cur,         \* its cur_time
  accepted     \* how often each token was accepted

tokens == <<issued, expiry, origin>>
calls  == <<step, tok, cur>>
resumeVars == <<now, boot, tokens, used, lastPrune, calls, accepted>>

Times == 0..MaxTime

TokensOK ==
  /\ now \in Times
  /\ boot \in 0..MaxBoot
  /\ issued \in SUBSET Tokens
  /\ expiry \in [Tokens -> 0..(MaxTime + TTL)]
  /\ origin \in [Tokens -> 0..MaxBoot]
  /\ used \in SUBSET issued
  /\ lastPrune \in Times
  /\ step \in [Calls -> {"idle", "sampled", "checked", "opened"}]
  /\ tok \in [Calls -> Tokens \cup {NoToken}]
  /\ cur \in [Calls -> 0..now]
  /\ accepted \in [Tokens -> Nat]
  /\ \A w \in Calls :
       IF step[w] = "idle" THEN tok[w] = NoToken ELSE tok[w] \in issued

(* The clock of a server has run for longer than the pruning period.       *)
ResumeInit ==
  /\ now = PruneEvery
  /\ boot = 0
  /\ issued = {}
  /\ expiry = [t \in Tokens |-> 0]
  /\ origin = [t \in Tokens |-> 0]
  /\ used = {}
  /\ lastPrune = 0
  /\ step = [w \in Calls |-> "idle"]
  /\ tok = [w \in Calls |-> NoToken]
  /\ cur = [w \in Calls |-> 0]
  /\ accepted = [t \in Tokens |-> 0]

Issue(t) ==
  /\ t \notin issued
  /\ issued' = issued \cup {t}
  /\ expiry' = [expiry EXCEPT ![t] = now + TTL]
  /\ origin' = [origin EXCEPT ![t] = boot]
  /\ UNCHANGED <<now, boot, used, lastPrune, calls, accepted>>

-----------------------------------------------------------------------------
(* verify.                                                                 *)

Sample(w) ==
  /\ step[w] = "idle"
  /\ \E t \in issued : tok' = [tok EXCEPT ![w] = t]
  /\ cur' = [cur EXCEPT ![w] = now]
  /\ step' = [step EXCEPT ![w] = "sampled"]
  /\ UNCHANGED <<now, boot, tokens, used, lastPrune, accepted>>

(* Mutated form: a nonce is forgotten in the last instant it is good for.  *)
UnexpiredStrict(t) == {u \in used : t < expiry[u]}

(* The used nonces that pruning at time t leaves.                          *)
Unexpired(t) == {u \in used : t <= expiry[u]}

(* The difference is unsigned: a caller that sampled the clock before the  *)
(* last pruning prunes again.                                              *)
PruneDue(t) == \/ (t - lastPrune) % ClockMod >= PruneEvery
               \/ Cardinality(used) >= PruneSize

(* Mutated form: verify() leaves the token in the call that failed.        *)
RejectKeepsToken(w) ==
  /\ step' = [step EXCEPT ![w] = "idle"]
  /\ UNCHANGED tok

Reject(w) ==
  /\ step' = [step EXCEPT ![w] = "idle"]
  /\ tok' = [tok EXCEPT ![w] = NoToken]

Precheck(w) ==
  /\ step[w] = "sampled"
  /\ used' = IF PruneDue(cur[w]) THEN Unexpired(cur[w]) ELSE used
  /\ lastPrune' = IF PruneDue(cur[w]) THEN cur[w] ELSE lastPrune
  /\ IF tok[w] \in used'
       THEN Reject(w)
       ELSE step' = [step EXCEPT ![w] = "checked"] /\ UNCHANGED tok
  /\ UNCHANGED <<now, boot, tokens, cur, accepted>>

(* The token opens under the secret it was sealed with; its expiry is      *)
(* compared with the time sampled at the start.                            *)
Open(w) ==
  /\ step[w] = "checked"
  /\ IF origin[tok[w]] = boot /\ cur[w] <= expiry[tok[w]]
       THEN step' = [step EXCEPT ![w] = "opened"] /\ UNCHANGED tok
       ELSE Reject(w)
  /\ UNCHANGED <<now, boot, tokens, used, lastPrune, cur, accepted>>

(* Mutated form: the nonce is inserted without looking for it again.       *)
InsertUnchecked(w) ==
  /\ step[w] = "opened"
  /\ used' = used \cup {tok[w]}
  /\ accepted' = [accepted EXCEPT ![tok[w]] = @ + 1]
  /\ Reject(w)
  /\ UNCHANGED <<now, boot, tokens, lastPrune, cur>>

Insert(w) ==
  /\ step[w] = "opened"
  /\ IF tok[w] \in used
       THEN UNCHANGED <<used, accepted>>
       ELSE /\ used' = used \cup {tok[w]}
            /\ accepted' = [accepted EXCEPT ![tok[w]] = @ + 1]
  /\ Reject(w)
  /\ UNCHANGED <<now, boot, tokens, lastPrune, cur>>

-----------------------------------------------------------------------------
Tick ==
  /\ now < MaxTime
  /\ now' = now + 1
  /\ UNCHANGED <<boot, tokens, used, lastPrune, calls, accepted>>

(* Mutated form: the secret is kept across restarts.                       *)
RestartSameSecret ==
  /\ boot < MaxBoot
  /\ used' = {}
  /\ lastPrune' = 0
  /\ step' = [w \in Calls |-> "idle"]
  /\ tok' = [w \in Calls |-> NoToken]
  /\ UNCHANGED <<now, boot, tokens, cur, accepted>>

(* The server process is restarted.                                        *)
Restart ==
  /\ boot < MaxBoot
  /\ boot' = boot + 1
  /\ used' = {}
  /\ lastPrune' = 0
  /\ step' = [w \in Calls |-> "idle"]
  /\ tok' = [w \in Calls |-> NoToken]
  /\ UNCHANGED <<now, tokens, cur, accepted>>

Verify(w) == Sample(w) \/ Precheck(w) \/ Open(w) \/ Insert(w)

ResumeNext ==
  \/ \E t \in Tokens : Issue(t)
  \/ \E w \in Calls : Verify(w)
  \/ Tick \/ Restart

ResumeSpec == ResumeInit /\ [][ResumeNext]_resumeVars

-----------------------------------------------------------------------------
(* Properties.                                                             *)

(* used_nonces_: a token that was accepted is remembered until it expires, *)
(* whoever prunes, however late, and with whatever sample of the clock.    *)
RememberedUntilExpiry ==
  \A t \in Tokens :
    accepted[t] > 0 /\ origin[t] = boot /\ now <= expiry[t] => t \in used

(* "Atomic check-and-insert under lock: prevents R-02 TOCTOU race": of any *)
(* number of calls of verify, before and after any restart, one accepts a  *)
(* token while it is valid.                                                *)
OnceWhileValid ==
  \A t \in Tokens : accepted[t] > 1 => now > expiry[t]

(* The comment on verify, "Returns false if: expired, already used": no    *)
(* token is accepted twice at all.  The code does not keep it: a call that *)
(* is delayed past the expiry finds the nonce pruned.                      *)
AcceptedOnce == \A t \in Tokens : accepted[t] <= 1

(* What a call that has opened its token knows of it.                      *)
OpenedHere ==
  \A w \in Calls : step[w] = "opened" => origin[tok[w]] = boot

NoneFromTheFuture ==
  \A t \in Tokens : /\ origin[t] <= boot
                    /\ t \notin issued => accepted[t] = 0

ResumeInv ==
  /\ TokensOK
  /\ OpenedHere
  /\ NoneFromTheFuture
  /\ RememberedUntilExpiry
  /\ OnceWhileValid
=============================================================================
