# AEGS Titan in TLA+

AEGS Titan is a UDP VPN: a C++ server (`server.cpp` and the headers beside it), clients in
C++, Python, Java (Android) and C# (Windows), and a Telegram bot that sells subscriptions.
This directory holds TLA+ models of the C++ server's core, of the Python programs (tunnel
client and server, gateway, UDP proxy, Windows proxy settings) and of the bot, the TLC runs
that check them and the theorems about them that TLAPS proves. Paths below are relative to `src/`.

Contents: [the system](#the-system) · [modules](#modules) · [runs](#runs) ·
[bounds](#bounds) · [fairness](#fairness) · [proofs](#proofs) ·
[disagreements](#disagreements-with-the-documentation) · [limits](#what-the-models-leave-out) ·
[plan](#plan)

## The system

### Threads

`main` starts worker threads, one by default (`server.cpp:1389-1397`), and one GC thread
(`:1406-1414`). A worker polls its UDP sockets and the TUN device and runs
`process_udp_packet` (`:423-920`) or the TUN loop (`:985-1126`) to completion. Every two
seconds the GC thread runs `cleanup_maps` (`:182-226`) and `sync_users_from_db`
(`:1194-1336`), which registers and removes users. Nearly all state is shared and most of it
is read without a lock: routing and keys of a session are immutable snapshots that are
replaced, the route table is a copy-on-write map, and a session is kept from being
deleted only by its reader count.

The Python programs are smaller and each has threads of its own. `aegs_client.py` runs a
thread per connection, a receiver and a chaff thread; `aegs_server.py` a packet loop and a
thread per stream; `aegs_tunnel_gateway.py` holds a pair of the same shape.
`scripts/quick_client.py` is one loop that shares the host's firewall chains with the runs
before and after it. The bot has a thread that polls Telegram and one that expires
subscriptions.

### Components

| Component | State | Operations | Hard part | What makes it correct |
|---|---|---|---|---|
| Session life cycle (`session.h`, `session_table.h`) | reader count, recycling flag, generation; indexes by key id, endpoint and tunnel address | look-ups that build a `SessionHandle`, publication, `remove_session`, `recycle` | lock-free readers against deletion | no handle to a wiped or freed session; counts exact; quiescence ends |
| Anti-replay filter (`network_security.h`) | last number, ring of bitmap words | peek, commit, reset | ring reuse, edges of the window | the ring is exactly the committed numbers of the window |
| Data path (`server.cpp`) | keys, filter, client address, outbound counter of a session | receive, roam, rekey, seal, clean up | steps of packets, rekeys and cleanup in any order; duplicates | delivered once; the address belongs to the key; no number seals twice |
| Resumption tokens (`session_resumption.h`) | boot secret, used nonces, prune mark | issue, verify, prune | clock sampled before two critical sections; restart | a token is accepted once |
| Tunnel addresses (`ip_pool.cpp`, `server.cpp`) | queue, allocated set, route table, address in each routing | allocate, map, install, resume, roam, clean up, revoke | two threads, no lock across the steps | nothing doubled, lost only by revocation; one holder per address |
| Handshake (`handshake.cpp`) | pending clients, seen timestamps | process_init, build_resp, users | retransmission, bounded tables, clock | both ends agree on keys |
| Users and slots (`server.cpp`) | active tokens, slots of a user | sync, balancing | revocation during traffic | a revoked user has no session |
| Rate limiter, bans (`server.cpp`) | ring and map; failure counts, bans | check, purge; record, expire | bounded tables from several threads | bounds hold; no ban without cause |
| Egress (`packet_scratch.h`, `backpressure.h`) | batch, congestion state | queue, flush, pace | partial sends | in order, once; reading resumes |
| Host protection (`network_security.cpp`, `nat_manager.cpp`) | rules installed so far | prepare, apply, verify, commit, rollback | one command of several fails | all or nothing |
| Port hopping, shaping, chaff, mimicry | schedules, buckets | | agreement over time; layout | |
| Python tunnel (`aegs_client.py`, `aegs_server.py`) | stream tables, replay filter, keys, frame counter | handshake, accept, CONNECT, DATA, CLOSE, relay | threads over one table; late and repeated datagrams; restart of one end | a stream's data stay its own; one connection per request |
| Tunnel gateway (`aegs_tunnel_gateway.py`) | the same, `seen_seqs` | the same, for SOCKS | restarts of both ends, keys that come back | a frame is handled once |
| UDP proxy (`scripts/quick_client.py`) | iptables chains, replay bitmap, WireGuard address | arm, handshake, relay, clean up | killed between two commands; leftovers of other runs | the host is open again after an orderly end; each frame once |
| Windows proxy settings (`aegs_client.py`) | Internet Settings, RunOnce, `is_active` | enable, disable, reboot | killed or restarted between two accesses, failing accesses | the user's settings come back |
| Telegram bot (`tools/telegram_bot`) | users, orders, payments in SQLite; key rows in the server's database | order, approve, reject, extend, promo, remind, expire, sync | two threads, a second database, crashes, updates delivered again | a paid day counts once; the key rows follow |
| Other clients (C++, Java, C#) | connection state, keys, token | connect, retry, resume, stop | lost answers; threads | keys agree with the server's |

The C++ components meet in three places. The worker's handlers and the GC thread share sessions,
indexes and addresses. A handshake or a resumption rekeys a session while packets are
handled under the old keys. A token outlives the session's address, the registration of its
user and the server process.

The commit has declarations that do not fit together: `server.cpp` uses members the headers lack
(`alt_mask_key`, `mimic_type`, `base_key_id_raw`), `assigned_ip` is a method where
`session_table.h:100` and `server.cpp:1304` call `.load()` on it, and `g_user_slots` is
defined twice (`server.cpp:66`, `:1139`). The models take what is meant: `assigned_ip` is
the address in the current routing snapshot.

## Modules

| Module | Models | Beside it |
|---|---|---|
| `SessionEpoch` | `session.h`, `session_table.h` and every caller that publishes or withdraws a session | `MCSessionEpoch`, `SessionEpochProofs` |
| `SlidingWindow` | what the replay filter promises, on the set of committed numbers | instantiated by the next two |
| `ReplayWindow` | `AntiReplayFilterT`, bit by bit | `MCReplayWindow`, `ReplayWindowProofs` |
| `DataPath` | one session's packets, rekeys, egress and cleanup | `MCDataPath`, `DataPathProofs` |
| `Resumption` | `ResumptionManager` | `MCResumption`, `DataPathProofs` |
| `IpLease` | `IpPool` and all that moves an address | `MCIpLease`, `IpLeaseProofs` |
| `Billing` | the bot: both threads, both databases, Telegram | `MCBilling`, `MCBillingExpiry`, `BillingProofs` |
| `StreamTunnel` | `aegs_client.py` and `aegs_server.py` with the network between them | `MCStreamTunnel`, `PythonTunnelProofs` |
| `Gateway` | `aegs_tunnel_gateway.py`, both ends | `MCGateway`, `GatewayProofs` |
| `UdpProxy` | `run_python_proxy` of `scripts/quick_client.py`, the iptables chains, the server | `MCUdpProxy`, `UdpProxyProofs` |
| `SystemProxy` | `WindowsSystemProxy` of `aegs_client.py` | `MCSystemProxy`, `PythonTunnelProofs` |

`ReplayWindow` implements `SlidingWindow` (`Implements`, checked and proved), and `DataPath`
uses `SlidingWindow` in place of the filter: what holds of the data path holds with any
filter that keeps the promise. `DataPathProofs` and `PythonTunnelProofs` each hold the proofs of
two components that share no state; that is why the definitions of `Resumption` and
`SystemProxy` that every module has bear prefixes (`ResumeInit`, `ProxyNext`).

**SessionEpoch.** One step is one atomic operation, one critical section or one
publication. Each `SessionHandle` variable of a handler has a program counter that goes
through `reset` (load the generation), `enter_reader` (check, count, re-check, back out)
and `reset` again (compare the generation). Look-ups by key id and by endpoint hold the
shard lock until the handle is built (`Locked`); those by tunnel address hold nothing. The
GC thread walks through `remove_session` and `recycle` one operation at a time. A handle
that touches a freed session goes to the step `"ub"`, after which nothing is claimed of it.

**ReplayWindow.** `bitmap` maps each slot of the ring to its set bits; `lastSeq` is
`last_seq_`. `Peek`, `Drop` and `Commit` split a packet at its decryption, so that other
commits and resets come between. `seen` is the history the promise is stated on.

**DataPath.** A key is the number of the rekey that made it. A worker takes a handle
(`hgen`), a snapshot of the keys (`snap`), peeks, decrypts, commits, validates and
delivers, in nine steps. `RekeyBegin` to `RekeyRouting` are the assignments that handshake and
resumption share, in their order. `sent` only grows: any datagram may be received at any
later time, again, or never. `delivered` and `sealed` are histories.

**Resumption.** `verify` is four steps: read the clock, first critical section (prune, look
for the nonce), decryption and the expiry test, second critical section. `ClockMod` is the
width of the unsigned subtraction in `prune_expired_locked`.

**IpLease.** A handler holds a session and an address (`sess`, `lease`) between the step
that reads the routing and the one that installs it. The GC thread does the same (`victim`,
`gcip`) in cleanup and revocation. Handlers run in milliseconds and the timeouts are minutes, so the clock
stands while a handler runs. Revocation may find no handle when a handshake raises the generation
while it builds it (`Rekeying`), and then releases nothing. `compromised` is a history: the addresses some race has
touched (released while in use, taken from a session that is not idle any more, handed out
before their revocation was finished, or taken from a token). `OneHolder` says what holds of
all others.

**Billing.** A step is one transaction on the bot's database or one call of `aegs_sync`, which
writes to the other. `pc` and `subject` are where the polling thread stands in a handler,
`wpc`, `list` and `target` where the worker stands in its pass. Telegram holds `inbox`: what
`getUpdates` fetched is acknowledged by the next poll only, so that a `Crash` has it
delivered again. Time is counted in days, and stands while a handler or a pass is under way.
An approval is three transactions and an answer: the payment, the key row, the order's status
(`CloseApproval`, which may raise), the key shown (`AnswerApproval`). `torn` and `adrift` are
histories: the orders an interruption caught between payment and status, and the users whose last change did not reach the server's database.

**StreamTunnel.** Everything a start of the client sends bears its number as the key. `Emit`
is the unlocked `tx_seq += 1` followed by a second read (`aegs_client.py:401-402`). The
replay filter is modelled bit by bit with its byte-wise shift; `taken` is the history it is
measured by. `up` and `inits` only grow. A worker of the server goes from `dial` to `open`,
`end` and back to free; `TakeOver` is another program that shakes hands (the server has one
session).

**Gateway.** As above, for a server that keeps `seen_seqs` over handshakes and draws
`server_priv` once per start: a key is the pair of the client's start and the server's. `done`
and `again` are the frames handled and handled twice.

**UdpProxy.** `todo` is the list of iptables commands the run has still to execute; `Iptables`
is one of them, with the effect the tool has on a chain (`Effect`), its failures included.
`Die` is an end that skips the `finally` clause. The server is external: it answers each
INIT it reads with a new key and seals frames. `last` and `bitmap` are the replay window.

**SystemProxy.** One step is one access to the registry. `truth` is what the user chose;
`broken` says that some client did not write it back, `stale` that some client then took what
it found for the user's.

## Runs

All must pass.

| Run | Checks | Distinct states |
|---|---|---|
| `session_epoch` | `TypeOK`, `QuiescedClear`, `KeyHandleSafe`, `ReadersExact` with two handles and the GC thread | 1.6 million |
| `session_epoch_live` | `RecycleTerminates` | 135 thousand |
| `replay_window` | `TypeOK`, `BitmapExact`, `Implements` | 115 thousand |
| `data_path` | `TypeOK`, `AtMostOnce`, `PeerOfKey`, `SealedOnce`, one worker | 495 thousand |
| `resumption` | `TokensOK`, `RememberedUntilExpiry`, `OnceWhileValid` | 393 thousand |
| `ip_lease` | `TypeOK`, `PoolPartition`, `OneHolder`, `TokenOutlived`, `LostPerRevocation` | 2.7 million |
| `billing` | `TypeOK`, `PaidDays`, `PaymentsMatchOrders`, `ServerFollows`, `RemindersOfPeriod` | 3.8 million |
| `billing_expiry` | `ExpiryServed` (module `MCBillingExpiry`) | 1.3 million |
| `stream_tunnel` | `TypeOK`, `RecentKnown`, `OneWorker`, `RegisteredAlive`, `StreamsApart` | 2.4 million |
| `udp_proxy` | `TypeOK`, `BlockedMeansDied`, `DeliveredOnce`, `HandshakeEnds` | 703 thousand |
| `gateway` | `TypeOK`, `HandledOnce`, `RegisteredOpen` | 547 thousand |
| `system_proxy` | `RebootRestores`, `Restored` | 187 thousand |

What the passing runs show:

- Handlers that find a session by key id are fenced off its deletion by the shard lock and
  the quiescence loop together. Neither alone is enough: the lock ends before the handle
  is used, and the loop does not see a reader that is not counted yet.
- The two tests that bound the replay window (`network_security.h:200`, `:204`) agree with
  the reuse of the ring: whatever jumps the numbers make, no stale bit is read.
- With one worker a datagram is delivered at most once through rekeys, although each rekey
  empties the filter, because every rekey makes a new key (a fresh exchange or a nonce that
  is used once).
- The unsigned wrap-around in the throttle of `prune_expired_locked` costs a superfluous
  pruning but never forgets a nonce that is still valid, and a restart is safe because the
  boot secret changes.
- The address pool itself cannot be corrupted by its callers' races; the leases can.
- An address is lost for good only with a revocation that reads the session's address before a
  handshake gives it one, or reads none, and at most one with each. No interleaving of
  handshakes, resumptions, roaming and cleanup alone leaks any.
- Whoever's subscription ran out is deactivated or has renewed, although the worker's list may
  hold two users, one of them may renew while it is worked off, and a removal that raises ends the
  pass with the other still on it.
- The bot counts each paid day once because `payment_id` is unique and the extension is in the
  payment's transaction; the order's status alone would not do. Where its two databases
  disagree, a call of `aegs_sync` failed or the worker had the user in hand.
- The Python server's replay filter keeps the numbers of the last byte of its window whatever
  happens; further back it forgets. A destination is connected to twice only then, or when the
  same INIT arrives twice.
- Stream numbers start again with the client and the server's workers do not end with it, but a
  stream's data reach a stranger only across a restart, and then the one with the same number.
- The gateway handles a frame once because neither half is missing: `seen_seqs` outlives
  handshakes, and what a restart forgets is under keys the new start does not have.
- An orderly end of the UDP proxy opens the host again even after runs that died: the chains
  are flushed, although a jump to each may be left.
- RunOnce is written before `ProxyEnable` and deleted after the settings are back: a restart of
  the computer at any access finds the one or the other right.

## Bounds

- `SessionEpoch`: two handles, two allocation addresses, one key, endpoint and tunnel
  address, generations up to 2. Two allocations let a key be registered again while handles of
  the first are around; a second key or endpoint would be in a shard of its own and share
  nothing but the GC thread. `session_epoch_live` has one allocation. Deleted memory is not reused.
- `ReplayWindow`: four words of two bits and numbers to 13, which goes round the ring of
  eight and on, and includes jumps by less than a word, by several words, and past the whole
  window. `OneInFlight` keeps one packet between peek and commit; `CheckAndUpdate` stands
  for the others. The proofs have none of these bounds.
- `DataPath`: two keys, three packets per key, a window of two, so that a number can leave
  the window. The generation of a handle is the count of rekeys.
- `Resumption`: two calls, two tokens, life 2, pruning every 2, clock to 7, one restart.
  Times in proportion to the code's 180 s, 10 s and the size threshold (2 for 10000).
- `IpLease`: one worker (the default), two users, two addresses, so that the pool can be
  empty. `TTL = Idle = 1` stands for 180 s and 600 s: what matters is that a
  token does not outlive the idle time (`IdleLonger`), and equality is the tightest case. `OneReturns` allows one of the two
  users to be registered twice.
- `Billing`: one customer with two orders and a promo code (payments of the same user can
  meet) over three days with a crash, plans of two days, so that a subscription can be
  extended before and after its end.
- `MCBillingExpiry` restricts who presses what, and no step of either thread: two customers who
  may both take the promo code (`MaxUses = 2`), so that the worker's list has two entries, one of
  whom may also buy and have the order approved at any time, plans of one day, a clock that runs for two days, no crash;
  any write to the server's database may fail. The manual key, which concerns nobody's expiry, is
  typed in only when nobody is left, so that `CreateManualKey` is exercised and no more.
- `StreamTunnel`: two starts, two connections in all (in one start or on both sides of a
  restart), three frames per start, a window of two bytes of two bits, so that shifts by less and
  by more than a byte and the wrong carry all happen; two workers. Not more than two frames of
  the client are kept by the network, which may lose any.
- `Gateway`: two starts of each end, two streams, two threads, numbers to 2, three frames kept.
- `UdpProxy`: two servers, two runs, one key per run, three frames per key and a window of two.
- `SystemProxy`: two clients; the values of the registry are those of the program and the user.
  No counter is bounded.
- Deadlock is checked in every run. Where the bounds bring a model to a stop (`Quiet` in
  `DataPath`) or a loop finds nothing to do (`Poll`), that is a step that changes nothing and
  is enabled only then.

## Fairness

Three properties need fairness.

`RecycleTerminates`: `FairSpec` assumes that each handler's next step
is taken if it is enabled again and again (`SF_vars(Handle(h))`) and that the GC thread's
is if it stays enabled (`WF_vars(Remove)`). The first is what a thread scheduler and
`std::shared_mutex` give a thread that runs no unbounded loop: a handler's step is
disabled only while another thread is in a short critical section of the same shard. Finding a
session is not fair: a handler may stay idle for ever. Nothing is assumed of registration, cleanup or
new packets, and new readers may go on trying to enter while `recycle` waits.

`ExpiryServed`: `WF_vars(CheckExpirations)`. The worker's loop catches every exception and
runs again after a minute (`subscription_worker.py:31-40`), so that a pass that raises is followed by
another. Nothing is assumed of the polling
thread, and nothing of a failed removal: it is not tried again.

`HandshakeEnds`: weak fairness of each step of the run itself (an iptables process returns,
`select` returns after its timeout), none of the network or the server.

## Proofs

TLAPS checks 39 theorems with their lemmas, 37 of which `PROJECT.json` lists; between them they
state every invariant the runs check, and the refinement. They hold for every value of the
constants that satisfies the `ASSUME`s of the modules (finite sets of handles or addresses,
natural bounds, a null value that is no member). Each follows the same course: an inductive
invariant with `Init => Inv` and `Inv /\ [Next]_vars => Inv'`, one case per action. TLC checked
each invariant on the run's instance before it was proved.

Two families of theorems have one more hypothesis, `OneWorker`: the server has at most one packet
thread, which is its default (`server.cpp:1389-1397`). It is needed: with two, TLC finds the three
safety properties of `DataPath` and two of `IpLease` violated (see the next section), and the
theorems say nothing of such a server. Type correctness, the partition of the pool and all other
theorems are for any number of threads.

- `SessionEpochProofs`: `TypeCorrect`, `ReadersCounted`, `QuiescedBeforeClear`,
  `KeyHandlesSafe` (and `Inductive`, all of `IInv`). `KeyHandleSafe` is not inductive. The
  argument: a handle being built from the key index keeps its index entry in place
  (`KeyLookupLocked`), an entry in the index is never the victim of a removal nor recycled
  (`KeyIndexFresh`), so a handle by key that is counted was counted before the removal began, and the
  quiescence loop has waited for it (`NoneInside`, `KeyHandlesGone`); that the loop reads 0
  only if no such handle is left is `ReadersExact`. Counting needs finite handles.
- `ReplayWindowProofs`: `TypeCorrect`, `BitmapIsExact`, `FilterImplements`. The heart is
  arithmetic on words: two words less than `Words` apart in the ring have different slots,
  and the words between two are cleared by `Stale`. Refinement follows because on an exact bitmap
  `CheckPeek` is the negation of `Fresh`.
- `DataPathProofs`, packets: `PathTypeCorrect` for any number of workers; `DeliveredOnce`,
  `PeerKeepsKey`, `NumbersSealOnce` for one. `PathInv` adds what they leave
  unsaid: a worker past the generation check still has the newest keys in hand, for only it could
  make newer ones (`InHand`); keys and address are those of the newest rekey once the rekey is
  through (`Newest`); what was delivered under the newest key is in the filter, which is not to be
  emptied any more under that key (`FilterNewest`), and what slid out of the window below it stays refused;
  the newest key has sealed nothing above `tx_seq` (`SealedNewest`).
- `DataPathProofs`, tokens: `TokensTypeCorrect`, `NoncesRemembered`, `ValidTokensAcceptedOnce`.
  A call's sample of the clock is never ahead of the clock, so that pruning with it keeps what is
  valid now; a call past `Open` has a token of this boot (`OpenedHere`).
- `IpLeaseProofs`: `TypeCorrect`, `PoolIsPartitioned`, for any number of workers. Every step
  leaves the pool alone, allocates or releases (`PoolSteps`); each keeps the partition
  (`AllocateKeeps`, `ReleaseKeeps`). `AddressHasOneHolder`, `TokensAreOutlived` and `LossIsBounded`, for one.
  A holder of an address is a session that has it or a handler about to install it. `Leases`:
  two sessions hold an address that is not compromised only while the GC thread recycles one of
  them (`Exclusive`); what is held is allocated and routed (`HeldAllocated`, `HeldRouted`); what the
  GC thread takes away is held by its victim alone (`GcTakes`); a token expires no later than its
  session's last activity plus `TTL`, which cleanup does not reach (`TokensOfSession`, by `IdleLonger`).
  For `LostPerRevocation`, `WorkLosesNothing` and `GcLosesNothing` show that no step but the last of
  a revocation takes an allocated address from everybody who has it; that step takes one at most
  and ends a registration (`LostSteps`, `EndedSteps`). A revocation under way has counted its
  registration already and lost nothing yet, which is why `LossInv` has the strict inequality there
  (`Owed`).
- `BillingProofs`: `BillingTypeCorrect`, `PaidDaysCount`, `PaymentsAreMatched`, `ServerKept`,
  `RemindersCurrent`. `PaidDays` is inductive with the types, the steps and `Ledger` (an order is
  paid after it was created): an extension adds one order to a set of payments that does not have it.
  `ServerFollows` needs what each thread has in hand: whoever has just paid is active until
  the rows are written (`JustPaid`), and whom the worker has listed has expired unless their
  subscription changed meanwhile (`Listed`, `adrift`). That the rows of users and those typed in by the
  admin never have one key is an assumption (`PersonsFresh`): the keys are drawn at random.
- `PythonTunnelProofs`, tunnel: `TypesHold`, `RecentStaysKnown`, `EntriesAlive`, `StreamsStayApart`,
  `ConnectionsServedOnce`. The first needs the table's invariant (CLOSE marks the thread of an
  entry). `RecentKnown` is about byte 0 of the window only: a shift by less than a byte moves its
  bits up, one by more leaves nothing that recent (`RecordKnown`). `StreamsApart` follows from
  `Numbered`: whatever has a stream number has that of its connection. `OneWorker` there is the
  property that a connection has one worker; a connection sends one CONNECT, under the keys of its
  start (`Opened`), and that frame, taken, has spawned each of the connection's workers
  (`ByConnect`), so that a second worker means a frame taken twice.
- `PythonTunnelProofs`, proxy settings: `SettingsInvariant`, `RebootAlwaysRestores`,
  `OrderlyEndRestores`. While no client took others for the user's settings there is one client at most
  (`Alone`), it holds the user's (`Own`), and each step of enabling and disabling leaves the command
  or the registry right (`Progress`).
- `GatewayProofs`: `TypesHold`, `FramesHandledOnce`, `RegisteredAreOpen`. `HandledOnce` is not
  inductive; `Remembered` is what is missing: a frame handled under this start of the server left
  its number in `seen_seqs`, and one of an earlier start is under a key that no longer opens.
- `UdpProxyProofs`: `UdpTypeCorrect`, `FramesDeliveredOnce`, `OrderlyEndUnblocks`. The types bound
  the jumps to a chain by the number of runs, because a run links each chain once at most
  (`Jumps`). `RefusedForEver`: a number that is refused stays refused however the window moves.
  `Chains`: during a clean-up, each chain that still has rules is one that the remaining commands
  flush.

Only model-checked: the three liveness properties (`RecycleTerminates`, `ExpiryServed`,
`HandshakeEnds`). Liveness under fairness, and anything with `ENABLED`, is beyond the prover.

## Disagreements with the documentation

The first five are statements of the C++ part that the code does not keep. The definitions are in
the modules and no run checks them: added to the `INVARIANTS` of the module's `.cfg`, each
makes TLC print a behaviour that violates it.

1. `RouteHandleSafe` (`SessionEpoch`): the look-up by tunnel address takes a raw pointer out of a
   snapshot before it enters the reader epoch; `session.h:9` and `server.cpp:1011` call it safe.
2. `EndpointsLive` (`SessionEpoch`): a handler in flight puts a removed session back into the
   endpoint cache.
3. `AtMostOnce`, `FilterOfKey` (`DataPath`, with `Workers <- MCTwoWorkers` and `MaxSeq = 2`):
   with several workers a duplicate passes the replay check twice, and a packet of the old key
   marks the new filter before the generation is checked. With one worker, the default, no packet
   crosses a rekey: `is_valid` (`server.cpp:862`) never fails, `FilterOfKey` has nothing to say, and
   no run or theorem counts it as shown. `SealedOnce` fails as well, when the
   TUN loop holds the old keys across the restart of `tx_seq`, and `PeerOfKey`, when two rekeys
   cross.
4. `AcceptedOnce` (`Resumption`): a call of `verify` that is delayed past the expiry accepts a
   used token that was pruned meanwhile.
5. `LeaseUnique` (`IpLease`): cleanup races a handshake over an address, and two clients
   have it. With two workers `OneHolder` and `TokenOutlived` fail as well: a handler restores a
   token's or a roaming client's address while revocation or cleanup takes it away.

In the Python part, visible in the models:

6. `aegs_server.py:11` and `:180` announce an RFC 6479 window of 2048 packets. The shift
   (`:106-110`) carries a byte's top bits into the byte before it, so that only the numbers
   of the newest byte are reliable (`RecentKnown` says exactly this), and older fresh frames are
   refused. `aegs_client.py:15` claims the same protection for the client, which has no filter
   (`Receive` of `StreamTunnel`).
7. `aegs_client.py:20-22` and `:69-71` promise the exact original settings after a sudden
   reboot or crash. RunOnce restores `ProxyEnable` only; an empty `ProxyServer` is not written
   back; and a client started after a killed one restores the killed one's settings (`stale` in
   `SystemProxy`).
8. `scripts/quick_client.py`: the kill switch of a run that died blocks the next run's server, if
   that is another one, and the resolution of its name; the socket is bound to 127.0.0.1, from
   which Linux does not send to other hosts.
9. `bot.py`: the status page reads a field that `check_subscription_status` does not return, so that the
   update is lost (`HandleStatus`). A promo code leaves the reminders of the previous period
   marked as sent.

Without a definition: padding is handed to the application with the data (`aegs_client.py:378`,
`aegs_server.py:441`, `aegs_tunnel_gateway.py:389`); the replay window of the C++ server is up
to 63 numbers short of the 2048 of `PROTOCOL.md:105`, because `network_security.h:204` counts in
words; an address that a handshake takes while its user is being revoked stays allocated for
ever (`LostPerRevocation` bounds how many); `PROTOCOL.md:40-41` and `:114` give other times than the code (30 s against 300 s,
180 s against 600 s).

## What the models leave out

Cryptography is ideal: a packet or token opens under the key that made it and under no other,
and random nonces differ. Bytes, masks, padding and decoys are not represented. Memory is
sequentially consistent, although the C++ code uses relaxed and acquire/release orders. The
clock never steps back. A frame of the Python tunnel whose random first byte looks like
another message type, and is dropped, is one that the network loses.

Some steps are coarser than the code; no property stated here tells the difference:

- `CleanupSession` empties routing and keys and unmaps in one step (`server.cpp:211-221`); `IpLease`
  and `DataPath` have those steps apart.
- `Locked` builds the handle a caller keeps; `find_if` returns a copy of it, rebuilt after the lock
  while the first still holds the session, and the short handles of the GC thread
  (`server.cpp:1160`, `:1302`) end before that thread goes on.
- `RekeyBegin` has new keys each time: a `build_resp` that fails and leaves them unset is a matter of
  the handshake, which is not modelled.
- `HandleReject` and `ApproveOrder` are pressed by the admin only, who alone is sent the buttons; the
  test of `is_admin` (`bot.py:688`, `:715`) therefore always passes.
- `Emit` increments `tx_seq` in one step and reads it in another. The increment itself is a load and
  a store too, and one thread can set back the counter that others moved on: again frames that share
  a number, which the separate read produces already.

Some properties leave out what the code does get wrong, and name it: `compromised` (`OneHolder`),
`torn` and `adrift` (`Billing`), numbers behind the newest byte (`RecentKnown`, `OneWorker`), runs that
died (`BlockedMeansDied`), `broken` and `stale` (`SystemProxy`). They say that the damage stays there; the
hazards in `PROJECT.json` state the excluded case with each.

Not modelled:

- The C++ handshake with its pending clients, the slots of a user, the rate limiter, the ban
  tables and the egress batch: they are the next candidates (see the plan).
- `SessionTable::clear` at shutdown and the single-word replay filter.
- Windows firewall rules of `quick_client.py`, `tools/aegs_client.py` and other older copies
  of the Python programs, `remote_security_probe.py` and the load generators.
- The desktop application and the server's window: widgets around the programs modelled here.
- Support tickets, promo code creation, broadcasts and statistics of the bot: single
  transactions that no other component reads.
- The Android and Windows clients, port hopping, shaping, chaff, mimicry, NAT set-up; the
  reason for each is given in `PROJECT.json`.

## Plan

In this order, each with its runs, mutants and hazards:

1. Proofs of what does hold of a server with several packet threads: weaker forms of
   `AtMostOnce` and `OneHolder`, with histories of the races that `compromised` does not record.
2. `Handshake` of the C++ server: client and server over a lossy, duplicating network; pending
   clients, seen timestamps and their eviction, `build_resp` failures; an abstract key agreement
   it is checked against. Then the four slots of a user.
3. `RateLimiter` and `SecurityBans`: the bounded tables of `server.cpp`, with two workers and
   the GC thread.
4. `EgressBatch` and `Backpressure`: partial sends, retries, pacing.
5. The connection state machines of the Android and Windows clients.
