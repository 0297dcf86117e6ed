# A TLA+ model of Veil VPN

Veil VPN is a fork of BoringTun (userspace WireGuard) with pay-per-use quotas,
a registration API and a desktop client. This directory holds TLA+
specifications of its components, the TLC models that check them on small
instances, and proofs checked by TLAPS. Line numbers refer to the repository;
`PROJECT.json` maps every definition to the lines it models. `bt/` below stands
for `src/protocol/boringtun/src/`.

## 1. Inventory

| Part | State | Operations | What is hard about it |
|---|---|---|---|
| Quota (`bt/payment/quota.rs`) | bytes left, blocked, consumed, payments, nonces | `consume`, `credit`, `check_and_record_nonce` | exhaustion exactly at zero; books must balance |
| Payment loop (`bt/device/mod.rs`, `bt/payment/`) | peer table, quotas, signals on the wire, gateway | packet handlers, `send_payment_required`, `handle_payment_submit`, `settle`, `handle_payment_signal_client` | loss, replay, timeout after the transfer was made, peers removed mid-round |
| Device lock (`bt/device/dev_lock.rs`, `event_loop`) | `wants_write`, RwLock, condition variable, notices | `read`, `try_writeable`, yield, exit | lock upgrade with indefinite readers, lost wake-ups, panics |
| Registration and reaper (`bt/device/http_api.rs`, `bt/device/api.rs`) | registry, address pool, UAPI queue, device peers | register, reap, UAPI get/set/remove | stale snapshot, timed-out request carried out later |
| Session counters (`bt/noise/session.rs`) | sender counter, bitmap, `next` | quick check, mark | two threads with one counter, jumps ahead |
| Tunnel (`bt/noise/mod.rs`, `handshake.rs`, `timers.rs`) | two handshake states, session ring, queue | init, response, data, `encapsulate`, `update_timers` | crossing, late and repeated messages; index reuse; expiry |
| Client (`src/client/`) | window, `VpnManager`, health task, the system | connect step by step, clean-up, disconnect, World ID polls | failing halfway, overlapping polls, death of boringtun |
| Timers (`bt/noise/timers.rs`) | nine times, two wants | `timer_tick`, `update_timers` | strict comparison of times from a coarse clock; attempts that must end, and not too early |
| Rate limiter (`bt/noise/rate_limiter.rs`, cookies in `handshake.rs`) | counter, secret, cookie of the initiator | `verify_packet`, `reset_count`, `receive_cookie_reply` | reset between count and check; cookies void when they are used |
| Peers and sockets (`bt/device/mod.rs`, `peer.rs`, `epoll.rs`, `allowed_ips.rs`) | peer tables, index register, listening and connected sockets, events | UAPI set, packet handlers, event loop | one number for two sockets; closures freed while in use; tables that disagree |
| WebSocket relay (`bt/device/ws_bridge.rs`, `ws_proxy.rs`) | bridge, connections, sessions | relay loops, reconnect, close | connection lost between read and send; a direction that waits for the other; threads that pile up |
| Deposit (`bt/payment/deposit.rs`, `rpc.rs`, `tx.rs`) | balances, one transaction | query, submit, wait | receipt later than the timeout |
| Attestation and names (`src/tee-service/`, `src/contracts/`) | registry, subnames | register on two chains | restart between the two |

The parts meet in these places. Packet handlers and UAPI share the device lock.
The registration API and the reaper change the device only through UAPI
requests. A settlement runs inside a packet handler, so it holds the device's
read lock for up to ten seconds, while UAPI clients wait five. The payment
signals travel through the tunnel, which does not repeat lost packets. The
client starts boringtun as a process and learns of its death by polling. A
handshake message passes the rate limiter, then finds its peer in the device's
tables, then reaches the tunnel; what the tunnel sends leaves through the
listening socket, the peer's connected one or the WebSocket relay.

What each part should guarantee is listed with its module below; what can go
wrong, line by line, is in `PROJECT.json` under `hazards`.

## 2. Modules

**BandwidthQuota, PaymentChannel.** The quota is a record, and each method of
`BandwidthQuota` an operator on it. Callers hold the peer mutex, so a method is
one step. `PaymentChannel` has the peer table, the wire (`required`,
`submits`), the gateway (`executed`) and histories (`drawn`, `signed`, `credits`,
`total`, `again`, `forwarded`, `excused`). `forward_packet` and `exhaust_quota` are
the two outcomes of a quota check in the three handlers (`Paths`: IPv4 and IPv6
inbound, outbound). `handle_payment_submit` and `settle` are one handler, split at
the HTTP call; `settling[p]` says that the peer's mutex and the device's read lock
are held in between. An outcome of `settle` is success, rejection, an error, or
`late`: the transfer was made but the answer missed the timeout. The gateway may
confirm a transfer again that it has made before, which `again` records. A
submission fails at most one check (`fault`). The server keeps the nonces it has
seen in the peer's quota, and does not look whether it asked this peer for this
nonce: whatever has been signed may arrive any number of times, through any peer in
the table (`Arrivals`), also through one that was removed and added again with an
empty set. `submits` are the first answers, which the liveness property waits
for; only these are lost with the peer's session.

**DevLock.** One program counter per worker. `read` and `try_writeable` are
followed from lock to lock; the critical sections under the `wants_write` mutex
are single steps, except that `read` keeps it while it waits for the RwLock.
`readers` and `writer` are the RwLock as parking_lot provides it: a waiting
writer stops new readers. Notices are level-triggered, the UAPI event one-shot.
A device has one UAPI event source, the runs allow two, so that a writer meets
another.

**Registration.** The HTTP thread, the reaper and the device, with the queue at
the UAPI socket between them. A human-only node records the nullifier World
answers with in a critical section of its own (`handle_registration_v2`), and
only then takes the registry mutex to register the key (`handle_registration`):
the reaper may come in between. A request whose sender gave up stays queued and
is carried out. Ages are abstracted to the side of the threshold they are on:
`registered_long` (registered for more than ten minutes), and for a handshake
none, now (age 0), recent, stale. `panicked` is `update_peer`'s panic on a known
key; the device does nothing after it, as every thread then waits for the
device lock (see the panic step of DevLock).

**AntiReplay, ReplayWindow.** `AntiReplay` is the promise: a counter is accepted
once, and only if it is no more than a window behind. It counts the packets
accepted, so that accepting one twice is no step of it. `ReplayWindow` is
the bitmap with its bit-wise and word-wise clearing, checked twice around the
decryption by several threads, and implements it. In the device a peer's mutex
admits one thread at a time; the module, like the functions of `session.rs`, does
not rely on it.

**Tunnel.** Two endpoints, each a `Tunn` record, and everything they have sent.
Cryptography is identity: an initiation is its sender and timestamp, session
keys are the initiation they come from. Handshake messages stay on the network
and may arrive any number of times in any order, data packets at most once
(counters are ReplayWindow's subject). A handler's loop that flushes the queue
after a handshake is part of the handler's step (`flush`), including what it
does without a session: it takes packets from the front and queues them at the
back. Timers are abstracted to what they may do in each handshake state.

**SessionTimers.** One end of a tunnel against any sequence of packets.
`update_timers(d)` is the whole function, `d` after its last call; every other
action is what a handler in `noise/mod.rs` does to timers and handshake state.
The code keeps points in time; the model keeps their ages, up to the largest one
that is looked at (`Cap`), and the outcomes of the comparisons between two
points (`after`). Histories say for how long the peer has been tried (`trying`),
how long ago a packet was last queued meanwhile (`quiet`), and since when data has
been unanswered (`unheard`, `unsent`).

**RateLimiter.** Threads that verify handshake messages of one initiator and of
others. `verify_packet` counts (`is_under_load`), `check_mac2` computes the
cookie and compares: the two can have a reset or a new secret between them.
A cookie is `good` or `void`: a new secret (every 128 s), another address of the
sender and another limiter (a peer added after the key was set has its own, for
its connected socket) all void the cookies given out. Indices are abstracted to
whether a message is the last one sent, as `receive_cookie_reply` compares them
with that one only.

**AllowedIps, IndexLfsr, Device.** `AllowedIps` is the table of networks as a
function, with longest match; `IndexLfsr` the shift register. Addresses and
indices are sets of bits, so that a mask is an intersection, exclusive or a
symmetric difference and a shift takes one off every bit. What `random_index`
draws for a device, `Seed` and `Mask`, are constants. `Device` has the peers,
the three tables that lead to them, the events by descriptor number and what
epoll has been told. `Processed` takes a request through its sections one by one
and stops where `update_peer` panics. Threads take an event (`wait`), handle it,
and let go of it (`finish`); `udp_packet` makes a connected socket, whose
registration is two steps (`insert_at`, `register_event`), as is clearing an
event (`clear_event_by_fd`, `epoll_ctl_del`). Only descriptors that closures own
are numbered; the lowest free number is given out, as the system does. UAPI
commands run while no other thread holds an event, which is what DevLock shows
of the write lock.

**WsRelay.** The bridge is one thread and a session one per connection; each is a
loop of two reads, so its place (`at`) is the read it is at. A connection is
open, closed by an end, or cut without notice, and has two queues. `up` and
`down` record what was sent and what arrived, with the connection it took.

**Client.** The window's status, the commands waiting for the manager's lock,
the manager's place in connect (`step`) and the set of what is installed in the
system. What undoes what is in `kill_boringtun`, `teardown_interface`,
`teardown_routes` and `restore_dns`; an interface goes with its process, routes
go with their interface, rules do not. `readable` says whether there was a
resolv.conf to save: an empty backup is not written back. World ID is the requests
to start it (`starting`), the interval that the window can still clear
(`polling`), those it has overwritten and cannot (`orphaned`), and the polls that
have succeeded; a second click may start a second interval, and closing the dialog
clears the last one only.

Definitions ending in a word that names a defect (`consume_uncounted`,
`signal_one`, ...) and commented "Mutant" are defective versions of the
definition that follows them. They are used in no specification. They serve to
show that a property can fail.

## 3. What TLC checks

| Run | Instance | Shows |
|---|---|---|
| `payment` | 2 peers (one without IPv4 address), 2 nonces, quota 2, grant 1, packets of 2 bytes, losses, two kinds of faults, every outcome | quotas balance; nothing is forwarded that was not granted or paid; an authorization buys quota if its transfer was made, once per peer, and once in all unless the gateway confirms it again; a blocked peer has a payment round under way unless the round was broken off; a peer whose round is not broken off is served again |
| `devlock` | 3 threads, 2 UAPI sources, exits, panics | one writer; no stale yield notice; writers get in, readers come back, exit reaches all |
| `registration` | 2 keys, 2 addresses, 1 late UAPI request | no address is lost or given out twice; registry and device agree, and no panic, until a request is late; every abandoned registration ends |
| `registration_panic` | as registration | *violated*: a retry after a timeout panics the device |
| `registration_reaper` | as registration | *violated*: a fresh peer is reaped |
| `noise` | counters: words of 2 bits, 3 words, counters to 9, 2 threads; limiter: 2 threads, limit 2, 2 troubles, any number of messages of others; timers: timeouts 1, 2, 4, 5, 9, persistent keepalive 3, updates 1 or 2 apart | bitmap exact in the window; implements AntiReplay: no packet twice; few messages pass without a cookie in a period; the initiator gets in; initiations cease, and not too early; silence of the peer is noticed and one's own is broken; a session in use is renewed before it is dropped |
| `timers_queued` | timers as in noise | *violated*: a packet queued late in an attempt is dropped with it |
| `tunnel` | ring of 2, 3 initiations in all, 1 payload, queue of 1, one step of the clock | both sides agree on indices; keys make one session; packets are never in two places; no packet waits without a handshake; the responder waits for confirmation |
| `device` | 2 threads, 2 keys, 3 descriptors, 1 bit addresses, 2 bit indices | no handler freed or shared while in use; epoll and the vector agree; connected sockets are served; tables agree; sockets shut down are closed |
| `client` | macOS, 2 connects, 2 calls and 2 polls of World ID, 1 death, every step may fail | configuration is complete while connected; the window shows what is there |
| `client_side` | client: Linux, 2 connects, 1 death, every step may fail, no World ID; relay: 2 connections, 2 packets each way, UDP buffers of 2 | without a connection nothing carries traffic into a tunnel; busy ends; a death is shown and stays shown; packets arrive once, in order per connection; no direction stalls; sessions end |
| `client_restore` | Linux, 2 connects, 1 call and 1 poll of World ID, every step may fail | *violated*: a connect that fails among the routes leaves rules behind |

`noise` and `client_side` check specifications that share no variable: `MCNoise`
and `MCClientSide` choose in the initial state which of them is running (`part`),
and leave the others where they are.

**Bounds.** Quota 2 with a grant of 1 and packets of 2 meets every case of
`consume`: exactly what is left, more (2 of the 1 bought), less (2 of 3, a payment
having come before), and nothing left. Two
nonces allow a second round of the same peer, or rounds of two peers at once.
Three threads allow a writer, a second writer and a reader. Two keys and two
addresses let a late request's address be given to another client, or to its own
again. Words of two bits in a six bit
bitmap, with counters to 9, allow jumps within a word, over words and beyond the
bitmap. In the tunnel, one side may initiate twice and the other once, which
gives crossing initiations and a response to the previous one; a ring of two
with two indices reuses slots and indices at once. `N_SESSIONS` must divide
`IndexCount` (8 and 256 in the code), which the module assumes. The bounds
differ between the endpoints because the symmetric instance (4.35 million states,
also without error) takes longer than is useful for a regular check. Two
connects and two polls are the least that make connects overlap, two calls of
`start_world_id` that make an interval escape. What must happen is
checked for a server without World ID: a second connect that comes from a poll is
refused and returns at once, but multiplies the states. What is left behind depends
on the platform, and more can be left on Linux.

The timeouts in `noise` are in the order of those of the code (5, 10,
90, 120, 180 s), which the module assumes, with room for several retransmissions
in an attempt; updates may be as far apart as the shortest two. Two troubles of
the initiator are a cookie that is void when it is used, and a
lost or late answer when it asks for the next. A limit of 2 with two threads
lets messages counted in one period be admitted in the next. In `device`, three
descriptors are two sockets and one number that is used again; one-bit addresses
have overlapping networks of two lengths; a two-bit register comes round at the
third peer. Two connections of the relay let packets of one be under way while
the next is made.

**Deadlock** is checked except where the system may stop: all workers have
exited, the counters, clock, initiations, connects or polls of the instance are
used up, or the device has panicked.

**Fairness.**
- Payment: weak fairness of the client's answer, of the handler and of the
  gateway's answer; the event loop serves readable sockets, and `settle` has a
  timeout. Packets and the peer table are not fair.
- DevLock: weak fairness of every step of a thread that is not an event. Strong
  fairness of getting the `wants_write` mutex between two writers: parking_lot
  mutexes are eventually fair, and the code assumes that writes are "very rare"
  (`bt/device/dev_lock.rs`). Strong fairness of seeing a raised notice: epoll
  returns ready descriptors in turn.
- Registration: weak fairness of each thread and of the device; strong fairness
  of the reaper's taking of the registry mutex, which is free between requests.
  The number of late requests is bounded, so they stop some day.
- RateLimiter: threads finish what they verify (weak); the initiator's messages
  are taken up in turn with those of others (strong: the socket is a queue); it
  repeats its initiation while it is trying. Resets are not fair: nothing relies
  on the load going down.
- Device: a thread inside a handler goes on, and gets the vector's mutex when
  others keep taking it (strong); epoll returns ready descriptors in turn
  (strong).
- WsRelay: bridge and sessions go on (weak): every read and write has a timeout
  (a build has no TLS in tungstenite, so every connection is a plain one).
  The network, client and server are not fair.
- Client: commands return, the window handles its messages, the health task wakes
  up. That commands return is an assumption: `run_sudo` (`vpn.rs:1011`) has no
  timeout, a `sudo` that waits for ever keeps the window busy. The user, the polls and the death of boringtun are not
  fair.

## 4. Disagreements between code and comments

1. `registration_panic`: `http_api.rs:362` has a check that "prevents
   update_peer panic". It looks at the registry, which does not know of a peer
   whose UAPI request timed out and was carried out afterwards.
2. `registration_reaper`: `http_api.rs:11` gives a peer ten minutes to connect.
   The reaper's list of peers may be older than the registration; and a
   handshake of age 0 counts as none (828).
3. `timers_queued`: `timers.rs:219` says that a packet "explicitly queued up to be
   sent" resets the attempt's timer. `encapsulate` only queues it while a handshake
   is in progress; the timer stays that of the attempt's start, and the packet is
   dropped with the attempt. `AttemptsCease` holds whichever way one reads it: an
   attempt ends within `REKEY_ATTEMPT_TIME` of the last packet queued.
4. `client_restore`: `vpn.rs:13` promises to "restore original state" and
   `vpn.rs:14` to "rollback all completed steps". The commands inside
   `configure_full_tunnel` are no steps of their own, and the rule that was added
   when a later one fails stays. The property also fails with resolvconf, whose
   entry `disconnect` does not take out (`restore_dns` writes the saved file, and the
   clean-up that runs `resolvconf -d`, `vpn.rs:288`, is disarmed), and where there was
   no resolv.conf to save (`vpn.rs:819`). `TunnelIsGone` is what holds.

Met while modelling, and part of the models, without a run of their own:

- `quota.rs:27` says that `consume` returns false if the quota was "just
  exhausted". After packets that use it up exactly it returns false for every
  packet, and each makes the server send a request.
- The nonces used are kept per `Peer`, and nobody checks that a nonce was asked for
  (`mod.rs:1127-1145`): that an authorization buys quota once in all rests on the
  gateway, as `CreditedOnce` says.
- A death reported while connect is at its last step, the balance query, is shown,
  then overwritten by the `connected` that the command returns (`App.tsx`), and the
  health task has ended: `DeathIsShown` is about the connections whose command has
  returned. A connect that is refused because there is a connection makes the
  window show `disconnected` (`ShownAsItIs` excepts it).
- `mod.rs:448` says that `open_listen_socket` removes existing sockets from the
  event loop. It clears the descriptor of the socket kept, the event stands at
  that of a clone: in `Device` listening sockets accumulate.
- `remove` and `endpoint` of one peer section of a UAPI request hold for the
  next section too (`api.rs:287`), unlike `allowed_ip`.
- `clear_peers` leaves the connected sockets of the peers it drops open;
  `ConnectedIsServed` excepts these peers.
- The handlers' `expect("Key not set")` and `expect("Not connected")` end a
  worker thread (`handler_panics`).
- `deposit.rs:42` reserves "1 USDC", the constant is 0.1; `WORLD_ID_PLAN.md:216`
  refuses a known nullifier, the code logs it.

## 5. What is proved

For all values of the constants, from the `ASSUME`s of the modules only:

| Theorem | Statement |
|---|---|
| `PaymentProofs!TypeCorrect` | `Spec => []TypeOK` |
| `PaymentProofs!QuotaIsConserved` | `Spec => []QuotaConserved` |
| `PaymentProofs!BlockedPeersAreSpent` | `Spec => []BlockedIsSpent` |
| `PaymentProofs!AuthorizationsCreditedOnce` | `Spec => []CreditedOnce` |
| `PaymentProofs!ServiceIsFunded` | `Spec => []ForwardedIsFunded` |
| `PaymentProofs!PaymentUnblocks` | `Spec => OnlyPaymentUnblocks` |
| `PaymentProofs!NobodyIsForgotten` | `Spec => []BlockedHasLiveRound` |
| `SharedProofs!OneWriterAtATime` | `LockSpec => []OneWriter` |
| `SharedProofs!NoBlockedMutexNoLostWakeup` | `LockSpec => [](MutexHolderRuns /\ NoLostWakeup)` |
| `SharedProofs!YieldIsCancelled` | `LockSpec => []NoStaleYield` |
| `DeviceProofs!EventsAreHeldByOne` | `Spec => []GuardsAreLive` |
| `DeviceProofs!PollFollowsEvents` | `Spec => []PollMatchesEvents` |
| `DeviceProofs!SocketsAreServed` | `Spec => []ConnectedIsServed` |
| `DeviceProofs!PeerTablesAgree` | `Spec => []TablesAgree` |
| `DeviceProofs!IndicesAreFresh` | no two peers, present or gone, ever have the same index |
| `RegistrationProofs!PoolIsPartitioned` | `Spec => []PoolPartition` |
| `RegistrationProofs!AgreementInTime` | `Spec => []RegistryMatchesDevice` |
| `RegistrationProofs!NoPanicWhileInTime` | `Spec => []NoPanicInTime` |
| `SharedProofs!WindowIsExact` | `Spec => []WindowExact` |
| `SharedProofs!SessionRefinesAntiReplay` | `Spec => ImplementsAntiReplay` |
| `HandshakeProofs!FewAreAdmittedUnproven` | `LimiterSpec => []FewUnproven` |
| `HandshakeProofs!RetriesCease` | `TimersSpec => []AttemptsCease` |
| `HandshakeProofs!NoSilence` | `TimersSpec => []SilenceIsBroken` |
| `HandshakeProofs!RetriesAreFull` | `TimersSpec => AttemptsAreFull` |
| `HandshakeProofs!RekeyComesInTime` | `TimersSpec => RekeyedInTime` |
| `TunnelProofs!NoKeyTwice` | `Spec => []KeysUsedOnce` |
| `TunnelProofs!SessionsArePairs` | `Spec => []SessionsMatch` |
| `TunnelProofs!QueueIsWaitedFor` | `Spec => []WaitingIsInProgress` |
| `TunnelProofs!CurrentIsConfirmed` | `Spec => ConfirmedBeforeCurrent` |
| `TunnelProofs!PacketsAreConserved` | `Spec => []PacketsConserved` |
| `ClientProofs!PacketsRelayedOnce` | `RelaySpec => []RelayedOnceInOrder` |
| `ClientProofs!ConnectionIsWhole` | `Spec => []ConnectedIsConfigured` |
| `ClientProofs!LittleIsLeft` | `Spec => []TunnelIsGone` |
| `ClientProofs!WindowIsRight` | `Spec => []ShownAsItIs` |

Every proof goes along the same line: an invariant stronger than the property
holds initially, is kept by each action, and gives the property. Three proof
modules are about two specifications each: `SharedProofs` about `ReplayWindow`
and `DevLock`, `HandshakeProofs` about `SessionTimers` and `RateLimiter`,
`ClientProofs` about `Client` and `WsRelay`. So that they can be extended together,
`DevLock`, `SessionTimers`, `RateLimiter` and `WsRelay` name their specification
after themselves (`LockSpec`, `TimersSpec`, `LimiterSpec`, `RelaySpec`).
The lemmas about the tables of peers and the index register, which `DeviceProofs`
builds on, are in `PeerTableProofs`.

**Payment.** Lemmas say what `new`, `consume`, `credit` and `record_nonce` do to
a quota. The books of a peer (`BooksInv`: conservation, blocked implies spent,
and forwarded at most consumed) are inductive with the type invariant.
`CreditedOnce` is not inductive: it needs to know that the nonce being settled
is recorded in the peer's quota and has bought this peer nothing yet, and that a
nonce not recorded has bought it nothing (`CreditRecorded`); that the same nonce may
be settled for two peers at once is no obstacle, since the gateway confirms the
second only `again`. `ForwardedIsFunded` joins both: the number of payments of a
peer is the cardinality of its paid nonces (`PaidCounted`), and what it was granted
bounds what was forwarded. `BlockedHasLiveRound` needs `NonceLifecycle`: a nonce
is asked of one peer, signed once, and submitted only when it is signed, so that
what is recorded or arrives elsewhere does not end the round that is under way.

**Device lock.** `LockInv` adds to the type invariant that at most one thread is
between marking `wants_write` and clearing it, that the flag is set while a
thread is there or waits, and that a thread which passed the check in `read` has
seen it clear. This last fact holds because that thread still has the mutex.

**Device.** `DeviceInv` has a part about the peers and one about the loop.
`DevInv` of the peers says that the tables by key, index and network lead to each
other, and that there is a trail of the register (`Trail`): the values it has
gone through, from the seed to the present one, one for each peer that was ever
added and no two the same. The trail can always be made one longer, because a
shift is injective (the polynomial has the top bit, which a shift has cleared)
and so leads back to no value but the seed, where `next` panics; since taking
one and the mask are injective too, the next index is not that of any peer
before. A request keeps `DevInv` by induction over its sections
(`ProcessedKeepsInv`). Of the loop, `Hand` says what a thread has in its hands at
each place in the code, and `ApartInv` that no two have the same: an event that
is handled is disarmed and in the vector, one whose socket has hung up is of no
peer any more, a socket that is being registered is its peer's and not yet
polled, and a number that is being cleared is neither in the vector nor polled.
The number may be given out meanwhile, but `insert_at` waits for the mutex, which
is why `EPOLL_CTL_DEL` never meets the new socket. `PollInv` and `ServedInv` are
the properties with the threads between two steps taken into account.

**Registration.** `ThreadsInv` is what a thread relies on between two of its
steps because it holds the registry mutex: the address being set is free, the
peers being removed are registered. `QueueInv` says that a thread waits for one
request at most, so that no answer is taken for another's. With them
`PoolPartition` is inductive. For the agreement of registry and device,
`InTimeInv` says what the device holds while one request has been carried out
and not yet committed (`Expected`), as long as none was late.

**Session counters.** `WindowInv` relates each bit to the counter it stands for.
That the two ways of clearing, by bit and by word, clear the same bits rests on
lemmas about quotients and remainders. `SessionRefinesAntiReplay` is the
refinement, step by step: a mark is an `Accept`, all else a stutter.

**Rate limiter.** `LimiterInv` bounds the messages admitted without a cookie since
the last reset together with those that still can be (`Quota`): a thread that has
counted its message below the limit will admit it, whatever the others do, and
after a reset at most the other threads have such a message in hand.

**Timers.** `TimersInv` ties the histories to the timers that the code compares:
the attempt's age to its start, silence to the last packet and to the flag that
is waiting to be served, the initiator's session to the last handshake.
`QuietInv` bounds the time since a packet was queued by the attempt's.

**Tunnel.** `Keyed` says of one endpoint how the timestamps of its open
initiations, and `last_handshake_timestamp`, keep a handshake from being completed
twice. `Paired` says that an initiator's sessions, responses and data go back to
sessions of the other end. `KeysWaiting` is both with the property on the queue;
`PlaceInv` says where a packet can be, flushing and requeueing included.

**WebSocket relay.** Of the packets that have arrived, are in a connection and
wait at a socket, `Apart` says that they are different and, per connection, in
this order. Four lemmas say that losing, sending, passing on and delivering
packets keep it so. `AddrInv` says that the bridge has heard the client if
anything is on its way.

**Client.** `SystemInv` says what is installed at each step of connect
(`Upto`), and what may be left without a connection (`Left`). `WindowInv`
looks at the last message the window will handle. `Left` has some of the rules at
most, the entry of resolvconf, and a resolv.conf where there was none to save:
without the last of the routes no traffic finds the tunnel, and the other two can
only name servers.

**Assumptions.** The grant of a payment is positive, packet sizes are natural
numbers, and placeholders for no peer, nonce, thread, key or session differ from
the real ones. A tunnel has two different ends, and `N_SESSIONS` divides
`IndexCount`. Word size and number of words are positive, as are the relay's
connections and buffers. The timeouts are positive and in the order of the
code's. There is a worker thread, finitely many of them, and the limiter's limit is
a natural number. An index has at least one bit, the polynomial has the top one,
seed and mask are not zero (`random_index`); a request is a sequence of peer
sections. Numbers that only bound a run (`MaxStamp`, `MaxConnects`, ...) are any
natural numbers. The tunnel and the relay proofs are about these models: that
cryptography is identity, and that a connection keeps its messages in order, is
part of the models.

**Only model-checked**: the liveness properties `ServedAgain`, `WriterGetsIn`,
`ReadersComeBack`, `ExitReachesAll`, `AbandonedPeersLeave`, `BusyEnds`,
`DeathIsShown`, `ShutSocketsClose`, `InitiatorGetsIn`, `NothingStalls` and
`SessionsEnd`: they need reasoning about fairness and ENABLED, which this prover
does not have. Every other property of a passing run is proved. `NoPanic`,
`OnlyIdleReaped`, `QueuedIsTried` and `NothingIsLeft` are violated (section 4).

## 6. What is not modelled

- The deposit: a straight sequence of RPC requests that `set_key` makes once. It
  goes on whatever their result, and no other part reads what they leave. Its
  waiting under the write lock is the write section of DevLock.
- The token bucket of the HTTP API: a request it refuses returns before it reads
  or changes the registry. Signing a World ID context (`handle_rp_context`): a
  pure function of the clock and a random nonce.
- The attestation script and the ENS contracts: transactions one after the
  other, no part of the VPN runs concurrently with them; the contracts are
  copies of those ENS has deployed.
- `fwmark`, key changes with sessions open (`set_static_private`), kqueue.
- Interfaces, foreign function wrappers, the command line, wallet derivation:
  system calls or pure functions, no protocol.
- Crediting a payment without a settlement client (`mod.rs:1180`): a server
  gets its client with its key (`set_key`), without which no peer can be added.
- The deadline of a request (`PaymentRequired`): the client does not look at it.
- Failing clean-up commands in the client: the code ignores their result.

## 7. Plan

1. *Core* (done): payment, device lock, registration, counters, tunnel, client;
   type and safety proofs for payment and device lock.
2. *Extension* (done): SessionTimers, RateLimiter, Device with AllowedIps and
   IndexLfsr, WsRelay.
3. *Proofs* (done): payment rounds, Registration, ReplayWindow with its
   refinement, SessionTimers, Tunnel, WsRelay, Client, RateLimiter, Device with
   AllowedIps and IndexLfsr.
4. *Left*: the deposit and the token bucket, if they come to share state with the
   rest.
