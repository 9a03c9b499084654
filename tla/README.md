# uxsp in TLA+

uxsp is a Python library for end-to-end secured messages over untrusted
transports: identities with post-quantum and classical keys, sealed envelopes
that open once, a mutual handshake, and sessions with per-direction keys. This
directory holds TLA+ models of its stateful parts, TLC configurations that
check them on small instances, and TLAPS proofs of the results that matter
most. Everything is translated from the source under `src/uxsp/`; paths and line
numbers below are relative to the repository.

    tlc -workers 2 -config MCSession_ordered.cfg MCSession.tla
    tlapm SessionProofs.tla

## 1. Inventory

For every part: the state it keeps, its operations, whom it talks to, what is
hard about it, and what it takes to be correct.

| Part (source) | State | Operations | Interacts with | Hard behaviour | Correct when |
|---|---|---|---|---|---|
| **Session** `core/session.py` | lifecycle state, two counters, window of seen numbers, key buffers, age | `_activate`, `encrypt`, `decrypt`, `revoke`, expiry | made by the handshake, used by the WebSocket transport and by applications from several threads | encrypt releases its lock before the AEAD; counters move before authentication and are rolled back; combined cap | a number is used once per direction, each payload is delivered once (in order, if asked for), a refused payload changes nothing, a closed session stays closed |
| **Replay guard** `core/replay.py`, `core/identity.py`, `crypto/hybrid.py` | none but its store | `precheck`, `commit`, `check_and_open`; `Identity.open_from` | nonce store, clock | check and mark are separate calls; two clocks; processes share a store | an envelope opens once; a damaged copy does not use it up |
| **Nonce stores** `core/nonce.py`, `storage/noncestore.py` | expiry of each nonce (memory, SQL, Redis, sliding window, two tiers) | `mark_used`, `is_seen`, `cleanup` | guard, handshake | expiry boundary, capacity, one tier failing or restarting | first mark wins, for the whole TTL |
| **Async receive path** `aio/_engine.py` | none but its store | `async_secure_receive_payload` | async store, `open_from` | marks first and verifies later, with a TTL of its own | as for the guard |
| **Handshake** `core/handshake.py` | initiator: pending secrets and id; store: marks of HELLO and ACK | `initiate`, `respond`, `complete` | nonce store, session, two clocks | copies and delays of both messages, several workers | one session per end and handshake, with the same key |
| **Guarded handshake** `core/rate_limit.py` | as above | `respond` behind a limiter, synchronous and asynchronous | limiter, handshake | the asynchronous one marks before it verifies | as above |
| **Rate limiters** `core/rate_limit.py` | per key: window start and count, or timestamps | `check`, `reset`, cleanup | guarded handshake, contrib | window boundaries, entry limit, clocks of callers that share Redis | a key passes at most twice its limit in a fixed window's length, and its limit in any sliding window |
| **WebSocket transport** `transport/websocket.py` | handshake in progress, session | handshake handlers, `encode`, `decode`, RESUME, PING/PONG, `close` | session, handshake, connection | reconnects with frames in flight | after a resume both ends can talk; close always revokes |
| **Live sessions** `core/live.py`, `secure/_live.py` | root key, epoch, frame counter per direction | `encrypt_frame`, `decrypt_frame`, ratchet | key derivation | one-way ratchet driven by unauthenticated epochs, lost frames, joining late | a peer that only listens never gets ahead of its sender |
| **Key stores** `storage/keystore.py` | cards by id; cache with TTL; file with lock | `put`, `get`, `delete`, `list` | identities | back-fill racing a write; a failing half; processes with caches of one file | a stale card is served for a bounded time; no update of the file is lost |
| **Trust store** `core/signing.py` | anchors, revoked certificates, file | `add`, `remove`, `revoke`, `unrevoke`, `add_crl`, `verify`, `save`, `load` | identities | the lock is taken and released several times in one call | what verifies was good at one moment of the call; what was saved survives |
| **Chunking, streams** `core/chunking.py`, `secure/_stream.py`, `aio/stream.py` | chunks received so far | split, reassemble, send and receive streams | payload, envelope | missing, swapped, repeated chunks; a source that changes; calls that are made again | what comes out is what went in, or an error |
| **Secure context** `secure/_context.py`, `_engine.py`, `_dispatch.py`, `_package.py` | global defaults: identity, keystore, guard | `configure`, `reset`, `register_peer`, `revoke_peer`, send, receive | everything above | defaults replaced under running calls; labels of a package that nobody signed | a package is delivered once, whole, by whom it was sealed for, and not from a revoked peer |
| **HTTP client** `client/` | capability cache | probe, send, fall back | server | an answer lost after the server acted | a forced request is never plain; an operation is carried out once for each guard, and once more after a fallback at most |
| Identity, cards `core/identity.py` | immutable keys, in memory and on disk | create, rotate, load, save, seal, open | all | keys rotate while packages are under way | part of the row of the secure context |
| Envelope, payload `core/envelope.py`, `core/payload.py` | none | validate, serialise | all | size limits on two layers | what is small enough to be sealed fits |
| Cryptography `crypto/` | none | AEAD, KEM, signatures, KDF | all | - | assumed perfect |
| HTTP transport, frameworks `transport/http.py`, `contrib/` | the guard of the process, the limiter of the application | middlewares | guard, limiter | each worker has its own guard, in memory unless configured | a package acts once for each guard that begins without marks |
| Schema, CLI, WebAssembly | none | validation, commands | all | - | - |
| JavaScript SDK `sdks/js/` | as the Python library | as the Python library | servers | second implementation of the protocol | - |

How they fit together: an `Identity` seals a payload into an envelope, the
receiver's `ReplayGuard` decides over a nonce store whether it may be opened. For
a conversation, `Handshake` exchanges HELLO and ACK (each protected against
replay by a mark in a nonce store) and leaves an ACTIVE `Session` on both sides;
`UXSPWebSocket` carries handshake, session and reconnects over one connection.
Rate limiters stand before the handshake and the HTTP endpoints. Shared state is
in the stores (between processes) and in `Session` (between threads); everything
else is calls.

The full list of what is hard to test, each entry at its line, is `hazards` in
`PROJECT.json`.

## 2. Modules

| Module | Models | Kind |
|---|---|---|
| `FifoChannel` | what an ordered session promises | abstract specification |
| `Session` | two `Session` objects and the network between them | component |
| `MCSession` + 4 cfg | | model checking |
| `SessionProofs` | types, cap, numbers, closing, refinement of `FifoChannel`, the receive window | proofs |
| `ReplayGuard` | `open_from`, `check_and_open`, the asynchronous path, a two-tier store | component |
| `MCReplayGuard` + 3 cfg | | model checking |
| `ReplayGuardProofs` | types, one opening, no burnt nonces, no opening again within the window | proofs |
| `KeyAgreement` | what the handshake promises | abstract specification |
| `Handshake` | `initiate`, `respond`, `complete`, both guarded variants | component |
| `MCHandshake` + cfg | | model checking |
| `HandshakeProofs` | types, inductive invariant, refinement of `KeyAgreement` | proofs |
| `WebSocket` | a client's and a server's `UXSPWebSocket` over a connection that drops | component; refines `FifoChannel` for each session |
| `MCWebSocket` + 2 cfg | | model checking |
| `WebSocketProofs` | types, shared sessions, numbering, closing, refinement of `FifoChannel` | proofs |
| `CachingKeyStore` | Redis cache over a durable card table | component |
| `FileKeyStore` | processes that keep cards in one file | component |
| `NonceRegister` | what every nonce store promises to those who mark nonces | abstract specification |
| `NonceStore` | inside of the memory, sorted-set, Redis and Postgres nonce stores | component; refines `NonceRegister` |
| `FixedLimiter`, `SlidingLimiter` | the two kinds of rate limiter, in memory and in Redis | components |
| `LimiterProofs` | of both: types, what a window lets through | proofs |
| `TrustStore` | anchors, revocations and their file under threads | component |
| `StorageProofs` | of the two key stores, the nonce stores and the trust store: types, how long a stale card is served, that no update of the file is lost, how long a nonce is held, refinement of `NonceRegister`, `verify()` at one moment, `save()` that lasts | proofs |
| `LiveSession` | ratcheted frames | component |
| `ChunkedTransfer` | chunks of a file that may change, and the packages that carry them | component |
| `PackageStream` | `SendStream()` and `ReceiveStream()` | component |
| `SecureContext` | global context, its keystores and guards, calls in flight | component |
| `SealedPackage` | identities, envelopes and chunks from `Send()` to `Receive()` | composition of identity, envelope, guard and chunks |
| `HttpExchange` | `fetch()` against a server with or without the middleware | component |
| `DeliveryProofs` | of the six above: types and the property of each | proofs |
| `MCServices` + cfg, `SealedPackage_limit.cfg` | | model checking of the twelve above |
| `ServicesProofs` | of `MCServices`: its specification implies those of its parts, and so the types and properties of all | proofs |

Definitions whose name begins with `Bad` are plausible faults of the definition
that follows them. They are never part of a specification; replacing the good
definition by the bad one must make the property named in `PROJECT.json` fail.

### Session

`state`, `sendSeq`, `recvSeq`, `seenSeqs`, `maxSeenSeq` and `recvCount` are the
attributes `_state`, `_send_seq`, `_recv_seq`, `_seen_seqs`, `_max_seen_seq` and
`_recv_count`, one of each per peer. `pending` is the local variable `seq` of each
`encrypt()` under way, `net` every payload ever returned by `encrypt()`.
`delivered` and `rolledBack` are history.

* `encrypt()` is `BeginEncrypt` (under the lock: state check, number taken) and
  `FinishEncrypt` (AEAD and final expiry evaluation, after the lock is released);
  threads and `revoke()` run in between. Which key the AEAD finds (`SendKey`)
  depends on whether `revoke()` has zeroed the buffer meanwhile.
* `decrypt()` holds the lock from the check to the rollback, so `DecryptOrdered`
  and `DecryptWindow` are single steps. `Remembered`, `Pruned`, `MaxAfterRollback`
  follow the code's order: add, raise the maximum, prune, authenticate, roll back.
  In between `decrypt()` and its own last call of `_evaluate_expiry()` only
  idempotent one-way changes of `state` can occur, so that call is in the same step.
* A payload is its direction, its number and the key it was sealed with. The
  network is the set `net`: any payload may arrive again, late, out of order or
  never. `ReceiveDamaged` is a payload that fails authentication, with a number
  from `DamagedSeq`.
* Age is a flag that `Age` raises once at any moment.

### ReplayGuard

Each clock read and each store call of the code is one step of one receiver:
`Precheck` (freshness, then `is_seen` as a hint), `Verify` (freshness again and both
signatures), `Commit` (freshness again; only `open_from` comes through here,
`check_and_open` goes directly to the mark), `MarkFast`, `MarkDurable`,
`MarkFastAgain` (the three store calls of `TieredNonceStore.mark_used`), `Open`.
`AsyncMark`, `AsyncPrecheck`, `AsyncVerify` are the asynchronous path. `GiveUp`
is every exception and every crash, at every stage. `ForgetDurable` removes expired
entries whenever it likes, or never, which covers the different boundary
comparisons of the stores; `ForgetFast` also loses entries too early (a cache
that restarts). A store that is not tiered is the case in which the fast part is
never used. Clocks: `now` is the receivers' clock; a sender's stamp may be ahead of
it by `AheadBy`. A stamp from behind is an envelope that was longer on its way.

### Handshake

`Initiate` stamps and sends a HELLO. `RespondVerify`, `RespondMark`, `RespondDerive`
are `Handshake.respond()`; `AsyncMark`, `AsyncSeen`, `AsyncNonce`, `AsyncVerify` are
the three store calls of `AsyncGuardedHandshake.respond()` and the verification it
makes afterwards over a store that forgets; both kinds of worker share `helloMark`.
`CompleteVerify`, `CompleteMark`, `CompleteDerive` are `complete()`. `WorkFails` and
`CallFails` are every exception or crash. The initiator's clock differs from the
responder's by a constant `offset`; the initiator's mark expires by the duration of
its TTL, so both marks use `now`. A session key is the responder's contribution
to it, fresh for each response: two sessions have the same key exactly if they
come from the same response.

### WebSocket

`hs` and `cur` are the session ids of `_hs` and `_session` of each end's object;
`state`, `sendSeq`, `recvSeq` belong to the `Session` an end holds for a session id,
and are found again when the server's application hands that session to
`handle_resume()`; `known` is the set of those it may hand in. `wire` is the
connection, one FIFO queue towards each end; `accepted` and `broken` are history.

* Each handler takes the first frame that has arrived and is one action:
  `HandleHello`, `CompleteHandshake`, `HandleComplete`, `Decode`, `HandleClose`,
  `HandleResume`, `CompleteResume`, and `RefuseHandshake` for the errors of the first
  two. `pong()` is two actions, `PongDecrypt` and `PongEncrypt`: its two calls of the
  session are separate, and the lifetime may end between them.
* Calls that send are `StartHandshake`, `Send` (`encode()` and `ping()` with a
  session), `PlainPing` (`ping()` without one), `Close`, `StartResume`.
* `Opens` is the outcome of `Session.decrypt()` in ordered mode: the session is ACTIVE,
  the payload was sealed in it, its number is the next. Any other payload is lost:
  `decode()` raises, `pong()` suppresses the error and answers, `handle_close()`
  revokes either way. A PONG is read by no method of the class, so that its payload is
  never opened (`IgnorePong`).
* `Drop` loses all frames under way; the server goes on with its object or with a new
  one, the client keeps its own.
* One thread drives each object, and there are no clocks: what threads do to a session
  is the subject of `Session`, what time and replays do to a handshake that of
  `Handshake`.

### Stores and limiters

* `CachingKeyStore`: `table` is the Postgres table, `cached` what Redis holds, with its
  expiry, `call` where each client is. A client's `get()` is a read of the cache, a read
  of the table and a back-fill, three steps; `put()` and `delete()` are a commit and a
  step on the cache. Each cache step may fail silently; a commit may be done and its
  answer lost. `MaxDelay` is how long a call may rest between its two stores.
* `FileKeyStore`: `put()` and `delete()` hold the file lock throughout and are one step
  each; what is between steps is each process's cache with the time and size it
  believes the file has. `FlushFails` leaves the cache changed and the file not.
* `NonceStore`: one module, four kinds (`nonceKind`), since each decides in one step.
  Capacity, the cleanup every so many calls, the key expiry with its grace of an hour, and
  callers whose clocks differ. `NonceRegister` has no clock and no entries, only what is
  left of each mark (`remaining`); the refinement mapping computes it from the entry's
  expiry, and takes a nonce whose time is over as unmarked from that moment (`Lapsed`),
  whether the entry goes then, later or never. So a removal is no step of the register
  unless it comes too early. A register without slack and without the common drop is what
  `ReplayGuard` (`MarkOnce`, `ForgetDurable`) and `Handshake` (`Mark`, `Forget`) take the
  store to be: a mark only if there is none, and a removal only after its time.
* `FixedLimiter`, `SlidingLimiter`: `check()` with the cleanup it does on its way, for the
  memory class under its lock, and the Redis script. `granted` and `passed` are history. The
  script of the fixed window sets the expiry after its INCR; where Redis does not take
  `window_seconds` for one (`~expiring`), the key counts until `reset()` (`RedisCheckForGood`).
* `TrustStore`: `verify()` is `BeginVerify`, `CheckRevoked`, `CheckSignature` as its lock
  is taken twice and released; `add_crl()` is `BeginCrl`, `CheckCrl`, `ApplyCrl`; `save()`
  waits for the file lock, takes its snapshot, replaces the file. `Restart` is a process that
  ends and loads the file.

### Delivery

* `LiveSession`: a frame is its sender, epoch and number. `Advance` is the ratchet and the
  counter of frames, which `encrypt_frame()` and `decrypt_frame()` share;
  `DecryptDamaged` moves on to the epoch a damaged header claims, as the code does
  before it authenticates.
* `ChunkedTransfer`: a file is a sequence of blocks; `content` may change between the
  pass that hashes and the pass that emits. Reassembly makes every check of
  `reassemble()` in the code's order.
* `PackageStream`: packages are numbers; a call that raised may be repeated from the
  start or from where the source stands, and truncates a path it is given again. With the
  default blocks of 64 KiB a package is in chunks itself. A damaged line or envelope raises
  before its nonce is marked, a damaged chunk after it; `DamagedPackage` is either, and
  `ruined` (history) the packages used up that way. `DamagedChunk` of `ChunkedTransfer` is
  the same for the packages there.
* `SecureContext`: `configure()` and `reset()` replace identity, keystore and guard
  while workers are inside a receive that read some of them before. A keystore in memory
  hands out the card object it holds, the others copies. Marks last for good here and
  clocks agree: `ContextKept` says what the choice of the store decides, and holds as long as
  the store keeps a mark while the envelope is fresh, which is the subject of `ReplayGuard` and
  `NonceStore` (and fails for asynchronous stores and a sender whose clock is ahead, finding 3).
* `SealedPackage`: keys are numbered, so that what was sealed, signed, saved and loaded
  under which keys is compared by number. The envelope is signed; `data_type`,
  `is_chunked` and the list of chunks are not, and any combination of them arrives. `HandOver`
  is what the handler of the arriving `data_type` makes of what was opened: its own type
  raises on what is no payload, `live_session` and the fallback for unknown types do not, so
  that a package in chunks with both labels changed is returned as its session key.
* `HttpExchange`: `fetch()` with the capability it looked up, its answer and its
  fallback; `mail` is what may still reach the server, so an answer may be late or lost
  and a package arrive again. `guards` are the replay guards that packages may meet: the
  middlewares call `Receive()`, which takes the guard of the process, and that one marks
  in memory unless the application has called `configure(noncestore=...)`
  (`secure/_context.py:35-36`). So there is a guard for each worker, and `RestartWorkers` loses
  what it marked, unless the store outlives the process (`durable`); one store for all workers
  is one guard. A shared store is nowhere assumed: `ExchangeOnce` counts the guards that began
  without a mark (`started`), and that is 1 only with one.

## 3. Runs

| Run | Instance | What it shows |
|---|---|---|
| `session_ordered` | ordered, 2 threads a peer, cap 3, damage on numbers 0..2; 36 000 states | types; each number sealed once; the cap counts exactly what was sent and delivered; closed is for good; the session implements `FifoChannel`; with a transport that loses nothing, what is sealed arrives |
| `session_window` | window of 2, cap 6, damage near and far; 1.6 M states | nothing delivered twice before the first rollback; a rollback leaves no trace in the window; the window stays below two widths |
| `session_replay` | the same | **violated**: `NoReplay` (finding 1) |
| `session_revoke` | ordered, 2 threads | **violated**: `SealedUnderDerivedKey` (finding 2) |
| `replay_sync` | 2 receivers, 1 envelope, window 4, skew 3; 107 000 states | one opening; damaged copies use up nothing |
| `replay_async` | the same, asynchronous; 14 000 states | no second opening before `window_seconds` have passed |
| `replay_expiry` | asynchronous, sender's clock ahead by the skew | **violated**: `NoDoubleOpen` (finding 3) |
| `handshake` | 2 workers, 2 callers, 1 handshake, ages 3 and 9, 4 clock offsets; 717 000 states | refinement of `KeyAgreement`: one session per end, same key |
| `websocket` | 2 session ids, cap 2, 1 reconnection; 642 000 states | types; the server serves only sessions the client holds; nothing is refused for its number before something was lost; every session is a `FifoChannel`; closed is silent; CLOSE ends the session at the peer |
| `websocket_resume` | 1 session id, cap 4 | **violated**: `ResumeSynchronizes` (finding 4) |
| `services` | the twelve components of the second half of section 2, two actors each; 953 000 states | one type invariant and fourteen properties, listed below |
| `package_limit` | payloads of 1000, 30 720 and 30 721 bytes | **violated**: `EnvelopeFits` (finding 5) |

`services` asks one question of each component, two of the trust store and the nonce stores:

| Property | Says |
|---|---|
| `StaleCardEnds` | a card that was rotated or removed is served no longer than one back-fill and one TTL |
| `FileIsWhatWasWritten` | the card file is what the calls that returned made of it, unless a process wrote over a failed write or a write it could not see |
| `AcceptedOncePerTTL` | a nonce is accepted again only after its TTL, less what each kind of store loses |
| `NoncesAreRegister` | every kind of nonce store implements `NonceRegister`: nothing takes from a mark but time |
| `BurstBounded` | 2 * `max_requests` + 1 granted requests span a fixed window |
| `WindowKept` | `max_requests` + 1 granted requests span a sliding window, less the difference of clocks |
| `AcceptedWasGood` | a card `verify()` returned was trusted and unrevoked at one moment of the call |
| `SavedIsFresh` | a `save()` that returned has written what the store had when it was called |
| `ListenerInStep` | a peer that only listens is never in a later epoch than its sender |
| `TransferIsSource` | a transfer delivers a content the file had, once |
| `StreamAccounted` | every package the guard used up went one way: in the output once, truncated by the next attempt, lost with its write, or ruined by a damaged chunk; the output is in order; a call that read all of an undisturbed source has written all of it |
| `ContextKept` | once per nonce store (as long as that keeps its mark); nothing from a revoked peer; the identity is in the keystore |
| `ExchangeOnce` | a forced request is never plain; an operation is carried out once by every guard that began without a mark, and once more only after a fallback |
| `ReturnedAsSent` | a package is returned once, whole, or as its session key if both its labels were changed; damage does not use it up |

**One run for twelve components.** They share no variable, and no step of one depends
on another, so interleaving them could reach nothing new: in `MCServices` a behaviour picks
one (`part`) and the others stay in their initial states. The view leaves out the
variables of those that stay, which are constant. The symmetry (`Alike`) exchanges the two
actors and, with them, the two nonces: no component compares or orders either, and none has
both. The actors are the clients, processes, threads, workers, callers, transfers and fetches.
`NoncesAreRegister` is `ImplementsRegister` of `NonceStore` asked of the steps of that part
only, which is the same and spares TLC the mapping in the other eleven.

**Bounds.** `MaxMessages` is the code's own limit. 3 is the least that lets both
directions have traffic and a thread wait while another fills the cap. In window
mode the set is pruned when it holds more than two windows, so a window of 2 needs
5 numbers in it; a cap of 6 reaches pruning, then a late copy of each pruned
number. `NearAndFar` damages a number inside the window and one that moves
the window beyond everything (7 + `Window`). For the guard, one envelope suffices:
calls for different nonces share nothing but the clock. `Horizon = 9` is past
`Window + Skew` + 1, so that marks expire inside the run. `AheadBy + Lag < Skew` is
tight: with `Lag = 2` TLC finds a second opening. For the handshake the ages keep
the code's ratio 30 s : 90 s, offsets reach the largest ones with which a HELLO is
accepted (3) and one with which it must wait (4), and `Horizon = 12` is past the
expiry of the marks. One handshake suffices for the interleavings, as marks and
sessions are per `session_id`; distinctness of keys between handshakes is proved.
For the WebSocket, two session ids are
two calls of `start_handshake()`: a second handshake before, during and after the
first, with frames of one session reaching the other. `MaxDrops = 1` has every action
before and after a reconnection. `MaxWire` bounds only what an end sends on its own
account, answers come on top: with 1, queues still hold a PONG and a later payload, and
an ACK with one. Cap 2 lets a session expire by its messages in either direction; the
numbers beyond are reached in the proofs and, with one session id and cap 4, in
`websocket_resume`. The symmetry is that of session ids, which only name handshakes.

For `services`: two clients are enough for a back-fill to cross a write, two processes for
one cache to be out of date, two threads for `verify()` or `save()` to be overtaken. With a TTL
of 2 and a delay of 1, a clock that runs to 5 passes the bound of every change up to time 2. Two TTLs two ticks apart with
a grace of 1 are the case in which the sorted set's key expires first; one entry as
capacity makes the tables full with the second key. With two requests allowed, a fixed
limiter's burst is four, and the fifth is reached in five ticks. `FrameLimit` 2 and
`EpochLimit` 3 reach the end of the header's epoch in six frames. Two blocks and one
change make a mixture of two contents; three packages have a pair to swap, and one to lose
before another. Three cards let a peer be registered again with a new or an old
one; two configurations replace what a call has read before. Two fetches share the
cache. Two guards are two workers, or one that is started again (`LastStarted`); a store that
outlives the processes is one guard there, and workers without one begin with a hybrid server and
a client that does not fall back by default, which are the cases in which a package can act more
than once (`RestartWorkers` and the calls of `fetch()` change both). Of the values of blocks and
of anchor keys, which are alike, the first block of a file and the key that issued the certificate
are fixed (`FirstBlock`, `IssuingKey`). Sizes of 1000 and 30 721 bytes are one envelope and two chunks, the numbers of
the code; three keys are one rotation, two packages give chunks to mix up.

**Deadlock** is not checked: sessions close, transfers end, and the bounded clocks
stop; the program really may have nothing left to do.

**Fairness** (only `session_ordered`, for `SealedGetsThrough`): a handshake
activates the session it has created (`Activate`), a thread inside `encrypt()` is
scheduled until it returns (`FinishEncrypt`, nothing blocks it there), and the
transport hands over the next payload in order (`ReceiveNext`): a stream that loses
nothing, as the ordered mode presumes. No fairness is assumed of applications
calling `encrypt()`, nor of expiry or revocation. Weak fairness is enough, because
each of these stays enabled until it is taken or the session closes.

## 4. Proofs

All theorems hold for every value of the constants under the named assumptions of
the component's module; further assumptions are in the statement. The assumptions say
what the code has: sets of natural numbers, limits above zero, a live session of exactly
two ends, at least one store and one message in a context, the two keys with which the
identities of `SealedPackage` begin.

| Theorem | States | Further assumption |
|---|---|---|
| `TypeCorrect` | `Spec => []TypeOK` | |
| `CapKept` | `Spec => []WithinCap` | |
| `CountsKept` | `Spec => []CountsDelivered` | |
| `SeqsUnique` | `Spec => []SeqUsedOnce`, any number of threads | |
| `ClosesForGood` | `Spec => ClosedForGood` | |
| `OrderedRefinesChannel` | `Spec => ImplementsFifoChannel` | `Ordered` |
| `RollbackLeavesNoTrace` | `Spec => []WindowJustified` | window mode |
| `WindowStaysBounded` | `Spec => []WindowBounded` | window mode |
| `NoReplayUntilRollback` | `Spec => []NoReplayBeforeRollback` | window mode |
| `ShortSessionNoReplay` | `Spec => []NoReplay` | window mode, `MaxMessages <= 2 * Window` |
| `GuardTyped` | `Spec => []TypeOK` | |
| `OpensOnce` | `Spec => []NoDoubleOpen` | synchronous, `AheadBy + Lag < Skew` |
| `DamageBurnsNothing` | `Spec => []NoBurnByDamage` | synchronous |
| `NoReopenWithinWindow` | `Spec => []NoEarlyReopen`, both paths | |
| `HandshakeTyped` | `Spec => []TypeOK` | |
| `HandshakeAgrees` | `Spec => AgreesOnKey` | `2 * MaxAge + 2 * Lag < MarkTTL` |
| `WebSocketTyped` | `Spec => []TypeOK` | |
| `ServesShared` | `Spec => []ServedIsShared` | |
| `SeamlessTransfer` | `Spec => []SeamlessUntilLoss` | |
| `ClosedStaysSilent` | `Spec => ClosedIsSilent` | |
| `SessionsAreChannels` | `Spec => ImplementsChannels` | |
| `CardsTyped` | `CardsSpec => []CardsTypeOK` | |
| `CardsStaleOnlyBriefly` | `CardsSpec => []StaleCardEnds` | |
| `SlidingTyped` | `SlidingSpec => []SlidingTypeOK` | |
| `SlidingKeepsWindow` | `SlidingSpec => []WindowKept` | |
| `TrustTyped` | `TrustSpec => []TrustTypeOK` | |
| `VerifyIsAtomic` | `TrustSpec => []AcceptedWasGood` | |
| `SaveIsDurable` | `TrustSpec => []SavedIsFresh` | |
| `FileTyped` | `FileSpec => []FileTypeOK` | |
| `FileKeepsUpdates` | `FileSpec => []FileIsWhatWasWritten` | |
| `NoncesTyped` | `NonceSpec => []NonceTypeOK` | |
| `NonceHeldForTTL` | `NonceSpec => []AcceptedOncePerTTL` | |
| `StoresAreRegisters` | `NonceSpec => ImplementsRegister` | |
| `GraceKeepsNonces` | `NonceSpec => [](\A n : NextMarkWaits(n))`: no mark again within the nonce's own ttl, less the difference of clocks | `GraceSuffices`: the ttls differ by no more than `KeyGrace` |
| `FixedTyped` | `FixedSpec => []FixedTypeOK` | |
| `FixedBoundsBurst` | `FixedSpec => []BurstBounded` | |
| `LiveTyped` | `LiveSpec => []LiveTypeOK` | |
| `ListenerStaysInStep` | `LiveSpec => []ListenerInStep` | |
| `StreamTyped` | `StreamSpec => []StreamTypeOK` | |
| `StreamKeptAccount` | `StreamSpec => []StreamAccounted` | |
| `ContextTyped` | `ContextSpec => []ContextTypeOK` | |
| `ContextIsKept` | `ContextSpec => []ContextKept` | |
| `HttpTyped` | `HttpSpec => []HttpTypeOK` | |
| `ExchangedOnce` | `HttpSpec => []ExchangeOnce` | |
| `ChunkTyped` | `ChunkSpec => []ChunkTypeOK` | |
| `TransferDelivers` | `ChunkSpec => []TransferIsSource` | |
| `PackageTyped` | `PackageSpec => []PackageTypeOK` | |
| `PackageReturnedAsSent` | `PackageSpec => []ReturnedAsSent` | |
| `ServicesTyped` | `Spec => []TypeOK` of `MCServices` | |
| `StoresKeepPromises` | `Spec` of `MCServices` keeps the seven invariants of stores and limiters | |
| `DeliveriesKeepPromises` | `Spec` of `MCServices` keeps the six invariants of deliveries | |
| `NoncesStayRegister` | `Spec => NoncesAreRegister` of `MCServices` | |

**Session.** No property is inductive alone. `SeqUsedOnce` needs that every number
in use is below `sendSeq` (`SealedBelowSendSeq`). `WithinCap` needs
`CountsDelivered`, which in turn needs that a failed `decrypt()` leaves the counters
where they were; in ordered mode that is the content of `OrderedOutcome`. The
refinement needs `DeliveredInOrder`: the n-th delivery is number n - 1. In window
mode the argument is `ForgottenBelowFloor`: until a rollback, a delivered number is
in the set or below its floor, so that the two checks of `decrypt()` refuse it
together. A rollback breaks it (finding 1), which is why the theorem stops there;
`ShortSessionNoReplay` gives the condition under which the code is right
nevertheless: the window of 128 (`_WINDOW_SIZE`) never prunes in sessions of at most 256
messages. The lemmas on `Highest`, `Pruned` and on the window after adding and
removing a number are stated once and cited.

**Replay guard.** `OpensOnce` rests on: between the durable mark and the end of a
call there is exactly one receiver per mark; a second mark requires the first to have
expired, `Window + Skew` after it was made, while a receiver that found the envelope
fresh marks within `Lag` of its check, and an envelope is fresh only until
`ts + Window`, with `ts` at most `AheadBy` after it was stamped. `Window`, `Skew`
and the sizes of the sets are arbitrary. `NoReopenWithinWindow` needs none of this: every
mark, of either path, is made for `Window` at least, and from the first one on
(`EarlyMark`) there is a mark that nothing removes before that time has passed.

**Handshake.** `HandshakeInv` has a half for the responder (`HelloOnce`,
`WorkHasHello`, `WorkInTime`, `CheckedFirst`, `AsyncHolds`, `SpentIsGuarded`,
`SpentBeforeAsync`, `OneResponse`) and one for the initiator (`AckOnce`,
`CallHasAck`, `CallInTime`, `CompletedIsGuarded`, `OneCompletion`). The core is
`SpentIsGuarded`: while a HELLO could still be accepted, or a worker that accepted it
is on its way to mark it, the mark of the session that exists is in the store and far
from its expiry. A HELLO is good for `MaxAge` on either side of the clock, so for
2 * 30 s; the mark lives for 90 s; 30 s are left for both delays. `RespondDerive` maps
to `Respond`, `CompleteDerive` to `Complete`, every other step to a stutter.

**WebSocket.** Every step is of one of five kinds (`StepKinds`): it seals a payload,
accepts one, discards one, loses the connection, or leaves all payloads alone. The
eighteen actions are looked at once for that, and once for the types. `NumberInv`
(messages are left while a session is open; the receive counter counts what was
accepted) and `FlightInv` (what is under way was sealed) give the refinement, in
which `SealStep` maps to `Offer`, `AcceptStep` to `Deliver`, everything else to a change
of phase or a stutter. `SeamlessUntilLoss` needs `SeamInv`: until a payload was lost, the
queue holds exactly the numbers between the receiver's counter and the sender's,
in order (`Between`); the lemmas on `Between` say what taking and adding a frame do.
`ServedIsShared` needs that a COMPLETE under way is of a session the client made.

**Key stores.** `StaleCardEnds` says nothing of the cards that calls under way are about to
put into the cache. `CardsIInv` does: what a call will cache is in the table, or the
table has changed since the call read it (`CallsJustified`), and a call has `MaxDelay`
from there (`CallsInTime`); so what lands in the cache is in the table, or expires within
`MaxDelay` and one TTL of the change (`CacheJustified`).

`FileIsWhatWasWritten` is about the file alone; a process writes its cache into it.
`FileIInv` adds what the cache is: equal to what was hashed when the file was read or
written (`CacheHashed`), and equal to the file while its time and size are those the
process remembers (`CacheCurrent`). The two ways in which this fails, a write that
failed and a write of the same time and size by another process, are what the property excepts.

**Nonce stores.** `NonceIInv`: the last mark of a nonce is still in the store, or its time
is over (`StillHeld`, `MayReturn`), and marks of a nonce follow each other only so. The kinds
differ in who removes what: the memory store keeps the marks that are not expired whether
it cleans up or is full; the Redis key ends by itself; a row in Postgres refuses every mark
(`ON CONFLICT DO NOTHING`) until `cleanup()` deletes it, by the clock of its caller; the sorted set removes by the clock of each caller, and goes as a whole
`KeyGrace` after the ttl of a mark that came later. `MayReturn` names both ways in which a
sorted set forgets, since for an arbitrary `NonceSpread` neither implies the other.
`GraceKeepsNonces` shows that the second is no loss while the ttls in use are less than the
hour of `EXPIRE` apart: a handshake marks for 90 s, a guard for its window and skew, so a
window of an hour and a half in a shared sorted set would break it.

Every step of any kind of store is of one of three (`NonceStepKinds`): it forgets nonces
that may go, it marks one, or it waits. The invariant is proved over these, and the
refinement maps them: `Forgets` to a stutter, since what may go had lapsed; `Marks` to
`Mark`, with the lateness of the caller's clock as the slack that is used; `Waits` to
`Pass`. A mark in a sorted set whose key had ended must find it empty, or the new
key expiry would bring lapsed nonces back: this is the one fact that `Marks` states
besides the invariant's needs.

**Fixed limiter.** `BurstBounded` is about times; `FixedIInv` gives each grant the window
it belongs to (`first`, the grant that opened it): at most `max_requests` in each
(`InWindows`), opened when the one before was over (`WindowsApart`), and the counter knows
the last of them (`CounterKnows`). Among `2 * max_requests + 1` grants in a row there is a
window between the first and the last (`BurstSpansWindow`). A key that never expires passes
`max_requests` at most before `reset()` (`ForGoodInv`, `GrantedForGood`), so no such row exists.

**Sliding limiter.** `WindowKept` is about granted requests, the log about those that
count. The link is `Forgotten`: a granted request that is no longer in the log is older
than the window, whoever removed it and with whichever clock. A request is granted when
fewer than `max_requests` are in the log, so one of the last `max_requests` granted is
not (`OneIsMissing`), and requests are granted in order. The table's limit, the cleanup and
`ClockSpread` are arbitrary; in memory the spread is zero.

**Trust store.** `VerifyInv`: while `verify()` waits for the registry, its card was good at
one moment of the call, or its certificate is revoked now, or was unrevoked meanwhile.
Reading the keys first is what makes it true: in the other order a key could be replaced
after the registry was read. `SavesInv`: at most one saver is between snapshot and
replacement, and the snapshot holds what every `save()` that has returned owes.

**Live sessions.** Epoch and count of a peer are one number, the frames it has gone
through (`Gone`, `epoch * FrameLimit + count`). `Listens`: who seals nothing has gone through no
more frames than its sender sealed. A frame of a later epoch sets the count to zero, so a gap
only lowers it; a frame of the same epoch counts one, and its number is above the last. Then
`GoneEpochs` compares the epochs.

**Streams.** `StreamIInv`: what the guard has used up is what was written, lost, truncated or ruined;
the output ascends; and, as long as nothing came out of order or damaged, the packages used up are
`1..n` and the source stands no further than the next one (`FirstOpened`), so a call that began
at package 1 and is past it has written all packages before its position (`WrittenFromStart`).
A call that starts at the beginning again finds package 1 used up, and raises.

**Context.** Four facts hold together: a worker between its mark and the delivery has its
package marked in the store it read, and not delivered there (`WorkerKept`); no two workers are
there for one package and store (`MarkedApart`); what is delivered is marked
(`DeliveredWasMarked`); a worker that began after `revoke_peer()` holds a revoked
card, whether the keystore gives out objects or copies (`RevokedInStore`, `ObjectIsCard`).

**Packages.** `HandedOnce`: what was handed over was marked, once, and equals the numbers of
the chunks in order; a chunk opens only under its number and package, so a list that opens is
the whole list when its length is the one signed for. A mark without a return is recorded in
`mishandled`, since a package that arrives as it was sent has a payload (`SentWhole`). What is
handed over without chunks is a payload, or its package is in `relabelled`: under its own
`data_type` the handler raises on a session key.

**HTTP client.** `MayApply` adds to what was carried out what the requests under way may still do:
a plain one once, a package once for each guard that has not marked it (`MayOpen`). It is at most
`started`, and one more after a fallback. Sending moves from what may be done to what is under
way, the server from there to what was done; the fallback adds one, and so does a worker that
starts again, to both sides (`RestartKept`). There are never more guards than have started
(`GuardsStarted`).

**Chunks.** `ChunkIInv` says of every chunk that was sealed where its hash and its body come
from (`ChunkKept`): the hash is that of the first content, or the writer came in pass 1, the
hash is at least as long as the second content, and every body is a block of it. The chunks of
one call that pass the checks are as many as the first content has blocks, in as many different
places, so no place is empty (`CompleteIndices`); joined, they are as long as the hash that
they equal, so in the second case the two contents have one length and the result is the
second. A second delivery would need a chunk that the guard has used up (`DeliveredKept`,
`ChunksDistinct`). With two changes the hash may match a mixture, which the property excepts.

The theorem needs what `FlattenSeq` returns for a list of any length, and `FlattenSeq` is a
recursive function. There is no theorem on induction that the provers could instantiate; the
least place at which the result would differ does the same (`LeastNumber`, from the
well-founded order of the numbers; `FlattenBlocks`, `AscendingIsIdentity`).

**Services.** A step of `MCServices` is a step of the part that was chosen and leaves the
variables of the others alone (`StepOfStores`, `StepOfDeliveries`), so its specification
implies the specification of each part (`StoresRun`, `DeliveriesRun`), and what is proved of
a part holds of the run's specification: what that run checks is no more than what
is proved.

**Only model-checked.** `CloseIsHeard` and `SealedGetsThrough`: liveness under fairness is
out of the proof system's reach, as is `ENABLED`. No module has RECURSIVE operators of its own, which could not be proved about.

## 5. Findings

1. **Window rollback forgets deliveries** (`core/session.py:406-423`). A payload far
   ahead that fails authentication first prunes the set of seen numbers; its rollback
   takes the maximum back without restoring what was pruned. Numbers already
   delivered are then in neither the set nor below the floor, and are delivered again.
   The class documentation says they are rejected. Bounded by `ShortSessionNoReplay`.
2. **revoke() during encrypt()** (`core/session.py:316-319`). The key is read after
   the lock is released; a thread that revokes in between makes the other one seal
   under 32 zero bytes, and the call succeeds. The documentation says concurrent use is
   protected by the lock.
3. **Asynchronous mark one skew too short** (`aio/_engine.py:152`). The mark lasts for
   `window_seconds`, the freshness check tolerates `clock_skew` more; in between an
   envelope is opened a second time. `ReplayGuard.commit()` adds the skew.
4. **complete_resume() synchronises nothing** (`transport/websocket.py:383-388`). It
   reads `last_seq`, checks the tag over it, and returns; `handle_resume()` does not use
   the client's number either. If the connection took a frame with it, the client's next
   number is ahead of the one the server waits for, and an ordered session, the default,
   refuses all further frames. The documentation of the method says it synchronises the
   sequence state (line 371), and the resumption test that communication continues
   seamlessly (`tests/transport/test_websocket_resumption.py:69`); the test loses no
   frame.

5. **30 KiB do not fit one envelope** (`secure/_engine.py:78`, `aio/_engine.py:65`). The
   limit is set on the payload; the envelope holds the ciphertext in hex,
   2 * (30 720 + 16) characters, and 9114 more of hex fields (2176 ML-KEM, 6618 ML-DSA,
   320 the X25519 key, Ed25519 signature, nonce and the two fingerprints, as
   `docs/wire_format.md:224-231` lists them). `Envelope.from_dict()` refuses more than
   65 536, so payloads from 28 196 to 30 720 bytes raise `EnvelopeTooLargeError`, and
   30 721 bytes go out in chunks. The comment on line 77 says the limit ensures the opposite.

Seen while modelling, without a run, since no run would show more than the lines do:

* `PostgresKeyStore.put(overwrite=True)` (`storage/keystore.py:759`) has its `# nosec`
  remark inside the SQL string, where it is no comment.
* The docstring of `RedisSlidingRateLimiter` (`core/rate_limit.py:438`) says that clocks
  need not agree; the script is given the caller's `time.time()`. `WindowKept` states what
  remains: the window less the difference.
* The client caches that a host supports uxsp after any answer to a package, a refusal
  included (`client/_sync_client.py:361`).
* A package in chunks whose unsigned labels are changed, `is_chunked` cleared and `data_type` set
  to a name `Receive()` does not know, is returned as its session key of 32 bytes
  (`secure/_dispatch.py:197-211`); with `live_session` it becomes a `LiveSession`
  (`secure/_live.py:64-77`). `ReturnedAsSent` states it as the exception it is.
* The middlewares keep nonces per process unless the application configures a store. The
  tutorials pass `noncestore=` to those of Flask and FastAPI (`tutorial/frameworks/flask.md:138-150`,
  `fastapi.md:155-171`), which take no such argument, and set `UXSP_NONCESTORE` for Django
  (`django.md`, section 5), which nothing reads.
* `RedisRateLimiter` hands `window_seconds` to EXPIRE as it is, and the default 60.0 is no integer
  (`core/rate_limit.py:331-335`, 365): the script fails after its INCR, the first check of a key
  raises, and the key never expires.
* A response package is not tied to its request (`client/_sync_client.py:375-380`): the client
  checks sender, signature and nonce only. `HttpExchange` has no step that swaps answers, so
  `ExchangeOnce` says nothing of it.

## 6. What is not modelled

Cryptography is taken as perfect: a ciphertext opens under its key and associated
data only, a signature verifies what was signed.

* `crypto/`, serialisation, schema tables, CLI and WebAssembly: functions of their
  arguments, without state between calls. Recursion over bytes would be a
  transliteration, and nothing the models state depends on it.
* Password encryption of the identity file, recovery shares, the validation of envelope
  fields other than the size, the metadata of payloads and the handlers per data type: the
  same.
* `transport/http.py` and the wiring of the frameworks in `contrib/`: the decisions of the
  middlewares are in `HttpExchange`, their glue is not. `GuardedHandshake` is modelled
  with a limiter that may refuse at any time (`Handshake`), not composed with the limiter
  modules: the limiter decides before any other state is read.
* The JavaScript SDK is a second implementation; the Python one is the reference.
* Time limits of networks, and fairness between threads, beyond what section 3 says.

Hazards without a property are in `PROJECT.json` with the reason: the asynchronous path's
mark before verification, a durable store failing after the fast one, an ACK that is
marked and then fails, an ordered session after a loss, the gap a PONG leaves, the cache of
cards after a failed write, a damaged epoch, and packages of a stream that are missing. For each
the model has the step, and no document or test promises an outcome that could be stated; the
properties of those components except the case, and say so.

## 7. Plan

Done: the conversation (session, guard, handshake, WebSocket) with its refinements and
proofs; the stores, limiters and deliveries with a property each; the nonce stores as a
refinement of what their users take them to be; all of these proved. Left, in this order:

1. A guarded handshake composed with `SlidingLimiter`: how many handshakes a key gets in
   a window.
2. Liveness of a stream that is received again after a failure, under the fairness of a
   caller that retries.
