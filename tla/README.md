# Portillia in TLA+

A specification of Portillia's relay (`src/portal`, `cmd/relay-server`) and of the
SDK that exposes a local service through relays (`src/sdk`, `src/transport`):
their threads, locks, queues, files and the requests between them. Paths are
relative to the repository's root.

## The system

An SDK *exposure* keeps one *listener* for each relay it uses. A listener
registers a *lease* (a host name) with its relay, or along a path of relays, and
keeps a few *reverse sessions* open to it. The relay queues them, per lease, in a
*relay stream*. A browser connects to the relay; the relay reads the host name
from the ClientHello, looks the lease up, *claims* a reverse session, writes a
start marker with a fresh *binding* to it, and bridges the two connections. The
SDK terminates TLS itself and asks the relay, at `/v1/sign`, for the one
signature that needs the relay's key; the relay signs only for a binding that is
pinned to the ClientHello it has forwarded. Relays and exposures learn of other
relays by polling and announcing signed *descriptors*, which they keep in a *relay
set*.

| Part | Source | Module |
|---|---|---|
| ready queue of a lease, claims, keepalive, freeing | `src/portal/server.c` | `RelayStream` (abstractly `SessionQueue`) |
| lease and hop records, API handlers on them, janitor | `src/portal/server.c`, `api_server.c` | `LeaseRegistry` |
| bindings, ClientHello capture, signing | `src/portal/keyless/*.c`, `proxy.c` | `KeylessSign` |
| bridges between descriptors | `src/portal/proxy.c` | `ProxyBridge` |
| register challenges | `src/portal/api_server.c` | `RegisterChallenge` |
| known relays, polling, announcing | `src/portal/discovery/relay_set.c`, `discovery.c`, `src/portal/api_server_relay.c` | `RelaySet` |
| ranking and selection of relays | `src/portal/discovery/mols.c` | `Mols` |
| settings, identity, certificate; start-up | `src/portal/settings.c`, `identity.c`, `acme/manager.c`, `cmd/relay-server/main.c` | `RelayFiles` |
| registration and renewal along a path of relays | `src/sdk/api_client.c`, `listener.c`, the relays' handlers | `HopRoutes` |
| lists of relays, reconciliation, discovery, accept channel, close | `src/sdk/expose.c` | `Exposure` |
| registration, reverse sessions, renewal, close | `src/sdk/listener.c` | `Listener` |
| ring of activated sessions in the SDK | `src/transport/stream_client.c` | `StreamClient` (abstractly `SessionQueue`) |

The `MC…` modules give the constants and the input bounds that TLC needs; the
`…Proofs` modules hold the proofs. Two modules compose
several parts: `HopRoutes` has a client, the network and the registries of all
relays on its paths; `RelayFiles` has `main`, the admin handlers, the renewal
thread and the disk. `Mols` has no state: it says which relays of a table a
selection considers, how it ranks them and where it stops, and `MCRelaySet` applies
it to tables of `RelaySet`.

## How the models correspond to the code

Definitions keep the names of the functions they translate; a function with
several critical sections or blocking calls is several actions that share a
prefix (`claim_…`, `keepalive_…`, `janitor_…`, `close_…`). Upper-case constants are
the code's `#define`s. A definition placed just before another one and differing
from it by one mistake (`SignalWhenEmpty` before `Signal`, `NotJoined` before
`Joined`) is a wrong variant: no specification uses it, and it serves to see that
the properties notice it.

* **Locks.** A critical section that neither waits nor blocks is one action.
  Where the code blocks or loops with a lock held, a variable `mu` holds it: the
  keepalive sweep, which writes to sockets; the janitor's pass, which joins
  threads; a response's descriptors, entered one by one into the relay set; the
  exposure's reconciliation and close, which wait for listeners.
* **Condition variables.** A thread is "waiting", "woken" or (timed waits)
  "expired"; the last two must still get the mutex. A signal wakes any one
  waiter, whichever thread it is.
* **Undefined behaviour.** A thread that uses a stream, a channel, a listener or a
  relay set after it was freed becomes "undefined" and is not followed any further.
  So may a copier that captures the second part of a split ClientHello: the
  capture works on a copy that is allocated with the length and used with the
  capacity of the original (`proxy.c:83-94`), which works or is undefined. A join of a place that
  `pthread_create` never filled fails or does not return, in `Listener` and in
  `Exposure` ("lost"). `main` detaches such a place (`main.c:605`), which is taken to
  fail.
* **Time.** A deadline is an action that may happen once its wait has begun.
  `LeaseRegistry` and `RelaySet` have a clock, because expiry, backoff and
  freshness are compared with it; each update of the relay set reads it *before*
  it waits for the lock, as the code does. `HopRoutes` keeps whether a record was
  renewed since the last renewal was due; `Listener` that the token ends 5 seconds
  after it.
* **Network.** While the network of `HopRoutes` is "bad", requests and answers get
  lost, a request reaches the relay after the client gave up, relays restart or
  have no room; while it is "good" every request is answered. The tunnel may crash
  and be started with another path at any time.
* **Disk.** In `RelayFiles` each system call that changes a file is a step, and a
  crash may come between any two. `fopen` with "w" leaves an empty file; `rename`
  is atomic. Two admin requests run at once and take no lock, as in the code.
* **Data.** Sessions, bindings, host names and ClientHellos are model values; a
  hash is represented by what was hashed. A hop token is the path and position it
  is derived from. A descriptor has its URL, address, times and what it supports. An
  identity is the number of its generation, a certificate or key that of its lego
  run, `Manual` if an operator put it there and `Torn` if its copy was cut off. The slot a URL
  hashes to is an input of `Mols`; GF(64), the squares and the scores are computed
  as in the code. JSON, signatures, logging and wording are left out.
* **History.** `seen` (`KeylessSign`), `at`, `late`, `evicted` (`RegisterChallenge`),
  `broken` (`ProxyBridge`), `acked` (`HopRoutes`), `late` and `unmade` (`Exposure`),
  `clean`, `overlapped` and `wrong` (`RelayFiles`) record the past for a property and
  guard no action.
* **ClientHellos.** In `KeylessSign` one comes in one read or in several (`chunks`),
  and with nothing or with something behind its record in the last one (`alone`),
  which is then moved over its bytes while they are captured (`bindings.c:307-311`),
  so that the hash may be another one (`Garbled`) or be put off.
* **Bridges.** `ProxyBridge` starts as either bridge (`tls`). A copying thread may
  fail to start in the plain bridge, which tests for it; the TLS bridge does not
  look at the result of `pthread_create`, and its threads are assumed to start.
* **Start-up.** `RelayFiles` begins without a certificate, with an operator's pair,
  or with all files there; admin requests come only in the last case. `main`, the
  keyless signer and the relay's descriptor load the identity one after the other,
  the last two without a name. Reads, writes, copies, key generation and the start
  of the renewal thread may fail. The relay has a host name, and
  `RELAY_DESCRIPTOR_PRIVATE_KEY` is not set. `openssl -noout` prints no certificate, so
  the count of certificates in a chain is always 0 and the chain is rebuilt at each
  call, from lego's leaf if there is one; the issuers appended to it are left out.
* The relay is one process, as `cmd/relay-server/main.c` sets it up ("Default to
  one worker unless explicitly set").

## What is checked

| Run | Instance | Shows |
|---|---|---|
| `relay_stream` | 3 sessions, 2 claimers, limit 2 | `StreamInv`: the list agrees with its counter, no two claimers hold a session, markers and bindings are accounted for, a freed stream is empty; it implements `SessionQueue`; claims return; freeing gets past its join |
| `keyless_sign` | 1 binding; 2 leases, hellos, requests; 1 or 2 chunks | single use; signatures only for the routed hello and lease; a hello with nothing behind it is pinned before it is delivered, unless its capture was undefined; entries are reclaimed while a keepalive thread exists |
| `lease_registry` | 2 hosts (one a wildcard), 1 hop token, room for 2 records, 2 identities, 1 handler | `RegistryInv`: names stay unique, lookups have a stream, the janitor skips nothing; live leases stay and keep their owner; expired ones are collected |
| `proxy_bridge` | 2 chunks each way, both bridges | no descriptor is used after its close, nothing is cut, an end of stream closes the bridge |
| `register_challenge` | 3 challenges, 3 requests, 2 slots | a challenge stays until consumed or overwritten; a consumed one registers nothing later |
| `stream_client` | 4 sessions, 2 acceptors, ring of 2 | `RingInv`: one window of the ring across wrap-around, nothing leaks; no wakeup is lost; it implements `SessionQueue`; destruction releases blocked accept calls |
| `listener` | 2 reverse sessions | threads end before memory is freed, unless one could not be started before one that could; sessions reopen when the relay comes back, the token is good and the thread's calls return; a close during start-up returns |
| `listener_close` | 2 reverse sessions | *violated* (`CloseEndsWait`): a close does not wake `run_lease` |
| `relay_set` | 2 URLs, 2 addresses, 1 announce handler, 2 calls of the exposure, clock of 2 | `SetInv`: the key index covers the table and every suppression has its failures; descriptors never roll back; only allowing a relay lifts its ban; `RankingInv`: over all pools of up to 3 relays, `Mols` selects the best of each tier, its squares are orthogonal, and a selection from the table leaves a relay out only for one of its filters, because the pool was full, or because the limit was reached |
| `exposure` | 2 relays, 1 caller, 2 acceptors, 2 connections, channel of 1 | `ExposureInv`: arrays, lists, wakeups and poll order; the listeners converge to the lists, but for those that could not be made; close closes all and releases blocked calls; every relay is polled again and again |
| `hop_routes` | 3 relays, 4 paths (one visits relays twice) | `RoutesInv`: one route per key, none into a relay that has not answered; no forwarding in a circle; renewal repairs the path, and leftovers go, but for a record that an earlier path left under the same key |
| `relay_files` | 2 identities, 2 requests at a time, 3 in all, 2 crashes, 2 failing calls, 5 lego runs | `FilesInv`: lists are sets, the relay, its signer and its descriptor have one identity, certificate and key match; what was saved is loaded; a complete identity that can be read is never replaced; a certificate is obtained once lego can |

The largest are `relay_files` (1,048,056 states), `relay_set` (448,510), `exposure`
(441,190), `keyless_sign` (230,752) and `hop_routes` (207,060).

**Bounds.** Each is the smallest that reaches the cases the properties are about:
one session more than the queue holds; two claimers, requests or acceptors, since
the hazards are between pairs; a ring that wraps while it is full; three names
for an array of two records, so that it fills up and the janitor's swap moves
one; a clock of one lifetime, so that a record expires before, during and after a
pass, and of two in `relay_set`, so that a tombstone runs out while a descriptor
is under way. Of the two identities of `lease_registry` one is banned and
approved, renews and registers hops, and the other competes with it for the host
names; its one handler interleaves with the janitor, the admin and hop
registrations, but not with another handler, which the theorems cover.
`keyless_sign` has one binding for two requests; requests that mix up two are
covered by the theorems. `exposure` spends a budget of inputs (`MaxInput`): two calls, or a
call and a close, or three of accepts, connections and a close; traffic comes
only in exposures without a discovery thread; a listener or an accept thread that
cannot be made takes half of the budget. In `hop_routes` one of the relays is slow.
`HELLO_CHUNKS = 2` splits a ClientHello. In `relay_files` two failures are enough for
one in each of two loads of the identity or of two copies, and five runs of lego
for one after each failure and crash. `POOL_SIZE` (256 in the code) is 3 where the
table holds more. `RankingInv` ranks pools with more relays than the `MOLS_…` limits, and
looks at the whole grid of 64 and at the rows of the next larger one. Symmetry is used in `register_challenge` only, which has no liveness
property.

**Deadlock** is checked for `RelayStream`, `LeaseRegistry` and `HopRoutes`. The
others describe a thing that ends (a bridge, a listener, an exposure, a set of
requests) or have a bound on time or inputs at which they may stop.

**Fairness.** Threads that can run do run (weak fairness), sleeps and deadlines
end, calls of the API client end by their timeouts. The calls of a reverse session
have none (`SSL_connect` and `SSL_read`, `listener.c:192` and `:237`): `SessionsReopen` says
in its hypothesis that they return. Nor has a keepalive marker, written under the
stream's mutex; `FreeCompletes` takes it that the write ends. Stronger assumptions, each for one run:

* A claimer gets the stream's mutex although the sweep takes it again and again
  (strong fairness): the sweep runs once in 15 seconds.
* The peers of a bridge answer an end of stream with their own, as TLS and HTTP
  endpoints do.
* In `HopRoutes`, time passes between retries (strong fairness): the code sleeps
  there.
* The liveness of `Exposure` is stated under `WaitsEnd`: listener closes return
  and datagrams come. `listener_close` shows that the first need not be so, and
  nothing in the repository makes a datagram come; the properties say what the
  exposure itself adds to that.

Nothing is assumed of clients, admins, or the relay being reachable; the
properties that need a reachable relay (`SessionsReopen`, `RoutesRepaired`,
`CertificateObtained`) say so.

## Where code and documents disagree

`listener_close` has the one counterexample that is checked: the comment "Wait for
error from any thread or cancellation" (`src/sdk/listener.c:454`) promises what
`portillia_listener_close` does not do. The models show the following as well, by
doing what the code does:

* An offer's signal may wake the keepalive thread instead of a claimer
  (`server.c:199`), which then waits for its deadline;
  `docs/src/routes/architecture/+page.md:245` says otherwise.
* A host name that is taken is answered "ok" (`server.c:291`;
  `api-reference/+page.md:227`), and a renewal resets the limit an admin set
  (`api_server.c:957`; `architecture/+page.md:327`).
* A ClientHello in several reads, or with bytes read behind it, need not be
  captured right (above; the comment `proxy.c:77` promises a preview and a fix on
  completion); `PinnedBeforeDelivered` excepts both.
* `run_lease` joins as many places as threads were started, from the first on, not
  the places that were filled (`listener.c:440-465`), and may leave a thread behind
  (`Gap`); `StreamClient` takes it that none is. The exposure joins the place of each
  listener's accept thread, filled or not (`expose.c:99`).
* Every listener retries for ever: `listener.c:485-488` has no budget that ends it,
  and the exposure passes 0 for all of them (`expose.c:1282`;
  `cmd/portal-tunnel/README.md:137` says that auto-selected relays are dropped after
  10 tries). One whose path has changed is kept, since only URLs are compared.
* A lease whose token ran out is never registered again (`listener.c:344`;
  `cmd/portal-tunnel/README.md:135`). A fresh token is dropped when the hop routes
  cannot be posted (`api_client.c:1220`).
* Unregistering removes nothing at the relay (a TODO, `api_server.c:1032`).
* A path of relays carries no connection (`README.md:104`): the entry relay stores
  its route under a hop token and no host name, so the SNI lookup does not find
  it. A refresh of a hop keeps the old next hop (`server.c:324-329`), so a record of
  an earlier path with the same key leads along that path for as long as the later
  one is renewed; `RoutesRepaired` and `LeftoversGo` except it.
* A ban keeps a relay out of selections, bootstraps and candidates. It does not
  keep it out of `all_relays` and `confirmed_relays` (`relay_set.c:172-199`), of the
  overlay's peers (`discovery.c:483-519`) or of the announcements
  (`discovery.c:334-336`). The recorders of failures and `priority_relays` have no
  caller in the repository; the model has them all the same. A selection reads
  the states of relays after it has unlocked the set (`relay_set.c:238`).
* A relay re-stamps the descriptors it announces (`api_server_relay.c:82`).
* Certificates are not renewed once they exist, although "Portal manages
  root/wildcard A records and certificate renewal" (`deployment/+page.md:46`).
  Of an operator's pair, which "Portal keeps" (`:43`), the chain is replaced by a leaf
  that lego has left, and otherwise issuers are appended to it at each call.
  A key whose copy was cut off counts as a key ever after (`manager.c:270`), which
  `CertificateObtained` excepts.
* An identity that lacks anything is replaced as a whole, where
  `deployment/+page.md:317-318` has what is missing generated and saved. If it lacks
  only its name, `main` takes the one configured and goes on with it, and the
  keyless signer replaces it: the two then differ (`OneIdentity` excepts the case).
* Environment overrides undo an admin's flags at each start; `Persisted` speaks of
  the lists and the mode.
* A reconciliation that has passed its check when a close begins opens listeners
  afterwards (`expose.c:1200`); `CloseClosesAll` excepts it by `late`.

## What is proved

TLAPS proves every safety property of the runs but one, for any sets of sessions,
claimers, bindings, requests, relays, paths, URLs, addresses, identities,
listeners and connections, and any limits. Each proof has an inductive invariant,
`IInv` where it is not named below: it holds at first, every action keeps it, and
it implies the property. What follows is what had to be added to the properties
to make them inductive. Where one module proves things of two specifications, the
second one's are named apart (`BridgeSpec`, `StoreSpec`, `ListenerSpec`).

* `RelayStreamProofs`: `StreamSafe` (`Spec => []StreamInv`) and
  `StreamImplementsQueue`. `HeldTaken`: a session a claimer holds has left the
  queue, which is what keeps a second claimer from getting it. `SweepHoldsMutex`:
  during a sweep the mutex is held, so nothing leaves the queue under the sweep's
  cursor. `FreedEmpty`: a freed stream has an empty queue, and no offer gets in
  afterwards. For the refinement, under `queue <- ready`, `place <- PlaceOf`, every
  step changes at most one session's place, which `PlaceChange` turns into the
  abstract action, or drains the queue.
* `ConnectionProofs`, of `KeylessSign`: `SingleUse`, `SignedOnlyRouted` and
  `PinnedBeforeDelivered`. A binding spent by a request is no longer live and
  never issued again (`RequestsConsistent`); a pin, once set, is the routed
  ClientHello, and is set before the last chunk is written, when nothing comes
  behind its record (`PinsConsistent`). Captures that are undefined end the
  connection's story, so no request ever sees the whole ClientHello of one.
  Of `ProxyBridge`: `BridgeInv` and `NothingCut`, for streams of any length. The
  invariant `IBridge`: the descriptors are closed together, after both copiers have
  ended (`ClosedTogether`); what a copier has read it has written, but for the chunk
  in its hands (`Conserved`); it ends because its source has, or a peer broke off
  (`EndedWell`).
* `RegistrationProofs`, of `LeaseRegistry`: `RegistryInv` and `LiveLeaseKept`, for
  any number of handlers. Hop records have no host name and no hash
  (`HopsUnnamed`), so lookups never return one; a handler under way has a host
  name (`JobsBound`); the janitor's pass begins at the first record and leaves
  nothing expired behind its index (`SweepRight`), which `Swapped` shows to survive
  the move of the last record. A live lease is kept because the janitor's reading
  of the clock is never ahead of the clock (`ClockRead`). Of `RegisterChallenge`:
  `ChallengeKept` and `ConsumedIsConsumed`, for any size of the store, with the
  invariant `ChallengeInv`: what is in a slot was handed out, and a challenge that is
  consumed is in none.
* `RelaySetProofs`: `SetInv`, `NeverRollsBack` and `BanSticks` (only `allow_url` lifts
  a ban; what a ban is heeded by is in the definitions). `IndexCovers` is
  inductive with the types. The heart is `AcceptNewer`: when a tombstone has run
  out and lets any descriptor through, a descriptor that is fresh cannot be older
  than the one recorded, because its validity is bounded by the same
  `MAX_VALIDITY`.
* `HopRoutesProofs`: `RoutesInv` and `NoForwardingLoop`. When a route is posted,
  the relay it leads to has answered for the next one (`SyncReady`); a post that is
  delayed keeps that, since what was answered stays so (`LateReady`). A stream
  never goes in a circle, although paths may visit a relay twice, because a token
  names its position and every forwarding leads to a later one.
* `ListenerProofs`, of `StreamClient`: `RingInv`, `NoLostWakeup` and
  `ImplementsQueue`. The invariant describes the ring by its window: `Slot[n]` is
  what is `n` places after the head. The window's sessions are distinct
  (`WindowDistinct`) and exactly the ready ones, and the tail is at its end
  (`WindowExact`). `Positions` has the arithmetic of wrap-around, `Pushed` and
  `Popped` what the two operations do to the window. `Drained`: the session threads
  are joined before the drain, so nothing leaks between drain and close. A push
  adds one session and wakes one call; a woken call takes one or goes back to sleep
  only when the ring is empty. Of `Listener`: `FreedAfterThreads`. Threads exist
  only inside `run_lease` (`ThreadsWithinLease`), and the run thread has returned
  before anything is freed (`FreedAfterRun`). The join by count is right because the
  threads that were started are the first ones (`CountedFromFirst`), unless there is
  a `Gap`, which the property excepts.
* `RelayFilesProofs`: `FilesInv`, `Persisted` and `IdentityKept`, for any number of
  crashes. Every copy of the settings, in memory, in the file and printed by a
  request, has its lists without repetitions until requests overlap (`ListsSound`); a request that has run
  alone prints what is in memory (`AloneSound`), so a save that counts leaves the
  file equal to it (`SavedSound`). An identity is written only over one that is not
  complete or could not be read (`LoadsSound`); if no call has failed, each of the
  three loads leaves a complete file with its own identity, which the next one
  finds (`IdentitySound`). lego runs only until there is a key, so a whole key that
  is not an operator's is from the last run, and the chain beside it as well,
  unless it was cut off and the next call makes it again (`PairSound`).
* `ExposureProofs`: `ExposureInv`, `Converged` and `CloseClosesAll`. Who holds the
  lock is in a part of the code that holds it (`Locks`); the arrays are parallel
  and list just the listeners there are even while it is held (`Arrays`). The lists
  change only under the lock, so a reconciliation works for what they ask for when
  it ends (`Following`), which makes the listeners converge whoever reconciles
  last. Once close has let go of the lock, only a reconciliation that waited for it
  adds listeners, and `late` records that one (`Closing`). A connection is with an
  accept thread, in the channel, or settled (`Connections`). While an acceptor
  waits, there is a woken one for each queued connection (`Wakeups`). For the poll
  order, `SlotsPermute` shows of any number of relays, not only the 6 that the run
  evaluates, that the affine permutation takes each slot once: the step is coprime
  to their number. This needs what Euclid's algorithm computes. `gcd_val` is a
  recursive function: `GcdExists` and `GcdUnique` find the one that satisfies its
  equation, and `GcdCombines` shows its value to be a combination of the two
  numbers, so that a step with value 1 can be undone.

The assumptions are those stated with the constants: limits are positive, `None`
is none of the other values, relays, accept calls and acceptors are finite in
number, a path ends at the relay that gets the lease.

**Only model-checked:** every liveness property, with the fairness it needs, is
outside the prover's reach; so is `RankingInv`, which is about what `Mols` computes
with recursive operators and bitwise arithmetic.

## What is not modelled

* Datagrams: nothing calls `portillia_datagram_client_bind` or
  `portillia_quic_conn_new`, so no connection exists and none is ever queued.
  `Exposure` has their one effect on the rest, a wait that holds a lock.
* Deferred freeing (`mem/gc.c`): what would free the pointers on its list is
  called by nothing.
* `src/discovery/relay_set.c` is not compiled.
* SNI parsing is a walk over the bytes of one ClientHello without state between
  calls, over inputs far longer than TLC can enumerate.
* The overlay (WireGuard, a user-space TCP stack) and the SDK's keyless TLS are
  library calls; `HopRoutes` takes from the overlay that a stream reaches the next
  relay with its token.
* The DNS providers and the HTTP runtime are single requests; their callers'
  models have the outcomes they tell apart.
* Cryptography, types, string helpers, the command line, the web frontend, the
  documentation site and the editor extension convert data or draw, and have no
  behaviour over time.
* Within modelled parts: the address matching of `policy.c`, the admin login, the
  contents of API requests, ECH and DNS records of the ACME manager, the accept
  loops of `main`, bandwidth throttling.
