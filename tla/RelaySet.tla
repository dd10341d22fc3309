------------------------------- MODULE RelaySet -------------------------------
(***************************************************************************)
(* The relays a process knows of, src/portal/discovery/relay_set.c, with   *)
(* those who fill it in a relay: the discovery thread and its workers,     *)
(* src/portal/discovery/discovery.c, and the handler of announcements,     *)
(* src/portal/api_server_relay.c.  The SDK keeps the same structure, fed   *)
(* by its own poll and by the exposure's calls; their operations are here  *)
(* too, because the structure does not know its caller.                    *)
(*                                                                         *)
(* Every update reads the clock before it waits for the lock.  The loop    *)
(* over a response's descriptors runs under the lock, one action each.     *)
(* An entry that is absent has all its fields zero, as calloc leaves them. *)
(* Lower-casing of addresses and the descriptors' other data are left out. *)
(***************************************************************************)
EXTENDS Integers, Sequences

CONSTANTS
  Url, Addr,            \* API URLs and identity addresses
  Peer,                 \* the bootstrap URLs, other than our own
  Self, SelfAddr,       \* our own URL and address
  Handler,              \* threads that run handle_discovery_announce
  None,                 \* no address, or a free lock
  Response,             \* the responses a peer may give: sequences of descriptors
  Offers,               \* what our own descriptor may offer, as the settings have it
  MAX_VALIDITY, CLOCK_SKEW, TTL, DEFAULT_BACKOFF, MAX_BACKOFF,
  Called,               \* the URLs the exposure makes calls about
  RecoveryFailures,     \* failures tolerated before a backoff
  Rtt,                  \* measured round trip times, in ms
  MaxTime, MaxFailures  \* bounds of the model on the clock and the counters

(* "overlay" stands for supports_overlay with a WireGuard key and a port.  *)
Feature == {"overlay", "udp", "tcp"}

Descriptor ==
  [url : Url, addr : Addr \cup {None}, issued : Nat, expires : Nat, supports : SUBSET Feature]

ASSUME RelaySetAssumption ==
  /\ None \notin Addr \cup Url \cup Handler
  /\ Self \in Url /\ Self \notin Handler /\ SelfAddr \in Addr
  /\ Peer \subseteq Url \ {Self} /\ Peer \cap Handler = {}
  /\ Response \subseteq Seq(Descriptor) /\ Offers \subseteq SUBSET Feature /\ Called \subseteq Url
  /\ {MAX_VALIDITY, CLOCK_SKEW, TTL, DEFAULT_BACKOFF, MAX_BACKOFF} \subseteq Nat \ {0}
  /\ Rtt \subseteq Nat /\ RecoveryFailures \subseteq Nat
  /\ MaxTime \in Nat /\ MaxFailures \in Nat

VARIABLES
  now,         \* time(NULL), in steps
  relays,      \* the table by URL
  key_index,   \* by address: issued_at of the entry, 0 if there is none
  mu,          \* the worker that holds the lock across its loop
  work,        \* the worker that polls each peer
  announced,   \* what each thread is about to insert
  task         \* where the discovery thread is

vars == <<now, relays, key_index, mu, work, announced, task>>

Announcer == Handler \cup {Self}

Entry ==
  [known : BOOLEAN, addr : Addr \cup {None}, issued : Nat, expires : Nat, supports : SUBSET Feature,
   bootstrap : BOOLEAN, confirmed : BOOLEAN, banned : BOOLEAN,
   discovery_failures : Nat, active_failures : Nat,
   next_refresh : Nat, suppress_until : Nat, rtt : Nat]

Absent ==
  [known |-> FALSE, addr |-> None, issued |-> 0, expires |-> 0, supports |-> {},
   bootstrap |-> FALSE, confirmed |-> FALSE, banned |-> FALSE,
   discovery_failures |-> 0, active_failures |-> 0,
   next_refresh |-> 0, suppress_until |-> 0, rtt |-> 0]

Idle == [pc |-> "idle", at |-> 0, todo |-> <<>>, match |-> FALSE]
Nothing == [at |-> 0, d |-> <<>>]

Init ==
  /\ now = 1
  /\ relays = [u \in Url |-> IF u \in Peer THEN [Absent EXCEPT !.known = TRUE, !.bootstrap = TRUE] ELSE Absent]
  /\ key_index = [a \in Addr |-> 0]
  /\ mu = None
  /\ work = [p \in Peer |-> Idle]
  /\ announced = [h \in Announcer |-> Nothing]
  /\ task = "sleeping"

-------------------------------------------------------------------------------
(* The operations that neither loop nor wait: each is one critical section *)
(* that updates the table.                                                 *)

Update(table) ==
  /\ mu = None
  /\ relays' = table
  /\ UNCHANGED <<now, key_index, mu, work, announced, task>>

(* The code asks for a NULL address: no descriptor was ever stored.  One    *)
(* without an address has the empty string there.                          *)
Disposable(e) ==
  /\ ~e.bootstrap /\ ~e.confirmed /\ ~e.banned
  /\ e.discovery_failures = 0 /\ e.active_failures = 0
  /\ e.next_refresh = 0 /\ e.suppress_until = 0
  /\ e.issued = 0

Evict(e) == IF Disposable(e) THEN Absent ELSE e

set_bootstrap_urls(urls) ==
  Update([u \in Url |-> IF u \in urls THEN [relays[u] EXCEPT !.known = TRUE, !.bootstrap = TRUE]
                        ELSE Evict([relays[u] EXCEPT !.bootstrap = FALSE])])

Change(u, e) == Update([relays EXCEPT ![u] = e])

add_bootstrap_url(u) == Change(u, [relays[u] EXCEPT !.known = TRUE, !.bootstrap = TRUE])

remove_bootstrap_url(u) == Change(u, Evict([relays[u] EXCEPT !.bootstrap = FALSE]))

ban_url(u) == Change(u, [relays[u] EXCEPT !.known = TRUE, !.banned = TRUE])

allow_url(u) == Change(u, [relays[u] EXCEPT !.banned = FALSE])

ConfirmOnly(u) == Change(u, [relays[u] EXCEPT !.known = TRUE, !.confirmed = TRUE, !.active_failures = 0])
confirm_url(u) ==
  Change(u, [relays[u] EXCEPT !.known = TRUE, !.confirmed = TRUE, !.active_failures = 0, !.suppress_until = 0])

unconfirm_url(u) == Change(u, [relays[u] EXCEPT !.confirmed = FALSE])

record_discovery_rtt(u, ms) == relays[u].known /\ Change(u, [relays[u] EXCEPT !.rtt = ms])

(* The backoff after some failures, of which "tolerated" are free.         *)
Backoff(failures, tolerated) ==
  LET over == IF failures - tolerated > 3 THEN 3 ELSE failures - tolerated
      sec == DEFAULT_BACKOFF * <<1, 2, 4, 8>>[over + 1]
  IN  IF sec > MAX_BACKOFF THEN MAX_BACKOFF ELSE sec

BacksOff(failures, tolerated) == tolerated > 0 /\ failures >= tolerated

record_discovery_failure(u, tolerated) ==
  LET failures == relays[u].discovery_failures + 1
  IN  /\ relays[u].known /\ failures <= MaxFailures
      /\ Change(u, [relays[u] EXCEPT
           !.discovery_failures = failures,
           !.next_refresh = IF BacksOff(failures, tolerated) THEN now + Backoff(failures, tolerated) ELSE @])

record_active_failure(u, tolerated) ==
  LET failures == relays[u].active_failures + 1
  IN  /\ relays[u].known /\ failures <= MaxFailures
      /\ Change(u, [relays[u] EXCEPT
           !.active_failures = failures,
           !.suppress_until = IF BacksOff(failures, tolerated) THEN now + Backoff(failures, tolerated) ELSE @])

-------------------------------------------------------------------------------
(* Descriptors from the network.                                           *)

validate_descriptor_freshness(d, at) ==
  /\ d.issued # 0
  /\ d.expires > at
  /\ d.issued - at <= CLOCK_SKEW
  /\ d.expires - d.issued <= MAX_VALIDITY

NoRollback(d, at) == FALSE

(* An older descriptor of an address whose tombstone has not run out.      *)
Rollback(d, at) ==
  /\ d.addr # None
  /\ key_index[d.addr] # 0
  /\ at <= key_index[d.addr] + MAX_VALIDITY
  /\ key_index[d.addr] > d.issued

Accept(d, at) == validate_descriptor_freshness(d, at) /\ ~Rollback(d, at)

ReplaceEntry(d, authoritative) ==
  [Absent EXCEPT !.known = TRUE, !.addr = d.addr, !.issued = d.issued, !.expires = d.expires,
                 !.supports = d.supports, !.rtt = relays[d.url].rtt]

(* The new descriptor and everything else that was known of the URL.       *)
Merge(d, authoritative) ==
  LET e == [relays[d.url] EXCEPT !.known = TRUE, !.addr = d.addr, !.issued = d.issued,
                                 !.expires = d.expires, !.supports = d.supports]
  IN  IF authoritative THEN [e EXCEPT !.discovery_failures = 0, !.next_refresh = 0] ELSE e

Store(d, authoritative) ==
  /\ relays' = [relays EXCEPT ![d.url] = Merge(d, authoritative)]
  /\ key_index' = IF d.addr = None THEN key_index ELSE [key_index EXCEPT ![d.addr] = d.issued]

(* portillia_relay_set_apply_discovery_response.                           *)
apply_lock(p) ==
  /\ work[p].pc = "ready" /\ mu = None
  /\ mu' = p
  /\ work' = [work EXCEPT ![p].pc = "applying"]
  /\ UNCHANGED <<now, relays, key_index, announced, task>>

apply_next(p) ==
  LET d == Head(work[p].todo)
  IN  /\ work[p].pc = "applying" /\ work[p].todo # <<>>
      /\ IF Accept(d, work[p].at) THEN Store(d, work[p].match /\ d.url = p)
         ELSE UNCHANGED <<relays, key_index>>
      /\ work' = [work EXCEPT ![p].todo = Tail(work[p].todo)]
      /\ UNCHANGED <<now, mu, announced, task>>

(* The worker announces our descriptor to the peer, and ends.              *)
apply_unlock(p) ==
  /\ work[p].pc = "applying" /\ work[p].todo = <<>>
  /\ mu' = None
  /\ work' = [work EXCEPT ![p] = [Idle EXCEPT !.pc = "done"]]
  /\ UNCHANGED <<now, relays, key_index, announced, task>>

(* portillia_discovery_poll: the answer, or none that can be used.         *)
poll_reply(p) ==
  /\ work[p].pc = "polling"
  /\ \E resp \in Response, match \in BOOLEAN :
       work' = [work EXCEPT ![p] = [pc |-> "ready", at |-> now, todo |-> resp, match |-> match]]
  /\ UNCHANGED <<now, relays, key_index, mu, announced, task>>

poll_failed(p) ==
  /\ work[p].pc = "polling"
  /\ work' = [work EXCEPT ![p].pc = "done"]
  /\ UNCHANGED <<now, relays, key_index, mu, announced, task>>

(* handle_discovery_announce stamps what it verified with its own clock.   *)
handle_discovery_announce(h) ==
  /\ h \in Handler /\ announced[h] = Nothing
  /\ \E resp \in Response : \E i \in DOMAIN resp :
       announced' = [announced EXCEPT ![h] =
         [at |-> now, d |-> <<[resp[i] EXCEPT !.issued = now, !.expires = now + TTL]>>]]
  /\ UNCHANGED <<now, relays, key_index, mu, work, task>>

insert_announced(h) ==
  LET d == Head(announced[h].d)
  IN  /\ announced[h] # Nothing /\ mu = None
      /\ IF Accept(d, announced[h].at) THEN Store(d, FALSE) ELSE UNCHANGED <<relays, key_index>>
      /\ announced' = [announced EXCEPT ![h] = Nothing]
      /\ task' = IF h = Self THEN "announcing" ELSE task
      /\ UNCHANGED <<now, mu, work>>

-------------------------------------------------------------------------------
(* The discovery thread.                                                   *)

discovery_task ==
  /\ task = "sleeping"
  /\ \E offer \in Offers :
       announced' = [announced EXCEPT ![Self] =
         [at |-> now, d |-> <<[url |-> Self, addr |-> SelfAddr, issued |-> now, expires |-> now + TTL, supports |-> offer]>>]]
  /\ task' = "inserting"
  /\ UNCHANGED <<now, relays, key_index, mu, work>>

(* portillia_discovery_announce: a worker for each URL of the bootstrap    *)
(* list it was configured with, banned or not, and then their join.        *)
start_workers ==
  /\ task = "announcing"
  /\ work' = [p \in Peer |-> [Idle EXCEPT !.pc = "polling"]]
  /\ task' = "joining"
  /\ UNCHANGED <<now, relays, key_index, mu, announced>>

join_workers ==
  /\ task = "joining" /\ \A p \in Peer : work[p].pc = "done"
  /\ task' = "syncing"
  /\ UNCHANGED <<now, relays, key_index, mu, work, announced>>

(* The table is read under the lock and all of it handed to the overlay,   *)
(* the entries that are banned or have expired too.                        *)
sync_overlay ==
  /\ task = "syncing" /\ mu = None
  /\ task' = "sleeping"
  /\ UNCHANGED <<now, relays, key_index, mu, work, announced>>

tick ==
  /\ now < MaxTime
  /\ now' = now + 1
  /\ UNCHANGED <<relays, key_index, mu, work, announced, task>>

WorkerStep(p) == apply_lock(p) \/ apply_next(p) \/ apply_unlock(p) \/ poll_reply(p) \/ poll_failed(p)
TaskStep == discovery_task \/ start_workers \/ join_workers \/ sync_overlay

(* The calls of the exposure and of the listener.                          *)
Call ==
  \/ \E urls \in SUBSET Called : set_bootstrap_urls(urls)
  \/ \E u \in Called :
       \/ add_bootstrap_url(u) \/ remove_bootstrap_url(u) \/ ban_url(u) \/ allow_url(u)
       \/ confirm_url(u) \/ unconfirm_url(u)
       \/ \E ms \in Rtt : record_discovery_rtt(u, ms)
       \/ \E n \in RecoveryFailures : record_discovery_failure(u, n) \/ record_active_failure(u, n)

Discovery ==
  \/ \E p \in Peer : WorkerStep(p)
  \/ \E h \in Announcer : handle_discovery_announce(h) \/ insert_announced(h)
  \/ TaskStep \/ tick

Next == Discovery \/ Call

Spec == Init /\ [][Next]_vars

-------------------------------------------------------------------------------
(* What the structure answers.                                             *)

Observed(e) == e.addr # None

(* portillia_relay_set_descriptors, which GET /discovery publishes.        *)
descriptors(at) == {u \in Url : Observed(relays[u]) /\ ~relays[u].banned /\ relays[u].expires > at}

overlay_peers(at) == {u \in descriptors(at) : "overlay" \in relays[u].supports}

(* What portillia_relay_set_priority_relays and _multi_hop rank, see Mols. *)
candidates == {u \in Url : relays[u].known /\ ~relays[u].banned}

-------------------------------------------------------------------------------
WorkState == [pc : {"idle", "polling", "ready", "applying", "done"}, at : Nat,
              todo : Seq(Descriptor), match : BOOLEAN]

TypeOK ==
  /\ now \in Nat
  /\ relays \in [Url -> Entry]
  /\ key_index \in [Addr -> Nat]
  /\ mu \in Peer \cup {None}
  /\ work \in [Peer -> WorkState]
  /\ announced \in [Announcer -> [at : Nat, d : Seq(Descriptor)]]
  /\ task \in {"sleeping", "inserting", "announcing", "joining", "syncing"}

(* "Rollback defense via key_index": in whatever order polls and           *)
(* announcements are applied, and whenever each read the clock, the issue  *)
(* time recorded for an address never decreases, and no URL's descriptor   *)
(* is replaced by an older one of its address.  The tombstone that lets    *)
(* any descriptor through is no exception.                                 *)
NeverRollsBack ==
  [][/\ \A a \in Addr : key_index'[a] >= key_index[a]
     /\ \A u \in Url : Observed(relays[u]) /\ relays'[u].addr = relays[u].addr
                        => relays'[u].issued >= relays[u].issued]_vars

(* Every descriptor in the table is covered by the index: the address has  *)
(* an entry, at least as new.                                              *)
IndexCovers ==
  \A u \in Url : Observed(relays[u]) =>
    0 < relays[u].issued /\ relays[u].issued <= key_index[relays[u].addr]

(* A banned relay stays banned until it is allowed: no response and no     *)
(* announcement that replaces its entry, no eviction, confirmation or      *)
(* change of the bootstrap list lifts the ban.  It is the flag that lasts; *)
(* who heeds it differs.  GET /discovery, overlay_peers and the selections *)
(* do; all_relays, confirmed_relays, the list handed to the overlay and    *)
(* the workers that poll the bootstrap URLs do not.                        *)
BanSticks ==
  [][\A u \in Url : relays[u].banned /\ ~relays'[u].banned => allow_url(u)]_vars

(* A relay is kept out of selection only on account of failures that are   *)
(* still counted, never longer than the maximal backoff; likewise for its  *)
(* next poll.                                                              *)
SuppressionAccounted ==
  \A u \in Url :
    /\ relays[u].suppress_until > 0 => relays[u].active_failures > 0
    /\ relays[u].next_refresh > 0 => relays[u].discovery_failures > 0
    /\ relays[u].suppress_until <= now + MAX_BACKOFF
    /\ relays[u].next_refresh <= now + MAX_BACKOFF

(* The safety of the relay set in relay_set.c: the index covers the table, *)
(* and suppression is accounted for.                                       *)
SetInv == TypeOK /\ IndexCovers /\ SuppressionAccounted
===============================================================================
