---------------------------- MODULE RelaySetProofs ----------------------------
(***************************************************************************)
(* Proofs about RelaySet, for any sets of URLs, addresses, workers and     *)
(* handlers, any responses, and any positive limits.                       *)
(***************************************************************************)
EXTENDS RelaySet, TLAPS

(* A thread that is about to insert has one descriptor to insert.          *)
AnnouncedOne == \A h \in Announcer : announced[h] # Nothing => announced[h].d # <<>>

IInv == TypeOK /\ AnnouncedOne /\ IndexCovers /\ SuppressionAccounted

-------------------------------------------------------------------------------
(* What validate_descriptor_freshness and the rollback test let through is *)
(* never older than what the index has.  If the tombstone has run out,     *)
(* at > issued + MAX_VALIDITY for the recorded issue time, while a         *)
(* fresh descriptor, valid for at most MAX_VALIDITY and not expired, was   *)
(* issued after at - MAX_VALIDITY.                                         *)
LEMMA AcceptNewer ==
  ASSUME NEW d \in Descriptor, NEW at \in Nat, key_index \in [Addr -> Nat], Accept(d, at), d.addr # None
  PROVE  d.addr \in Addr /\ d.issued \in Nat /\ d.issued > 0 /\ d.issued >= key_index[d.addr]
<1>1. d.addr \in Addr /\ d.issued \in Nat /\ d.expires \in Nat /\ MAX_VALIDITY \in Nat
  BY RelaySetAssumption DEF Descriptor
<1>2. key_index[d.addr] \in Nat
  BY <1>1
<1>3. d.issued # 0 /\ d.expires > at /\ d.expires - d.issued <= MAX_VALIDITY
  BY DEF Accept, validate_descriptor_freshness
<1>4. \/ key_index[d.addr] = 0
      \/ at > key_index[d.addr] + MAX_VALIDITY
      \/ key_index[d.addr] <= d.issued
  BY <1>1, <1>2 DEF Accept, Rollback
<1>. QED  BY <1>1, <1>2, <1>3, <1>4

(* The merged entry has the new descriptor and keeps the rest.             *)
LEMMA MergeEntry ==
  ASSUME NEW d \in Descriptor, NEW auth \in BOOLEAN, relays \in [Url -> Entry]
  PROVE  /\ d.url \in Url
         /\ Merge(d, auth) \in Entry
         /\ Merge(d, auth).addr = d.addr /\ Merge(d, auth).issued = d.issued
         /\ Merge(d, auth).banned = relays[d.url].banned
         /\ Merge(d, auth).active_failures = relays[d.url].active_failures
         /\ Merge(d, auth).suppress_until = relays[d.url].suppress_until
         /\ \/ Merge(d, auth).next_refresh = 0
            \/ /\ Merge(d, auth).next_refresh = relays[d.url].next_refresh
               /\ Merge(d, auth).discovery_failures = relays[d.url].discovery_failures
<1>1. d.url \in Url /\ relays[d.url] \in Entry
  BY DEF Descriptor
<1>. QED  BY <1>1, Zenon DEF Merge, Entry, Descriptor

(* The backoff is positive and at most MAX_BACKOFF.                        *)
LEMMA BackoffBound ==
  ASSUME NEW m \in Nat, NEW t \in Nat, BacksOff(m, t)
  PROVE  Backoff(m, t) \in Nat /\ Backoff(m, t) <= MAX_BACKOFF
<1>. DEFINE over == IF m - t > 3 THEN 3 ELSE m - t
<1>1. over + 1 \in 1..4
  BY DEF BacksOff
<1>2. <<1, 2, 4, 8>>[over + 1] \in Nat
  BY <1>1
<1>3. DEFAULT_BACKOFF \in Nat /\ MAX_BACKOFF \in Nat
  BY RelaySetAssumption
<1>4. DEFAULT_BACKOFF * <<1, 2, 4, 8>>[over + 1] \in Nat
  BY <1>2, <1>3
<1>. QED  BY <1>3, <1>4 DEF Backoff

-------------------------------------------------------------------------------
(* What one step may do to the table and to the index.                     *)
Sound ==
  /\ relays' \in [Url -> Entry] /\ key_index' \in [Addr -> Nat]
  /\ IndexCovers'
  /\ \A a \in Addr : key_index'[a] >= key_index[a]
  /\ \A u \in Url : Observed(relays[u]) /\ relays'[u].addr = relays[u].addr
                      => relays'[u].issued >= relays[u].issued

(* The failure bookkeeping of one entry.                                   *)
Accounted(e) ==
  /\ e.suppress_until > 0 => e.active_failures > 0
  /\ e.next_refresh > 0 => e.discovery_failures > 0
  /\ e.suppress_until <= now + MAX_BACKOFF
  /\ e.next_refresh <= now + MAX_BACKOFF

(* Storing an accepted descriptor is sound, and lifts no ban.              *)
LEMMA StoreSound ==
  ASSUME IInv, NEW d \in Descriptor, NEW at \in Nat, NEW auth \in BOOLEAN,
         Accept(d, at), Store(d, auth)
  PROVE  /\ Sound
         /\ \A u \in Url : relays'[u].banned = relays[u].banned /\ Accounted(relays'[u])
<1>1. relays \in [Url -> Entry] /\ key_index \in [Addr -> Nat] /\ now \in Nat
  BY DEF IInv, TypeOK
<1>2. d.url \in Url /\ d.addr \in Addr \cup {None} /\ d.issued \in Nat /\ MAX_BACKOFF \in Nat
  BY RelaySetAssumption DEF Descriptor
<1>3. relays' = [relays EXCEPT ![d.url] = Merge(d, auth)]
  BY DEF Store
<1>4. Merge(d, auth) \in Entry /\ Merge(d, auth).addr = d.addr /\ Merge(d, auth).issued = d.issued
      /\ Merge(d, auth).banned = relays[d.url].banned
  BY <1>1, MergeEntry
<1>5. relays' \in [Url -> Entry]
  BY <1>1, <1>3, <1>4, Zenon
<1>6. key_index' \in [Addr -> Nat] /\ \A a \in Addr : key_index'[a] >= key_index[a]
  <2>1. CASE d.addr = None
    BY <2>1, <1>1 DEF Store
  <2>2. CASE d.addr # None
    <3>1. d.addr \in Addr /\ d.issued >= key_index[d.addr] /\ key_index' = [key_index EXCEPT ![d.addr] = d.issued]
      BY <2>2, <1>1, AcceptNewer DEF Store
    <3>. QED  BY <3>1, <1>1, <1>2
  <2>. QED  BY <2>1, <2>2
<1>7. ASSUME NEW u \in Url, Observed(relays'[u])
      PROVE  0 < relays'[u].issued /\ relays'[u].issued <= key_index'[relays'[u].addr]
  <2>1. CASE u = d.url
    <3>1. relays'[u].addr = d.addr /\ relays'[u].issued = d.issued /\ d.addr # None
      BY <2>1, <1>1, <1>3, <1>4, <1>7 DEF Observed
    <3>2. d.issued > 0 /\ d.addr \in Addr /\ key_index'[d.addr] = d.issued
      BY <3>1, <1>1, AcceptNewer DEF Store
    <3>. QED  BY <3>1, <3>2, <1>2
  <2>2. CASE u # d.url
    <3>1. relays'[u] = relays[u] /\ relays[u] \in Entry /\ relays[u].addr \in Addr
      BY <2>2, <1>1, <1>3, <1>7 DEF Observed, Entry
    <3>2. 0 < relays[u].issued /\ relays[u].issued <= key_index[relays[u].addr] /\ relays[u].issued \in Nat
      BY <3>1, <1>7 DEF IInv, IndexCovers, Entry
    <3>3. key_index'[relays[u].addr] >= key_index[relays[u].addr]
      BY <3>1, <1>6
    <3>. QED  BY <3>1, <3>2, <3>3, <1>1, <1>6
  <2>. QED  BY <2>1, <2>2
<1>8. ASSUME NEW u \in Url, Observed(relays[u]), relays'[u].addr = relays[u].addr
      PROVE  relays'[u].issued >= relays[u].issued
  <2>1. relays[u] \in Entry /\ relays[u].issued \in Nat /\ relays[u].addr \in Addr
    BY <1>1, <1>8 DEF Observed, Entry
  <2>2. CASE u = d.url
    <3>1. d.addr = relays[u].addr /\ relays'[u].issued = d.issued
      BY <2>2, <1>1, <1>3, <1>4, <1>8
    <3>2. d.issued >= key_index[d.addr]
      BY <3>1, <1>1, <1>8, AcceptNewer DEF Observed
    <3>3. relays[u].issued <= key_index[relays[u].addr] /\ key_index[relays[u].addr] \in Nat
      BY <2>1, <1>1, <1>8 DEF IInv, IndexCovers
    <3>. QED  BY <3>1, <3>2, <3>3, <2>1, <1>2
  <2>3. CASE u # d.url
    BY <2>1, <2>3, <1>1, <1>3
  <2>. QED  BY <2>2, <2>3
<1>9. ASSUME NEW u \in Url
      PROVE  relays'[u].banned = relays[u].banned /\ Accounted(relays'[u])
  <2>1. Accounted(relays[u])
    BY DEF IInv, SuppressionAccounted, Accounted
  <2>2. CASE u = d.url
    <3>1. relays'[u] = Merge(d, auth)
      BY <2>2, <1>1, <1>3
    <3>. QED  BY <2>1, <2>2, <3>1, <1>1, <1>2, MergeEntry DEF Accounted
  <2>3. CASE u # d.url
    BY <2>1, <2>3, <1>1, <1>3
  <2>. QED  BY <2>2, <2>3
<1>. QED  BY <1>5, <1>6, <1>7, <1>8, <1>9 DEF Sound, IndexCovers

(* What a call may do to an entry: it keeps the descriptor or has none,    *)
(* and its failures stay accounted for.                                    *)
Fits(e, f) ==
  /\ f \in Entry
  /\ f.addr = None \/ (f.addr = e.addr /\ f.issued = e.issued)
  /\ Accounted(f)

(* An update of the table by entries that fit is sound.                    *)
LEMMA UpdateSound ==
  ASSUME IInv, NEW table, table = [u \in Url |-> table[u]], Update(table),
         \A u \in Url : Fits(relays[u], table[u])
  PROVE  Sound /\ \A u \in Url : Accounted(relays'[u])
<1>1. relays \in [Url -> Entry] /\ key_index \in [Addr -> Nat] /\ key_index' = key_index /\ relays' = table
  BY DEF IInv, TypeOK, Update
<1>2. relays' \in [Url -> Entry]
  BY <1>1 DEF Fits
<1>3. ASSUME NEW u \in Url, Observed(relays'[u])
      PROVE  0 < relays'[u].issued /\ relays'[u].issued <= key_index'[relays'[u].addr]
  BY <1>1, <1>3 DEF Fits, Observed, IInv, IndexCovers
<1>4. ASSUME NEW u \in Url, Observed(relays[u]), relays'[u].addr = relays[u].addr
      PROVE  relays'[u].issued >= relays[u].issued
  <2>1. relays'[u].issued = relays[u].issued /\ relays[u].issued \in Nat
    BY <1>1, <1>4 DEF Fits, Observed, Entry
  <2>. QED  BY <2>1
<1>5. \A a \in Addr : key_index'[a] >= key_index[a]
  BY <1>1
<1>. QED  BY <1>1, <1>2, <1>3, <1>4, <1>5 DEF Sound, IndexCovers, Fits

(* The change of one entry by a call.                                      *)
LEMMA UpdateOne ==
  ASSUME IInv, NEW u \in Url, NEW f, Change(u, f), Fits(relays[u], f)
  PROVE  /\ Sound /\ \A v \in Url : Accounted(relays'[v])
         /\ \A v \in Url : relays'[v] = IF v = u THEN f ELSE relays[v]
<1>. DEFINE table == [relays EXCEPT ![u] = f]
<1>1. relays \in [Url -> Entry]
  BY DEF IInv, TypeOK
<1>2. table = [v \in Url |-> table[v]] /\ \A v \in Url : table[v] = IF v = u THEN f ELSE relays[v]
  BY <1>1, Zenon
<1>3. \A v \in Url : Fits(relays[v], table[v])
  BY <1>1, <1>2, Zenon DEF Fits, IInv, SuppressionAccounted, Accounted
<1>4. Update(table) /\ relays' = table
  BY DEF Update, Change
<1>5. Sound /\ \A v \in Url : Accounted(relays'[v])
  <2>. HIDE DEF table
  <2>. QED  BY <1>2, <1>3, <1>4, UpdateSound
<1>. QED  BY <1>2, <1>4, <1>5

(* The effect of a call on bans: only allow_url lifts one.                 *)
Bans == \A u \in Url : relays[u].banned /\ ~relays'[u].banned => allow_url(u)

(* Evicting an entry that is disposable fits.                              *)
LEMMA EvictFits ==
  ASSUME NEW e \in Entry, Accounted(e), now \in Nat
  PROVE  LET f == Evict([e EXCEPT !.bootstrap = FALSE])
         IN  Fits(e, f) /\ (e.banned => f.banned)
<1>. DEFINE g == [e EXCEPT !.bootstrap = FALSE]
<1>1. g \in Entry /\ g.addr = e.addr /\ g.issued = e.issued /\ Accounted(g) /\ g.banned = e.banned
  BY Zenon DEF Entry, Accounted
<1>2. Absent \in Entry /\ Absent.addr = None
  BY DEF Absent, Entry
<1>3. Accounted(Absent)
  BY RelaySetAssumption DEF Accounted, Absent
<1>4. CASE Disposable(g)
  BY <1>1, <1>2, <1>3, <1>4 DEF Disposable, Evict, Fits
<1>5. CASE ~Disposable(g)
  BY <1>1, <1>5 DEF Evict, Fits
<1>. QED  BY <1>4, <1>5

(* Each call is sound, keeps failures accounted for and respects bans.     *)
LEMMA CallSound ==
  ASSUME IInv, Call
  PROVE  /\ Sound /\ Bans /\ \A u \in Url : Accounted(relays'[u])
         /\ UNCHANGED <<now, mu, work, announced, task>>
<1>1. relays \in [Url -> Entry] /\ now \in Nat /\ MAX_BACKOFF \in Nat /\ Called \subseteq Url
  BY RelaySetAssumption DEF IInv, TypeOK
<1>2. \A u \in Url : relays[u] \in Entry /\ Accounted(relays[u]) /\ Fits(relays[u], relays[u])
  BY <1>1, Zenon DEF IInv, SuppressionAccounted, Accounted, Fits
<1>3. ASSUME NEW urls \in SUBSET Called, set_bootstrap_urls(urls)
      PROVE  /\ Sound /\ Bans /\ \A u \in Url : Accounted(relays'[u])
             /\ UNCHANGED <<now, mu, work, announced, task>>
  <2>. DEFINE table == [u \in Url |-> IF u \in urls THEN [relays[u] EXCEPT !.known = TRUE, !.bootstrap = TRUE]
                                     ELSE Evict([relays[u] EXCEPT !.bootstrap = FALSE])]
  <2>1. ASSUME NEW u \in Url
        PROVE  Fits(relays[u], table[u]) /\ (relays[u].banned => table[u].banned)
    <3>1. CASE u \in urls
      BY <3>1, <1>2, Zenon DEF Entry, Fits, Accounted
    <3>2. CASE u \notin urls
      <4>1. table[u] = Evict([relays[u] EXCEPT !.bootstrap = FALSE])
        BY <3>2
      <4>. QED  BY <4>1, <1>1, <1>2, EvictFits
    <3>. QED  BY <3>1, <3>2
  <2>2. Update(table) /\ relays' = table /\ UNCHANGED <<now, mu, work, announced, task>>
    BY <1>3, Zenon DEF set_bootstrap_urls, Update
  <2>3. table = [u \in Url |-> table[u]]
    OBVIOUS
  <2>. HIDE DEF table
  <2>. QED  BY <2>1, <2>2, <2>3, UpdateSound DEF Bans
<1>4. ASSUME NEW u \in Url, NEW f, Change(u, f), Fits(relays[u], f), relays[u].banned => f.banned \/ allow_url(u)
      PROVE  /\ Sound /\ Bans /\ \A v \in Url : Accounted(relays'[v])
             /\ UNCHANGED <<now, mu, work, announced, task>>
  <2>1. Sound /\ \A v \in Url : Accounted(relays'[v])
    BY <1>4, UpdateOne
  <2>2. \A v \in Url : relays'[v] = IF v = u THEN f ELSE relays[v]
    BY <1>4, UpdateOne
  <2>. QED  BY <2>1, <2>2, <1>4 DEF Bans, Change, Update
<1>5. ASSUME NEW u \in Called,
             add_bootstrap_url(u) \/ remove_bootstrap_url(u) \/ ban_url(u) \/ allow_url(u)
      PROVE  /\ Sound /\ Bans /\ \A v \in Url : Accounted(relays'[v])
             /\ UNCHANGED <<now, mu, work, announced, task>>
  <2>1. u \in Url
    BY <1>1
  <2>2. CASE add_bootstrap_url(u)
    <3>1. Fits(relays[u], [relays[u] EXCEPT !.known = TRUE, !.bootstrap = TRUE])
      BY <2>1, <1>2, Zenon DEF Fits, Entry, Accounted
    <3>2. relays[u].banned => [relays[u] EXCEPT !.known = TRUE, !.bootstrap = TRUE].banned
      BY <2>1, <1>2 DEF Entry
    <3>. QED  BY <2>1, <2>2, <3>1, <3>2, <1>4, Zenon DEF add_bootstrap_url
  <2>3. CASE remove_bootstrap_url(u)
    BY <2>1, <2>3, <1>1, <1>2, <1>4, EvictFits, Zenon DEF remove_bootstrap_url
  <2>4. CASE ban_url(u)
    <3>1. Fits(relays[u], [relays[u] EXCEPT !.known = TRUE, !.banned = TRUE])
      BY <2>1, <1>2, Zenon DEF Fits, Entry, Accounted
    <3>2. [relays[u] EXCEPT !.known = TRUE, !.banned = TRUE].banned
      BY <2>1, <1>2 DEF Entry
    <3>. QED  BY <2>1, <2>4, <3>1, <3>2, <1>4, Zenon DEF ban_url
  <2>5. CASE allow_url(u)
    <3>1. Fits(relays[u], [relays[u] EXCEPT !.banned = FALSE])
      BY <2>1, <1>2, Zenon DEF Fits, Entry, Accounted
    <3>2. Change(u, [relays[u] EXCEPT !.banned = FALSE])
      BY <2>5 DEF allow_url
    <3>. QED  BY <2>1, <2>5, <3>1, <3>2, <1>4
  <2>. QED  BY <1>5, <2>2, <2>3, <2>4, <2>5
<1>6. ASSUME NEW u \in Called, confirm_url(u) \/ unconfirm_url(u) \/ \E ms \in Rtt : record_discovery_rtt(u, ms)
      PROVE  /\ Sound /\ Bans /\ \A v \in Url : Accounted(relays'[v])
             /\ UNCHANGED <<now, mu, work, announced, task>>
  <2>1. u \in Url
    BY <1>1
  <2>2. CASE confirm_url(u)
    <3>. DEFINE f == [relays[u] EXCEPT !.known = TRUE, !.confirmed = TRUE, !.active_failures = 0, !.suppress_until = 0]
    <3>1. f \in Entry
      BY <2>1, <1>2, Zenon DEF Entry
    <3>2. /\ f.active_failures = 0 /\ f.suppress_until = 0 /\ f.addr = relays[u].addr /\ f.issued = relays[u].issued
          /\ f.next_refresh = relays[u].next_refresh /\ f.discovery_failures = relays[u].discovery_failures
          /\ f.banned = relays[u].banned
      BY <2>1, <1>2 DEF Entry
    <3>3. Change(u, f)
      BY <2>2 DEF confirm_url
    <3>. HIDE DEF f
    <3>4. Fits(relays[u], f)
      BY <3>1, <3>2, <2>1, <1>1, <1>2 DEF Fits, Accounted
    <3>. QED  BY <2>1, <3>2, <3>3, <3>4, <1>4
  <2>3. CASE unconfirm_url(u)
    <3>. DEFINE f == [relays[u] EXCEPT !.confirmed = FALSE]
    <3>1. Fits(relays[u], f) /\ f.banned = relays[u].banned
      BY <2>1, <1>1, <1>2, Zenon DEF Fits, Entry, Accounted
    <3>. QED  BY <2>1, <2>3, <3>1, <1>4, Zenon DEF unconfirm_url
  <2>4. ASSUME NEW ms \in Rtt, record_discovery_rtt(u, ms)
        PROVE  /\ Sound /\ Bans /\ \A v \in Url : Accounted(relays'[v])
               /\ UNCHANGED <<now, mu, work, announced, task>>
    <3>. DEFINE f == [relays[u] EXCEPT !.rtt = ms]
    <3>0. ms \in Nat
      BY RelaySetAssumption
    <3>1. Fits(relays[u], f) /\ f.banned = relays[u].banned
      BY <3>0, <2>1, <1>1, <1>2, Zenon DEF Fits, Entry, Accounted
    <3>. QED  BY <2>1, <2>4, <3>1, <1>4, Zenon DEF record_discovery_rtt
  <2>. QED  BY <1>6, <2>2, <2>3, <2>4
<1>7. ASSUME NEW u \in Called, NEW n \in RecoveryFailures,
             record_discovery_failure(u, n) \/ record_active_failure(u, n)
      PROVE  /\ Sound /\ Bans /\ \A v \in Url : Accounted(relays'[v])
             /\ UNCHANGED <<now, mu, work, announced, task>>
  <2>1. u \in Url /\ n \in Nat
    BY <1>1, RelaySetAssumption
  <2>2. CASE record_discovery_failure(u, n)
    <3>. DEFINE m == relays[u].discovery_failures + 1
                until == IF BacksOff(m, n) THEN now + Backoff(m, n) ELSE relays[u].next_refresh
                f == [relays[u] EXCEPT !.discovery_failures = m, !.next_refresh = until]
    <3>1. m \in Nat /\ m > 0
      BY <2>1, <1>2 DEF Entry
    <3>2. until \in Nat /\ until <= now + MAX_BACKOFF
      <4>1. CASE BacksOff(m, n)
        <5>1. Backoff(m, n) \in Nat /\ Backoff(m, n) <= MAX_BACKOFF
          <6>. HIDE DEF m
          <6>. QED  BY <3>1, <2>1, <4>1, BackoffBound
        <5>. QED  BY <4>1, <5>1, <1>1
      <4>2. CASE ~BacksOff(m, n)
        BY <4>2, <2>1, <1>2 DEF Entry, Accounted
      <4>. QED  BY <4>1, <4>2
    <3>3. Change(u, f)
      BY <2>2 DEF record_discovery_failure
    <3>. HIDE DEF m, until
    <3>4. Fits(relays[u], f) /\ f.banned = relays[u].banned
      BY <3>1, <3>2, <2>1, <1>1, <1>2, Zenon DEF Fits, Entry, Accounted
    <3>. QED  BY <2>1, <3>3, <3>4, <1>4, Zenon
  <2>3. CASE record_active_failure(u, n)
    <3>. DEFINE m == relays[u].active_failures + 1
                until == IF BacksOff(m, n) THEN now + Backoff(m, n) ELSE relays[u].suppress_until
                f == [relays[u] EXCEPT !.active_failures = m, !.suppress_until = until]
    <3>1. m \in Nat /\ m > 0
      BY <2>1, <1>2 DEF Entry
    <3>2. until \in Nat /\ until <= now + MAX_BACKOFF
      <4>1. CASE BacksOff(m, n)
        <5>1. Backoff(m, n) \in Nat /\ Backoff(m, n) <= MAX_BACKOFF
          <6>. HIDE DEF m
          <6>. QED  BY <3>1, <2>1, <4>1, BackoffBound
        <5>. QED  BY <4>1, <5>1, <1>1
      <4>2. CASE ~BacksOff(m, n)
        BY <4>2, <2>1, <1>2 DEF Entry, Accounted
      <4>. QED  BY <4>1, <4>2
    <3>3. Change(u, f)
      BY <2>3 DEF record_active_failure
    <3>. HIDE DEF m, until
    <3>4. Fits(relays[u], f) /\ f.banned = relays[u].banned
      BY <3>1, <3>2, <2>1, <1>1, <1>2, Zenon DEF Fits, Entry, Accounted
    <3>. QED  BY <2>1, <3>3, <3>4, <1>4, Zenon
  <2>. QED  BY <1>7, <2>2, <2>3
<1>. QED  BY <1>3, <1>5, <1>6, <1>7 DEF Call

(* A step that leaves the table and the index alone.                       *)
LEMMA TableKept ==
  ASSUME IInv, UNCHANGED <<relays, key_index>>, now' \in Nat, now' >= now
  PROVE  Sound /\ Bans /\ SuppressionAccounted'
<1>1. relays \in [Url -> Entry] /\ key_index \in [Addr -> Nat] /\ now \in Nat /\ MAX_BACKOFF \in Nat
  BY RelaySetAssumption DEF IInv, TypeOK
<1>2. \A u \in Url : relays[u] \in Entry /\ relays[u].issued \in Nat
                     /\ relays[u].suppress_until \in Nat /\ relays[u].next_refresh \in Nat
  BY <1>1 DEF Entry
<1>3. Sound
  BY <1>1, <1>2 DEF Sound, IInv, IndexCovers, Observed
<1>4. Bans
  BY DEF Bans
<1>5. SuppressionAccounted'
  BY <1>1, <1>2 DEF IInv, SuppressionAccounted
<1>. QED  BY <1>3, <1>4, <1>5

(* The rest of the type invariant: what the threads are doing.             *)
Threads ==
  /\ mu \in Peer \cup {None}
  /\ work \in [Peer -> WorkState]
  /\ announced \in [Announcer -> [at : Nat, d : Seq(Descriptor)]]
  /\ task \in {"sleeping", "inserting", "announcing", "joining", "syncing"}
  /\ AnnouncedOne

(* The steps of discovery are sound too, and keep the threads' state.      *)
LEMMA DiscoverySound ==
  ASSUME IInv, Discovery
  PROVE  Sound /\ Bans /\ SuppressionAccounted' /\ Threads' /\ now' \in Nat
<1>1. /\ now \in Nat /\ work \in [Peer -> WorkState] /\ mu \in Peer \cup {None}
      /\ announced \in [Announcer -> [at : Nat, d : Seq(Descriptor)]]
      /\ Response \subseteq Seq(Descriptor) /\ TTL \in Nat /\ Self \in Url /\ SelfAddr \in Addr
  BY RelaySetAssumption DEF IInv, TypeOK
<1>2. Threads
  BY DEF IInv, TypeOK, Threads
<1>3. ASSUME NEW d \in Descriptor, NEW at \in Nat, NEW auth \in BOOLEAN, now' = now,
             IF Accept(d, at) THEN Store(d, auth) ELSE UNCHANGED <<relays, key_index>>
      PROVE  Sound /\ Bans /\ SuppressionAccounted'
  <2>1. CASE Accept(d, at)
    <3>1. Sound /\ \A u \in Url : relays'[u].banned = relays[u].banned /\ Accounted(relays'[u])
      BY <1>3, <2>1, StoreSound
    <3>. QED  BY <3>1, <1>3 DEF Bans, SuppressionAccounted, Accounted
  <2>2. CASE ~Accept(d, at)
    BY <1>3, <2>2, <1>1, TableKept
  <2>. QED  BY <2>1, <2>2
<1>4. ASSUME NEW p \in Peer, WorkerStep(p)
      PROVE  Sound /\ Bans /\ SuppressionAccounted' /\ Threads' /\ now' \in Nat
  <2>1. CASE apply_lock(p)
    <3>1. Threads'
      BY <2>1, <1>2, ZenonT(60) DEF apply_lock, Threads, WorkState, AnnouncedOne
    <3>. QED  BY <2>1, <3>1, <1>1, TableKept DEF apply_lock
  <2>2. CASE apply_next(p)
    <3>1. work[p] \in WorkState /\ work[p].todo \in Seq(Descriptor) /\ work[p].todo # <<>> /\ work[p].at \in Nat
      BY <2>2, <1>1 DEF apply_next, WorkState
    <3>2. Head(work[p].todo) \in Descriptor /\ Tail(work[p].todo) \in Seq(Descriptor)
      BY <3>1
    <3>3. Threads'
      BY <2>2, <3>1, <3>2, <1>2, Zenon DEF apply_next, Threads, WorkState, AnnouncedOne
    <3>4. (work[p].match /\ Head(work[p].todo).url = p) \in BOOLEAN
      OBVIOUS
    <3>. QED  BY <2>2, <3>1, <3>2, <3>3, <3>4, <1>1, <1>3, Zenon DEF apply_next
  <2>3. CASE apply_unlock(p)
    <3>1. Threads'
      BY <2>3, <1>2, Zenon DEF apply_unlock, Threads, WorkState, AnnouncedOne, Idle
    <3>. QED  BY <2>3, <3>1, <1>1, TableKept DEF apply_unlock
  <2>4. CASE poll_reply(p)
    <3>0. PICK resp \in Response, match \in BOOLEAN :
            work' = [work EXCEPT ![p] = [pc |-> "ready", at |-> now, todo |-> resp, match |-> match]]
      BY <2>4, Zenon DEF poll_reply
    <3>1. resp \in Seq(Descriptor)
      BY RelaySetAssumption
    <3>2. [pc |-> "ready", at |-> now, todo |-> resp, match |-> match] \in WorkState
      BY <3>1, <1>1, Zenon DEF WorkState
    <3>3. work' \in [Peer -> WorkState]
      BY <3>0, <3>2, <1>1, <1>2, Zenon DEF Threads
    <3>4. Threads'
      BY <2>4, <3>3, <1>2, Zenon DEF poll_reply, Threads, AnnouncedOne
    <3>. QED  BY <2>4, <3>4, <1>1, TableKept DEF poll_reply
  <2>5. CASE poll_failed(p)
    <3>1. Threads'
      BY <2>5, <1>2, Zenon DEF poll_failed, Threads, WorkState, AnnouncedOne
    <3>. QED  BY <2>5, <3>1, <1>1, TableKept DEF poll_failed
  <2>. QED  BY <1>4, <2>1, <2>2, <2>3, <2>4, <2>5 DEF WorkerStep
<1>5. ASSUME NEW h \in Announcer, handle_discovery_announce(h)
      PROVE  Sound /\ Bans /\ SuppressionAccounted' /\ Threads' /\ now' \in Nat
  <2>1. PICK resp \in Response : \E i \in DOMAIN resp : announced' = [announced EXCEPT ![h] =
          [at |-> now, d |-> <<[resp[i] EXCEPT !.issued = now, !.expires = now + TTL]>>]]
    BY <1>5, Zenon DEF handle_discovery_announce
  <2>2. PICK i \in DOMAIN resp : announced' = [announced EXCEPT ![h] =
          [at |-> now, d |-> <<[resp[i] EXCEPT !.issued = now, !.expires = now + TTL]>>]]
    BY <2>1, Zenon
  <2>3. [resp[i] EXCEPT !.issued = now, !.expires = now + TTL] \in Descriptor
    <3>1. resp \in Seq(Descriptor)
      BY <1>1
    <3>2. resp[i] \in Descriptor
      BY <3>1
    <3>3. now \in Nat /\ now + TTL \in Nat
      BY <1>1
    <3>. QED  BY <3>2, <3>3, Zenon DEF Descriptor
  <2>4. Threads'
    BY <1>5, <2>2, <2>3, <1>1, <1>2 DEF handle_discovery_announce, Threads, AnnouncedOne
  <2>. QED  BY <1>5, <2>4, <1>1, TableKept DEF handle_discovery_announce
<1>6. ASSUME NEW h \in Announcer, insert_announced(h)
      PROVE  Sound /\ Bans /\ SuppressionAccounted' /\ Threads' /\ now' \in Nat
  <2>1. announced[h] \in [at : Nat, d : Seq(Descriptor)] /\ announced[h].d # <<>>
    BY <1>6, <1>1 DEF insert_announced, IInv, AnnouncedOne
  <2>2. announced[h].at \in Nat /\ Head(announced[h].d) \in Descriptor
    BY <2>1
  <2>3. Threads'
    BY <1>6, <1>2 DEF insert_announced, Threads, AnnouncedOne, Nothing
  <2>. QED  BY <1>6, <2>2, <2>3, <1>1, <1>3, Zenon DEF insert_announced
<1>7. CASE discovery_task
  <2>0. PICK offer \in Offers :
          announced' = [announced EXCEPT ![Self] =
            [at |-> now, d |-> <<[url |-> Self, addr |-> SelfAddr, issued |-> now, expires |-> now + TTL, supports |-> offer]>>]]
    BY <1>7, Zenon DEF discovery_task
  <2>1. [url |-> Self, addr |-> SelfAddr, issued |-> now, expires |-> now + TTL, supports |-> offer] \in Descriptor
    BY <1>1, RelaySetAssumption DEF Descriptor
  <2>2. Threads'
    <3>. DEFINE own == [url |-> Self, addr |-> SelfAddr, issued |-> now, expires |-> now + TTL, supports |-> offer]
    <3>1. announced' = [announced EXCEPT ![Self] = [at |-> now, d |-> <<own>>]]
          /\ task' = "inserting" /\ UNCHANGED <<mu, work>>
      BY <1>7, <2>0 DEF discovery_task
    <3>2. own \in Descriptor
      BY <2>1
    <3>. HIDE DEF own
    <3>3. [at |-> now, d |-> <<own>>] \in [at : Nat, d : Seq(Descriptor)] /\ <<own>> # <<>>
      BY <3>2, <1>1
    <3>4. announced' \in [Announcer -> [at : Nat, d : Seq(Descriptor)]]
      BY <3>1, <3>3, <1>1, Zenon
    <3>5. AnnouncedOne'
      BY <3>1, <3>3, <1>1, <1>2 DEF Threads, AnnouncedOne
    <3>. QED  BY <3>1, <3>4, <3>5, <1>2 DEF Threads
  <2>. QED  BY <1>7, <2>2, <1>1, TableKept DEF discovery_task
<1>8. CASE start_workers \/ join_workers \/ sync_overlay
  <2>1. CASE start_workers
    <3>. DEFINE w == [Idle EXCEPT !.pc = "polling"]
    <3>1. work' = [p \in Peer |-> w]
      BY <2>1, Zenon DEF start_workers
    <3>2. Idle \in WorkState
      BY DEF Idle, WorkState
    <3>3. w \in WorkState
      BY <3>2 DEF WorkState
    <3>. HIDE DEF w
    <3>4. work' \in [Peer -> WorkState]
      BY <3>1, <3>3
    <3>5. Threads'
      BY <2>1, <3>4, <1>2, Zenon DEF start_workers, Threads, AnnouncedOne
    <3>. QED  BY <2>1, <3>5, <1>1, TableKept DEF start_workers
  <2>2. CASE join_workers \/ sync_overlay
    <3>1. Threads'
      BY <2>2, <1>2 DEF join_workers, sync_overlay, Threads, AnnouncedOne
    <3>. QED  BY <2>2, <3>1, <1>1, TableKept DEF join_workers, sync_overlay
  <2>. QED  BY <1>8, <2>1, <2>2
<1>9. CASE tick
  <2>1. Threads' /\ now' \in Nat /\ now' >= now
    BY <1>9, <1>1, <1>2 DEF tick, Threads, AnnouncedOne
  <2>. QED  BY <1>9, <2>1, TableKept DEF tick
<1>. QED  BY <1>4, <1>5, <1>6, <1>7, <1>8, <1>9 DEF Discovery, TaskStep

(* The relay set of portillia_relay_set_create satisfies the invariant.    *)
LEMMA InitInv == Init => IInv
<1>. SUFFICES ASSUME Init PROVE IInv
  OBVIOUS
<1>1. Absent \in Entry /\ [Absent EXCEPT !.known = TRUE, !.bootstrap = TRUE] \in Entry
  BY Zenon DEF Absent, Entry
<1>2. TypeOK
  BY <1>1 DEF Init, TypeOK, Idle, Nothing, WorkState
<1>3. \A u \in Url : relays[u].addr = None /\ relays[u].suppress_until = 0 /\ relays[u].next_refresh = 0
  BY Zenon DEF Init, Absent
<1>4. IndexCovers /\ SuppressionAccounted
  BY <1>3, RelaySetAssumption DEF Init, IndexCovers, SuppressionAccounted, Observed
<1>. QED  BY <1>2, <1>4 DEF Init, IInv, AnnouncedOne

(* The invariant is inductive, and each operation and thread step has what *)
(* the action properties ask of it.                                        *)
LEMMA StepInv == IInv /\ [Next]_vars => IInv' /\ Sound /\ Bans
<1>. SUFFICES ASSUME IInv, [Next]_vars PROVE IInv' /\ Sound /\ Bans
  OBVIOUS
<1>1. Sound /\ Bans /\ SuppressionAccounted' /\ Threads' /\ now' \in Nat
  <2>1. CASE Discovery
    BY <2>1, DiscoverySound
  <2>2. CASE Call
    <3>1. /\ Sound /\ Bans /\ \A u \in Url : Accounted(relays'[u])
          /\ UNCHANGED <<now, mu, work, announced, task>>
      BY <2>2, CallSound
    <3>. QED  BY <3>1 DEF IInv, TypeOK, Threads, AnnouncedOne, SuppressionAccounted, Accounted
  <2>3. CASE UNCHANGED vars
    <3>1. now \in Nat /\ UNCHANGED <<now, relays, key_index, mu, work, announced, task>>
      BY <2>3 DEF vars, IInv, TypeOK
    <3>. QED  BY <3>1, TableKept DEF IInv, TypeOK, Threads, AnnouncedOne
  <2>. QED  BY <2>1, <2>2, <2>3 DEF Next
<1>. QED  BY <1>1 DEF IInv, TypeOK, Threads, Sound

(* Whichever threads of relay_set.c and discovery.c update the table, each *)
(* descriptor in it is covered by the key index, at least as new, and the  *)
(* backoffs of record_active_failure and record_discovery_failure are      *)
(* bounded and end with the failures they are for.                         *)
THEOREM SetSafe == Spec => []SetInv
<1>1. IInv => SetInv
  BY DEF IInv, SetInv
<1>. QED  BY <1>1, InitInv, StepInv, PTL DEF Spec

(* The rollback defense of the apply and the insert: neither the index nor *)
(* a stored descriptor goes back, the expired tombstone notwithstanding.   *)
THEOREM NoRollbackOfDescriptors == Spec => NeverRollsBack
<1>1. IInv /\ [Next]_vars =>
        [/\ \A a \in Addr : key_index'[a] >= key_index[a]
         /\ \A u \in Url : Observed(relays[u]) /\ relays'[u].addr = relays[u].addr
                            => relays'[u].issued >= relays[u].issued]_vars
  BY StepInv DEF Sound
<1>. QED  BY <1>1, InitInv, StepInv, PTL DEF Spec, NeverRollsBack

(* Only allow_url lifts a ban: the responses and announcements that        *)
(* replace an entry, the evictions and the other calls keep the flag.      *)
THEOREM BansStick == Spec => BanSticks
<1>1. IInv /\ [Next]_vars =>
        [\A u \in Url : relays[u].banned /\ ~relays'[u].banned => allow_url(u)]_vars
  BY StepInv DEF Bans
<1>. QED  BY <1>1, InitInv, StepInv, PTL DEF Spec, BanSticks
===============================================================================
