------------------------------- MODULE Exposure -------------------------------
(***************************************************************************)
(* An exposure of the SDK, src/sdk/expose.c: the lists of relays, their    *)
(* reconciliation with the listeners, the discovery thread, the channel    *)
(* that accept threads fill, and portillia_exposure_close.                 *)
(*                                                                         *)
(* The rwlock listener_mu is held across calls that block:                 *)
(* portillia_listener_close, joins, and the accept of a datagram.  A       *)
(* listener here is its URL, the path it registers along, and its accept   *)
(* thread; Listener.tla has the rest.  A thread that uses the exposure's   *)
(* locks or channel after they were destroyed, or its relay set after it   *)
(* was freed, is "undefined" and not followed any further.  One that joins *)
(* a thread that was never started is "lost", with the lock held, unless   *)
(* the join fails.                                                         *)
(***************************************************************************)
EXTENDS Integers, Sequences, FiniteSets, Functions

CONSTANTS
  Url,             \* relay URLs, numbers: they are sorted
  Load,            \* the load each relay reports
  Configured,      \* relay_urls of the configuration
  Path,            \* multi-hop paths that are asked for, <<>> to clear it
  Caller,          \* threads that change the relays
  Acceptor,        \* threads that call accept
  Conn,            \* connections that arrive
  CAP,             \* capacity of the channel (128)
  MAX_ROUTING,     \* max_routing: relays polled in a round
  RoundCycle,      \* the round is counted modulo this, a multiple of n and n - 1
  None, Discovery, Closer

ASSUME ExposureAssumption ==
  /\ Url \subseteq Nat /\ IsFiniteSet(Url) /\ Configured \subseteq Url
  /\ Path \subseteq Seq(Url) /\ \A p \in Path : Len(p) # 1
  /\ {CAP, MAX_ROUTING, RoundCycle} \subseteq Nat \ {0}
  /\ Load \in [Url -> Nat] /\ IsFiniteSet(Acceptor)
  /\ {None, Discovery, Closer} \cap (Caller \cup Acceptor) = {}
  /\ None \notin {Discovery, Closer} /\ Discovery # Closer

VARIABLES
  cancelled,             \* the flag, set first by close
  explicit, seeds, hops, \* explicit_relays, seed_only_relays, multi_hop
  depth,                 \* multi_hop_depth > 1: paths are selected
  udp,                   \* udp_enabled
  banned, discovered,    \* of the relay set: bans, and URLs with a descriptor
  set_freed,             \* it is freed, and the pointer NULL
  mu, readers,           \* listener_mu: its writer, its blocked readers
  listeners, tids,       \* the parallel arrays: URLs of listeners and of accept threads
  lst,                   \* the listener of each URL
  want,                  \* listener_relay_urls of the reconciliation
  th,                    \* where callers and the discovery thread are
  poll, round,           \* URLs the discovery thread has yet to poll
  closer,                \* where close is
  chan, conn,            \* the channel, and what became of each connection
  app,                   \* where each acceptor is
  late,                  \* a reconciliation was waiting when close let go
  unmade                 \* URLs the last reconciliation could make no listener for

config == <<explicit, seeds, hops, depth>>
set == <<banned, discovered, set_freed>>
slots == <<listeners, tids, lst>>
channel == <<chan, conn, app>>
lock == <<mu, readers>>
disc == <<poll, round>>
life == <<cancelled, closer, late, unmade>>
vars == <<config, udp, set, lock, slots, want, th, disc, life, channel>>

Thread == Caller \cup {Discovery}
NoListener == [path |-> <<>>, st |-> "none", pc |-> "none", conn |-> None]
Listening(p) == [path |-> p, st |-> "open", pc |-> "loop", conn |-> None]

(* One whose accept thread could not be started: its place in the array of *)
(* threads was never written.                                              *)
Unaccepted(p) == [Listening(p) EXCEPT !.pc = "unstarted"]

(* The relay at the end of a path.                                         *)
Exit(p) == p[Len(p)]

(* A set of numbers in ascending order: the sequences there are, just one. *)
Ascending(S) ==
  {s \in [1..Cardinality(S) -> S] : Range(s) = S /\ \A i, j \in DOMAIN s : i < j => s[i] < s[j]}

(* What the first reconciliation wants: no path can be selected yet.       *)
FirstAsked == IF hops # <<>> THEN {Exit(hops)} ELSE IF depth > 1 THEN {} ELSE explicit

(* What portillia_expose leaves, with or without a discovery thread.       *)
Init ==
  /\ cancelled = FALSE
  /\ explicit = Configured /\ seeds = {} /\ hops \in Path /\ depth \in {0, 2}
  /\ udp \in BOOLEAN /\ (udp \/ hops # <<>> => depth = 0) /\ (udp => hops = <<>>)
  /\ banned = {} /\ discovered = {} /\ set_freed = FALSE
  /\ mu = None /\ readers = {}
  /\ want = {}
  /\ unmade \in SUBSET FirstAsked /\ listeners \in Ascending(FirstAsked \ unmade)
  /\ tids = listeners
  /\ \E silent \in SUBSET Range(listeners) :
       lst = [u \in Url |-> IF u \in silent THEN Unaccepted(hops)
                            ELSE IF u \in Range(listeners) THEN Listening(hops) ELSE NoListener]
  /\ \E d \in {"loop", "exited"} :
       /\ hops # <<>> \/ depth > 1 => d = "loop"
       /\ th = [t \in Thread |-> [pc |-> IF t = Discovery THEN d ELSE "idle", todo |-> <<>>]]
  /\ poll = <<>> /\ round = 0
  /\ closer = "open"
  /\ chan = <<>> /\ conn = [c \in Conn |-> "new"]
  /\ app = [a \in Acceptor |-> "idle"]
  /\ late = FALSE

Goto(t, pc) == th' = [th EXCEPT ![t].pc = pc]

Unlocked == mu = None /\ readers = {}
Destroyed == closer = "closed"

-------------------------------------------------------------------------------
(* The calls that change the relays: a test of the cancelled flag, the     *)
(* lists under the lock, the relay set, and a reconciliation.              *)

DropHop(u) ==
  {[k \in DOMAIN kept |-> hops[kept[k]]] : kept \in Ascending({i \in DOMAIN hops : hops[i] # u})}

(* Leave the path without u, or without a path if one relay is left.       *)
RemoveHop(u) ==
  \E left \in DropHop(u) :
    IF u \in Range(hops) /\ Len(left) < 2 THEN hops' = <<>> /\ depth' = 0
    ELSE hops' = left /\ UNCHANGED depth

call(t, c) ==
  /\ th[t].pc = "idle" /\ ~cancelled
  /\ c.op = "set_multi_hop" => ~((c.path # <<>> \/ depth > 1) /\ udp)
  /\ th' = [th EXCEPT ![t] = [pc |-> "locking", todo |-> <<c>>]]
  /\ UNCHANGED <<config, udp, set, lock, slots, want, disc, life, channel>>

add_relay(u) ==
  /\ explicit' = explicit \cup {u} /\ seeds' = seeds \ {u}
  /\ UNCHANGED <<hops, depth>>

remove_relay(u) ==
  /\ explicit' = explicit \ {u} /\ seeds' = seeds \ {u}
  /\ RemoveHop(u)

seed_keep_path(u) ==
  /\ explicit' = explicit \ {u} /\ seeds' = seeds \cup {u}
  /\ UNCHANGED <<hops, depth>>

seed_relay(u) ==
  /\ explicit' = explicit \ {u} /\ seeds' = seeds \cup {u}
  /\ RemoveHop(u)

set_multi_hop(p) ==
  /\ hops' = p /\ depth' = 0 /\ seeds' = seeds \ Range(p)
  /\ UNCHANGED explicit

(* The relay set's bootstrap list is left out: the SDK does not read it.   *)
Allow(u) == [op |-> "allow", url |-> u]
Ban(u) == [op |-> "ban", url |-> u]

SetCalls(ops) == [pc |-> IF ops = <<>> THEN "reconcile" ELSE "set", todo |-> ops]

call_locked(t) ==
  LET c == Head(th[t].todo)
  IN  /\ th[t].pc = "locking" /\ Unlocked /\ ~Destroyed
      /\ \/ c.op = "add_relay" /\ add_relay(c.url)
            /\ th' = [th EXCEPT ![t] = SetCalls(<<Allow(c.url)>>)]
         \/ c.op = "remove_relay" /\ remove_relay(c.url)
            /\ th' = [th EXCEPT ![t] = SetCalls(<<Ban(c.url)>>)]
         \/ c.op = "seed_relay" /\ seed_relay(c.url)
            /\ th' = [th EXCEPT ![t] = SetCalls(<<Allow(c.url)>>)]
         \/ c.op = "set_multi_hop" /\ set_multi_hop(c.path)
            /\ th' = [th EXCEPT ![t] = SetCalls([k \in DOMAIN c.path |-> Allow(c.path[k])])]
      /\ UNCHANGED <<udp, set, lock, slots, want, disc, life, channel>>

(* One call on the relay set; once it is freed, nothing or anything.       *)
call_set(t) ==
  LET o == Head(th[t].todo)
  IN  /\ th[t].pc = "set"
      /\ \/ /\ ~set_freed
            /\ banned' = IF o.op = "ban" THEN banned \cup {o.url} ELSE banned \ {o.url}
            /\ th' = [th EXCEPT ![t] = SetCalls(Tail(@.todo))]
         \/ set_freed /\ th' = [th EXCEPT ![t] = SetCalls(<<>>)] /\ UNCHANGED banned
         \/ set_freed /\ Goto(t, "undefined") /\ UNCHANGED banned
      /\ UNCHANGED <<config, udp, discovered, set_freed, lock, slots, want, disc, life, channel>>

-------------------------------------------------------------------------------
(* reconcile_relay_listeners.                                              *)

DesiredExplicit(urls) == urls = explicit

(* What should be listened to.  The selection of relays for a path is left *)
(* open: some that have a descriptor and are not banned.                   *)
Desired(urls) ==
  IF hops # <<>> THEN urls = {Exit(hops)}
  ELSE IF depth > 1 THEN urls \subseteq discovered \ banned /\ Cardinality(urls) <= depth
  ELSE urls = explicit

Stale == {i \in DOMAIN listeners : listeners[i] \notin want}
Victim == CHOOSE i \in Stale : \A j \in Stale : j <= i

After(t) == IF t = Discovery THEN "sleeping" ELSE "idle"

reconcile_check(t) ==
  /\ th[t].pc = "reconcile"
  /\ Goto(t, IF set_freed THEN After(t) ELSE "waiting")
  /\ UNCHANGED <<config, udp, set, lock, slots, want, disc, life, channel>>

reconcile_lock(t) ==
  /\ th[t].pc = "waiting" /\ Unlocked /\ ~Destroyed
  /\ mu' = t
  /\ want' \in {urls \in SUBSET Url : Desired(urls)}
  /\ Goto(t, "removing")
  /\ UNCHANGED <<config, udp, set, readers, slots, disc, life, channel>>

(* exposure_remove_listener_at, for the stale listeners from the last one: *)
(* portillia_listener_close sets the flag and joins the run thread ...     *)
remove_close(t) ==
  /\ th[t].pc = "removing" /\ Stale # {}
  /\ lst' = [lst EXCEPT ![listeners[Victim]].st = "cancelled"]
  /\ Goto(t, "closing")
  /\ UNCHANGED <<config, udp, set, lock, listeners, tids, want, disc, life, channel>>

(* ... and destroys the stream, on which the accept thread may be waiting. *)
remove_closed(t) ==
  /\ th[t].pc = "closing"
  /\ lst' = [lst EXCEPT ![listeners[Victim]].st = "closed"]
  /\ Goto(t, "joining")
  /\ UNCHANGED <<config, udp, set, lock, listeners, tids, want, disc, life, channel>>

(* An array with the elements after the i-th moved down by one.            *)
Shifted(s, i) == [k \in 1..Len(s) - 1 |-> IF k < i THEN s[k] ELSE s[k + 1]]

ShiftTids(i) == tids' = Shifted(tids, i)

remove_join(t) ==
  /\ th[t].pc = "joining" /\ lst[tids[Victim]].pc \in {"exited", "unstarted"}
  /\ lst' = [lst EXCEPT ![listeners[Victim]] = NoListener]
  /\ listeners' = Shifted(listeners, Victim)
  /\ ShiftTids(Victim)
  /\ Goto(t, "removing")
  /\ UNCHANGED <<config, udp, set, lock, want, disc, life, channel>>

(* The join of an accept thread that was never started.                    *)
join_unstarted(t) ==
  /\ th[t].pc = "joining" /\ lst[tids[Victim]].pc = "unstarted"
  /\ Goto(t, "lost")
  /\ UNCHANGED <<config, udp, set, lock, slots, want, disc, life, channel>>

PathOf(u) == IF hops # <<>> /\ u = Exit(hops) THEN hops ELSE <<>>

Missing == want \ Range(listeners)

(* A listener that cannot be made is passed over until the next time.  If  *)
(* it is its run thread that could not be started, portillia_listener_new  *)
(* joins it nevertheless.                                                  *)
reconcile_add(t) ==
  /\ th[t].pc = "removing" /\ Stale = {}
  /\ \E made \in SUBSET Missing :
       /\ unmade' = Missing \ made
       /\ \E new \in Ascending(made) : listeners' = listeners \o new /\ tids' = tids \o new
       /\ \E silent \in SUBSET made :
            lst' = [u \in Url |-> IF u \in silent THEN Unaccepted(PathOf(u))
                                  ELSE IF u \in made THEN Listening(PathOf(u)) ELSE lst[u]]
  /\ \/ Goto(t, After(t)) /\ mu' = None /\ want' = {}
     \/ unmade' # {} /\ Goto(t, "lost") /\ UNCHANGED <<mu, want>>
  /\ UNCHANGED <<config, udp, set, readers, disc, cancelled, closer, late, channel>>

(* A caller or the discovery thread that comes to a destroyed lock.        *)
touch_destroyed(t) ==
  /\ Destroyed /\ th[t].pc \in {"locking", "reconcile", "waiting"}
  /\ Goto(t, "undefined")
  /\ UNCHANGED <<config, udp, set, lock, slots, want, disc, life, channel>>

-------------------------------------------------------------------------------
(* discovery_loop_thread.                                                  *)

(* Of a pair of numbers.                                                   *)
gcd_val[p \in Nat \X Nat] == IF p[2] = 0 THEN p[1] ELSE gcd_val[<<p[2], p[1] % p[2]>>]

pick_coprime_step(n, r) ==
  IF n <= 1 THEN 1
  ELSE LET first == (r % (n - 1)) + 1
           found == {a \in first..n - 1 : gcd_val[<<a, n>>] = 1}
       IN  IF found = {} THEN 1 ELSE CHOOSE a \in found : \A b \in found : a <= b

SlotsFromFirst(n, r) == [k \in 1..n |-> ((pick_coprime_step(n, r) * (k - 1)) % n) + 1]

(* The slots in the order they are polled in round r.                      *)
Slots(n, r) == [k \in 1..n |-> ((pick_coprime_step(n, r) * (k - 1) + (r % n)) % n) + 1]

Lighter(u, v) == Load[u] < Load[v] \/ (Load[u] = Load[v] /\ u < v)

LightestFirst(S) ==
  {s \in [1..Cardinality(S) -> S] : Range(s) = S /\ \A i, j \in DOMAIN s : i < j => Lighter(s[i], s[j])}

Permuted(urls) == {[k \in DOMAIN s |-> s[Slots(Len(s), round)[k]]] : s \in LightestFirst(urls)}

discovery_copy ==
  /\ th[Discovery].pc = "loop"
  /\ \/ cancelled /\ Goto(Discovery, "exited") /\ UNCHANGED poll
     \/ /\ ~cancelled /\ mu = None
        /\ \E order \in Permuted(explicit \cup seeds) :
             poll' = SubSeq(order, 1, IF Len(order) < MAX_ROUTING THEN Len(order) ELSE MAX_ROUTING)
        /\ Goto(Discovery, "polling")
  /\ UNCHANGED <<config, udp, set, lock, slots, want, round, life, channel>>

(* An answer, or none; afterwards the loop tests the flag.                 *)
discovery_poll ==
  /\ th[Discovery].pc = "polling"
  /\ \/ (poll = <<>> \/ cancelled) /\ poll' = <<>> /\ Goto(Discovery, "reconcile")
     \/ poll # <<>> /\ ~cancelled /\ poll' = Tail(poll) /\ Goto(Discovery, "applying")
     \/ poll # <<>> /\ ~cancelled /\ poll' = Tail(poll) /\ UNCHANGED th
  /\ UNCHANGED <<config, udp, set, lock, slots, want, round, life, channel>>

(* Descriptors are followed as long as paths are selected from them.       *)
discovery_apply ==
  /\ th[Discovery].pc = "applying"
  /\ \/ /\ ~set_freed
        /\ \E u \in Url : discovered' = IF depth > 1 THEN discovered \cup {u} ELSE {}
        /\ Goto(Discovery, "polling")
     \/ set_freed /\ Goto(Discovery, "polling") /\ UNCHANGED discovered
     \/ set_freed /\ Goto(Discovery, "undefined") /\ UNCHANGED discovered
  /\ UNCHANGED <<config, udp, banned, set_freed, lock, slots, want, disc, life, channel>>

discovery_sleep ==
  /\ th[Discovery].pc = "sleeping"
  /\ Goto(Discovery, "loop")
  /\ round' = (round + 1) % RoundCycle
  /\ UNCHANGED <<config, udp, set, lock, slots, want, poll, life, channel>>

-------------------------------------------------------------------------------
(* The channel: listener_accept_thread fills it, accept empties it.        *)

accept_loop(u) ==
  /\ lst[u].pc = "loop"
  /\ lst' = [lst EXCEPT ![u].pc = IF cancelled \/ lst[u].st # "open" THEN "exited" ELSE "accepting"]
  /\ UNCHANGED <<config, udp, set, lock, listeners, tids, want, th, disc, life, channel>>

accept_conn(u, c) ==
  /\ lst[u].pc = "accepting" /\ lst[u].st = "open" /\ conn[c] = "new"
  /\ lst' = [lst EXCEPT ![u].pc = "pushing", ![u].conn = c]
  /\ conn' = [conn EXCEPT ![c] = "held"]
  /\ UNCHANGED <<config, udp, set, lock, listeners, tids, want, th, disc, life, chan, app>>

(* portillia_listener_accept returns NULL once the stream is destroyed.    *)
accept_null(u) ==
  /\ lst[u].pc = "accepting" /\ lst[u].st = "closed"
  /\ lst' = [lst EXCEPT ![u].pc = "exited"]
  /\ UNCHANGED <<config, udp, set, lock, listeners, tids, want, th, disc, life, channel>>

Waiting == {a \in Acceptor : app[a] = "waiting"}

Signal ==
  IF Waiting = {} THEN UNCHANGED app
  ELSE \E a \in Waiting : app' = [app EXCEPT ![a] = "woken"]

ChannelClosed == closer \in {"draining", "closed"}

Full == Len(chan) >= CAP

channel_push(u) ==
  /\ lst[u].pc = "pushing"
  /\ lst' = [lst EXCEPT ![u].pc = "loop", ![u].conn = None]
  /\ IF ChannelClosed \/ Full
     THEN conn' = [conn EXCEPT ![lst[u].conn] = "closed"] /\ UNCHANGED <<chan, app>>
     ELSE /\ chan' = Append(chan, lst[u].conn)
          /\ conn' = [conn EXCEPT ![lst[u].conn] = "queued"]
          /\ Signal
  /\ UNCHANGED <<config, udp, set, lock, listeners, tids, want, th, disc, life>>

channel_pop(a) ==
  /\ IF ChannelClosed THEN app' = [app EXCEPT ![a] = "done"] /\ UNCHANGED <<chan, conn>>
     ELSE IF chan = <<>> THEN app' = [app EXCEPT ![a] = "waiting"] /\ UNCHANGED <<chan, conn>>
     ELSE /\ app' = [app EXCEPT ![a] = "idle"]
          /\ conn' = [conn EXCEPT ![Head(chan)] = "delivered"]
          /\ chan' = Tail(chan)
  /\ UNCHANGED <<config, udp, set, lock, slots, want, th, disc, life>>

exposure_accept(a) == app[a] = "idle" /\ ~cancelled /\ channel_pop(a)

pop_woken(a) == app[a] = "woken" /\ ~Destroyed /\ channel_pop(a)

(* channel_free destroys the mutex a woken acceptor has yet to take.       *)
touch_freed(a) ==
  /\ app[a] = "woken" /\ Destroyed
  /\ app' = [app EXCEPT ![a] = "undefined"]
  /\ UNCHANGED <<config, udp, set, lock, slots, want, th, disc, life, chan, conn>>

(* portillia_exposure_accept_datagram waits for a datagram with the lock   *)
(* held for reading; nothing but a datagram ends the wait.                 *)
accept_datagram(a) ==
  /\ udp /\ app[a] = "idle" /\ mu = None /\ ~Destroyed /\ listeners # <<>>
  /\ readers' = readers \cup {a}
  /\ app' = [app EXCEPT ![a] = "reading"]
  /\ UNCHANGED <<config, udp, set, mu, slots, want, th, disc, life, chan, conn>>

datagram_arrives(a) ==
  /\ app[a] = "reading"
  /\ readers' = readers \ {a}
  /\ app' = [app EXCEPT ![a] = "idle"]
  /\ UNCHANGED <<config, udp, set, mu, slots, want, th, disc, life, chan, conn>>

-------------------------------------------------------------------------------
(* portillia_exposure_close and do_close.                                  *)

close_cancel ==
  /\ closer = "open" /\ ~cancelled
  /\ cancelled' = TRUE /\ closer' = "locking"
  /\ UNCHANGED <<config, udp, set, lock, slots, want, th, disc, channel, late, unmade>>

close_lock ==
  /\ closer = "locking" /\ Unlocked
  /\ mu' = Closer /\ closer' = "closing"
  /\ UNCHANGED <<config, udp, set, readers, slots, want, th, disc, channel, cancelled, late, unmade>>

(* The listeners one by one ...                                            *)
Open == {i \in DOMAIN listeners : lst[listeners[i]].st # "closed"}
NextOpen == CHOOSE i \in Open : \A j \in Open : i <= j

close_listener ==
  /\ closer = "closing" /\ Open # {} /\ lst[listeners[NextOpen]].st = "open"
  /\ lst' = [lst EXCEPT ![listeners[NextOpen]].st = "cancelled"]
  /\ UNCHANGED <<config, udp, set, lock, listeners, tids, want, th, disc, life, channel>>

close_listener_returns ==
  /\ closer = "closing" /\ Open # {} /\ lst[listeners[NextOpen]].st = "cancelled"
  /\ lst' = [lst EXCEPT ![listeners[NextOpen]].st = "closed"]
  /\ UNCHANGED <<config, udp, set, lock, listeners, tids, want, th, disc, life, channel>>

JoinAll == \A i \in DOMAIN tids : lst[tids[i]].pc \in {"exited", "unstarted"}

(* ... then the joins, and the relay set.                                  *)
close_unlock ==
  /\ closer = "closing" /\ Open = {} /\ JoinAll
  /\ listeners' = <<>> /\ tids' = <<>>
  /\ lst' = [u \in Url |-> IF u \in Range(listeners) THEN NoListener ELSE lst[u]]
  /\ set_freed' = TRUE
  /\ mu' = None /\ closer' = "joining"
  /\ late' = \E t \in Thread : th[t].pc = "waiting"
  /\ UNCHANGED <<config, udp, banned, discovered, readers, want, th, disc, channel, cancelled, unmade>>

close_unstarted ==
  /\ closer = "closing" /\ Open = {} /\ \E i \in DOMAIN tids : lst[tids[i]].pc = "unstarted"
  /\ closer' = "lost"
  /\ UNCHANGED <<config, udp, set, lock, slots, want, th, disc, channel, cancelled, late, unmade>>

WakeOne == IF Waiting = {} THEN UNCHANGED app ELSE app' = [app EXCEPT ![CHOOSE a \in Waiting : TRUE] = "woken"]
Broadcast == app' = [a \in Acceptor |-> IF a \in Waiting THEN "woken" ELSE app[a]]

(* The discovery thread is joined and the channel closed ...               *)
channel_close ==
  /\ closer = "joining" /\ th[Discovery].pc = "exited"
  /\ closer' = "draining"
  /\ Broadcast
  /\ UNCHANGED <<config, udp, set, lock, slots, want, th, disc, cancelled, late, unmade, chan, conn>>

(* ... emptied and destroyed, and the locks destroyed.                     *)
ForgetQueued == UNCHANGED conn
CloseQueued == conn' = [c \in Conn |-> IF c \in Range(chan) THEN "closed" ELSE conn[c]]

channel_free ==
  /\ closer = "draining"
  /\ closer' = "closed"
  /\ chan' = <<>> /\ CloseQueued
  /\ UNCHANGED <<config, udp, set, lock, slots, want, th, disc, cancelled, late, unmade, app>>

-------------------------------------------------------------------------------
CallSet ==
  [op : {"add_relay", "remove_relay", "seed_relay"}, url : Url] \cup [op : {"set_multi_hop"}, path : Path]

Call == \E t \in Caller, c \in CallSet : call(t, c)

ThreadStep(t) ==
  \/ call_locked(t) \/ call_set(t)
  \/ reconcile_check(t) \/ reconcile_lock(t) \/ remove_close(t) \/ remove_join(t) \/ reconcile_add(t)
  \/ touch_destroyed(t) \/ join_unstarted(t)

DiscoveryStep == discovery_copy \/ discovery_poll \/ discovery_apply \/ discovery_sleep

AcceptThreadStep(u) == accept_loop(u) \/ accept_null(u) \/ channel_push(u)

CloseStep ==
  \/ close_lock \/ close_listener \/ close_unlock \/ close_unstarted
  \/ channel_close \/ channel_free

ListenerReturns == close_listener_returns \/ \E t \in Thread : remove_closed(t)

Traffic ==
  \/ \E u \in Url, c \in Conn : accept_conn(u, c)
  \/ \E a \in Acceptor : exposure_accept(a) \/ accept_datagram(a)

Inner ==
  \/ \E t \in Thread : ThreadStep(t)
  \/ DiscoveryStep
  \/ \E u \in Url : AcceptThreadStep(u)
  \/ \E a \in Acceptor : pop_woken(a) \/ touch_freed(a) \/ datagram_arrives(a)
  \/ CloseStep \/ ListenerReturns

Next == Call \/ Traffic \/ close_cancel \/ Inner

Spec == Init /\ [][Next]_vars

(* Threads run.  Nothing is assumed of portillia_listener_close returning, *)
(* of datagrams, or of what applications do.                               *)
Fairness ==
  /\ \A t \in Thread : WF_vars(ThreadStep(t))
  /\ WF_vars(DiscoveryStep) /\ WF_vars(CloseStep)
  /\ \A u \in Url : WF_vars(AcceptThreadStep(u))
  /\ \A a \in Acceptor : WF_vars(pop_woken(a) \/ touch_freed(a))

-------------------------------------------------------------------------------
(* portillia_exposure_active_relay_urls.                                   *)
active_relay_urls == listeners

TypeOK ==
  /\ cancelled \in BOOLEAN /\ set_freed \in BOOLEAN /\ late \in BOOLEAN /\ udp \in BOOLEAN
  /\ explicit \subseteq Url /\ seeds \subseteq Url /\ hops \in Seq(Url) /\ depth \in {0, 2}
  /\ banned \subseteq Url /\ discovered \subseteq Url /\ want \subseteq Url /\ unmade \subseteq Url
  /\ mu \in Thread \cup {None, Closer} /\ readers \subseteq Acceptor
  /\ listeners \in Seq(Url) /\ tids \in Seq(Url)
  /\ \A u \in Url : lst[u].st \in {"none", "open", "cancelled", "closed"}
                    /\ lst[u].pc \in {"none", "loop", "accepting", "pushing", "exited", "unstarted"}
  /\ poll \in Seq(Url) /\ Len(poll) <= MAX_ROUTING /\ round \in 0..RoundCycle - 1
  /\ closer \in {"open", "locking", "closing", "lost", "joining", "draining", "closed"}
  /\ chan \in Seq(Conn) /\ Len(chan) <= CAP
  /\ \A c \in Conn : conn[c] \in {"new", "held", "queued", "delivered", "closed"}
  /\ \A a \in Acceptor : app[a] \in {"idle", "waiting", "woken", "reading", "done", "undefined"}

(* There is one listener for a URL, the array of accept threads is         *)
(* parallel to that of the listeners whenever the lock is free, and every  *)
(* listener that runs is in the array, so that somebody will close it.     *)
ArraysParallel ==
  /\ IsInjective(listeners)
  /\ mu = None => tids = listeners
  /\ \A u \in Url : lst[u].st # "none" => u \in Range(listeners)

(* A relay is explicit or a seed, a seed is on no path, and a path has at  *)
(* least two relays.                                                       *)
ListsDisjoint == explicit \cap seeds = {} /\ seeds \cap Range(hops) = {} /\ Len(hops) # 1

(* Calls and the discovery thread reconcile concurrently; whenever none of *)
(* them has a reconciliation ahead, the listeners are those the lists ask  *)
(* for, but for those the last reconciliation could not make.              *)
Converged ==
  /\ mu = None /\ ~cancelled
  /\ \A t \in Thread : th[t].pc \notin {"set", "reconcile", "waiting"}
  /\ hops # <<>> \/ depth <= 1
  => Range(active_relay_urls) = (IF hops # <<>> THEN {Exit(hops)} ELSE explicit) \ unmade

(* "Close the exposure and all its relay listeners": unless a              *)
(* reconciliation was already waiting for the lock, no listener is left,   *)
(* and no connection is left in the channel.                               *)
CloseClosesAll ==
  closer = "closed" =>
    /\ chan = <<>> /\ \A c \in Conn : conn[c] # "queued"
    /\ ~late => \A u \in Url : lst[u].st = "none"
    /\ ~late => \A c \in Conn : conn[c] # "held"

(* A connection in the channel is not left there while all acceptors       *)
(* sleep: one signal for each push is enough.                              *)
NoLostWakeup == chan # <<>> /\ Waiting # {} => \E a \in Acceptor : app[a] = "woken"

(* No relay is polled twice in a round.  The step picked for a round is    *)
(* coprime to the number of relays, so that the affine permutation takes   *)
(* each of them once.                                                      *)
PollsEachOnce ==
  th[Discovery].pc = "polling" => IsInjective(poll) /\ \A n \in 1..6 : {Slots(n, round)[k] : k \in 1..n} = 1..n

(* The safety of the exposure's shared state, whoever changes it: the      *)
(* parallel arrays, the lists of relays, the channel's wakeups, and the    *)
(* order of a round's polls.                                               *)
ExposureInv == TypeOK /\ ArraysParallel /\ ListsDisjoint /\ NoLostWakeup /\ PollsEachOnce

(* Every wait in portillia_listener_close ends, as does every wait for a   *)
(* datagram.                                                               *)
WaitsEnd == []<>(\A u \in Url : lst[u].st # "cancelled") /\ []<>(readers = {})

(* However few relays max_routing allows in a round, each relay that stays *)
(* listed is polled again and again, by the offset that moves with the     *)
(* rounds.                                                                 *)
EveryRelayPolled ==
  \A u \in Url :
    WaitsEnd /\ <>[](/\ th[Discovery].pc \notin {"exited", "lost"} /\ ~cancelled /\ u \in explicit \cup seeds
                     /\ \A t \in Caller : th[t].pc = "idle")
      => []<>(poll # <<>> /\ Head(poll) = u)

(* Closing releases whoever is blocked in accept, if listeners close, the  *)
(* discovery thread did not use the freed relay set and nobody was lost in *)
(* the join of a thread that was never started.                            *)
Lost == closer = "lost" \/ \E t \in Thread : th[t].pc = "lost"
CloseReleases ==
  WaitsEnd => [](cancelled => <>(Waiting = {} \/ th[Discovery].pc = "undefined" \/ Lost))
===============================================================================
