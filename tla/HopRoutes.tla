------------------------------- MODULE HopRoutes -------------------------------
(***************************************************************************)
(* Registration along a path of relays: portillia_api_register_lease,      *)
(* _renew_lease, _unregister_lease and _sync_hop_routes of                 *)
(* src/sdk/api_client.c, as register_and_configure and renew_thread of     *)
(* src/sdk/listener.c call them, with what handle_hop, handle_register and *)
(* handle_renew do in the registry of each relay on the path.              *)
(*                                                                         *)
(* One tunnel process runs at a time; it may crash and be started again    *)
(* with another path.  While the network is "bad" a request may get lost,  *)
(* its answer may get lost, it may reach the relay after the client has    *)
(* given up, a relay may restart, have no room, or be unknown to the relay *)
(* set; while it is "good" every request is answered.  Lifetimes are all   *)
(* 300 seconds and renewals come 295 seconds apart: a record is "new"      *)
(* until the next renewal is due, and may expire from then on.             *)
(***************************************************************************)
EXTENDS Naturals, Sequences, FiniteSets

CONSTANTS
  Relay,         \* relays, by API address
  Listener,      \* [url: the relay that gets the lease, hops: multi_hop]
  Slow,          \* relays that may handle a request after the client gave up
  None

ASSUME ListenerAssumption ==
  /\ Slow \subseteq Relay
  /\ \A l \in Listener : /\ l.url \in Relay /\ l.hops \in Seq(Relay)
                         /\ l.hops # <<>> => l.hops[Len(l.hops)] = l.url

VARIABLES
  net,           \* "good" or "bad"
  lsn,           \* the listener of the process
  pc,            \* where the process is
  call,          \* "register" or "renew": who called sync_hop_routes
  at,            \* the route sync_hop_routes posts next
  token,         \* the listener's access token: "none", "valid", "expired"
  lease,         \* per relay, the record with the host name
  table,         \* per relay, the hop records
  late,          \* posts that are still under way to their relay
  acked          \* history: what relays have answered with success

vars == <<net, lsn, pc, call, at, token, lease, table, late, acked>>
relays == <<lease, table, late, acked>>

-------------------------------------------------------------------------------
(* The routes of a path.                                                   *)

(* HMACs are represented by what goes into them.  The public host name is  *)
(* the identity's label at the entry relay.                                *)
TokenWithoutIndex(p, i) == [host |-> p[1], index |-> 0, from |-> p[i], to |-> p[i + 1]]
derive_hop_token(p, i) == [host |-> p[1], index |-> i, from |-> p[i], to |-> p[i + 1]]

public_hostname(p) == [host |-> p[1], index |-> 0, from |-> None, to |-> None]

(* The entry route matches the public host name, the others the token that *)
(* the route before them forwards.                                         *)
hop_routes(p) ==
  [i \in 1..Len(p) - 1 |->
     [relay |-> p[i],
      key   |-> IF i = 1 THEN public_hostname(p) ELSE derive_hop_token(p, i - 1),
      next  |-> p[i + 1],
      token |-> derive_hop_token(p, i)]]

Routes == hop_routes(lsn.hops)
AllRoutes == UNION {{hop_routes(l.hops)[i] : i \in 1..Len(l.hops) - 1} : l \in Listener}

Init ==
  /\ net \in {"good", "bad"}
  /\ lsn \in Listener /\ pc = "stopped" /\ call = "register" /\ at = 0 /\ token = "none"
  /\ lease = [r \in Relay |-> "none"] /\ table = [r \in Relay |-> {}]
  /\ late = {} /\ acked = {}

-------------------------------------------------------------------------------
(* http_json.  A relay whose registry is full answers all the same.        *)

Outcome == IF net = "good" THEN {"ok"} ELSE {"ok", "no room", "answer lost", "lost"}
Applied(o) == o \in {"ok", "answer lost"}
Answered(o) == o \in {"ok", "no room"}

(* Descriptors of the path's relays are there, fresh, and not banned.      *)
Known == IF net = "good" THEN {TRUE} ELSE BOOLEAN

Goto(where) == pc' = where /\ UNCHANGED <<net, lsn, call, at, token>>
Succeed == pc' = "registered" /\ token' = "valid" /\ at' = 0 /\ UNCHANGED <<net, lsn, call>>

(* A registration that fails here is undone by unregister_lease, which     *)
(* leaves the relays as they are: they have no handler for DELETE /sdk/hop,*)
(* and handle_unregister removes nothing.                                  *)
Fail == /\ pc' = IF call = "register" THEN "failed" ELSE "retry"
        /\ at' = 0
        /\ UNCHANGED <<net, lsn, call, token>>

Record(route) == [key |-> route.key, next |-> route.next, token |-> route.token, age |-> "new"]
WithKey(r, k) == {rec \in table[r] : rec.key = k}

(* portillia_registry_register_hop: a record that has the key is refreshed *)
(* and keeps its next hop.                                                 *)
register_hop(route) ==
  LET old == WithKey(route.relay, route.key)
  IN  [table EXCEPT ![route.relay] =
         (@ \ old) \cup IF old = {} THEN {Record(route)}
                        ELSE {[rec EXCEPT !.age = "new"] : rec \in old}]

-------------------------------------------------------------------------------
(* register_and_configure and portillia_api_register_lease.                *)

start(l) ==
  /\ pc = "stopped"
  /\ lsn' = l /\ pc' = "prepare" /\ call' = "register"
  /\ UNCHANGED <<net, at, token, relays>>

(* Three things that leave the registries alone: the version check, the    *)
(* path, and a signed challenge.  A path of one relay is an error; no path *)
(* is a direct lease.                                                      *)
check_domain == \E o \in Outcome : Answered(o)
build_hop_routes == lsn.hops = <<>> \/ (Len(lsn.hops) >= 2 /\ TRUE \in Known)
sign_challenge == \E o \in Outcome : Answered(o)

prepare ==
  /\ pc = "prepare"
  /\ \/ check_domain /\ build_hop_routes /\ sign_challenge /\ Goto("register")
     \/ (net = "bad" \/ ~build_hop_routes) /\ Goto("failed")
  /\ UNCHANGED relays

Accepted(o) ==
  /\ lease' = IF Applied(o) THEN [lease EXCEPT ![lsn.url] = "new"] ELSE lease
  /\ acked' = IF Answered(o) THEN acked \cup {<<lsn.url, None>>} ELSE acked
  /\ UNCHANGED <<table, late>>

(* The calls that follow an answer: sync_hop_routes begins by looking the  *)
(* descriptors up once more, and starts at the exit.                       *)
sync_order ==
  \/ TRUE \in Known /\ pc' = "sync" /\ at' = Len(Routes) /\ UNCHANGED <<net, lsn, call, token>>
  \/ FALSE \in Known /\ Fail
SyncRoutes == IF Routes = <<>> THEN Succeed ELSE sync_order

register_lease ==
  /\ pc = "register"
  /\ \E o \in Outcome : /\ Accepted(o)
                        /\ IF Answered(o) THEN SyncRoutes ELSE Goto("failed")

register_retry ==
  /\ pc = "failed"
  /\ Goto("prepare")
  /\ UNCHANGED relays

-------------------------------------------------------------------------------
(* portillia_api_sync_hop_routes, POST.                                    *)

EntryFirst == Routes[Len(Routes) + 1 - at]
Posted == Routes[at]

StopShort == IF at <= 2 THEN Succeed ELSE at' = at - 1 /\ UNCHANGED <<net, lsn, pc, call, token>>
NextRoute == IF at = 1 THEN Succeed ELSE at' = at - 1 /\ UNCHANGED <<net, lsn, pc, call, token>>

sync_post ==
  /\ pc = "sync"
  /\ \E o \in Outcome \cup IF net = "bad" /\ Posted.relay \in Slow THEN {"delayed"} ELSE {} :
       /\ table' = IF Applied(o) THEN register_hop(Posted) ELSE table
       /\ late' = IF o = "delayed" THEN {Posted} ELSE late
       /\ acked' = IF Answered(o) THEN acked \cup {<<Posted.relay, Posted.key>>} ELSE acked
       /\ IF Answered(o) THEN NextRoute ELSE Fail
  /\ UNCHANGED lease

-------------------------------------------------------------------------------
(* renew_thread and portillia_api_renew_lease.                             *)

Due(a) == IF a = "none" THEN a ELSE "due"
LifetimesEnd ==
  /\ lease' = [r \in Relay |-> Due(lease[r])]
  /\ table' = [r \in Relay |-> {[rec EXCEPT !.age = "due"] : rec \in table[r]}]

renew_due ==
  /\ pc = "registered"
  /\ pc' = "renew" /\ call' = "renew"
  /\ LifetimesEnd
  /\ UNCHANGED <<net, lsn, at, token, late, acked>>

renew_lease ==
  /\ pc = "renew"
  /\ \/ token = "expired" /\ Goto("retry") /\ UNCHANGED relays
     \/ /\ token = "valid"
        /\ \E o \in Outcome : /\ Accepted(o)
                              /\ IF Answered(o) THEN SyncRoutes ELSE Goto("retry")

renew_retry ==
  /\ pc = "retry"
  /\ Goto("renew")
  /\ UNCHANGED relays

(* The token that came with a renewal is kept only when the routes were    *)
(* renewed too; until then retries use the old one.                        *)
token_expires ==
  /\ call = "renew" /\ pc \notin {"registered", "stopped"} /\ token = "valid"
  /\ token' = "expired"
  /\ UNCHANGED <<net, lsn, pc, call, at, relays>>

-------------------------------------------------------------------------------
(* Time, the janitor of each relay, and what may go wrong.                 *)

time_passes ==
  /\ pc \in {"stopped", "failed", "retry"}
  /\ LifetimesEnd
  /\ UNCHANGED <<net, lsn, pc, call, at, token, late, acked>>

NoHops(r) == {}
ExpiredHops(r) == {rec \in table[r] : rec.age = "due"}

(* A pass collects what has expired by then: one of the due records, the   *)
(* lease, or all of them.                                                  *)
janitor_one(r) ==
  /\ \/ \E rec \in ExpiredHops(r) : table' = [table EXCEPT ![r] = @ \ {rec}] /\ UNCHANGED lease
     \/ lease[r] = "due" /\ lease' = [lease EXCEPT ![r] = "none"] /\ UNCHANGED table
  /\ UNCHANGED <<net, lsn, pc, call, at, token, late, acked>>

janitor_all(r) ==
  /\ ExpiredHops(r) # {} \/ lease[r] = "due"
  /\ table' = [table EXCEPT ![r] = @ \ ExpiredHops(r)]
  /\ lease' = [lease EXCEPT ![r] = IF @ = "due" THEN "none" ELSE @]
  /\ UNCHANGED <<net, lsn, pc, call, at, token, late, acked>>

deliver(route) ==
  /\ late' = late \ {route}
  /\ table' = register_hop(route)
  /\ UNCHANGED <<net, lsn, pc, call, at, token, lease, acked>>

relay_restart(r) ==
  /\ net = "bad"
  /\ table' = [table EXCEPT ![r] = {}] /\ lease' = [lease EXCEPT ![r] = "none"]
  /\ UNCHANGED <<net, lsn, pc, call, at, token, late, acked>>

crash ==
  /\ pc # "stopped"
  /\ pc' = "stopped" /\ token' = "none" /\ at' = 0 /\ call' = "register"
  /\ UNCHANGED <<net, lsn, relays>>

net_changes ==
  /\ net' = IF net = "good" THEN "bad" ELSE "good"
  /\ UNCHANGED <<lsn, pc, call, at, token, relays>>

Step == prepare \/ register_lease \/ register_retry \/ sync_post
        \/ renew_due \/ renew_lease \/ renew_retry

Next ==
  \/ Step \/ token_expires \/ time_passes \/ crash \/ net_changes
  \/ \E l \in Listener : start(l)
  \/ \E r \in Relay : janitor_one(r) \/ janitor_all(r) \/ relay_restart(r)
  \/ \E route \in late : deliver(route)

(* Calls end by their timeouts, sleeps end, retrying takes time (between   *)
(* two attempts), janitors run and what is under way arrives.              *)
Fairness ==
  /\ WF_vars(Step) /\ SF_vars(time_passes)
  /\ \A r \in Relay : WF_vars(janitor_all(r))
  /\ WF_vars(\E route \in late : deliver(route))

Spec == Init /\ [][Next]_vars
FairSpec == Spec /\ Fairness

-------------------------------------------------------------------------------
AllRecords == {[Record(route) EXCEPT !.age = a] : route \in AllRoutes, a \in {"new", "due"}}

TypeOK ==
  /\ net \in {"good", "bad"} /\ lsn \in Listener
  /\ pc \in {"stopped", "prepare", "register", "sync", "failed", "registered", "renew", "retry"}
  /\ call \in {"register", "renew"} /\ at \in 0..Len(Routes)
  /\ token \in {"none", "valid", "expired"}
  /\ lease \in [Relay -> {"none", "new", "due"}]
  /\ table \in [Relay -> SUBSET AllRecords]
  /\ late \subseteq AllRoutes
  /\ acked \subseteq Relay \X ({None} \cup {route.key : route \in AllRoutes})

(* Whatever was retried, lost or delayed, a relay has one record for a     *)
(* key, so what lookup_hop finds does not depend on the order of records.  *)
OneRoutePerKey == \A r \in Relay : \A a, b \in table[r] : a.key = b.key => a = b

LastToken(t) == \E l \in Listener : Len(l.hops) > 1 /\ t = derive_hop_token(l.hops, Len(l.hops) - 1)

(* sync_hop_routes opens a path from its far end: no relay has a route     *)
(* into a relay that has not answered for the next one, and none into an   *)
(* exit relay that has not answered for the lease.                         *)
OpenedFromExit ==
  \A r \in Relay : \A rec \in table[r] :
    \/ <<rec.next, rec.token>> \in acked
    \/ LastToken(rec.token) /\ <<rec.next, None>> \in acked

(* The routes in the registries are unambiguous and lead somewhere,        *)
(* whatever was lost, repeated or delayed.                                 *)
RoutesInv == TypeOK /\ OneRoutePerKey /\ OpenedFromExit

(* portillia_server_handle_hop_stream: where a stream with a token goes.   *)
Forwards(s) == {<<rec.next, rec.token>> : rec \in WithKey(s[1], s[2])}

(* The streams that relays send on.                                        *)
Streams == {<<rec.next, rec.token>> : rec \in UNION {table[r] : r \in Relay}}

(* A stream is never forwarded in a circle, whatever paths the routes in   *)
(* the registries were left by, and even on a path that visits a relay     *)
(* twice: of any streams, one is not what a relay makes of another one.    *)
NoForwardingLoop ==
  \A C \in SUBSET Streams : C # {} => \E s \in C : \A t \in C : s \notin Forwards(t)

(* The process keeps its listener up, its relays answer, and its token     *)
(* does not run out.                                                       *)
KeptUp == net = "good" /\ pc # "stopped" /\ token # "expired"

(* The relay of a route has it; it has the route's key, but with the next  *)
(* hop of another path.                                                    *)
Path == {Routes[i] : i \in DOMAIN Routes}
Leads(rec, route) == rec.key = route.key /\ rec.next = route.next /\ rec.token = route.token
Has(route) == \E rec \in table[route.relay] : Leads(rec, route)
Taken(route) == \E rec \in WithKey(route.relay, route.key) : ~Leads(rec, route)

(* Renewal repairs: when relays that restarted or lost a route are good    *)
(* again, each route of the path is back with its own next hop, and all of *)
(* them at the same time, again and again.  The one exception is what      *)
(* portillia_registry_register_hop makes of a record that an earlier path  *)
(* left with the same key: the renewals of the later path refresh it, and  *)
(* the relay forwards along the earlier path for ever.                     *)
RoutesRepaired ==
  <>[]KeptUp => /\ []<>(\A route \in Path : Has(route) \/ Taken(route))
                /\ []<>(\A route \in Path : Has(route)) \/ <>[](\E route \in Path : Taken(route))

(* Unregistering removes nothing at the relays, but what a registration    *)
(* has left behind goes: everything once the process has stopped and,      *)
(* while another path is kept up, every record that is not one of its      *)
(* routes.  Again the exception is a record with the key of a route of the *)
(* later path, and then all that do not have such a key still go.          *)
LeftoversGo ==
  /\ <>[](pc = "stopped") => <>[](\A r \in Relay : table[r] = {} /\ lease[r] = "none")
  /\ <>[]KeptUp =>
       /\ <>[](\A r \in Relay : \A rec \in table[r] :
                 \E route \in Path : route.relay = r /\ route.key = rec.key)
       /\ \/ <>[](\A r \in Relay : \A rec \in table[r] :
                    \E route \in Path : route.relay = r /\ Leads(rec, route))
          \/ <>[](\E route \in Path : Taken(route))
===============================================================================
