---------------------------- MODULE HopRoutesProofs ----------------------------
(***************************************************************************)
(* What holds of the registries of all relays, for any relays and paths:   *)
(* one route for a key, and no route into a relay that is not ready for    *)
(* it.                                                                     *)
(***************************************************************************)
EXTENDS HopRoutes, WellFoundedInduction, TLAPS

(* A stream that is sent on to relay n with token t has somewhere to go.   *)
Opened(n, t) == <<n, t>> \in acked \/ (LastToken(t) /\ <<n, None>> \in acked)

Tables == [Relay -> SUBSET AllRecords]

(* Outside sync_hop_routes no route is being posted.                       *)
AtRest == pc # "sync" => at = 0

(* sync_hop_routes posts a route when what it leads to has answered ...    *)
SyncReady ==
  pc = "sync" => at \in 1..Len(Routes) /\ Opened(Routes[at].next, Routes[at].token)

(* ... so that holds of a post which arrives late, too.                    *)
LateReady == \A route \in late : Opened(route.next, route.token)

IInv == TypeOK /\ AtRest /\ SyncReady /\ LateReady /\ OneRoutePerKey /\ OpenedFromExit

-------------------------------------------------------------------------------
(* The routes of a path (build_hop_routes): each leads to the relay of the *)
(* next one, with that one's key; the last one leads to the exit.          *)
LEMMA RouteFacts ==
  ASSUME NEW l \in Listener, NEW i \in 1..Len(l.hops) - 1
  PROVE  /\ hop_routes(l.hops)[i] \in AllRoutes
         /\ Len(hop_routes(l.hops)) = Len(l.hops) - 1
         /\ i < Len(l.hops) - 1 =>
              /\ hop_routes(l.hops)[i].next = hop_routes(l.hops)[i + 1].relay
              /\ hop_routes(l.hops)[i].token = hop_routes(l.hops)[i + 1].key
         /\ i = Len(l.hops) - 1 =>
              /\ hop_routes(l.hops)[i].next = l.url
              /\ LastToken(hop_routes(l.hops)[i].token)
<1>1. l.hops \in Seq(Relay) /\ Len(l.hops) \in Nat /\ Len(l.hops) > 1
  BY ListenerAssumption
<1>2. l.hops[Len(l.hops)] = l.url
  BY <1>1, ListenerAssumption
<1>3. Len(hop_routes(l.hops)) = Len(l.hops) - 1
  BY <1>1 DEF hop_routes
<1>4. hop_routes(l.hops)[i] \in AllRoutes
  BY DEF AllRoutes
<1>5. ASSUME i < Len(l.hops) - 1
      PROVE  /\ hop_routes(l.hops)[i].next = hop_routes(l.hops)[i + 1].relay
             /\ hop_routes(l.hops)[i].token = hop_routes(l.hops)[i + 1].key
  <2>1. i + 1 \in 1..Len(l.hops) - 1 /\ i + 1 # 1 /\ (i + 1) - 1 = i
    BY <1>1, <1>5
  <2>2. QED
    BY <2>1 DEF hop_routes
<1>6. ASSUME i = Len(l.hops) - 1
      PROVE  /\ hop_routes(l.hops)[i].next = l.url
             /\ LastToken(hop_routes(l.hops)[i].token)
  <2>1. i + 1 = Len(l.hops)
    BY <1>1, <1>6
  <2>2. hop_routes(l.hops)[i].next = l.url
    BY <2>1, <1>2 DEF hop_routes
  <2>3. hop_routes(l.hops)[i].token = derive_hop_token(l.hops, Len(l.hops) - 1)
    BY <1>6 DEF hop_routes
  <2>4. QED
    BY <1>1, <2>2, <2>3 DEF LastToken
<1>7. QED
  BY <1>3, <1>4, <1>5, <1>6

(* A route is posted to a relay.                                           *)
LEMMA RouteRelay ==
  ASSUME NEW route \in AllRoutes
  PROVE  route.relay \in Relay
<1>1. PICK l \in Listener : \E i \in 1..Len(l.hops) - 1 : route = hop_routes(l.hops)[i]
  BY DEF AllRoutes
<1>2. PICK i \in 1..Len(l.hops) - 1 : route = hop_routes(l.hops)[i]
  BY <1>1
<1>3. l.hops \in Seq(Relay) /\ i \in 1..Len(l.hops)
  BY ListenerAssumption
<1>4. QED
  BY <1>2, <1>3 DEF hop_routes

(* A record leads to a relay.                                              *)
LEMMA RecordNext ==
  ASSUME NEW rec \in AllRecords
  PROVE  rec.next \in Relay
<1>1. PICK route \in AllRoutes, a \in {"new", "due"} : rec = [Record(route) EXCEPT !.age = a]
  BY DEF AllRecords
<1>2. PICK l \in Listener : \E i \in 1..Len(l.hops) - 1 : route = hop_routes(l.hops)[i]
  BY DEF AllRoutes
<1>3. PICK i \in 1..Len(l.hops) - 1 : route = hop_routes(l.hops)[i]
  BY <1>2
<1>4. l.hops \in Seq(Relay) /\ i + 1 \in 1..Len(l.hops)
  BY ListenerAssumption
<1>5. rec.next = l.hops[i + 1]
  BY <1>1, <1>3, Zenon DEF Record, hop_routes
<1>6. QED
  BY <1>4, <1>5

(* Ageing or refreshing a record changes its age only.                     *)
LEMMA Aged ==
  ASSUME NEW rec \in AllRecords, NEW a \in {"new", "due"}
  PROVE  /\ [rec EXCEPT !.age = a] \in AllRecords
         /\ [rec EXCEPT !.age = a].key = rec.key
         /\ [rec EXCEPT !.age = a].next = rec.next
         /\ [rec EXCEPT !.age = a].token = rec.token
<1>1. PICK route \in AllRoutes, b \in {"new", "due"} : rec = [Record(route) EXCEPT !.age = b]
  BY DEF AllRecords
<1>2. [rec EXCEPT !.age = a] = [Record(route) EXCEPT !.age = a]
  BY <1>1, Zenon DEF Record
<1>3. [rec EXCEPT !.age = a] \in AllRecords
  BY <1>2 DEF AllRecords
<1>4. QED
  BY <1>1, <1>3 DEF Record

(* A record that is made for a route is the route's.                       *)
LEMMA NewRecord ==
  ASSUME NEW route \in AllRoutes
  PROVE  /\ Record(route) \in AllRecords
         /\ Record(route).key = route.key
         /\ Record(route).next = route.next
         /\ Record(route).token = route.token
<1>1. Record(route) = [Record(route) EXCEPT !.age = "new"]
  BY DEF Record
<1>2. Record(route) \in AllRecords
  BY <1>1 DEF AllRecords
<1>3. QED
  BY <1>2 DEF Record

-------------------------------------------------------------------------------
(* A table T that comes from the present one: keys stay unambiguous, and   *)
(* each record leads where a record of the relay led before, or where a    *)
(* route of R leads.                                                       *)
From(T, R) ==
  /\ T \in Tables
  /\ \A r \in Relay : \A a, b \in T[r] : a.key = b.key => a = b
  /\ \A r \in Relay : \A rec \in T[r] :
       \/ \E o \in table[r] : o.next = rec.next /\ o.token = rec.token
       \/ \E q \in R : q.next = rec.next /\ q.token = rec.token

(* portillia_registry_register_hop refreshes the record that has the key,  *)
(* or adds one.                                                            *)
LEMMA RegisterHop ==
  ASSUME table \in Tables, OneRoutePerKey, NEW route \in AllRoutes
  PROVE  From(register_hop(route), {route})
<1> DEFINE old == WithKey(route.relay, route.key)
           new == IF old = {} THEN {Record(route)} ELSE {[rec EXCEPT !.age = "new"] : rec \in old}
           T == register_hop(route)
<1>1. route.relay \in Relay
  BY RouteRelay
<1>2. old \subseteq table[route.relay] /\ \A rec \in old : rec \in AllRecords /\ rec.key = route.key
  BY <1>1 DEF WithKey, Tables
<1>3. \A rec \in old : LET n == [rec EXCEPT !.age = "new"] IN
        n \in AllRecords /\ n.key = route.key /\ n.next = rec.next /\ n.token = rec.token
  BY <1>2, Aged, Zenon
<1>3a. \A rec \in new : rec \in AllRecords /\ rec.key = route.key
  <2>1. CASE old = {}
    BY <2>1, NewRecord
  <2>2. CASE old # {}
    BY <2>2, <1>3, Zenon
  <2>3. QED
    BY <2>1, <2>2
<1>4. \A a, b \in new : a = b
  <2>1. \A a, b \in old : a = b
    BY <1>1, <1>2 DEF OneRoutePerKey
  <2>2. QED
    BY <2>1
<1>5. \A rec \in new : \/ \E o \in old : o.next = rec.next /\ o.token = rec.token
                       \/ route.next = rec.next /\ route.token = rec.token
  <2>1. CASE old = {}
    BY <2>1, NewRecord
  <2>2. CASE old # {}
    BY <2>2, <1>3, Zenon
  <2>3. QED
    BY <2>1, <2>2
<1>6. T = [table EXCEPT ![route.relay] = (@ \ old) \cup new]
  BY DEF register_hop
<1>7. /\ T[route.relay] = (table[route.relay] \ old) \cup new
      /\ \A r \in Relay : r # route.relay => T[r] = table[r]
  BY <1>1, <1>6 DEF Tables
<1>8. T \in Tables
  <2>1. (table[route.relay] \ old) \cup new \in SUBSET AllRecords
    BY <1>1, <1>3a DEF Tables
  <2>2. QED
    BY <2>1, <1>1, <1>6 DEF Tables
<1>9. ASSUME NEW r \in Relay, NEW a \in T[r], NEW b \in T[r], a.key = b.key PROVE a = b
  <2>1. CASE r # route.relay
    BY <2>1, <1>7, <1>9 DEF OneRoutePerKey
  <2>2. CASE r = route.relay
    <3>1. \A rec \in table[route.relay] \ old : rec.key # route.key
      BY DEF WithKey
    <3>2. QED
      BY <2>2, <3>1, <1>3a, <1>4, <1>7, <1>9 DEF OneRoutePerKey
  <2>3. QED
    BY <2>1, <2>2
<1>10. ASSUME NEW r \in Relay, NEW rec \in T[r]
       PROVE  \/ \E o \in table[r] : o.next = rec.next /\ o.token = rec.token
              \/ \E q \in {route} : q.next = rec.next /\ q.token = rec.token
  BY <1>2, <1>5, <1>7
<1> HIDE DEF T
<1>11. QED
  BY <1>8, <1>9, <1>10 DEF From, T

(* When lifetimes end, records grow older and nothing else.                *)
LEMMA Lifetimes ==
  ASSUME table \in Tables, OneRoutePerKey, LifetimesEnd
  PROVE  From(table', {})
<1>1. table' = [r \in Relay |-> {[rec EXCEPT !.age = "due"] : rec \in table[r]}]
  BY DEF LifetimesEnd
<1>2. \A r \in Relay : \A rec \in table[r] : rec \in AllRecords
  BY DEF Tables
<1>3. \A r \in Relay : \A rec \in table'[r] :
        rec \in AllRecords /\ \E o \in table[r] :
          rec = [o EXCEPT !.age = "due"] /\ o.key = rec.key /\ o.next = rec.next /\ o.token = rec.token
  <2> SUFFICES ASSUME NEW r \in Relay, NEW rec \in table'[r]
               PROVE  rec \in AllRecords /\ \E o \in table[r] :
                        rec = [o EXCEPT !.age = "due"] /\ o.key = rec.key /\ o.next = rec.next /\ o.token = rec.token
    OBVIOUS
  <2>1. PICK o \in table[r] : rec = [o EXCEPT !.age = "due"]
    BY <1>1
  <2>2. QED
    BY <2>1, <1>2, Aged, Zenon
<1>4. table' \in Tables
  <2>1. \A r \in Relay : {[rec EXCEPT !.age = "due"] : rec \in table[r]} \in SUBSET AllRecords
    BY <1>2, Aged, Zenon
  <2>2. QED
    BY <2>1, <1>1 DEF Tables
<1>5. \A r \in Relay : \A a, b \in table'[r] : a.key = b.key => a = b
  BY <1>3 DEF OneRoutePerKey
<1>6. QED
  BY <1>3, <1>4, <1>5 DEF From

(* Fewer records are still unambiguous and lead where they did.            *)
LEMMA Fewer ==
  ASSUME table \in Tables, OneRoutePerKey, NEW T \in Tables, \A r \in Relay : T[r] \subseteq table[r]
  PROVE  From(T, {})
  BY DEF From, OneRoutePerKey

(* What a step has to show of the registries: where the new table comes    *)
(* from, and that the routes it adds were opened.                          *)
LEMMA TableStep ==
  ASSUME IInv, NEW R, From(table', R), acked \subseteq acked',
         \A q \in R : Opened(q.next, q.token)'
  PROVE  table' \in Tables /\ OneRoutePerKey' /\ OpenedFromExit'
<1>1. table' \in Tables /\ OneRoutePerKey'
  BY DEF From, OneRoutePerKey
<1>2. ASSUME NEW r \in Relay, NEW rec \in table'[r] PROVE Opened(rec.next, rec.token)'
  <2>1. CASE \E o \in table[r] : o.next = rec.next /\ o.token = rec.token
    <3>1. PICK o \in table[r] : o.next = rec.next /\ o.token = rec.token
      BY <2>1
    <3>2. Opened(o.next, o.token)
      BY DEF IInv, OpenedFromExit, Opened
    <3>3. QED
      BY <3>1, <3>2 DEF Opened
  <2>2. CASE \E q \in R : q.next = rec.next /\ q.token = rec.token
    BY <2>2 DEF Opened
  <2>3. QED
    BY <1>2, <2>1, <2>2 DEF From
<1>3. OpenedFromExit'
  BY <1>2, Zenon DEF OpenedFromExit, Opened
<1>4. QED
  BY <1>1, <1>3

(* A step that leaves the table alone.                                     *)
LEMMA TableKept ==
  ASSUME IInv, UNCHANGED table
  PROVE  From(table', {})
  BY DEF IInv, TypeOK, Tables, From, OneRoutePerKey

-------------------------------------------------------------------------------
(* A path that has routes has two relays or more.                          *)
LEMMA RoutesLength ==
  ASSUME NEW l \in Listener
  PROVE  /\ hop_routes(l.hops) # <<>> => Len(l.hops) > 1
         /\ Len(l.hops) > 1 => Len(hop_routes(l.hops)) = Len(l.hops) - 1
         /\ Len(hop_routes(l.hops)) \in Nat
<1>1. Len(l.hops) \in Nat
  BY ListenerAssumption
<1>2. CASE Len(l.hops) > 1
  <2>1. Len(l.hops) - 1 \in Nat
    BY <1>1, <1>2
  <2>2. Len(hop_routes(l.hops)) = Len(l.hops) - 1
    BY <2>1 DEF hop_routes
  <2>3. QED
    BY <1>2, <2>1, <2>2
<1>3. CASE Len(l.hops) <= 1
  <2>1. 1..Len(l.hops) - 1 = {} /\ 1..0 = {}
    BY <1>1, <1>3
  <2>2. hop_routes(l.hops) \in [1..0 -> AllRoutes]
    BY <2>1 DEF hop_routes
  <2>3. hop_routes(l.hops) \in Seq(AllRoutes)
    BY <2>2
  <2>4. Len(hop_routes(l.hops)) = 0
    BY <2>2, <2>3, <2>1
  <2>5. hop_routes(l.hops) = <<>>
    BY <2>3, <2>4
  <2>6. QED
    BY <1>1, <1>3, <2>4, <2>5
<1>4. QED
  BY <1>1, <1>2, <1>3

(* The routes as sync_hop_routes walks them, from the last one to the      *)
(* first: the last one leads to the relay with the lease, and each of the  *)
(* others to the relay that the one posted before it went to.              *)
LEMMA RouteWalk ==
  ASSUME NEW l \in Listener, hop_routes(l.hops) # <<>>
  PROVE  /\ Len(hop_routes(l.hops)) \in 1..Len(hop_routes(l.hops))
         /\ hop_routes(l.hops)[Len(hop_routes(l.hops))].next = l.url
         /\ LastToken(hop_routes(l.hops)[Len(hop_routes(l.hops))].token)
         /\ \A i \in 1..Len(hop_routes(l.hops)) :
              /\ hop_routes(l.hops)[i] \in AllRoutes
              /\ i # 1 => /\ i - 1 \in 1..Len(hop_routes(l.hops))
                          /\ hop_routes(l.hops)[i - 1].next = hop_routes(l.hops)[i].relay
                          /\ hop_routes(l.hops)[i - 1].token = hop_routes(l.hops)[i].key
<1>1. PICK n \in Nat : n = Len(l.hops) /\ n > 1 /\ Len(hop_routes(l.hops)) = n - 1
  BY RoutesLength, ListenerAssumption
<1>2. n - 1 \in 1..n - 1
  BY <1>1
<1>3. /\ hop_routes(l.hops)[n - 1].next = l.url
      /\ LastToken(hop_routes(l.hops)[n - 1].token)
  BY <1>1, <1>2, RouteFacts
<1>4. ASSUME NEW i \in 1..n - 1
      PROVE  /\ hop_routes(l.hops)[i] \in AllRoutes
             /\ i # 1 => /\ i - 1 \in 1..n - 1
                         /\ hop_routes(l.hops)[i - 1].next = hop_routes(l.hops)[i].relay
                         /\ hop_routes(l.hops)[i - 1].token = hop_routes(l.hops)[i].key
  <2>1. hop_routes(l.hops)[i] \in AllRoutes
    BY <1>1, RouteFacts, Zenon
  <2>2. ASSUME i # 1
        PROVE  /\ i - 1 \in 1..n - 1
               /\ hop_routes(l.hops)[i - 1].next = hop_routes(l.hops)[i].relay
               /\ hop_routes(l.hops)[i - 1].token = hop_routes(l.hops)[i].key
    <3>1. PICK j \in 1..n - 1 : j = i - 1 /\ j < n - 1 /\ j + 1 = i
      BY <2>2
    <3>2. QED
      BY <1>1, <3>1, RouteFacts
  <2>3. QED
    BY <2>1, <2>2
<1>5. QED
  BY <1>1, <1>2, <1>3, <1>4

(* Init: nothing is registered.                                            *)
LEMMA InitInv == Init => IInv
<1> SUFFICES ASSUME Init PROVE IInv
  OBVIOUS
<1>1. Len(Routes) \in Nat
  BY RoutesLength DEF Init, Routes
<1>2. TypeOK
  BY <1>1 DEF Init, TypeOK
<1>3. QED
  BY <1>2 DEF Init, IInv, AtRest, SyncReady, LateReady, OneRoutePerKey, OpenedFromExit

(* A step that leaves the relays alone and does not enter sync_hop_routes. *)
LEMMA LocalStep ==
  ASSUME IInv, UNCHANGED relays, UNCHANGED net, lsn' \in Listener, at' = 0, pc' # "sync",
         pc' \in {"stopped", "prepare", "register", "failed", "registered", "renew", "retry"},
         call' \in {"register", "renew"}, token' \in {"none", "valid", "expired"}
  PROVE  IInv'
<1>1. Len(Routes') \in Nat
  BY RoutesLength DEF Routes
<1>2. TypeOK'
  BY <1>1 DEF IInv, TypeOK, relays
<1>3. AtRest' /\ SyncReady'
  BY DEF AtRest, SyncReady
<1>4. LateReady' /\ OneRoutePerKey' /\ OpenedFromExit'
  BY DEF IInv, relays, LateReady, Opened, OneRoutePerKey, OpenedFromExit
<1>5. QED
  BY <1>2, <1>3, <1>4 DEF IInv

(* A step of time, the relays or the network: what the process is posting  *)
(* stays as it is.                                                         *)
LEMMA RelayStep ==
  ASSUME IInv, UNCHANGED <<lsn, at, acked>>, net' \in {"good", "bad"},
         pc' = pc \/ (pc = "registered" /\ pc' = "renew"),
         call' \in {"register", "renew"}, token' \in {"none", "valid", "expired"},
         lease' \in [Relay -> {"none", "new", "due"}], late' \subseteq late,
         NEW R \in SUBSET late, From(table', R)
  PROVE  IInv'
<1>1. \A q \in R : Opened(q.next, q.token)'
  BY Zenon DEF IInv, LateReady, Opened
<1>2. table' \in Tables /\ OneRoutePerKey' /\ OpenedFromExit'
  BY <1>1, TableStep
<1>3. Routes' = Routes
  BY DEF Routes
<1>4. TypeOK'
  BY <1>2, <1>3 DEF IInv, TypeOK, Tables
<1>5. AtRest' /\ SyncReady' /\ LateReady'
  BY <1>3 DEF IInv, AtRest, SyncReady, LateReady, Opened
<1>6. QED
  BY <1>2, <1>4, <1>5 DEF IInv

(* What the process does next when it has, or has not, got an answer.      *)
Continues(o) == IF Answered(o) THEN SyncRoutes ELSE Goto("failed") \/ Goto("retry")

(* The answer to a registration or a renewal, and the routes it leads to:  *)
(* sync_hop_routes starts with the one into the exit relay.                *)
LEMMA AcceptStep ==
  ASSUME IInv, pc \in {"register", "renew"}, NEW o, Accepted(o), Continues(o)
  PROVE  IInv'
<1>1. lsn \in Listener /\ lsn.url \in Relay /\ at = 0
  BY ListenerAssumption DEF IInv, TypeOK, AtRest
<1>2. /\ UNCHANGED <<net, lsn, table, late>> /\ Routes' = Routes /\ acked \subseteq acked'
      /\ call' = call /\ token' \in {"none", "valid", "expired"}
      /\ lease' \in [Relay -> {"none", "new", "due"}]
      /\ acked' \subseteq Relay \X ({None} \cup {route.key : route \in AllRoutes})
  <2>1. UNCHANGED <<net, lsn, table, late, call>> /\ token' \in {"none", "valid", "expired"}
    BY Zenon DEF IInv, TypeOK, Accepted, Continues, SyncRoutes, sync_order, Succeed, Fail, Goto
  <2>2. lease' \in [Relay -> {"none", "new", "due"}] /\ acked \subseteq acked'
    BY <1>1 DEF IInv, TypeOK, Accepted
  <2>3. acked' \subseteq Relay \X ({None} \cup {route.key : route \in AllRoutes})
    <3>1. <<lsn.url, None>> \in Relay \X ({None} \cup {route.key : route \in AllRoutes})
      BY <1>1
    <3>2. QED
      BY <3>1 DEF IInv, TypeOK, Accepted
  <2>4. QED
    BY <2>1, <2>2, <2>3 DEF Routes
<1>3. table' \in Tables /\ OneRoutePerKey' /\ OpenedFromExit'
  <2>1. From(table', {})
    BY <1>2, TableKept
  <2>2. \A q \in {} : Opened(q.next, q.token)'
    OBVIOUS
  <2>3. acked \subseteq acked'
    BY <1>2
  <2>4. QED
    BY <2>1, <2>2, <2>3, TableStep
<1>4. LateReady'
  BY <1>2, Zenon DEF IInv, LateReady, Opened
<1>5. /\ pc' \in {"sync", "failed", "registered", "retry"}
      /\ pc' # "sync" => at' = 0
      /\ pc' = "sync" => Answered(o) /\ Routes # <<>> /\ at' = Len(Routes)
  BY <1>1, Zenon DEF Continues, SyncRoutes, sync_order, Succeed, Fail, Goto
<1>6. AtRest'
  BY <1>5 DEF AtRest
<1>7. SyncReady'
  <2> SUFFICES ASSUME pc' = "sync"
               PROVE  at' \in 1..Len(Routes') /\ Opened(Routes[at].next, Routes[at].token)'
    BY DEF SyncReady
  <2>1. /\ Len(Routes) \in 1..Len(Routes)
        /\ Routes[Len(Routes)].next = lsn.url
        /\ LastToken(Routes[Len(Routes)].token)
    BY <1>1, <1>5, RouteWalk DEF Routes
  <2>2. <<lsn.url, None>> \in acked'
    BY <1>5 DEF Accepted
  <2>3. QED
    BY <1>2, <1>5, <2>1, <2>2 DEF Opened
<1>8. TypeOK'
  <2>1. at' \in 0..Len(Routes')
    <3>1. PICK n \in Nat : n = Len(Routes)
      BY <1>1, RoutesLength DEF Routes
    <3>2. at' = 0 \/ at' = n
      BY <1>5, <3>1
    <3>3. at' \in 0..n
      BY <3>2
    <3>4. QED
      BY <1>2, <3>1, <3>3
  <2>2. QED
    BY <1>2, <1>3, <1>5, <2>1 DEF IInv, TypeOK, Tables
<1>9. QED
  BY <1>3, <1>4, <1>6, <1>7, <1>8 DEF IInv

(* One POST of sync_hop_routes.  Only when it was answered does the one    *)
(* before it in the path follow, which leads to the relay that answered.   *)
LEMMA PostStep == IInv /\ sync_post => IInv'
<1> SUFFICES ASSUME IInv, sync_post PROVE IInv'
  OBVIOUS
<1>1. lsn \in Listener /\ pc = "sync" /\ at \in 1..Len(Routes) /\ Opened(Posted.next, Posted.token)
  BY DEF IInv, TypeOK, sync_post, SyncReady, Posted
<1>2. Routes # <<>>
  BY <1>1
<1>3. /\ Posted \in AllRoutes
      /\ at # 1 => /\ at - 1 \in 1..Len(Routes)
                   /\ Routes[at - 1].next = Posted.relay
                   /\ Routes[at - 1].token = Posted.key
  BY <1>1, <1>2, RouteWalk DEF Routes, Posted
<1>4. PICK o : /\ table' = IF Applied(o) THEN register_hop(Posted) ELSE table
               /\ late' = IF o = "delayed" THEN {Posted} ELSE late
               /\ acked' = IF Answered(o) THEN acked \cup {<<Posted.relay, Posted.key>>} ELSE acked
               /\ IF Answered(o) THEN NextRoute ELSE Fail
  BY DEF sync_post
<1>5. /\ UNCHANGED <<net, lsn, call, lease>> /\ Routes' = Routes
      /\ token' \in {"none", "valid", "expired"}
      /\ \/ pc' \in {"registered", "failed", "retry"} /\ at' = 0
         \/ pc' = "sync" /\ at # 1 /\ at' = at - 1 /\ <<Posted.relay, Posted.key>> \in acked'
  BY <1>1, <1>4 DEF sync_post, NextRoute, Succeed, Fail, IInv, TypeOK, Routes
<1>6. /\ acked \subseteq acked'
      /\ acked' \subseteq Relay \X ({None} \cup {route.key : route \in AllRoutes})
  <2>1. <<Posted.relay, Posted.key>> \in Relay \X ({None} \cup {route.key : route \in AllRoutes})
    BY <1>3, RouteRelay
  <2>2. QED
    BY <1>4, <2>1 DEF IInv, TypeOK
<1>7. (\A q \in {Posted} : Opened(q.next, q.token)') /\ LateReady'
  <2>1. \A q \in {Posted} : Opened(q.next, q.token)'
    BY <1>1, <1>6 DEF Opened
  <2>2. \A q \in late : Opened(q.next, q.token)'
    BY <1>6, Zenon DEF IInv, LateReady, Opened
  <2>3. QED
    BY <1>4, <2>1, <2>2 DEF LateReady
<1>8. table' \in Tables /\ OneRoutePerKey' /\ OpenedFromExit'
  <2>1. From(table', {Posted})
    <3>1. table \in Tables /\ OneRoutePerKey
      BY DEF IInv, TypeOK, Tables
    <3>2. From(register_hop(Posted), {Posted})
      BY <3>1, <1>3, RegisterHop
    <3>3. From(table, {Posted})
      BY <3>1 DEF From, OneRoutePerKey
    <3>4. QED
      BY <1>4, <3>2, <3>3
  <2>2. QED
    BY <1>6, <1>7, <2>1, TableStep
<1>9. SyncReady'
  BY <1>3, <1>5 DEF SyncReady, Opened
<1>10. AtRest'
  BY <1>5 DEF AtRest
<1>11. TypeOK'
  <2>1. at' \in 0..Len(Routes')
    BY <1>1, <1>3, <1>5
  <2>2. late' \subseteq AllRoutes
    BY <1>3, <1>4 DEF IInv, TypeOK
  <2>3. QED
    BY <1>5, <1>6, <1>8, <2>1, <2>2 DEF IInv, TypeOK, Tables
<1>12. QED
  BY <1>7, <1>8, <1>9, <1>10, <1>11 DEF IInv

(* Every step keeps the invariant, action by action.                       *)
LEMMA NextInv == IInv /\ [Next]_vars => IInv'
<1> SUFFICES ASSUME IInv, [Next]_vars PROVE IInv'
  OBVIOUS
<1>1. /\ table \in Tables /\ OneRoutePerKey /\ lsn \in Listener
      /\ lease \in [Relay -> {"none", "new", "due"}]
      /\ call \in {"register", "renew"} /\ token \in {"none", "valid", "expired"}
      /\ net \in {"good", "bad"} /\ (pc # "sync" => at = 0)
  BY DEF IInv, TypeOK, Tables, AtRest
<1>2. CASE \E l \in Listener : start(l)
  BY <1>1, <1>2, LocalStep DEF start
<1>3. CASE prepare
  BY <1>1, <1>3, LocalStep DEF prepare, Goto
<1>4. CASE register_lease
  BY <1>4, AcceptStep DEF register_lease, Continues
<1>5. CASE register_retry
  BY <1>1, <1>5, LocalStep DEF register_retry, Goto
<1>6. CASE sync_post
  BY <1>6, PostStep
<1>7. ASSUME LifetimesEnd
      PROVE  From(table', {}) /\ lease' \in [Relay -> {"none", "new", "due"}]
  BY <1>1, <1>7, Lifetimes DEF LifetimesEnd, Due
<1>8. CASE renew_due
  <2>1. From(table', {}) /\ lease' \in [Relay -> {"none", "new", "due"}]
    BY <1>7, <1>8 DEF renew_due
  <2>2. QED
    BY <1>1, <1>8, <2>1, RelayStep DEF renew_due
<1>9. CASE renew_lease
  <2>1. CASE Goto("retry") /\ UNCHANGED relays /\ pc = "renew"
    BY <1>1, <2>1, LocalStep DEF Goto
  <2>2. CASE \E o \in Outcome : Accepted(o) /\ IF Answered(o) THEN SyncRoutes ELSE Goto("retry")
    BY <1>9, <2>2, AcceptStep DEF renew_lease, Continues
  <2>3. QED
    BY <1>9, <2>1, <2>2 DEF renew_lease
<1>10. CASE renew_retry
  BY <1>1, <1>10, LocalStep DEF renew_retry, Goto
<1>11. CASE token_expires
  <2>1. From(table', {})
    BY <1>11, TableKept DEF token_expires, relays
  <2>2. QED
    BY <1>1, <1>11, <2>1, RelayStep DEF token_expires, relays
<1>12. CASE time_passes
  <2>1. From(table', {}) /\ lease' \in [Relay -> {"none", "new", "due"}]
    BY <1>7, <1>12 DEF time_passes
  <2>2. QED
    BY <1>1, <1>12, <2>1, RelayStep DEF time_passes
<1>13. ASSUME NEW r \in Relay, janitor_one(r) \/ janitor_all(r) \/ relay_restart(r) PROVE IInv'
  <2>1. table' \in Tables /\ \A s \in Relay : table'[s] \subseteq table[s]
    BY <1>1, <1>13 DEF janitor_one, janitor_all, relay_restart, ExpiredHops, Tables
  <2>2. From(table', {})
    BY <1>1, <2>1, Fewer
  <2>3. /\ lease' \in [Relay -> {"none", "new", "due"}]
        /\ UNCHANGED <<net, lsn, pc, call, at, token, late, acked>>
    BY <1>1, <1>13 DEF janitor_one, janitor_all, relay_restart
  <2>4. QED
    BY <1>1, <2>2, <2>3, RelayStep
<1>14. ASSUME NEW route \in late, deliver(route) PROVE IInv'
  <2>1. route \in AllRoutes
    BY DEF IInv, TypeOK
  <2>2. From(table', {route})
    BY <1>1, <1>14, <2>1, RegisterHop DEF deliver
  <2>3. {route} \in SUBSET late /\ late' \subseteq late
    BY <1>14 DEF deliver
  <2>4. QED
    BY <1>1, <1>14, <2>2, <2>3, RelayStep DEF deliver
<1>15. CASE crash
  BY <1>1, <1>15, LocalStep DEF crash
<1>16. CASE net_changes
  <2>1. From(table', {})
    BY <1>16, TableKept DEF net_changes, relays
  <2>2. QED
    BY <1>1, <1>16, <2>1, RelayStep DEF net_changes, relays
<1>17. CASE UNCHANGED vars
  <2>1. From(table', {})
    BY <1>17, TableKept DEF vars
  <2>2. QED
    BY <1>1, <1>17, <2>1, RelayStep DEF vars
<1>18. QED
  BY <1>2, <1>3, <1>4, <1>5, <1>6, <1>8, <1>9, <1>10, <1>11, <1>12, <1>13, <1>14, <1>15, <1>16, <1>17
     DEF Next, Step

(* The invariant holds throughout.                                         *)
THEOREM Invariance == Spec => []IInv
  BY InitInv, NextInv, PTL DEF Spec

(* However registrations, renewals, losses, delays, crashes and restarts   *)
(* interleave, register_hop leaves one route for a key in each registry,   *)
(* and every route leads to a relay that has answered for what comes next. *)
THEOREM RoutesSafe == Spec => []RoutesInv
<1>1. IInv => RoutesInv
  BY DEF IInv, RoutesInv
<1>2. QED
  BY <1>1, Invariance, PTL


-------------------------------------------------------------------------------
(* A set of numbers has a least one.                                       *)
LEMMA LeastNumber ==
  ASSUME NEW S \in SUBSET Nat, S # {}
  PROVE  \E x \in S : \A y \in S : x <= y
<1> DEFINE R == {p \in Nat \X Nat : p[1] < p[2]}
<1>1. IsWellFoundedOn(R, Nat)
  BY NatLessThanWellFounded DEF OpToRel
<1> HIDE DEF R
<1>2. PICK x \in S : \A y \in S : ~(<<y, x>> \in R)
  BY <1>1, WFMin, Zenon
<1>3. ASSUME NEW y \in S PROVE x <= y
  <2>1. ~(<<y, x>> \in R) /\ <<y, x>> \in Nat \X Nat
    BY <1>2
  <2>2. QED
    BY <2>1 DEF R
<1>4. QED
  BY <1>3

(* derive_hop_token mixes the position on the path into the token: what a  *)
(* record forwards is one position further than what it matches.           *)
LEMMA OneFurther ==
  ASSUME NEW rec \in AllRecords
  PROVE  rec.key.index \in Nat /\ rec.token.index = rec.key.index + 1
<1>1. PICK route \in AllRoutes, a \in {"new", "due"} : rec = [Record(route) EXCEPT !.age = a]
  BY DEF AllRecords
<1>2. rec.key = route.key /\ rec.token = route.token
  BY <1>1 DEF Record
<1>3. PICK l \in Listener : \E i \in 1..Len(l.hops) - 1 : route = hop_routes(l.hops)[i]
  BY DEF AllRoutes
<1>4. PICK i \in 1..Len(l.hops) - 1 : route = hop_routes(l.hops)[i]
  BY <1>3
<1>5. Len(l.hops) \in Nat
  BY ListenerAssumption
<1>6. route.token.index = i
  BY <1>4, Zenon DEF hop_routes, derive_hop_token
<1>7. route.key.index = i - 1
  <2>1. hop_routes(l.hops)[i].key.index = i - 1
    BY <1>5 DEF hop_routes, derive_hop_token, public_hostname
  <2>2. QED
    BY <1>4, <2>1, Zenon
<1>8. QED
  BY <1>2, <1>5, <1>6, <1>7

(* So, of any streams, one with the lowest position comes from none.       *)
LEMMA NoLoop == TypeOK => NoForwardingLoop
<1> SUFFICES ASSUME TypeOK, NEW C \in SUBSET Streams, C # {}
             PROVE  \E s \in C : \A t \in C : s \notin Forwards(t)
  BY DEF NoForwardingLoop
<1>1. ASSUME NEW r \in Relay, NEW rec \in table[r] PROVE rec \in AllRecords
  BY <1>1 DEF TypeOK
<1>2. \A s \in C : s[2].index \in Nat
  <2> SUFFICES ASSUME NEW s \in C PROVE s[2].index \in Nat
    OBVIOUS
  <2>1. PICK rec \in AllRecords : s = <<rec.next, rec.token>>
    BY <1>1 DEF Streams
  <2>2. QED
    BY <2>1, OneFurther
<1>3. PICK s \in C : \A t \in C : s[2].index <= t[2].index
  <2> DEFINE S == {t[2].index : t \in C}
  <2>1. S \in SUBSET Nat /\ S # {}
    BY <1>2
  <2>2. PICK x \in S : \A y \in S : x <= y
    BY <2>1, LeastNumber, Zenon
  <2>3. QED
    BY <2>2
<1>4. ASSUME NEW t \in C PROVE s \notin Forwards(t)
  <2> SUFFICES ASSUME s \in Forwards(t) PROVE FALSE
    OBVIOUS
  <2>1. PICK o \in AllRecords : t = <<o.next, o.token>>
    BY <1>1 DEF Streams
  <2>2. PICK rec \in table[t[1]] : rec.key = t[2] /\ s = <<rec.next, rec.token>>
    BY DEF Forwards, WithKey
  <2>3. t[1] \in Relay
    BY <2>1, RecordNext
  <2>4. rec \in AllRecords
    BY <1>1, <2>2, <2>3
  <2>5. s[2].index = t[2].index + 1
    BY <2>2, <2>4, OneFurther
  <2>6. QED
    BY <1>2, <1>3, <2>5
<1>5. QED
  BY <1>4

(* No registries that registrations, renewals, crashes and late posts of   *)
(* any paths can leave behind make handle_hop_stream forward a stream in a *)
(* circle.                                                                 *)
THEOREM ForwardingEnds == Spec => []NoForwardingLoop
<1>1. IInv => NoForwardingLoop
  BY NoLoop DEF IInv
<1>2. QED
  BY <1>1, Invariance, PTL
===============================================================================
