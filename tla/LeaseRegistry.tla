---------------------------- MODULE LeaseRegistry -----------------------------
(***************************************************************************)
(* The lease registry of src/portal/server.c: the array of lease and hop   *)
(* records, the API handlers that register, renew and unregister leases    *)
(* (api_server.c), the admin actions on them, and the janitor.             *)
(*                                                                         *)
(* The registry mutex is r->mu.  The janitor holds it for a whole pass,    *)
(* which blocks on relay_stream_free, so a pass is several steps and mu is *)
(* a variable; every other critical section is one action.  A handler is a *)
(* Worker: /sdk/register makes two registry calls, and each call consults  *)
(* the ban list before it takes the mutex.  Time is counted in units of    *)
(* which a lease lives TTL.                                                *)
(***************************************************************************)
EXTENDS Naturals, Sequences, FiniteSets, FiniteSetsExt

CONSTANTS Identity,      \* identity addresses
          Host,          \* lease host names
          Matches,       \* <<pattern, host>>: wildcard matches
          HopToken,      \* keys of hop records
          NextHop,       \* overlay addresses hop records point to
          Admin,         \* identities an admin acts upon
          Renewer,       \* identities that come back with their token
          HopOwner,      \* identities that register hops
          Worker,        \* API handler threads
          Bps,           \* bandwidth limits; 0 is none
          Asked,         \* the limits registrations ask for
          Hash,          \* hostname hashes registrations carry; None is no hash
          MAX_RECORDS,   \* MAX_RECORDS in the code (1024)
          TTL,           \* lifetime of a lease (300 seconds)
          MaxTime,       \* bound on the clock
          None

ASSUME RegistryAssumption ==
  /\ {MAX_RECORDS, TTL} \subseteq Nat \ {0} /\ MaxTime \in Nat
  /\ Hash \subseteq Host \cup {None} /\ Bps \subseteq Nat /\ 0 \in Bps /\ Asked \subseteq Bps
  /\ Matches \subseteq Host \X Host /\ {Admin, Renewer, HopOwner} \subseteq SUBSET Identity
  /\ None \notin Identity \cup Host \cup HopToken \cup NextHop \cup Nat

VARIABLES
  records,       \* r->records[0 .. count-1]
  mu,            \* "free" or "janitor"
  sweep,         \* the janitor's loop index and its reading of the clock
  now,
  job,           \* what each handler is doing
  token,         \* <<host, identity>> pairs of renewers with an access token
  banned, approved, manual    \* settings: ban list, approval list, approval mode

settings == <<banned, approved, manual>>
vars == <<records, mu, sweep, now, job, token, settings>>

Idle == [pc |-> "idle", op |-> "none", host |-> None, id |-> None, bps |-> 0, hash |-> None, calls |-> 0]

Init ==
  /\ records = <<>> /\ mu = "free" /\ sweep = [i |-> 0, t |-> 0] /\ now = 0
  /\ job = [w \in Worker |-> Idle]
  /\ token = {}
  /\ banned = {} /\ approved = {} /\ manual \in BOOLEAN

-------------------------------------------------------------------------------
(* Registering.                                                            *)

lease_registry_is_allowed(id) == id \notin banned /\ (manual => id \in approved)

FindLiveHost(h) == {i \in DOMAIN records : records[i].host = h /\ records[i].exp > now}
FindHost(h) == {i \in DOMAIN records : records[i].host = h}

HasRoom == Len(records) < MAX_RECORDS

RefreshTakesOver(i, j, hash) ==
  records' = [records EXCEPT ![i].exp = now + TTL, ![i].bps = j.bps, ![i].id = j.id,
                             ![i].hash = IF hash = None THEN @ ELSE hash]

(* A refresh changes neither the identity nor the stream of the record.    *)
Refresh(i, j, hash) ==
  records' = [records EXCEPT ![i].exp = now + TTL, ![i].bps = j.bps,
                             ![i].hash = IF hash = None THEN @ ELSE hash]

(* One call of lease_registry_register, past is_allowed.                   *)
register_locked(j, hash) ==
  \/ \E i \in FindHost(j.host) :
       /\ \A k \in FindHost(j.host) : i <= k
       /\ Refresh(i, j, hash)
  \/ /\ FindHost(j.host) = {} /\ HasRoom
     /\ records' = Append(records, [host |-> j.host, id |-> j.id, exp |-> now + TTL, bps |-> j.bps,
                                    hash |-> hash, hop |-> None, next |-> None])
  \/ /\ FindHost(j.host) = {} /\ ~HasRoom
     /\ UNCHANGED records

(* handle_register calls the registry twice, the second time with the      *)
(* hostname hash; handle_renew calls it once.                              *)
handle_register(w, h, id, b, hash) ==
  /\ job[w].pc = "idle"
  /\ job' = [job EXCEPT ![w] = [pc |-> "check", op |-> "register", host |-> h, id |-> id,
                                bps |-> b, hash |-> hash, calls |-> 2]]
  /\ UNCHANGED <<records, mu, sweep, now, token, settings>>

(* A renewal may ask for any token lifetime, so tokens do not expire here. *)
handle_renew(w, h, id) ==
  /\ job[w].pc = "idle" /\ <<h, id>> \in token
  /\ job' = [job EXCEPT ![w] = [pc |-> "check", op |-> "renew", host |-> h, id |-> id,
                                bps |-> 0, hash |-> None, calls |-> 1]]
  /\ UNCHANGED <<records, mu, sweep, now, token, settings>>

Called(w) == [job EXCEPT ![w].calls = @ - 1, ![w].pc = IF job[w].calls = 1 THEN "reply" ELSE "check"]

(* A request of an identity that is not allowed is dropped without a word. *)
check_allowed(w) ==
  /\ job[w].pc = "check"
  /\ job' = IF lease_registry_is_allowed(job[w].id) THEN [job EXCEPT ![w].pc = "locked"] ELSE Called(w)
  /\ UNCHANGED <<records, mu, sweep, now, token, settings>>

lease_registry_register(w) ==
  /\ job[w].pc = "locked" /\ mu = "free"
  /\ register_locked(job[w], IF job[w].calls = 1 THEN job[w].hash ELSE None)
  /\ job' = Called(w)
  /\ UNCHANGED <<mu, sweep, now, token, settings>>

(* The answer is "ok", with a new token, whatever the registry did.        *)
reply(w) ==
  /\ job[w].pc = "reply"
  /\ token' = token \cup ({<<job[w].host, job[w].id>>} \cap (Host \X Renewer))
  /\ job' = [job EXCEPT ![w] = Idle]
  /\ UNCHANGED <<records, mu, sweep, now, settings>>

(* Verifies the token and answers "ok"; the registry has no removal.       *)
handle_unregister(h, id) == <<h, id>> \in token /\ UNCHANGED vars

NewHop(k, n, id) ==
  [host |-> None, id |-> id, exp |-> now + TTL, bps |-> 0, hash |-> None, hop |-> k, next |-> n]

(* handle_hop.  A refresh keeps the old next hop.                          *)
portillia_registry_register_hop(k, n, id) ==
  LET found == {i \in DOMAIN records : records[i].hop = k}
  IN  /\ mu = "free"
      /\ \/ /\ found # {}
            /\ records' = [records EXCEPT ![Min(found)].exp = now + TTL]
         \/ /\ found = {} /\ HasRoom
            /\ records' = Append(records, NewHop(k, n, id))
      /\ UNCHANGED <<mu, sweep, now, job, token, settings>>

-------------------------------------------------------------------------------
(* Routing.  An index of records, or 0.                                    *)

FirstLive(found) ==
  LET alive == {i \in found : records[i].exp > now} IN IF alive = {} THEN 0 ELSE Min(alive)

lease_registry_lookup(h) ==
  LET exact   == FirstLive(FindHost(h))
      hashed  == FirstLive({i \in DOMAIN records : records[i].hash = h})
      pattern == FirstLive({i \in DOMAIN records : <<records[i].host, h>> \in Matches})
  IN  CASE exact # 0 -> exact [] exact = 0 /\ hashed # 0 -> hashed [] OTHER -> pattern

-------------------------------------------------------------------------------
(* Admin actions.                                                          *)

admin_settings(id) ==
  /\ \/ banned' = banned \cup {id} /\ UNCHANGED <<approved, manual>>
     \/ banned' = banned \ {id} /\ UNCHANGED <<approved, manual>>
     \/ approved' = approved \cup {id} /\ UNCHANGED <<banned, manual>>
     \/ manual' = ~manual /\ UNCHANGED <<banned, approved>>
  /\ UNCHANGED <<records, mu, sweep, now, job, token>>

(* The first record of the identity, and only that one.                    *)
portillia_registry_update_bps(id, b) ==
  LET found == {i \in DOMAIN records : records[i].id = id}
  IN  /\ mu = "free" /\ found # {}
      /\ records' = [records EXCEPT ![Min(found)].bps = b]
      /\ UNCHANGED <<mu, sweep, now, job, token, settings>>

-------------------------------------------------------------------------------
(* The janitor: every 5 seconds, one pass over the array.                  *)

janitor_lock ==
  /\ mu = "free"
  /\ mu' = "janitor" /\ sweep' = [i |-> 1, t |-> now]
  /\ UNCHANGED <<records, now, job, token, settings>>

ExpiredLater(r) == r.exp < sweep.t
Expired(r) == r.exp <= sweep.t

(* r->records[i] = r->records[--r->count]                                  *)
SwapLast(i) == SubSeq([records EXCEPT ![i] = records[Len(records)]], 1, Len(records) - 1)

SkipSwapped(i) == i + 1
Again(i) == i

janitor_step ==
  /\ mu = "janitor" /\ sweep.i <= Len(records)
  /\ IF Expired(records[sweep.i])
       THEN records' = SwapLast(sweep.i) /\ sweep' = [sweep EXCEPT !.i = Again(sweep.i)]
       ELSE sweep' = [sweep EXCEPT !.i = @ + 1] /\ UNCHANGED records
  /\ UNCHANGED <<mu, now, job, token, settings>>

janitor_unlock ==
  /\ mu = "janitor" /\ sweep.i > Len(records)
  /\ mu' = "free" /\ sweep' = [i |-> 0, t |-> 0]
  /\ UNCHANGED <<records, now, job, token, settings>>

tick ==
  /\ now < MaxTime
  /\ now' = now + 1
  /\ UNCHANGED <<records, mu, sweep, job, token, settings>>

-------------------------------------------------------------------------------
Handler(w) == check_allowed(w) \/ lease_registry_register(w) \/ reply(w)
Janitor == janitor_lock \/ janitor_step \/ janitor_unlock

Next ==
  \/ \E w \in Worker, h \in Host, id \in Identity :
       \/ \E b \in Asked, hash \in Hash : handle_register(w, h, id, b, hash)
       \/ handle_renew(w, h, id)
  \/ \E w \in Worker : Handler(w)
  \/ \E h \in Host, id \in Identity : handle_unregister(h, id)
  \/ \E k \in HopToken, n \in NextHop, id \in HopOwner : portillia_registry_register_hop(k, n, id)
  \/ \E id \in Admin :
       \/ admin_settings(id)
       \/ \E b \in Bps \ {0} : portillia_registry_update_bps(id, b)
  \/ Janitor
  \/ tick

Spec == Init /\ [][Next]_vars

(* The janitor thread runs for ever; admins and clients may stop.          *)
FairSpec == Spec /\ WF_vars(Janitor)

-------------------------------------------------------------------------------
Record ==
  [host: Host \cup {None}, id: Identity, exp: 0..(MaxTime + TTL), bps: Bps,
   hash: Host \cup {None}, hop: HopToken \cup {None}, next: NextHop \cup {None}]

JobType ==
  [pc: {"idle", "check", "locked", "reply"}, op: {"none", "register", "renew"}, host: Host \cup {None}, id: Identity \cup {None},
   bps: Bps, hash: Host \cup {None}, calls: 0..2]

(* The registry never outgrows its array.                                  *)
TypeOK ==
  /\ records \in Seq(Record) /\ Len(records) <= MAX_RECORDS
  /\ mu \in {"free", "janitor"} /\ sweep \in [i: Nat, t: Nat] /\ now \in 0..MaxTime
  /\ job \in [Worker -> JobType]
  /\ token \in SUBSET (Host \X Renewer)
  /\ banned \in SUBSET Identity /\ approved \in SUBSET Identity /\ manual \in BOOLEAN

(* No two records share a host name or a hop token, whatever registrations *)
(* race with expiry and with the janitor: lookup, refresh and status speak *)
(* of the same record.                                                     *)
OneRecordPerName ==
  \A i, j \in DOMAIN records :
    i # j => /\ records[i].host = None \/ records[i].host # records[j].host
             /\ records[i].hop = None \/ records[i].hop # records[j].hop

(* What a lookup by host returns has a stream to claim from: hop records,  *)
(* which have none, are never returned (rec->stream is dereferenced).      *)
LookupHasStream ==
  \A h \in Host : lease_registry_lookup(h) # 0 => records[lease_registry_lookup(h)].hop = None

(* The part of the array the janitor has passed holds no expired record,   *)
(* although it moves the last record into every hole it makes.             *)
SweepThorough ==
  mu = "janitor" => \A i \in DOMAIN records : i < sweep.i => records[i].exp > sweep.t

(* The safety of the registry's array: names are unique, lookups have a    *)
(* stream, and the janitor passes over nothing that has expired.           *)
RegistryInv == TypeOK /\ OneRecordPerName /\ LookupHasStream /\ SweepThorough

LiveOwner(h) == {records[i].id : i \in FindLiveHost(h)}

(* While a lease is alive it neither disappears nor changes owner.         *)
LiveLeaseKept == [][\A h \in Host : now' = now => LiveOwner(h) \subseteq LiveOwner(h)']_vars

(* Every expired record is collected or refreshed, even while handlers     *)
(* compete with the janitor for the registry mutex: no host name has an    *)
(* expired record for ever.                                                *)
ExpiredCollected ==
  \A h \in Host : []<>(\A i \in FindHost(h) : records[i].exp > now)

===============================================================================
