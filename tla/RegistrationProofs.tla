-------------------------- MODULE RegistrationProofs ---------------------------
(***************************************************************************)
(* The safety of a registration at a relay: the lease registry, for any    *)
(* identities, host names, hop tokens, handlers and array size, and the    *)
(* store of register challenges, for any challenges, requests and store    *)
(* size.                                                                   *)
(***************************************************************************)
EXTENDS LeaseRegistry, RegisterChallenge, WellFoundedInduction, TLAPS

(* Hop records have neither a host name nor a hostname hash.               *)
HopsUnnamed ==
  \A i \in DOMAIN records : records[i].hop # None => records[i].host = None /\ records[i].hash = None

(* A handler in the middle of a request has a host name, an identity and   *)
(* registry calls still to make.                                           *)
JobsBound ==
  \A w \in Worker :
    /\ job[w].pc # "idle" => job[w].host \in Host /\ job[w].id \in Identity
    /\ job[w].pc \in {"check", "locked"} => job[w].calls \in 1..2

(* A pass of the janitor begins at the first record and leaves nothing     *)
(* expired behind.                                                         *)
SweepRight == SweepThorough /\ (mu = "janitor" => sweep.i >= 1)

IInv == TypeOK /\ OneRecordPerName /\ SweepRight /\ HopsUnnamed /\ JobsBound

-------------------------------------------------------------------------------
(* The first of a set of indices is one of them.                           *)
LEMMA MinIn ==
  ASSUME NEW S \in SUBSET Nat, S # {}
  PROVE  Min(S) \in S /\ \A y \in S : Min(S) <= y
<1> DEFINE R == {p \in Nat \X Nat : p[1] < p[2]}
<1>1. IsWellFoundedOn(R, Nat)
  BY NatLessThanWellFounded DEF OpToRel
<1> HIDE DEF R
<1>2. PICK x \in S : \A y \in S : ~(<<y, x>> \in R)
  <2>1. S \subseteq Nat
    OBVIOUS
  <2>2. QED
    BY <1>1, <2>1, WFMin, Zenon
<1>3. ASSUME NEW y \in S PROVE x <= y
  <2>1. x \in Nat /\ y \in Nat
    OBVIOUS
  <2>2. ~(y < x)
    BY <1>2, <2>1, <1>3, Zenon DEF R
  <2>3. QED
    BY <2>1, <2>2
<1>4. QED
  BY <1>3, Zenon DEF Min

(* What a step has to show of the array when it changes a record in place. *)
LEMMA FieldsKept ==
  ASSUME IInv, NEW k \in DOMAIN records, NEW rec \in Record,
         records' = [records EXCEPT ![k] = rec],
         rec.host = records[k].host, rec.hop = records[k].hop, rec.hop # None => rec.hash = None
  PROVE  /\ records' \in Seq(Record) /\ Len(records') <= MAX_RECORDS
         /\ OneRecordPerName' /\ HopsUnnamed'
<1>1. records \in Seq(Record) /\ Len(records) <= MAX_RECORDS
  BY DEF IInv, TypeOK
<1>2. records' \in Seq(Record) /\ Len(records') = Len(records) /\ DOMAIN records' = DOMAIN records
  BY <1>1
<1>3. \A i \in DOMAIN records :
        /\ records'[i].host = records[i].host /\ records'[i].hop = records[i].hop
        /\ records'[i].hop # None => records'[i].host = None /\ records'[i].hash = None
  BY <1>1 DEF IInv, HopsUnnamed
<1>4. OneRecordPerName' /\ HopsUnnamed'
  BY <1>2, <1>3 DEF IInv, OneRecordPerName, HopsUnnamed
<1>5. QED
  BY <1>1, <1>2, <1>4

(* ... and when it adds one.                                               *)
LEMMA Appended ==
  ASSUME IInv, HasRoom, NEW rec \in Record, records' = Append(records, rec),
         \A i \in DOMAIN records : /\ rec.host = None \/ records[i].host # rec.host
                                   /\ rec.hop = None \/ records[i].hop # rec.hop,
         rec.hop # None => rec.host = None /\ rec.hash = None
  PROVE  /\ records' \in Seq(Record) /\ Len(records') <= MAX_RECORDS
         /\ OneRecordPerName' /\ HopsUnnamed'
<1>1. records \in Seq(Record) /\ MAX_RECORDS \in Nat /\ Len(records) < MAX_RECORDS
  BY RegistryAssumption DEF IInv, TypeOK, HasRoom
<1>2. /\ records' \in Seq(Record) /\ Len(records') = Len(records) + 1
      /\ records'[Len(records) + 1] = rec
      /\ \A i \in DOMAIN records : records'[i] = records[i]
      /\ \A i \in DOMAIN records' : i \in DOMAIN records \/ i = Len(records) + 1
  BY <1>1
<1>3. Len(records') <= MAX_RECORDS
  BY <1>1, <1>2
<1>4. OneRecordPerName'
  BY <1>2 DEF IInv, OneRecordPerName
<1>5. HopsUnnamed'
  BY <1>2 DEF IInv, HopsUnnamed
<1>6. QED
  BY <1>2, <1>3, <1>4, <1>5

(* The janitor puts the last record where the expired one was: the part it *)
(* has passed stays as it is, and no name gets there twice.                *)
LEMMA Swapped ==
  ASSUME IInv, NEW k \in DOMAIN records, records' = SwapLast(k)
  PROVE  /\ records' \in Seq(Record) /\ Len(records') <= MAX_RECORDS
         /\ OneRecordPerName' /\ HopsUnnamed'
         /\ \A i \in DOMAIN records' : i < k => i \in DOMAIN records /\ records'[i] = records[i]
<1> DEFINE n == Len(records)
           moved == [records EXCEPT ![k] = records[n]]
<1>1. /\ records \in Seq(Record) /\ n \in Nat /\ n >= 1 /\ n <= MAX_RECORDS /\ k \in 1..n
      /\ MAX_RECORDS \in Nat
  BY RegistryAssumption DEF IInv, TypeOK
<1>2. moved \in Seq(Record) /\ Len(moved) = n
  BY <1>1
<1>3. records' = SubSeq(moved, 1, n - 1)
  BY DEF SwapLast
<1> HIDE DEF moved
<1>4. /\ records' \in Seq(Record) /\ Len(records') = n - 1
      /\ \A i \in 1..n - 1 : records'[i] = moved[i]
  BY <1>1, <1>2, <1>3
<1>5. DOMAIN records' = 1..n - 1
  BY <1>1, <1>4
<1>6. \A i \in 1..n - 1 : /\ i \in DOMAIN records
                          /\ i # k => records'[i] = records[i]
                          /\ i = k => records'[i] = records[n]
  BY <1>1, <1>4 DEF moved
<1>7. n \in DOMAIN records /\ n \notin 1..n - 1
  BY <1>1
<1>8. OneRecordPerName'
  BY <1>5, <1>6, <1>7 DEF IInv, OneRecordPerName
<1>9. HopsUnnamed'
  BY <1>5, <1>6, <1>7 DEF IInv, HopsUnnamed
<1>10. Len(records') <= MAX_RECORDS
  BY <1>1, <1>4
<1>11. \A i \in DOMAIN records' : i < k => i \in DOMAIN records /\ records'[i] = records[i]
  BY <1>1, <1>5, <1>6
<1>12. QED
  BY <1>4, <1>8, <1>9, <1>10, <1>11


(* A step of one handler on its own state.                                 *)
LEMMA JobStep ==
  ASSUME IInv, NEW w \in Worker, NEW j \in JobType, job' = [job EXCEPT ![w] = j],
         j.pc # "idle" => j.host \in Host /\ j.id \in Identity,
         j.pc \in {"check", "locked"} => j.calls \in 1..2
  PROVE  job' \in [Worker -> JobType] /\ JobsBound'
  BY DEF IInv, TypeOK, JobsBound

(* handle_register and handle_renew count their registry calls.            *)
LEMMA CallCounted ==
  ASSUME NEW k \in JobType, NEW c, c = k.calls, c \in 1..2
  PROVE  LET j == [k EXCEPT !.calls = c - 1, !.pc = IF c = 1 THEN "reply" ELSE "check"]
         IN  /\ j \in JobType /\ j.host = k.host /\ j.id = k.id
             /\ j.pc # "locked" /\ (j.pc = "check" => j.calls \in 1..2)
<1>1. ASSUME NEW n \in 0..2, NEW p \in {"check", "reply"}
      PROVE  LET j == [k EXCEPT !.calls = n, !.pc = p]
             IN  j \in JobType /\ j.host = k.host /\ j.id = k.id /\ j.pc = p /\ j.calls = n
  BY Zenon DEF JobType
<1>2. CASE c = 1
  <2>1. c - 1 = 0 /\ 0 \in 0..2
    BY <1>2
  <2>2. QED
    BY <1>1, <1>2, <2>1
<1>3. CASE c = 2
  <2>1. c - 1 = 1 /\ 1 \in 0..2
    BY <1>3
  <2>2. QED
    BY <1>1, <1>3, <2>1
<1>4. QED
  BY <1>2, <1>3

(* A call of the registry has ended.                                       *)
LEMMA CalledStep ==
  ASSUME IInv, NEW w \in Worker, job[w].pc \in {"check", "locked"}, job' = Called(w)
  PROVE  job' \in [Worker -> JobType] /\ JobsBound'
<1> DEFINE c == job[w].calls
           j == [job[w] EXCEPT !.calls = c - 1, !.pc = IF c = 1 THEN "reply" ELSE "check"]
<1>1. job[w] \in JobType /\ job \in [Worker -> JobType]
  BY DEF IInv, TypeOK
<1>2. job[w].host \in Host /\ job[w].id \in Identity /\ c \in 1..2
  BY DEF IInv, JobsBound
<1>3. job' = [job EXCEPT ![w] = j]
  BY <1>1, Zenon DEF Called
<1>4. /\ j \in JobType /\ j.host = job[w].host /\ j.id = job[w].id
      /\ j.pc # "locked" /\ (j.pc = "check" => j.calls \in 1..2)
  BY <1>1, <1>2, CallCounted, Zenon
<1> HIDE DEF j
<1>5. QED
  BY <1>2, <1>3, <1>4, JobStep, Zenon

(* Init.                                                                   *)
LEMMA InitInv == Init => IInv
<1> SUFFICES ASSUME Init PROVE IInv
  OBVIOUS
<1>1. Idle \in JobType
  BY RegistryAssumption DEF Idle, JobType
<1>2. TypeOK
  BY <1>1, RegistryAssumption DEF Init, TypeOK
<1>3. OneRecordPerName /\ SweepRight /\ HopsUnnamed
  BY DEF Init, OneRecordPerName, SweepRight, SweepThorough, HopsUnnamed
<1>4. JobsBound
  BY DEF Init, JobsBound, Idle
<1>5. QED
  BY <1>2, <1>3, <1>4 DEF IInv

(* One call of lease_registry_register, past is_allowed.                   *)
LEMMA RegisterLocked ==
  ASSUME IInv, NEW j \in JobType, j.host \in Host, j.id \in Identity,
         NEW hash \in Host \cup {None}, register_locked(j, hash)
  PROVE  /\ records' \in Seq(Record) /\ Len(records') <= MAX_RECORDS
         /\ OneRecordPerName' /\ HopsUnnamed'
<1>1. /\ records \in Seq(Record) /\ now + TTL \in 0..(MaxTime + TTL)
      /\ None \notin Host /\ j.bps \in Bps
  BY RegistryAssumption DEF IInv, TypeOK, JobType
<1>2. ASSUME NEW i \in FindHost(j.host), Refresh(i, j, hash)
      PROVE  /\ records' \in Seq(Record) /\ Len(records') <= MAX_RECORDS
             /\ OneRecordPerName' /\ HopsUnnamed'
  <2> DEFINE rec == [records[i] EXCEPT !.exp = now + TTL, !.bps = j.bps,
                                       !.hash = IF hash = None THEN @ ELSE hash]
  <2>1. i \in DOMAIN records /\ records[i].host = j.host /\ records[i] \in Record
    BY <1>1, <1>2 DEF FindHost
  <2>2. records' = [records EXCEPT ![i] = rec]
    BY <1>1, <1>2, <2>1, Zenon DEF Refresh, Record
  <2>3. rec \in Record /\ rec.host = records[i].host /\ rec.hop = records[i].hop
    BY <1>1, <2>1, Zenon DEF Record
  <2>4. rec.hop = None
    BY <1>1, <2>1, <2>3 DEF IInv, HopsUnnamed
  <2> HIDE DEF rec
  <2>5. QED
    BY <2>1, <2>2, <2>3, <2>4, FieldsKept, Zenon
<1>3. ASSUME FindHost(j.host) = {}, HasRoom,
             records' = Append(records, [host |-> j.host, id |-> j.id, exp |-> now + TTL, bps |-> j.bps,
                                         hash |-> hash, hop |-> None, next |-> None])
      PROVE  /\ records' \in Seq(Record) /\ Len(records') <= MAX_RECORDS
             /\ OneRecordPerName' /\ HopsUnnamed'
  <2> DEFINE rec == [host |-> j.host, id |-> j.id, exp |-> now + TTL, bps |-> j.bps,
                     hash |-> hash, hop |-> None, next |-> None]
  <2>1. rec \in Record /\ rec.host = j.host /\ rec.hop = None
    BY <1>1 DEF Record
  <2>2. \A i \in DOMAIN records : records[i].host # rec.host
    BY <1>3, <2>1 DEF FindHost
  <2>3. records' = Append(records, rec)
    BY <1>3
  <2> HIDE DEF rec
  <2>4. QED
    BY <1>3, <2>1, <2>2, <2>3, Appended
<1>4. ASSUME UNCHANGED records
      PROVE  /\ records' \in Seq(Record) /\ Len(records') <= MAX_RECORDS
             /\ OneRecordPerName' /\ HopsUnnamed'
  BY <1>4 DEF IInv, TypeOK, OneRecordPerName, HopsUnnamed
<1>5. QED
  BY <1>2, <1>3, <1>4 DEF register_locked

(* portillia_registry_register_hop.                                        *)
LEMMA RegisterHop ==
  ASSUME IInv, NEW k \in HopToken, NEW n \in NextHop, NEW id \in Identity,
         portillia_registry_register_hop(k, n, id)
  PROVE  /\ records' \in Seq(Record) /\ Len(records') <= MAX_RECORDS
         /\ OneRecordPerName' /\ HopsUnnamed'
<1> DEFINE found == {i \in DOMAIN records : records[i].hop = k}
<1>1. records \in Seq(Record) /\ now + TTL \in 0..(MaxTime + TTL)
  BY RegistryAssumption DEF IInv, TypeOK
<1>2. CASE found # {} /\ records' = [records EXCEPT ![Min(found)].exp = now + TTL]
  <2>1. PICK i \in DOMAIN records : i = Min(found)
    <3>1. found \in SUBSET Nat
      BY <1>1
    <3>2. QED
      BY <1>2, <3>1, MinIn, Zenon
  <2> DEFINE rec == [records[i] EXCEPT !.exp = now + TTL]
  <2>2. records[i] \in Record
    BY <1>1
  <2>3. /\ rec \in Record /\ rec.host = records[i].host /\ rec.hop = records[i].hop
        /\ rec.hop # None => rec.hash = None
    BY <1>1, <2>2, Zenon DEF Record, IInv, HopsUnnamed
  <2>4. records' = [records EXCEPT ![i] = rec]
    BY <1>2, <2>1
  <2> HIDE DEF rec
  <2>5. QED
    BY <2>3, <2>4, FieldsKept, Zenon
<1>3. CASE found = {} /\ HasRoom /\ records' = Append(records, NewHop(k, n, id))
  <2> DEFINE rec == NewHop(k, n, id)
  <2>1. rec \in Record /\ rec.host = None /\ rec.hop = k /\ rec.hash = None
    BY <1>1, RegistryAssumption DEF Record, NewHop
  <2>2. \A i \in DOMAIN records : records[i].hop # rec.hop
    BY <1>3, <2>1
  <2>3. records' = Append(records, rec)
    BY <1>3
  <2> HIDE DEF rec
  <2>4. QED
    BY <1>3, <2>1, <2>2, <2>3, Appended
<1>4. QED
  BY <1>2, <1>3 DEF portillia_registry_register_hop


(* A step that leaves the array and the janitor alone.                     *)
LEMMA ArrayKept ==
  ASSUME IInv, UNCHANGED <<records, mu, sweep>>
  PROVE  OneRecordPerName' /\ SweepRight' /\ HopsUnnamed'
  BY DEF IInv, OneRecordPerName, SweepRight, SweepThorough, HopsUnnamed

(* Every step keeps the invariant, action by action.                       *)
LEMMA NextInv == IInv /\ [Next]_vars => IInv'
<1> SUFFICES ASSUME IInv, [Next]_vars PROVE IInv'
  OBVIOUS
<1>1. ASSUME NEW w \in Worker, NEW h \in Host, NEW id \in Identity, NEW b \in Asked,
             NEW hash \in Hash,
             handle_register(w, h, id, b, hash)
      PROVE  IInv'
  <2> DEFINE j == [pc |-> "check", op |-> "register", host |-> h, id |-> id,
                   bps |-> b, hash |-> hash, calls |-> 2]
  <2>1. j \in JobType /\ j.host \in Host /\ j.id \in Identity /\ j.calls \in 1..2
    BY RegistryAssumption DEF JobType
  <2>2. job' = [job EXCEPT ![w] = j] /\ UNCHANGED <<records, mu, sweep, now, token, settings>>
    BY <1>1 DEF handle_register
  <2> HIDE DEF j
  <2>3. job' \in [Worker -> JobType] /\ JobsBound'
    BY <2>1, <2>2, JobStep, Zenon
  <2>4. QED
    BY <2>2, <2>3, ArrayKept DEF IInv, TypeOK, settings
<1>2. ASSUME NEW w \in Worker, NEW h \in Host, NEW id \in Identity, handle_renew(w, h, id)
      PROVE  IInv'
  <2> DEFINE j == [pc |-> "check", op |-> "renew", host |-> h, id |-> id,
                   bps |-> 0, hash |-> None, calls |-> 1]
  <2>1. j \in JobType /\ j.host \in Host /\ j.id \in Identity /\ j.calls \in 1..2
    BY RegistryAssumption DEF JobType
  <2>2. job' = [job EXCEPT ![w] = j] /\ UNCHANGED <<records, mu, sweep, now, token, settings>>
    BY <1>2 DEF handle_renew
  <2> HIDE DEF j
  <2>3. job' \in [Worker -> JobType] /\ JobsBound'
    BY <2>1, <2>2, JobStep, Zenon
  <2>4. QED
    BY <2>2, <2>3, ArrayKept DEF IInv, TypeOK, settings
<1>3. ASSUME NEW w \in Worker, check_allowed(w) PROVE IInv'
  <2>1. job[w].pc = "check" /\ UNCHANGED <<records, mu, sweep, now, token, settings>>
    BY <1>3 DEF check_allowed
  <2>2. CASE job' = [job EXCEPT ![w].pc = "locked"]
    <3> DEFINE j == [job[w] EXCEPT !.pc = "locked"]
    <3>1. job[w] \in JobType /\ job[w].host \in Host /\ job[w].id \in Identity /\ job[w].calls \in 1..2
      BY <2>1 DEF IInv, TypeOK, JobsBound
    <3>2. /\ j \in JobType /\ j.host \in Host /\ j.id \in Identity /\ j.calls \in 1..2
          /\ job' = [job EXCEPT ![w] = j]
      BY <2>2, <3>1 DEF JobType
    <3> HIDE DEF j
    <3>3. job' \in [Worker -> JobType] /\ JobsBound'
      BY <3>2, JobStep, Zenon
    <3>4. QED
      BY <2>1, <3>3, ArrayKept DEF IInv, TypeOK, settings
  <2>3. CASE job' = Called(w)
    <3>1. job' \in [Worker -> JobType] /\ JobsBound'
      BY <2>1, <2>3, CalledStep
    <3>2. QED
      BY <2>1, <3>1, ArrayKept DEF IInv, TypeOK, settings
  <2>4. QED
    BY <1>3, <2>2, <2>3 DEF check_allowed
<1>4. ASSUME NEW w \in Worker, lease_registry_register(w) PROVE IInv'
  <2> DEFINE hash == IF job[w].calls = 1 THEN job[w].hash ELSE None
  <2>1. /\ job[w].pc = "locked" /\ mu = "free" /\ job' = Called(w)
        /\ register_locked(job[w], hash) /\ UNCHANGED <<mu, sweep, now, token, settings>>
    BY <1>4 DEF lease_registry_register
  <2>2. /\ job[w] \in JobType /\ job[w].host \in Host /\ job[w].id \in Identity
        /\ hash \in Host \cup {None}
    BY <2>1 DEF IInv, TypeOK, JobsBound, JobType
  <2> HIDE DEF hash
  <2>3. /\ records' \in Seq(Record) /\ Len(records') <= MAX_RECORDS
        /\ OneRecordPerName' /\ HopsUnnamed'
    BY <2>1, <2>2, RegisterLocked
  <2>4. job' \in [Worker -> JobType] /\ JobsBound'
    BY <2>1, CalledStep
  <2>5. SweepRight'
    BY <2>1 DEF SweepRight, SweepThorough
  <2>6. QED
    BY <2>1, <2>3, <2>4, <2>5 DEF IInv, TypeOK, settings
<1>5. ASSUME NEW w \in Worker, reply(w) PROVE IInv'
  <2>1. Idle \in JobType /\ Idle.pc = "idle"
    BY RegistryAssumption DEF Idle, JobType
  <2>2. job' \in [Worker -> JobType] /\ JobsBound'
    BY <1>5, <2>1, JobStep, Zenon DEF reply
  <2>3. token' \in SUBSET (Host \X Renewer)
    BY <1>5 DEF reply, IInv, TypeOK
  <2>4. QED
    BY <1>5, <2>2, <2>3, ArrayKept DEF reply, IInv, TypeOK, settings
<1>6. ASSUME NEW k \in HopToken, NEW n \in NextHop, NEW id \in HopOwner,
             portillia_registry_register_hop(k, n, id)
      PROVE  IInv'
  <2>1. id \in Identity
    BY RegistryAssumption
  <2>2. mu = "free" /\ UNCHANGED <<mu, sweep, now, job, token, settings>>
    BY <1>6 DEF portillia_registry_register_hop
  <2>3. /\ records' \in Seq(Record) /\ Len(records') <= MAX_RECORDS
        /\ OneRecordPerName' /\ HopsUnnamed'
    BY <1>6, <2>1, RegisterHop
  <2>4. SweepRight' /\ JobsBound'
    BY <2>2 DEF SweepRight, SweepThorough, IInv, JobsBound
  <2>5. QED
    BY <2>2, <2>3, <2>4 DEF IInv, TypeOK, settings
<1>7. ASSUME NEW id \in Admin, admin_settings(id) PROVE IInv'
  <2>1. id \in Identity
    BY RegistryAssumption
  <2>2. banned' \in SUBSET Identity /\ approved' \in SUBSET Identity /\ manual' \in BOOLEAN
    BY <1>7, <2>1, Zenon DEF admin_settings, IInv, TypeOK
  <2>3. UNCHANGED <<records, mu, sweep, now, job, token>>
    BY <1>7 DEF admin_settings
  <2>4. QED
    BY <2>2, <2>3, ArrayKept DEF IInv, TypeOK, JobsBound
<1>8. ASSUME NEW id \in Admin, NEW b \in Bps \ {0}, portillia_registry_update_bps(id, b)
      PROVE  IInv'
  <2> DEFINE found == {i \in DOMAIN records : records[i].id = id}
  <2>1. /\ mu = "free" /\ found # {} /\ records' = [records EXCEPT ![Min(found)].bps = b]
        /\ UNCHANGED <<mu, sweep, now, job, token, settings>>
    BY <1>8 DEF portillia_registry_update_bps
  <2>2. records \in Seq(Record)
    BY DEF IInv, TypeOK
  <2>3. PICK i \in DOMAIN records : i = Min(found)
    <3>1. found \in SUBSET Nat
      BY <2>2
    <3>2. QED
      BY <2>1, <3>1, MinIn, Zenon
  <2> DEFINE rec == [records[i] EXCEPT !.bps = b]
  <2>4. records[i] \in Record
    BY <2>2
  <2>5. /\ rec \in Record /\ rec.host = records[i].host /\ rec.hop = records[i].hop
        /\ rec.hop # None => rec.hash = None
    BY <2>4 DEF Record, IInv, HopsUnnamed
  <2>6. records' = [records EXCEPT ![i] = rec]
    BY <2>1, <2>3
  <2> HIDE DEF rec, found
  <2>7. /\ records' \in Seq(Record) /\ Len(records') <= MAX_RECORDS
        /\ OneRecordPerName' /\ HopsUnnamed'
    BY <2>5, <2>6, FieldsKept, Zenon
  <2>8. SweepRight' /\ JobsBound'
    BY <2>1 DEF SweepRight, SweepThorough, IInv, JobsBound
  <2>9. QED
    BY <2>1, <2>7, <2>8 DEF IInv, TypeOK, settings
<1>9. CASE janitor_lock
  <2>1. mu' = "janitor" /\ sweep' = [i |-> 1, t |-> now] /\ UNCHANGED <<records, now, job, token, settings>>
    BY <1>9 DEF janitor_lock
  <2>2. records \in Seq(Record) /\ now \in Nat
    BY RegistryAssumption DEF IInv, TypeOK
  <2>3. sweep' \in [i: Nat, t: Nat] /\ sweep'.i = 1
    BY <2>1, <2>2
  <2>4. SweepRight'
    BY <2>1, <2>2, <2>3 DEF SweepRight, SweepThorough
  <2>5. OneRecordPerName' /\ HopsUnnamed' /\ JobsBound'
    <3>1. OneRecordPerName' /\ HopsUnnamed'
      BY <2>1 DEF IInv, OneRecordPerName, HopsUnnamed
    <3>2. JobsBound'
      BY <2>1 DEF IInv, JobsBound
    <3>3. QED
      BY <3>1, <3>2
  <2>6. QED
    BY <2>1, <2>3, <2>4, <2>5 DEF IInv, TypeOK, settings
<1>10. CASE janitor_step
  <2>1. mu = "janitor" /\ sweep.i <= Len(records) /\ UNCHANGED <<mu, now, job, token, settings>>
    BY <1>10 DEF janitor_step
  <2>2. records \in Seq(Record) /\ sweep \in [i: Nat, t: Nat]
    BY DEF IInv, TypeOK
  <2>3. \A i \in DOMAIN records : i < sweep.i => records[i].exp > sweep.t
    BY <2>1 DEF IInv, SweepRight, SweepThorough
  <2>4. JobsBound'
    BY <2>1 DEF IInv, JobsBound
  <2>5. CASE sweep.i \in DOMAIN records /\ records' = SwapLast(sweep.i) /\ sweep' = sweep
    <3>1. /\ records' \in Seq(Record) /\ Len(records') <= MAX_RECORDS
          /\ OneRecordPerName' /\ HopsUnnamed'
          /\ \A i \in DOMAIN records' : i < sweep.i => i \in DOMAIN records /\ records'[i] = records[i]
      BY <2>5, Swapped
    <3>2. SweepRight'
      BY <2>3, <2>5, <3>1 DEF SweepRight, SweepThorough
    <3>3. QED
      BY <2>1, <2>2, <2>4, <2>5, <3>1, <3>2, Zenon DEF IInv, TypeOK, settings
  <2>6. CASE ~Expired(records[sweep.i]) /\ sweep' = [sweep EXCEPT !.i = @ + 1] /\ UNCHANGED records
    <3>1. sweep' \in [i: Nat, t: Nat] /\ sweep'.i = sweep.i + 1 /\ sweep'.t = sweep.t
      BY <2>2, <2>6
    <3>2. \A i \in DOMAIN records : i < sweep.i + 1 => i < sweep.i \/ i = sweep.i
      BY <2>2
    <3>3. \A i \in DOMAIN records : i = sweep.i => records[i].exp > sweep.t
      <4>1. \A i \in DOMAIN records : records[i].exp \in Nat
        <5>1. MaxTime + TTL \in Nat
          BY RegistryAssumption
        <5>2. \A i \in DOMAIN records : records[i] \in Record
          BY <2>2
        <5>3. QED
          BY <5>1, <5>2 DEF Record
      <4>2. QED
        BY <2>2, <2>6, <4>1 DEF Expired
    <3>4. SweepRight'
      <4>1. sweep'.i >= 1
        BY <2>2, <3>1
      <4>2. \A i \in DOMAIN records : i < sweep'.i => records[i].exp > sweep'.t
        BY <2>3, <3>1, <3>2, <3>3
      <4>3. QED
        BY <2>6, <4>1, <4>2 DEF SweepRight, SweepThorough
    <3>5. OneRecordPerName' /\ HopsUnnamed'
      BY <2>6 DEF IInv, OneRecordPerName, HopsUnnamed
    <3>6. QED
      BY <2>1, <2>4, <2>6, <3>1, <3>4, <3>5 DEF IInv, TypeOK, settings
  <2>7. sweep.i \in DOMAIN records
    BY <2>1, <2>2 DEF IInv, SweepRight
  <2>8. [sweep EXCEPT !.i = sweep.i] = sweep
    BY <2>2
  <2>9. QED
    BY <1>10, <2>5, <2>6, <2>7, <2>8 DEF janitor_step, Again
<1>11. CASE janitor_unlock
  <2>1. mu' = "free" /\ sweep' \in [i: Nat, t: Nat] /\ UNCHANGED <<records, now, job, token, settings>>
    BY <1>11 DEF janitor_unlock
  <2>2. SweepRight' /\ OneRecordPerName' /\ HopsUnnamed' /\ JobsBound'
    <3>1. OneRecordPerName' /\ HopsUnnamed'
      BY <2>1 DEF IInv, OneRecordPerName, HopsUnnamed
    <3>2. JobsBound' /\ SweepRight'
      BY <2>1 DEF IInv, JobsBound, SweepRight, SweepThorough
    <3>3. QED
      BY <3>1, <3>2
  <2>3. QED
    BY <2>1, <2>2 DEF IInv, TypeOK, settings
<1>12. CASE tick
  <2>1. now' \in 0..MaxTime /\ UNCHANGED <<records, mu, sweep, job, token, settings>>
    BY <1>12, RegistryAssumption DEF tick, IInv, TypeOK
  <2>2. QED
    BY <2>1, ArrayKept DEF IInv, TypeOK, JobsBound, settings
<1>13. CASE UNCHANGED vars
  BY <1>13, ArrayKept DEF vars, IInv, TypeOK, JobsBound, settings
<1>14. QED
  BY <1>1, <1>2, <1>3, <1>4, <1>5, <1>6, <1>7, <1>8, <1>9, <1>10, <1>11, <1>12, <1>13, Zenon
     DEF Next, Handler, Janitor, handle_unregister

(* The invariant holds throughout.                                         *)
THEOREM Invariance == Spec => []IInv
  BY InitInv, NextInv, PTL DEF Spec

(* What lease_registry_lookup returns is a lease: it matched by a host     *)
(* name or a hostname hash, and hop records have neither.                  *)
LEMMA LookupFindsLease == IInv => LookupHasStream
<1> SUFFICES ASSUME IInv, NEW h \in Host, lease_registry_lookup(h) # 0
             PROVE  records[lease_registry_lookup(h)].hop = None
  BY DEF LookupHasStream
<1>1. records \in Seq(Record) /\ None \notin Host /\ Matches \subseteq Host \X Host
  BY RegistryAssumption DEF IInv, TypeOK
<1>2. ASSUME NEW F \in SUBSET DOMAIN records, FirstLive(F) # 0 PROVE FirstLive(F) \in F
  <2> DEFINE alive == {i \in F : records[i].exp > now}
  <2>1. alive \in SUBSET Nat
    BY <1>1
  <2>2. alive # {} /\ FirstLive(F) = Min(alive)
    BY <1>2 DEF FirstLive
  <2>3. Min(alive) \in alive
    BY <2>1, <2>2, MinIn
  <2>4. QED
    BY <2>2, <2>3
<1> DEFINE hashed == {i \in DOMAIN records : records[i].hash = h}
           pattern == {i \in DOMAIN records : <<records[i].host, h>> \in Matches}
<1>3. \E F \in {FindHost(h), hashed, pattern} :
        lease_registry_lookup(h) = FirstLive(F) /\ F \in SUBSET DOMAIN records
  BY DEF lease_registry_lookup, FindHost
<1>4. lease_registry_lookup(h) \in FindHost(h) \cup hashed \cup pattern
  BY <1>2, <1>3
<1>5. \A i \in FindHost(h) \cup hashed \cup pattern : records[i].hop = None
  BY <1>1 DEF FindHost, IInv, HopsUnnamed
<1>6. QED
  BY <1>4, <1>5

(* However registrations, renewals, hops and expiry interleave with the    *)
(* janitor: the array of r->records stays within MAX_RECORDS, no two       *)
(* records share a name, what a lookup returns has a stream, and a pass of *)
(* the janitor leaves nothing expired behind.                              *)
THEOREM RegistrySafe == Spec => []RegistryInv
<1>1. IInv => RegistryInv
  BY LookupFindsLease DEF IInv, SweepRight, RegistryInv
<1>2. QED
  BY <1>1, Invariance, PTL

-------------------------------------------------------------------------------
(* LiveLeaseKept.                                                          *)

(* The janitor compares expiry times with a clock it read at the start of  *)
(* its pass: the reading is old, never early.                              *)
ClockRead == mu = "janitor" => sweep.t <= now

(* The lease in place i is still somewhere in the array, with its owner.   *)
Kept(i) ==
  \E k \in DOMAIN records' :
    /\ records'[k].host = records[i].host /\ records'[k].id = records[i].id
    /\ records'[k].exp > now

(* Time never runs backwards, and the janitor keeps its reading.           *)
LEMMA ClockStep == IInv /\ ClockRead /\ [Next]_vars => ClockRead'
<1> SUFFICES ASSUME IInv, ClockRead, [Next]_vars PROVE ClockRead'
  OBVIOUS
<1>1. now \in Nat /\ sweep \in [i: Nat, t: Nat]
  BY RegistryAssumption DEF IInv, TypeOK
<1>2. CASE UNCHANGED <<mu, sweep, now>>
  BY <1>2 DEF ClockRead
<1>3. CASE janitor_lock
  BY <1>1, <1>3 DEF janitor_lock, ClockRead
<1>4. CASE janitor_step
  BY <1>1, <1>4 DEF janitor_step, ClockRead, Again
<1>5. CASE janitor_unlock
  BY <1>5 DEF janitor_unlock, ClockRead
<1>6. CASE tick
  BY <1>1, <1>6 DEF tick, ClockRead
<1>7. ASSUME NEW w \in Worker, Handler(w) PROVE UNCHANGED <<mu, sweep, now>>
  BY <1>7 DEF Handler, check_allowed, lease_registry_register, reply
<1>8. ASSUME NEW w \in Worker, NEW h \in Host, NEW id \in Identity,
             handle_renew(w, h, id) \/ \E b \in Asked, hash \in Hash : handle_register(w, h, id, b, hash)
      PROVE  UNCHANGED <<mu, sweep, now>>
  BY <1>8, Zenon DEF handle_register, handle_renew
<1>9. ASSUME NEW id, NEW h, handle_unregister(h, id) PROVE UNCHANGED <<mu, sweep, now>>
  BY <1>9 DEF handle_unregister, vars
<1>10. ASSUME NEW k, NEW n, NEW id, portillia_registry_register_hop(k, n, id)
       PROVE  UNCHANGED <<mu, sweep, now>>
  BY <1>10 DEF portillia_registry_register_hop
<1>11. ASSUME NEW id, admin_settings(id) PROVE UNCHANGED <<mu, sweep, now>>
  BY <1>11 DEF admin_settings
<1>12. ASSUME NEW id, NEW b, portillia_registry_update_bps(id, b)
       PROVE  UNCHANGED <<mu, sweep, now>>
  BY <1>12 DEF portillia_registry_update_bps
<1>13. CASE UNCHANGED vars
  BY <1>2, <1>13 DEF vars
<1>14. QED
  BY <1>2, <1>3, <1>4, <1>5, <1>6, <1>7, <1>8, <1>9, <1>10, <1>11, <1>12, <1>13
     DEF Next, Janitor

(* A step that changes one record in place keeps the lease, unless it      *)
(* takes the owner or the time from it.                                    *)
LEMMA KeptInPlace ==
  ASSUME IInv, NEW k \in DOMAIN records, NEW rec, records' = [records EXCEPT ![k] = rec],
         rec.host = records[k].host, rec.id = records[k].id,
         rec.exp > now \/ rec.exp = records[k].exp,
         NEW i \in DOMAIN records, records[i].exp > now
  PROVE  Kept(i)
<1>1. i \in DOMAIN records' /\ records'[i] = IF i = k THEN rec ELSE records[i]
  BY DEF IInv, TypeOK
<1>2. QED
  BY <1>1 DEF Kept

(* A registration that finds no record of its name appends one.            *)
LEMMA KeptByAppend ==
  ASSUME IInv, NEW rec, records' = Append(records, rec), NEW i \in DOMAIN records,
         records[i].exp > now
  PROVE  Kept(i)
<1>1. i \in DOMAIN records' /\ records'[i] = records[i]
  <2>1. records \in Seq(Record)
    BY Zenon DEF IInv, TypeOK
  <2>2. QED
    BY <2>1
<1>2. QED
  BY <1>1 DEF Kept

(* The janitor removes one record, and may move the last.                  *)
LEMMA KeptBySwap ==
  ASSUME IInv, NEW k \in DOMAIN records, records' = SwapLast(k),
         NEW i \in DOMAIN records, i # k, records[i].exp > now
  PROVE  Kept(i)
<1>1. PICK n \in Nat : n = Len(records) /\ records \in Seq(Record)
  BY DEF IInv, TypeOK
<1> DEFINE moved == [records EXCEPT ![k] = records[n]]
<1>2. n >= 1 /\ k \in 1..n /\ i \in 1..n
  BY <1>1
<1>3. moved \in Seq(Record) /\ Len(moved) = n
  BY <1>1, <1>2
<1>4. records' = SubSeq(moved, 1, n - 1)
  BY <1>1 DEF SwapLast
<1>5. \A j \in 1..n : moved[j] = IF j = k THEN records[n] ELSE records[j]
  BY <1>1
<1> HIDE DEF moved
<1>6. DOMAIN records' = 1..n - 1 /\ \A j \in 1..n - 1 : records'[j] = moved[j]
  BY <1>2, <1>3, <1>4
<1>7. CASE i = n
  <2>1. k \in 1..n - 1
    BY <1>2, <1>7
  <2>2. records'[k] = records[n]
    BY <1>2, <1>5, <1>6, <2>1
  <2>3. QED
    BY <1>6, <1>7, <2>1, <2>2 DEF Kept
<1>8. CASE i # n
  <2>1. i \in 1..n - 1
    BY <1>2, <1>8
  <2>2. records'[i] = records[i]
    BY <1>2, <1>5, <1>6, <2>1
  <2>3. QED
    BY <1>6, <2>1, <2>2 DEF Kept
<1>9. QED
  BY <1>7, <1>8

(* One call of lease_registry_register refreshes or appends.               *)
LEMMA KeptByRegister ==
  ASSUME IInv, NEW j \in JobType, NEW hash \in Host \cup {None}, register_locked(j, hash),
         NEW i \in DOMAIN records, records[i].exp > now
  PROVE  Kept(i)
<1>1. records \in Seq(Record) /\ now \in Nat /\ TTL \in Nat \ {0} /\ now + TTL > now
  <2>1. records \in Seq(Record) /\ now \in 0..MaxTime /\ TTL \in Nat \ {0} /\ MaxTime \in Nat
    BY RegistryAssumption, Zenon DEF IInv, TypeOK
  <2>2. QED
    BY <2>1
<1>2. ASSUME NEW k \in FindHost(j.host), Refresh(k, j, hash) PROVE Kept(i)
  <2> DEFINE rec == [records[k] EXCEPT !.exp = now + TTL, !.bps = j.bps,
                                       !.hash = IF hash = None THEN @ ELSE hash]
  <2>1. k \in DOMAIN records /\ records[k] \in Record
    BY <1>1 DEF FindHost
  <2>2. records' = [records EXCEPT ![k] = rec]
    BY <1>1, <1>2, <2>1, Zenon DEF Refresh, Record
  <2>3. rec.host = records[k].host /\ rec.id = records[k].id /\ rec.exp > now
    BY <1>1, <2>1 DEF Record
  <2> HIDE DEF rec
  <2>4. QED
    BY <2>1, <2>2, <2>3, KeptInPlace, Zenon
<1>3. CASE FindHost(j.host) = {} /\ HasRoom /\ ~UNCHANGED records
  BY <1>3, KeptByAppend, Zenon DEF register_locked
<1>4. CASE UNCHANGED records
  BY <1>4 DEF Kept
<1>5. QED
  BY <1>2, <1>3, <1>4, Zenon DEF register_locked

(* Whatever the step, a lease that is alive is still there after it.       *)
LEMMA LeaseStep ==
  ASSUME IInv, ClockRead, [Next]_vars, NEW i \in DOMAIN records, records[i].exp > now
  PROVE  Kept(i)
<1>0. /\ records \in Seq(Record) /\ now \in Nat /\ sweep \in [i: Nat, t: Nat] /\ TTL \in Nat \ {0}
      /\ now + TTL > now
      /\ \A k \in DOMAIN records : records[k] \in Record /\ records[k].exp \in Nat
  <2>1. records \in Seq(Record) /\ now \in Nat /\ sweep \in [i: Nat, t: Nat] /\ TTL \in Nat \ {0}
        /\ MaxTime + TTL \in Nat
    BY RegistryAssumption DEF IInv, TypeOK
  <2>2. \A k \in DOMAIN records : records[k] \in Record
    BY <2>1
  <2>3. \A k \in DOMAIN records : records[k].exp \in Nat
    BY <2>1, <2>2 DEF Record
  <2>4. QED
    BY <2>1, <2>2, <2>3
<1>1. CASE UNCHANGED records
  BY <1>1 DEF Kept
<1>2. ASSUME NEW w \in Worker, lease_registry_register(w) PROVE Kept(i)
  <2> DEFINE hash == IF job[w].calls = 1 THEN job[w].hash ELSE None
  <2>1. register_locked(job[w], hash)
    BY <1>2, Zenon DEF lease_registry_register
  <2>2. job[w] \in JobType /\ hash \in Host \cup {None}
    BY Zenon DEF IInv, TypeOK, JobType
  <2> HIDE DEF hash
  <2>3. QED
    BY <2>1, <2>2, KeptByRegister
<1>3. ASSUME NEW k, NEW n, NEW id, portillia_registry_register_hop(k, n, id) PROVE Kept(i)
  <2> DEFINE found == {m \in DOMAIN records : records[m].hop = k}
  <2>1. CASE found # {} /\ records' = [records EXCEPT ![Min(found)].exp = now + TTL]
    <3>1. PICK m \in DOMAIN records : m = Min(found)
      <4>1. found \in SUBSET Nat
        BY <1>0
      <4>2. QED
        BY <2>1, <4>1, MinIn, Zenon
    <3> DEFINE rec == [records[m] EXCEPT !.exp = now + TTL]
    <3>2. records' = [records EXCEPT ![m] = rec]
      BY <2>1, <3>1
    <3>3. rec.host = records[m].host /\ rec.id = records[m].id /\ rec.exp > now
      BY <1>0 DEF Record
    <3> HIDE DEF rec
    <3>4. QED
      BY <3>2, <3>3, KeptInPlace, Zenon
  <2>2. CASE records' = Append(records, NewHop(k, n, id))
    BY <2>2, KeptByAppend
  <2>3. QED
    BY <1>3, <2>1, <2>2 DEF portillia_registry_register_hop
<1>4. ASSUME NEW id, NEW b, portillia_registry_update_bps(id, b) PROVE Kept(i)
  <2> DEFINE found == {m \in DOMAIN records : records[m].id = id}
  <2>1. found # {} /\ records' = [records EXCEPT ![Min(found)].bps = b]
    BY <1>4 DEF portillia_registry_update_bps
  <2>2. PICK m \in DOMAIN records : m = Min(found)
    <3>1. found \in SUBSET Nat
      BY <1>0
    <3>2. QED
      BY <2>1, <3>1, MinIn, Zenon
  <2> DEFINE rec == [records[m] EXCEPT !.bps = b]
  <2>3. records' = [records EXCEPT ![m] = rec]
    BY <2>1, <2>2
  <2>4. rec.host = records[m].host /\ rec.id = records[m].id /\ rec.exp = records[m].exp
    BY <1>0 DEF Record
  <2> HIDE DEF rec, found
  <2>5. QED
    BY <2>3, <2>4, KeptInPlace, Zenon
<1>5. CASE janitor_step
  <2>1. CASE Expired(records[sweep.i])
    <3>1. sweep.i \in DOMAIN records /\ records' = SwapLast(sweep.i) /\ sweep.t <= now
      BY <1>0, <1>5, <2>1 DEF janitor_step, ClockRead, IInv, SweepRight
    <3>2. i # sweep.i
      BY <1>0, <2>1, <3>1 DEF Expired
    <3>3. QED
      BY <3>1, <3>2, KeptBySwap
  <2>2. CASE ~Expired(records[sweep.i])
    BY <1>1, <1>5, <2>2 DEF janitor_step
  <2>3. QED
    BY <2>1, <2>2
<1>6. CASE janitor_lock \/ janitor_unlock \/ tick \/ UNCHANGED vars
  BY <1>1, <1>6, Zenon DEF janitor_lock, janitor_unlock, tick, vars
<1>7. ASSUME NEW w \in Worker, Handler(w) PROVE Kept(i)
  BY <1>1, <1>2, <1>7 DEF Handler, check_allowed, reply
<1>8. ASSUME NEW w \in Worker, NEW h \in Host, NEW id \in Identity,
             handle_renew(w, h, id) \/ \E b \in Asked, hash \in Hash : handle_register(w, h, id, b, hash)
      PROVE  Kept(i)
  BY <1>1, <1>8, Zenon DEF handle_register, handle_renew
<1>9. ASSUME NEW id, NEW h, handle_unregister(h, id) PROVE Kept(i)
  BY <1>1, <1>9 DEF handle_unregister, vars
<1>10. ASSUME NEW id, admin_settings(id) PROVE Kept(i)
  BY <1>1, <1>10, Zenon DEF admin_settings
<1>11. QED
  BY <1>3, <1>4, <1>5, <1>6, <1>7, <1>8, <1>9, <1>10, Zenon DEF Next, Janitor

(* A lease that is alive neither disappears nor changes owner, whatever    *)
(* the janitor moves and whoever registers, renews or routes meanwhile.    *)
THEOREM LeasesKept == Spec => LiveLeaseKept
<1>1. Init => ClockRead
  BY DEF Init, ClockRead
<1>2. IInv /\ ClockRead /\ [Next]_vars
        => [\A h \in Host : now' = now => LiveOwner(h) \subseteq LiveOwner(h)']_vars
  <2> SUFFICES ASSUME IInv, ClockRead, [Next]_vars, NEW h \in Host, now' = now, NEW o \in LiveOwner(h)
               PROVE  o \in LiveOwner(h)'
    OBVIOUS
  <2>1. PICK i \in DOMAIN records : records[i].host = h /\ records[i].exp > now /\ records[i].id = o
    BY DEF LiveOwner, FindLiveHost
  <2>2. Kept(i)
    BY <2>1, LeaseStep
  <2>3. PICK k \in DOMAIN records' : records'[k].host = h /\ records'[k].id = o /\ records'[k].exp > now'
    BY <2>1, <2>2 DEF Kept
  <2>4. QED
    BY <2>3, Zenon DEF LiveOwner, FindLiveHost
<1>3. QED
  BY <1>1, <1>2, ClockStep, Invariance, PTL DEF Spec, LiveLeaseKept

-------------------------------------------------------------------------------
(* The store of register challenges, which a registration has to answer    *)
(* before it reaches the registry.  The store is a component of its own,   *)
(* with its own variables.                                                 *)

(* A challenge that was consumed is gone from the store, every challenge   *)
(* in the store was handed out, a request names one that was, and a        *)
(* request that came too late has found nothing.                           *)
ChallengesSound ==
  /\ \A i \in Slot : slot[i] # NoChallenge => slot[i] \in issued
  /\ \A r \in Request : req[r].pc # "idle" => req[r].c \in issued
  /\ \A c \in Challenge : Consumed(c) => Find(c) = {}
  /\ \A r \in Request : req[r].late => req[r].pc = "not_found"

ChallengeInv == ChallengeKept /\ ChallengesSound

(* The store starts empty.                                                *)
LEMMA ChallengeInit == StoreInit => ChallengeInv
<1> SUFFICES ASSUME StoreInit PROVE ChallengeInv
  OBVIOUS
<1>1. /\ issued = {} /\ \A i \in Slot : slot[i] = NoChallenge
      /\ \A r \in Request : req[r] = IdleRequest
  BY DEF StoreInit
<1>2. StoreTypeOK
  BY DEF StoreInit, StoreTypeOK, IdleRequest, ReqState
<1>3. \A r \in Request : req[r].pc = "idle" /\ ~req[r].late
  BY <1>1 DEF IdleRequest
<1>4. ChallengeKept
  BY <1>1, <1>2, Zenon DEF ChallengeKept
<1>5. \A c \in Challenge : ~Consumed(c)
  BY <1>3 DEF Consumed
<1>6. ChallengesSound
  BY <1>1, <1>3, <1>5 DEF ChallengesSound
<1>7. QED
  BY <1>4, <1>6, Zenon DEF ChallengeInv

(* store_register_challenge overwrites an entry only in a full store.      *)
LEMMA ChallengeStored ==
  ASSUME ChallengeInv, NEW c \in Challenge, store_register_challenge(c)
  PROVE  ChallengeInv'
<1> USE StoreAssumption
<1>1. PICK i \in Target : /\ slot' = [slot EXCEPT ![i] = c]
                          /\ evicted' = IF Free = {} THEN evicted \cup {slot[i]} ELSE evicted
  BY Zenon DEF store_register_challenge, Put
<1>2. /\ i \in Slot /\ c \notin issued /\ issued' = issued \cup {c} /\ UNCHANGED <<expired, req>>
      /\ Free # {} => slot[i] = NoChallenge
  BY <1>1 DEF Target, Free, store_register_challenge
<1>3. /\ StoreTypeOK /\ slot \in [Slot -> Challenge \cup {NoChallenge}]
      /\ {issued, expired, evicted} \subseteq SUBSET Challenge
  BY DEF ChallengeInv, ChallengeKept, StoreTypeOK
<1>4. slot'[i] = c /\ \A j \in Slot : j # i => slot'[j] = slot[j]
  BY <1>1, <1>2, <1>3
<1>5. \A j \in Slot : slot[j] # c
  BY <1>2 DEF ChallengeInv, ChallengesSound
<1>6. StoreTypeOK'
  <2>1. slot' \in [Slot -> Challenge \cup {NoChallenge}]
    BY <1>1, <1>2, <1>3
  <2>2. \A j, k \in Slot : slot'[j] = slot'[k] /\ slot'[j] # NoChallenge => j = k
    BY <1>3, <1>4, <1>5 DEF StoreTypeOK
  <2>3. {issued', expired', evicted'} \subseteq SUBSET Challenge
    <3>1. Free = {} => slot[i] \in Challenge
      BY <1>2, <1>3 DEF Free
    <3>2. QED
      BY <1>1, <1>2, <1>3, <3>1
  <2>4. QED
    BY <1>2, <1>3, <2>1, <2>2, <2>3 DEF StoreTypeOK
<1>7. \A d \in Challenge : Consumed(d)' <=> Consumed(d)
  BY <1>2 DEF Consumed
<1>8. ASSUME NEW d \in issued' PROVE Find(d)' # {} \/ d \in evicted' \/ Consumed(d)'
  <2>1. CASE d = c
    BY <1>2, <1>4, <2>1 DEF Find
  <2>2. CASE d # c
    <3>1. d \in issued /\ d \in Challenge
      BY <1>2, <1>3, <1>8, <2>2
    <3>2. CASE d \in evicted \/ Consumed(d)
      BY <1>1, <1>7, <3>1, <3>2
    <3>3. ASSUME NEW j \in Slot, slot[j] = d PROVE Find(d)' # {} \/ d \in evicted'
      <4>1. CASE j = i
        BY <1>1, <1>2, <3>1, <3>3, <4>1
      <4>2. CASE j # i
        BY <1>4, <3>3, <4>2 DEF Find
      <4>3. QED
        BY <4>1, <4>2
    <3>4. QED
      BY <3>1, <3>2, <3>3 DEF ChallengeInv, ChallengeKept, Find
  <2>3. QED
    BY <2>1, <2>2
<1>9. ChallengesSound'
  <2>1. ASSUME NEW j \in Slot, slot'[j] # NoChallenge PROVE slot'[j] \in issued'
    <3>1. CASE j = i
      BY <1>2, <1>4, <3>1, Zenon
    <3>2. CASE j # i
      <4>1. slot'[j] = slot[j]
        BY <1>4, <3>2, Zenon
      <4>2. slot[j] \in issued
        BY <2>1, <4>1, Zenon DEF ChallengeInv, ChallengesSound
      <4>3. QED
        BY <1>2, <4>1, <4>2, Zenon
    <3>3. QED
      BY <3>1, <3>2, Zenon
  <2>2. \A r \in Request : req'[r].pc # "idle" => req'[r].c \in issued'
    BY <1>2, Zenon DEF ChallengeInv, ChallengesSound
  <2>3. ASSUME NEW d \in Challenge, Consumed(d)' PROVE Find(d)' = {}
    <3>1. Find(d) = {} /\ d # c
      <4>1. PICK q \in Request : req[q].c = d /\ req[q].pc # "idle"
        BY <1>2, <2>3, Zenon DEF Consumed
      <4>2. d \in issued
        BY <4>1, Zenon DEF ChallengeInv, ChallengesSound
      <4>3. QED
        BY <1>2, <1>7, <2>3, <4>2, Zenon DEF ChallengeInv, ChallengesSound
    <3>2. QED
      BY <1>4, <3>1 DEF Find
  <2>4. QED
    BY <1>2, <2>1, <2>2, <2>3, Zenon DEF ChallengeInv, ChallengesSound
<1>10. QED
  BY <1>6, <1>8, <1>9 DEF ChallengeInv, ChallengeKept

(* What a step of one request does to the requests.                        *)
LEMMA RequestMoved ==
  ASSUME ChallengeInv, NEW r \in Request, NEW v \in ReqState, req' = [req EXCEPT ![r].pc = v]
  PROVE  /\ req' \in [Request -> [pc: ReqState, c: Challenge \cup {NoChallenge},
                                  at: Slot \cup {0}, late: BOOLEAN]]
         /\ req'[r].pc = v /\ req'[r].c = req[r].c /\ req'[r].late = req[r].late
         /\ \A q \in Request : q # r => req'[q] = req[q]
BY DEF ChallengeInv, ChallengeKept, StoreTypeOK

(* The steps of /sdk/register up to the verdict leave the store as it is.  *)
LEMMA ChallengeRead ==
  ASSUME ChallengeInv, UNCHANGED <<slot, issued, evicted>>, expired' \in SUBSET Challenge,
         req' \in [Request -> [pc: ReqState, c: Challenge \cup {NoChallenge},
                               at: Slot \cup {0}, late: BOOLEAN]],
         \A c \in Challenge : Consumed(c)' <=> Consumed(c),
         \A r \in Request : req'[r].pc # "idle" => req'[r].c \in issued,
         \A r \in Request : req'[r].late => req'[r].pc = "not_found"
  PROVE  ChallengeInv'
<1>1. StoreTypeOK'
  BY DEF ChallengeInv, ChallengeKept, StoreTypeOK
<1>2. \A c \in Challenge : Find(c)' = Find(c)
  BY DEF Find
<1>3. issued \subseteq Challenge
  BY DEF ChallengeInv, ChallengeKept, StoreTypeOK
<1>4. QED
  BY <1>1, <1>2, <1>3, Zenon DEF ChallengeInv, ChallengeKept, ChallengesSound

(* register_snapshot: a challenge that was consumed, or has expired, is    *)
(* not found.                                                              *)
LEMMA ChallengeLookedUp ==
  ASSUME ChallengeInv, NEW r \in Request, NEW c \in Challenge, register_snapshot(r, c)
  PROVE  ChallengeInv'
<1>1. req[r].pc = "idle" /\ c \in issued /\ UNCHANGED <<slot, issued, expired, evicted>>
  BY DEF register_snapshot
<1> DEFINE pc == IF Found(c) THEN "snapshot" ELSE "not_found"
           at == IF Found(c) THEN CHOOSE i \in Find(c) : TRUE ELSE 0
           late == Consumed(c) \/ c \in expired
<1>2. req' = [req EXCEPT ![r] = [pc |-> pc, c |-> c, at |-> at, late |-> late]]
  BY Zenon DEF register_snapshot
<1>3. at \in Slot \cup {0} /\ late \in BOOLEAN /\ pc \in {"snapshot", "not_found"}
  BY DEF Found, Find
<1>4. late => pc = "not_found"
  BY Zenon DEF Found, ChallengeInv, ChallengesSound
<1> HIDE DEF pc, at, late
<1>5. req \in [Request -> [pc: ReqState, c: Challenge \cup {NoChallenge},
                           at: Slot \cup {0}, late: BOOLEAN]]
  BY DEF ChallengeInv, ChallengeKept, StoreTypeOK
<1>6. [pc |-> pc, c |-> c, at |-> at, late |-> late]
        \in [pc: ReqState, c: Challenge \cup {NoChallenge},
             at: Slot \cup {0}, late: BOOLEAN]
  BY <1>3 DEF ReqState
<1>7. /\ req' \in [Request -> [pc: ReqState, c: Challenge \cup {NoChallenge},
                               at: Slot \cup {0}, late: BOOLEAN]]
      /\ \A q \in Request : q # r => req'[q] = req[q]
      /\ req'[r] = [pc |-> pc, c |-> c, at |-> at, late |-> late]
  BY <1>2, <1>5, <1>6, Zenon
<1>8. /\ req'[r].pc \in {"snapshot", "not_found"} /\ req'[r].c = c
      /\ (req'[r].late => req'[r].pc = "not_found")
  <2>1. req'[r] = [pc |-> pc, c |-> c, at |-> at, late |-> late]
    BY <1>7, Zenon
  <2>2. req'[r].pc = pc /\ req'[r].c = c
    BY <2>1
  <2>3. req'[r].late = late
    BY <2>1
  <2>4. QED
    BY <1>3, <1>4, <2>2, <2>3, Zenon
<1>9. \A d \in Challenge : Consumed(d)' <=> Consumed(d)
  BY <1>1, <1>7, <1>8, Zenon DEF Consumed
<1>10. /\ \A q \in Request : req'[q].pc # "idle" => req'[q].c \in issued
       /\ \A q \in Request : req'[q].late => req'[q].pc = "not_found"
  BY <1>1, <1>7, <1>8, Zenon DEF ChallengeInv, ChallengesSound
<1>11. expired' \in SUBSET Challenge
  BY <1>1 DEF ChallengeInv, ChallengeKept, StoreTypeOK
<1>12. QED
  BY <1>1, <1>7, <1>9, <1>10, <1>11, ChallengeRead, Zenon

(* verify_siwe spends nothing.                                             *)
LEMMA ChallengeVerified ==
  ASSUME ChallengeInv, NEW r \in Request, verify_siwe(r)
  PROVE  ChallengeInv'
<1>1. req[r].pc = "snapshot" /\ UNCHANGED <<slot, issued, expired, evicted>>
  BY DEF verify_siwe
<1>2. PICK v \in {"refused", "verified"} : req' = [req EXCEPT ![r].pc = v]
  BY DEF verify_siwe
<1>3. v \in ReqState
  BY DEF ReqState
<1>4. /\ req' \in [Request -> [pc: ReqState, c: Challenge \cup {NoChallenge},
                               at: Slot \cup {0}, late: BOOLEAN]]
      /\ req'[r].pc = v /\ req'[r].c = req[r].c /\ req'[r].late = req[r].late
      /\ \A q \in Request : q # r => req'[q] = req[q]
  BY <1>2, <1>3, RequestMoved, Zenon
<1>5. \A d \in Challenge : Consumed(d)' <=> Consumed(d)
  BY <1>1, <1>4, Zenon DEF Consumed
<1>6. /\ \A q \in Request : req'[q].pc # "idle" => req'[q].c \in issued
      /\ \A q \in Request : req'[q].late => req'[q].pc = "not_found"
  BY <1>1, <1>4, Zenon DEF ChallengeInv, ChallengesSound
<1>7. expired' \in SUBSET Challenge
  BY <1>1 DEF ChallengeInv, ChallengeKept, StoreTypeOK
<1>8. QED
  BY <1>1, <1>4, <1>5, <1>6, <1>7, ChallengeRead, Zenon

(* consume_challenge takes away the entry of its own challenge only.       *)
LEMMA ChallengeSpent ==
  ASSUME ChallengeInv, NEW r \in Request, consume_challenge(r)
  PROVE  ChallengeInv'
<1> USE StoreAssumption
<1>1. /\ req[r].pc = "verified" /\ UNCHANGED <<issued, expired, evicted>>
      /\ req' = [req EXCEPT ![r].pc = "consumed"]
      /\ slot' = [i \in Slot |-> IF slot[i] = req[r].c THEN NoChallenge ELSE slot[i]]
  BY DEF consume_challenge, Consume
<1>2. /\ req' \in [Request -> [pc: ReqState, c: Challenge \cup {NoChallenge},
                               at: Slot \cup {0}, late: BOOLEAN]]
      /\ req'[r].pc = "consumed" /\ req'[r].c = req[r].c /\ req'[r].late = req[r].late
      /\ \A q \in Request : q # r => req'[q] = req[q]
  BY <1>1, RequestMoved, Zenon DEF ReqState
<1>3. req[r].c \in issued /\ issued \subseteq Challenge /\ ~req[r].late
  BY <1>1 DEF ChallengeInv, ChallengeKept, ChallengesSound, StoreTypeOK
<1>4. StoreTypeOK'
  BY <1>1, <1>2 DEF ChallengeInv, ChallengeKept, StoreTypeOK
<1> PICK c \in issued : c = req[r].c
  BY <1>3
<1>5. Consumed(c)' /\ Find(c)' = {} /\ \A d \in Challenge : d # c => Find(d)' = Find(d)
  BY <1>1, <1>2, <1>3 DEF Consumed, Find
<1>6. \A d \in Challenge : d # c => (Consumed(d)' <=> Consumed(d))
  BY <1>1, <1>2 DEF Consumed
<1>7. \A d \in issued' : Find(d)' # {} \/ d \in evicted' \/ Consumed(d)'
  BY <1>1, <1>3, <1>5, <1>6 DEF ChallengeInv, ChallengeKept
<1>8. ChallengesSound'
  <2>1. \A i \in Slot : slot'[i] # NoChallenge => slot'[i] \in issued'
    BY <1>1 DEF ChallengeInv, ChallengesSound
  <2>2. \A d \in Challenge : Consumed(d)' => Find(d)' = {}
    BY <1>5, <1>6, Zenon DEF ChallengeInv, ChallengesSound
  <2>3. \A q \in Request : /\ req'[q].pc # "idle" => req'[q].c \in issued'
                           /\ req'[q].late => req'[q].pc = "not_found"
    BY <1>1, <1>2, <1>3 DEF ChallengeInv, ChallengesSound
  <2>4. QED
    BY <2>1, <2>2, <2>3, Zenon DEF ChallengesSound
<1>9. QED
  BY <1>4, <1>7, <1>8 DEF ChallengeInv, ChallengeKept

(* register_lease: the challenge was consumed before, and stays so.        *)
LEMMA ChallengeUsed ==
  ASSUME ChallengeInv, NEW r \in Request, register_lease(r)
  PROVE  ChallengeInv'
<1>1. req[r].pc = "consumed" /\ UNCHANGED <<slot, issued, expired, evicted>>
  BY DEF register_lease
<1>2. PICK v \in {"registered", "mismatch"} : req' = [req EXCEPT ![r].pc = v]
  BY Zenon DEF register_lease
<1>3. v \in ReqState
  BY DEF ReqState
<1>4. /\ req' \in [Request -> [pc: ReqState, c: Challenge \cup {NoChallenge},
                               at: Slot \cup {0}, late: BOOLEAN]]
      /\ req'[r].pc = v /\ req'[r].c = req[r].c /\ req'[r].late = req[r].late
      /\ \A q \in Request : q # r => req'[q] = req[q]
  BY <1>2, <1>3, RequestMoved, Zenon
<1>5. \A d \in Challenge : Consumed(d)' <=> Consumed(d)
  BY <1>1, <1>4, Zenon DEF Consumed
<1>6. /\ \A q \in Request : req'[q].pc # "idle" => req'[q].c \in issued
      /\ \A q \in Request : req'[q].late => req'[q].pc = "not_found"
  BY <1>1, <1>4, Zenon DEF ChallengeInv, ChallengesSound
<1>7. expired' \in SUBSET Challenge
  BY <1>1 DEF ChallengeInv, ChallengeKept, StoreTypeOK
<1>8. QED
  BY <1>1, <1>4, <1>5, <1>6, <1>7, ChallengeRead, Zenon

(* Every step of the store and of the requests preserves the invariant.    *)
LEMMA ChallengeStep == ChallengeInv /\ [StoreNext]_storeVars => ChallengeInv'
<1> SUFFICES ASSUME ChallengeInv, [StoreNext]_storeVars PROVE ChallengeInv'
  OBVIOUS
<1>1. ASSUME NEW c \in Challenge, store_register_challenge(c) PROVE ChallengeInv'
  BY <1>1, ChallengeStored
<1>2. ASSUME NEW c \in Challenge, challenge_expires(c) PROVE ChallengeInv'
  <2>1. UNCHANGED <<slot, issued, evicted, req>> /\ expired' \in SUBSET Challenge
    BY <1>2 DEF challenge_expires, ChallengeInv, ChallengeKept, StoreTypeOK
  <2>2. /\ req' \in [Request -> [pc: ReqState, c: Challenge \cup {NoChallenge},
                                 at: Slot \cup {0}, late: BOOLEAN]]
        /\ \A d \in Challenge : Consumed(d)' <=> Consumed(d)
    BY <2>1 DEF ChallengeInv, ChallengeKept, StoreTypeOK, Consumed
  <2>3. QED
    BY <2>1, <2>2, ChallengeRead, Zenon DEF ChallengeInv, ChallengesSound
<1>3. ASSUME NEW r \in Request, NEW c \in Challenge, register_snapshot(r, c) PROVE ChallengeInv'
  BY <1>3, ChallengeLookedUp
<1>4. ASSUME NEW r \in Request, verify_siwe(r) \/ consume_challenge(r) \/ register_lease(r)
      PROVE  ChallengeInv'
  BY <1>4, ChallengeVerified, ChallengeSpent, ChallengeUsed
<1>5. CASE UNCHANGED storeVars
  <2>1. UNCHANGED <<slot, issued, expired, evicted, req>>
    BY <1>5 DEF storeVars
  <2>2. ChallengeKept'
    BY <2>1 DEF ChallengeInv, ChallengeKept, StoreTypeOK, Consumed, Find
  <2>3. ChallengesSound'
    BY <2>1, Zenon DEF ChallengeInv, ChallengesSound, Consumed, Find
  <2>4. QED
    BY <2>2, <2>3, Zenon DEF ChallengeInv
<1>6. QED
  BY <1>1, <1>2, <1>3, <1>4, <1>5 DEF StoreNext

(* A challenge that was handed out stays in the store until a request has  *)
(* proved the identity and consumed it or the full store overwrote it, for *)
(* any size of the store and any number of concurrent requests.            *)
THEOREM ChallengesKept == StoreSpec => []ChallengeKept
<1>1. ChallengeInv => ChallengeKept
  BY DEF ChallengeInv
<1>2. QED
  BY <1>1, ChallengeInit, ChallengeStep, PTL DEF StoreSpec

(* A request that begins after its challenge was consumed or has expired   *)
(* registers nothing: handle_register looks the challenge up again.        *)
THEOREM ChallengesSpentOnce == StoreSpec => []ConsumedIsConsumed
<1>1. ChallengeInv => ConsumedIsConsumed
  BY DEF ChallengeInv, ChallengesSound, ConsumedIsConsumed
<1>2. QED
  BY <1>1, ChallengeInit, ChallengeStep, PTL DEF StoreSpec
===============================================================================
