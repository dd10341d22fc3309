---------------------------- MODULE ExposureProofs ----------------------------
(***************************************************************************)
(* What holds of an exposure for any relays, callers, acceptors and        *)
(* connections: the safety of its shared state, the listeners that are     *)
(* left when the reconciliations are done, and what close leaves.          *)
(***************************************************************************)
EXTENDS Exposure, FiniteSetTheorems, TLAPS

(* Where a caller or the discovery thread can be, and where it holds the   *)
(* lock.                                                                   *)
ThreadPC ==
  {"idle", "locking", "set", "reconcile", "waiting", "removing", "closing", "joining",
   "sleeping", "loop", "polling", "applying", "exited", "undefined", "lost"}
Holding == {"removing", "closing", "joining", "lost"}

SetOp == [op : {"allow", "ban"}, url : Url]
ListenerRecord ==
  [path : Seq(Url), st : {"none", "open", "cancelled", "closed"},
   pc : {"none", "loop", "accepting", "pushing", "exited", "unstarted"}, conn : Conn \cup {None}]

Threads ==
  /\ th \in [Thread -> [pc : ThreadPC, todo : Seq(CallSet \cup SetOp)]]
  /\ \A t \in Thread :
       /\ th[t].pc = "locking" => th[t].todo # <<>> /\ Head(th[t].todo) \in CallSet
       /\ th[t].pc = "set" => th[t].todo # <<>> /\ th[t].todo \in Seq(SetOp)

Records ==
  /\ lst \in [Url -> ListenerRecord]
  /\ \A u \in Url : lst[u].pc = "pushing" => lst[u].conn \in Conn

Typed ==
  /\ cancelled \in BOOLEAN /\ set_freed \in BOOLEAN /\ late \in BOOLEAN /\ udp \in BOOLEAN
  /\ banned \subseteq Url /\ discovered \subseteq Url /\ want \subseteq Url /\ unmade \subseteq Url
  /\ mu \in Thread \cup {None, Closer} /\ readers \subseteq Acceptor
  /\ closer \in {"open", "locking", "closing", "lost", "joining", "draining", "closed"}

Lists ==
  /\ explicit \subseteq Url /\ seeds \subseteq Url /\ hops \in Seq(Url) /\ depth \in {0, 2}
  /\ ListsDisjoint

Polling ==
  /\ poll \in Seq(Url) /\ Len(poll) <= MAX_ROUTING /\ IsInjective(poll)
  /\ round \in 0..RoundCycle - 1

Channel ==
  /\ chan \in Seq(Conn) /\ Len(chan) <= CAP
  /\ conn \in [Conn -> {"new", "held", "queued", "delivered", "closed"}]
  /\ app \in [Acceptor -> {"idle", "waiting", "woken", "reading", "done", "undefined"}]

(* The writer of the lock is who is in a part of the code that holds it.   *)
Locks ==
  /\ \A t \in Thread : th[t].pc \in Holding <=> mu = t
  /\ closer \in {"closing", "lost"} <=> mu = Closer

(* The arrays are parallel even while the lock is held, and list just the  *)
(* listeners there are.                                                    *)
Arrays ==
  /\ listeners \in Seq(Url) /\ IsInjective(listeners) /\ tids = listeners
  /\ \A u \in Url : u \in Range(listeners) <=> lst[u].st # "none"
  /\ \A u \in Url : lst[u].st = "none" => lst[u] = NoListener

(* Who closes or joins a listener has a stale one.                         *)
Chosen == \A t \in Thread : th[t].pc \in {"closing", "joining"} => Stale # {}

(* As long as the lock is held the lists do not change: a reconciliation   *)
(* works for what they ask for when it ends.                               *)
Pinned == hops # <<>> \/ depth <= 1
Target == IF hops # <<>> THEN {Exit(hops)} ELSE explicit
Following == mu \in Thread /\ Pinned => want = Target

(* Once close has let go of the lock, only a reconciliation that waited    *)
(* for it adds listeners.                                                  *)
Ended == {"joining", "draining", "closed"}
Closing ==
  /\ cancelled <=> closer # "open"
  /\ set_freed <=> closer \in Ended
  /\ closer \in Ended /\ ~late =>
       listeners = <<>> /\ \A t \in Thread : th[t].pc \notin Holding \cup {"waiting"}

(* A connection is with an accept thread, in the channel, or settled.      *)
Connections ==
  /\ \A c \in Conn : conn[c] = "held" => \E u \in Url : lst[u].pc = "pushing" /\ lst[u].conn = c
  /\ \A c \in Conn : conn[c] = "queued" => c \in Range(chan)
  /\ Destroyed => chan = <<>>

(* While an acceptor waits, there is a woken one for each connection.      *)
Woken == {a \in Acceptor : app[a] = "woken"}
Wakeups ==
  /\ ChannelClosed => Waiting = {}
  /\ Waiting # {} => Len(chan) <= Cardinality(Woken)

IInv ==
  /\ Typed /\ Threads /\ Records /\ Lists /\ Polling /\ Channel
  /\ Locks /\ Arrays /\ Chosen /\ Following /\ Converged /\ Closing /\ Connections /\ Wakeups

-------------------------------------------------------------------------------
(* A set of numbers has a least one.                                       *)
LEMMA LeastNumber ==
  ASSUME NEW S \in SUBSET Nat, S # {}
  PROVE  \E x \in S : \A y \in S : x <= y
<1> DEFINE R == {p \in Nat \X Nat : p[1] < p[2]}
<1>1. IsWellFoundedOn(R, Nat)
  BY NatLessThanWellFounded DEF OpToRel
<1> HIDE DEF R
<1>2. PICK x \in S : \A y \in S : ~(<<y, x>> \in R)
  BY <1>1, WFMin, Zenon
<1>3. ASSUME NEW y \in S PROVE x <= y
  <2>1. ~(<<y, x>> \in R) /\ <<y, x>> \in Nat \X Nat
    BY <1>2
  <2>2. QED
    BY <2>1 DEF R
<1>4. QED
  BY <1>3

(* Functions that do what gcd_val does when the second number is below n.  *)
GcdBelow(n) ==
  {g \in [Nat \X (0..n - 1) -> Nat] :
     \A a \in Nat, b \in 0..n - 1 : g[<<a, b>>] = IF b = 0 THEN a ELSE g[<<b, a % b>>]}

(* A remainder is below the divisor.                                       *)
LEMMA Remainder ==
  ASSUME NEW a \in Nat, NEW b \in Nat \ {0} PROVE a % b \in 0..b - 1
OBVIOUS

(* Two such functions agree where both are defined ...                     *)
LEMMA GcdUnique ==
  ASSUME NEW n \in Nat, NEW m \in Nat, NEW g \in GcdBelow(n), NEW h \in GcdBelow(m),
         NEW a \in Nat, NEW b \in Nat, b < n, b < m
  PROVE  g[<<a, b>>] = h[<<a, b>>]
<1> DEFINE S == {k \in Nat : k < n /\ k < m /\ \E x \in Nat : g[<<x, k>>] # h[<<x, k>>]}
<1> SUFFICES ASSUME S # {} PROVE FALSE
  OBVIOUS
<1>1. PICK k \in S : \A j \in S : k <= j
  BY LeastNumber, Zenon
<1>2. PICK x \in Nat : g[<<x, k>>] # h[<<x, k>>]
  OBVIOUS
<1>3. k \in 0..n - 1 /\ k \in 0..m - 1
  OBVIOUS
<1>4. /\ g[<<x, k>>] = IF k = 0 THEN x ELSE g[<<k, x % k>>]
      /\ h[<<x, k>>] = IF k = 0 THEN x ELSE h[<<k, x % k>>]
  BY <1>3 DEF GcdBelow
<1>5. CASE k = 0
  BY <1>2, <1>4, <1>5
<1>6. CASE k # 0
  <2>1. x % k \in 0..k - 1
    BY <1>6, Remainder
  <2>2. x % k \notin S
    <3>1. PICK y \in Nat : y = x % k /\ y < k
      BY <2>1
    <3>2. y \notin S
      BY <1>1, <3>1
    <3>3. QED
      BY <3>1, <3>2
  <2>3. g[<<k, x % k>>] = h[<<k, x % k>>]
    BY <1>3, <2>1, <2>2
  <2>4. QED
    BY <1>2, <1>4, <1>6, <2>3
<1>7. QED
  BY <1>5, <1>6

(* ... and there is one below every n.                                     *)
LEMMA GcdExists ==
  ASSUME NEW n \in Nat
  PROVE  GcdBelow(n) # {}
<1> DEFINE S == {k \in Nat : GcdBelow(k) = {}}
<1> SUFFICES ASSUME S # {} PROVE FALSE
  OBVIOUS
<1>1. PICK k \in S : \A j \in S : k <= j
  BY LeastNumber, Zenon
<1>2. k \in Nat /\ GcdBelow(k) = {}
  OBVIOUS
<1>3. CASE k = 0
  <2>1. [p \in Nat \X (0..k - 1) |-> 0] \in GcdBelow(k)
    BY <1>3 DEF GcdBelow
  <2>2. QED
    BY <1>2, <2>1
<1>4. CASE k # 0
  <2>1. PICK m \in Nat : k = m + 1
    BY <1>2, <1>4
  <2>2. m \notin S
    BY <1>1, <2>1
  <2>3. PICK g : g \in GcdBelow(m)
    BY <2>2
  <2> DEFINE h == [p \in Nat \X (0..k - 1) |->
                     IF p[2] = m THEN IF m = 0 THEN p[1] ELSE g[<<m, p[1] % m>>] ELSE g[p]]
  <2>4. g \in [Nat \X (0..m - 1) -> Nat]
    BY <2>3 DEF GcdBelow
  <2>5. m # 0 => \A a \in Nat : a % m \in 0..m - 1
    BY Remainder
  <2>6. h \in [Nat \X (0..k - 1) -> Nat]
    <3> SUFFICES ASSUME NEW p \in Nat \X (0..k - 1) PROVE h[p] \in Nat
      BY Zenon
    <3> PICK a \in Nat, b \in 0..k - 1 : p = <<a, b>>
      OBVIOUS
    <3>1. CASE b = m
      BY <2>4, <2>5, <3>1
    <3>2. CASE b # m
      BY <2>1, <2>4, <3>2
    <3>3. QED
      BY <3>1, <3>2
  <2>7. ASSUME NEW a \in Nat, NEW b \in 0..k - 1
        PROVE  h[<<a, b>>] = IF b = 0 THEN a ELSE h[<<b, a % b>>]
    <3>1. b # 0 => a % b \in 0..b - 1
      BY Remainder
    <3>2. CASE b = m
      <4>1. h[<<a, b>>] = IF m = 0 THEN a ELSE g[<<m, a % m>>]
        BY <3>2
      <4>2. b # 0 => h[<<b, a % b>>] = g[<<m, a % m>>]
        BY <2>1, <3>1, <3>2
      <4>3. QED
        BY <3>2, <4>1, <4>2
    <3>3. CASE b # m
      <4>1. b \in 0..m - 1
        BY <2>1, <3>3
      <4>2. h[<<a, b>>] = g[<<a, b>>]
        BY <3>3
      <4>3. b # 0 => h[<<b, a % b>>] = g[<<b, a % b>>]
        BY <2>1, <3>1, <4>1
      <4>4. g[<<a, b>>] = IF b = 0 THEN a ELSE g[<<b, a % b>>]
        BY <2>3, <4>1 DEF GcdBelow
      <4>5. QED
        BY <4>2, <4>3, <4>4
    <3>4. QED
      BY <3>2, <3>3
  <2> HIDE DEF h
  <2>8. h \in GcdBelow(k)
    BY <2>6, <2>7 DEF GcdBelow
  <2>9. QED
    BY <1>2, <2>8
<1>5. QED
  BY <1>3, <1>4

(* So gcd_val is defined, by the equation of its loop.                     *)
LEMMA GcdLoop ==
  \A a, b \in Nat : gcd_val[<<a, b>>] = IF b = 0 THEN a ELSE gcd_val[<<b, a % b>>]
<1> DEFINE G(n) == CHOOSE g : g \in GcdBelow(n)
           F == [p \in Nat \X Nat |-> G(p[2] + 1)[p]]
           Rhs(f) == [p \in Nat \X Nat |-> IF p[2] = 0 THEN p[1] ELSE f[<<p[2], p[1] % p[2]>>]]
<1>1. \A n \in Nat : G(n) \in GcdBelow(n)
  BY GcdExists
<1> HIDE DEF G
<1>2. ASSUME NEW a \in Nat, NEW b \in Nat
      PROVE  F[<<a, b>>] \in Nat /\ F[<<a, b>>] = IF b = 0 THEN a ELSE F[<<b, a % b>>]
  <2>1. F[<<a, b>>] = G(b + 1)[<<a, b>>]
    OBVIOUS
  <2>2. G(b + 1) \in GcdBelow(b + 1) /\ b \in 0..(b + 1) - 1
    BY <1>1
  <2>3. G(b + 1)[<<a, b>>] \in Nat
    BY <2>2 DEF GcdBelow
  <2>4. G(b + 1)[<<a, b>>] = IF b = 0 THEN a ELSE G(b + 1)[<<b, a % b>>]
    BY <2>2 DEF GcdBelow
  <2>5. ASSUME b # 0 PROVE G(b + 1)[<<b, a % b>>] = F[<<b, a % b>>]
    <3>1. PICK r \in Nat : r = a % b /\ r < b
      BY <2>5, Remainder
    <3>2. G(r + 1) \in GcdBelow(r + 1)
      BY <1>1
    <3>3. G(b + 1)[<<b, r>>] = G(r + 1)[<<b, r>>]
      BY <2>2, <3>1, <3>2, GcdUnique
    <3>4. QED
      BY <3>1, <3>3
  <2>6. QED
    BY <2>1, <2>3, <2>4, <2>5
<1>3. F = Rhs(F)
  <2>1. \A p \in Nat \X Nat : F[p] = Rhs(F)[p]
    <3> SUFFICES ASSUME NEW p \in Nat \X Nat PROVE F[p] = Rhs(F)[p]
      BY Zenon
    <3> PICK a \in Nat, b \in Nat : p = <<a, b>>
      OBVIOUS
    <3>1. Rhs(F)[<<a, b>>] = IF b = 0 THEN a ELSE F[<<b, a % b>>]
      OBVIOUS
    <3>2. F[<<a, b>>] = IF b = 0 THEN a ELSE F[<<b, a % b>>]
      BY <1>2, Zenon
    <3>3. QED
      BY <3>1, <3>2
  <2>2. QED
    BY <2>1, Zenon
<1> HIDE DEF F
<1>4. gcd_val = Rhs(gcd_val)
  BY <1>3, Zenon DEF gcd_val
<1>5. QED
  BY <1>4

-------------------------------------------------------------------------------
(* What is divided, from quotient and remainder.                                           *)
LEMMA Division ==
  ASSUME NEW a \in Int, NEW b \in Nat \ {0}
  PROVE  \E q \in Int : a = b * q + (a % b)
<1>1. a \div b \in Int /\ a = b * (a \div b) + (a % b)
  OBVIOUS
<1>2. QED
  BY <1>1, Zenon

(* What gcd_val returns is a combination of its arguments.                 *)
LEMMA GcdCombines ==
  ASSUME NEW a \in Nat, NEW b \in Nat
  PROVE  \E x, y \in Int : gcd_val[<<a, b>>] = x * a + y * b
<1> DEFINE Good(k) == \A c \in Nat : \E x, y \in Int : gcd_val[<<c, k>>] = x * c + y * k
           S == {k \in Nat : ~Good(k)}
<1> SUFFICES ASSUME S # {} PROVE FALSE
  BY Zenon
<1>1. PICK k \in S : \A j \in S : k <= j
  BY LeastNumber, Zenon
<1> HIDE DEF Good
<1>2. k \in Nat /\ ~Good(k)
  OBVIOUS
<1>3. PICK c \in Nat : \A x, y \in Int : gcd_val[<<c, k>>] # x * c + y * k
  BY <1>2, Zenon DEF Good
<1>4. gcd_val[<<c, k>>] = IF k = 0 THEN c ELSE gcd_val[<<k, c % k>>]
  BY <1>2, GcdLoop
<1>5. CASE k = 0
  <2>1. c = 1 * c + 0 * k
    BY <1>5
  <2>2. QED
    BY <1>3, <1>4, <1>5, <2>1
<1>6. CASE k # 0
  <2>0. k \in Nat \ {0} /\ c \in Int
    BY <1>2, <1>6
  <2>1. PICK r \in Nat : r = c % k /\ r < k
    <3>1. c % k \in 0..k - 1
      BY <2>0, Remainder, Zenon
    <3>2. QED
      BY <1>2, <3>1
  <2>2. r \notin S
    BY <1>1, <1>2, <2>1
  <2>3. PICK x \in Int, y \in Int : gcd_val[<<k, r>>] = x * k + y * r
    BY <1>2, <2>1, <2>2, Zenon DEF Good
  <2>4. PICK q \in Int : c = k * q + r
    <3>1. \E q \in Int : c = k * q + (c % k)
      BY <2>0, Division, Zenon
    <3>2. QED
      BY <2>1, <3>1, Zenon
  <2>5. x * k + y * r = y * c + (x - y * q) * k
    <3>1. y * c = y * (k * q) + y * r
      BY <1>2, <2>1, <2>4
    <3>2. (x - y * q) * k = x * k - (y * q) * k
      BY <1>2
    <3>3. y * (k * q) = (y * q) * k
      BY <1>2
    <3>4. QED
      BY <1>2, <2>1, <3>1, <3>2, <3>3
  <2>6. x - y * q \in Int
    OBVIOUS
  <2>7. QED
    BY <1>3, <1>4, <1>6, <2>1, <2>3, <2>5, <2>6, Zenon
<1>7. QED
  BY <1>5, <1>6

(* A step that is coprime to n takes different indices to different slots. *)
LEMMA CoprimeSteps ==
  ASSUME NEW n \in Nat \ {0}, NEW a \in Nat, NEW x \in Int, NEW y \in Int, x * a + y * n = 1,
         NEW c \in Nat, NEW i \in 0..n - 1, NEW j \in 0..n - 1,
         (a * i + c) % n = (a * j + c) % n
  PROVE  i = j
<1> DEFINE d == i - j
<1>1. d \in Int /\ -n < d /\ d < n
  OBVIOUS
<1>2. PICK q \in Int : a * i + c = n * q + ((a * i + c) % n)
  <2>1. a * i + c \in Int
    OBVIOUS
  <2>2. QED
    BY <2>1, Division, Zenon
<1>3. PICK p \in Int : a * j + c = n * p + ((a * j + c) % n)
  <2>1. a * j + c \in Int
    OBVIOUS
  <2>2. QED
    BY <2>1, Division, Zenon
<1>4. PICK r \in Int : r = (a * i + c) % n
  <2>1. a * i + c \in Int
    OBVIOUS
  <2>2. QED
    BY <2>1
<1>5. a * i - a * j = n * q - n * p
  BY <1>2, <1>3, <1>4
<1>6. a * d = n * (q - p)
  <2>1. a * d = a * i - a * j /\ n * (q - p) = n * q - n * p
    OBVIOUS
  <2>2. QED
    BY <1>5, <2>1
<1> PICK m \in Int : m = x * (q - p) + y * d
  BY <1>1
<1>7. d = n * m
  <2>1. d = (x * a + y * n) * d
    BY <1>1
  <2>2. (x * a + y * n) * d = (x * a) * d + (y * n) * d
    BY <1>1
  <2>3. (x * a) * d = x * (a * d) /\ (y * n) * d = n * (y * d)
    BY <1>1
  <2>4. x * (n * (q - p)) = n * (x * (q - p))
    OBVIOUS
  <2>5. n * m = n * (x * (q - p)) + n * (y * d)
    BY <1>1
  <2>6. QED
    BY <1>6, <2>1, <2>2, <2>3, <2>4, <2>5
<1>8. m = 0
  <2>1. CASE m >= 1
    <3>1. n * m >= n
      BY <2>1
    <3>2. QED
      BY <1>1, <1>7, <3>1
  <2>2. CASE m <= -1
    <3>1. n * m <= -n
      BY <2>2
    <3>2. QED
      BY <1>1, <1>7, <3>1
  <2>3. QED
    BY <2>1, <2>2
<1>9. QED
  BY <1>7, <1>8

(* pick_coprime_step returns a step that is coprime to the number of       *)
(* relays.                                                                 *)
LEMMA StepIsCoprime ==
  ASSUME NEW n \in Nat \ {0}, NEW r \in Nat
  PROVE  /\ pick_coprime_step(n, r) \in Nat
         /\ \E x, y \in Int : x * pick_coprime_step(n, r) + y * n = 1
<1>1. 1 \in Nat /\ \E x, y \in Int : x * 1 + y * n = 1
  <2>1. 1 * 1 + 0 * n = 1
    OBVIOUS
  <2>2. QED
    BY <2>1
<1>2. CASE n <= 1
  BY <1>1, <1>2 DEF pick_coprime_step
<1>3. CASE n > 1
  <2>1. PICK first \in Nat : first = (r % (n - 1)) + 1
    <3>1. n - 1 \in Nat \ {0}
      BY <1>3
    <3>2. r % (n - 1) \in 0..(n - 1) - 1
      BY <3>1, Remainder, Zenon
    <3>3. QED
      BY <1>3, <3>2
  <2> DEFINE found == {a \in first..n - 1 : gcd_val[<<a, n>>] = 1}
  <2>2. pick_coprime_step(n, r) = IF found = {} THEN 1 ELSE CHOOSE a \in found : \A b \in found : a <= b
    BY <1>3, <2>1 DEF pick_coprime_step
  <2>3. CASE found = {}
    BY <1>1, <2>2, <2>3
  <2>4. CASE found # {}
    <3>1. found \in SUBSET Nat
      OBVIOUS
    <3> HIDE DEF found
    <3>2. pick_coprime_step(n, r) \in found
      BY <2>2, <2>4, <3>1, LeastNumber, Zenon
    <3>3. PICK a \in Nat : a = pick_coprime_step(n, r) /\ gcd_val[<<a, n>>] = 1
      BY <3>2 DEF found
    <3>4. \E x, y \in Int : gcd_val[<<a, n>>] = x * a + y * n
      BY GcdCombines, Zenon
    <3>5. \E x, y \in Int : x * a + y * n = 1
      BY <3>3, <3>4, Zenon
    <3>6. QED
      BY <3>3, <3>5, Zenon
  <2>5. QED
    BY <2>3, <2>4
<1>4. QED
  BY <1>2, <1>3

(* The slots of a round are a permutation, for any number of relays.       *)
LEMMA SlotsPermute ==
  ASSUME NEW n \in Nat \ {0}, NEW r \in Nat
  PROVE  /\ Slots(n, r) \in [1..n -> 1..n]
         /\ \A k, l \in 1..n : Slots(n, r)[k] = Slots(n, r)[l] => k = l
         /\ {Slots(n, r)[k] : k \in 1..n} = 1..n
<1>1. PICK a \in Nat, x \in Int, y \in Int : a = pick_coprime_step(n, r) /\ x * a + y * n = 1
  BY StepIsCoprime, Zenon
<1>2. PICK c \in Nat : c = r % n
  <2>1. r % n \in 0..n - 1
    BY Remainder
  <2>2. QED
    BY <2>1
<1> DEFINE f == Slots(n, r)
           v(k) == (a * (k - 1) + c) % n
<1>3. f = [k \in 1..n |-> v(k) + 1]
  BY <1>1, <1>2 DEF Slots
<1>4. ASSUME NEW k \in 1..n PROVE v(k) \in 0..n - 1
  <2>1. a * (k - 1) + c \in Nat
    <3>1. k - 1 \in Nat
      OBVIOUS
    <3>2. a * (k - 1) \in Nat
      BY <3>1
    <3>3. QED
      BY <3>2
  <2>2. QED
    BY <2>1, Remainder, Zenon
<1> HIDE DEF f
<1>5. f \in [1..n -> 1..n]
  <2> HIDE DEF v
  <2>1. \A k \in 1..n : v(k) + 1 \in 1..n
    BY <1>4
  <2>2. QED
    BY <1>3, <2>1, Zenon
<1>6. ASSUME NEW k \in 1..n, NEW l \in 1..n, f[k] = f[l] PROVE k = l
  <2>1. PICK i \in 0..n - 1, j \in 0..n - 1 : i = k - 1 /\ j = l - 1
    OBVIOUS
  <2>2. v(k) = v(l)
    <3> HIDE DEF v
    <3> QED
      BY <1>3, <1>4, <1>6
  <2>3. (a * i + c) % n = (a * j + c) % n
    BY <2>1, <2>2
  <2>4. i = j
    BY <1>1, <2>3, CoprimeSteps, Zenon
  <2>5. QED
    BY <2>1, <2>4
<1>7. f \in Injection(1..n, 1..n)
  BY <1>5, <1>6 DEF Injection, IsInjective
<1>8. IsFiniteSet(1..n)
  BY FS_Interval
<1>9. f \in Surjection(1..n, 1..n)
  BY <1>7, <1>8, FS_Injection, Zenon
<1>10. \A s \in 1..n : \E k \in 1..n : f[k] = s
  BY <1>9 DEF Surjection
<1>11. {f[k] : k \in 1..n} = 1..n
  BY <1>5, <1>10, Zenon
<1>12. QED
  BY <1>5, <1>6, <1>11 DEF f

-------------------------------------------------------------------------------
(* A sequence over a larger set.                                           *)
LEMMA SeqWidens ==
  ASSUME NEW S, NEW T, S \subseteq T, NEW s \in Seq(S)
  PROVE  s \in Seq(T)
OBVIOUS

(* A set in ascending order: its elements, each once.                      *)
LEMMA AscendingFacts ==
  ASSUME NEW S \in SUBSET Nat, IsFiniteSet(S), NEW s \in Ascending(S)
  PROVE  /\ s \in Seq(S) /\ Len(s) = Cardinality(S) /\ DOMAIN s = 1..Cardinality(S)
         /\ Range(s) = S /\ IsInjective(s)
<1>1. Cardinality(S) \in Nat
  BY FS_CardinalityType
<1>2. s \in [1..Cardinality(S) -> S] /\ Range(s) = S /\ \A i, j \in DOMAIN s : i < j => s[i] < s[j]
  BY DEF Ascending
<1>3. s \in Seq(S) /\ Len(s) = Cardinality(S) /\ DOMAIN s = 1..Cardinality(S)
  BY <1>1, <1>2
<1>4. ASSUME NEW i \in DOMAIN s, NEW j \in DOMAIN s, s[i] = s[j] PROVE i = j
  <2>1. s[i] \in Nat /\ s[j] \in Nat
    BY <1>2, Zenon
  <2> i \in Nat /\ j \in Nat
    BY <1>1, <1>3
  <2>2. ~(i < j) /\ ~(j < i)
    BY <1>2, <1>4, <2>1
  <2>3. QED
    BY <2>2
<1>5. QED
  BY <1>2, <1>3, <1>4 DEF IsInjective

(* Likewise when it is sorted by load.                                     *)
LEMMA LightestFirstFacts ==
  ASSUME NEW S \in SUBSET Url, NEW s \in LightestFirst(S)
  PROVE  /\ s \in Seq(S) /\ Len(s) = Cardinality(S) /\ DOMAIN s = 1..Cardinality(S)
         /\ Range(s) = S /\ IsInjective(s)
<1>1. Cardinality(S) \in Nat
  BY FS_CardinalityType, FS_Subset, ExposureAssumption, Zenon
<1>2. s \in [1..Cardinality(S) -> S] /\ Range(s) = S /\ \A i, j \in DOMAIN s : i < j => Lighter(s[i], s[j])
  BY DEF LightestFirst
<1>3. s \in Seq(S) /\ Len(s) = Cardinality(S) /\ DOMAIN s = 1..Cardinality(S)
  BY <1>1, <1>2
<1>4. \A u \in S : ~Lighter(u, u)
  BY ExposureAssumption DEF Lighter
<1>5. ASSUME NEW i \in DOMAIN s, NEW j \in DOMAIN s, s[i] = s[j] PROVE i = j
  BY <1>1, <1>2, <1>3, <1>4, <1>5
<1>6. QED
  BY <1>2, <1>3, <1>5 DEF IsInjective

(* The order of the polls in a round: a sequence of relays, each once.     *)
LEMMA PermutedFacts ==
  ASSUME NEW S \in SUBSET Url, round \in Nat, NEW order \in Permuted(S)
  PROVE  order \in Seq(S) /\ IsInjective(order)
<1>1. PICK s \in LightestFirst(S) : order = [k \in DOMAIN s |-> s[Slots(Len(s), round)[k]]]
  BY DEF Permuted
<1>2. PICK n \in Nat : n = Cardinality(S)
  BY FS_CardinalityType, FS_Subset, ExposureAssumption, Zenon
<1>3. s \in Seq(S) /\ Len(s) = n /\ DOMAIN s = 1..n /\ IsInjective(s)
  BY <1>2, LightestFirstFacts
<1>4. order = [k \in 1..n |-> s[Slots(n, round)[k]]]
  BY <1>1, <1>3
<1>5. CASE n = 0
  <2>1. order \in Seq(S) /\ DOMAIN order = {}
    BY <1>4, <1>5
  <2>2. QED
    BY <2>1 DEF IsInjective
<1>6. CASE n # 0
  <2> DEFINE f == Slots(n, round)
  <2>1. f \in [1..n -> 1..n] /\ \A k, l \in 1..n : f[k] = f[l] => k = l
    BY <1>6, SlotsPermute, Zenon
  <2> HIDE DEF f
  <2>2. \A k \in 1..n : s[f[k]] \in S
    BY <1>3, <2>1
  <2>3. order = [k \in 1..n |-> s[f[k]]]
    BY <1>4 DEF f
  <2>4. order \in Seq(S) /\ DOMAIN order = 1..n
    BY <2>2, <2>3
  <2>5. ASSUME NEW k \in 1..n, NEW l \in 1..n, order[k] = order[l] PROVE k = l
    <3>1. s[f[k]] = s[f[l]]
      BY <2>3, <2>5
    <3>2. f[k] = f[l]
      BY <1>3, <2>1, <3>1 DEF IsInjective
    <3>3. QED
      BY <2>1, <3>2
  <2>6. QED
    BY <2>4, <2>5 DEF IsInjective
<1>7. QED
  BY <1>5, <1>6

(* The beginning of such a sequence.                                       *)
LEMMA PrefixFacts ==
  ASSUME NEW s \in Seq(Url), IsInjective(s), NEW n \in 0..Len(s)
  PROVE  SubSeq(s, 1, n) \in Seq(Url) /\ Len(SubSeq(s, 1, n)) = n /\ IsInjective(SubSeq(s, 1, n))
<1> DEFINE r == SubSeq(s, 1, n)
<1>1. r \in Seq(Url) /\ Len(r) = n /\ \A i \in 1..n : r[i] = s[i]
  OBVIOUS
<1> HIDE DEF r
<1>2. ASSUME NEW i \in DOMAIN r, NEW j \in DOMAIN r, r[i] = r[j] PROVE i = j
  BY <1>1, <1>2 DEF IsInjective
<1>3. QED
  BY <1>1, <1>2 DEF r, IsInjective

(* The empty array.                                                        *)
LEMMA EmptyList ==
  /\ <<>> \in Seq(Url) /\ IsInjective(<<>>)
  /\ Len(<<>>) <= MAX_ROUTING
BY ExposureAssumption DEF IsInjective

(* What is left of it after the first.                                     *)
LEMMA TailFacts ==
  ASSUME NEW s \in Seq(Url), IsInjective(s), s # <<>>
  PROVE  Tail(s) \in Seq(Url) /\ Len(Tail(s)) < Len(s) /\ IsInjective(Tail(s))
<1> DEFINE r == Tail(s)
<1>1. r \in Seq(Url) /\ Len(r) = Len(s) - 1 /\ \A i \in 1..Len(r) : r[i] = s[i + 1]
  OBVIOUS
<1> HIDE DEF r
<1>2. ASSUME NEW i \in DOMAIN r, NEW j \in DOMAIN r, r[i] = r[j] PROVE i = j
  <2>1. i \in 1..Len(s) - 1 /\ j \in 1..Len(s) - 1 /\ Len(s) \in Nat
    BY <1>1
  <2>2. i + 1 \in DOMAIN s /\ j + 1 \in DOMAIN s /\ s[i + 1] = s[j + 1]
    <3>1. i + 1 \in 1..Len(s) /\ j + 1 \in 1..Len(s)
      BY <2>1
    <3>2. r[i] = s[i + 1] /\ r[j] = s[j + 1]
      BY <1>1, <2>1
    <3>3. DOMAIN s = 1..Len(s)
      OBVIOUS
    <3>4. QED
      BY <1>2, <3>1, <3>2, <3>3, Zenon
  <2>3. i + 1 = j + 1
    BY <2>2 DEF IsInjective
  <2>4. QED
    BY <2>1, <2>3
<1>3. QED
  BY <1>1, <1>2 DEF r, IsInjective

(* An array from which one element is taken.                               *)
LEMMA ShiftedFacts ==
  ASSUME NEW s \in Seq(Url), IsInjective(s), NEW i \in 1..Len(s)
  PROVE  /\ Shifted(s, i) \in Seq(Url) /\ IsInjective(Shifted(s, i))
         /\ Range(Shifted(s, i)) = Range(s) \ {s[i]}
<1> DEFINE r == Shifted(s, i)
<1>1. PICK n \in Nat : n = Len(s)
  OBVIOUS
<1>2. r = [k \in 1..n - 1 |-> IF k < i THEN s[k] ELSE s[k + 1]]
  BY <1>1 DEF Shifted
<1> HIDE DEF r
<1>3. DOMAIN r = 1..n - 1 /\ r \in Seq(Url)
  BY <1>1, <1>2
<1>4. \A k \in 1..n - 1 : r[k] = IF k < i THEN s[k] ELSE s[k + 1]
  BY <1>2
<1>5. ASSUME NEW k \in 1..n - 1, NEW l \in 1..n - 1, r[k] = r[l] PROVE k = l
  <2>1. PICK a \in 1..n, b \in 1..n : /\ a = (IF k < i THEN k ELSE k + 1)
                                     /\ b = (IF l < i THEN l ELSE l + 1)
    OBVIOUS
  <2>2. s[a] = s[b]
    BY <1>4, <1>5, <2>1
  <2>3. a = b
    BY <1>1, <2>2 DEF IsInjective
  <2>4. QED
    BY <2>1, <2>3
<1>6. ASSUME NEW u \in Range(r) PROVE u \in Range(s) \ {s[i]}
  <2>1. PICK k \in 1..n - 1 : u = r[k]
    BY <1>3 DEF Range
  <2>2. PICK a \in 1..n : u = s[a] /\ a # i
    BY <1>1, <1>4, <2>1
  <2>3. i \in DOMAIN s /\ a \in DOMAIN s
    BY <1>1
  <2>4. QED
    BY <2>2, <2>3, Zenon DEF IsInjective, Range
<1>7. ASSUME NEW u \in Range(s) \ {s[i]} PROVE u \in Range(r)
  <2>1. PICK k \in 1..n : u = s[k] /\ k # i
    BY <1>1 DEF Range
  <2>2. CASE k < i
    <3>1. k \in 1..n - 1 /\ r[k] = s[k]
      BY <1>1, <1>4, <2>1, <2>2
    <3>2. QED
      BY <1>3, <2>1, <3>1 DEF Range
  <2>3. CASE k > i
    <3>1. k - 1 \in 1..n - 1 /\ r[k - 1] = s[k]
      BY <1>1, <1>4, <2>1, <2>3
    <3>2. QED
      BY <1>3, <2>1, <3>1 DEF Range
  <2>4. QED
    BY <1>1, <2>1, <2>2, <2>3
<1>8. QED
  BY <1>3, <1>5, <1>6, <1>7 DEF r, IsInjective

(* An array to which new elements are appended.                            *)
LEMMA JoinedFacts ==
  ASSUME NEW s \in Seq(Url), IsInjective(s), NEW r \in Seq(Url), IsInjective(r), Range(s) \cap Range(r) = {}
  PROVE  /\ s \o r \in Seq(Url) /\ IsInjective(s \o r)
         /\ Range(s \o r) = Range(s) \cup Range(r)
<1> DEFINE v == s \o r
<1>1. PICK n \in Nat, m \in Nat : n = Len(s) /\ m = Len(r)
  OBVIOUS
<1>2. v \in Seq(Url) /\ DOMAIN v = 1..n + m
  BY <1>1
<1>3. \A i \in 1..n + m : v[i] = IF i <= n THEN s[i] ELSE r[i - n]
  BY <1>1
<1> HIDE DEF v
<1>4. DOMAIN s = 1..n /\ DOMAIN r = 1..m
  BY <1>1
<1>5. ASSUME NEW i \in 1..n + m, NEW j \in 1..n + m, v[i] = v[j] PROVE i = j
  <2>1. CASE i <= n /\ j <= n
    <3>1. i \in 1..n /\ j \in 1..n /\ v[i] = s[i] /\ v[j] = s[j]
      BY <1>3, <2>1
    <3>2. QED
      BY <1>4, <1>5, <3>1, Zenon DEF IsInjective
  <2>2. CASE i > n /\ j > n
    <3>1. i - n \in 1..m /\ j - n \in 1..m /\ r[i - n] = r[j - n]
      BY <1>3, <1>5, <2>2
    <3>2. i - n = j - n
      BY <1>4, <3>1 DEF IsInjective
    <3>3. QED
      BY <3>2
  <2>3. CASE i <= n /\ j > n
    <3>1. i \in 1..n /\ j - n \in 1..m /\ v[i] = s[i] /\ v[j] = r[j - n]
      BY <1>3, <2>3
    <3>2. QED
      BY <1>4, <1>5, <3>1, Zenon DEF Range
  <2>4. CASE i > n /\ j <= n
    <3>1. j \in 1..n /\ i - n \in 1..m /\ s[j] = r[i - n]
      BY <1>3, <1>5, <2>4
    <3>2. QED
      BY <1>4, <3>1, Zenon DEF Range
  <2>5. QED
    BY <2>1, <2>2, <2>3, <2>4
<1>6. Range(v) \subseteq Range(s) \cup Range(r)
  <2> SUFFICES ASSUME NEW i \in 1..n + m PROVE v[i] \in Range(s) \cup Range(r)
    BY <1>2 DEF Range
  <2>1. CASE i <= n
    BY <1>3, <1>4, <2>1 DEF Range
  <2>2. CASE i > n
    <3>1. i - n \in 1..m /\ v[i] = r[i - n]
      BY <1>3, <2>2
    <3>2. QED
      BY <1>4, <3>1 DEF Range
  <2>3. QED
    BY <2>1, <2>2
<1>7. ASSUME NEW i \in 1..n PROVE s[i] \in Range(v)
  <2>1. i \in 1..n + m /\ v[i] = s[i]
    BY <1>3
  <2>2. QED
    BY <1>2, <2>1, Zenon DEF Range
<1>8. ASSUME NEW i \in 1..m PROVE r[i] \in Range(v)
  <2>1. i + n \in 1..n + m /\ v[i + n] = r[i]
    BY <1>3
  <2>2. QED
    BY <1>2, <2>1, Zenon DEF Range
<1>9. Range(s) \subseteq Range(v) /\ Range(r) \subseteq Range(v)
  BY <1>4, <1>7, <1>8 DEF Range
<1>10. IsInjective(v)
  BY <1>2, <1>5 DEF IsInjective
<1>11. QED
  BY <1>2, <1>6, <1>9, <1>10 DEF v

-------------------------------------------------------------------------------
(* A thread that moves on, other than to a call on the lists or the set.   *)
LEMMA ThreadMoves ==
  ASSUME Threads, NEW t \in Thread, NEW p \in ThreadPC \ {"locking", "set"}, Goto(t, p)
  PROVE  Threads'
<1>1. th' \in [Thread -> [pc : ThreadPC, todo : Seq(CallSet \cup SetOp)]]
  BY Zenon DEF Threads, Goto
<1>2. \A s \in Thread \ {t} : th'[s] = th[s]
  BY DEF Threads, Goto
<1>3. th'[t].pc = p
  BY DEF Threads, Goto
<1>4. QED
  BY <1>1, <1>2, <1>3, Zenon DEF Threads

(* A thread that goes on with calls on the relay set.                      *)
LEMMA ThreadCalls ==
  ASSUME Threads, NEW t \in Thread, NEW ops \in Seq(SetOp), th' = [th EXCEPT ![t] = SetCalls(ops)]
  PROVE  Threads'
<1>1. SetCalls(ops).pc = (IF ops = <<>> THEN "reconcile" ELSE "set") /\ SetCalls(ops).todo = ops
  BY DEF SetCalls
<1>2. SetCalls(ops) \in [pc : ThreadPC, todo : Seq(CallSet \cup SetOp)]
  BY DEF SetCalls, ThreadPC
<1>3. th' \in [Thread -> [pc : ThreadPC, todo : Seq(CallSet \cup SetOp)]]
  BY <1>2 DEF Threads
<1>4. \A s \in Thread \ {t} : th'[s] = th[s]
  BY DEF Threads
<1>5. th'[t] = SetCalls(ops)
  BY DEF Threads
<1>6. QED
  BY <1>1, <1>3, <1>4, <1>5 DEF Threads

(* Where the threads are, and what they have yet to do.                    *)
LEMMA ThreadsKept ==
  ASSUME Threads, [Next]_vars
  PROVE  Threads'
<1>1. ASSUME NEW t \in Caller, NEW c \in CallSet, call(t, c) PROVE Threads'
  <2>1. [pc |-> "locking", todo |-> <<c>>] \in [pc : ThreadPC, todo : Seq(CallSet \cup SetOp)]
    BY DEF ThreadPC
  <2>2. t \in Thread /\ th' = [th EXCEPT ![t] = [pc |-> "locking", todo |-> <<c>>]]
    BY <1>1 DEF call, Thread
  <2>3. <<c>> # <<>> /\ Head(<<c>>) \in CallSet
    OBVIOUS
  <2>4. QED
    BY <2>1, <2>2, <2>3, Zenon DEF Threads
<1>2. ASSUME NEW t \in Thread, call_locked(t) PROVE Threads'
  <2> DEFINE c == Head(th[t].todo)
  <2>1. c \in CallSet
    BY <1>2, Zenon DEF call_locked, Threads
  <2>2. ASSUME NEW u \in Url PROVE <<Allow(u)>> \in Seq(SetOp) /\ <<Ban(u)>> \in Seq(SetOp)
    BY DEF Allow, Ban, SetOp
  <2>3. CASE c.op \in {"add_relay", "remove_relay", "seed_relay"}
    <3>1. c.url \in Url
      BY <2>1, <2>3 DEF CallSet
    <3>2. \/ th' = [th EXCEPT ![t] = SetCalls(<<Allow(c.url)>>)]
          \/ th' = [th EXCEPT ![t] = SetCalls(<<Ban(c.url)>>)]
      BY <1>2, <2>3, Zenon DEF call_locked
    <3>3. QED
      BY <2>2, <3>1, <3>2, ThreadCalls, Zenon
  <2>4. CASE c.op = "set_multi_hop"
    <3> DEFINE ops == [k \in DOMAIN c.path |-> Allow(c.path[k])]
    <3>1. c.path \in Seq(Url)
      BY <2>1, <2>4, ExposureAssumption DEF CallSet
    <3>2. ops \in Seq(SetOp)
      <4>1. PICK p \in Seq(Url) : p = c.path
        BY <3>1
      <4>2. \A k \in 1..Len(p) : Allow(p[k]) \in SetOp
        BY DEF Allow, SetOp
      <4>3. ops = [k \in 1..Len(p) |-> Allow(p[k])]
        BY <4>1
      <4>4. QED
        BY <4>2, <4>3
    <3>3. th' = [th EXCEPT ![t] = SetCalls(ops)]
      BY <1>2, <2>4, Zenon DEF call_locked
    <3>4. QED
      BY <3>2, <3>3, ThreadCalls, Zenon
  <2>5. QED
    BY <2>1, <2>3, <2>4 DEF CallSet
<1>3. ASSUME NEW t \in Thread, call_set(t) PROVE Threads'
  <2>1. th[t].todo # <<>> /\ th[t].todo \in Seq(SetOp)
    BY <1>3, Zenon DEF call_set, Threads
  <2>2. Tail(th[t].todo) \in Seq(SetOp) /\ <<>> \in Seq(SetOp)
    BY <2>1
  <2>3. \/ th' = [th EXCEPT ![t] = SetCalls(Tail(th[t].todo))]
        \/ th' = [th EXCEPT ![t] = SetCalls(<<>>)]
        \/ Goto(t, "undefined")
    BY <1>3, Zenon DEF call_set, Threads
  <2>4. QED
    BY <2>2, <2>3, ThreadCalls, ThreadMoves, Zenon DEF ThreadPC
<1>4. ASSUME NEW t \in Thread, reconcile_check(t) PROVE Threads'
  BY <1>4, ThreadMoves DEF reconcile_check, ThreadPC, After
<1>5. ASSUME NEW t \in Thread, reconcile_lock(t) PROVE Threads'
  BY <1>5, ThreadMoves DEF reconcile_lock, ThreadPC
<1>6. ASSUME NEW t \in Thread, remove_close(t) PROVE Threads'
  BY <1>6, ThreadMoves DEF remove_close, ThreadPC
<1>7. ASSUME NEW t \in Thread, remove_closed(t) PROVE Threads'
  BY <1>7, ThreadMoves DEF remove_closed, ThreadPC
<1>8. ASSUME NEW t \in Thread, remove_join(t) PROVE Threads'
  BY <1>8, ThreadMoves DEF remove_join, ThreadPC
<1>9. ASSUME NEW t \in Thread, reconcile_add(t) PROVE Threads'
  <2>1. Goto(t, After(t)) \/ Goto(t, "lost")
    BY <1>9, Zenon DEF reconcile_add
  <2>2. QED
    BY <2>1, ThreadMoves DEF ThreadPC, After
<1>10. ASSUME NEW t \in Thread, touch_destroyed(t) PROVE Threads'
  BY <1>10, ThreadMoves DEF touch_destroyed, ThreadPC
<1>11. ASSUME NEW t \in Thread, join_unstarted(t) PROVE Threads'
  BY <1>11, ThreadMoves DEF join_unstarted, ThreadPC
<1>12. CASE discovery_copy
  BY <1>12, ThreadMoves DEF discovery_copy, ThreadPC, Thread
<1>13. CASE discovery_poll
  BY <1>13, ThreadMoves, Zenon DEF discovery_poll, ThreadPC, Thread, Threads
<1>14. CASE discovery_apply
  BY <1>14, ThreadMoves DEF discovery_apply, ThreadPC, Thread
<1>15. CASE discovery_sleep
  BY <1>15, ThreadMoves DEF discovery_sleep, ThreadPC, Thread
<1>16. ASSUME NEW u \in Url, NEW c \in Conn,
              accept_conn(u, c)
       PROVE  Threads'
  <2>1. UNCHANGED <<th>>
    BY <1>16 DEF accept_conn
  <2>2. QED
    BY <2>1 DEF Threads
<1>17. ASSUME NEW u \in Url,
              accept_loop(u) \/ accept_null(u) \/ channel_push(u)
       PROVE  Threads'
  <2>1. UNCHANGED <<th>>
    BY <1>17 DEF accept_loop, accept_null, channel_push
  <2>2. QED
    BY <2>1 DEF Threads
<1>18. ASSUME NEW a \in Acceptor,
              exposure_accept(a) \/ accept_datagram(a) \/ pop_woken(a) \/ touch_freed(a) \/
              datagram_arrives(a)
       PROVE  Threads'
  <2>1. UNCHANGED <<th>>
    BY <1>18, Zenon DEF exposure_accept, channel_pop, accept_datagram, pop_woken, touch_freed,
      datagram_arrives
  <2>2. QED
    BY <2>1 DEF Threads
<1>19. CASE close_cancel \/ close_lock \/ close_listener \/ close_listener_returns \/
         close_unlock \/ close_unstarted \/ channel_close \/ channel_free
  <2>1. UNCHANGED <<th>>
    BY <1>19, Zenon DEF close_cancel, close_lock, close_listener, close_listener_returns, close_unlock, close_unstarted,
      channel_close, channel_free
  <2>2. QED
    BY <2>1, Zenon DEF Threads
<1>20. CASE UNCHANGED vars
  <2>1. UNCHANGED <<th>>
    BY <1>20 DEF vars
  <2>2. QED
    BY <2>1 DEF Threads
<1>21. QED
  BY <1>1, <1>2, <1>3, <1>4, <1>5, <1>6, <1>7, <1>8, <1>9, <1>10, <1>11, <1>12, <1>13, <1>14,
      <1>15, <1>16, <1>17, <1>18, <1>19, <1>20
    DEF Next, Call, Traffic, Inner, ThreadStep, DiscoveryStep, AcceptThreadStep, CloseStep, ListenerReturns

-------------------------------------------------------------------------------
(* A listener that is there, and one that is not.                          *)
LEMMA ListeningRecord ==
  /\ NoListener \in ListenerRecord /\ NoListener.pc = "none" /\ NoListener.st = "none"
  /\ \A p \in Seq(Url) :
       /\ Listening(p) \in ListenerRecord /\ Listening(p).pc = "loop" /\ Listening(p).st = "open"
       /\ Unaccepted(p) \in ListenerRecord /\ Unaccepted(p).pc = "unstarted" /\ Unaccepted(p).st = "open"
<1>1. <<>> \in Seq(Url)
  OBVIOUS
<1>2. \A p : Unaccepted(p) = [path |-> p, st |-> "open", pc |-> "unstarted", conn |-> None]
  BY DEF Unaccepted, Listening
<1>3. \A p \in Seq(Url) : /\ Unaccepted(p) \in ListenerRecord
                          /\ Unaccepted(p).pc = "unstarted" /\ Unaccepted(p).st = "open"
  BY <1>2, Zenon DEF ListenerRecord
<1>4. QED
  BY <1>1, <1>3, Zenon DEF NoListener, Listening, ListenerRecord

(* A listener that is being closed, or is closed.                          *)
LEMMA StateSet ==
  ASSUME Records, NEW x, NEW s \in {"cancelled", "closed"}, lst' = [lst EXCEPT ![x].st = s]
  PROVE  Records'
<1>1. lst' = [u \in Url |-> IF u = x THEN [lst[u] EXCEPT !.st = s] ELSE lst[u]]
  BY Zenon DEF Records
<1>2. ASSUME NEW u \in Url PROVE lst'[u] \in ListenerRecord /\ (lst'[u].pc = "pushing" => lst'[u].conn \in Conn)
  <2>1. lst[u] \in ListenerRecord /\ (lst[u].pc = "pushing" => lst[u].conn \in Conn)
    BY DEF Records
  <2>2. lst'[u] = lst[u] \/ lst'[u] = [lst[u] EXCEPT !.st = s]
    BY <1>1
  <2>3. QED
    BY <2>1, <2>2 DEF ListenerRecord
<1>3. QED
  BY <1>1, <1>2, Zenon DEF Records

(* A listener whose record changes.                                        *)
LEMMA RecordSet ==
  ASSUME Records, NEW x \in Url, NEW r \in ListenerRecord, r.pc = "pushing" => r.conn \in Conn,
         lst' = [lst EXCEPT ![x] = r]
  PROVE  Records'
BY Zenon DEF Records

(* The listeners.                                                          *)
LEMMA RecordsKept ==
  ASSUME Records, Lists, [Next]_vars
  PROVE  Records'
<1>1. ASSUME NEW t \in Thread, remove_close(t) PROVE Records'
  BY <1>1, StateSet, Zenon DEF remove_close
<1>2. ASSUME NEW t \in Thread, remove_closed(t) PROVE Records'
  BY <1>2, StateSet, Zenon DEF remove_closed
<1>3. ASSUME NEW t \in Thread, remove_join(t) PROVE Records'
  BY <1>3, ListeningRecord, Zenon DEF remove_join, Records
<1>4. ASSUME NEW t \in Thread, reconcile_add(t) PROVE Records'
  <2>1. \A u \in Url : PathOf(u) \in Seq(Url)
    BY DEF PathOf, Lists
  <2>2. \E made, silent :
          lst' = [u \in Url |-> IF u \in silent THEN Unaccepted(PathOf(u))
                                ELSE IF u \in made THEN Listening(PathOf(u)) ELSE lst[u]]
    BY <1>4, Zenon DEF reconcile_add
  <2>3. \A u \in Url : lst'[u] \in ListenerRecord /\ (lst'[u].pc = "pushing" => lst'[u].conn \in Conn)
    BY <2>1, <2>2, ListeningRecord DEF Records
  <2>4. QED
    BY <2>2, <2>3 DEF Records
<1>5. ASSUME NEW u \in Url, accept_loop(u) PROVE Records'
  <2>1. PICK s \in {"exited", "accepting"} : lst' = [lst EXCEPT ![u] = [lst[u] EXCEPT !.pc = s]]
    BY <1>5, Zenon DEF accept_loop
  <2>2. lst[u] \in ListenerRecord
    BY Zenon DEF Records
  <2>3. [lst[u] EXCEPT !.pc = s] \in ListenerRecord /\ [lst[u] EXCEPT !.pc = s].pc = s
    BY <2>2 DEF ListenerRecord
  <2>4. QED
    BY <2>1, <2>3, RecordSet, Zenon
<1>6. ASSUME NEW u \in Url, accept_null(u) PROVE Records'
  BY <1>6, Zenon DEF accept_null, Records, ListenerRecord
<1>7. ASSUME NEW u \in Url, channel_push(u) PROVE Records'
  <2>1. lst' = [lst EXCEPT ![u] = [lst[u] EXCEPT !.pc = "loop", !.conn = None]]
    BY <1>7, Zenon DEF channel_push
  <2>2. lst[u] \in ListenerRecord
    BY Zenon DEF Records
  <2>3. /\ [lst[u] EXCEPT !.pc = "loop", !.conn = None] \in ListenerRecord
        /\ [lst[u] EXCEPT !.pc = "loop", !.conn = None].pc = "loop"
    BY <2>2, Zenon DEF ListenerRecord
  <2>4. QED
    BY <2>1, <2>3, RecordSet, Zenon
<1>8. ASSUME NEW u \in Url, NEW c \in Conn, accept_conn(u, c) PROVE Records'
  <2>1. lst' = [lst EXCEPT ![u] = [lst[u] EXCEPT !.pc = "pushing", !.conn = c]]
    BY <1>8, Zenon DEF accept_conn
  <2>2. lst[u] \in ListenerRecord
    BY Zenon DEF Records
  <2>3. /\ [lst[u] EXCEPT !.pc = "pushing", !.conn = c] \in ListenerRecord
        /\ [lst[u] EXCEPT !.pc = "pushing", !.conn = c].conn = c
    BY <2>2, Zenon DEF ListenerRecord
  <2>4. QED
    BY <2>1, <2>3, RecordSet, Zenon
<1>9. CASE close_listener
  BY <1>9, StateSet, Zenon DEF close_listener
<1>10. CASE close_listener_returns
  BY <1>10, StateSet, Zenon DEF close_listener_returns
<1>11. CASE close_unlock
  <2>1. lst' = [u \in Url |-> IF u \in Range(listeners) THEN NoListener ELSE lst[u]]
    BY <1>11 DEF close_unlock
  <2>2. \A u \in Url : lst'[u] \in ListenerRecord /\ (lst'[u].pc = "pushing" => lst'[u].conn \in Conn)
    BY <2>1, ListeningRecord DEF Records
  <2>3. QED
    BY <2>1, <2>2 DEF Records
<1>12. ASSUME NEW t \in Caller, NEW c \in CallSet,
              call(t, c)
       PROVE  Records'
  <2>1. UNCHANGED <<lst>>
    BY <1>12 DEF call, slots
  <2>2. QED
    BY <2>1 DEF Records
<1>13. ASSUME NEW t \in Thread,
              call_locked(t) \/ call_set(t) \/ reconcile_check(t) \/ reconcile_lock(t) \/
              touch_destroyed(t) \/ join_unstarted(t)
       PROVE  Records'
  <2>1. UNCHANGED <<lst>>
    BY <1>13, Zenon DEF call_locked, call_set, reconcile_check, reconcile_lock, touch_destroyed, join_unstarted, slots
  <2>2. QED
    BY <2>1 DEF Records
<1>14. ASSUME NEW a \in Acceptor,
              exposure_accept(a) \/ accept_datagram(a) \/ pop_woken(a) \/ touch_freed(a) \/
              datagram_arrives(a)
       PROVE  Records'
  <2>1. UNCHANGED <<lst>>
    BY <1>14, Zenon DEF exposure_accept, channel_pop, accept_datagram, pop_woken, touch_freed,
      datagram_arrives, slots
  <2>2. QED
    BY <2>1 DEF Records
<1>15. CASE close_cancel \/ discovery_copy \/ discovery_poll \/ discovery_apply \/
         discovery_sleep \/ close_lock \/ close_unstarted \/ channel_close \/ channel_free
  <2>1. UNCHANGED <<lst>>
    BY <1>15, Zenon DEF close_cancel, discovery_copy, discovery_poll, discovery_apply, discovery_sleep,
      close_lock, close_unstarted, channel_close, channel_free, slots
  <2>2. QED
    BY <2>1 DEF Records
<1>16. CASE UNCHANGED vars
  <2>1. UNCHANGED <<lst>>
    BY <1>16 DEF vars, slots
  <2>2. QED
    BY <2>1 DEF Records
<1>17. QED
  BY <1>1, <1>2, <1>3, <1>4, <1>5, <1>6, <1>7, <1>8, <1>9, <1>10, <1>11, <1>12, <1>13, <1>14,
      <1>15, <1>16
    DEF Next, Call, Traffic, Inner, ThreadStep, DiscoveryStep, AcceptThreadStep, CloseStep, ListenerReturns

(* A path from which a relay is dropped has two relays still, or none.     *)
LEMMA HopRemoved ==
  ASSUME Lists, NEW u \in Url, RemoveHop(u)
  PROVE  hops' \in Seq(Url) /\ Len(hops') # 1 /\ depth' \in {0, 2} /\ Range(hops') \subseteq Range(hops) \ {u}
<1> DEFINE I == {i \in DOMAIN hops : hops[i] # u}
<1>1. hops \in Seq(Url) /\ Len(hops) # 1 /\ depth \in {0, 2} /\ Len(hops) \in Nat /\ DOMAIN hops = 1..Len(hops)
  BY DEF Lists, ListsDisjoint
<1>2. IsFiniteSet(1..Len(hops)) /\ Cardinality(1..Len(hops)) = Len(hops)
  <2>1. ASSUME NEW k \in Nat PROVE IsFiniteSet(1..k) /\ Cardinality(1..k) = k
    <3>1. 1 \in Int /\ k \in Int
      OBVIOUS
    <3>2. IsFiniteSet(1..k) /\ Cardinality(1..k) = IF 1 > k THEN 0 ELSE k - 1 + 1
      BY <3>1, FS_Interval, Zenon
    <3>3. QED
      BY <3>2
  <2>2. QED
    BY <1>1, <2>1
<1>3. I \in SUBSET Nat /\ I \in SUBSET (1..Len(hops))
  BY <1>1
<1>4. IsFiniteSet(I)
  BY <1>2, <1>3, FS_Subset
<1>5. PICK left \in DropHop(u) :
        IF u \in Range(hops) /\ Len(left) < 2 THEN hops' = <<>> /\ depth' = 0
        ELSE hops' = left /\ UNCHANGED depth
  BY Zenon DEF RemoveHop
<1>5a. PICK kept \in Ascending(I) : left = [k \in DOMAIN kept |-> hops[kept[k]]]
  BY Zenon DEF DropHop
<1>6. PICK n \in Nat : n = Cardinality(I)
  BY <1>4, FS_CardinalityType, Zenon
<1> HIDE DEF I
<1>7. kept \in Seq(I) /\ DOMAIN kept = 1..n
  BY <1>3, <1>4, <1>6, AscendingFacts
<1>8. \A k \in 1..n : kept[k] \in 1..Len(hops) /\ hops[kept[k]] # u
  BY <1>1, <1>7 DEF I
<1>9. left = [k \in 1..n |-> hops[kept[k]]]
  BY <1>5a, <1>7
<1>10. left \in Seq(Url) /\ Len(left) = n /\ DOMAIN left = 1..n
  BY <1>1, <1>8, <1>9
<1>11. \A k \in 1..n : left[k] \in Range(hops) /\ left[k] # u
  BY <1>1, <1>8, <1>9 DEF Range
<1>12. Range(left) \subseteq Range(hops) \ {u}
  BY <1>10, <1>11 DEF Range
<1>13. u \notin Range(hops) => n # 1
  <2>1. u \notin Range(hops) => I = 1..Len(hops)
    BY <1>1 DEF I, Range
  <2>2. QED
    BY <1>1, <1>2, <1>6, <2>1
<1>14. Range(<<>>) = {}
  BY DEF Range
<1>15. CASE u \in Range(hops) /\ n < 2
  <2>1. hops' = <<>> /\ depth' = 0
    BY <1>5, <1>10, <1>15
  <2>2. QED
    BY <1>14, <2>1
<1>16. CASE ~(u \in Range(hops) /\ n < 2)
  <2>1. hops' = left /\ depth' = depth
    BY <1>5, <1>10, <1>16
  <2>2. n # 1
    BY <1>13, <1>16
  <2>3. QED
    BY <1>1, <1>10, <1>12, <2>1, <2>2, Zenon
<1>17. QED
  BY <1>15, <1>16

(* The lists of relays.                                                    *)
LEMMA ListsKept ==
  ASSUME Threads, Lists, [Next]_vars
  PROVE  Lists'
<1>1. ASSUME NEW t \in Thread, call_locked(t) PROVE Lists'
  <2> DEFINE c == Head(th[t].todo)
  <2>1. c \in CallSet
    BY <1>1, Zenon DEF call_locked, Threads
  <2>2. CASE c.op = "add_relay"
    <3>1. c.url \in Url /\ add_relay(c.url)
      BY <1>1, <2>1, <2>2, Zenon DEF call_locked, CallSet
    <3>2. QED
      BY <3>1, Zenon DEF add_relay, Lists, ListsDisjoint
  <2>3. CASE c.op = "remove_relay"
    <3>1. c.url \in Url /\ remove_relay(c.url)
      BY <1>1, <2>1, <2>3, Zenon DEF call_locked, CallSet
    <3>2. PICK u \in Url : u = c.url /\ RemoveHop(u)
      BY <3>1 DEF remove_relay
    <3>3. hops' \in Seq(Url) /\ Len(hops') # 1 /\ depth' \in {0, 2} /\ Range(hops') \subseteq Range(hops) \ {u}
      BY <3>2, HopRemoved
    <3>4. QED
      BY <3>1, <3>3, Zenon DEF remove_relay, Lists, ListsDisjoint
  <2>4. CASE c.op = "seed_relay"
    <3>1. c.url \in Url /\ seed_relay(c.url)
      BY <1>1, <2>1, <2>4, Zenon DEF call_locked, CallSet
    <3>2. PICK u \in Url : u = c.url /\ RemoveHop(u)
      BY <3>1, Zenon DEF seed_relay
    <3>3. hops' \in Seq(Url) /\ Len(hops') # 1 /\ depth' \in {0, 2} /\ Range(hops') \subseteq Range(hops) \ {u}
      BY <3>2, HopRemoved
    <3>4. QED
      BY <3>1, <3>2, <3>3, Zenon DEF seed_relay, Lists, ListsDisjoint
  <2>5. CASE c.op = "set_multi_hop"
    <3>1. c.path \in Path /\ set_multi_hop(c.path)
      BY <1>1, <2>1, <2>5, Zenon DEF call_locked, CallSet
    <3>2. c.path \in Seq(Url) /\ Len(c.path) # 1
      BY <3>1, ExposureAssumption
    <3>3. QED
      BY <3>1, <3>2, Zenon DEF set_multi_hop, Lists, ListsDisjoint
  <2>6. QED
    BY <2>1, <2>2, <2>3, <2>4, <2>5 DEF CallSet
<1>2. ASSUME NEW t \in Caller, NEW c \in CallSet,
              call(t, c)
       PROVE  Lists'
  <2>1. UNCHANGED <<explicit, seeds, hops, depth>>
    BY <1>2, Zenon DEF call, config
  <2>2. QED
    BY <2>1 DEF Lists, ListsDisjoint
<1>3. ASSUME NEW u \in Url, NEW c \in Conn,
              accept_conn(u, c)
       PROVE  Lists'
  <2>1. UNCHANGED <<explicit, seeds, hops, depth>>
    BY <1>3 DEF accept_conn, config
  <2>2. QED
    BY <2>1 DEF Lists, ListsDisjoint
<1>4. ASSUME NEW t \in Thread,
              call_set(t) \/ reconcile_check(t) \/ reconcile_lock(t) \/ remove_close(t) \/
              remove_closed(t) \/ remove_join(t) \/ reconcile_add(t) \/ touch_destroyed(t) \/ join_unstarted(t)
       PROVE  Lists'
  <2>1. UNCHANGED <<explicit, seeds, hops, depth>>
    BY <1>4 DEF call_set, reconcile_check, reconcile_lock, remove_close, remove_closed, remove_join,
      reconcile_add, touch_destroyed, join_unstarted, config
  <2>2. QED
    BY <2>1 DEF Lists, ListsDisjoint
<1>5. ASSUME NEW u \in Url,
              accept_loop(u) \/ accept_null(u) \/ channel_push(u)
       PROVE  Lists'
  <2>1. UNCHANGED <<explicit, seeds, hops, depth>>
    BY <1>5 DEF accept_loop, accept_null, channel_push, config
  <2>2. QED
    BY <2>1 DEF Lists, ListsDisjoint
<1>6. ASSUME NEW a \in Acceptor,
              exposure_accept(a) \/ accept_datagram(a) \/ pop_woken(a) \/ touch_freed(a) \/
              datagram_arrives(a)
       PROVE  Lists'
  <2>1. UNCHANGED <<explicit, seeds, hops, depth>>
    BY <1>6, Zenon DEF exposure_accept, channel_pop, accept_datagram, pop_woken, touch_freed,
      datagram_arrives, config
  <2>2. QED
    BY <2>1 DEF Lists, ListsDisjoint
<1>7. CASE close_cancel \/ discovery_copy \/ discovery_poll \/ discovery_apply \/ discovery_sleep \/
         close_lock \/ close_listener \/ close_listener_returns \/ close_unlock \/ close_unstarted \/ channel_close \/
         channel_free
  <2>1. UNCHANGED <<explicit, seeds, hops, depth>>
    BY <1>7, Zenon DEF close_cancel, discovery_copy, discovery_poll, discovery_apply, discovery_sleep,
      close_lock, close_listener, close_listener_returns, close_unlock, close_unstarted, channel_close, channel_free,
      config
  <2>2. QED
    BY <2>1 DEF Lists, ListsDisjoint
<1>8. CASE UNCHANGED vars
  <2>1. UNCHANGED <<explicit, seeds, hops, depth>>
    BY <1>8 DEF vars, config
  <2>2. QED
    BY <2>1 DEF Lists, ListsDisjoint
<1>9. QED
  BY <1>1, <1>2, <1>3, <1>4, <1>5, <1>6, <1>7, <1>8, Zenon
    DEF Next, Call, Traffic, Inner, ThreadStep, DiscoveryStep, AcceptThreadStep, CloseStep, ListenerReturns

-------------------------------------------------------------------------------
(* The flags, the relay set, and the lock.                                 *)
LEMMA TypedKept ==
  ASSUME Typed, Threads, [Next]_vars
  PROVE  Typed'
<1>1. ASSUME NEW t \in Thread, call_set(t) PROVE Typed'
  <2>1. Head(th[t].todo).url \in Url
    <3>1. th[t].todo # <<>> /\ th[t].todo \in Seq(SetOp)
      BY <1>1, Zenon DEF call_set, Threads
    <3>2. Head(th[t].todo) \in SetOp
      BY <3>1
    <3>3. QED
      BY <3>2 DEF SetOp
  <2>2. banned' \subseteq Url
    BY <1>1, <2>1, Zenon DEF call_set, Typed
  <2>3. QED
    BY <1>1, <2>2, Zenon DEF call_set, Typed, lock, life
<1>2. ASSUME NEW t \in Thread, reconcile_lock(t) PROVE Typed'
  BY <1>2, Zenon DEF reconcile_lock, Typed, set, life
<1>3. ASSUME NEW t \in Thread, reconcile_add(t) PROVE Typed'
  <2>1. want' \subseteq Url /\ mu' \in {mu, None}
    BY <1>3, Zenon DEF reconcile_add, Typed
  <2>2. unmade' \subseteq Url
    BY <1>3, Zenon DEF reconcile_add, Missing, Typed
  <2>3. UNCHANGED <<cancelled, set_freed, late, udp, banned, discovered, readers, closer>>
    BY <1>3, Zenon DEF reconcile_add, set
  <2>4. QED
    BY <2>1, <2>2, <2>3, Zenon DEF Typed
<1>4. ASSUME NEW a \in Acceptor, accept_datagram(a) PROVE Typed'
  BY <1>4, Zenon DEF accept_datagram, Typed, set, life
<1>5. ASSUME NEW a \in Acceptor, datagram_arrives(a) PROVE Typed'
  BY <1>5 DEF datagram_arrives, Typed, set, life
<1>6. CASE close_cancel
  BY <1>6 DEF close_cancel, Typed, set, lock
<1>7. CASE discovery_apply
  <2>1. discovered' \subseteq Url
    BY <1>7, Zenon DEF discovery_apply, Typed
  <2>2. QED
    BY <1>7, <2>1, Zenon DEF discovery_apply, Typed, lock, life
<1>8. CASE close_lock
  BY <1>8 DEF close_lock, Typed, set, lock
<1>9. CASE close_unlock
  <2>1. PICK b \in BOOLEAN : b = \E t \in Thread : th[t].pc = "waiting"
    BY Zenon
  <2>2. late' = b
    BY <1>9, <2>1 DEF close_unlock
  <2>3. QED
    BY <1>9, <2>2, Zenon DEF close_unlock, Typed
<1>10. CASE close_unstarted
  BY <1>10, Zenon DEF close_unstarted, Typed, set, lock
<1>11. CASE channel_close
  BY <1>11, Zenon DEF channel_close, Typed, set, lock
<1>12. CASE channel_free
  BY <1>12 DEF channel_free, Typed, set, lock
<1>13. ASSUME NEW t \in Caller, NEW c \in CallSet,
              call(t, c)
       PROVE  Typed'
  <2>1. UNCHANGED <<cancelled, set_freed, late, udp, banned, discovered, want, unmade, mu, readers, closer>>
    BY <1>13, Zenon DEF call, set, lock, life
  <2>2. QED
    BY <2>1 DEF Typed
<1>14. ASSUME NEW u \in Url, NEW c \in Conn,
              accept_conn(u, c)
       PROVE  Typed'
  <2>1. UNCHANGED <<cancelled, set_freed, late, udp, banned, discovered, want, unmade, mu, readers, closer>>
    BY <1>14 DEF accept_conn, set, lock, life
  <2>2. QED
    BY <2>1 DEF Typed
<1>15. ASSUME NEW t \in Thread,
              call_locked(t) \/ reconcile_check(t) \/ remove_close(t) \/ remove_closed(t) \/
              remove_join(t) \/ touch_destroyed(t) \/ join_unstarted(t)
       PROVE  Typed'
  <2>1. UNCHANGED <<cancelled, set_freed, late, udp, banned, discovered, want, unmade, mu, readers, closer>>
    BY <1>15, Zenon DEF call_locked, reconcile_check, remove_close, remove_closed, remove_join,
      touch_destroyed, join_unstarted, join_unstarted, set, lock, life
  <2>2. QED
    BY <2>1 DEF Typed
<1>16. ASSUME NEW u \in Url,
              accept_loop(u) \/ accept_null(u) \/ channel_push(u)
       PROVE  Typed'
  <2>1. UNCHANGED <<cancelled, set_freed, late, udp, banned, discovered, want, unmade, mu, readers, closer>>
    BY <1>16 DEF accept_loop, accept_null, channel_push, set, lock, life
  <2>2. QED
    BY <2>1 DEF Typed
<1>17. ASSUME NEW a \in Acceptor,
              exposure_accept(a) \/ pop_woken(a) \/ touch_freed(a)
       PROVE  Typed'
  <2>1. UNCHANGED <<cancelled, set_freed, late, udp, banned, discovered, want, unmade, mu, readers, closer>>
    BY <1>17, Zenon DEF exposure_accept, channel_pop, pop_woken, touch_freed, set, lock, life
  <2>2. QED
    BY <2>1 DEF Typed
<1>18. CASE discovery_copy \/ discovery_poll \/ discovery_sleep \/ close_listener \/
         close_listener_returns
  <2>1. UNCHANGED <<cancelled, set_freed, late, udp, banned, discovered, want, unmade, mu, readers, closer>>
    BY <1>18 DEF discovery_copy, discovery_poll, discovery_sleep, close_listener,
      close_listener_returns, set, lock, life
  <2>2. QED
    BY <2>1 DEF Typed
<1>19. CASE UNCHANGED vars
  <2>1. UNCHANGED <<cancelled, set_freed, late, udp, banned, discovered, want, unmade, mu, readers, closer>>
    BY <1>19 DEF vars, set, lock, life
  <2>2. QED
    BY <2>1 DEF Typed
<1>20. QED
  BY <1>1, <1>2, <1>3, <1>4, <1>5, <1>6, <1>7, <1>8, <1>9, <1>10, <1>11, <1>12, <1>13, <1>14,
      <1>15, <1>16, <1>17, <1>18, <1>19, Zenon
    DEF Next, Call, Traffic, Inner, ThreadStep, DiscoveryStep, AcceptThreadStep, CloseStep, ListenerReturns

(* What is yet to be polled in a round.                                    *)
LEMMA PollingKept ==
  ASSUME Lists, Polling, [Next]_vars
  PROVE  Polling'
<1>1. CASE discovery_copy
  <2>1. CASE UNCHANGED poll
    BY <1>1, <2>1, Zenon DEF discovery_copy, Polling
  <2>2. CASE ~UNCHANGED poll
    <3>1. PICK order \in Permuted(explicit \cup seeds) :
            poll' = SubSeq(order, 1, IF Len(order) < MAX_ROUTING THEN Len(order) ELSE MAX_ROUTING)
      BY <1>1, <2>2, Zenon DEF discovery_copy
    <3>2. explicit \cup seeds \in SUBSET Url /\ round \in Nat
      <4>1. explicit \subseteq Url /\ seeds \subseteq Url /\ round \in 0..RoundCycle - 1
        BY Zenon DEF Lists, Polling
      <4>2. QED
        BY <4>1, ExposureAssumption
    <3>3. order \in Seq(explicit \cup seeds) /\ IsInjective(order)
      BY <3>2, PermutedFacts
    <3>4. order \in Seq(Url) /\ MAX_ROUTING \in Nat
      BY <3>2, <3>3, ExposureAssumption
    <3>5. PICK n \in 0..Len(order) : n <= MAX_ROUTING /\ poll' = SubSeq(order, 1, n)
      BY <3>1, <3>4
    <3>6. poll' \in Seq(Url) /\ Len(poll') <= MAX_ROUTING /\ IsInjective(poll')
      BY <3>3, <3>4, <3>5, PrefixFacts
    <3>7. round' = round
      BY <1>1, Zenon DEF discovery_copy
    <3>8. QED
      BY <3>6, <3>7 DEF Polling
  <2>3. QED
    BY <2>1, <2>2
<1>2. CASE discovery_poll
  <2>1. CASE poll' = <<>>
    <3>1. round' = round
      BY <1>2, Zenon DEF discovery_poll
    <3>2. QED
      BY <2>1, <3>1, EmptyList DEF Polling
  <2>2. CASE poll # <<>> /\ poll' = Tail(poll)
    <3>1. poll' \in Seq(Url) /\ Len(poll') < Len(poll) /\ IsInjective(poll')
      BY <2>2, TailFacts DEF Polling
    <3>2. QED
      <4>1. round' = round
        BY <1>2, Zenon DEF discovery_poll
      <4>2. QED
        BY <3>1, <4>1, ExposureAssumption DEF Polling
  <2>3. QED
    BY <1>2, <2>1, <2>2, Zenon DEF discovery_poll
<1>3. CASE discovery_sleep
  <2>1. (round + 1) % RoundCycle \in 0..RoundCycle - 1
    <3>1. round + 1 \in Nat /\ RoundCycle \in Nat \ {0}
      BY ExposureAssumption DEF Polling
    <3>2. QED
      BY <3>1, Remainder, Zenon
  <2>2. QED
    BY <1>3, <2>1, Zenon DEF discovery_sleep, Polling
<1>4. ASSUME NEW t \in Caller, NEW c \in CallSet,
              call(t, c)
       PROVE  Polling'
  <2>1. UNCHANGED <<poll, round>>
    BY <1>4, Zenon DEF call, disc
  <2>2. QED
    BY <2>1 DEF Polling
<1>5. ASSUME NEW u \in Url, NEW c \in Conn,
              accept_conn(u, c)
       PROVE  Polling'
  <2>1. UNCHANGED <<poll, round>>
    BY <1>5 DEF accept_conn, disc
  <2>2. QED
    BY <2>1 DEF Polling
<1>6. ASSUME NEW t \in Thread,
              call_locked(t) \/ call_set(t) \/ reconcile_check(t) \/ reconcile_lock(t) \/
              remove_close(t) \/ remove_closed(t) \/ remove_join(t) \/ reconcile_add(t) \/
              touch_destroyed(t) \/ join_unstarted(t)
       PROVE  Polling'
  <2>1. UNCHANGED <<poll, round>>
    BY <1>6, Zenon DEF call_locked, call_set, reconcile_check, reconcile_lock, remove_close, remove_closed,
      remove_join, reconcile_add, touch_destroyed, join_unstarted, disc
  <2>2. QED
    BY <2>1 DEF Polling
<1>7. ASSUME NEW u \in Url,
              accept_loop(u) \/ accept_null(u) \/ channel_push(u)
       PROVE  Polling'
  <2>1. UNCHANGED <<poll, round>>
    BY <1>7 DEF accept_loop, accept_null, channel_push, disc
  <2>2. QED
    BY <2>1 DEF Polling
<1>8. ASSUME NEW a \in Acceptor,
              exposure_accept(a) \/ accept_datagram(a) \/ pop_woken(a) \/ touch_freed(a) \/
              datagram_arrives(a)
       PROVE  Polling'
  <2>1. UNCHANGED <<poll, round>>
    BY <1>8, Zenon DEF exposure_accept, channel_pop, accept_datagram, pop_woken, touch_freed,
      datagram_arrives, disc
  <2>2. QED
    BY <2>1 DEF Polling
<1>9. CASE close_cancel \/ discovery_apply \/ close_lock \/ close_listener \/
         close_listener_returns \/ close_unlock \/ close_unstarted \/ channel_close \/ channel_free
  <2>1. UNCHANGED <<poll, round>>
    BY <1>9, Zenon DEF close_cancel, discovery_apply, close_lock, close_listener, close_listener_returns,
      close_unlock, close_unstarted, channel_close, channel_free, disc
  <2>2. QED
    BY <2>1 DEF Polling
<1>10. CASE UNCHANGED vars
  <2>1. UNCHANGED <<poll, round>>
    BY <1>10 DEF vars, disc
  <2>2. QED
    BY <2>1 DEF Polling
<1>11. QED
  BY <1>1, <1>2, <1>3, <1>4, <1>5, <1>6, <1>7, <1>8, <1>9, <1>10, Zenon
    DEF Next, Call, Traffic, Inner, ThreadStep, DiscoveryStep, AcceptThreadStep, CloseStep, ListenerReturns

(* channel_pop takes the first connection, if there is one.                *)
LEMMA PopChannel ==
  ASSUME Channel, NEW a \in Acceptor, channel_pop(a)
  PROVE  Channel'
<1>1. CASE ChannelClosed \/ chan = <<>>
  BY <1>1 DEF channel_pop, Channel
<1>2. CASE ~(ChannelClosed \/ chan = <<>>)
  <2>1. /\ app' = [app EXCEPT ![a] = "idle"] /\ chan' = Tail(chan)
        /\ conn' = [conn EXCEPT ![Head(chan)] = "delivered"]
    BY <1>2 DEF channel_pop
  <2>2. chan \in Seq(Conn) /\ chan # <<>> /\ Len(chan) <= CAP /\ CAP \in Nat
    BY <1>2, ExposureAssumption DEF Channel
  <2>3. chan' \in Seq(Conn) /\ Len(chan') <= CAP
    BY <2>1, <2>2
  <2>4. QED
    BY <2>1, <2>3 DEF Channel
<1>3. QED
  BY <1>1, <1>2

(* The channel and what is in it.                                          *)
LEMMA ChannelKept ==
  ASSUME Records, Channel, [Next]_vars
  PROVE  Channel'
<1>1. ASSUME NEW u \in Url, channel_push(u) PROVE Channel'
  <2>1. PICK c \in Conn : c = lst[u].conn
    BY <1>1 DEF channel_push, Records
  <2>2. CASE ChannelClosed \/ Full
    BY <1>1, <2>1, <2>2 DEF channel_push, Channel
  <2>3. CASE ~(ChannelClosed \/ Full)
    <3>1. chan' = Append(chan, c) /\ conn' = [conn EXCEPT ![c] = "queued"] /\ Signal /\ Len(chan) < CAP
      BY <1>1, <2>1, <2>3, ExposureAssumption DEF channel_push, Channel, Full
    <3>2. chan' \in Seq(Conn) /\ Len(chan') <= CAP
      <4>1. chan \in Seq(Conn) /\ CAP \in Nat
        BY ExposureAssumption DEF Channel
      <4>2. QED
        BY <3>1, <4>1
    <3>3. app' \in [Acceptor -> {"idle", "waiting", "woken", "reading", "done", "undefined"}]
      BY <3>1 DEF Signal, Channel
    <3>4. QED
      BY <3>1, <3>2, <3>3 DEF Channel
  <2>4. QED
    BY <2>2, <2>3
<1>2. ASSUME NEW u \in Url, NEW c \in Conn, accept_conn(u, c) PROVE Channel'
  BY <1>2 DEF accept_conn, Channel
<1>3. ASSUME NEW a \in Acceptor, exposure_accept(a) PROVE Channel'
  BY <1>3, PopChannel DEF exposure_accept
<1>4. ASSUME NEW a \in Acceptor, accept_datagram(a) PROVE Channel'
  BY <1>4, Zenon DEF accept_datagram, Channel
<1>5. ASSUME NEW a \in Acceptor, pop_woken(a) PROVE Channel'
  BY <1>5, PopChannel DEF pop_woken
<1>6. ASSUME NEW a \in Acceptor, touch_freed(a) PROVE Channel'
  BY <1>6, Zenon DEF touch_freed, Channel
<1>7. ASSUME NEW a \in Acceptor, datagram_arrives(a) PROVE Channel'
  BY <1>7, Zenon DEF datagram_arrives, Channel
<1>8. CASE channel_close
  BY <1>8, Zenon DEF channel_close, Broadcast, Channel
<1>9. CASE channel_free
  <2>1. app' = app /\ chan' = <<>> /\ conn' = [c \in Conn |-> IF c \in Range(chan) THEN "closed" ELSE conn[c]]
    BY <1>9, Zenon DEF channel_free, CloseQueued
  <2>2. <<>> \in Seq(Conn) /\ Len(<<>>) <= CAP
    BY ExposureAssumption
  <2>3. QED
    BY <2>1, <2>2, Zenon DEF Channel
<1>10. ASSUME NEW t \in Caller, NEW c \in CallSet,
              call(t, c)
       PROVE  Channel'
  <2>1. UNCHANGED <<chan, conn, app>>
    BY <1>10, Zenon DEF call, channel
  <2>2. QED
    BY <2>1 DEF Channel
<1>11. ASSUME NEW t \in Thread,
              call_locked(t) \/ call_set(t) \/ reconcile_check(t) \/ reconcile_lock(t) \/
              remove_close(t) \/ remove_closed(t) \/ remove_join(t) \/ reconcile_add(t) \/
              touch_destroyed(t) \/ join_unstarted(t)
       PROVE  Channel'
  <2>1. UNCHANGED <<chan, conn, app>>
    BY <1>11, Zenon DEF call_locked, call_set, reconcile_check, reconcile_lock, remove_close,
      remove_closed, remove_join, reconcile_add, touch_destroyed, join_unstarted, channel
  <2>2. QED
    BY <2>1 DEF Channel
<1>12. ASSUME NEW u \in Url,
              accept_loop(u) \/ accept_null(u)
       PROVE  Channel'
  <2>1. UNCHANGED <<chan, conn, app>>
    BY <1>12 DEF accept_loop, accept_null, channel
  <2>2. QED
    BY <2>1 DEF Channel
<1>13. CASE close_cancel \/ discovery_copy \/ discovery_poll \/ discovery_apply \/
         discovery_sleep \/ close_lock \/ close_listener \/ close_listener_returns \/ close_unlock \/ close_unstarted
  <2>1. UNCHANGED <<chan, conn, app>>
    BY <1>13, Zenon DEF close_cancel, discovery_copy, discovery_poll, discovery_apply, discovery_sleep,
      close_lock, close_listener, close_listener_returns, close_unlock, close_unstarted, channel
  <2>2. QED
    BY <2>1 DEF Channel
<1>14. CASE UNCHANGED vars
  <2>1. UNCHANGED <<chan, conn, app>>
    BY <1>14 DEF vars, channel
  <2>2. QED
    BY <2>1 DEF Channel
<1>15. QED
  BY <1>1, <1>2, <1>3, <1>4, <1>5, <1>6, <1>7, <1>8, <1>9, <1>10, <1>11, <1>12, <1>13, <1>14, Zenon
    DEF Next, Call, Traffic, Inner, ThreadStep, DiscoveryStep, AcceptThreadStep, CloseStep, ListenerReturns

-------------------------------------------------------------------------------
(* The names of the threads are distinct.                                  *)
LEMMA Names ==
  None \notin Thread /\ Closer \notin Thread /\ None # Closer /\ Discovery \in Thread /\ Caller \subseteq Thread
BY ExposureAssumption DEF Thread

(* A step of one thread leaves the others where they are.                  *)
LEMMA GotoFacts ==
  ASSUME Threads, NEW t \in Thread, NEW p, Goto(t, p)
  PROVE  th'[t].pc = p /\ \A s \in Thread \ {t} : th'[s] = th[s]
BY DEF Threads, Goto

(* Where the steps of a reconciliation lead.                               *)
MovesTo(t, S) == th'[t].pc \in S /\ \A s \in Thread \ {t} : th'[s] = th[s]

LEMMA ReconcileMoves ==
  ASSUME Threads, NEW t \in Thread
  PROVE  /\ reconcile_check(t) => MovesTo(t, {"idle", "sleeping", "waiting"})
         /\ reconcile_check(t) => (set_freed <=> th'[t].pc # "waiting")
         /\ reconcile_lock(t) \/ remove_join(t) => MovesTo(t, {"removing"})
         /\ remove_close(t) => MovesTo(t, {"closing"})
         /\ remove_closed(t) => MovesTo(t, {"joining"})
         /\ reconcile_add(t) => \/ (MovesTo(t, {"idle", "sleeping"}) /\ mu' = None)
                                \/ (MovesTo(t, {"lost"}) /\ UNCHANGED <<mu, want>>)
         /\ touch_destroyed(t) => MovesTo(t, {"undefined"})
         /\ join_unstarted(t) => MovesTo(t, {"lost"})
<1>1. ASSUME NEW p, Goto(t, p) PROVE MovesTo(t, {p}) /\ th'[t].pc = p
  BY <1>1, GotoFacts, Zenon DEF MovesTo
<1>2. After(t) \in {"idle", "sleeping"}
  BY DEF After
<1>3. ASSUME reconcile_check(t)
      PROVE  MovesTo(t, {"idle", "sleeping", "waiting"}) /\ (set_freed <=> th'[t].pc # "waiting")
  <2>1. CASE set_freed
    <3>1. Goto(t, After(t))
      BY <1>3, <2>1, Zenon DEF reconcile_check
    <3>2. QED
      BY <1>1, <1>2, <2>1, <3>1 DEF MovesTo
  <2>2. CASE ~set_freed
    <3>1. Goto(t, "waiting")
      BY <1>3, <2>2, Zenon DEF reconcile_check
    <3>2. QED
      BY <1>1, <2>2, <3>1, Zenon DEF MovesTo
  <2>3. QED
    BY <2>1, <2>2
<1>4. reconcile_lock(t) \/ remove_join(t) => MovesTo(t, {"removing"})
  BY <1>1, Zenon DEF reconcile_lock, remove_join
<1>5. remove_close(t) => MovesTo(t, {"closing"})
  BY <1>1, Zenon DEF remove_close
<1>6. remove_closed(t) => MovesTo(t, {"joining"})
  BY <1>1, Zenon DEF remove_closed
<1>7. ASSUME reconcile_add(t)
      PROVE  \/ MovesTo(t, {"idle", "sleeping"}) /\ mu' = None
             \/ MovesTo(t, {"lost"}) /\ UNCHANGED <<mu, want>>
  <2>1. CASE Goto(t, After(t)) /\ mu' = None
    BY <1>1, <1>2, <2>1 DEF MovesTo
  <2>2. CASE Goto(t, "lost") /\ UNCHANGED <<mu, want>>
    BY <1>1, <2>2
  <2>3. QED
    BY <1>7, <2>1, <2>2, Zenon DEF reconcile_add
<1>8. touch_destroyed(t) => MovesTo(t, {"undefined"})
  BY <1>1, Zenon DEF touch_destroyed
<1>9. join_unstarted(t) => MovesTo(t, {"lost"})
  BY <1>1, Zenon DEF join_unstarted
<1>10. QED
  BY <1>3, <1>4, <1>5, <1>6, <1>7, <1>8, <1>9, Zenon

(* Likewise when what it has yet to do changes.                            *)
LEMMA CallFacts ==
  ASSUME Threads, NEW t \in Thread, NEW r, th' = [th EXCEPT ![t] = r]
  PROVE  th'[t] = r /\ \A s \in Thread \ {t} : th'[s] = th[s]
BY DEF Threads

(* Where call_locked and call_set go from here.                            *)
LEMMA CallMoves ==
  ASSUME Threads, NEW t \in Thread, call_locked(t) \/ call_set(t)
  PROVE  th'[t].pc \in {"set", "reconcile", "undefined"} /\ \A s \in Thread \ {t} : th'[s] = th[s]
<1>1. \A ops : SetCalls(ops).pc \in {"set", "reconcile"}
  BY DEF SetCalls
<1>2. Goto(t, "undefined") \/ \E ops : th' = [th EXCEPT ![t] = SetCalls(ops)]
  <2>1. CASE call_locked(t)
    BY <2>1, Zenon DEF call_locked
  <2>2. CASE call_set(t)
    BY <2>2, Zenon DEF call_set
  <2>3. QED
    BY <2>1, <2>2
<1>3. CASE Goto(t, "undefined")
  BY <1>3, GotoFacts
<1>4. ASSUME NEW ops, th' = [th EXCEPT ![t] = SetCalls(ops)]
      PROVE  th'[t].pc \in {"set", "reconcile"} /\ \A s \in Thread \ {t} : th'[s] = th[s]
  BY <1>1, <1>4, CallFacts, Zenon
<1>5. QED
  BY <1>2, <1>3, <1>4

(* A call begins.                                                          *)
LEMMA CallStarts ==
  ASSUME Threads, NEW t \in Caller, NEW c \in CallSet, call(t, c)
  PROVE  /\ t \in Thread /\ th[t].pc = "idle" /\ th'[t].pc = "locking"
         /\ \A s \in Thread \ {t} : th'[s] = th[s]
<1>1. t \in Thread /\ th[t].pc = "idle" /\ th' = [th EXCEPT ![t] = [pc |-> "locking", todo |-> <<c>>]]
  BY Zenon DEF call, Thread
<1>2. th'[t] = [pc |-> "locking", todo |-> <<c>>] /\ \A s \in Thread \ {t} : th'[s] = th[s]
  BY <1>1, CallFacts, Zenon
<1>3. QED
  BY <1>1, <1>2

(* The discovery thread polls outside the lock.                            *)
LEMMA DiscoveryMoves ==
  ASSUME Threads, DiscoveryStep
  PROVE  /\ UNCHANGED <<config, set_freed, lock, slots, want, life>>
         /\ th[Discovery].pc \in {"loop", "polling", "applying", "sleeping"}
         /\ th'[Discovery].pc \in {"loop", "polling", "applying", "reconcile", "exited", "undefined"}
         /\ \A s \in Thread \ {Discovery} : th'[s] = th[s]
<1> Discovery \in Thread
  BY Names
<1>1. CASE discovery_copy
  BY <1>1, GotoFacts, Zenon DEF discovery_copy, set
<1>2. CASE discovery_poll
  BY <1>2, GotoFacts, Zenon DEF discovery_poll, set
<1>3. CASE discovery_apply
  BY <1>3, GotoFacts, Zenon DEF discovery_apply
<1>4. CASE discovery_sleep
  BY <1>4, GotoFacts, Zenon DEF discovery_sleep, set
<1>5. QED
  BY <1>1, <1>2, <1>3, <1>4, Zenon DEF DiscoveryStep

(* A thread that moves on without the lock, or with it.                    *)
LEMMA LocksStay ==
  ASSUME Locks, UNCHANGED <<mu, closer>>, NEW t \in Thread, \A s \in Thread \ {t} : th'[s] = th[s],
         th'[t].pc \in Holding <=> th[t].pc \in Holding
  PROVE  Locks'
BY DEF Locks

(* The lock.                                                               *)
LEMMA LocksKept ==
  ASSUME Threads, Locks, [Next]_vars
  PROVE  Locks'
<1>1. ASSUME NEW t \in Caller, NEW c \in CallSet, call(t, c) PROVE Locks'
  <2>1. UNCHANGED <<mu, closer>>
    BY <1>1, Zenon DEF call, lock, life
  <2>2. QED
    BY <1>1, <2>1, CallStarts, LocksStay, Zenon DEF Holding
<1>2. ASSUME NEW t \in Thread, call_locked(t) PROVE Locks'
  <2>1. UNCHANGED <<mu, closer>> /\ th[t].pc \notin Holding
    BY <1>2, Zenon DEF call_locked, lock, life, Holding
  <2>2. QED
    BY <1>2, <2>1, CallMoves, LocksStay, Zenon DEF Holding
<1>3. ASSUME NEW t \in Thread, call_set(t) PROVE Locks'
  <2>1. UNCHANGED <<mu, closer>> /\ th[t].pc \notin Holding
    BY <1>3, Zenon DEF call_set, lock, life, Holding
  <2>2. QED
    BY <1>3, <2>1, CallMoves, LocksStay, Zenon DEF Holding
<1>4. ASSUME NEW t \in Thread, reconcile_check(t) PROVE Locks'
  <2>1. UNCHANGED <<mu, closer>> /\ th[t].pc \notin Holding
    BY <1>4, Zenon DEF reconcile_check, lock, life, Holding
  <2>2. th'[t].pc \notin Holding /\ \A s \in Thread \ {t} : th'[s] = th[s]
    BY <1>4, ReconcileMoves, Zenon DEF MovesTo, Holding
  <2>3. QED
    BY <2>1, <2>2, LocksStay, Zenon
<1>5. ASSUME NEW t \in Thread, reconcile_lock(t) PROVE Locks'
  <2>1. mu = None /\ mu' = t /\ closer' = closer
    BY <1>5, Zenon DEF reconcile_lock, Unlocked, life
  <2>2. th'[t].pc = "removing" /\ \A s \in Thread \ {t} : th'[s] = th[s]
    BY <1>5, ReconcileMoves, Zenon DEF MovesTo
  <2>3. QED
    BY <2>1, <2>2, Names, Zenon DEF Locks, Holding
<1>6. ASSUME NEW t \in Thread, remove_close(t) PROVE Locks'
  <2>1. UNCHANGED <<mu, closer>> /\ th[t].pc \in Holding
    BY <1>6 DEF remove_close, lock, life, Holding
  <2>2. th'[t].pc \in Holding /\ \A s \in Thread \ {t} : th'[s] = th[s]
    BY <1>6, ReconcileMoves, Zenon DEF MovesTo, Holding
  <2>3. QED
    BY <2>1, <2>2, LocksStay, Zenon
<1>7. ASSUME NEW t \in Thread, remove_closed(t) PROVE Locks'
  <2>1. UNCHANGED <<mu, closer>> /\ th[t].pc \in Holding
    BY <1>7 DEF remove_closed, lock, life, Holding
  <2>2. th'[t].pc \in Holding /\ \A s \in Thread \ {t} : th'[s] = th[s]
    BY <1>7, ReconcileMoves, Zenon DEF MovesTo, Holding
  <2>3. QED
    BY <2>1, <2>2, LocksStay, Zenon
<1>8. ASSUME NEW t \in Thread, remove_join(t) PROVE Locks'
  <2>1. UNCHANGED <<mu, closer>> /\ th[t].pc \in Holding
    BY <1>8, Zenon DEF remove_join, lock, life, Holding
  <2>2. th'[t].pc \in Holding /\ \A s \in Thread \ {t} : th'[s] = th[s]
    BY <1>8, ReconcileMoves, Zenon DEF MovesTo, Holding
  <2>3. QED
    BY <2>1, <2>2, LocksStay, Zenon
<1>9. ASSUME NEW t \in Thread, reconcile_add(t) PROVE Locks'
  <2>1. th[t].pc = "removing" /\ closer' = closer
    BY <1>9, Zenon DEF reconcile_add
  <2>2. /\ \A s \in Thread \ {t} : th'[s] = th[s]
        /\ \/ th'[t].pc \notin Holding /\ mu' = None
           \/ th'[t].pc \in Holding /\ mu' = mu
    BY <1>9, ReconcileMoves, Zenon DEF MovesTo, Holding
  <2>3. mu = t
    BY <2>1 DEF Locks, Holding
  <2>4. QED
    BY <2>1, <2>2, <2>3, Names, Zenon DEF Locks
<1>10. ASSUME NEW t \in Thread, join_unstarted(t) PROVE Locks'
  <2>1. UNCHANGED <<mu, closer>> /\ th[t].pc \in Holding
    BY <1>10, Zenon DEF join_unstarted, lock, life, Holding
  <2>2. th'[t].pc \in Holding /\ \A s \in Thread \ {t} : th'[s] = th[s]
    BY <1>10, ReconcileMoves, Zenon DEF MovesTo, Holding
  <2>3. QED
    BY <2>1, <2>2, LocksStay, Zenon
<1>11. CASE close_unstarted
  BY <1>11, Names, Zenon DEF close_unstarted, Locks, lock
<1>12. ASSUME NEW t \in Thread, touch_destroyed(t) PROVE Locks'
  <2>1. UNCHANGED <<mu, closer>> /\ th[t].pc \notin Holding
    BY <1>12, Zenon DEF touch_destroyed, lock, life, Holding
  <2>2. th'[t].pc \notin Holding /\ \A s \in Thread \ {t} : th'[s] = th[s]
    BY <1>12, ReconcileMoves, Zenon DEF MovesTo, Holding
  <2>3. QED
    BY <2>1, <2>2, LocksStay, Zenon
<1>13. CASE close_cancel
  BY <1>13, Names DEF close_cancel, Locks, Unlocked, lock
<1>14. CASE close_lock
  BY <1>14, Names DEF close_lock, Locks, Unlocked, lock
<1>15. CASE close_unlock
  BY <1>15, Names, Zenon DEF close_unlock, Locks, Unlocked, lock
<1>16. CASE channel_close
  BY <1>16, Names, Zenon DEF channel_close, Locks, Unlocked, lock
<1>17. CASE channel_free
  BY <1>17, Names DEF channel_free, Locks, Unlocked, lock
<1>18. CASE DiscoveryStep
  BY <1>18, Names, DiscoveryMoves, LocksStay, Zenon DEF Holding, lock, life
<1>19. ASSUME NEW u \in Url, NEW c \in Conn,
              accept_conn(u, c)
       PROVE  Locks'
  <2>1. UNCHANGED <<th, mu, closer>>
    BY <1>19 DEF accept_conn, lock, life
  <2>2. QED
    BY <2>1 DEF Locks
<1>20. ASSUME NEW u \in Url,
              accept_loop(u) \/ accept_null(u) \/ channel_push(u)
       PROVE  Locks'
  <2>1. UNCHANGED <<th, mu, closer>>
    BY <1>20 DEF accept_loop, accept_null, channel_push, lock, life
  <2>2. QED
    BY <2>1 DEF Locks
<1>21. ASSUME NEW a \in Acceptor,
              exposure_accept(a) \/ accept_datagram(a) \/ pop_woken(a) \/ touch_freed(a) \/
              datagram_arrives(a)
       PROVE  Locks'
  <2>1. UNCHANGED <<th, mu, closer>>
    BY <1>21, Zenon DEF exposure_accept, channel_pop, accept_datagram, pop_woken, touch_freed,
      datagram_arrives, lock, life
  <2>2. QED
    BY <2>1 DEF Locks
<1>22. CASE close_listener \/ close_listener_returns
  <2>1. UNCHANGED <<th, mu, closer>>
    BY <1>22 DEF close_listener, close_listener_returns, lock, life
  <2>2. QED
    BY <2>1 DEF Locks
<1>23. CASE UNCHANGED vars
  <2>1. UNCHANGED <<th, mu, closer>>
    BY <1>23 DEF vars, lock, life
  <2>2. QED
    BY <2>1 DEF Locks
<1>24. QED
  BY <1>1, <1>2, <1>3, <1>4, <1>5, <1>6, <1>7, <1>8, <1>9, <1>10, <1>11, <1>12, <1>13, <1>14,
      <1>15, <1>16, <1>17, <1>18, <1>19, <1>20, <1>21, <1>22, <1>23, Zenon
    DEF Next, Call, Traffic, Inner, ThreadStep, DiscoveryStep, AcceptThreadStep, CloseStep, ListenerReturns

(* The indices of the array of listeners.                                  *)
LEMMA ListenerIndices ==
  ASSUME Arrays
  PROVE  Len(listeners) \in Nat /\ DOMAIN listeners = 1..Len(listeners)
<1>1. listeners \in Seq(Url)
  BY Zenon DEF Arrays
<1>2. QED
  BY <1>1

(* The last stale listener, and the first that is open.                    *)
LEMMA VictimFacts ==
  ASSUME Arrays, Stale # {}
  PROVE  Victim \in 1..Len(listeners) /\ listeners[Victim] \in Range(listeners) \ want
<1>1. PICK n \in Nat : n = Len(listeners) /\ DOMAIN listeners = 1..n
  BY ListenerIndices, Zenon
<1> DEFINE D == {n - i : i \in Stale}
<1>2. Stale \subseteq 1..n
  BY <1>1 DEF Stale
<1>3. D \in SUBSET Nat /\ D # {}
  <2>1. \A i \in Stale : n - i \in Nat
    BY <1>2
  <2>2. PICK i : i \in Stale
    OBVIOUS
  <2>3. n - i \in D
    BY <2>2
  <2>4. QED
    BY <2>1, <2>3, Zenon
<1>4. PICK d \in D : \A e \in D : d <= e
  BY <1>3, LeastNumber, Zenon
<1>5. PICK i \in Stale : d = n - i
  OBVIOUS
<1>6. \A j \in Stale : j <= i
  <2> SUFFICES ASSUME NEW j \in Stale PROVE j <= i
    OBVIOUS
  <2>1. n - j \in D /\ i \in 1..n /\ j \in 1..n
    BY <1>2
  <2>2. n - i <= n - j
    BY <1>4, <1>5, <2>1, Zenon
  <2>3. QED
    BY <2>1, <2>2
<1>7. Victim \in Stale
  BY <1>6, Zenon DEF Victim
<1>8. QED
  BY <1>1, <1>2, <1>7 DEF Stale, Range

(* Likewise in do_close.                                                   *)
LEMMA NextOpenFacts ==
  ASSUME Arrays, Open # {}
  PROVE  NextOpen \in 1..Len(listeners) /\ listeners[NextOpen] \in Range(listeners)
<1>1. DOMAIN listeners = 1..Len(listeners)
  BY ListenerIndices, Zenon
<1>2. Open \in SUBSET Nat
  BY <1>1 DEF Open
<1>3. \E i \in Open : \A j \in Open : i <= j
  BY <1>2, LeastNumber
<1>4. NextOpen \in Open
  BY <1>3, Zenon DEF NextOpen
<1>5. QED
  BY <1>1, <1>4 DEF Open, Range

-------------------------------------------------------------------------------
(* A listener of the array that is being closed, or is closed.             *)
LEMMA StateOfListed ==
  ASSUME Records, Arrays, NEW x \in Range(listeners), NEW s \in {"cancelled", "closed"},
         lst' = [lst EXCEPT ![x].st = s], UNCHANGED <<listeners, tids>>
  PROVE  Arrays'
<1>1. lst' = [u \in Url |-> IF u = x THEN [lst[u] EXCEPT !.st = s] ELSE lst[u]]
  BY Zenon DEF Records
<1>2. ASSUME NEW u \in Url
      PROVE  /\ u \in Range(listeners) <=> lst'[u].st # "none"
             /\ lst'[u].st = "none" => lst'[u] = NoListener
  <2>1. CASE u = x
    <3>1. lst[u] \in ListenerRecord /\ lst'[u] = [lst[u] EXCEPT !.st = s]
      BY <1>1, <2>1 DEF Records
    <3>2. lst'[u].st = s
      BY <3>1 DEF ListenerRecord
    <3>3. QED
      BY <2>1, <3>2
  <2>2. CASE u # x
    BY <1>1, <2>2 DEF Arrays
  <2>3. QED
    BY <2>1, <2>2
<1>3. QED
  BY <1>2 DEF Arrays

(* A step of an accept thread.                                             *)
LEMMA AcceptMoves ==
  ASSUME Records, Arrays, NEW u \in Url, lst[u].pc # "none", NEW r,
         lst' = [lst EXCEPT ![u] = r], r.st = lst[u].st, UNCHANGED <<listeners, tids>>
  PROVE  Arrays'
<1>1. lst[u].st # "none"
  BY ListeningRecord, Zenon DEF Arrays
<1>2. lst'[u] = r /\ \A v \in Url \ {u} : lst'[v] = lst[v]
  BY DEF Records
<1>3. QED
  BY <1>1, <1>2 DEF Arrays

(* The parallel arrays, and the listeners.                                 *)
LEMMA ArraysKept ==
  ASSUME Typed, Records, Arrays, Chosen, [Next]_vars
  PROVE  Arrays'
<1>1. ASSUME NEW t \in Thread, remove_close(t) PROVE Arrays'
  <2>1. Stale # {}
    BY <1>1 DEF remove_close, Chosen
  <2>2. listeners[Victim] \in Range(listeners)
    BY <2>1, VictimFacts
  <2>3. QED
    BY <1>1, <2>2, StateOfListed, Zenon DEF remove_close
<1>2. ASSUME NEW t \in Thread, remove_closed(t) PROVE Arrays'
  <2>1. Stale # {}
    BY <1>2 DEF remove_closed, Chosen
  <2>2. listeners[Victim] \in Range(listeners)
    BY <2>1, VictimFacts
  <2>3. QED
    BY <1>2, <2>2, StateOfListed, Zenon DEF remove_closed
<1>3. ASSUME NEW t \in Thread, remove_join(t) PROVE Arrays'
  <2>1. Stale # {}
    BY <1>3, Zenon DEF remove_join, Chosen
  <2>2. Victim \in 1..Len(listeners) /\ listeners[Victim] \in Range(listeners)
    BY <2>1, VictimFacts
  <2>3. PICK x \in Url : x = listeners[Victim]
    BY <2>2 DEF Arrays
  <2>4. lst' = [lst EXCEPT ![x] = NoListener]
    BY <1>3, <2>3, Zenon DEF remove_join
  <2>5. lst'[x] = NoListener /\ \A u \in Url \ {x} : lst'[u] = lst[u]
    BY <2>4 DEF Records
  <2>6. listeners' = Shifted(listeners, Victim) /\ tids' = listeners'
    BY <1>3, Zenon DEF remove_join, ShiftTids, Arrays
  <2>7. listeners' \in Seq(Url) /\ IsInjective(listeners') /\ Range(listeners') = Range(listeners) \ {x}
    BY <2>2, <2>3, <2>6, ShiftedFacts, Zenon DEF Arrays
  <2>8. NoListener.st = "none"
    BY DEF NoListener
  <2>9. QED
    BY <2>5, <2>6, <2>7, <2>8, Zenon DEF Arrays
<1>4. ASSUME NEW t \in Thread, reconcile_add(t) PROVE Arrays'
  <2>0. PICK made \in SUBSET Missing :
          /\ \E new \in Ascending(made) : listeners' = listeners \o new /\ tids' = tids \o new
          /\ \E silent \in SUBSET made :
               lst' = [u \in Url |-> IF u \in silent THEN Unaccepted(PathOf(u))
                                     ELSE IF u \in made THEN Listening(PathOf(u)) ELSE lst[u]]
    BY <1>4, Zenon DEF reconcile_add
  <2>1. PICK new \in Ascending(made) : listeners' = listeners \o new /\ tids' = tids \o new
    BY <2>0, Zenon
  <2>2. made \in SUBSET Url /\ made \in SUBSET Nat /\ made \cap Range(listeners) = {}
    BY ExposureAssumption, Zenon DEF Missing, Typed
  <2>3. IsFiniteSet(made)
    BY <2>2, FS_Subset, ExposureAssumption, Zenon
  <2>4. new \in Seq(made) /\ Range(new) = made /\ IsInjective(new)
    BY <2>2, <2>3, AscendingFacts
  <2>5. new \in Seq(Url)
    BY <2>2, <2>4, SeqWidens, Zenon
  <2>6. listeners' \in Seq(Url) /\ IsInjective(listeners') /\ Range(listeners') = Range(listeners) \cup made
    BY <2>1, <2>2, <2>4, <2>5, JoinedFacts, Zenon DEF Arrays
  <2>7. tids' = listeners'
    BY <2>1, Zenon DEF Arrays
  <2>8. PICK silent \in SUBSET made :
          lst' = [u \in Url |-> IF u \in silent THEN Unaccepted(PathOf(u))
                                ELSE IF u \in made THEN Listening(PathOf(u)) ELSE lst[u]]
    BY <2>0, Zenon
  <2>9. \A p : Listening(p).st = "open" /\ Unaccepted(p).st = "open"
    BY DEF Listening, Unaccepted
  <2>10. ASSUME NEW u \in Url
         PROVE  /\ u \in Range(listeners) \cup made <=> lst'[u].st # "none"
                /\ lst'[u].st = "none" => lst'[u] = NoListener
    BY <2>8, <2>9, Zenon DEF Arrays
  <2>11. QED
    BY <2>6, <2>7, <2>10, Zenon DEF Arrays
<1>5. ASSUME NEW u \in Url, accept_loop(u) PROVE Arrays'
  <2> DEFINE r == [lst[u] EXCEPT !.pc = IF cancelled \/ lst[u].st # "open" THEN "exited" ELSE "accepting"]
  <2>1. lst' = [lst EXCEPT ![u] = r] /\ lst[u].pc # "none" /\ UNCHANGED <<listeners, tids>>
    BY <1>5 DEF accept_loop, Records
  <2>2. r.st = lst[u].st
    BY DEF Records, ListenerRecord
  <2>3. QED
    BY <2>1, <2>2, AcceptMoves, Zenon
<1>6. ASSUME NEW u \in Url, accept_null(u) PROVE Arrays'
  <2> DEFINE r == [lst[u] EXCEPT !.pc = "exited"]
  <2>1. lst' = [lst EXCEPT ![u] = r] /\ lst[u].pc # "none" /\ UNCHANGED <<listeners, tids>>
    BY <1>6 DEF accept_null, Records
  <2>2. r.st = lst[u].st
    BY DEF Records, ListenerRecord
  <2>3. QED
    BY <2>1, <2>2, AcceptMoves, Zenon
<1>7. ASSUME NEW u \in Url, channel_push(u) PROVE Arrays'
  <2> DEFINE r == [lst[u] EXCEPT !.pc = "loop", !.conn = None]
  <2>1. lst' = [lst EXCEPT ![u] = r] /\ lst[u].pc # "none" /\ UNCHANGED <<listeners, tids>>
    BY <1>7, Zenon DEF channel_push, Records
  <2>2. r.st = lst[u].st
    BY DEF Records, ListenerRecord
  <2>3. QED
    BY <2>1, <2>2, AcceptMoves, Zenon
<1>8. ASSUME NEW u \in Url, NEW c \in Conn, accept_conn(u, c) PROVE Arrays'
  <2> DEFINE r == [lst[u] EXCEPT !.pc = "pushing", !.conn = c]
  <2>1. lst' = [lst EXCEPT ![u] = r] /\ lst[u].pc # "none" /\ UNCHANGED <<listeners, tids>>
    BY <1>8, Zenon DEF accept_conn, Records
  <2>2. r.st = lst[u].st
    BY DEF Records, ListenerRecord
  <2>3. QED
    BY <2>1, <2>2, AcceptMoves, Zenon
<1>9. CASE close_listener
  <2>1. listeners[NextOpen] \in Range(listeners)
    BY <1>9, NextOpenFacts DEF close_listener
  <2>2. QED
    BY <1>9, <2>1, StateOfListed, Zenon DEF close_listener
<1>10. CASE close_listener_returns
  <2>1. listeners[NextOpen] \in Range(listeners)
    BY <1>10, NextOpenFacts DEF close_listener_returns
  <2>2. QED
    BY <1>10, <2>1, StateOfListed, Zenon DEF close_listener_returns
<1>11. CASE close_unlock
  <2>1. listeners' = <<>> /\ tids' = <<>>
    BY <1>11, Zenon DEF close_unlock
  <2>2. lst' = [u \in Url |-> IF u \in Range(listeners) THEN NoListener ELSE lst[u]]
    BY <1>11, Zenon DEF close_unlock
  <2>3. \A u \in Url : lst'[u].st = "none" /\ lst'[u] = NoListener
    BY <2>2, Zenon DEF Arrays, NoListener
  <2>4. listeners' \in Seq(Url) /\ Range(listeners') = {} /\ IsInjective(listeners')
    BY <2>1 DEF Range, IsInjective
  <2>5. QED
    BY <2>1, <2>3, <2>4, Zenon DEF Arrays
<1>12. ASSUME NEW t \in Caller, NEW c \in CallSet,
              call(t, c)
       PROVE  Arrays'
  <2>1. UNCHANGED <<listeners, tids, lst>>
    BY <1>12, Zenon DEF call, slots
  <2>2. QED
    BY <2>1, Zenon DEF Arrays
<1>13. ASSUME NEW t \in Thread,
              call_locked(t) \/ call_set(t) \/ reconcile_check(t) \/ reconcile_lock(t) \/
              touch_destroyed(t) \/ join_unstarted(t)
       PROVE  Arrays'
  <2>1. UNCHANGED <<listeners, tids, lst>>
    BY <1>13, Zenon DEF call_locked, call_set, reconcile_check, reconcile_lock, touch_destroyed, join_unstarted, slots
  <2>2. QED
    BY <2>1, Zenon DEF Arrays
<1>14. ASSUME NEW a \in Acceptor,
              exposure_accept(a) \/ accept_datagram(a) \/ pop_woken(a) \/ touch_freed(a) \/
              datagram_arrives(a)
       PROVE  Arrays'
  <2>1. UNCHANGED <<listeners, tids, lst>>
    BY <1>14, Zenon DEF exposure_accept, channel_pop, accept_datagram, pop_woken, touch_freed,
      datagram_arrives, slots
  <2>2. QED
    BY <2>1, Zenon DEF Arrays
<1>15. CASE close_cancel \/ discovery_copy \/ discovery_poll \/ discovery_apply \/
         discovery_sleep \/ close_lock \/ close_unstarted \/ channel_close \/ channel_free
  <2>1. UNCHANGED <<listeners, tids, lst>>
    BY <1>15, Zenon DEF close_cancel, discovery_copy, discovery_poll, discovery_apply, discovery_sleep,
      close_lock, close_unstarted, channel_close, channel_free, slots
  <2>2. QED
    BY <2>1, Zenon DEF Arrays
<1>16. CASE UNCHANGED vars
  <2>1. UNCHANGED <<listeners, tids, lst>>
    BY <1>16 DEF vars, slots
  <2>2. QED
    BY <2>1, Zenon DEF Arrays
<1>17. QED
  BY <1>1, <1>2, <1>3, <1>4, <1>5, <1>6, <1>7, <1>8, <1>9, <1>10, <1>11, <1>12, <1>13, <1>14,
      <1>15, <1>16, Zenon
    DEF Next, Call, Traffic, Inner, ThreadStep, DiscoveryStep, AcceptThreadStep, CloseStep, ListenerReturns

(* Who closes a listener has one to close.                                 *)
LEMMA ChosenKept ==
  ASSUME Threads, Locks, Chosen, [Next]_vars
  PROVE  Chosen'
<1>1. ASSUME NEW t \in Caller, NEW c \in CallSet, call(t, c) PROVE Chosen'
  <2>1. UNCHANGED Stale
    BY <1>1, Zenon DEF call, Stale, slots
  <2>2. QED
    BY <1>1, <2>1, CallStarts, Zenon DEF Chosen
<1>2. ASSUME NEW t \in Thread, call_locked(t) PROVE Chosen'
  <2>1. UNCHANGED Stale
    BY <1>2, Zenon DEF call_locked, Stale, slots
  <2>2. th' = th \/ (th'[t].pc \notin {"closing", "joining"} /\ \A s \in Thread \ {t} : th'[s] = th[s])
    BY <1>2, CallMoves, Zenon
  <2>3. QED
    BY <2>1, <2>2, Zenon DEF Chosen
<1>3. ASSUME NEW t \in Thread, call_set(t) PROVE Chosen'
  <2>1. UNCHANGED Stale
    BY <1>3, Zenon DEF call_set, Stale, slots
  <2>2. th' = th \/ (th'[t].pc \notin {"closing", "joining"} /\ \A s \in Thread \ {t} : th'[s] = th[s])
    BY <1>3, CallMoves, Zenon
  <2>3. QED
    BY <2>1, <2>2, Zenon DEF Chosen
<1>4. ASSUME NEW t \in Thread, reconcile_check(t) PROVE Chosen'
  <2>1. UNCHANGED Stale
    BY <1>4, Zenon DEF reconcile_check, Stale, slots
  <2>2. th' = th \/ (th'[t].pc \notin {"closing", "joining"} /\ \A s \in Thread \ {t} : th'[s] = th[s])
    BY <1>4, ReconcileMoves, Zenon DEF MovesTo
  <2>3. QED
    BY <2>1, <2>2, Zenon DEF Chosen
<1>5. ASSUME NEW t \in Thread, reconcile_lock(t) PROVE Chosen'
  <2>1. mu = None
    BY <1>5, Zenon DEF reconcile_lock, Unlocked
  <2>2. th'[t].pc \notin {"closing", "joining"} /\ \A s \in Thread \ {t} : th'[s] = th[s]
    BY <1>5, ReconcileMoves, Zenon DEF MovesTo
  <2>3. \A s \in Thread : th'[s].pc \notin {"closing", "joining"}
    BY <2>1, <2>2, Names, Zenon DEF Locks, Holding
  <2>4. QED
    BY <2>3 DEF Chosen
<1>6. ASSUME NEW t \in Thread, remove_close(t) PROVE Chosen'
  <2>1. UNCHANGED Stale /\ Stale # {}
    BY <1>6 DEF remove_close, Stale
  <2>2. QED
    BY <2>1, Zenon DEF Chosen
<1>7. ASSUME NEW t \in Thread, remove_closed(t) PROVE Chosen'
  <2>1. UNCHANGED Stale /\ Stale # {}
    BY <1>7 DEF remove_closed, Stale, Chosen
  <2>2. QED
    BY <2>1 DEF Chosen
<1>8. ASSUME NEW t \in Thread, remove_join(t) PROVE Chosen'
  <2>1. mu = t
    BY <1>8, Zenon DEF remove_join, Locks, Holding
  <2>2. th'[t].pc \notin {"closing", "joining"} /\ \A s \in Thread \ {t} : th'[s] = th[s]
    BY <1>8, ReconcileMoves, Zenon DEF MovesTo
  <2>3. \A s \in Thread : th'[s].pc \notin {"closing", "joining"}
    BY <2>1, <2>2 DEF Locks, Holding
  <2>4. QED
    BY <2>3 DEF Chosen
<1>9. ASSUME NEW t \in Thread, reconcile_add(t) PROVE Chosen'
  <2>1. mu = t
    BY <1>9, Zenon DEF reconcile_add, Locks, Holding
  <2>2. th'[t].pc \notin {"closing", "joining"} /\ \A s \in Thread \ {t} : th'[s] = th[s]
    BY <1>9, ReconcileMoves, Zenon DEF MovesTo
  <2>3. \A s \in Thread : th'[s].pc \notin {"closing", "joining"}
    BY <2>1, <2>2 DEF Locks, Holding
  <2>4. QED
    BY <2>3 DEF Chosen
<1>10. ASSUME NEW t \in Thread, join_unstarted(t) PROVE Chosen'
  <2>1. UNCHANGED Stale
    BY <1>10, Zenon DEF join_unstarted, Stale, slots
  <2>2. th'[t].pc \notin {"closing", "joining"} /\ \A s \in Thread \ {t} : th'[s] = th[s]
    BY <1>10, ReconcileMoves, Zenon DEF MovesTo
  <2>3. QED
    BY <2>1, <2>2 DEF Chosen
<1>11. ASSUME NEW t \in Thread, touch_destroyed(t) PROVE Chosen'
  <2>1. UNCHANGED Stale
    BY <1>11, Zenon DEF touch_destroyed, Stale, slots
  <2>2. th' = th \/ (th'[t].pc \notin {"closing", "joining"} /\ \A s \in Thread \ {t} : th'[s] = th[s])
    BY <1>11, ReconcileMoves, Zenon DEF MovesTo
  <2>3. QED
    BY <2>1, <2>2 DEF Chosen
<1>12. CASE close_unlock
  <2>1. mu = Closer /\ th' = th
    BY <1>12, Zenon DEF close_unlock, Locks
  <2>2. \A s \in Thread : th'[s].pc \notin {"closing", "joining"}
    BY <2>1, Names DEF Locks, Holding
  <2>3. QED
    BY <2>2, Zenon DEF Chosen
<1>13. CASE DiscoveryStep
  <2>1. UNCHANGED Stale
    BY <1>13, DiscoveryMoves, Zenon DEF Stale, slots
  <2>2. QED
    BY <1>13, <2>1, DiscoveryMoves, Zenon DEF Chosen
<1>14. ASSUME NEW u \in Url, NEW c \in Conn,
              accept_conn(u, c)
       PROVE  Chosen'
  <2>1. UNCHANGED <<th, listeners, want>>
    BY <1>14 DEF accept_conn, slots
  <2>2. QED
    BY <2>1, Zenon DEF Chosen, Stale
<1>15. ASSUME NEW u \in Url,
              accept_loop(u) \/ accept_null(u) \/ channel_push(u)
       PROVE  Chosen'
  <2>1. UNCHANGED <<th, listeners, want>>
    BY <1>15 DEF accept_loop, accept_null, channel_push, slots
  <2>2. QED
    BY <2>1 DEF Chosen, Stale
<1>16. ASSUME NEW a \in Acceptor,
              exposure_accept(a) \/ accept_datagram(a) \/ pop_woken(a) \/ touch_freed(a) \/
              datagram_arrives(a)
       PROVE  Chosen'
  <2>1. UNCHANGED <<th, listeners, want>>
    BY <1>16, Zenon DEF exposure_accept, channel_pop, accept_datagram, pop_woken, touch_freed,
      datagram_arrives, slots
  <2>2. QED
    BY <2>1 DEF Chosen, Stale
<1>17. CASE close_cancel \/ close_lock \/ close_listener \/ close_listener_returns \/
         close_unstarted \/ channel_close \/ channel_free
  <2>1. UNCHANGED <<th, listeners, want>>
    BY <1>17 DEF close_cancel, close_lock, close_listener, close_listener_returns, close_unstarted, channel_close,
      channel_free, slots
  <2>2. QED
    BY <2>1 DEF Chosen, Stale
<1>18. CASE UNCHANGED vars
  <2>1. UNCHANGED <<th, listeners, want>>
    BY <1>18 DEF vars, slots
  <2>2. QED
    BY <2>1 DEF Chosen, Stale
<1>19. QED
  BY <1>1, <1>2, <1>3, <1>4, <1>5, <1>6, <1>7, <1>8, <1>9, <1>10, <1>11, <1>12, <1>13, <1>14,
      <1>15, <1>16, <1>17, <1>18, Zenon
    DEF Next, Call, Traffic, Inner, ThreadStep, DiscoveryStep, AcceptThreadStep, CloseStep, ListenerReturns

-------------------------------------------------------------------------------
(* A reconciliation works for what the lists ask for.                      *)
LEMMA FollowingKept ==
  ASSUME Lists, Following, [Next]_vars
  PROVE  Following'
<1>1. ASSUME NEW t \in Thread, call_locked(t) PROVE Following'
  <2>1. mu' = None
    BY <1>1, Zenon DEF call_locked, Unlocked, lock
  <2>2. QED
    BY <2>1, Names DEF Following
<1>2. ASSUME NEW t \in Thread, reconcile_lock(t) PROVE Following'
  <2>1. Desired(want') /\ UNCHANGED <<explicit, hops, depth>>
    BY <1>2, Zenon DEF reconcile_lock, config
  <2>2. Pinned => want' = Target
    BY <2>1 DEF Desired, Pinned, Target, Lists
  <2>3. QED
    BY <2>1, <2>2 DEF Following, Pinned, Target
<1>3. ASSUME NEW t \in Thread, reconcile_add(t) PROVE Following'
  <2>1. mu' = None \/ UNCHANGED <<mu, want, explicit, hops, depth>>
    BY <1>3, Zenon DEF reconcile_add, config
  <2>2. QED
    BY <2>1, Names DEF Following, Pinned, Target
<1>4. CASE close_lock
  BY <1>4, Names DEF close_lock, Following
<1>5. CASE close_unlock
  BY <1>5, Names, Zenon DEF close_unlock, Following
<1>6. ASSUME NEW t \in Caller, NEW c \in CallSet,
              call(t, c)
       PROVE  Following'
  <2>1. UNCHANGED <<mu, want, explicit, hops, depth>>
    BY <1>6, Zenon DEF call, lock, config
  <2>2. QED
    BY <2>1 DEF Following, Pinned, Target
<1>7. ASSUME NEW u \in Url, NEW c \in Conn,
              accept_conn(u, c)
       PROVE  Following'
  <2>1. UNCHANGED <<mu, want, explicit, hops, depth>>
    BY <1>7 DEF accept_conn, lock, config
  <2>2. QED
    BY <2>1 DEF Following, Pinned, Target
<1>8. ASSUME NEW t \in Thread,
              call_set(t) \/ reconcile_check(t) \/ remove_close(t) \/ remove_closed(t) \/
              remove_join(t) \/ touch_destroyed(t) \/ join_unstarted(t)
       PROVE  Following'
  <2>1. UNCHANGED <<mu, want, explicit, hops, depth>>
    BY <1>8 DEF call_set, reconcile_check, remove_close, remove_closed, remove_join,
      touch_destroyed, join_unstarted, join_unstarted, lock, config
  <2>2. QED
    BY <2>1 DEF Following, Pinned, Target
<1>9. ASSUME NEW u \in Url,
              accept_loop(u) \/ accept_null(u) \/ channel_push(u)
       PROVE  Following'
  <2>1. UNCHANGED <<mu, want, explicit, hops, depth>>
    BY <1>9 DEF accept_loop, accept_null, channel_push, lock, config
  <2>2. QED
    BY <2>1 DEF Following, Pinned, Target
<1>10. ASSUME NEW a \in Acceptor,
              exposure_accept(a) \/ accept_datagram(a) \/ pop_woken(a) \/ touch_freed(a) \/
              datagram_arrives(a)
       PROVE  Following'
  <2>1. UNCHANGED <<mu, want, explicit, hops, depth>>
    BY <1>10, Zenon DEF exposure_accept, channel_pop, accept_datagram, pop_woken, touch_freed,
      datagram_arrives, lock, config
  <2>2. QED
    BY <2>1 DEF Following, Pinned, Target
<1>11. CASE close_cancel \/ discovery_copy \/ discovery_poll \/ discovery_apply \/
         discovery_sleep \/ close_listener \/ close_listener_returns \/ close_unstarted \/
         channel_close \/ channel_free
  <2>1. UNCHANGED <<mu, want, explicit, hops, depth>>
    BY <1>11 DEF close_cancel, discovery_copy, discovery_poll, discovery_apply, discovery_sleep,
      close_listener, close_listener_returns, close_unstarted, channel_close, channel_free, lock, config
  <2>2. QED
    BY <2>1 DEF Following, Pinned, Target
<1>12. CASE UNCHANGED vars
  <2>1. UNCHANGED <<mu, want, explicit, hops, depth>>
    BY <1>12 DEF vars, lock, config
  <2>2. QED
    BY <2>1 DEF Following, Pinned, Target
<1>13. QED
  BY <1>1, <1>2, <1>3, <1>4, <1>5, <1>6, <1>7, <1>8, <1>9, <1>10, <1>11, <1>12, Zenon
    DEF Next, Call, Traffic, Inner, ThreadStep, DiscoveryStep, AcceptThreadStep, CloseStep, ListenerReturns

(* Every change of the lists is followed by a reconciliation.              *)
LEMMA LockedMoves ==
  ASSUME Threads, NEW t \in Thread, call_locked(t)
  PROVE  th'[t].pc \in {"set", "reconcile"}
<1>1. \A ops : SetCalls(ops).pc \in {"set", "reconcile"}
  BY DEF SetCalls
<1>2. PICK ops : th' = [th EXCEPT ![t] = SetCalls(ops)]
  BY Zenon DEF call_locked
<1>3. QED
  BY <1>1, <1>2, CallFacts, Zenon

(* A thread that moves on and had no reconciliation ahead leaves things    *)
(* as they are.                                                            *)
LEMMA ConvergedStays ==
  ASSUME Converged, UNCHANGED <<config, mu, cancelled, listeners, unmade>>, NEW t \in Thread,
         \A s \in Thread \ {t} : th'[s] = th[s],
         th[t].pc \in {"set", "reconcile", "waiting"} => th'[t].pc \in {"set", "reconcile", "waiting"}
  PROVE  Converged'
BY Zenon DEF Converged, config, active_relay_urls

(* Converged.                                                              *)
LEMMA ConvergedKept ==
  ASSUME Typed, Threads, Locks, Arrays, Following, Closing, Converged, [Next]_vars
  PROVE  Converged'
<1>1. ASSUME NEW t \in Caller, NEW c \in CallSet, call(t, c) PROVE Converged'
  <2>1. UNCHANGED <<config, mu, cancelled, listeners, unmade>>
    BY <1>1, Zenon DEF call, lock, life, slots
  <2>2. QED
    BY <1>1, <2>1, CallStarts, ConvergedStays, Zenon
<1>2. ASSUME NEW t \in Thread, call_locked(t) PROVE Converged'
  <2>1. th'[t].pc \in {"set", "reconcile"}
    BY <1>2, LockedMoves
  <2>2. QED
    BY <2>1, Zenon DEF Converged
<1>3. ASSUME NEW t \in Thread, call_set(t) PROVE Converged'
  <2>1. \A s \in Thread \ {t} : th'[s] = th[s]
    BY <1>3, CallMoves, Zenon
  <2>2. UNCHANGED <<config, mu, cancelled, listeners, unmade>>
    BY <1>3, Zenon DEF call_set, lock, life, slots
  <2>3. CASE set_freed
    BY <2>2, <2>3, Zenon DEF Closing, Ended, Converged
  <2>4. CASE ~set_freed
    <3>1. \A ops : SetCalls(ops).pc \in {"set", "reconcile"}
      BY DEF SetCalls
    <3>2. PICK ops : th' = [th EXCEPT ![t] = SetCalls(ops)]
      BY <1>3, <2>4, Zenon DEF call_set
    <3>3. th'[t].pc \in {"set", "reconcile"}
      BY <3>1, <3>2, CallFacts, Zenon
    <3>4. QED
      BY <3>3, Zenon DEF Converged
  <2>5. QED
    BY <2>3, <2>4
<1>4. ASSUME NEW t \in Thread, reconcile_check(t) PROVE Converged'
  <2>1. cancelled' = cancelled
    BY <1>4, Zenon DEF reconcile_check, life
  <2>2. CASE set_freed
    BY <2>1, <2>2, Zenon DEF Closing, Ended, Converged
  <2>3. CASE ~set_freed
    <3>1. th'[t].pc = "waiting"
      BY <1>4, <2>3, ReconcileMoves, Zenon DEF MovesTo
    <3>2. QED
      BY <3>1, Zenon DEF Converged
  <2>4. QED
    BY <2>2, <2>3
<1>5. ASSUME NEW t \in Thread, reconcile_lock(t) PROVE Converged'
  BY <1>5, Names, Zenon DEF reconcile_lock, Converged
<1>6. ASSUME NEW t \in Thread, remove_close(t) PROVE Converged'
  <2>1. mu' = t
    BY <1>6 DEF remove_close, Locks, Holding, lock
  <2>2. QED
    BY <2>1, Names, Zenon DEF Converged
<1>7. ASSUME NEW t \in Thread, remove_closed(t) PROVE Converged'
  <2>1. mu' = t
    BY <1>7 DEF remove_closed, Locks, Holding, lock
  <2>2. QED
    BY <2>1, Names, Zenon DEF Converged
<1>8. ASSUME NEW t \in Thread, remove_join(t) PROVE Converged'
  <2>1. mu' = t
    BY <1>8, Zenon DEF remove_join, Locks, Holding, lock
  <2>2. QED
    BY <2>1, Names, Zenon DEF Converged
<1>9. ASSUME NEW t \in Thread, reconcile_add(t) PROVE Converged'
  <2>1. mu = t /\ Stale = {}
    BY <1>9, Zenon DEF reconcile_add, Locks, Holding
  <2>2. PICK made \in SUBSET Missing :
          unmade' = Missing \ made /\ \E new \in Ascending(made) : listeners' = listeners \o new
    BY <1>9, Zenon DEF reconcile_add
  <2>3. Range(listeners') = Range(listeners) \cup made
    <3>0. PICK new \in Ascending(made) : listeners' = listeners \o new
      BY <2>2
    <3>1. made \in SUBSET Url /\ made \in SUBSET Nat /\ made \cap Range(listeners) = {}
      BY ExposureAssumption, Zenon DEF Missing, Typed
    <3>2. IsFiniteSet(made)
      BY <3>1, FS_Subset, ExposureAssumption, Zenon
    <3>3. new \in Seq(made) /\ Range(new) = made /\ IsInjective(new)
      BY <3>1, <3>2, AscendingFacts
    <3>4. new \in Seq(Url)
      BY <3>1, <3>3, SeqWidens, Zenon
    <3>5. QED
      BY <3>0, <3>1, <3>3, <3>4, JoinedFacts, Zenon DEF Arrays
  <2>4. Range(listeners) \subseteq want
    BY <2>1 DEF Stale, Range
  <2>5. Range(listeners') = want \ unmade'
    BY <2>2, <2>3, <2>4 DEF Missing
  <2>6. UNCHANGED <<explicit, hops, depth>>
    BY <1>9, Zenon DEF reconcile_add, config
  <2>7. Pinned => want = Target
    BY <2>1 DEF Following
  <2>8. QED
    BY <2>5, <2>6, <2>7, Zenon DEF Converged, active_relay_urls, Pinned, Target
<1>10. ASSUME NEW t \in Thread, join_unstarted(t) PROVE Converged'
  <2>1. mu' = t
    BY <1>10, Zenon DEF join_unstarted, Locks, Holding, lock
  <2>2. QED
    BY <2>1, Names, Zenon DEF Converged
<1>11. ASSUME NEW t \in Thread, touch_destroyed(t) PROVE Converged'
  BY <1>11, Zenon DEF touch_destroyed, Destroyed, Closing, Converged, life
<1>12. CASE close_cancel
  BY <1>12, Zenon DEF close_cancel, Converged
<1>13. CASE close_lock
  BY <1>13, Names, Zenon DEF close_lock, Converged
<1>14. CASE close_unlock
  BY <1>14, Zenon DEF close_unlock, Closing, Converged
<1>15. CASE DiscoveryStep
  <2>1. UNCHANGED <<config, mu, cancelled, listeners, unmade>>
    BY <1>15, DiscoveryMoves, Zenon DEF lock, life, slots
  <2>2. QED
    BY <1>15, <2>1, Names, DiscoveryMoves, ConvergedStays, Zenon
<1>16. ASSUME NEW u \in Url, NEW c \in Conn,
              accept_conn(u, c)
       PROVE  Converged'
  <2>1. UNCHANGED <<explicit, hops, depth, mu, cancelled, th, listeners, unmade>>
    BY <1>16 DEF accept_conn, lock, config, slots, life
  <2>2. QED
    BY <2>1, Zenon DEF Converged, active_relay_urls
<1>17. ASSUME NEW u \in Url,
              accept_loop(u) \/ accept_null(u) \/ channel_push(u)
       PROVE  Converged'
  <2>1. UNCHANGED <<explicit, hops, depth, mu, cancelled, th, listeners, unmade>>
    BY <1>17 DEF accept_loop, accept_null, channel_push, lock, config, slots, life
  <2>2. QED
    BY <2>1, Zenon DEF Converged, active_relay_urls
<1>18. ASSUME NEW a \in Acceptor,
              exposure_accept(a) \/ accept_datagram(a) \/ pop_woken(a) \/ touch_freed(a) \/
              datagram_arrives(a)
       PROVE  Converged'
  <2>1. UNCHANGED <<explicit, hops, depth, mu, cancelled, th, listeners, unmade>>
    BY <1>18, Zenon DEF exposure_accept, channel_pop, accept_datagram, pop_woken, touch_freed,
      datagram_arrives, lock, config, slots, life
  <2>2. QED
    BY <2>1, Zenon DEF Converged, active_relay_urls
<1>19. CASE close_listener \/ close_listener_returns \/ close_unstarted \/ channel_close \/ channel_free
  <2>1. UNCHANGED <<explicit, hops, depth, mu, cancelled, th, listeners, unmade>>
    BY <1>19, Zenon DEF close_listener, close_listener_returns, close_unstarted, channel_close, channel_free,
      lock, config, slots, life
  <2>2. QED
    BY <2>1, Zenon DEF Converged, active_relay_urls
<1>20. CASE UNCHANGED vars
  <2>1. UNCHANGED <<explicit, hops, depth, mu, cancelled, th, listeners, unmade>>
    BY <1>20, Zenon DEF vars, lock, config, slots, life
  <2>2. QED
    BY <2>1, Zenon DEF Converged, active_relay_urls
<1>21. QED
  BY <1>1, <1>2, <1>3, <1>4, <1>5, <1>6, <1>7, <1>8, <1>9, <1>10, <1>11, <1>12, <1>13, <1>14,
      <1>15, <1>16, <1>17, <1>18, <1>19, <1>20, Zenon
    DEF Next, Call, Traffic, Inner, ThreadStep, DiscoveryStep, AcceptThreadStep, CloseStep, ListenerReturns

(* A thread that does not come to wait for the lock.                       *)
LEMMA ClosingStays ==
  ASSUME Closing, UNCHANGED <<cancelled, closer, set_freed, late, listeners>>, NEW t \in Thread,
         \A s \in Thread \ {t} : th'[s] = th[s],
         th'[t].pc \in Holding \cup {"waiting"} => th[t].pc \in Holding \cup {"waiting"}
  PROVE  Closing'
BY Zenon DEF Closing

(* The close.                                                              *)
LEMMA ClosingKept ==
  ASSUME Threads, Locks, Closing, [Next]_vars
  PROVE  Closing'
<1>1. ASSUME NEW t \in Caller, NEW c \in CallSet, call(t, c) PROVE Closing'
  <2>1. UNCHANGED <<cancelled, closer, set_freed, late, listeners>>
    BY <1>1, Zenon DEF call, set, life, slots
  <2>2. QED
    BY <1>1, <2>1, CallStarts, ClosingStays, Zenon DEF Holding
<1>2. ASSUME NEW t \in Thread, call_locked(t) PROVE Closing'
  <2>1. UNCHANGED <<cancelled, closer, set_freed, late, listeners>>
    BY <1>2, Zenon DEF call_locked, set, life, slots
  <2>2. th' = th \/ (th'[t].pc \notin Holding \cup {"waiting"} /\ \A s \in Thread \ {t} : th'[s] = th[s])
    BY <1>2, CallMoves, Zenon DEF call_locked, Holding
  <2>3. QED
    BY <2>1, <2>2, Names, ClosingStays, Zenon
<1>3. ASSUME NEW t \in Thread, call_set(t) PROVE Closing'
  <2>1. UNCHANGED <<cancelled, closer, set_freed, late, listeners>>
    BY <1>3, Zenon DEF call_set, set, life, slots
  <2>2. th' = th \/ (th'[t].pc \notin Holding \cup {"waiting"} /\ \A s \in Thread \ {t} : th'[s] = th[s])
    BY <1>3, CallMoves, Zenon DEF call_set, Holding
  <2>3. QED
    BY <2>1, <2>2, Names, ClosingStays, Zenon
<1>4. ASSUME NEW t \in Thread, reconcile_check(t) PROVE Closing'
  <2>1. UNCHANGED <<cancelled, closer, set_freed, late, listeners>>
    BY <1>4, Zenon DEF reconcile_check, set, life, slots
  <2>2. \A s \in Thread \ {t} : th'[s] = th[s]
    BY <1>4, ReconcileMoves, Zenon DEF MovesTo
  <2>3. CASE set_freed
    <3>1. th'[t].pc \notin Holding \cup {"waiting"}
      BY <1>4, <2>3, ReconcileMoves, Zenon DEF MovesTo, Holding
    <3>2. QED
      BY <2>1, <2>2, <3>1, ClosingStays, Zenon
  <2>4. CASE ~set_freed
    BY <2>1, <2>4, Zenon DEF Closing
  <2>5. QED
    BY <2>3, <2>4
<1>5. ASSUME NEW t \in Thread, reconcile_lock(t) PROVE Closing'
  <2>1. UNCHANGED <<cancelled, closer, set_freed, late>> /\ th[t].pc \in Holding \cup {"waiting"}
    BY <1>5, Zenon DEF reconcile_lock, set, life, Holding
  <2>2. QED
    BY <2>1, Zenon DEF Closing
<1>6. ASSUME NEW t \in Thread, remove_close(t) PROVE Closing'
  <2>1. UNCHANGED <<cancelled, closer, set_freed, late>> /\ th[t].pc \in Holding \cup {"waiting"}
    BY <1>6 DEF remove_close, set, life, Holding
  <2>2. QED
    BY <2>1, Zenon DEF Closing
<1>7. ASSUME NEW t \in Thread, remove_closed(t) PROVE Closing'
  <2>1. UNCHANGED <<cancelled, closer, set_freed, late>> /\ th[t].pc \in Holding \cup {"waiting"}
    BY <1>7 DEF remove_closed, set, life, Holding
  <2>2. QED
    BY <2>1, Zenon DEF Closing
<1>8. ASSUME NEW t \in Thread, remove_join(t) PROVE Closing'
  <2>1. UNCHANGED <<cancelled, closer, set_freed, late>> /\ th[t].pc \in Holding \cup {"waiting"}
    BY <1>8, Zenon DEF remove_join, set, life, Holding
  <2>2. QED
    BY <2>1, Zenon DEF Closing
<1>9. ASSUME NEW t \in Thread, reconcile_add(t) PROVE Closing'
  <2>1. UNCHANGED <<cancelled, closer, set_freed, late>> /\ th[t].pc \in Holding \cup {"waiting"}
    BY <1>9, Zenon DEF reconcile_add, set, life, Holding
  <2>2. QED
    BY <2>1, Zenon DEF Closing
<1>10. ASSUME NEW t \in Thread, join_unstarted(t) PROVE Closing'
  <2>1. UNCHANGED <<cancelled, closer, set_freed, late>> /\ th[t].pc \in Holding \cup {"waiting"}
    BY <1>10, Zenon DEF join_unstarted, set, life, Holding
  <2>2. QED
    BY <2>1, Zenon DEF Closing
<1>11. CASE close_unstarted
  BY <1>11, Zenon DEF close_unstarted, Closing, Ended, set, slots
<1>12. ASSUME NEW t \in Thread, touch_destroyed(t) PROVE Closing'
  <2>1. UNCHANGED <<cancelled, closer, set_freed, late, listeners>>
    BY <1>12, Zenon DEF touch_destroyed, set, life, slots
  <2>2. th' = th \/ (th'[t].pc \notin Holding \cup {"waiting"} /\ \A s \in Thread \ {t} : th'[s] = th[s])
    BY <1>12, ReconcileMoves, Zenon DEF MovesTo, Holding
  <2>3. QED
    BY <2>1, <2>2, Names, ClosingStays, Zenon
<1>13. CASE close_cancel
  BY <1>13, Zenon DEF close_cancel, Closing, Ended, set, slots
<1>14. CASE close_lock
  BY <1>14, Zenon DEF close_lock, Closing, Ended, set, slots
<1>15. CASE close_unlock
  <2>1. /\ closer = "closing" /\ closer' = "joining" /\ set_freed' /\ listeners' = <<>>
        /\ UNCHANGED <<cancelled, th>>
    BY <1>15, Zenon DEF close_unlock
  <2>2. \A t \in Thread : th[t].pc \notin Holding
    BY <2>1, Names DEF Locks
  <2>3. ~late' => \A t \in Thread : th[t].pc # "waiting"
    BY <1>15, Zenon DEF close_unlock
  <2>4. QED
    BY <2>1, <2>2, <2>3, Zenon DEF Closing, Ended
<1>16. CASE channel_close
  BY <1>16, Zenon DEF channel_close, Closing, Ended, set, slots
<1>17. CASE channel_free
  BY <1>17, Zenon DEF channel_free, Closing, Ended, set, slots
<1>18. CASE DiscoveryStep
  <2>1. UNCHANGED <<cancelled, closer, set_freed, late, listeners>>
    BY <1>18, DiscoveryMoves, Zenon DEF life, slots
  <2>2. QED
    BY <1>18, <2>1, Names, DiscoveryMoves, ClosingStays, Zenon DEF Holding
<1>19. ASSUME NEW u \in Url, NEW c \in Conn,
              accept_conn(u, c)
       PROVE  Closing'
  <2>1. UNCHANGED <<cancelled, closer, set_freed, late, listeners, th>>
    BY <1>19 DEF accept_conn, set, life, slots
  <2>2. QED
    BY <2>1, Zenon DEF Closing, Ended
<1>20. ASSUME NEW u \in Url,
              accept_loop(u) \/ accept_null(u) \/ channel_push(u)
       PROVE  Closing'
  <2>1. UNCHANGED <<cancelled, closer, set_freed, late, listeners, th>>
    BY <1>20 DEF accept_loop, accept_null, channel_push, set, life, slots
  <2>2. QED
    BY <2>1, Zenon DEF Closing, Ended
<1>21. ASSUME NEW a \in Acceptor,
              exposure_accept(a) \/ accept_datagram(a) \/ pop_woken(a) \/ touch_freed(a) \/
              datagram_arrives(a)
       PROVE  Closing'
  <2>1. UNCHANGED <<cancelled, closer, set_freed, late, listeners, th>>
    BY <1>21, Zenon DEF exposure_accept, channel_pop, accept_datagram, pop_woken, touch_freed,
      datagram_arrives, set, life, slots
  <2>2. QED
    BY <2>1, Zenon DEF Closing, Ended
<1>22. CASE close_listener \/ close_listener_returns
  <2>1. UNCHANGED <<cancelled, closer, set_freed, late, listeners, th>>
    BY <1>22 DEF close_listener, close_listener_returns, set, life, slots
  <2>2. QED
    BY <2>1, Zenon DEF Closing, Ended
<1>23. CASE UNCHANGED vars
  <2>1. UNCHANGED <<cancelled, closer, set_freed, late, listeners, th>>
    BY <1>23, Zenon DEF vars, set, life, slots
  <2>2. QED
    BY <2>1, Zenon DEF Closing, Ended
<1>24. QED
  BY <1>1, <1>2, <1>3, <1>4, <1>5, <1>6, <1>7, <1>8, <1>9, <1>10, <1>11, <1>12, <1>13, <1>14,
      <1>15, <1>16, <1>17, <1>18, <1>19, <1>20, <1>21, <1>22, <1>23, Zenon
    DEF Next, Call, Traffic, Inner, ThreadStep, DiscoveryStep, AcceptThreadStep, CloseStep, ListenerReturns

-------------------------------------------------------------------------------
(* A step that takes no connection from an accept thread.                  *)
LEMMA HeldStays ==
  ASSUME Connections, UNCHANGED <<conn, chan, closer>>,
         \A v \in Url : lst[v].pc = "pushing" => lst'[v].pc = "pushing" /\ lst'[v].conn = lst[v].conn
  PROVE  Connections'
<1>1. ASSUME NEW c \in Conn, conn[c] = "held"
      PROVE  \E u \in Url : lst'[u].pc = "pushing" /\ lst'[u].conn = c
  <2>1. PICK u \in Url : lst[u].pc = "pushing" /\ lst[u].conn = c
    BY <1>1, Zenon DEF Connections
  <2>2. QED
    BY <2>1, Zenon
<1>2. QED
  BY <1>1, Zenon DEF Connections, Destroyed

(* Closing a listener leaves its accept thread where it is.                *)
LEMMA StateLeavesPC ==
  ASSUME Records, NEW x, NEW s \in {"cancelled", "closed"}, lst' = [lst EXCEPT ![x].st = s]
  PROVE  \A v \in Url : lst'[v].pc = lst[v].pc /\ lst'[v].conn = lst[v].conn
<1> SUFFICES ASSUME NEW v \in Url PROVE lst'[v].pc = lst[v].pc /\ lst'[v].conn = lst[v].conn
  OBVIOUS
<1>1. lst[v] \in ListenerRecord
  BY DEF Records
<1>2. lst'[v] = lst[v] \/ lst'[v] = [lst[v] EXCEPT !.st = s]
  BY DEF Records
<1>3. QED
  BY <1>1, <1>2 DEF ListenerRecord

(* A queue without its first element ...                                   *)
LEMMA QueueElements ==
  ASSUME NEW S, NEW s \in Seq(S)
  PROVE  /\ Len(s) \in Nat /\ DOMAIN s = 1..Len(s)
         /\ s # <<>> => /\ Len(s) > 0 /\ Head(s) = s[1] /\ DOMAIN Tail(s) = 1..Len(s) - 1
                        /\ \A i \in 1..Len(s) - 1 : Tail(s)[i] = s[i + 1]
<1>1. Len(s) \in Nat /\ DOMAIN s = 1..Len(s)
  OBVIOUS
<1>2. s # <<>> => /\ Len(s) > 0 /\ Head(s) = s[1] /\ DOMAIN Tail(s) = 1..Len(s) - 1
                  /\ \A i \in 1..Len(s) - 1 : Tail(s)[i] = s[i + 1]
  OBVIOUS
<1>3. QED
  BY <1>1, <1>2, Zenon

(* ... and with one more.                                                  *)
LEMMA QueueAppended ==
  ASSUME NEW S, NEW s \in Seq(S), NEW x \in S
  PROVE  /\ DOMAIN Append(s, x) = 1..Len(s) + 1 /\ Append(s, x)[Len(s) + 1] = x
         /\ \A i \in 1..Len(s) : Append(s, x)[i] = s[i]
OBVIOUS

(* channel_pop takes the connection it delivers from the channel.          *)
LEMMA PopConnections ==
  ASSUME Channel, Connections, NEW a \in Acceptor, channel_pop(a)
  PROVE  Connections'
<1>1. UNCHANGED <<lst, closer>>
  BY Zenon DEF channel_pop, slots, life
<1>2. CASE ChannelClosed \/ chan = <<>>
  <2>1. UNCHANGED <<chan, conn>>
    BY <1>2 DEF channel_pop
  <2>2. QED
    BY <1>1, <2>1, Zenon DEF Connections, Destroyed
<1>3. CASE ~(ChannelClosed \/ chan = <<>>)
  <2>1. conn' = [conn EXCEPT ![Head(chan)] = "delivered"] /\ chan' = Tail(chan)
    BY <1>3, Zenon DEF channel_pop
  <2>2. PICK c \in Conn : c = Head(chan)
    BY <1>3 DEF Channel
  <2>3. conn'[c] = "delivered" /\ \A d \in Conn \ {c} : conn'[d] = conn[d]
    BY <2>1, <2>2 DEF Channel
  <2>4. Range(chan) \subseteq Range(chan') \cup {c}
    <3>1. PICK n \in Nat : n = Len(chan) /\ DOMAIN chan = 1..n /\ chan \in Seq(Conn) /\ chan # <<>>
      BY <1>3, QueueElements, Zenon DEF Channel
    <3>2. DOMAIN chan' = 1..n - 1 /\ (\A i \in 1..n - 1 : chan'[i] = chan[i + 1]) /\ chan[1] = c
      BY <2>1, <2>2, <3>1, QueueElements, Zenon
    <3>3. ASSUME NEW i \in 1..n PROVE chan[i] \in Range(chan') \cup {c}
      <4>1. CASE i = 1
        BY <3>2, <4>1, Zenon
      <4>2. CASE i # 1
        <5>1. i - 1 \in 1..n - 1 /\ chan'[i - 1] = chan[i]
          <6>1. i - 1 \in 1..n - 1 /\ (i - 1) + 1 = i
            BY <4>2
          <6>2. QED
            BY <3>2, <6>1, Zenon
        <5>2. QED
          BY <3>2, <5>1, Zenon DEF Range
      <4>3. QED
        BY <4>1, <4>2
    <3>4. QED
      BY <3>1, <3>3, Zenon DEF Range
  <2>5. \A d \in Conn : conn'[d] = "queued" => d \in Range(chan')
    BY <2>3, <2>4, Zenon DEF Connections
  <2>6. \A d \in Conn : conn'[d] = "held" => \E u \in Url : lst'[u].pc = "pushing" /\ lst'[u].conn = d
    BY <1>1, <2>3, Zenon DEF Connections
  <2>7. ~Destroyed'
    BY <1>1, <1>3 DEF ChannelClosed, Destroyed
  <2>8. QED
    BY <2>5, <2>6, <2>7, Zenon DEF Connections
<1>4. QED
  BY <1>2, <1>3

(* A connection is with an accept thread, in the channel, or settled.      *)
LEMMA ConnectionsKept ==
  ASSUME Records, Arrays, Channel, Connections, [Next]_vars
  PROVE  Connections'
<1>1. ASSUME NEW t \in Thread, remove_close(t) PROVE Connections'
  <2>1. UNCHANGED <<conn, chan, closer>>
    BY <1>1 DEF remove_close, channel, life
  <2>2. \A v \in Url : lst'[v].pc = lst[v].pc /\ lst'[v].conn = lst[v].conn
    BY <1>1, StateLeavesPC DEF remove_close
  <2>3. QED
    BY <2>1, <2>2, HeldStays, Zenon
<1>2. ASSUME NEW t \in Thread, remove_closed(t) PROVE Connections'
  <2>1. UNCHANGED <<conn, chan, closer>>
    BY <1>2 DEF remove_closed, channel, life
  <2>2. \A v \in Url : lst'[v].pc = lst[v].pc /\ lst'[v].conn = lst[v].conn
    BY <1>2, StateLeavesPC DEF remove_closed
  <2>3. QED
    BY <2>1, <2>2, HeldStays, Zenon
<1>3. ASSUME NEW t \in Thread, remove_join(t) PROVE Connections'
  <2>1. UNCHANGED <<conn, chan, closer>> /\ lst[listeners[Victim]].pc # "pushing"
    BY <1>3, Zenon DEF remove_join, channel, life, Arrays
  <2>2. lst' = [lst EXCEPT ![listeners[Victim]] = NoListener]
    BY <1>3, Zenon DEF remove_join
  <2>3. \A v \in Url : v # listeners[Victim] => lst'[v] = lst[v]
    BY <2>2 DEF Records
  <2>4. QED
    BY <2>1, <2>3, HeldStays, Zenon
<1>4. ASSUME NEW t \in Thread, reconcile_add(t) PROVE Connections'
  <2>1. UNCHANGED <<conn, chan, closer>>
    BY <1>4, Zenon DEF reconcile_add, channel, life
  <2>2. \A v \in Url : v \notin Missing => lst'[v] = lst[v]
    BY <1>4, Zenon DEF reconcile_add
  <2>3. \A v \in Url : v \in Missing => lst[v].pc = "none"
    <3>1. \A v \in Url : v \in Missing => lst[v] = NoListener
      BY Zenon DEF Missing, Arrays
    <3>2. NoListener.pc = "none"
      BY DEF NoListener
    <3>3. QED
      BY <3>1, <3>2, Zenon
  <2>4. QED
    BY <2>1, <2>2, <2>3, HeldStays, Zenon
<1>5. ASSUME NEW u \in Url, accept_loop(u) PROVE Connections'
  <2>1. UNCHANGED <<conn, chan, closer>> /\ lst[u].pc # "pushing"
    BY <1>5 DEF accept_loop, channel, life
  <2>2. \A v \in Url \ {u} : lst'[v] = lst[v]
    BY <1>5 DEF accept_loop, Records
  <2>3. QED
    BY <2>1, <2>2, HeldStays, Zenon
<1>6. ASSUME NEW u \in Url, accept_null(u) PROVE Connections'
  <2>1. UNCHANGED <<conn, chan, closer>> /\ lst[u].pc # "pushing"
    BY <1>6 DEF accept_null, channel, life
  <2>2. \A v \in Url \ {u} : lst'[v] = lst[v]
    BY <1>6 DEF accept_null, Records
  <2>3. QED
    BY <2>1, <2>2, HeldStays, Zenon
<1>7. ASSUME NEW u \in Url, channel_push(u) PROVE Connections'
  <2>1. PICK c \in Conn : c = lst[u].conn
    BY <1>7 DEF channel_push, Records
  <2>2. closer' = closer /\ \A v \in Url \ {u} : lst'[v] = lst[v]
    BY <1>7 DEF channel_push, Records, life
  <2>3. \A d \in Conn \ {c} : conn'[d] = conn[d]
    BY <1>7, <2>1 DEF channel_push, Channel
  <2>4. conn'[c] # "held"
    BY <1>7, <2>1 DEF channel_push, Channel
  <2>5. ASSUME NEW d \in Conn, conn'[d] = "held" PROVE \E v \in Url : lst'[v].pc = "pushing" /\ lst'[v].conn = d
    <3>1. d # c /\ conn[d] = "held"
      BY <2>3, <2>4, <2>5, Zenon
    <3>2. PICK v \in Url : lst[v].pc = "pushing" /\ lst[v].conn = d
      BY <3>1, Zenon DEF Connections
    <3>3. QED
      BY <2>1, <2>2, <3>1, <3>2, Zenon
  <2>6. CASE ChannelClosed \/ Full
    <3>1. chan' = chan /\ conn'[c] = "closed"
      BY <1>7, <2>1, <2>6 DEF channel_push, Channel
    <3>2. \A d \in Conn : conn'[d] = "queued" => d \in Range(chan)
      BY <2>3, <3>1, Zenon DEF Connections
    <3>3. QED
      BY <2>2, <2>5, <3>1, <3>2, Zenon DEF Connections, Destroyed
  <2>7. CASE ~(ChannelClosed \/ Full)
    <3>1. chan' = Append(chan, c) /\ ~Destroyed
      BY <1>7, <2>1, <2>7 DEF channel_push, ChannelClosed, Destroyed
    <3>2. Range(chan) \cup {c} \subseteq Range(chan')
      <4>1. PICK n \in Nat : n = Len(chan) /\ DOMAIN chan = 1..n /\ chan \in Seq(Conn)
        BY QueueElements, Zenon DEF Channel
      <4>2. DOMAIN chan' = 1..n + 1 /\ chan'[n + 1] = c /\ \A i \in 1..n : chan'[i] = chan[i]
        <5>1. /\ DOMAIN Append(chan, c) = 1..Len(chan) + 1 /\ Append(chan, c)[Len(chan) + 1] = c
              /\ \A i \in 1..Len(chan) : Append(chan, c)[i] = chan[i]
          BY <4>1, QueueAppended
        <5>2. QED
          BY <3>1, <4>1, <5>1, Zenon
      <4>3. 1..n \subseteq 1..n + 1 /\ n + 1 \in 1..n + 1
        OBVIOUS
      <4>4. QED
        BY <4>1, <4>2, <4>3, Zenon DEF Range
    <3>3. \A d \in Conn : conn'[d] = "queued" => d \in Range(chan')
      BY <2>3, <3>2, Zenon DEF Connections
    <3>4. QED
      BY <2>2, <2>5, <3>1, <3>3, Zenon DEF Connections, Destroyed
  <2>8. QED
    BY <2>6, <2>7
<1>8. ASSUME NEW u \in Url, NEW c \in Conn, accept_conn(u, c) PROVE Connections'
  <2>1. UNCHANGED <<chan, closer>> /\ conn' = [conn EXCEPT ![c] = "held"] /\ lst[u].pc # "pushing"
    BY <1>8 DEF accept_conn, life
  <2>2. lst'[u].pc = "pushing" /\ lst'[u].conn = c /\ \A v \in Url \ {u} : lst'[v] = lst[v]
    BY <1>8 DEF accept_conn, Records, ListenerRecord
  <2>3. conn'[c] = "held" /\ \A d \in Conn \ {c} : conn'[d] = conn[d]
    BY <2>1, Zenon DEF Channel
  <2>4. ASSUME NEW d \in Conn, conn'[d] = "held" PROVE \E v \in Url : lst'[v].pc = "pushing" /\ lst'[v].conn = d
    <3>1. CASE d = c
      BY <2>2, <3>1, Zenon
    <3>2. CASE d # c
      <4>1. PICK v \in Url : lst[v].pc = "pushing" /\ lst[v].conn = d
        BY <2>3, <2>4, <3>2, Zenon DEF Connections
      <4>2. v # u
        BY <2>1, <4>1, Zenon
      <4>3. QED
        BY <2>2, <4>1, <4>2, Zenon
    <3>3. QED
      BY <3>1, <3>2
  <2>5. \A d \in Conn : conn'[d] = "queued" => d \in Range(chan)
    BY <2>3, Zenon DEF Connections
  <2>6. QED
    BY <2>1, <2>4, <2>5, Zenon DEF Connections, Destroyed
<1>9. ASSUME NEW a \in Acceptor, exposure_accept(a) PROVE Connections'
  BY <1>9, PopConnections DEF exposure_accept
<1>10. ASSUME NEW a \in Acceptor, pop_woken(a) PROVE Connections'
  BY <1>10, PopConnections DEF pop_woken
<1>11. CASE close_cancel
  <2>1. UNCHANGED <<lst, conn, chan>> /\ closer' # "closed"
    BY <1>11 DEF close_cancel, slots, channel
  <2>2. QED
    BY <2>1, Zenon DEF Connections, Destroyed
<1>12. CASE close_lock
  <2>1. UNCHANGED <<lst, conn, chan>> /\ closer' # "closed"
    BY <1>12 DEF close_lock, slots, channel
  <2>2. QED
    BY <2>1, Zenon DEF Connections, Destroyed
<1>13. CASE close_listener
  <2>1. UNCHANGED <<conn, chan, closer>>
    BY <1>13 DEF close_listener, channel, life
  <2>2. \A v \in Url : lst'[v].pc = lst[v].pc /\ lst'[v].conn = lst[v].conn
    BY <1>13, StateLeavesPC DEF close_listener
  <2>3. QED
    BY <2>1, <2>2, HeldStays, Zenon
<1>14. CASE close_listener_returns
  <2>1. UNCHANGED <<conn, chan, closer>>
    BY <1>14 DEF close_listener_returns, channel, life
  <2>2. \A v \in Url : lst'[v].pc = lst[v].pc /\ lst'[v].conn = lst[v].conn
    BY <1>14, StateLeavesPC DEF close_listener_returns
  <2>3. QED
    BY <2>1, <2>2, HeldStays, Zenon
<1>15. CASE close_unlock
  <2>1. lst' = [u \in Url |-> IF u \in Range(listeners) THEN NoListener ELSE lst[u]]
    BY <1>15, Zenon DEF close_unlock
  <2>2. \A v \in Range(listeners) : lst[v].pc # "pushing"
    BY <1>15, Zenon DEF close_unlock, JoinAll, Arrays, Range
  <2>3. UNCHANGED <<conn, chan>> /\ closer' = "joining"
    BY <1>15, Zenon DEF close_unlock, close_unstarted, channel
  <2>4. \A c \in Conn : conn[c] = "held" => \E u \in Url : lst'[u].pc = "pushing" /\ lst'[u].conn = c
    BY <2>1, <2>2, Zenon DEF Connections
  <2>5. QED
    BY <2>3, <2>4, Zenon DEF Connections, Destroyed
<1>16. CASE close_unstarted
  <2>1. UNCHANGED <<lst, conn, chan>> /\ closer' # "closed"
    BY <1>16, Zenon DEF close_unstarted, slots, channel
  <2>2. QED
    BY <2>1, Zenon DEF Connections, Destroyed
<1>17. CASE channel_close
  <2>1. UNCHANGED <<lst, conn, chan>> /\ closer' # "closed"
    BY <1>17, Zenon DEF channel_close, slots, channel
  <2>2. QED
    BY <2>1, Zenon DEF Connections, Destroyed
<1>18. CASE channel_free
  <2>1. lst' = lst /\ chan' = <<>> /\ conn' = [d \in Conn |-> IF d \in Range(chan) THEN "closed" ELSE conn[d]]
    BY <1>18, Zenon DEF channel_free, CloseQueued, slots
  <2>2. \A d \in Conn : conn'[d] # "queued" /\ (conn'[d] = "held" => conn[d] = "held")
    BY <2>1, Zenon DEF Connections
  <2>3. QED
    BY <2>1, <2>2, Zenon DEF Connections
<1>19. ASSUME NEW t \in Caller, NEW c \in CallSet,
              call(t, c)
       PROVE  Connections'
  <2>1. UNCHANGED <<lst, conn, chan, closer>>
    BY <1>19, Zenon DEF call, slots, channel, life
  <2>2. QED
    BY <2>1, Zenon DEF Connections, Destroyed
<1>20. ASSUME NEW t \in Thread,
              call_locked(t) \/ call_set(t) \/ reconcile_check(t) \/ reconcile_lock(t) \/
              touch_destroyed(t) \/ join_unstarted(t)
       PROVE  Connections'
  <2>1. UNCHANGED <<lst, conn, chan, closer>>
    BY <1>20, Zenon DEF call_locked, call_set, reconcile_check, reconcile_lock, touch_destroyed, join_unstarted, slots,
      channel, life
  <2>2. QED
    BY <2>1, Zenon DEF Connections, Destroyed
<1>21. ASSUME NEW a \in Acceptor,
              accept_datagram(a) \/ touch_freed(a) \/ datagram_arrives(a)
       PROVE  Connections'
  <2>1. UNCHANGED <<lst, conn, chan, closer>>
    BY <1>21, Zenon DEF accept_datagram, touch_freed, datagram_arrives, slots, channel, life
  <2>2. QED
    BY <2>1, Zenon DEF Connections, Destroyed
<1>22. CASE discovery_copy \/ discovery_poll \/ discovery_apply \/ discovery_sleep
  <2>1. UNCHANGED <<lst, conn, chan, closer>>
    BY <1>22, Zenon DEF discovery_copy, discovery_poll, discovery_apply, discovery_sleep, slots, channel,
      life
  <2>2. QED
    BY <2>1, Zenon DEF Connections, Destroyed
<1>23. CASE UNCHANGED vars
  <2>1. UNCHANGED <<lst, conn, chan, closer>>
    BY <1>23, Zenon DEF vars, slots, channel, life
  <2>2. QED
    BY <2>1, Zenon DEF Connections, Destroyed
<1>24. QED
  BY <1>1, <1>2, <1>3, <1>4, <1>5, <1>6, <1>7, <1>8, <1>9, <1>10, <1>11, <1>12, <1>13, <1>14,
      <1>15, <1>16, <1>17, <1>18, <1>19, <1>20, <1>21, <1>22, <1>23, Zenon
    DEF Next, Call, Traffic, Inner, ThreadStep, DiscoveryStep, AcceptThreadStep, CloseStep, ListenerReturns

(* Sets of acceptors are finite.                                           *)
LEMMA WokenFacts ==
  ASSUME NEW S \in SUBSET Acceptor
  PROVE  /\ IsFiniteSet(S) /\ Cardinality(S) \in Nat
         /\ \A a \in Acceptor \ S : Cardinality(S \cup {a}) = Cardinality(S) + 1
         /\ \A a \in S : Cardinality(S \ {a}) = Cardinality(S) - 1
<1>1. IsFiniteSet(S)
  BY FS_Subset, ExposureAssumption, Zenon
<1>2. Cardinality(S) \in Nat
  BY <1>1, FS_CardinalityType
<1>3. ASSUME NEW a \in Acceptor \ S PROVE Cardinality(S \cup {a}) = Cardinality(S) + 1
  BY <1>1, FS_AddElement
<1>4. ASSUME NEW a \in S PROVE Cardinality(S \ {a}) = Cardinality(S) - 1
  BY <1>1, FS_RemoveElement
<1>5. QED
  BY <1>1, <1>2, <1>3, <1>4

(* A step of an acceptor that neither waits nor was woken.                 *)
LEMMA WakeupsStay ==
  ASSUME Wakeups, UNCHANGED <<closer, chan>>, UNCHANGED <<Waiting, Woken>>
  PROVE  Wakeups'
BY DEF Wakeups, ChannelClosed

(* Who pops takes one connection, and is woken no longer.                  *)
LEMMA PopWakeups ==
  ASSUME Channel, Wakeups, NEW a \in Acceptor, app[a] \in {"idle", "woken"}, channel_pop(a)
  PROVE  Wakeups'
<1>1. closer' = closer /\ chan \in Seq(Conn) /\ Len(chan) \in Nat
  <2>1. closer' = closer /\ chan \in Seq(Conn)
    BY Zenon DEF channel_pop, life, Channel
  <2>2. QED
    BY <2>1
<1>2. Cardinality(Woken) \in Nat /\ Woken \in SUBSET Acceptor
  BY WokenFacts, Zenon DEF Woken
<1>3. CASE ChannelClosed
  <2>1. app' = [app EXCEPT ![a] = "done"]
    BY <1>3 DEF channel_pop
  <2>2. Waiting' \subseteq Waiting
    BY <2>1 DEF Waiting, Channel
  <2>3. QED
    BY <1>3, <2>2 DEF Wakeups
<1>4. CASE ~ChannelClosed /\ chan = <<>>
  <2>1. chan' = <<>> /\ ~ChannelClosed'
    BY <1>1, <1>4 DEF channel_pop, ChannelClosed
  <2>2. Cardinality(Woken') \in Nat
    BY WokenFacts, Zenon DEF Woken
  <2>3. QED
    BY <2>1, <2>2 DEF Wakeups
<1>5. CASE ~ChannelClosed /\ chan # <<>>
  <2>1. app' = [app EXCEPT ![a] = "idle"] /\ chan' = Tail(chan) /\ ~ChannelClosed'
    BY <1>1, <1>5, Zenon DEF channel_pop, ChannelClosed
  <2>2. Len(chan') = Len(chan) - 1
    BY <1>1, <1>5, <2>1
  <2>3. Waiting' = Waiting /\ Woken' = Woken \ {a}
    BY <2>1 DEF Waiting, Woken, Channel
  <2>4. Cardinality(Woken \ {a}) >= Cardinality(Woken) - 1
    <3>1. CASE a \in Woken
      BY <1>2, <3>1, WokenFacts
    <3>2. CASE a \notin Woken
      <4>1. Cardinality(Woken \ {a}) = Cardinality(Woken)
        BY <3>2, Zenon
      <4>2. QED
        BY <1>2, <4>1
    <3>3. QED
      BY <3>1, <3>2
  <2>5. Cardinality(Woken \ {a}) \in Nat
    BY <1>2, WokenFacts
  <2>6. Waiting # {} => Len(chan) <= Cardinality(Woken)
    BY DEF Wakeups
  <2>7. Waiting' # {} => Len(chan') <= Cardinality(Woken')
    BY <1>1, <1>2, <2>2, <2>3, <2>4, <2>5, <2>6
  <2>8. QED
    BY <2>1, <2>7 DEF Wakeups
<1>6. QED
  BY <1>3, <1>4, <1>5

(* There are as many woken acceptors as connections, while one waits.      *)
LEMMA WakeupsKept ==
  ASSUME Records, Channel, Wakeups, [Next]_vars
  PROVE  Wakeups'
<1>1. ASSUME NEW u \in Url, channel_push(u) PROVE Wakeups'
  <2>1. closer' = closer
    BY <1>1 DEF channel_push, life
  <2>2. CASE ChannelClosed \/ Full
    <3>1. UNCHANGED <<chan, app>>
      BY <1>1, <2>2 DEF channel_push
    <3>2. QED
      BY <2>1, <3>1 DEF Wakeups, ChannelClosed, Waiting, Woken
  <2>3. CASE ~(ChannelClosed \/ Full)
    <3>1. chan' = Append(chan, lst[u].conn) /\ Signal /\ ~ChannelClosed'
      BY <1>1, <2>1, <2>3 DEF channel_push, ChannelClosed
    <3>2. CASE Waiting = {}
      <4>1. Waiting' = {}
        BY <3>1, <3>2 DEF Signal, Waiting
      <4>2. QED
        BY <4>1 DEF Wakeups
    <3>3. CASE Waiting # {}
      <4>1. PICK a \in Waiting : app' = [app EXCEPT ![a] = "woken"]
        BY <3>1, <3>3 DEF Signal
      <4>2. a \in Acceptor /\ a \notin Woken /\ Woken' = Woken \cup {a}
        BY <4>1 DEF Waiting, Woken, Channel
      <4>3. Woken \in SUBSET Acceptor
        BY DEF Woken
      <4>4. Cardinality(Woken \cup {a}) = Cardinality(Woken) + 1 /\ Cardinality(Woken) \in Nat
        BY <4>2, <4>3, WokenFacts
      <4>5. Len(chan') = Len(chan) + 1 /\ Len(chan) \in Nat
        <5>1. lst[u].conn \in Conn /\ chan \in Seq(Conn)
          BY <1>1 DEF channel_push, Records, Channel
        <5>2. QED
          BY <3>1, <5>1
      <4>6. Len(chan) <= Cardinality(Woken)
        BY <3>3 DEF Wakeups
      <4>7. Len(chan') <= Cardinality(Woken')
        BY <4>2, <4>4, <4>5, <4>6
      <4>8. QED
        BY <3>1, <4>7 DEF Wakeups
    <3>4. QED
      BY <3>2, <3>3
  <2>4. QED
    BY <2>2, <2>3
<1>2. ASSUME NEW a \in Acceptor, exposure_accept(a) PROVE Wakeups'
  BY <1>2, PopWakeups DEF exposure_accept
<1>3. ASSUME NEW a \in Acceptor, accept_datagram(a) PROVE Wakeups'
  <2>1. /\ UNCHANGED <<closer, chan>> /\ app[a] \in {"idle", "reading"}
        /\ app' = [app EXCEPT ![a] = "idle"] \/ app' = [app EXCEPT ![a] = "reading"]
    BY <1>3 DEF accept_datagram, life
  <2>2. UNCHANGED <<Waiting, Woken>>
    BY <2>1 DEF Waiting, Woken, Channel
  <2>3. QED
    BY <2>1, <2>2, WakeupsStay
<1>4. ASSUME NEW a \in Acceptor, pop_woken(a) PROVE Wakeups'
  BY <1>4, PopWakeups DEF pop_woken
<1>5. ASSUME NEW a \in Acceptor, touch_freed(a) PROVE Wakeups'
  <2>1. closer' = closer /\ ChannelClosed /\ app' = [app EXCEPT ![a] = "undefined"]
    BY <1>5 DEF touch_freed, life, Destroyed, ChannelClosed
  <2>2. Waiting' \subseteq Waiting
    BY <2>1 DEF Waiting, Channel
  <2>3. QED
    BY <2>1, <2>2 DEF Wakeups
<1>6. ASSUME NEW a \in Acceptor, datagram_arrives(a) PROVE Wakeups'
  <2>1. /\ UNCHANGED <<closer, chan>> /\ app[a] \in {"idle", "reading"}
        /\ app' = [app EXCEPT ![a] = "idle"] \/ app' = [app EXCEPT ![a] = "reading"]
    BY <1>6, Zenon DEF datagram_arrives, life
  <2>2. UNCHANGED <<Waiting, Woken>>
    BY <2>1 DEF Waiting, Woken, Channel
  <2>3. QED
    BY <2>1, <2>2, WakeupsStay
<1>7. CASE close_cancel
  <2>1. UNCHANGED <<app, chan>> /\ ~ChannelClosed'
    BY <1>7 DEF close_cancel, channel, ChannelClosed
  <2>2. QED
    BY <2>1 DEF Wakeups, Waiting, Woken
<1>8. CASE close_lock
  <2>1. UNCHANGED <<app, chan>> /\ ~ChannelClosed'
    BY <1>8 DEF close_lock, channel, ChannelClosed
  <2>2. QED
    BY <2>1 DEF Wakeups, Waiting, Woken
<1>9. CASE close_unstarted
  <2>1. UNCHANGED <<app, chan>> /\ ~ChannelClosed'
    BY <1>9, Zenon DEF close_unstarted, channel, ChannelClosed
  <2>2. QED
    BY <2>1 DEF Wakeups, Waiting, Woken
<1>10. CASE close_unlock
  <2>1. UNCHANGED <<app, chan>> /\ ~ChannelClosed'
    BY <1>10, Zenon DEF close_unlock, channel, ChannelClosed
  <2>2. QED
    BY <2>1 DEF Wakeups, Waiting, Woken
<1>11. CASE channel_close
  <2>1. Waiting' = {}
    BY <1>11, Zenon DEF channel_close, Broadcast, Waiting
  <2>2. QED
    BY <2>1 DEF Wakeups
<1>12. CASE channel_free
  <2>1. app' = app /\ ChannelClosed
    BY <1>12 DEF channel_free, ChannelClosed
  <2>2. Waiting' = {}
    BY <2>1 DEF Wakeups, Waiting
  <2>3. QED
    BY <2>2 DEF Wakeups
<1>13. ASSUME NEW t \in Caller, NEW c \in CallSet,
              call(t, c)
       PROVE  Wakeups'
  <2>1. UNCHANGED <<app, chan, closer>>
    BY <1>13, Zenon DEF call, channel, life
  <2>2. QED
    BY <2>1 DEF Wakeups, Waiting, Woken, ChannelClosed
<1>14. ASSUME NEW u \in Url, NEW c \in Conn,
              accept_conn(u, c)
       PROVE  Wakeups'
  <2>1. UNCHANGED <<app, chan, closer>>
    BY <1>14 DEF accept_conn, channel, life
  <2>2. QED
    BY <2>1 DEF Wakeups, Waiting, Woken, ChannelClosed
<1>15. ASSUME NEW t \in Thread,
              call_locked(t) \/ call_set(t) \/ reconcile_check(t) \/ reconcile_lock(t) \/
              remove_close(t) \/ remove_closed(t) \/ remove_join(t) \/ reconcile_add(t) \/
              touch_destroyed(t) \/ join_unstarted(t)
       PROVE  Wakeups'
  <2>1. UNCHANGED <<app, chan, closer>>
    BY <1>15, Zenon DEF call_locked, call_set, reconcile_check, reconcile_lock, remove_close,
      remove_closed, remove_join, reconcile_add, touch_destroyed, join_unstarted, channel, life
  <2>2. QED
    BY <2>1 DEF Wakeups, Waiting, Woken, ChannelClosed
<1>16. ASSUME NEW u \in Url,
              accept_loop(u) \/ accept_null(u)
       PROVE  Wakeups'
  <2>1. UNCHANGED <<app, chan, closer>>
    BY <1>16 DEF accept_loop, accept_null, channel, life
  <2>2. QED
    BY <2>1 DEF Wakeups, Waiting, Woken, ChannelClosed
<1>17. CASE discovery_copy \/ discovery_poll \/ discovery_apply \/ discovery_sleep \/
         close_listener \/ close_listener_returns
  <2>1. UNCHANGED <<app, chan, closer>>
    BY <1>17 DEF discovery_copy, discovery_poll, discovery_apply, discovery_sleep, close_listener,
      close_listener_returns, channel, life
  <2>2. QED
    BY <2>1 DEF Wakeups, Waiting, Woken, ChannelClosed
<1>18. CASE UNCHANGED vars
  <2>1. UNCHANGED <<app, chan, closer>>
    BY <1>18 DEF vars, channel, life
  <2>2. QED
    BY <2>1 DEF Wakeups, Waiting, Woken, ChannelClosed
<1>19. QED
  BY <1>1, <1>2, <1>3, <1>4, <1>5, <1>6, <1>7, <1>8, <1>9, <1>10, <1>11, <1>12, <1>13, <1>14,
      <1>15, <1>16, <1>17, <1>18, Zenon
    DEF Next, Call, Traffic, Inner, ThreadStep, DiscoveryStep, AcceptThreadStep, CloseStep, ListenerReturns

-------------------------------------------------------------------------------
(* What portillia_expose leaves.                                           *)
LEMMA InitHolds ==
  ASSUME Init
  PROVE  IInv
<1>1. Lists
  BY ExposureAssumption, Zenon DEF Init, Lists, ListsDisjoint, Range
<1>2. Typed
  <2>1. hops # <<>> => Exit(hops) \in Url
    BY <1>1 DEF Exit, Lists
  <2>2. unmade \subseteq Url
    BY <1>1, <2>1, Zenon DEF Init, FirstAsked, Lists
  <2>3. QED
    BY <2>2, Zenon DEF Init, Typed
<1>3. PICK d \in {"loop", "exited"} :
        th = [t \in Thread |-> [pc |-> IF t = Discovery THEN d ELSE "idle", todo |-> <<>>]]
  BY Zenon DEF Init
<1>4. \A t \in Thread : /\ th[t].pc \in {"loop", "exited", "idle"}
                       /\ th[t] \in [pc : ThreadPC, todo : Seq(CallSet \cup SetOp)]
  <2> SUFFICES ASSUME NEW t \in Thread
               PROVE  /\ th[t].pc \in {"loop", "exited", "idle"}
                      /\ th[t] \in [pc : ThreadPC, todo : Seq(CallSet \cup SetOp)]
    OBVIOUS
  <2>1. PICK e \in {"loop", "exited", "idle"} : th[t] = [pc |-> e, todo |-> <<>>]
    BY <1>3
  <2>2. e \in ThreadPC /\ <<>> \in Seq(CallSet \cup SetOp)
    BY DEF ThreadPC
  <2>3. th[t].pc = e
    BY <2>1
  <2>4. [pc |-> e, todo |-> <<>>] \in [pc : ThreadPC, todo : Seq(CallSet \cup SetOp)]
    BY <2>2, Zenon
  <2>5. QED
    BY <2>1, <2>3, <2>4, Zenon
<1>5. Threads
  BY <1>3, <1>4, Zenon DEF Threads
<1>6. Polling
  <2>1. poll = <<>> /\ round = 0
    BY Zenon DEF Init
  <2>2. QED
    BY <2>1, EmptyList, ExposureAssumption DEF Polling
<1>7. Channel
  <2>1. chan = <<>> /\ conn = [c \in Conn |-> "new"] /\ app = [a \in Acceptor |-> "idle"]
    BY Zenon DEF Init
  <2>2. QED
    BY <2>1, ExposureAssumption DEF Channel
<1>8. Locks
  BY <1>4, Names, Zenon DEF Init, Locks, Holding
<1>9. Chosen
  BY <1>4 DEF Chosen
<1>10. /\ listeners \in Seq(Url) /\ IsInjective(listeners)
       /\ Pinned => Range(listeners) = Target \ unmade
  <2>1. listeners \in Ascending(FirstAsked \ unmade)
    BY Zenon DEF Init
  <2>2. FirstAsked \subseteq Url
    <3>1. hops # <<>> => Exit(hops) \in Url
      BY <1>1 DEF Exit, Lists
    <3>2. QED
      BY <1>1, <3>1, Zenon DEF FirstAsked, Lists
  <2>3. FirstAsked \ unmade \in SUBSET Nat /\ FirstAsked \ unmade \in SUBSET Url /\ IsFiniteSet(Url)
    BY <2>2, ExposureAssumption
  <2>4. IsFiniteSet(FirstAsked \ unmade)
    BY <2>3, FS_Subset, Zenon
  <2>5. /\ listeners \in Seq(FirstAsked \ unmade) /\ IsInjective(listeners)
        /\ Range(listeners) = FirstAsked \ unmade
    BY <2>1, <2>3, <2>4, AscendingFacts
  <2>6. listeners \in Seq(Url)
    BY <2>3, <2>5, SeqWidens, Zenon
  <2>7. Pinned => FirstAsked = Target
    BY <1>1 DEF Pinned, FirstAsked, Target, Lists
  <2>8. QED
    BY <2>5, <2>6, <2>7, Zenon
<1>11. PICK silent \in SUBSET Range(listeners) :
         lst = [u \in Url |-> IF u \in silent THEN Unaccepted(hops)
                              ELSE IF u \in Range(listeners) THEN Listening(hops) ELSE NoListener]
  BY Zenon DEF Init
<1>12. Records
  BY <1>1, <1>11, ListeningRecord DEF Records, Lists
<1>13. Arrays
  <2>1. tids = listeners
    BY Zenon DEF Init
  <2>2. QED
    BY <1>1, <1>10, <1>11, <2>1, ListeningRecord, Zenon DEF Arrays, Lists
<1>14. Following
  BY Names, Zenon DEF Init, Following
<1>15. Converged
  BY <1>10, Zenon DEF Converged, Pinned, Target, active_relay_urls
<1>16. Closing
  BY Zenon DEF Init, Closing, Ended
<1>17. Connections
  BY Zenon DEF Init, Connections, Destroyed
<1>18. Wakeups
  BY Zenon DEF Init, Wakeups, ChannelClosed, Waiting
<1>19. QED
  BY <1>2, <1>1, <1>5, <1>6, <1>7, <1>8, <1>9, <1>12, <1>13, <1>14, <1>15, <1>16, <1>17, <1>18 DEF IInv

(* The invariant holds of the exposure, whoever calls what, and however    *)
(* close, the discovery thread and the accept threads interleave.          *)
THEOREM ExposureInvariance == Spec => []IInv
<1>1. Init => IInv
  BY InitHolds
<1>2. IInv /\ [Next]_vars => IInv'
  <2> SUFFICES ASSUME IInv, [Next]_vars PROVE IInv'
    OBVIOUS
  <2>1. /\ Typed /\ Threads /\ Records /\ Lists /\ Polling /\ Channel
        /\ Locks /\ Arrays /\ Chosen /\ Following /\ Converged /\ Closing /\ Connections /\ Wakeups
    BY DEF IInv
  <2>2. Typed' /\ Threads' /\ Records' /\ Lists' /\ Polling' /\ Channel'
    BY <2>1, TypedKept, ThreadsKept, RecordsKept, ListsKept, PollingKept, ChannelKept
  <2>3. Locks' /\ Arrays' /\ Chosen' /\ Following'
    BY <2>1, LocksKept, ArraysKept, ChosenKept, FollowingKept
  <2>4. Converged' /\ Closing' /\ Connections' /\ Wakeups'
    BY <2>1, ConvergedKept, ClosingKept, ConnectionsKept, WakeupsKept
  <2>5. QED
    BY <2>2, <2>3, <2>4, Zenon DEF IInv
<1>3. QED
  BY <1>1, <1>2, PTL DEF Spec

(* ExposureInv: the parallel arrays of listeners and accept threads stay   *)
(* parallel, the lists of relays disjoint, no connection sits in the       *)
(* channel while all acceptors sleep, and no relay is polled twice in a    *)
(* round.                                                                  *)
THEOREM ExposureSafe == Spec => []ExposureInv
<1>1. IInv => ExposureInv
  <2> SUFFICES ASSUME IInv PROVE ExposureInv
    OBVIOUS
  <2>1. \A u \in Url : lst[u].st \in {"none", "open", "cancelled", "closed"}
                       /\ lst[u].pc \in {"none", "loop", "accepting", "pushing", "exited", "unstarted"}
    BY DEF IInv, Records, ListenerRecord
  <2>2. TypeOK
    BY <2>1, Zenon DEF IInv, Typed, Lists, Arrays, Polling, Channel, TypeOK
  <2>3. ArraysParallel
    BY Zenon DEF IInv, Arrays, ArraysParallel
  <2>4. ListsDisjoint
    BY DEF IInv, Lists
  <2>5. NoLostWakeup
    <3> SUFFICES ASSUME chan # <<>>, Waiting # {} PROVE Woken # {}
      BY DEF NoLostWakeup, Woken
    <3>1. Len(chan) \in Nat /\ Len(chan) > 0 /\ Len(chan) <= Cardinality(Woken)
      BY DEF IInv, Channel, Wakeups
    <3>2. Cardinality({}) = 0
      BY FS_EmptySet
    <3>3. Woken = {} => Cardinality(Woken) = 0
      BY <3>2, Zenon
    <3>4. QED
      BY <3>1, <3>3
  <2>6. PollsEachOnce
    <3>1. round \in Nat /\ IsInjective(poll)
      BY ExposureAssumption DEF IInv, Polling
    <3>2. \A n \in 1..6 : {Slots(n, round)[k] : k \in 1..n} = 1..n
      <4> SUFFICES ASSUME NEW n \in 1..6 PROVE {Slots(n, round)[k] : k \in 1..n} = 1..n
        BY Zenon
      <4>1. n \in Nat \ {0}
        OBVIOUS
      <4>2. QED
        BY <3>1, <4>1, SlotsPermute, Zenon
    <3>3. QED
      BY <3>1, <3>2, Zenon DEF PollsEachOnce
  <2>7. QED
    BY <2>2, <2>3, <2>4, <2>5, <2>6 DEF ExposureInv
<1>2. QED
  BY <1>1, ExposureInvariance, PTL

(* Converged: when no call and no round of the discovery has a             *)
(* reconciliation ahead, the listeners are those the lists ask for.        *)
THEOREM ListenersConverge == Spec => []Converged
<1>1. IInv => Converged
  BY DEF IInv
<1>2. QED
  BY <1>1, ExposureInvariance, PTL

(* CloseClosesAll: after portillia_exposure_close no connection is left in *)
(* the channel, and, unless a reconciliation was waiting for the lock, no  *)
(* listener and no connection held by one.                                 *)
THEOREM CloseLeavesNothing == Spec => []CloseClosesAll
<1>1. IInv => CloseClosesAll
  <2> SUFFICES ASSUME IInv, closer = "closed"
               PROVE  /\ chan = <<>> /\ \A c \in Conn : conn[c] # "queued"
                      /\ ~late => \A u \in Url : lst[u].st = "none"
                      /\ ~late => \A c \in Conn : conn[c] # "held"
    BY Zenon DEF CloseClosesAll
  <2>1. chan = <<>> /\ \A c \in Conn : conn[c] = "queued" => c \in Range(chan)
    BY Zenon DEF IInv, Connections, Destroyed
  <2>2. Range(<<>>) = {}
    BY DEF Range
  <2>3. ~late => listeners = <<>>
    BY Zenon DEF IInv, Closing, Ended
  <2>4. ~late => \A u \in Url : lst[u].st = "none" /\ lst[u].pc = "none"
    <3>1. ~late => \A u \in Url : lst[u].st = "none" /\ lst[u] = NoListener
      BY <2>2, <2>3, Zenon DEF IInv, Arrays
    <3>2. NoListener.pc = "none"
      BY DEF NoListener
    <3>3. QED
      BY <3>1, <3>2, Zenon
  <2>5. ~late => \A c \in Conn : conn[c] # "held"
    BY <2>4, Zenon DEF IInv, Connections
  <2>6. QED
    BY <2>1, <2>2, <2>4, <2>5, Zenon
<1>2. QED
  BY <1>1, ExposureInvariance, PTL
===============================================================================
