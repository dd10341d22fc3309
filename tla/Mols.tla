--------------------------------- MODULE Mols ---------------------------------
(***************************************************************************)
(* The ranking of relays, src/portal/discovery/mols.c: a score from two    *)
(* mutually orthogonal Latin squares over GF(64), an insertion into the    *)
(* best few candidates, and the tiers of fast and slow relays.             *)
(*                                                                         *)
(* A relay's state is a record with its url, the slot its URL hashes to,   *)
(* its round trip time (0 if not measured), its flags confirmed and        *)
(* banned, the end of its suppression and, if a descriptor was observed,   *)
(* what it supports and when it expires.  The order of URLs that strcmp    *)
(* gives is the order of numbers.  Nothing sets is_saturated, and the      *)
(* second pass over saturated relays is empty.                             *)
(***************************************************************************)
EXTENDS Integers, Sequences, SequencesExt, Bitwise

CONSTANTS
  MOLS_CANDIDATE_DEPTH, MOLS_MIN_ACTIVE_NODES, MOLS_DEFAULT_MAX_ACTIVE_RELAYS,
  POOL_SIZE             \* of the arrays of states, 256

Times2(a) == IF a >= 32 THEN ((2 * a) ^^ 67) % 64 ELSE 2 * a

gf64_mul(a, b) ==
  LET power[k \in 0..5] == IF k = 0 THEN a % 64 ELSE Times2(power[k - 1])
      sum[k \in 0..6] == IF k = 0 THEN 0
                         ELSE IF (b \div 2^(k - 1)) % 2 = 1 THEN sum[k - 1] ^^ power[k - 1] ELSE sum[k - 1]
  IN  sum[6]

grid_order_for_size(size) ==
  IF size <= 64 THEN 64 ELSE IF size % 32 = 0 THEN size ELSE size + (32 - (size % 32))

mols_score(i, j, m1, m2, order) ==
  IF order = 64 THEN (gf64_mul(m1, i) ^^ j) * order + (gf64_mul(m2, i) ^^ j) + 1
  ELSE ((m1 * i + j) % order) * order + ((m2 * i + j) % order) + 1

mols_congestion_score(i, j, m1, m2, order) ==
  (order * order + 1) - mols_score(i, (order - 1) - j, m1, m2, order)

-------------------------------------------------------------------------------
Measured(pool) == SelectSeq(pool, LAMBDA r : r.rtt # 0)
Total(numbers) == FoldLeft(LAMBDA sum, n : sum + n, 0, numbers)
Rtts(pool) == [k \in DOMAIN pool |-> pool[k].rtt]

(* mols_rtt_stats compared with its thresholds, without the divisions: a   *)
(* mean above 500 ms, and a standard deviation above half of the mean.     *)
Congested(pool) ==
  LET m == Measured(pool) IN Len(m) > 0 /\ Total(Rtts(m)) > 500 * Len(m)

NonLinear(pool) ==
  LET m == Measured(pool)
      sum == Total(Rtts(m))
  IN  Len(m) > 1 /\ 4 * Len(m) * Total([k \in DOMAIN m |-> m[k].rtt * m[k].rtt]) > 5 * sum * sum

is_relay_fallback(r) == r.rtt > 2000

better_mols_candidate(a, b) ==
  \/ a.score > b.score
  \/ a.score = b.score /\ a.confirmed /\ ~b.confirmed
  \/ a.score = b.score /\ a.confirmed = b.confirmed /\ a.url < b.url
  \/ a.score = b.score /\ a.confirmed = b.confirmed /\ a.url = b.url /\ a.seq < b.seq

InsertLast(best, c) == IF Len(best) < MOLS_CANDIDATE_DEPTH THEN Append(best, c) ELSE best

(* One candidate goes in front of those it beats; the last one may drop.   *)
InsertCandidate(best, c) ==
  LET beaten == {k \in DOMAIN best : \A m \in k..Len(best) : better_mols_candidate(c, best[m])}
      at == Len(best) + 1 - Cardinality(beaten)
      longer == InsertAt(best, at, c)
  IN  IF at > MOLS_CANDIDATE_DEPTH THEN best
      ELSE SubSeq(longer, 1, IF Len(longer) > MOLS_CANDIDATE_DEPTH THEN MOLS_CANDIDATE_DEPTH ELSE Len(longer))

Score(r, ingress, pool) ==
  LET order == grid_order_for_size(Len(pool))
      m1 == IF NonLinear(pool) THEN 7 ELSE 3
      m2 == IF NonLinear(pool) THEN 11 ELSE 5
  IN  IF Congested(pool) THEN mols_congestion_score(ingress % order, r.slot % order, m1, m2, order)
      ELSE mols_score(ingress % order, r.slot % order, m1, m2, order)

Candidate(tier, i, ingress, pool) ==
  [url |-> tier[i].url, confirmed |-> tier[i].confirmed, seq |-> i, score |-> Score(tier[i], ingress, pool)]

rank_tier(tier, ingress, pool) ==
  LET candidates == [i \in DOMAIN tier |-> Candidate(tier, i, ingress, pool)]
      best == FoldLeft(InsertCandidate, <<>>, candidates)
  IN  [k \in DOMAIN best |-> best[k].url]

(* The exchange sort of the slow relays by round trip time.                *)
SortByRtt(s) ==
  LET Pair == SetToSortSeq({p \in (DOMAIN s) \X (DOMAIN s) : p[1] < p[2]},
                           LAMBDA p, q : p[1] < q[1] \/ (p[1] = q[1] /\ p[2] < q[2]))
      Exchange(t, p) == IF t[p[2]].rtt < t[p[1]].rtt
                        THEN [t EXCEPT ![p[1]] = t[p[2]], ![p[2]] = t[p[1]]] ELSE t
  IN  FoldLeft(Exchange, s, Pair)

(* How many slow relays make up for missing fast ones.                     *)
Promoted(active, fallback) ==
  IF Len(active) >= MOLS_MIN_ACTIVE_NODES THEN 0
  ELSE IF MOLS_MIN_ACTIVE_NODES - Len(active) > Len(fallback) THEN Len(fallback)
  ELSE MOLS_MIN_ACTIVE_NODES - Len(active)

Tiers(pool) ==
  LET active == SelectSeq(pool, LAMBDA r : ~is_relay_fallback(r))
      slow == SelectSeq(pool, LAMBDA r : is_relay_fallback(r))
      n == Promoted(active, slow)
      fallback == IF n > 0 THEN SortByRtt(slow) ELSE slow
  IN  <<active \o SubSeq(fallback, 1, n), SubSeq(fallback, n + 1, Len(fallback))>>

rank_relay_pool(pool, ingress) ==
  LET t == Tiers(pool) IN rank_tier(t[1], ingress, pool) \o rank_tier(t[2], ingress, pool)

Limit(ranked, n) == IF Len(ranked) > n THEN SubSeq(ranked, 1, n) ELSE ranked

-------------------------------------------------------------------------------
(* The selectors, for a client that needs udp, tcp, both or neither.       *)

Selectable(s, need, at) ==
  /\ ~s.banned
  /\ s.observed => s.expires > at /\ need \subseteq s.supports
  /\ s.suppress_until <= at

Relaying(s) == s.observed /\ "overlay" \in s.supports

mols_select_priority(states, ingress, need, max_active, at) ==
  LET pool == Limit(SelectSeq(states, LAMBDA s : Selectable(s, need, at)), POOL_SIZE)
  IN  Limit(rank_relay_pool(pool, ingress),
            IF max_active <= 0 THEN MOLS_DEFAULT_MAX_ACTIVE_RELAYS ELSE max_active)

mols_select_multihop(states, ingress, need, depth, at) ==
  LET pool == Limit(SelectSeq(states, LAMBDA s : Relaying(s) /\ Selectable(s, need, at)), POOL_SIZE)
  IN  IF depth <= 1 THEN <<>> ELSE Limit(rank_relay_pool(pool, ingress), depth)
===============================================================================
