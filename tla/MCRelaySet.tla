------------------------------ MODULE MCRelaySet ------------------------------
(***************************************************************************)
(* RelaySet with two URLs and two addresses: URL 1 is a peer's, URL 2 is   *)
(* our own.  The properties of Mols, which has no state, are here too.     *)
(***************************************************************************)
EXTENDS RelaySet, Mols, FiniteSetsExt, TLC

CONSTANTS
  a, b,        \* the peer's address and ours
  MaxCalls     \* bound on the calls of the exposure

VARIABLE calls

MCInit == Init /\ calls = 0

MCNext ==
  \/ Call /\ calls < MaxCalls /\ calls' = calls + 1
  \/ Discovery /\ UNCHANGED calls

MCSpec == MCInit /\ [][MCNext]_<<vars, calls>>

MCUrl == {1, 2}

D(url, addr, issued, expires, supports) ==
  [url |-> url, addr |-> addr, issued |-> issued, expires |-> expires, supports |-> supports]

All == {"overlay", "tcp"}
MCOffers == {All}

(* An older and a newer descriptor of the peer in either order, one of the *)
(* peer under our URL, an unsigned one, and some that are not acceptable:  *)
(* without an issue time or valid too long.                                *)
MCResponse ==
  {<<D(1, a, 1, 2, All), D(1, a, 2, 3, All)>>,
   <<D(1, a, 0, 4, All), D(1, a, 1, 5, All), D(2, a, 3, 4, {"overlay"}), D(1, None, 2, 3, {"tcp"})>>}

-------------------------------------------------------------------------------
(* mols.c over small pools of relays at time 1, for a client that needs    *)
(* tcp.  What a relay is ranked by varies if it is selectable; of those    *)
(* that a selector may pass over there is one of each kind.                *)

Kind(observed, expires, supports, banned, suppress_until) ==
  [observed |-> observed, expires |-> expires, supports |-> supports, banned |-> banned,
   suppress_until |-> suppress_until]

Usable     == Kind(TRUE, 2, {"overlay", "tcp"}, FALSE, 1)
NoOverlay  == Kind(TRUE, 2, {"tcp"}, FALSE, 0)
Unobserved == Kind(FALSE, 0, {}, FALSE, 0)
PassedOver ==
  {Kind(TRUE, 1, {"overlay", "tcp"}, FALSE, 0), Kind(TRUE, 2, {"overlay", "udp"}, FALSE, 0),
   Kind(TRUE, 2, {"overlay", "tcp"}, TRUE, 0), Kind(TRUE, 2, {"overlay", "tcp"}, FALSE, 2)}

RelayStates ==
  {r @@ Usable : r \in [slot : {0, 9}, confirmed : BOOLEAN, rtt : {0, 400, 2500, 3000}]}
    \cup {[slot |-> 0, confirmed |-> TRUE, rtt |-> 0] @@ k : k \in PassedOver \cup {NoOverlay, Unobserved}}

(* Pools in an order that is not the URLs', and those with one more relay, *)
(* an excellent one, than the selectors' array has room for.               *)
Excellent == [slot |-> 9, confirmed |-> TRUE, rtt |-> 1] @@ Usable

Pool ==
  UNION {[1..n -> RelayStates] : n \in 1..3}
    \cup {Append(p, Excellent) : p \in [1..3 -> {r \in RelayStates : r.confirmed /\ r.slot = 0}]}

Named(p) == [k \in DOMAIN p |-> p[k] @@ [url |-> <<2, 3, 1, 4>>[k]]]

Ingress == {0, 5}

(* What a tier's ranking should be: its best relays in order.              *)
BestOf(tier, ingress, pool) ==
  LET all == {Candidate(tier, i, ingress, pool) : i \in DOMAIN tier}
      sorted == SetToSortSeq(all, better_mols_candidate)
  IN  [k \in 1..Min({Len(sorted), MOLS_CANDIDATE_DEPTH}) |-> sorted[k].url]

Prefix(s, n) == SubSeq(s, 1, Min({n, Len(s)}))

HasKind(s, kinds) == \E k \in kinds : \A f \in DOMAIN k : s[f] = k[f]

(* rank_relay_pool lists the best candidates of the fast tier and then     *)
(* those of the slow one; a slow relay counts as fast only to fill the     *)
(* first tier up, and then no slower relay is preferred to a faster one.   *)
TiersSound(pool) ==
  LET t == Tiers(pool)
  IN  /\ ToSet(t[1]) \cup ToSet(t[2]) = ToSet(pool) /\ Len(t[1]) + Len(t[2]) = Len(pool)
      /\ \A r \in ToSet(t[1]), q \in ToSet(t[2]) : is_relay_fallback(q) /\ r.rtt <= q.rtt
      /\ (\E r \in ToSet(t[1]) : is_relay_fallback(r)) => Len(t[1]) <= MOLS_MIN_ACTIVE_NODES
      /\ Len(t[1]) < MOLS_MIN_ACTIVE_NODES => t[2] = <<>>

(* The selectors return as many from the front of the ranking as they are  *)
(* asked for, of the first relays in the table they may use.               *)
RankingSound ==
  \A p \in Pool, ingress \in Ingress :
    LET first(kinds) == Prefix(SelectSeq(Named(p), LAMBDA s : HasKind(s, kinds)), POOL_SIZE)
        any == first({Usable, NoOverlay, Unobserved})
        relaying == first({Usable})
        best(pool) == BestOf(Tiers(pool)[1], ingress, pool) \o BestOf(Tiers(pool)[2], ingress, pool)
    IN  /\ TiersSound(any) /\ TiersSound(relaying)
        /\ mols_select_priority(Named(p), ingress, {"tcp"}, 0, 1) = Prefix(best(any), MOLS_DEFAULT_MAX_ACTIVE_RELAYS)
        /\ mols_select_multihop(Named(p), ingress, {"tcp"}, 2, 1) = Prefix(best(relaying), 2)

(* The two squares are orthogonal, for both pairs of multipliers: no two   *)
(* cells of the 64 by 64 grid have the same score, so that relays of       *)
(* different slots never tie; on larger grids this holds within a row.     *)
SquaresOrthogonal ==
  /\ \A m \in {<<3, 5>>, <<7, 11>>} :
       Cardinality({mols_score(i, j, m[1], m[2], 64) : i \in 0..63, j \in 0..63}) = 64 * 64
  /\ \A i \in Ingress : Cardinality({mols_score(i, j, 3, 5, grid_order_for_size(65)) : j \in 0..63}) = 64

(* The relays of the table, in the order their hashes give them.           *)
StatesOf(order) ==
  [k \in DOMAIN order |->
     LET e == relays[order[k]]
     IN  [url |-> order[k], slot |-> order[k], confirmed |-> e.confirmed, rtt |-> e.rtt, banned |-> e.banned,
          observed |-> Observed(e), expires |-> e.expires, supports |-> e.supports,
          suppress_until |-> e.suppress_until]]

(* Why a client that needs some features may not be given a relay: it is   *)
(* not in the table or banned, its descriptor has expired or does not have *)
(* them, failures of it are still counted, or the array was full before.   *)
Excused(u, need) ==
  \/ u \notin candidates
  \/ Observed(relays[u]) /\ ~(relays[u].expires > now /\ need \subseteq relays[u].supports)
  \/ relays[u].active_failures > 0
  \/ Cardinality(candidates) > POOL_SIZE

(* A selection of at most n: no relay twice, none that is banned or whose  *)
(* descriptor has expired, and one that is not excused is left out only if *)
(* n others, or as many as a tier ranks, were selected.                    *)
Complete(selected, wanted, need, n) ==
  /\ Len(selected) = Cardinality(ToSet(selected)) /\ Len(selected) <= n
  /\ \A u \in ToSet(selected) : u \in candidates /\ (Observed(relays[u]) => relays[u].expires > now)
  /\ \A u \in wanted \ ToSet(selected) : Excused(u, need) \/ Len(selected) >= Min({n, MOLS_CANDIDATE_DEPTH})

(* Selecting for a client that needs tcp from the table, in whatever order *)
(* it has its entries, leaves a relay out only for a reason, or when there *)
(* are enough without it.                                                  *)
SelectionComplete ==
  \A order \in SetToSeqs(candidates) :
    LET states == Limit(StatesOf(order), POOL_SIZE)
        need == {"tcp"}
    IN  /\ Complete(mols_select_priority(states, 0, need, 0, now), Url, need, MOLS_DEFAULT_MAX_ACTIVE_RELAYS)
        /\ Complete(mols_select_priority(states, 0, need, 1, now), Url, need, 1)
        /\ Complete(mols_select_multihop(states, 0, need, 2, now), overlay_peers(now), need, 2)

(* The ranking of mols.c is what its scores and tiers say, its scores tell *)
(* relays apart, and no relay of the table is left out without a reason.   *)
RankingInv == RankingSound /\ SquaresOrthogonal /\ SelectionComplete
===============================================================================
