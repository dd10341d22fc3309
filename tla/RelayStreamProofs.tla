-------------------------- MODULE RelayStreamProofs ---------------------------
(***************************************************************************)
(* The safety invariants of RelayStream, and that it implements            *)
(* SessionQueue, for any number of sessions and claimers and any           *)
(* READY_LIMIT.                                                            *)
(*                                                                         *)
(* None of the invariants is inductive alone.  IInv adds that a claimer    *)
(* holds a session only between the pop and the end of its call, that a    *)
(* held session is out of the queue, that mu is held exactly while the     *)
(* keepalive thread sweeps, and that a freed stream has an empty queue.    *)
(***************************************************************************)
EXTENDS RelayStream, TLAPS

HeldTaken ==
  \A c \in Claimer :
    /\ claim[c] \in {"idle", "resolved", "waiting", "woken", "expired"} => held[c] = None
    /\ held[c] # None => sess[held[c]] \in {"popped", "active", "closed"}

SweepHoldsMutex ==
  /\ ka = "sweeping" <=> mu = "keepalive"
  /\ ka # "sweeping" => cursor = <<>>

FreedEmpty == janitor = "freed" => ready = <<>>

IInv ==
  /\ TypeOK /\ QueueConsistent /\ ExclusiveClaim /\ MarkerOnlyToReady /\ BindingAccounted
  /\ HeldTaken /\ SweepHoldsMutex /\ FreedEmpty

-------------------------------------------------------------------------------
(* Sequences as queues of distinct elements.                               *)

(* What relay_stream_offer does to the list: one more element at the end.  *)
LEMMA AppendQueue ==
  ASSUME NEW S, NEW q \in Seq(S), NEW s \in S
  PROVE  /\ Append(q, s) \in Seq(S)
         /\ Len(Append(q, s)) = Len(q) + 1
         /\ Range(Append(q, s)) = Range(q) \cup {s}
         /\ IsInjective(q) /\ s \notin Range(q) => IsInjective(Append(q, s))
<1>1. /\ Append(q, s) \in Seq(S) /\ Len(Append(q, s)) = Len(q) + 1
      /\ \A i \in 1..Len(q) : Append(q, s)[i] = q[i]
      /\ Append(q, s)[Len(q) + 1] = s
  OBVIOUS
<1>2. DOMAIN q = 1..Len(q) /\ DOMAIN Append(q, s) = 1..Len(q) + 1 /\ Len(q) \in Nat
  OBVIOUS
<1>3. Range(Append(q, s)) = Range(q) \cup {s}
  BY <1>1, <1>2 DEF Range
<1>4. IsInjective(q) /\ s \notin Range(q) => IsInjective(Append(q, s))
  BY <1>1, <1>2 DEF Range, IsInjective
<1> QED BY <1>1, <1>3, <1>4

(* What relay_stream_claim does to the list: the first element is gone.    *)
LEMMA TailQueue ==
  ASSUME NEW S, NEW q \in Seq(S), q # <<>>, IsInjective(q)
  PROVE  /\ Tail(q) \in Seq(S) /\ Head(q) \in S
         /\ Len(Tail(q)) = Len(q) - 1 /\ Len(q) > 0
         /\ Range(Tail(q)) = Range(q) \ {Head(q)}
         /\ Head(q) \in Range(q)
         /\ IsInjective(Tail(q))
<1>1. /\ Tail(q) \in Seq(S) /\ Len(Tail(q)) = Len(q) - 1 /\ Len(q) > 0 /\ Len(q) \in Nat
      /\ \A i \in 1..Len(q) - 1 : Tail(q)[i] = q[i + 1]
      /\ Head(q) = q[1]
  OBVIOUS
<1>2. DOMAIN q = 1..Len(q) /\ DOMAIN Tail(q) = 1..Len(q) - 1
  BY <1>1
<1>3. IsInjective(Tail(q))
  BY <1>1, <1>2 DEF IsInjective
<1>4. Head(q) \in Range(q) /\ Head(q) \in S
  BY <1>1, <1>2 DEF Range
<1>5. Range(Tail(q)) \subseteq Range(q) \ {Head(q)}
  BY <1>1, <1>2 DEF Range, IsInjective
<1>6. Range(q) \ {Head(q)} \subseteq Range(Tail(q))
  <2> SUFFICES ASSUME NEW i \in 1..Len(q), q[i] # q[1]
               PROVE  q[i] \in Range(Tail(q))
    BY <1>1, <1>2 DEF Range
  <2>1. i - 1 \in 1..Len(q) - 1 /\ Tail(q)[i - 1] = q[i]
    BY <1>1
  <2> QED BY <2>1, <1>2, Zenon DEF Range
<1> QED BY <1>1, <1>3, <1>4, <1>5, <1>6

(* The list of a stream that is new, or has been freed.                    *)
LEMMA EmptyQueue ==
  /\ <<>> \in Seq(Session) /\ Range(<<>>) = {} /\ Len(<<>>) = 0 /\ IsInjective(<<>>)
BY DEF Range, IsInjective

-------------------------------------------------------------------------------
(* relay_stream_new establishes the inductive invariant.                   *)
LEMMA InitInv == Init => IInv
<1> SUFFICES ASSUME Init PROVE IInv
  OBVIOUS
<1>a. stop \in BOOLEAN
  BY Zenon DEF Init
<1>1. TypeOK
  BY <1>a, LimitAssumption, EmptyQueue DEF Init, TypeOK, SessState, ClaimState
<1>2. QueueConsistent
  BY EmptyQueue DEF Init, QueueConsistent
<1>3. ExclusiveClaim /\ MarkerOnlyToReady /\ BindingAccounted /\ HeldTaken /\ SweepHoldsMutex /\ FreedEmpty
  BY EmptyQueue DEF Init, ExclusiveClaim, MarkerOnlyToReady, BindingAccounted, HeldTaken,
     SweepHoldsMutex, FreedEmpty
<1> QED BY <1>1, <1>2, <1>3 DEF IInv

(* An SDK connection looks up its lease.                                   *)
LEMMA OfferLookupInv ==
  ASSUME IInv, NEW s \in Session, offer_lookup(s)
  PROVE  IInv'
<1> USE DEF offer_lookup, claimVars, kaVars, freeVars
<1>1. TypeOK' BY DEF IInv, TypeOK, SessState
<1>2. QueueConsistent' BY DEF IInv, TypeOK, QueueConsistent
<1>3. ExclusiveClaim' BY NoneAssumption DEF IInv, TypeOK, ExclusiveClaim
<1>4. MarkerOnlyToReady' BY DEF IInv, TypeOK, MarkerOnlyToReady
<1>5. BindingAccounted' BY DEF IInv, TypeOK, BindingAccounted
<1>6. HeldTaken' BY NoneAssumption DEF IInv, TypeOK, HeldTaken
<1>7. SweepHoldsMutex' /\ FreedEmpty' BY DEF IInv, SweepHoldsMutex, FreedEmpty
<1> QED BY <1>1, <1>2, <1>3, <1>4, <1>5, <1>6, <1>7 DEF IInv

(* relay_stream_offer, with room or without.                               *)
LEMMA OfferInv ==
  ASSUME IInv, NEW s \in Session, relay_stream_offer(s)
  PROVE  IInv'
<1> USE DEF freeVars
<1>0. /\ sess[s] = "resolved" /\ mu = "free" /\ janitor # "freed" /\ ka # "sweeping" /\ cursor = <<>>
      /\ s \notin Range(ready)
  BY DEF IInv, SweepHoldsMutex, relay_stream_offer, QueueConsistent
<1>a. UNCHANGED <<held, binding, cursor, mu, stop, janitor>>
  BY DEF relay_stream_offer
<1>b. /\ claim' \in [Claimer -> ClaimState]
      /\ \A c \in Claimer : claim'[c] = claim[c] \/ (claim[c] = "waiting" /\ claim'[c] = "woken")
      /\ ka' \in {"waiting", "woken", "expired", "sweeping", "exited"}
      /\ ka' # "sweeping"
  BY <1>0 DEF relay_stream_offer, Signal, IInv, TypeOK, ClaimState
<1>c. \/ ready' = ready /\ count' = count /\ sess' = [sess EXCEPT ![s] = "closed"]
      \/ /\ count < READY_LIMIT /\ ready' = Append(ready, s) /\ count' = count + 1
         /\ sess' = [sess EXCEPT ![s] = "ready"]
  BY DEF relay_stream_offer, Enqueue, HasRoom
<1>d. /\ sess' \in [Session -> SessState] /\ sess'[s] \in {"ready", "closed"}
      /\ \A t \in Session : t # s => sess'[t] = sess[t]
  BY <1>c, Zenon DEF IInv, TypeOK, SessState
<1>e. /\ Append(ready, s) \in Seq(Session)
      /\ Len(Append(ready, s)) = Len(ready) + 1
      /\ Range(Append(ready, s)) = Range(ready) \cup {s}
      /\ IsInjective(Append(ready, s))
  BY <1>0, AppendQueue DEF IInv, TypeOK, QueueConsistent
<1>1. TypeOK'
  <2>1. ready' \in Seq(Session)
    BY <1>c, <1>e, Zenon DEF IInv, TypeOK
  <2>2. count' = count \/ (count < READY_LIMIT /\ count' = count + 1)
    BY <1>c
  <2>3. count' \in 0..READY_LIMIT
    BY <2>2, LimitAssumption DEF IInv, TypeOK
  <2> QED BY <2>1, <2>3, <1>a, <1>b, <1>d DEF IInv, TypeOK
<1>2. QueueConsistent'
  <2>1. CASE ready' = ready /\ count' = count /\ sess' = [sess EXCEPT ![s] = "closed"]
    BY <2>1, <1>0, <1>d DEF IInv, TypeOK, QueueConsistent
  <2>2. CASE ready' = Append(ready, s) /\ count' = count + 1 /\ sess' = [sess EXCEPT ![s] = "ready"]
    BY <2>2, <1>0, <1>d, <1>e DEF IInv, TypeOK, QueueConsistent
  <2> QED BY <1>c, <2>1, <2>2
<1>3. ExclusiveClaim'
  <2>1. \A c \in Claimer : claim'[c] \in {"popped", "issued"} => claim[c] = claim'[c]
    BY <1>b
  <2> QED BY <2>1, <1>0, <1>a, <1>d, NoneAssumption DEF IInv, TypeOK, ExclusiveClaim
<1>4. MarkerOnlyToReady'
  BY <1>0, <1>a, EmptyQueue DEF MarkerOnlyToReady
<1>5. BindingAccounted'
  <2>1. \A c \in Claimer : claim[c] = "issued" => claim'[c] = "issued"
    BY <1>b
  <2> QED BY <2>1, <1>0, <1>a, <1>d DEF IInv, TypeOK, BindingAccounted
<1>6. HeldTaken'
  BY <1>0, <1>a, <1>b, <1>d, NoneAssumption DEF IInv, TypeOK, HeldTaken
<1>7. SweepHoldsMutex' /\ FreedEmpty'
  BY <1>0, <1>a, <1>b DEF IInv, SweepHoldsMutex, FreedEmpty
<1> QED BY <1>1, <1>2, <1>3, <1>4, <1>5, <1>6, <1>7 DEF IInv

(* The steps of relay_stream_claim that leave the queue alone.             *)
LEMMA ClaimQuietInv ==
  ASSUME IInv, NEW c \in Claimer, claim_lookup(c) \/ claim_deadline(c) \/ claim_give_up(c)
  PROVE  IInv'
<1>0. /\ UNCHANGED <<ready, count, sess, held, binding, ka, cursor, mu, stop, janitor>>
      /\ claim[c] \notin {"popped", "issued"}
      /\ \/ claim[c] = "idle" /\ claim' = [claim EXCEPT ![c] = "resolved"]
         \/ claim' = [claim EXCEPT ![c] = "failed"]
         \/ claim[c] = "waiting" /\ claim' = [claim EXCEPT ![c] = "expired"]
  BY DEF claim_lookup, claim_deadline, claim_give_up, queueVars, kaVars, freeVars
<1>1. TypeOK' BY <1>0 DEF IInv, TypeOK, ClaimState
<1>2. QueueConsistent' BY <1>0 DEF IInv, QueueConsistent
<1>3. ExclusiveClaim' BY <1>0 DEF IInv, TypeOK, ExclusiveClaim
<1>4. MarkerOnlyToReady' BY <1>0 DEF IInv, MarkerOnlyToReady
<1>5. BindingAccounted' BY <1>0 DEF IInv, TypeOK, BindingAccounted
<1>6. HeldTaken' BY <1>0 DEF IInv, TypeOK, HeldTaken
<1>7. SweepHoldsMutex' /\ FreedEmpty' BY <1>0 DEF IInv, SweepHoldsMutex, FreedEmpty
<1> QED BY <1>1, <1>2, <1>3, <1>4, <1>5, <1>6, <1>7 DEF IInv

(* relay_stream_claim waits, or takes the head of the queue.               *)
LEMMA ClaimPopInv ==
  ASSUME IInv, NEW c \in Claimer, claim_pop_or_wait(c)
  PROVE  IInv'
<1>0. /\ claim[c] \in {"resolved", "woken"} /\ mu = "free" /\ janitor # "freed"
      /\ ka # "sweeping" /\ cursor = <<>> /\ held[c] = None
      /\ UNCHANGED <<binding, ka, cursor, mu, stop, janitor>>
  BY DEF claim_pop_or_wait, kaVars, freeVars, IInv, SweepHoldsMutex, HeldTaken
<1>1. CASE count = 0
  <2>0. UNCHANGED <<ready, count, sess, held>> /\ claim' = [claim EXCEPT ![c] = "waiting"]
    BY <1>1 DEF claim_pop_or_wait, queueVars
  <2>1. TypeOK' BY <1>0, <2>0 DEF IInv, TypeOK, ClaimState
  <2>2. QueueConsistent' BY <2>0 DEF IInv, QueueConsistent
  <2>3. ExclusiveClaim' BY <1>0, <2>0 DEF IInv, TypeOK, ExclusiveClaim
  <2>4. MarkerOnlyToReady' BY <1>0, <2>0 DEF IInv, MarkerOnlyToReady
  <2>5. BindingAccounted' BY <1>0, <2>0 DEF IInv, TypeOK, BindingAccounted
  <2>6. HeldTaken' BY <1>0, <2>0 DEF IInv, TypeOK, HeldTaken
  <2>7. SweepHoldsMutex' /\ FreedEmpty' BY <1>0, <2>0 DEF IInv, SweepHoldsMutex, FreedEmpty
  <2> QED BY <2>1, <2>2, <2>3, <2>4, <2>5, <2>6, <2>7 DEF IInv
<1>2. CASE count # 0
  <2> DEFINE s == Head(ready)
  <2>0. /\ ready' = Tail(ready) /\ count' = count - 1
        /\ sess' = [sess EXCEPT ![s] = "popped"]
        /\ held' = [held EXCEPT ![c] = s]
        /\ claim' = [claim EXCEPT ![c] = "popped"]
    BY <1>2 DEF claim_pop_or_wait, Dequeue
  <2>a. ready # <<>>
    BY <1>2 DEF IInv, QueueConsistent
  <2>b. /\ Tail(ready) \in Seq(Session) /\ s \in Session
        /\ Len(Tail(ready)) = Len(ready) - 1 /\ Len(ready) > 0
        /\ Range(Tail(ready)) = Range(ready) \ {s}
        /\ s \in Range(ready) /\ IsInjective(Tail(ready))
    BY <2>a, TailQueue DEF IInv, TypeOK, QueueConsistent
  <2>c. /\ sess[s] = "ready"
        /\ \A d \in Claimer : held[d] # s
    BY <2>b, NoneAssumption DEF IInv, QueueConsistent, HeldTaken
  <2> HIDE DEF s
  <2>d. /\ sess' \in [Session -> SessState] /\ sess'[s] = "popped"
        /\ \A t \in Session : t # s => sess'[t] = sess[t]
    BY <2>0, <2>b DEF IInv, TypeOK, SessState
  <2>e. /\ held' \in [Claimer -> Session \cup {None}] /\ held'[c] = s
        /\ \A d \in Claimer : d # c => held'[d] = held[d]
    BY <2>0, <2>b DEF IInv, TypeOK
  <2>f. /\ claim' \in [Claimer -> ClaimState] /\ claim'[c] = "popped"
        /\ \A d \in Claimer : d # c => claim'[d] = claim[d]
    BY <2>0 DEF IInv, TypeOK, ClaimState
  <2>1. TypeOK'
    <3>1. count' \in 0..READY_LIMIT
      BY <1>2, <2>0, LimitAssumption DEF IInv, TypeOK
    <3> QED BY <3>1, <1>0, <2>0, <2>b, <2>d, <2>e, <2>f DEF IInv, TypeOK
  <2>2. QueueConsistent'
    BY <2>0, <2>b, <2>c, <2>d DEF IInv, QueueConsistent
  <2>3. ExclusiveClaim'
    BY <1>0, <2>b, <2>c, <2>d, <2>e, <2>f, NoneAssumption DEF IInv, TypeOK, ExclusiveClaim
  <2>4. MarkerOnlyToReady'
    BY <1>0, EmptyQueue DEF MarkerOnlyToReady
  <2>5. BindingAccounted'
    BY <1>0, <2>c, <2>d, <2>e, <2>f DEF IInv, TypeOK, BindingAccounted
  <2>6. HeldTaken'
    BY <2>b, <2>c, <2>d, <2>e, <2>f, NoneAssumption DEF IInv, TypeOK, HeldTaken
  <2>7. SweepHoldsMutex' /\ FreedEmpty'
    BY <1>0 DEF IInv, SweepHoldsMutex, FreedEmpty
  <2> QED BY <2>1, <2>2, <2>3, <2>4, <2>5, <2>6, <2>7 DEF IInv
<1> QED BY <1>1, <1>2

(* relay_stream_claim mints a binding and writes the activation frame.     *)
LEMMA ClaimIssueInv ==
  ASSUME IInv, NEW c \in Claimer, claim_issue_binding(c)
  PROVE  IInv'
<1>0. /\ UNCHANGED <<ready, count, sess, held, ka, cursor, mu, stop, janitor>>
      /\ claim[c] = "popped" /\ claim' = [claim EXCEPT ![c] = "issued"]
      /\ binding' = [binding EXCEPT ![held[c]] = "live"]
      /\ held[c] \in Session
  BY DEF claim_issue_binding, queueVars, kaVars, freeVars, IInv, ExclusiveClaim
<1>1. TypeOK' BY <1>0 DEF IInv, TypeOK, ClaimState
<1>2. QueueConsistent' BY <1>0 DEF IInv, QueueConsistent
<1>3. ExclusiveClaim' BY <1>0 DEF IInv, TypeOK, ExclusiveClaim
<1>4. MarkerOnlyToReady' BY <1>0 DEF IInv, MarkerOnlyToReady
<1>5. BindingAccounted' BY <1>0 DEF IInv, TypeOK, BindingAccounted
<1>6. HeldTaken' BY <1>0 DEF IInv, TypeOK, HeldTaken
<1>7. SweepHoldsMutex' /\ FreedEmpty' BY <1>0 DEF IInv, SweepHoldsMutex, FreedEmpty
<1> QED BY <1>1, <1>2, <1>3, <1>4, <1>5, <1>6, <1>7 DEF IInv

(* The activation frame is written, or the session turns out to be dead.   *)
LEMMA ClaimActivateInv ==
  ASSUME IInv, NEW c \in Claimer, claim_activate(c)
  PROVE  IInv'
<1> DEFINE s == held[c]
<1>0. /\ UNCHANGED <<ready, count, held, ka, cursor, mu, stop, janitor>>
      /\ claim[c] = "issued" /\ s \in Session /\ sess[s] = "popped"
      /\ \/ /\ claim' = [claim EXCEPT ![c] = "served"]
            /\ sess' = [sess EXCEPT ![s] = "active"]
            /\ binding' = binding
         \/ /\ claim' = [claim EXCEPT ![c] = "failed"]
            /\ sess' = [sess EXCEPT ![s] = "closed"]
            /\ binding' = [binding EXCEPT ![s] = "none"]
  BY DEF claim_activate, DiscardBinding, kaVars, freeVars, IInv, ExclusiveClaim
<1>a. \A d \in Claimer : d # c => held[d] # s
  BY <1>0, NoneAssumption DEF IInv, ExclusiveClaim
<1>h. held[c] = s
  OBVIOUS
<1> HIDE DEF s
<1>b. /\ sess' \in [Session -> SessState] /\ sess'[s] \in {"active", "closed"}
      /\ \A t \in Session : t # s => sess'[t] = sess[t]
  BY <1>0 DEF IInv, TypeOK, SessState
<1>c. /\ claim' \in [Claimer -> ClaimState] /\ claim'[c] \in {"served", "failed"}
      /\ \A d \in Claimer : d # c => claim'[d] = claim[d]
  BY <1>0 DEF IInv, TypeOK, ClaimState
<1>d. /\ binding' \in [Session -> {"none", "live", "expired"}]
      /\ binding'[s] = "none" \/ sess'[s] = "active"
      /\ \A t \in Session : t # s => binding'[t] = binding[t]
  BY <1>0 DEF IInv, TypeOK
<1>1. TypeOK' BY <1>0, <1>b, <1>c, <1>d DEF IInv, TypeOK
<1>2. QueueConsistent' BY <1>0, <1>b DEF IInv, QueueConsistent
<1>3. ExclusiveClaim'
  BY <1>0, <1>a, <1>b, <1>c, <1>h, NoneAssumption DEF IInv, TypeOK, ExclusiveClaim
<1>4. MarkerOnlyToReady'
  <2>1. Range(cursor) \subseteq Session
    BY DEF IInv, TypeOK, Range
  <2> QED BY <2>1, <1>0, <1>b DEF IInv, MarkerOnlyToReady
<1>5. BindingAccounted'
  <2> SUFFICES ASSUME NEW t \in Session, binding'[t] # "none", sess'[t] # "active"
               PROVE  \E d \in Claimer : claim'[d] = "issued" /\ held'[d] = t
    BY DEF BindingAccounted
  <2>1. t # s
    BY <1>d
  <2>2. binding[t] # "none" /\ sess[t] # "active"
    BY <2>1, <1>b, <1>d
  <2>3. PICK d \in Claimer : claim[d] = "issued" /\ held[d] = t
    BY <2>2, Zenon DEF IInv, BindingAccounted
  <2> QED BY <2>1, <2>3, <1>0, <1>c, <1>h, Zenon
<1>6. HeldTaken'
  BY <1>0, <1>a, <1>b, <1>c, <1>h, NoneAssumption DEF IInv, TypeOK, HeldTaken
<1>7. SweepHoldsMutex' /\ FreedEmpty' BY <1>0 DEF IInv, SweepHoldsMutex, FreedEmpty
<1> QED BY <1>1, <1>2, <1>3, <1>4, <1>5, <1>6, <1>7 DEF IInv

(* The keepalive thread.  Only the begin of a sweep touches the bindings.  *)
LEMMA KeepaliveInv ==
  ASSUME IInv, KeepaliveStep
  PROVE  IInv'
<1>0. UNCHANGED <<ready, count, sess, claim, held, stop, janitor>>
  BY DEF KeepaliveStep, keepalive_wait, keepalive_deadline, keepalive_sweep, keepalive_write,
         keepalive_unlock, queueVars, claimVars, freeVars
<1>a. /\ Range(ready) \subseteq Session /\ Range(cursor) \subseteq Session
      /\ \A t \in Range(ready) : sess[t] = "ready"
  BY DEF IInv, TypeOK, QueueConsistent, Range
<1>b. binding' = binding \/ binding' = [t \in Session |-> IF binding[t] = "expired" THEN "none" ELSE binding[t]]
  BY DEF KeepaliveStep, keepalive_wait, keepalive_deadline, keepalive_sweep, keepalive_write,
         keepalive_unlock, claimVars
<1>c. /\ binding' \in [Session -> {"none", "live", "expired"}]
      /\ \A t \in Session : binding'[t] # "none" => binding[t] # "none"
  BY <1>b DEF IInv, TypeOK
<1>d. /\ ka' \in {"waiting", "woken", "expired", "sweeping", "exited"} /\ mu' \in {"free", "keepalive"}
      /\ cursor' \in Seq(Session) /\ SweepHoldsMutex' /\ MarkerOnlyToReady'
  <2>1. CASE keepalive_wait \/ keepalive_deadline
    BY <2>1, <1>0 DEF keepalive_wait, keepalive_deadline, IInv, TypeOK, SweepHoldsMutex,
       MarkerOnlyToReady
  <2>2. CASE keepalive_sweep
    BY <2>2, <1>0, <1>a, Zenon
       DEF keepalive_sweep, SweepLock, IInv, TypeOK, SweepHoldsMutex, MarkerOnlyToReady
  <2>3. CASE keepalive_write
    <3>1. Tail(cursor) \in Seq(Session) /\ Range(Tail(cursor)) \subseteq Range(cursor)
      BY <2>3 DEF keepalive_write, IInv, TypeOK, Range
    <3> QED
      BY <3>1, <2>3, <1>0 DEF keepalive_write, IInv, TypeOK, SweepHoldsMutex, MarkerOnlyToReady
  <2>4. CASE keepalive_unlock
    BY <2>4, <1>0 DEF keepalive_unlock, IInv, TypeOK, SweepHoldsMutex, MarkerOnlyToReady
  <2> QED BY <2>1, <2>2, <2>3, <2>4 DEF KeepaliveStep
<1>1. TypeOK' BY <1>0, <1>c, <1>d DEF IInv, TypeOK
<1>2. QueueConsistent' /\ ExclusiveClaim' /\ HeldTaken' /\ FreedEmpty'
  BY <1>0 DEF IInv, QueueConsistent, ExclusiveClaim, HeldTaken, FreedEmpty
<1>3. BindingAccounted' BY <1>0, <1>c DEF IInv, BindingAccounted
<1> QED BY <1>1, <1>2, <1>3, <1>d DEF IInv

(* relay_stream_free sets stop and wakes everybody.                        *)
LEMMA FreeStopInv ==
  ASSUME IInv, free_stop
  PROVE  IInv'
<1>0. /\ UNCHANGED <<ready, count, sess, held, binding, cursor, mu>>
      /\ janitor' = "stopping" /\ stop' = TRUE /\ mu = "free" /\ ka # "sweeping"
  BY DEF free_stop, queueVars, IInv, SweepHoldsMutex
<1>a. /\ claim' \in [Claimer -> ClaimState]
      /\ \A c \in Claimer : claim'[c] = claim[c] \/ (claim[c] = "waiting" /\ claim'[c] = "woken")
      /\ ka' \in {"waiting", "woken", "expired", "exited"}
  BY <1>0 DEF free_stop, Broadcast, IInv, TypeOK, ClaimState
<1>b. stop' \in BOOLEAN
  BY <1>0, Zenon
<1>1. TypeOK' BY <1>0, <1>a, <1>b DEF IInv, TypeOK
<1>2. QueueConsistent' /\ MarkerOnlyToReady'
  BY <1>0 DEF IInv, QueueConsistent, MarkerOnlyToReady
<1>3. ExclusiveClaim'
  <2>1. \A c \in Claimer : claim'[c] \in {"popped", "issued"} => claim[c] = claim'[c]
    BY <1>a
  <2> QED BY <2>1, <1>0 DEF IInv, ExclusiveClaim
<1>4. BindingAccounted'
  <2>1. \A c \in Claimer : claim[c] = "issued" => claim'[c] = "issued"
    BY <1>a
  <2> QED BY <2>1, <1>0 DEF IInv, BindingAccounted
<1>5. HeldTaken' BY <1>0, <1>a DEF IInv, HeldTaken
<1>6. SweepHoldsMutex' /\ FreedEmpty' BY <1>0, <1>a DEF IInv, SweepHoldsMutex, FreedEmpty
<1> QED BY <1>1, <1>2, <1>3, <1>4, <1>5, <1>6 DEF IInv

(* relay_stream_free closes what is still queued.                          *)
LEMMA FreeSessionsInv ==
  ASSUME IInv, free_sessions
  PROVE  IInv'
<1>0. /\ UNCHANGED <<claim, held, binding, ka, cursor, mu, stop>>
      /\ janitor' = "freed" /\ ready' = <<>> /\ count' = 0 /\ ka = "exited"
      /\ sess' = [t \in Session |-> IF t \in Range(ready) THEN "closed" ELSE sess[t]]
  BY DEF free_sessions, CloseReady, claimVars, kaVars
<1>a. /\ sess' \in [Session -> SessState]
      /\ \A t \in Session : IF sess[t] = "ready" THEN sess'[t] = "closed" ELSE sess'[t] = sess[t]
  BY <1>0 DEF IInv, TypeOK, QueueConsistent, SessState
<1>1. TypeOK' BY <1>0, <1>a, EmptyQueue, LimitAssumption DEF IInv, TypeOK
<1>2. QueueConsistent' BY <1>0, <1>a, EmptyQueue DEF QueueConsistent
<1>3. ExclusiveClaim' BY <1>0, <1>a DEF IInv, TypeOK, ExclusiveClaim
<1>4. MarkerOnlyToReady' BY <1>0, EmptyQueue DEF IInv, SweepHoldsMutex, MarkerOnlyToReady
<1>5. BindingAccounted' BY <1>0, <1>a DEF IInv, BindingAccounted
<1>6. HeldTaken' BY <1>0, <1>a DEF IInv, TypeOK, HeldTaken
<1>7. SweepHoldsMutex' /\ FreedEmpty' BY <1>0 DEF IInv, SweepHoldsMutex, FreedEmpty
<1> QED BY <1>1, <1>2, <1>3, <1>4, <1>5, <1>6, <1>7 DEF IInv

(* A thread that looked the stream up too early uses it too late.          *)
LEMMA TouchFreedInv ==
  ASSUME IInv, touch_freed
  PROVE  IInv'
<1>0. UNCHANGED <<ready, count, held, binding, ka, cursor, mu, stop, janitor>>
  BY DEF touch_freed, kaVars, freeVars
<1>a. /\ claim' \in [Claimer -> ClaimState]
      /\ \A c \in Claimer :
           claim'[c] = claim[c] \/ (claim[c] \notin {"popped", "issued"} /\ claim'[c] = "undefined")
  BY DEF touch_freed, IInv, TypeOK, ClaimState
<1>b. /\ sess' \in [Session -> SessState]
      /\ \A t \in Session : sess'[t] = sess[t] \/ (sess[t] = "resolved" /\ sess'[t] = "undefined")
  BY DEF touch_freed, IInv, TypeOK, SessState
<1>1. TypeOK' BY <1>0, <1>a, <1>b DEF IInv, TypeOK
<1>2. QueueConsistent'
  <2>1. \A t \in Session : sess'[t] = "ready" <=> sess[t] = "ready"
    BY <1>b
  <2> QED BY <2>1, <1>0 DEF IInv, QueueConsistent
<1>3. ExclusiveClaim'
  <2>1. \A c \in Claimer : claim'[c] \in {"popped", "issued"} => claim[c] = claim'[c]
    BY <1>a
  <2>2. \A t \in Session : sess'[t] \in {"popped", "active"} <=> sess[t] \in {"popped", "active"}
    BY <1>b
  <2>3. \A t \in Session : sess[t] = "popped" => sess'[t] = "popped"
    BY <1>b
  <2> QED BY <2>1, <2>2, <2>3, <1>0 DEF IInv, ExclusiveClaim
<1>4. MarkerOnlyToReady'
  <2>1. Range(cursor) \subseteq Session
    BY DEF IInv, TypeOK, Range
  <2> QED BY <2>1, <1>0, <1>b DEF IInv, MarkerOnlyToReady
<1>5. BindingAccounted'
  <2>1. \A c \in Claimer : claim[c] = "issued" => claim'[c] = "issued"
    BY <1>a
  <2>2. \A t \in Session : sess[t] = "active" => sess'[t] = "active"
    BY <1>b
  <2> QED BY <2>1, <2>2, <1>0 DEF IInv, BindingAccounted
<1>6. HeldTaken' BY <1>0, <1>a, <1>b DEF IInv, TypeOK, HeldTaken
<1>7. SweepHoldsMutex' /\ FreedEmpty' BY <1>0 DEF IInv, SweepHoldsMutex, FreedEmpty
<1> QED BY <1>1, <1>2, <1>3, <1>4, <1>5, <1>6, <1>7 DEF IInv

(* A binding grows old.                                                    *)
LEMMA ExpiryInv ==
  ASSUME IInv, NEW s \in Session, binding_expires(s)
  PROVE  IInv'
<1>a. UNCHANGED <<ready, count, sess, claim, held, ka, cursor, mu, stop, janitor>>
  BY DEF binding_expires, queueVars, kaVars, freeVars
<1>b. /\ binding' \in [Session -> {"none", "live", "expired"}]
      /\ \A t \in Session : binding'[t] # "none" => binding[t] # "none"
  BY DEF binding_expires, IInv, TypeOK
<1>1. TypeOK' BY <1>a, <1>b DEF IInv, TypeOK
<1>2. BindingAccounted' BY <1>a, <1>b, Zenon DEF IInv, BindingAccounted
<1>3. QueueConsistent' /\ MarkerOnlyToReady' /\ SweepHoldsMutex' /\ FreedEmpty'
  BY <1>a DEF IInv, QueueConsistent, MarkerOnlyToReady, SweepHoldsMutex, FreedEmpty
<1>4. ExclusiveClaim' /\ HeldTaken'
  BY <1>a DEF IInv, ExclusiveClaim, HeldTaken
<1> QED BY <1>1, <1>2, <1>3, <1>4 DEF IInv

(* A step that leaves the stream alone.                                    *)
LEMMA StutterInv ==
  ASSUME IInv, UNCHANGED vars
  PROVE  IInv'
<1>1. UNCHANGED <<ready, count, sess, claim, held, binding, ka, cursor, mu, stop, janitor>>
  BY DEF vars, queueVars, claimVars, kaVars, freeVars
<1>2. TypeOK' BY <1>1 DEF IInv, TypeOK
<1>3. QueueConsistent' /\ MarkerOnlyToReady' /\ SweepHoldsMutex' /\ FreedEmpty'
  BY <1>1 DEF IInv, QueueConsistent, MarkerOnlyToReady, SweepHoldsMutex, FreedEmpty
<1>4. ExclusiveClaim' /\ HeldTaken' /\ BindingAccounted'
  BY <1>1 DEF IInv, ExclusiveClaim, HeldTaken, BindingAccounted
<1> QED BY <1>2, <1>3, <1>4 DEF IInv

(* Every step of any thread keeps the inductive invariant.                 *)
LEMMA NextInv == IInv /\ [Next]_vars => IInv'
<1> SUFFICES ASSUME IInv, [Next]_vars PROVE IInv'
  OBVIOUS
<1>1. CASE SdkStep
  BY <1>1, OfferLookupInv, OfferInv DEF SdkStep
<1>2. ASSUME NEW c \in Claimer, ClaimStep(c) PROVE IInv'
  BY <1>2, ClaimQuietInv, ClaimPopInv, ClaimIssueInv, ClaimActivateInv DEF ClaimStep
<1>3. CASE KeepaliveStep
  BY <1>3, KeepaliveInv
<1>4. CASE free_stop \/ free_sessions \/ touch_freed
  BY <1>4, FreeStopInv, FreeSessionsInv, TouchFreedInv
<1>5. CASE \E s \in Session : binding_expires(s)
  BY <1>5, ExpiryInv
<1>6. CASE finished \/ UNCHANGED vars
  BY <1>6, StutterInv DEF finished
<1> QED BY <1>1, <1>2, <1>3, <1>4, <1>5, <1>6 DEF Next

(* IInv holds in every state of every run.                                 *)
LEMMA Invariance == Spec => []IInv
BY InitInv, NextInv, PTL DEF Spec

(* No interleaving of offers, claims, sweeps and the free of server.c      *)
(* loses or duplicates a session, passes READY_LIMIT, gives one session to *)
(* two workers, writes a keepalive marker into a tenant's stream, leaves a *)
(* binding behind for a session that was closed, or frees a stream with a  *)
(* session in its queue.                                                   *)
THEOREM StreamSafe == Spec => []StreamInv
<1>1. IInv => DrainComplete
  BY EmptyQueue DEF IInv, DrainComplete, FreedEmpty, QueueConsistent
<1>2. IInv => StreamInv
  BY <1>1 DEF IInv, StreamInv
<1> QED BY Invariance, <1>2, PTL

-------------------------------------------------------------------------------
(* RelayStream implements SessionQueue: under the mapping of RelayStream,  *)
(* every step of a thread is a step of the bounded FIFO or leaves it alone.*)

(* The abstract place of every session.                                    *)
Places == [s \in Session |-> PlaceOf(s)]

(* The place of a session depends only on what has become of it.           *)
LEMMA PlaceFacts ==
  ASSUME NEW s \in Session
  PROVE  /\ sess[s] \in {"new", "resolved", "undefined"} => PlaceOf(s) = "outside"
         /\ sess[s] = "ready" => PlaceOf(s) = "queued"
         /\ sess[s] = "popped" => PlaceOf(s) = "taken"
         /\ sess[s] = "active" => PlaceOf(s) = "serving"
         /\ sess[s] = "closed" => PlaceOf(s) = "closed"
BY DEF PlaceOf

(* A step that changes what became of one session changes its place only.  *)
LEMMA PlaceChange ==
  ASSUME TypeOK, NEW s \in Session, NEW v \in {"resolved", "ready", "popped", "active",
         "closed", "undefined"},
         sess' = [sess EXCEPT ![s] = v]
  PROVE  Places' = [Places EXCEPT ![s] = CASE v \in {"resolved", "undefined"} -> "outside"
                                            [] v = "ready"  -> "queued"
                                            [] v = "popped" -> "taken"
                                            [] v = "active" -> "serving"
                                            [] v = "closed" -> "closed"]
<1>1. sess'[s] = v /\ \A t \in Session : t # s => sess'[t] = sess[t]
  BY DEF TypeOK
<1>2. \A t \in Session : t # s => PlaceOf(t)' = PlaceOf(t)
  BY <1>1 DEF PlaceOf
<1>3. PlaceOf(s)' = CASE v \in {"resolved", "undefined"} -> "outside"
                      [] v = "ready"  -> "queued"
                      [] v = "popped" -> "taken"
                      [] v = "active" -> "serving"
                      [] v = "closed" -> "closed"
  BY <1>1 DEF PlaceOf
<1> QED BY <1>2, <1>3, Zenon DEF Places

(* A new stream is an empty queue.                                         *)
LEMMA InitRefines == Init => Queue!QInit
<1> SUFFICES ASSUME Init PROVE Queue!QInit
  OBVIOUS
<1>1. ready = <<>> /\ \A s \in Session : PlaceOf(s) = "outside"
  BY PlaceFacts DEF Init
<1> QED BY <1>1 DEF Queue!QInit

(* relay_stream_offer is Enter or Refuse.                                  *)
LEMMA OfferRefines ==
  ASSUME IInv, NEW s \in Session, relay_stream_offer(s)
  PROVE  Queue!Enter(s) \/ Queue!Refuse(s)
<1>0. TypeOK /\ Places[s] = "outside" /\ count = Len(ready)
  BY PlaceFacts DEF IInv, QueueConsistent, relay_stream_offer, Places
<1>1. CASE HasRoom
  <2>1. Len(ready) < READY_LIMIT /\ ready' = Append(ready, s) /\ sess' = [sess EXCEPT ![s] = "ready"]
    BY <1>0, <1>1 DEF relay_stream_offer, HasRoom, Enqueue
  <2>2. Places' = [Places EXCEPT ![s] = "queued"]
    BY <1>0, <2>1, PlaceChange, Zenon
  <2> QED BY <1>0, <2>1, <2>2 DEF Queue!Enter, Places
<1>2. CASE ~HasRoom
  <2>1. ready' = ready /\ sess' = [sess EXCEPT ![s] = "closed"]
    BY <1>2 DEF relay_stream_offer
  <2>2. Places' = [Places EXCEPT ![s] = "closed"]
    BY <1>0, <2>1, PlaceChange, Zenon
  <2> QED BY <1>0, <2>1, <2>2 DEF Queue!Refuse, Places
<1> QED BY <1>1, <1>2

(* The lookup of offer_lookup is Refuse, when the lease is gone already.   *)
LEMMA OfferLookupRefines ==
  ASSUME IInv, NEW s \in Session, offer_lookup(s)
  PROVE  Queue!Refuse(s) \/ UNCHANGED Queue!qvars
<1>0. TypeOK /\ Places \in [Session -> Queue!Place] /\ Places[s] = "outside" /\ ready' = ready
  BY PlaceFacts DEF IInv, TypeOK, SessState, offer_lookup, Places, Queue!Place
<1>1. CASE sess' = [sess EXCEPT ![s] = "resolved"]
  <2>1. Places' = [Places EXCEPT ![s] = "outside"]
    BY <1>0, <1>1, PlaceChange, Zenon
  <2>2. Places' = Places
    BY <2>1, <1>0
  <2> QED BY <1>0, <2>2 DEF Queue!qvars, Places
<1>2. CASE sess' = [sess EXCEPT ![s] = "closed"]
  <2>1. Places' = [Places EXCEPT ![s] = "closed"]
    BY <1>0, <1>2, PlaceChange, Zenon
  <2> QED BY <1>0, <2>1 DEF Queue!Refuse, Places
<1> QED BY <1>1, <1>2, Zenon DEF offer_lookup

(* A claimer that finds a session takes the head of the queue.             *)
LEMMA PopRefines ==
  ASSUME IInv, NEW c \in Claimer, claim_pop_or_wait(c)
  PROVE  Queue!Take \/ UNCHANGED Queue!qvars
<1>0. TypeOK /\ count = Len(ready) /\ IsInjective(ready) /\ ready \in Seq(Session)
  BY DEF IInv, TypeOK, QueueConsistent
<1>1. CASE count = 0
  <2>1. ready' = ready /\ sess' = sess
    BY <1>1 DEF claim_pop_or_wait, queueVars
  <2> QED BY <2>1 DEF Queue!qvars, PlaceOf
<1>2. CASE count # 0
  <2>1. ready # <<>> /\ Head(ready) \in Session
    BY <1>0, <1>2, TailQueue
  <2>2. ready' = Tail(ready) /\ sess' = [sess EXCEPT ![Head(ready)] = "popped"]
    BY <1>2 DEF claim_pop_or_wait, Dequeue
  <2>3. Places' = [Places EXCEPT ![Head(ready)] = "taken"]
    BY <1>0, <2>1, <2>2, PlaceChange, Zenon
  <2> QED BY <2>1, <2>2, <2>3 DEF Queue!Take, Places
<1> QED BY <1>1, <1>2

(* The activation frame is Serve, or GiveBack when it cannot be written.   *)
LEMMA ActivateRefines ==
  ASSUME IInv, NEW c \in Claimer, claim_activate(c)
  PROVE  Queue!Serve(held[c]) \/ Queue!GiveBack(held[c])
<1> DEFINE s == held[c]
<1>0. /\ TypeOK /\ s \in Session /\ sess[s] = "popped" /\ ready' = ready
      /\ sess' = [sess EXCEPT ![s] = "active"] \/ sess' = [sess EXCEPT ![s] = "closed"]
  BY DEF IInv, ExclusiveClaim, claim_activate
<1> HIDE DEF s
<1>1. Places[s] = "taken"
  BY <1>0, PlaceFacts DEF Places
<1>2. CASE sess' = [sess EXCEPT ![s] = "active"]
  <2>1. Places' = [Places EXCEPT ![s] = "serving"]
    BY <1>0, <1>2, PlaceChange, Zenon
  <2> QED BY <1>0, <1>1, <2>1 DEF Queue!Serve, Places, s
<1>3. CASE sess' = [sess EXCEPT ![s] = "closed"]
  <2>1. Places' = [Places EXCEPT ![s] = "closed"]
    BY <1>0, <1>3, PlaceChange, Zenon
  <2> QED BY <1>0, <1>1, <2>1 DEF Queue!GiveBack, Places, s
<1> QED BY <1>0, <1>2, <1>3

(* relay_stream_free closes exactly the sessions that are queued.          *)
LEMMA FreeRefines ==
  ASSUME IInv, free_sessions
  PROVE  Queue!Drain
<1>0. /\ sess \in [Session -> SessState] /\ ready' = <<>>
      /\ \A t \in Session : sess[t] = "ready" <=> t \in Range(ready)
      /\ sess' = [t \in Session |-> IF t \in Range(ready) THEN "closed" ELSE sess[t]]
  BY DEF IInv, TypeOK, QueueConsistent, free_sessions, CloseReady
<1>1. \A t \in Session : PlaceOf(t)' = IF PlaceOf(t) = "queued" THEN "closed" ELSE PlaceOf(t)
  <2> SUFFICES ASSUME NEW t \in Session
               PROVE  PlaceOf(t)' = IF PlaceOf(t) = "queued" THEN "closed" ELSE PlaceOf(t)
    OBVIOUS
  <2>1. CASE sess[t] = "ready"
    <3>1. sess'[t] = "closed" /\ PlaceOf(t) = "queued"
      BY <1>0, <2>1, PlaceFacts
    <3> QED BY <3>1 DEF PlaceOf
  <2>2. CASE sess[t] # "ready"
    <3>1. sess'[t] = sess[t]
      BY <1>0, <2>2
    <3>2. PlaceOf(t)' = PlaceOf(t) /\ PlaceOf(t) # "queued"
      BY <3>1, <2>2 DEF PlaceOf
    <3> QED BY <3>2
  <2> QED BY <2>1, <2>2
<1>2. Places' = [t \in Session |-> IF Places[t] = "queued" THEN "closed" ELSE Places[t]]
  BY <1>1 DEF Places
<1> QED BY <1>0, <1>2 DEF Queue!Drain, Places

(* A late use of a freed stream leaves the abstract queue alone.           *)
LEMMA TouchRefines ==
  ASSUME IInv, touch_freed
  PROVE  UNCHANGED Queue!qvars
<1>0. /\ ready' = ready
      /\ \A t \in Session : sess'[t] = sess[t] \/ (sess[t] = "resolved" /\ sess'[t] = "undefined")
  BY DEF touch_freed, IInv, TypeOK
<1>1. \A t \in Session : PlaceOf(t)' = PlaceOf(t)
  BY <1>0 DEF PlaceOf
<1> QED BY <1>0, <1>1 DEF Queue!qvars

(* Every other step changes neither the list nor any session.              *)
LEMMA QuietRefines ==
  ASSUME ready' = ready, sess' = sess
  PROVE  UNCHANGED Queue!qvars
BY DEF Queue!qvars, PlaceOf

(* Every step of any thread is a step of SessionQueue, or none.            *)
LEMMA NextRefines == IInv /\ [Next]_vars => [Queue!QNext]_(Queue!qvars)
<1> SUFFICES ASSUME IInv, [Next]_vars PROVE [Queue!QNext]_(Queue!qvars)
  OBVIOUS
<1>1. ASSUME NEW s \in Session, offer_lookup(s) \/ relay_stream_offer(s)
      PROVE  [Queue!QNext]_(Queue!qvars)
  BY <1>1, OfferLookupRefines, OfferRefines DEF Queue!QNext
<1>2. ASSUME NEW c \in Claimer, ClaimStep(c) PROVE [Queue!QNext]_(Queue!qvars)
  <2>1. CASE claim_pop_or_wait(c)
    BY <2>1, PopRefines DEF Queue!QNext
  <2>2. CASE claim_activate(c)
    <3>1. held[c] \in Session
      BY <2>2 DEF claim_activate, IInv, ExclusiveClaim
    <3> QED BY <2>2, <3>1, ActivateRefines DEF Queue!QNext
  <2>3. CASE claim_lookup(c) \/ claim_deadline(c) \/ claim_give_up(c) \/ claim_issue_binding(c)
    BY <2>3, QuietRefines
       DEF claim_lookup, claim_deadline, claim_give_up, claim_issue_binding, queueVars
  <2> QED BY <1>2, <2>1, <2>2, <2>3 DEF ClaimStep
<1>3. CASE KeepaliveStep
  BY <1>3, QuietRefines DEF KeepaliveStep, keepalive_wait, keepalive_deadline, keepalive_sweep,
                            keepalive_write, keepalive_unlock, queueVars
<1>4. CASE free_stop
  BY <1>4, QuietRefines DEF free_stop, queueVars
<1>5. CASE free_sessions
  BY <1>5, FreeRefines DEF Queue!QNext
<1>6. CASE touch_freed
  BY <1>6, TouchRefines
<1>7. CASE \E s \in Session : binding_expires(s)
  BY <1>7, QuietRefines DEF binding_expires, queueVars
<1>8. CASE finished \/ UNCHANGED vars
  BY <1>8, QuietRefines DEF finished, vars, queueVars
<1> QED BY <1>1, <1>2, <1>3, <1>4, <1>5, <1>6, <1>7, <1>8 DEF Next, SdkStep

(* The ready queue of a lease, with its lock, its two kinds of waiter and  *)
(* its concurrent free, implements the bounded FIFO that the rest of the   *)
(* relay relies on.                                                        *)
THEOREM StreamImplementsQueue == Spec => ImplementsQueue
BY InitRefines, NextRefines, Invariance, PTL DEF Spec, ImplementsQueue, Queue!QSpec
===============================================================================
