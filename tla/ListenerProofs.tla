---------------------------- MODULE ListenerProofs ----------------------------
(***************************************************************************)
(* The safety of a listener of the SDK: its stream client's ring, for any  *)
(* sessions, accept calls and ring size, and its threads, for any number   *)
(* of reverse sessions.                                                    *)
(***************************************************************************)
EXTENDS StreamClient, Listener, FiniteSetTheorems, TLAPS

(* The ring index n places after h, and what the ring holds n places after *)
(* the oldest session.                                                     *)
Pos(h, n) == (h + n) % cap
Slot == [n \in 0..cap - 1 |-> ring[Pos(head, n)]]

(* The window of the ring holds sessions, and none of them twice.          *)
WindowDistinct ==
  /\ \A n \in 0..count - 1 : Slot[n] \in Session
  /\ \A n, m \in 0..count - 1 : n # m => Slot[n] # Slot[m]

(* RingConsistent, in terms of places.                                     *)
WindowExact ==
  /\ tail = Pos(head, count)
  /\ \A s \in Session : sess[s] = "ready" <=> \E n \in 0..count - 1 : Slot[n] = s

(* portillia_listener_close has joined the session threads before it       *)
(* destroys the stream client, so nothing is pushed after the drain.       *)
Drained ==
  /\ destroyer # "idle" => listener_cancelled /\ count = 0 /\ \A s \in Session : sess[s] # "running"
  /\ closed => destroyer # "idle"

Inv == TypeOK /\ WindowDistinct /\ WindowExact /\ Drained

-------------------------------------------------------------------------------
(* The ring has places.                                                    *)
LEMMA CapType == cap \in Nat \ {0}
  BY ClientAssumption DEF cap

(* An index that goes past the end of the ring starts again at 0.          *)
LEMMA Wrap ==
  ASSUME NEW h \in 0..cap - 1, NEW n \in 0..cap
  PROVE  Pos(h, n) = IF h + n < cap THEN h + n ELSE h + n - cap
<1>1. \A c \in Nat \ {0} : \A x \in 0..c - 1 : x % c = x
  BY Z3
<1>2. \A c \in Nat \ {0} : \A x \in c..2 * c - 1 : x % c = x - c
  BY Z3
<1>3. CASE h + n < cap
  <2>1. h + n \in 0..cap - 1
    BY <1>3, CapType
  <2>2. QED
    BY <1>1, <1>3, <2>1, CapType DEF Pos
<1>4. CASE ~(h + n < cap)
  <2>1. h + n \in cap..2 * cap - 1
    BY <1>4, CapType
  <2>2. QED
    BY <1>2, <1>4, <2>1, CapType DEF Pos
<1>5. QED
  BY <1>3, <1>4

(* Indices in the window are different, and one step of head or tail is    *)
(* one step in the window.                                                 *)
LEMMA Positions ==
  ASSUME NEW h \in 0..cap - 1
  PROVE  /\ Pos(h, 0) = h
         /\ \A n \in 0..cap : Pos(h, n) \in 0..cap - 1
         /\ \A n, m \in 0..cap - 1 : n # m => Pos(h, n) # Pos(h, m)
         /\ \A n \in 0..cap - 1 : Step(Pos(h, n)) = Pos(h, n + 1) /\ Pos(Step(h), n) = Pos(h, n + 1)
<1>1. cap \in Nat \ {0}
  BY CapType
<1>2. \A n \in 0..cap : Pos(h, n) = IF h + n < cap THEN h + n ELSE h + n - cap
  BY Wrap
<1> HIDE DEF cap
<1>3. Pos(h, 0) = h
  BY <1>1, <1>2
<1>4. \A n \in 0..cap : Pos(h, n) \in 0..cap - 1
  BY <1>1, <1>2
<1>5. \A n, m \in 0..cap - 1 : n # m => Pos(h, n) # Pos(h, m)
  BY <1>1, <1>2
<1>6. \A k \in 0..cap - 1 : Step(k) = IF k + 1 < cap THEN k + 1 ELSE k + 1 - cap
  <2>1. \A k \in 0..cap - 1 : Step(k) = Pos(k, 1)
    BY DEF Step, Pos
  <2>2. 1 \in 0..cap
    BY <1>1
  <2>3. QED
    BY <2>1, <2>2, Wrap
<1>7. ASSUME NEW n \in 0..cap - 1
      PROVE  Step(Pos(h, n)) = Pos(h, n + 1) /\ Pos(Step(h), n) = Pos(h, n + 1)
  <2>1. n \in 0..cap /\ n + 1 \in 0..cap /\ Step(h) \in 0..cap - 1
    BY <1>1, <1>6
  <2>2. Step(Pos(h, n)) = Pos(h, n + 1)
    BY <1>1, <1>2, <1>4, <1>6, <2>1
  <2>3. Pos(Step(h), n) = IF Step(h) + n < cap THEN Step(h) + n ELSE Step(h) + n - cap
    BY <2>1, Wrap
  <2>4. Pos(Step(h), n) = Pos(h, n + 1)
    BY <1>1, <1>2, <1>6, <2>1, <2>3
  <2>5. QED
    BY <2>2, <2>4
<1>8. QED
  BY <1>3, <1>4, <1>5, <1>7

-------------------------------------------------------------------------------
(* What ring_push does to the window: the session becomes its last place.  *)
LEMMA Pushed ==
  ASSUME Inv, NEW s \in Session, sess[s] = "running", count < cap,
         ring' = [ring EXCEPT ![tail] = s], tail' = Step(tail), count' = count + 1, head' = head,
         sess' = [sess EXCEPT ![s] = "ready"]
  PROVE  /\ ring' \in [0..cap - 1 -> Session \cup {None}] /\ tail' \in 0..cap - 1 /\ count' \in 0..cap
         /\ WindowDistinct' /\ WindowExact'
<1>1. /\ cap \in Nat \ {0} /\ head \in 0..cap - 1 /\ count \in 0..cap - 1
      /\ ring \in [0..cap - 1 -> Session \cup {None}]
      /\ sess \in [Session -> {"new", "running", "ready", "accepted", "closed"}]
  BY CapType DEF Inv, TypeOK
<1> HIDE DEF cap
<1>2. /\ count \in 0..cap /\ count + 1 \in 0..cap /\ \A n \in 0..count - 1 : n \in 0..cap - 1 /\ n # count
      /\ \A n \in 0..count' - 1 : n \in 0..count - 1 \/ n = count
      /\ \A n \in 0..count - 1 : n \in 0..count' - 1
      /\ count \in 0..count' - 1
  BY <1>1
<1>3. tail = Pos(head, count) /\ tail' = Pos(head, count + 1)
  <2>1. tail = Pos(head, count)
    BY DEF Inv, WindowExact
  <2>2. Step(Pos(head, count)) = Pos(head, count + 1)
    BY <1>1, Positions
  <2>3. QED
    BY <2>1, <2>2
<1>4. /\ tail \in 0..cap - 1 /\ tail' \in 0..cap - 1
      /\ \A n \in 0..count - 1 : Pos(head, n) # tail /\ Pos(head, n) \in 0..cap - 1
  <2>1. \A n \in 0..cap : Pos(head, n) \in 0..cap - 1
    BY <1>1, Positions, Zenon
  <2>2. \A n, m \in 0..cap - 1 : n # m => Pos(head, n) # Pos(head, m)
    BY <1>1, Positions
  <2>3. \A n \in 0..cap - 1 : n \in 0..cap
    BY <1>1
  <2>4. QED
    BY <1>1, <1>2, <1>3, <2>1, <2>2, <2>3, Zenon
<1>5. Slot' = [n \in 0..cap - 1 |-> ring'[Pos(head, n)]]
  BY DEF Slot, Pos, cap
<1>6. \A n \in 0..count - 1 : Slot'[n] = Slot[n]
  BY <1>1, <1>2, <1>4, <1>5 DEF Slot
<1>7. Slot'[count] = s
  BY <1>1, <1>3, <1>4, <1>5
<1>8. \A n \in 0..count - 1 : Slot[n] \in Session /\ Slot[n] # s
  BY DEF Inv, WindowDistinct, WindowExact
<1>9. WindowDistinct'
  <2>1. \A n \in 0..count' - 1 : Slot'[n] \in Session
    BY <1>2, <1>6, <1>7, <1>8
  <2>2. \A n, m \in 0..count' - 1 : n # m => Slot'[n] # Slot'[m]
    BY <1>2, <1>6, <1>7, <1>8 DEF Inv, WindowDistinct
  <2>3. QED
    BY <2>1, <2>2 DEF WindowDistinct
<1>10. WindowExact'
  <2>1. tail' = Pos(head, count)'
    BY <1>3 DEF Pos, cap
  <2>2. ASSUME NEW r \in Session
        PROVE  sess'[r] = "ready" <=> \E n \in 0..count' - 1 : Slot'[n] = r
    <3>1. CASE r = s
      BY <1>1, <1>2, <1>7, <3>1
    <3>2. CASE r # s
      <4>1. sess'[r] = sess[r]
        BY <1>1, <3>2
      <4>2. (\E n \in 0..count' - 1 : Slot'[n] = r) <=> \E n \in 0..count - 1 : Slot[n] = r
        BY <1>2, <1>6, <1>7, <3>2
      <4>3. QED
        BY <4>1, <4>2 DEF Inv, WindowExact
    <3>3. QED
      BY <3>1, <3>2
  <2>3. QED
    BY <2>1, <2>2 DEF WindowExact
<1>11. ring' \in [0..cap - 1 -> Session \cup {None}]
  BY <1>1, <1>4
<1>12. QED
  BY <1>2, <1>4, <1>9, <1>10, <1>11

(* What ring_pop does to the window: every other session moves up a place. *)
LEMMA Popped ==
  ASSUME Inv, count > 0, Pop, ring' = ring, sess' = [sess EXCEPT ![Oldest] = "accepted"]
  PROVE  /\ head' \in 0..cap - 1 /\ count' \in 0..cap
         /\ sess' \in [Session -> {"new", "running", "ready", "accepted", "closed"}]
         /\ \A s \in Session : sess[s] # "running" => sess'[s] # "running"
         /\ WindowDistinct' /\ WindowExact'
<1>1. /\ cap \in Nat \ {0} /\ head \in 0..cap - 1 /\ count \in 1..cap
      /\ sess \in [Session -> {"new", "running", "ready", "accepted", "closed"}]
      /\ head' = Step(head) /\ count' = count - 1 /\ tail' = tail
  BY CapType DEF Inv, TypeOK, Pop
<1> HIDE DEF cap
<1>2. /\ 0 \in 0..count - 1 /\ 0 \in 0..cap - 1 /\ count' \in 0..cap - 1 /\ count' + 1 = count
      /\ \A n \in 0..count' - 1 : n \in 0..cap - 1 /\ n + 1 \in 0..cap - 1 /\ n + 1 \in 0..count - 1 /\ n + 1 # 0
      /\ \A n \in 0..count - 1 : n = 0 \/ (n - 1 \in 0..count' - 1 /\ (n - 1) + 1 = n)
  BY <1>1
<1>3. head' \in 0..cap - 1 /\ Pos(head, 0) = head
  <2>1. Step(head) = Pos(head, 1) /\ 1 \in 0..cap
    BY <1>1 DEF Step, Pos
  <2>2. QED
    BY <1>1, <2>1, Positions
<1>4. Slot[0] = Oldest /\ Oldest \in Session
  BY <1>2, <1>3, Zenon DEF Inv, WindowDistinct, Slot, Oldest
<1>5. Slot' = [n \in 0..cap - 1 |-> ring[Pos(head', n)]]
  BY DEF Slot, Pos, cap
<1>6. \A n \in 0..count' - 1 : Slot'[n] = Slot[n + 1]
  <2>1. \A n \in 0..count' - 1 : Pos(head', n) = Pos(head, n + 1)
    BY <1>1, <1>2, Positions
  <2>2. QED
    BY <1>2, <1>5, <2>1, Zenon DEF Slot
<1>7. WindowDistinct'
  <2>1. \A n \in 0..count' - 1 : Slot'[n] \in Session
    BY <1>2, <1>6 DEF Inv, WindowDistinct
  <2>2. \A n, m \in 0..count' - 1 : n # m => n + 1 # m + 1
    BY <1>2
  <2>3. ASSUME NEW n \in 0..count' - 1, NEW m \in 0..count' - 1, n # m PROVE Slot'[n] # Slot'[m]
    <3>1. n + 1 \in 0..count - 1 /\ m + 1 \in 0..count - 1 /\ n + 1 # m + 1
      BY <1>2, <2>2, <2>3, Zenon
    <3>2. Slot[n + 1] # Slot[m + 1]
      BY <3>1 DEF Inv, WindowDistinct
    <3>3. QED
      BY <1>6, <3>2
  <2>4. QED
    BY <2>1, <2>3 DEF WindowDistinct
<1>8. WindowExact'
  <2>1. tail' = Pos(head, count)'
    <3>1. Pos(head', count') = Pos(head, count)
      BY <1>1, <1>2, Positions
    <3>2. QED
      BY <1>1, <3>1 DEF Inv, WindowExact, Pos, cap
  <2>2. ASSUME NEW r \in Session
        PROVE  sess'[r] = "ready" <=> \E n \in 0..count' - 1 : Slot'[n] = r
    <3>1. CASE r = Oldest
      <4>1. sess'[r] = "accepted"
        BY <1>1, <3>1
      <4>2. \A n \in 0..count' - 1 : Slot'[n] # r
        BY <1>2, <1>4, <1>6, <3>1, Zenon DEF Inv, WindowDistinct
      <4>3. QED
        BY <4>1, <4>2
    <3>2. CASE r # Oldest
      <4>1. sess'[r] = sess[r]
        BY <1>1, <3>2
      <4>2. (\E n \in 0..count' - 1 : Slot'[n] = r) <=> \E n \in 0..count - 1 : Slot[n] = r
        BY <1>2, <1>4, <1>6, <3>2, Zenon
      <4>3. QED
        BY <4>1, <4>2 DEF Inv, WindowExact
    <3>3. QED
      BY <3>1, <3>2
  <2>3. QED
    BY <2>1, <2>2 DEF WindowExact
<1>9. /\ sess' \in [Session -> {"new", "running", "ready", "accepted", "closed"}]
      /\ \A s \in Session : sess[s] # "running" => sess'[s] # "running"
  BY <1>1, Zenon
<1>10. count' \in 0..cap
  BY <1>1, <1>2
<1>11. QED
  BY <1>3, <1>7, <1>8, <1>9, <1>10

(* What a step has to show when it leaves the ring alone.                  *)
LEMMA WindowKept ==
  ASSUME Inv, UNCHANGED ringVars, \A s \in Session : sess'[s] = "ready" <=> sess[s] = "ready"
  PROVE  WindowDistinct' /\ WindowExact'
<1>1. Slot' = Slot /\ Pos(head, count)' = Pos(head, count)
  BY DEF Slot, Pos, cap, ringVars
<1>2. QED
  BY <1>1 DEF Inv, WindowDistinct, WindowExact, ringVars

(* Init: the ring is empty.                                                *)
LEMMA InitInv == Init => Inv
<1> SUFFICES ASSUME Init PROVE Inv
  OBVIOUS
<1>1. cap \in Nat \ {0}
  BY CapType
<1> HIDE DEF cap
<1>2. TypeOK /\ Drained
  <2>1. 0 \in 0..cap - 1 /\ 0 \in 0..cap
    BY <1>1
  <2>2. QED
    BY <2>1, Zenon DEF Init, TypeOK, Drained
<1>3. 0..count - 1 = {} /\ Pos(head, count) = 0
  <2>1. 0 \in 0..cap - 1
    BY <1>1
  <2>2. QED
    BY <2>1, Positions DEF Init
<1>4. WindowDistinct /\ WindowExact
  BY <1>3 DEF Init, WindowDistinct, WindowExact
<1>5. QED
  BY <1>2, <1>4 DEF Inv

(* Every step keeps the invariant, action by action.                       *)
LEMMA NextInv == Inv /\ [Next]_vars => Inv'
<1> SUFFICES ASSUME Inv, [Next]_vars PROVE Inv'
  OBVIOUS
<1> USE CapType
<1> HIDE DEF cap
<1>1. ASSUME NEW s \in Session, session_open(s) \/ session_fail(s) PROVE Inv'
  <2>1. /\ \A r \in Session : sess'[r] = "ready" <=> sess[r] = "ready"
        /\ UNCHANGED <<ringVars, closed, acc, listener_cancelled, destroyer>>
        /\ sess' \in [Session -> {"new", "running", "ready", "accepted", "closed"}]
    BY <1>1 DEF session_open, session_fail, Inv, TypeOK
  <2>2. Drained'
    BY <1>1, <2>1 DEF session_open, session_fail, Inv, TypeOK, Drained, ringVars
  <2>3. QED
    BY <2>1, <2>2, WindowKept DEF Inv, TypeOK, ringVars
<1>2. ASSUME NEW s \in Session, ring_push(s) PROVE Inv'
  <2>1. sess[s] = "running" /\ UNCHANGED <<closed, listener_cancelled, destroyer>>
    BY <1>2 DEF ring_push
  <2>2. CASE sess' = [sess EXCEPT ![s] = "closed"] /\ UNCHANGED <<ringVars, acc>>
    <3>1. /\ \A r \in Session : sess'[r] = "ready" <=> sess[r] = "ready"
          /\ sess' \in [Session -> {"new", "running", "ready", "accepted", "closed"}]
          /\ \A r \in Session : sess'[r] = "running" => sess[r] = "running"
      BY <2>1, <2>2 DEF Inv, TypeOK
    <3>2. QED
      BY <2>1, <2>2, <3>1, WindowKept DEF Inv, TypeOK, ringVars, Drained
  <2>3. CASE /\ ~closed /\ ~Full
             /\ ring' = [ring EXCEPT ![tail] = s] /\ tail' = Step(tail) /\ count' = count + 1
             /\ sess' = [sess EXCEPT ![s] = "ready"] /\ Signal /\ UNCHANGED head
    <3>1. count < cap
      BY <2>3 DEF Full, Inv, TypeOK
    <3>2. /\ ring' \in [0..cap - 1 -> Session \cup {None}] /\ tail' \in 0..cap - 1 /\ count' \in 0..cap
          /\ WindowDistinct' /\ WindowExact'
      BY <2>1, <2>3, <3>1, Pushed, Zenon
    <3>3. sess' \in [Session -> {"new", "running", "ready", "accepted", "closed"}]
      BY <2>3 DEF Inv, TypeOK
    <3>4. acc' \in [Acceptor -> {"idle", "called", "waiting", "woken", "done", "undefined"}]
      BY <2>3 DEF Signal, Waiting, Inv, TypeOK
    <3>5. destroyer = "idle"
      BY <2>1 DEF Inv, Drained
    <3>6. QED
      BY <2>1, <2>3, <3>2, <3>3, <3>4, <3>5 DEF Inv, TypeOK, Drained
  <2>4. QED
    BY <1>2, <2>2, <2>3 DEF ring_push
<1>3. ASSUME NEW a \in Acceptor, accept_call(a) \/ touch_freed(a) PROVE Inv'
  <2>1. /\ UNCHANGED <<ringVars, closed, sess, listener_cancelled, destroyer>>
        /\ acc' \in [Acceptor -> {"idle", "called", "waiting", "woken", "done", "undefined"}]
    BY <1>3 DEF accept_call, touch_freed, Inv, TypeOK
  <2>2. QED
    BY <2>1, WindowKept DEF Inv, TypeOK, ringVars, Drained
<1>4. ASSUME NEW a \in Acceptor, ring_pop(a) PROVE Inv'
  <2>1. UNCHANGED <<closed, listener_cancelled, destroyer>>
    BY <1>4 DEF ring_pop
  <2>2. acc' \in [Acceptor -> {"idle", "called", "waiting", "woken", "done", "undefined"}]
    BY <1>4 DEF ring_pop, Inv, TypeOK
  <2>3. CASE UNCHANGED <<ringVars, sess>>
    BY <2>1, <2>2, <2>3, WindowKept DEF Inv, TypeOK, ringVars, Drained
  <2>4. CASE ~closed /\ count > 0 /\ sess' = [sess EXCEPT ![Oldest] = "accepted"] /\ Pop /\ UNCHANGED ring
    <3>1. /\ head' \in 0..cap - 1 /\ count' \in 0..cap
          /\ sess' \in [Session -> {"new", "running", "ready", "accepted", "closed"}]
          /\ \A s \in Session : sess[s] # "running" => sess'[s] # "running"
          /\ WindowDistinct' /\ WindowExact'
      BY <2>4, Popped
    <3>2. destroyer = "idle"
      BY <2>4 DEF Inv, Drained
    <3>3. tail' = tail
      BY <2>4 DEF Pop
    <3>4. QED
      BY <2>1, <2>2, <2>4, <3>1, <3>2, <3>3 DEF Inv, TypeOK, Drained
  <2>5. QED
    BY <1>4, <2>3, <2>4 DEF ring_pop
<1>5. CASE listener_cancel
  <2>1. listener_cancelled' = TRUE /\ UNCHANGED <<ringVars, closed, sess, acc, destroyer>>
    BY <1>5 DEF listener_cancel
  <2>2. QED
    BY <2>1, WindowKept DEF Inv, TypeOK, ringVars, Drained
<1>6. CASE portillia_stream_client_drain
  <2>1. /\ listener_cancelled /\ \A s \in Session : sess[s] # "running"
        /\ destroyer' = "drained" /\ head' = Pos(head, count) /\ count' = 0
        /\ sess' = [s \in Session |-> IF sess[s] = "ready" THEN "closed" ELSE sess[s]]
        /\ UNCHANGED <<ring, tail, closed, acc, listener_cancelled>>
    BY <1>6 DEF portillia_stream_client_drain, Joined, Running, Pos
  <2>2. /\ sess' \in [Session -> {"new", "running", "ready", "accepted", "closed"}]
        /\ \A s \in Session : sess'[s] # "ready" /\ sess'[s] # "running"
    BY <2>1 DEF Inv, TypeOK
  <2>3. head' \in 0..cap - 1 /\ tail' = head'
    BY <2>1, Positions DEF Inv, TypeOK, WindowExact
  <2>4. WindowDistinct' /\ WindowExact'
    <3>1. 0..count' - 1 = {}
      BY <2>1
    <3>2. tail' = Pos(head, count)'
      <4>1. Pos(head', 0) = head'
        BY <2>3, Positions
      <4>2. QED
        BY <2>1, <2>3, <4>1 DEF Pos, cap
    <3>3. QED
      BY <2>2, <3>1, <3>2 DEF WindowDistinct, WindowExact
  <2>5. Drained'
    BY <2>1, <2>2 DEF Drained
  <2>6. 0 \in 0..cap
    OBVIOUS
  <2>7. QED
    BY <2>1, <2>2, <2>3, <2>4, <2>5, <2>6 DEF Inv, TypeOK
<1>7. CASE destroy_close
  <2>1. /\ destroyer = "drained" /\ destroyer' = "closed" /\ closed' = TRUE
        /\ UNCHANGED <<ringVars, sess, listener_cancelled>>
        /\ acc' \in [Acceptor -> {"idle", "called", "waiting", "woken", "done", "undefined"}]
    BY <1>7 DEF destroy_close, Broadcast, Inv, TypeOK
  <2>2. QED
    BY <2>1, WindowKept DEF Inv, TypeOK, ringVars, Drained
<1>8. CASE destroy_free
  <2>1. /\ destroyer = "closed" /\ destroyer' = "freed"
        /\ UNCHANGED <<ringVars, closed, sess, acc, listener_cancelled>>
    BY <1>8 DEF destroy_free
  <2>2. QED
    BY <2>1, WindowKept DEF Inv, TypeOK, ringVars, Drained
<1>9. CASE UNCHANGED vars
  BY <1>9, WindowKept DEF vars, Inv, TypeOK, ringVars, Drained
<1>10. QED
  BY <1>1, <1>2, <1>3, <1>4, <1>5, <1>6, <1>7, <1>8, <1>9 DEF Next, SessionStep, Close

(* The invariant holds throughout.                                         *)
THEOREM Invariance == Spec => []Inv
  BY InitInv, NextInv, PTL DEF Spec

(* For any ring size and any interleaving of pushes, accepts and the       *)
(* destruction: accepted_head, _tail and _count describe one window of the *)
(* ring, which holds exactly the sessions that wait to be accepted, and    *)
(* portillia_stream_client_destroy leaves none behind.                     *)
THEOREM RingSafe == Spec => []RingInv
<1>1. Inv => RingInv
  <2> SUFFICES ASSUME Inv PROVE RingInv
    OBVIOUS
  <2> USE CapType
  <2> HIDE DEF cap
  <2>1. count \in 0..cap /\ head \in 0..cap - 1
    BY DEF Inv, TypeOK
  <2>2. \A i \in 1..count : i - 1 \in 0..count - 1 /\ i - 1 \in 0..cap - 1 /\ head + i - 1 = head + (i - 1)
    BY <2>1
  <2>3. \A i \in 1..count : Content[i] = Slot[i - 1]
    BY <2>2 DEF Content, Slot, Pos
  <2>4. \A n \in 0..count - 1 : n + 1 \in 1..count /\ (n + 1) - 1 = n
    BY <2>1
  <2>5. RingConsistent
    BY <2>2, <2>3, <2>4 DEF RingConsistent, Inv, WindowExact, Pos
  <2>6. NothingLeaked
    <3>1. count = 0 => 0..count - 1 = {}
      OBVIOUS
    <3>2. QED
      BY <3>1 DEF NothingLeaked, Inv, WindowExact, Drained
  <2>7. QED
    BY <2>5, <2>6 DEF RingInv, Inv
<1>2. QED
  BY <1>1, Invariance, PTL

-------------------------------------------------------------------------------
(* The signal of ring_push.                                                *)

Woken == {a \in Acceptor : acc[a] = "woken"}

(* Waking a blocked accept call makes one more that is woken; when one     *)
(* goes on, at most one less is.                                           *)
LEMMA WokenCount ==
  /\ Cardinality(Woken) \in Nat
  /\ \A a : a \notin Woken => Cardinality(Woken \cup {a}) = Cardinality(Woken) + 1
  /\ \A a : Cardinality(Woken \ {a}) \in Nat /\ Cardinality(Woken \ {a}) >= Cardinality(Woken) - 1
<1>1. IsFiniteSet(Woken)
  BY ClientAssumption, FS_Subset DEF Woken
<1>2. Cardinality(Woken) \in Nat
  BY <1>1, FS_CardinalityType
<1>3. \A a : a \notin Woken => Cardinality(Woken \cup {a}) = Cardinality(Woken) + 1
  BY <1>1, FS_AddElement
<1>4. ASSUME NEW a
      PROVE  Cardinality(Woken \ {a}) \in Nat /\ Cardinality(Woken \ {a}) >= Cardinality(Woken) - 1
  <2>1. CASE a \in Woken
    <3>1. IsFiniteSet(Woken \ {a}) /\ Cardinality(Woken \ {a}) = Cardinality(Woken) - 1
      BY <1>1, <2>1, FS_RemoveElement
    <3>2. Cardinality(Woken \ {a}) \in Nat
      BY <3>1, FS_CardinalityType
    <3>3. QED
      BY <1>2, <3>1, <3>2
  <2>2. CASE a \notin Woken
    <3>1. Woken \ {a} = Woken
      BY <2>2
    <3>2. QED
      BY <1>2, <3>1
  <2>3. QED
    BY <2>1, <2>2
<1>5. QED
  BY <1>2, <1>3, <1>4

(* A step after which the ring is empty loses no signal, ...               *)
LEMMA EmptyKept ==
  ASSUME count' = 0
  PROVE  NoLostWakeup'
<1>1. Cardinality(Woken') \in Nat
  <2>1. IsFiniteSet(Woken')
    BY ClientAssumption, FS_Subset DEF Woken
  <2>2. QED
    BY <2>1, FS_CardinalityType
<1>2. QED
  BY <1>1 DEF NoLostWakeup, Woken

(* ... and neither does one that wakes nobody and pushes nothing.          *)
LEMMA SameKept ==
  ASSUME NoLostWakeup, UNCHANGED count, Waiting' = Waiting, Woken' = Woken
  PROVE  NoLostWakeup'
  BY DEF NoLostWakeup, Woken

(* Each step.                                                              *)
LEMMA WakeupStep == Inv /\ NoLostWakeup /\ [Next]_vars => NoLostWakeup'
<1> SUFFICES ASSUME Inv, NoLostWakeup, [Next]_vars PROVE NoLostWakeup'
  OBVIOUS
<1>1. /\ acc \in [Acceptor -> {"idle", "called", "waiting", "woken", "done", "undefined"}]
      /\ count \in Nat
  BY CapType DEF Inv, TypeOK
<1>2. CASE UNCHANGED <<count, acc>>
  BY <1>2, SameKept DEF Waiting, Woken
<1>3. ASSUME NEW a \in Acceptor, accept_call(a) PROVE NoLostWakeup'
  <2>1. UNCHANGED count /\ Waiting' = Waiting /\ Woken' = Woken
    BY <1>1, <1>3 DEF accept_call, ringVars, Waiting, Woken
  <2>2. QED
    BY <2>1, SameKept
<1>4. ASSUME NEW a \in Acceptor, touch_freed(a) PROVE NoLostWakeup'
  BY <1>4, EmptyKept DEF touch_freed, ringVars, Inv, Drained
<1>5. ASSUME Signal, count' = count + 1 PROVE NoLostWakeup'
  <2>1. CASE Waiting = {}
    BY <1>5, <2>1 DEF Signal, NoLostWakeup, Waiting
  <2>2. CASE Waiting # {}
    <3>1. PICK a \in Waiting : acc' = [acc EXCEPT ![a] = "woken"]
      BY <1>5, <2>2 DEF Signal
    <3>2. Woken' = Woken \cup {a} /\ a \notin Woken
      BY <1>1, <3>1 DEF Waiting, Woken
    <3>3. Cardinality(Woken') = Cardinality(Woken) + 1 /\ Cardinality(Woken) \in Nat
      BY <3>2, WokenCount
    <3>4. count <= Cardinality(Woken)
      BY <2>2 DEF NoLostWakeup, Woken
    <3>5. count' <= Cardinality(Woken')
      BY <1>1, <1>5, <3>3, <3>4
    <3>6. QED
      BY <3>5 DEF NoLostWakeup, Woken
  <2>3. QED
    BY <2>1, <2>2
<1>6. ASSUME NEW s \in Session, ring_push(s) PROVE NoLostWakeup'
  BY <1>2, <1>5, <1>6 DEF ring_push, ringVars
<1>7. ASSUME NEW a \in Acceptor, ring_pop(a) PROVE NoLostWakeup'
  <2>1. CASE count = 0 /\ UNCHANGED ringVars
    BY <2>1, EmptyKept DEF ringVars
  <2>2. CASE closed /\ UNCHANGED ringVars
    BY <2>2, EmptyKept DEF ringVars, Inv, Drained
  <2>3. CASE count > 0 /\ Pop /\ acc' = [acc EXCEPT ![a] = "idle"]
    <3>1. Waiting' \subseteq Waiting /\ Woken' = Woken \ {a} /\ count' = count - 1
      BY <1>1, <2>3 DEF Waiting, Woken, Pop
    <3>2. /\ Cardinality(Woken) \in Nat /\ Cardinality(Woken') \in Nat
          /\ Cardinality(Woken') >= Cardinality(Woken) - 1
      BY <3>1, WokenCount, Zenon
    <3>3. Waiting' # {} => count <= Cardinality(Woken)
      BY <3>1 DEF NoLostWakeup, Woken
    <3>4. Waiting' # {} => count' <= Cardinality(Woken')
      BY <1>1, <3>1, <3>2, <3>3
    <3>5. QED
      BY <3>4 DEF NoLostWakeup, Woken
  <2>4. QED
    BY <1>7, <2>1, <2>2, <2>3 DEF ring_pop
<1>8. CASE portillia_stream_client_drain
  BY <1>8, EmptyKept DEF portillia_stream_client_drain
<1>9. CASE destroy_close
  BY <1>9, EmptyKept DEF destroy_close, ringVars, Inv, Drained
<1>10. CASE UNCHANGED vars
  BY <1>2, <1>10 DEF vars, ringVars
<1>11. QED
  BY <1>2, <1>3, <1>4, <1>6, <1>7, <1>8, <1>9, <1>10
     DEF Next, SessionStep, Close, session_open, session_fail, listener_cancel, destroy_free, ringVars

(* While a call of portillia_listener_accept is blocked, there is a woken  *)
(* call for each session in the ring: with pthread_cond_signal one wakeup  *)
(* for each push is enough, for any number of accept calls.                *)
THEOREM NoWakeupLost == Spec => []NoLostWakeup
<1>1. Init => NoLostWakeup
  BY DEF Init, NoLostWakeup, Waiting
<1>2. QED
  BY <1>1, Invariance, WakeupStep, PTL DEF Spec

-------------------------------------------------------------------------------
(* The refinement of SessionQueue.                                         *)

Places == [s \in Session |-> Place[sess[s]]]

(* Where SessionQueue sees a session, by what has become of it.            *)
LEMMA PlaceFacts ==
  /\ Place["new"] = "outside" /\ Place["running"] = "outside" /\ Place["ready"] = "queued"
  /\ Place["accepted"] = "taken" /\ Place["closed"] = "closed"
  BY DEF Place

(* A step that changes what has become of one session changes one place.   *)
LEMMA PlaceChange ==
  ASSUME TypeOK, NEW s \in Session, NEW v, sess' = [sess EXCEPT ![s] = v]
  PROVE  Places' = [Places EXCEPT ![s] = Place[v]]
<1>1. \A t \in Session : sess'[t] = IF t = s THEN v ELSE sess[t]
  BY DEF TypeOK
<1>2. Places' = [t \in Session |-> Place[sess'[t]]]
  BY DEF Places, Place
<1>3. ASSUME NEW t \in Session
      PROVE  Place[sess'[t]] = IF t = s THEN Place[v] ELSE Place[sess[t]]
  <2>1. CASE t = s
    <3>1. sess'[t] = v
      BY <1>1, <2>1
    <3>2. QED
      BY <2>1, <3>1
  <2>2. CASE t # s
    <3>1. sess'[t] = sess[t]
      BY <1>1, <2>2
    <3>2. QED
      BY <2>2, <3>1
  <2>3. QED
    BY <2>1, <2>2
<1>4. Places' = [t \in Session |-> IF t = s THEN Place[v] ELSE Place[sess[t]]]
  BY <1>2, <1>3, Zenon
<1>5. [Places EXCEPT ![s] = Place[v]] = [t \in Session |-> IF t = s THEN Place[v] ELSE Place[sess[t]]]
  BY Zenon DEF Places
<1>6. QED
  BY <1>4, <1>5

(* The ring's window as a sequence.                                        *)
LEMMA ContentSeq ==
  ASSUME Inv
  PROVE  /\ Content \in Seq(Session) /\ Len(Content) = count
         /\ \A i \in 1..count : Content[i] = Slot[i - 1]
<1> USE CapType
<1> HIDE DEF cap
<1>1. count \in 0..cap /\ head \in 0..cap - 1 /\ count \in Nat
  BY DEF Inv, TypeOK
<1>2. \A i \in 1..count : i - 1 \in 0..count - 1 /\ i - 1 \in 0..cap - 1 /\ head + i - 1 = head + (i - 1)
  BY <1>1
<1>3. \A i \in 1..count : Content[i] = Slot[i - 1]
  BY <1>2 DEF Content, Slot, Pos
<1>4. \A i \in 1..count : Content[i] \in Session
  BY <1>2, <1>3 DEF Inv, WindowDistinct
<1>5. Content = [i \in 1..count |-> Content[i]]
  BY DEF Content
<1> HIDE DEF Content
<1>6. Content \in [1..count -> Session]
  BY <1>4, <1>5
<1>7. QED
  BY <1>1, <1>3, <1>6

(* So it is after every step.                                              *)
LEMMA ContentSeqNext ==
  ASSUME Inv'
  PROVE  Content' \in Seq(Session) /\ Len(Content') = count'
<1>1. Content' = [i \in 1..count' |-> ring'[(head' + i - 1) % cap]]
  BY DEF Content, cap
<1>2. Slot' = [n \in 0..cap - 1 |-> ring'[Pos(head', n)]]
  BY DEF Slot, Pos, cap
<1>3. cap \in Nat \ {0} /\ count' \in 0..cap /\ head' \in 0..cap - 1 /\ count' \in Nat
  <2>1. count' \in 0..cap /\ head' \in 0..cap - 1
    BY DEF Inv, TypeOK, cap
  <2>2. QED
    BY <2>1, CapType
<1>4. \A n \in 0..count' - 1 : Slot'[n] \in Session
  BY DEF Inv, WindowDistinct
<1> HIDE DEF cap
<1>5. \A i \in 1..count' : i - 1 \in 0..count' - 1 /\ i - 1 \in 0..cap - 1 /\ head' + i - 1 = head' + (i - 1)
  <2>1. \A c \in Nat : \A k \in 0..c : \A h \in 0..c - 1 : \A i \in 1..k :
          i - 1 \in 0..k - 1 /\ i - 1 \in 0..c - 1 /\ h + i - 1 = h + (i - 1)
    OBVIOUS
  <2>2. QED
    BY <1>3, <2>1, Zenon
<1>6. \A i \in 1..count' : Content'[i] = Slot'[i - 1]
  BY <1>1, <1>2, <1>5 DEF Pos
<1>7. Content' \in [1..count' -> Session]
  BY <1>1, <1>4, <1>5, <1>6
<1>8. QED
  BY <1>3, <1>7

(* ring_push appends to the window.                                        *)
LEMMA PushAppends ==
  ASSUME Inv, Inv', NEW s \in Session, count < cap,
         ring' = [ring EXCEPT ![tail] = s], count' = count + 1, head' = head
  PROVE  Content' = Append(Content, s) /\ Len(Content) < cap
<1>1. /\ cap \in Nat \ {0} /\ head \in 0..cap - 1 /\ count \in 0..cap - 1
      /\ ring \in [0..cap - 1 -> Session \cup {None}]
  BY CapType DEF Inv, TypeOK
<1>2. tail = Pos(head, count) /\ tail \in 0..cap - 1
  BY DEF Inv, WindowExact, TypeOK
<1>3. /\ Content \in Seq(Session) /\ Len(Content) = count
      /\ \A i \in 1..count : Content[i] = Slot[i - 1]
  BY ContentSeq
<1>4. /\ Content' \in Seq(Session) /\ Len(Content') = count'
      /\ \A i \in 1..count' : Content'[i] = ring'[Pos(head, i - 1)]
  <2>1. Content' = [i \in 1..count' |-> ring'[(head + i - 1) % cap]]
    BY DEF Content, cap
  <2> HIDE DEF cap
  <2>2. \A i \in 1..count' : i \in 1..cap /\ head + i - 1 = head + (i - 1)
    BY <1>1
  <2>3. \A i \in 1..count' : Content'[i] = ring'[Pos(head, i - 1)]
    BY <2>1, <2>2 DEF Pos
  <2>4. Content' \in Seq(Session) /\ Len(Content') = count'
    BY ContentSeqNext
  <2>5. QED
    BY <2>3, <2>4
<1> HIDE DEF cap
<1>5. \A i \in 1..count : Content'[i] = Content[i]
  <2>1. \A i \in 1..count : i - 1 \in 0..cap - 1 /\ i - 1 # count /\ i \in 1..count'
    BY <1>1
  <2>2. \A i \in 1..count : Pos(head, i - 1) # tail /\ Pos(head, i - 1) \in 0..cap - 1
    <3>1. \A n \in 0..cap : Pos(head, n) \in 0..cap - 1
      BY <1>1, Positions, Zenon
    <3>2. \A n, m \in 0..cap - 1 : n # m => Pos(head, n) # Pos(head, m)
      BY <1>1, Positions
    <3>3. \A n \in 0..cap - 1 : n \in 0..cap
      BY <1>1
    <3>4. QED
      BY <1>1, <1>2, <2>1, <3>1, <3>2, <3>3, Zenon
  <2>3. \A i \in 1..count : ring'[Pos(head, i - 1)] = ring[Pos(head, i - 1)]
    BY <1>1, <2>2
  <2>4. \A i \in 1..count : Slot[i - 1] = ring[Pos(head, i - 1)]
    BY <2>1 DEF Slot
  <2>5. QED
    BY <1>3, <1>4, <2>1, <2>3, <2>4, Zenon
<1>6. Content'[count + 1] = s
  <2>1. count + 1 \in 1..count' /\ (count + 1) - 1 = count
    BY <1>1
  <2>2. Content'[count + 1] = ring'[Pos(head, count)]
    BY <1>4, <2>1
  <2>3. QED
    BY <1>1, <1>2, <2>2
<1>7. QED
  <2> DEFINE C == Content  D == Content'
  <2>1. /\ C \in Seq(Session) /\ D \in Seq(Session) /\ Len(C) = count /\ Len(D) = count + 1
        /\ \A i \in 1..count : D[i] = C[i]
        /\ D[count + 1] = s
    BY <1>3, <1>4, <1>5, <1>6
  <2> HIDE DEF C, D
  <2>2. D = Append(C, s)
    BY <1>1, <2>1
  <2>3. QED
    BY <1>1, <1>3, <2>2 DEF C, D

(* ring_pop takes the head of the window.                                  *)
LEMMA PopTakesHead ==
  ASSUME Inv, Inv', count > 0, Pop, ring' = ring
  PROVE  Content # <<>> /\ Head(Content) = Oldest /\ Content' = Tail(Content)
<1>1. /\ cap \in Nat \ {0} /\ head \in 0..cap - 1 /\ count \in 1..cap
      /\ head' = Step(head) /\ count' = count - 1
  BY CapType DEF Inv, TypeOK, Pop
<1>2. /\ Content \in Seq(Session) /\ Len(Content) = count
      /\ \A i \in 1..count : Content[i] = Slot[i - 1]
  BY ContentSeq
<1>3. Content' \in Seq(Session) /\ Len(Content') = count'
  BY ContentSeqNext
<1>4. Content' = [i \in 1..count' |-> ring[(head' + i - 1) % cap]]
  BY DEF Content, cap
<1> HIDE DEF cap
<1>5. head' \in 0..cap - 1 /\ Pos(head, 0) = head
  <2>1. Step(head) = Pos(head, 1) /\ 1 \in 0..cap
    BY <1>1 DEF Step, Pos
  <2>2. QED
    BY <1>1, <2>1, Positions
<1>6. Content[1] = Oldest
  <2>1. 1 \in 1..count /\ 0 \in 0..cap - 1 /\ 1 - 1 = 0
    BY <1>1
  <2>2. Content[1] = Slot[0]
    BY <1>2, <2>1
  <2>3. QED
    BY <1>5, <2>1, <2>2 DEF Slot, Oldest
<1>7. ASSUME NEW i \in 1..count'
      PROVE  Content'[i] = Content[i + 1]
  <2>1. /\ i + 1 \in 1..count /\ (i + 1) - 1 = (i - 1) + 1 /\ i - 1 \in 0..cap - 1
        /\ (i - 1) + 1 \in 0..cap - 1 /\ head' + i - 1 = head' + (i - 1)
    BY <1>1, <1>5
  <2>2. Pos(head', i - 1) = Pos(head, (i - 1) + 1)
    BY <1>1, <2>1, Positions
  <2>3. Content'[i] = ring[Pos(head', i - 1)]
    BY <1>4, <2>1 DEF Pos
  <2>4. Content[i + 1] = Slot[(i - 1) + 1]
    BY <1>2, <2>1
  <2>5. QED
    BY <2>1, <2>2, <2>3, <2>4 DEF Slot
<1>8. QED
  <2> DEFINE C == Content  D == Content'  k == count
  <2>1. /\ C \in Seq(Session) /\ D \in Seq(Session) /\ k \in Nat \ {0}
        /\ Len(C) = k /\ Len(D) = k - 1 /\ C[1] = Oldest
        /\ \A i \in 1..k - 1 : D[i] = C[i + 1]
    BY <1>1, <1>2, <1>3, <1>6, <1>7
  <2> HIDE DEF C, D, k
  <2>2. C # <<>> /\ Head(C) = Oldest
    BY <2>1
  <2>3. Tail(C) \in Seq(Session) /\ Len(Tail(C)) = k - 1 /\ \A i \in 1..k - 1 : Tail(C)[i] = C[i + 1]
    BY <2>1
  <2>4. D = Tail(C)
    BY <2>1, <2>3
  <2>5. QED
    BY <2>2, <2>4 DEF C, D

(* A step that leaves the ring and the sessions alone leaves the queue.    *)
LEMMA Quiet ==
  ASSUME UNCHANGED ringVars
  PROVE  Content' = Content
  BY DEF ringVars, Content, cap

(* Nor does it change a session's place.                                   *)
LEMMA QuietStep ==
  ASSUME UNCHANGED ringVars, sess' = sess
  PROVE  UNCHANGED Queue!qvars
  BY Quiet DEF Queue!qvars, Place

(* Initially the ring is empty and every session is outside.               *)
LEMMA InitRefines == Init => Queue!QInit
<1> SUFFICES ASSUME Init PROVE Queue!QInit
  OBVIOUS
<1>1. Content = <<>>
  BY DEF Init, Content
<1>2. \A s \in Session : sess[s] = "new"
  BY DEF Init
<1>3. Places = [s \in Session |-> "outside"]
  <2>1. \A s \in Session : Place[sess[s]] = "outside"
    BY <1>2, PlaceFacts
  <2>2. QED
    BY <2>1 DEF Places
<1>4. QED
  BY <1>1, <1>3 DEF Queue!QInit, Places

(* A session that is running is outside the queue.                         *)
LEMMA RunningOutside ==
  ASSUME NEW s \in Session, sess[s] = "running"
  PROVE  Places[s] = "outside"
  BY PlaceFacts DEF Places

(* A session's thread enters it into the queue or has it refused.          *)
LEMMA SessionRefines ==
  ASSUME Inv, Inv', NEW s \in Session, SessionStep(s)
  PROVE  Queue!Enter(s) \/ Queue!Refuse(s) \/ UNCHANGED Queue!qvars
<1>0. TypeOK /\ count \in 0..cap /\ cap \in Nat
  BY CapType DEF Inv, TypeOK
<1>1. CASE session_open(s)
  <2>1. UNCHANGED ringVars /\ sess[s] = "new" /\ sess' = [sess EXCEPT ![s] = "running"]
    BY <1>1 DEF session_open
  <2>2. Places' = [Places EXCEPT ![s] = "outside"]
    <3>1. Places' = [Places EXCEPT ![s] = Place["running"]]
      BY <1>0, <2>1, PlaceChange, Zenon
    <3>2. QED
      BY <3>1, PlaceFacts
  <2>3. Places[s] = "outside" /\ Places = [t \in Session |-> Places[t]]
    BY <2>1, PlaceFacts DEF Places
  <2>4. Places' = Places
    BY <2>2, <2>3
  <2>5. QED
    BY <2>1, <2>4, Quiet DEF Queue!qvars, Places
<1>2. ASSUME sess[s] = "running", UNCHANGED ringVars, sess' = [sess EXCEPT ![s] = "closed"]
      PROVE  Queue!Refuse(s)
  <2>1. Places' = [Places EXCEPT ![s] = "closed"]
    <3>1. Places' = [Places EXCEPT ![s] = Place["closed"]]
      BY <1>0, <1>2, PlaceChange, Zenon
    <3>2. QED
      BY <3>1, PlaceFacts
  <2>2. QED
    BY <1>2, <2>1, Quiet, RunningOutside DEF Queue!Refuse, Places
<1>3. CASE session_fail(s)
  BY <1>2, <1>3 DEF session_fail
<1>4. CASE ring_push(s)
  <2>1. CASE closed \/ Full
    BY <1>2, <1>4, <2>1 DEF ring_push
  <2>2. CASE ~(closed \/ Full)
    <3>1. /\ sess[s] = "running" /\ sess' = [sess EXCEPT ![s] = "ready"]
          /\ ring' = [ring EXCEPT ![tail] = s] /\ count' = count + 1 /\ head' = head
      BY <1>4, <2>2 DEF ring_push
    <3>2. count < cap
      BY <1>0, <2>2 DEF Full
    <3>3. Content' = Append(Content, s) /\ Len(Content) < cap
      BY <3>1, <3>2, PushAppends, Zenon
    <3>4. Places' = [Places EXCEPT ![s] = "queued"]
      <4>1. Places' = [Places EXCEPT ![s] = Place["ready"]]
        BY <1>0, <3>1, PlaceChange, Zenon
      <4>2. QED
        BY <4>1, PlaceFacts
    <3>5. QED
      BY <3>1, <3>3, <3>4, RunningOutside DEF Queue!Enter, Places
  <2>3. QED
    BY <2>1, <2>2
<1>5. QED
  BY <1>1, <1>3, <1>4, <1>2 DEF SessionStep

(* An accept call that gets a session takes the oldest one.                *)
LEMMA PopRefines ==
  ASSUME Inv, Inv', NEW a \in Acceptor, ring_pop(a)
  PROVE  Queue!Take \/ UNCHANGED Queue!qvars
<1>1. CASE closed \/ count = 0
  BY <1>1, QuietStep DEF ring_pop, Inv, TypeOK
<1>2. CASE ~closed /\ count > 0
  <2>1. Pop /\ ring' = ring /\ sess' = [sess EXCEPT ![Oldest] = "accepted"]
    BY <1>2 DEF ring_pop
  <2>2. Content # <<>> /\ Head(Content) = Oldest /\ Content' = Tail(Content)
    BY <1>2, <2>1, PopTakesHead
  <2>3. TypeOK /\ Oldest \in Session
    <3>1. Content \in Seq(Session)
      BY ContentSeq
    <3>2. QED
      BY <2>2, <3>1 DEF Inv
  <2>4. Places' = [Places EXCEPT ![Oldest] = "taken"]
    <3>1. Places' = [Places EXCEPT ![Oldest] = Place["accepted"]]
      BY <2>1, <2>3, PlaceChange, Zenon
    <3>2. QED
      BY <3>1, PlaceFacts
  <2>5. QED
    BY <2>2, <2>4, Zenon DEF Queue!Take, Places
<1>3. QED
  <2>1. count \in Nat
    BY CapType DEF Inv, TypeOK
  <2>2. QED
    BY <1>1, <1>2, <2>1

(* portillia_stream_client_drain closes exactly the queued sessions.       *)
LEMMA DrainRefines ==
  ASSUME Inv, portillia_stream_client_drain
  PROVE  Queue!Drain
<1>1. /\ sess \in [Session -> {"new", "running", "ready", "accepted", "closed"}]
      /\ count' = 0
      /\ sess' = [s \in Session |-> IF sess[s] = "ready" THEN "closed" ELSE sess[s]]
  BY DEF Inv, TypeOK, portillia_stream_client_drain
<1>2. Content' = <<>>
  BY <1>1 DEF Content
<1>3. ASSUME NEW s \in Session
      PROVE  Place[sess'[s]] = IF Place[sess[s]] = "queued" THEN "closed" ELSE Place[sess[s]]
  <2>1. CASE sess[s] = "ready"
    <3>1. sess'[s] = "closed"
      BY <1>1, <2>1
    <3>2. QED
      BY <2>1, <3>1, PlaceFacts
  <2>2. CASE sess[s] # "ready"
    <3>1. sess'[s] = sess[s]
      BY <1>1, <2>2
    <3>2. Place[sess[s]] # "queued"
      BY <1>1, <2>2, PlaceFacts
    <3>3. QED
      BY <3>1, <3>2
  <2>3. QED
    BY <2>1, <2>2
<1>4. Places' = [s \in Session |-> IF Places[s] = "queued" THEN "closed" ELSE Places[s]]
  <2>1. Places' = [s \in Session |-> Place[sess'[s]]]
    BY DEF Places, Place
  <2>2. QED
    BY <1>3, <2>1 DEF Places
<1>5. QED
  BY <1>2, <1>4 DEF Queue!Drain, Places

(* Every step of any thread is a step of SessionQueue, or none.            *)
LEMMA NextRefines == Inv /\ [Next]_vars => [Queue!QNext]_(Queue!qvars)
<1> SUFFICES ASSUME Inv, [Next]_vars PROVE [Queue!QNext]_(Queue!qvars)
  OBVIOUS
<1>0. Inv'
  BY NextInv
<1>1. ASSUME NEW s \in Session, SessionStep(s) PROVE [Queue!QNext]_(Queue!qvars)
  BY <1>0, <1>1, SessionRefines DEF Queue!QNext
<1>2. ASSUME NEW a \in Acceptor, ring_pop(a) PROVE [Queue!QNext]_(Queue!qvars)
  BY <1>0, <1>2, PopRefines DEF Queue!QNext
<1>3. ASSUME NEW a \in Acceptor, accept_call(a) \/ touch_freed(a)
      PROVE  [Queue!QNext]_(Queue!qvars)
  BY <1>3, QuietStep DEF accept_call, touch_freed
<1>4. CASE portillia_stream_client_drain
  BY <1>4, DrainRefines DEF Queue!QNext
<1>5. CASE listener_cancel \/ destroy_close \/ destroy_free
  BY <1>5, QuietStep DEF listener_cancel, destroy_close, destroy_free
<1>6. CASE UNCHANGED vars
  BY <1>6, QuietStep DEF vars
<1>7. QED
  BY <1>1, <1>2, <1>3, <1>4, <1>5, <1>6 DEF Next, Close

(* The ring, with its wrap-around, its blocked accept calls and its        *)
(* destruction in several critical sections, implements the bounded FIFO:  *)
(* sessions are accepted in the order they were activated, each once.      *)
THEOREM RingImplementsQueue == Spec => ImplementsQueue
  BY InitRefines, NextRefines, Invariance, PTL DEF Spec, ImplementsQueue, Queue!QSpec

-------------------------------------------------------------------------------
(* The threads of the listener that owns the stream client.                *)

Ended == {"none", "failed", "exited"}
Started(t) == rev[t] \notin {"none", "failed"}

(* Threads are only there while run_lease is: it starts them after a       *)
(* registration and returns when it has joined them, all of them unless a  *)
(* place of reverse_tids before the last was left unfilled.                *)
ThreadsWithinLease ==
  /\ run \in {"loop", "registering", "sleeping"} =>
       renew = "none" /\ \A t \in Thread : rev[t] = "none"
  /\ run = "stopped" =>
       renew \in {"none", "exited"} /\ \A t \in Thread : rev[t] \in Ended \/ Gap

(* Without such a gap the threads that were started are the first          *)
(* reverse_count ones; the places still to come are above the count.       *)
CountedFromFirst ==
  /\ \A t \in Thread : Gap \/ (Started(t) <=> t <= reverse_count)
  /\ \A t \in Thread : rev[t] = "none" => reverse_count < t

(* The run thread has returned before anything is freed.                   *)
FreedAfterRun == closer = "closed" => run = "stopped"

ThreadsInv == ListenerTypeOK /\ ThreadsWithinLease /\ CountedFromFirst /\ FreedAfterRun

(* Before portillia_listener_start no thread runs and nothing is freed.    *)
LEMMA ThreadsStart == ListenerInit => ThreadsInv
<1> SUFFICES ASSUME ListenerInit PROVE ThreadsInv
  OBVIOUS
<1>1. ListenerTypeOK
  <2>1. cancelled \in BOOLEAN /\ relay \in {"up", "down", "nameless"}
    BY Zenon DEF ListenerInit
  <2>2. reverse_count \in 0..ReadyTarget /\ run \in RunState
    BY TargetAssumption DEF ListenerInit, RunState
  <2>3. rev \in [Thread -> ReverseState]
    BY DEF ListenerInit, ReverseState
  <2>4. QED
    BY <2>1, <2>2, <2>3, Zenon DEF ListenerInit, ListenerTypeOK
<1>2. \A t \in Thread : rev[t] = "none" /\ t \in Nat /\ 0 < t
  BY DEF ListenerInit, Thread
<1>3. CountedFromFirst
  BY <1>2 DEF ListenerInit, CountedFromFirst, Started
<1>4. ThreadsWithinLease /\ FreedAfterRun
  BY <1>2 DEF ListenerInit, ThreadsWithinLease, FreedAfterRun
<1>5. QED
  BY <1>1, <1>3, <1>4 DEF ThreadsInv

(* A step that starts no thread and leaves the places of reverse_tids as   *)
(* filled as they were does not change what is counted, nor a gap.         *)
LEMMA SamePlaces ==
  ASSUME reverse_count' = reverse_count,
         \A t \in Thread : /\ rev'[t] = "none" <=> rev[t] = "none"
                           /\ rev'[t] = "failed" <=> rev[t] = "failed"
  PROVE  /\ Gap <=> Gap'
         /\ CountedFromFirst => CountedFromFirst'
<1>1. Gap <=> Gap'
  BY DEF Gap
<1>2. \A t \in Thread : Started(t) <=> Started(t)'
  BY DEF Started
<1>3. CountedFromFirst => CountedFromFirst'
  BY <1>1, <1>2 DEF CountedFromFirst
<1>4. QED
  BY <1>1, <1>3

(* A step of the run thread that starts no thread of the lease.            *)
LEMMA RunThreadStep ==
  ASSUME ThreadsInv,
         run_loop \/ register_and_configure \/ run_sleep \/ start_renew \/ run_wait \/ join_threads
         \/ spurious_wakeup
  PROVE  ThreadsInv'
<1>0. UNCHANGED <<rev, reverse_count, cancelled, closer>>
  BY Zenon DEF run_loop, register_and_configure, run_sleep, start_renew, run_wait, join_threads,
     spurious_wakeup
<1>1. (Gap <=> Gap') /\ CountedFromFirst'
  BY <1>0, SamePlaces DEF ThreadsInv
<1>2. run # "stopped"
  BY DEF run_loop, register_and_configure, run_sleep, start_renew, run_wait, join_threads,
     spurious_wakeup
<1>3. FreedAfterRun'
  BY <1>0, <1>2 DEF ThreadsInv, FreedAfterRun
<1>4. ListenerTypeOK'
  <2>1. /\ relay' = relay /\ token' \in {"none", "valid", "expired"}
    BY DEF ThreadsInv, ListenerTypeOK, run_loop, register_and_configure, run_sleep, start_renew, run_wait,
       join_threads, spurious_wakeup
  <2>2. run' \in RunState
    BY DEF RunState, run_loop, register_and_configure, Backoff, run_sleep, start_renew, run_wait, WaitTest,
       join_threads, spurious_wakeup
  <2>3. renew' \in {"none", "loop", "sleeping", "renewing", "retrying", "exited"}
    BY DEF ThreadsInv, ListenerTypeOK, run_loop, register_and_configure, run_sleep, start_renew, run_wait,
       join_threads, spurious_wakeup
  <2>4. QED
    BY <1>0, <2>1, <2>2, <2>3, Zenon DEF ThreadsInv, ListenerTypeOK
<1>5. ThreadsWithinLease'
  <2>1. CASE run_loop \/ register_and_configure \/ run_sleep
    <3>1. renew' = renew /\ run \in {"loop", "registering", "sleeping"}
      BY <2>1 DEF run_loop, register_and_configure, run_sleep
    <3>2. renew = "none" /\ \A t \in Thread : rev[t] = "none"
      BY <3>1 DEF ThreadsInv, ThreadsWithinLease
    <3>3. QED
      BY <1>0, <3>1, <3>2 DEF ThreadsWithinLease, Ended
  <2>2. CASE start_renew \/ run_wait \/ spurious_wakeup
    <3>1. run' \in {"testing", "joining", "waiting"}
      BY <2>2 DEF start_renew, run_wait, WaitTest, spurious_wakeup
    <3>2. QED
      BY <3>1 DEF ThreadsWithinLease
  <2>3. CASE join_threads
    <3>1. CASE ThreadsJoined /\ run' = "stopped"
      <4>1. renew' = renew
        BY <2>3 DEF join_threads
      <4>2. ASSUME NEW t \in Thread, ~Gap PROVE rev[t] \in Ended
        <5>1. Started(t) => t \in 1..reverse_count
          BY <4>2 DEF ThreadsInv, CountedFromFirst, Thread, ListenerTypeOK
        <5>2. QED
          BY <3>1, <5>1 DEF ThreadsJoined, JoinReverse, Started, Ended
      <4>3. QED
        BY <1>0, <1>1, <3>1, <4>1, <4>2 DEF ThreadsJoined, ThreadsWithinLease
    <3>2. CASE run' = "undefined"
      BY <3>2 DEF ThreadsWithinLease
    <3>3. QED
      BY <2>3, <3>1, <3>2 DEF join_threads
  <2>4. QED
    BY <2>1, <2>2, <2>3
<1>6. QED
  BY <1>1, <1>3, <1>4, <1>5 DEF ThreadsInv

(* pthread_create starts the next thread, which is counted, or leaves its  *)
(* place unfilled.                                                         *)
LEMMA StartStep ==
  ASSUME ThreadsInv, NEW t \in Thread, start_reverse(t)
  PROVE  ThreadsInv'
<1>0. /\ run = "starting" /\ rev[t] = "none" /\ \A u \in 1..t - 1 : rev[u] # "none"
      /\ UNCHANGED <<relay, token, run, renew, cancelled, closer>>
  BY DEF start_reverse
<1>1. PICK k \in {"loop", "failed"} :
        /\ rev' = [rev EXCEPT ![t] = k]
        /\ reverse_count' = IF k = "loop" THEN reverse_count + 1 ELSE reverse_count
  <2>1. CASE Start(t)
    BY <2>1 DEF Start
  <2>2. CASE rev' = [rev EXCEPT ![t] = "failed"] /\ UNCHANGED reverse_count
    BY <2>2
  <2>3. QED
    BY <2>1, <2>2 DEF start_reverse
<1>2. /\ rev'[t] = k /\ rev' \in [Thread -> ReverseState]
      /\ \A u \in Thread : u # t => rev'[u] = rev[u]
  BY <1>1 DEF ThreadsInv, ListenerTypeOK, ReverseState
<1>3. /\ t \in 1..ReadyTarget /\ ReadyTarget \in Nat /\ reverse_count \in Nat /\ reverse_count < t
  BY <1>0, TargetAssumption DEF ThreadsInv, ListenerTypeOK, CountedFromFirst, Thread
<1>4. reverse_count' \in 0..ReadyTarget
  BY <1>1, <1>3
<1>5. ListenerTypeOK' /\ ThreadsWithinLease' /\ FreedAfterRun'
  <2>1. ListenerTypeOK'
    BY <1>0, <1>2, <1>4 DEF ThreadsInv, ListenerTypeOK
  <2>2. ThreadsWithinLease' /\ FreedAfterRun'
    BY <1>0 DEF ThreadsInv, ThreadsWithinLease, FreedAfterRun
  <2>3. QED
    BY <2>1, <2>2
<1>6. ASSUME NEW u \in Thread, rev'[u] = "none" PROVE reverse_count' < u
  <2>1. u # t /\ rev[u] = "none" /\ u \in Nat
    BY <1>2, <1>6 DEF Thread
  <2>2. ~(u \in 1..t - 1) /\ u \in 1..ReadyTarget
    BY <1>0, <2>1 DEF Thread
  <2>3. t < u
    BY <1>3, <2>1, <2>2
  <2>4. QED
    BY <1>1, <1>3, <2>3
<1>7. ASSUME NEW u \in Thread, ~Gap' PROVE Started(u)' <=> u <= reverse_count'
  <2>1. ~Gap
    <3>1. ASSUME NEW v \in Thread, NEW w \in Thread, v < w, rev[v] = "failed", Started(w) PROVE FALSE
      <4>1. rev'[v] = "failed" /\ rev'[w] \notin {"none", "failed"}
        BY <1>0, <1>2, <3>1 DEF Started
      <4>2. QED
        BY <1>7, <3>1, <4>1 DEF Gap
    <3>2. QED
      BY <3>1 DEF Gap, Started
  <2>2. \A v \in Thread : Started(v) <=> v <= reverse_count
    BY <2>1 DEF ThreadsInv, CountedFromFirst
  <2>3. CASE k = "failed"
    <3>1. Started(u)' <=> Started(u)
      BY <1>0, <1>2, <2>3 DEF Started
    <3>2. QED
      BY <1>1, <2>2, <2>3, <3>1
  <2>4. CASE k = "loop"
    <3>1. ASSUME NEW v \in 1..t - 1 PROVE v <= reverse_count
      <4>1. v \in Thread /\ v < t /\ v # t /\ rev[v] # "none"
        BY <1>0, <1>3 DEF Thread
      <4>2. rev'[t] \notin {"none", "failed"}
        BY <1>2, <2>4
      <4>3. rev'[v] # "failed"
        BY <1>7, <4>1, <4>2 DEF Gap
      <4>4. Started(v)
        BY <1>2, <4>1, <4>3 DEF Started
      <4>5. QED
        BY <2>2, <4>1, <4>4
    <3>2. reverse_count = t - 1
      <4>1. CASE t = 1
        BY <1>3, <4>1
      <4>2. CASE t > 1
        <5>1. t - 1 \in 1..t - 1
          BY <1>3, <4>2
        <5>2. t - 1 <= reverse_count
          BY <3>1, <5>1
        <5>3. QED
          BY <1>3, <5>2
      <4>3. QED
        BY <1>3, <4>1, <4>2
    <3>3. reverse_count' = t
      BY <1>1, <1>3, <2>4, <3>2
    <3>4. CASE u = t
      BY <1>2, <1>3, <2>4, <3>3, <3>4 DEF Started
    <3>5. CASE u # t
      <4>1. Started(u)' <=> Started(u)
        BY <1>2, <3>5 DEF Started
      <4>2. u \in Nat /\ (u <= t - 1 <=> u <= t)
        BY <1>3, <3>5 DEF Thread
      <4>3. QED
        BY <2>2, <3>2, <3>3, <4>1, <4>2
    <3>6. QED
      BY <3>4, <3>5
  <2>5. QED
    BY <2>3, <2>4
<1>8. CountedFromFirst'
  BY <1>6, <1>7 DEF CountedFromFirst
<1>9. QED
  BY <1>5, <1>8 DEF ThreadsInv

(* A thread of a reverse session moves on: it was started, and stays so.   *)
LEMMA SessionThreadStep ==
  ASSUME ThreadsInv, NEW t \in Thread, ReverseStep(t) \/ SessionCall(t) \/ use_freed(t)
  PROVE  ThreadsInv'
<1>0. UNCHANGED <<relay, token, run, reverse_count, renew, cancelled, closer>>
  BY Zenon DEF ReverseStep, SessionCall, use_freed, reverse_loop, open_reverse_session, reverse_sleep,
     run_session
<1>1. rev[t] \notin Ended
  BY DEF ReverseStep, SessionCall, use_freed, reverse_loop, open_reverse_session, reverse_sleep,
     run_session, Ended
<1>2. \E k \in ReverseState \ {"none", "failed"} : rev' = [rev EXCEPT ![t] = k]
  BY DEF ReverseStep, SessionCall, use_freed, reverse_loop, open_reverse_session, reverse_sleep,
     run_session, Reopen, ReverseState
<1>3. /\ rev' \in [Thread -> ReverseState] /\ rev'[t] \notin {"none", "failed"}
      /\ \A u \in Thread : u # t => rev'[u] = rev[u]
  BY <1>2 DEF ThreadsInv, ListenerTypeOK
<1>4. (Gap <=> Gap') /\ CountedFromFirst'
  <2>1. \A u \in Thread : /\ rev'[u] = "none" <=> rev[u] = "none"
                          /\ rev'[u] = "failed" <=> rev[u] = "failed"
    BY <1>1, <1>3 DEF Ended
  <2>2. QED
    BY <1>0, <2>1, SamePlaces DEF ThreadsInv
<1>5. ListenerTypeOK' /\ FreedAfterRun'
  BY <1>0, <1>3, Zenon DEF ThreadsInv, ListenerTypeOK, FreedAfterRun
<1>6. ThreadsWithinLease'
  <2>1. run \notin {"loop", "registering", "sleeping"}
    BY <1>1 DEF ThreadsInv, ThreadsWithinLease, Ended
  <2>2. run = "stopped" => Gap
    BY <1>1 DEF ThreadsInv, ThreadsWithinLease
  <2>3. QED
    BY <1>0, <1>4, <2>1, <2>2 DEF ThreadsInv, ThreadsWithinLease
<1>7. QED
  BY <1>4, <1>5, <1>6 DEF ThreadsInv

(* The renewal thread is there only within run_lease.                      *)
LEMMA RenewThreadStep ==
  ASSUME ThreadsInv, RenewStep
  PROVE  ThreadsInv'
<1>0. UNCHANGED <<relay, token, run, rev, reverse_count, cancelled, closer>>
  BY Zenon DEF RenewStep, renew_loop, renew_due, portillia_api_renew_lease, renew_retry
<1>1. renew \notin {"none", "exited"}
  BY DEF RenewStep, renew_loop, renew_due, portillia_api_renew_lease, renew_retry
<1>2. renew' \in {"none", "loop", "sleeping", "renewing", "retrying", "exited"}
  BY DEF RenewStep, renew_loop, renew_due, portillia_api_renew_lease, renew_retry
<1>3. run \notin {"loop", "registering", "sleeping", "stopped"}
  BY <1>1 DEF ThreadsInv, ThreadsWithinLease
<1>4. CountedFromFirst'
  BY <1>0, SamePlaces DEF ThreadsInv
<1>5. QED
  BY <1>0, <1>2, <1>3, <1>4, Zenon DEF ThreadsInv, ListenerTypeOK, FreedAfterRun, ThreadsWithinLease

(* The relay comes and goes; sessions are lost with it.                    *)
LEMMA RelayStep ==
  ASSUME ThreadsInv, relay_changes \/ token_expires
  PROVE  ThreadsInv'
<1>1. CASE relay_changes
  <2>0. UNCHANGED <<token, run, reverse_count, renew, cancelled, closer>>
    BY <1>1 DEF relay_changes
  <2>1. PICK r \in {"up", "down", "nameless"} : relay' = r /\ rev' = Lost(r)
    BY <1>1 DEF relay_changes
  <2>2. /\ rev' \in [Thread -> ReverseState]
        /\ \A t \in Thread : rev'[t] = rev[t] \/ (rev[t] = "session" /\ rev'[t] = "lost")
    BY <2>1 DEF Lost, ThreadsInv, ListenerTypeOK, ReverseState
  <2>3. (Gap <=> Gap') /\ CountedFromFirst'
    <3>1. \A u \in Thread : /\ rev'[u] = "none" <=> rev[u] = "none"
                            /\ rev'[u] = "failed" <=> rev[u] = "failed"
      BY <2>2
    <3>2. QED
      BY <2>0, <3>1, SamePlaces DEF ThreadsInv
  <2>4. ListenerTypeOK' /\ FreedAfterRun'
    BY <2>0, <2>1, <2>2, Zenon DEF ThreadsInv, ListenerTypeOK, FreedAfterRun
  <2>5. ThreadsWithinLease'
    <3>1. ASSUME NEW t \in Thread PROVE /\ rev[t] = "none" => rev'[t] = "none"
                                        /\ rev[t] \in Ended => rev'[t] \in Ended
      BY <2>2 DEF Ended
    <3>2. QED
      BY <2>0, <2>3, <3>1 DEF ThreadsInv, ThreadsWithinLease
  <2>6. QED
    BY <2>3, <2>4, <2>5 DEF ThreadsInv
<1>2. CASE token_expires
  <2>0. token' = "expired" /\ UNCHANGED <<relay, run, rev, reverse_count, renew, cancelled, closer>>
    BY <1>2 DEF token_expires
  <2>1. (Gap <=> Gap') /\ CountedFromFirst'
    BY <2>0, SamePlaces DEF ThreadsInv
  <2>2. QED
    BY <2>0, <2>1, Zenon DEF ThreadsInv, ListenerTypeOK, FreedAfterRun, ThreadsWithinLease
<1>3. QED
  BY <1>1, <1>2

(* portillia_listener_close waits for the run thread, then frees.          *)
LEMMA CloseStep ==
  ASSUME ThreadsInv, portillia_listener_close \/ close_free \/ UNCHANGED listenerVars
  PROVE  ThreadsInv'
<1>0. UNCHANGED <<relay, run, rev, reverse_count, renew>>
  BY Zenon DEF portillia_listener_close, close_free, listenerVars
<1>1. (Gap <=> Gap') /\ CountedFromFirst'
  BY <1>0, SamePlaces DEF ThreadsInv
<1>2. ThreadsWithinLease'
  BY <1>0, <1>1, Zenon DEF ThreadsInv, ThreadsWithinLease
<1>3. token' \in {"none", "valid", "expired"} /\ closer' \in {"idle", "joining", "closed"}
  BY DEF portillia_listener_close, close_free, listenerVars, ThreadsInv, ListenerTypeOK
<1>4. cancelled' \in BOOLEAN
  BY Zenon DEF portillia_listener_close, close_free, listenerVars, ThreadsInv, ListenerTypeOK
<1>5. FreedAfterRun'
  BY <1>0 DEF portillia_listener_close, close_free, listenerVars, ThreadsInv, FreedAfterRun
<1>6. QED
  BY <1>0, <1>1, <1>2, <1>3, <1>4, <1>5, Zenon DEF ThreadsInv, ListenerTypeOK

(* Each step of a thread, of close and of the relay preserves the          *)
(* invariant.                                                              *)
LEMMA ThreadsStep == ThreadsInv /\ [ListenerNext]_listenerVars => ThreadsInv'
  BY RunThreadStep, StartStep, SessionThreadStep, RenewThreadStep, RelayStep, CloseStep, Zenon
     DEF ListenerNext, RunStep

(* In every behaviour of the listener the invariant holds.                 *)
THEOREM ThreadsInvariance == ListenerSpec => []ThreadsInv
  BY ThreadsStart, ThreadsStep, PTL DEF ListenerSpec

(* Each thread of listener.c stays in the states its loop has.             *)
THEOREM ThreadsTyped == ListenerSpec => []ListenerTypeOK
<1>1. ThreadsInv => ListenerTypeOK
  BY DEF ThreadsInv
<1>2. QED
  BY <1>1, ThreadsInvariance, PTL

(* portillia_listener_close frees the stream client, the lease and the     *)
(* listener when no thread of the listener is left to use them, however    *)
(* many reverse sessions it was told to keep (ready_target), unless a      *)
(* thread could not be started before one that could.                      *)
THEOREM FreesLast == ListenerSpec => []FreedAfterThreads
<1>1. ThreadsInv => FreedAfterThreads
  BY DEF ThreadsInv, ThreadsWithinLease, FreedAfterRun, FreedAfterThreads, Ended
<1>2. QED
  BY <1>1, ThreadsInvariance, PTL
===============================================================================
