----------------------------- MODULE StreamClient -----------------------------
(***************************************************************************)
(* The SDK's end of the reverse sessions, src/transport/stream_client.c:   *)
(* the session threads of a listener, which push an activated session into *)
(* a ring buffer, the accept calls that pop it, and the destruction of the *)
(* stream client by portillia_listener_close.                              *)
(*                                                                         *)
(* A critical section on s->mu is one action.  An accept call blocked on   *)
(* s->cond is "waiting"; signalled, it is "woken" and has still to get mu  *)
(* back.  Keepalive markers change nothing and are left out.               *)
(***************************************************************************)
EXTENDS Naturals, Sequences, FiniteSets

CONSTANTS Session,        \* reverse sessions, each opened once
          Acceptor,       \* threads that call portillia_listener_accept
          READY_TARGET,   \* session threads of the listener
          None            \* an unused ring entry

ASSUME ClientAssumption == READY_TARGET \in Nat \ {0} /\ None \notin Session /\ IsFiniteSet(Acceptor)

VARIABLES
  ring, head, tail, count,   \* accepted_conns, accepted_head, _tail, _count
  closed,                    \* the closed field
  sess,                      \* what has become of each session
  acc,                       \* where each accept call is
  listener_cancelled,        \* the listener's cancelled field
  destroyer                  \* where portillia_stream_client_destroy is

ringVars == <<ring, head, tail, count>>
vars == <<ringVars, closed, sess, acc, listener_cancelled, destroyer>>

cap == READY_TARGET * 2

Init ==
  /\ ring = [i \in 0..cap - 1 |-> None] /\ head = 0 /\ tail = 0 /\ count = 0
  /\ closed = FALSE
  /\ sess = [s \in Session |-> "new"]
  /\ acc = [a \in Acceptor |-> "idle"]
  /\ listener_cancelled = FALSE /\ destroyer = "idle"

-------------------------------------------------------------------------------
(* portillia_stream_client_run_session, in one of READY_TARGET threads.    *)

Running == {s \in Session : sess[s] = "running"}

session_open(s) ==
  /\ sess[s] = "new" /\ ~listener_cancelled /\ Cardinality(Running) < READY_TARGET
  /\ sess' = [sess EXCEPT ![s] = "running"]
  /\ UNCHANGED <<ringVars, closed, acc, listener_cancelled, destroyer>>

(* The relay hangs up, an unexpected marker, or a failed inner handshake.  *)
session_fail(s) ==
  /\ sess[s] = "running"
  /\ sess' = [sess EXCEPT ![s] = "closed"]
  /\ UNCHANGED <<ringVars, closed, acc, listener_cancelled, destroyer>>

Waiting == {a \in Acceptor : acc[a] = "waiting"}

SignalWhenEmpty ==
  IF Waiting = {} \/ count > 0
    THEN UNCHANGED acc
    ELSE \E a \in Waiting : acc' = [acc EXCEPT ![a] = "woken"]
Signal ==
  IF Waiting = {}
    THEN UNCHANGED acc
    ELSE \E a \in Waiting : acc' = [acc EXCEPT ![a] = "woken"]

Full == count >= cap

Step(i) == (i + 1) % cap

(* A TLS or raw start marker; a full ring closes the session again.        *)
ring_push(s) ==
  /\ sess[s] = "running"
  /\ \/ /\ closed \/ Full
        /\ sess' = [sess EXCEPT ![s] = "closed"]
        /\ UNCHANGED <<ringVars, acc>>
     \/ /\ ~closed /\ ~Full
        /\ ring' = [ring EXCEPT ![tail] = s]
        /\ tail' = Step(tail)
        /\ count' = count + 1
        /\ sess' = [sess EXCEPT ![s] = "ready"]
        /\ Signal
        /\ UNCHANGED head
  /\ UNCHANGED <<closed, listener_cancelled, destroyer>>

-------------------------------------------------------------------------------
(* portillia_listener_accept, called again and again.                      *)

accept_call(a) ==
  /\ acc[a] = "idle"
  /\ acc' = [acc EXCEPT ![a] = IF listener_cancelled THEN "done" ELSE "called"]
  /\ UNCHANGED <<ringVars, closed, sess, listener_cancelled, destroyer>>

Pop == /\ head' = Step(head)
       /\ count' = count - 1
       /\ UNCHANGED tail

Newest == ring[(tail + cap - 1) % cap]
Oldest == ring[head]

ring_pop(a) ==
  /\ acc[a] \in {"called", "woken"} /\ destroyer # "freed"
  /\ \/ /\ count = 0 /\ ~closed
        /\ acc' = [acc EXCEPT ![a] = "waiting"]
        /\ UNCHANGED <<ringVars, sess>>
     \/ /\ closed
        /\ acc' = [acc EXCEPT ![a] = "done"]
        /\ UNCHANGED <<ringVars, sess>>
     \/ /\ ~closed /\ count > 0
        /\ sess' = [sess EXCEPT ![Oldest] = "accepted"]
        /\ Pop
        /\ acc' = [acc EXCEPT ![a] = "idle"]
        /\ UNCHANGED ring
  /\ UNCHANGED <<closed, listener_cancelled, destroyer>>

-------------------------------------------------------------------------------
(* portillia_listener_close: cancel, join, drain, close, free.             *)

listener_cancel ==
  /\ ~listener_cancelled /\ listener_cancelled' = TRUE
  /\ UNCHANGED <<ringVars, closed, sess, acc, destroyer>>

NotJoined == listener_cancelled
Joined == listener_cancelled /\ Running = {}

portillia_stream_client_drain ==
  /\ destroyer = "idle" /\ Joined
  /\ destroyer' = "drained"
  /\ sess' = [s \in Session |-> IF sess[s] = "ready" THEN "closed" ELSE sess[s]]
  /\ head' = (head + count) % cap
  /\ count' = 0
  /\ UNCHANGED <<ring, tail, closed, acc, listener_cancelled>>

WakeOne == Signal
Broadcast == acc' = [a \in Acceptor |-> IF acc[a] = "waiting" THEN "woken" ELSE acc[a]]

destroy_close ==
  /\ destroyer = "drained"
  /\ destroyer' = "closed"
  /\ closed' = TRUE
  /\ Broadcast
  /\ UNCHANGED <<ringVars, sess, listener_cancelled>>

(* The mutex and the condition variable are destroyed and the memory is    *)
(* retired; nothing waits for accept calls that are still inside.          *)
destroy_free ==
  /\ destroyer = "closed"
  /\ destroyer' = "freed"
  /\ UNCHANGED <<ringVars, closed, sess, acc, listener_cancelled>>

(* Such a call locks a destroyed mutex: undefined, not followed further.   *)
touch_freed(a) ==
  /\ destroyer = "freed" /\ acc[a] \in {"called", "woken"}
  /\ acc' = [acc EXCEPT ![a] = "undefined"]
  /\ UNCHANGED <<ringVars, closed, sess, listener_cancelled, destroyer>>

SessionStep(s) == session_open(s) \/ session_fail(s) \/ ring_push(s)
Close == listener_cancel \/ portillia_stream_client_drain \/ destroy_close \/ destroy_free

Next ==
  \/ \E s \in Session : SessionStep(s)
  \/ \E a \in Acceptor : accept_call(a) \/ ring_pop(a) \/ touch_freed(a)
  \/ Close

Spec == Init /\ [][Next]_vars

(* Threads that hold no lock run; destruction, once begun, goes on.        *)
FairSpec ==
  /\ Spec
  /\ \A a \in Acceptor : WF_vars(ring_pop(a)) /\ WF_vars(touch_freed(a))
  /\ WF_vars(destroy_close) /\ WF_vars(destroy_free)

-------------------------------------------------------------------------------
(* The sessions in the ring, oldest first.                                 *)
Content == [i \in 1..count |-> ring[(head + i - 1) % cap]]

TypeOK ==
  /\ ring \in [0..cap - 1 -> Session \cup {None}]
  /\ head \in 0..cap - 1 /\ tail \in 0..cap - 1 /\ count \in 0..cap
  /\ closed \in BOOLEAN /\ listener_cancelled \in BOOLEAN
  /\ sess \in [Session -> {"new", "running", "ready", "accepted", "closed"}]
  /\ acc \in [Acceptor -> {"idle", "called", "waiting", "woken", "done", "undefined"}]
  /\ destroyer \in {"idle", "drained", "closed", "freed"}

(* accepted_head, accepted_tail and accepted_count describe one window of  *)
(* the ring, across every wrap-around, and the window holds exactly the    *)
(* sessions that were pushed and neither accepted nor drained.             *)
RingConsistent ==
  /\ tail = (head + count) % cap
  /\ \A s \in Session : sess[s] = "ready" <=> \E i \in 1..count : Content[i] = s

(* While an accept call is blocked on cond, each session in the ring has a *)
(* woken accept call to take it: the signal of ring_push is never lost.    *)
NoLostWakeup ==
  Waiting # {} => count <= Cardinality({a \in Acceptor : acc[a] = "woken"})

(* portillia_stream_client_destroy drains before it sets closed, in two    *)
(* critical sections; no session gets in between them and is leaked.       *)
NothingLeaked ==
  destroyer = "freed" => \A s \in Session : sess[s] \notin {"running", "ready"}

(* The safety of the stream client's ring, from the first push to the end  *)
(* of portillia_stream_client_destroy.                                     *)
RingInv == TypeOK /\ RingConsistent /\ NothingLeaked

(* Destruction releases every accept call that is blocked.                 *)
AcceptReleased ==
  \A a \in Acceptor : acc[a] = "waiting" /\ destroyer = "drained" ~> acc[a] \in {"done", "undefined"}

Place == [new |-> "outside", running |-> "outside", ready |-> "queued",
          accepted |-> "taken", closed |-> "closed"]

Queue == INSTANCE SessionQueue
           WITH READY_LIMIT <- cap, queue <- Content, place <- [s \in Session |-> Place[sess[s]]]

(* The ring is a bounded FIFO of sessions: sessions are accepted in the    *)
(* order they were activated, each once (SessionQueue!QSpec).              *)
ImplementsQueue == Queue!QSpec
===============================================================================
