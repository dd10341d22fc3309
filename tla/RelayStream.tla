----------------------------- MODULE RelayStream ------------------------------
(***************************************************************************)
(* One relay_stream of src/portal/server.c: the queue of ready reverse     *)
(* sessions of a lease, the connection workers that claim from it, the     *)
(* SDK connections that are offered to it, its keepalive thread, and the   *)
(* janitor that frees it.                                                  *)
(*                                                                         *)
(* All of them share one mutex (mu) and one condition variable (cond).     *)
(* A critical section that neither waits nor blocks on I/O is one action,  *)
(* guarded by mu being free.  The keepalive sweep writes to sockets while  *)
(* it holds mu, so it is several actions.  A thread blocked on cond is     *)
(* "waiting"; one that was signalled is "woken" and one whose deadline     *)
(* passed is "expired", and both still have to get mu back.                *)
(***************************************************************************)
EXTENDS Naturals, Sequences, Functions

CONSTANTS Session,       \* reverse sessions the SDK opens
          Claimer,       \* connection workers, one relay_stream_claim call each
          READY_LIMIT,   \* READY_LIMIT in the code (8)
          None           \* "no session"

ASSUME LimitAssumption == READY_LIMIT \in Nat \ {0}
ASSUME NoneAssumption == None \notin Session

VARIABLES
  ready,     \* ready_head .. ready_tail
  count,     \* the count field
  mu,        \* "free", or "keepalive" while the sweep holds it
  stop,      \* the stop field
  sess,      \* what has become of each reverse session
  claim,     \* where each claimer is in relay_stream_claim
  held,      \* the session a claimer popped
  ka,        \* where the keepalive thread is
  cursor,    \* sessions the running sweep has still to write to
  janitor,   \* where relay_stream_free is
  binding    \* the keyless binding minted for each session

queueVars == <<ready, count, sess>>
claimVars == <<claim, held, binding>>
kaVars    == <<ka, cursor, mu>>
freeVars  == <<stop, janitor>>
vars == <<queueVars, claimVars, kaVars, freeVars>>

SessState  == {"new", "resolved", "ready", "popped", "active", "closed", "undefined"}
ClaimState == {"idle", "resolved", "waiting", "woken", "expired", "popped",
               "issued", "served", "failed", "undefined"}

Init ==
  /\ ready = <<>> /\ count = 0 /\ mu = "free" /\ stop = FALSE
  /\ sess = [s \in Session |-> "new"]
  /\ claim = [c \in Claimer |-> "idle"]
  /\ held = [c \in Claimer |-> None]
  /\ ka = "woken" /\ cursor = <<>>
  /\ janitor = "idle"
  /\ binding = [s \in Session |-> "none"]

-------------------------------------------------------------------------------
(* The condition variable: signal wakes one waiter, whoever it is.  The    *)
(* keepalive thread and the claimers wait on the same one.                 *)

Signal ==
  \/ /\ \E c \in Claimer :
          /\ claim[c] = "waiting"
          /\ claim' = [claim EXCEPT ![c] = "woken"]
     /\ UNCHANGED ka
  \/ /\ ka = "waiting"
     /\ ka' = "woken"
     /\ UNCHANGED claim
  \/ /\ ka # "waiting" /\ \A c \in Claimer : claim[c] # "waiting"
     /\ UNCHANGED <<claim, ka>>

Broadcast ==
  /\ claim' = [c \in Claimer |-> IF claim[c] = "waiting" THEN "woken" ELSE claim[c]]
  /\ ka' = IF ka = "waiting" THEN "woken" ELSE ka

-------------------------------------------------------------------------------
(* Offering a reverse session: portillia_registry_offer_ssl_conn looks the *)
(* lease up under the registry mutex, which the janitor holds for as long  *)
(* as it frees, and then calls relay_stream_offer with the raw pointer.    *)

offer_lookup(s) ==
  /\ sess[s] = "new"
  /\ janitor \in {"idle", "freed"}
  /\ sess' = [sess EXCEPT ![s] = IF janitor = "idle" THEN "resolved" ELSE "closed"]
  /\ UNCHANGED <<ready, count, claimVars, kaVars, freeVars>>

HasRoom == count < READY_LIMIT

Enqueue(s) ==
  /\ sess' = [sess EXCEPT ![s] = "ready"]
  /\ ready' = Append(ready, s)
  /\ count' = count + 1

relay_stream_offer(s) ==
  /\ sess[s] = "resolved" /\ mu = "free" /\ janitor # "freed"
  /\ \/ /\ ~HasRoom
        /\ sess' = [sess EXCEPT ![s] = "closed"]
        /\ UNCHANGED <<ready, count, claim, ka>>
     \/ /\ HasRoom
        /\ Enqueue(s)
        /\ Signal
  /\ UNCHANGED <<held, binding, cursor, mu, freeVars>>

-------------------------------------------------------------------------------
(* relay_stream_claim.                                                     *)

claim_lookup(c) ==
  /\ claim[c] = "idle"
  /\ janitor \in {"idle", "freed"}
  /\ claim' = [claim EXCEPT ![c] = IF janitor = "idle" THEN "resolved" ELSE "failed"]
  /\ UNCHANGED <<queueVars, held, binding, kaVars, freeVars>>

DequeueNewest(c) ==
  /\ held' = [held EXCEPT ![c] = ready[count]]
  /\ sess' = [sess EXCEPT ![ready[count]] = "popped"]
  /\ ready' = SubSeq(ready, 1, count - 1)
  /\ count' = count - 1
Dequeue(c) ==
  /\ held' = [held EXCEPT ![c] = Head(ready)]
  /\ sess' = [sess EXCEPT ![Head(ready)] = "popped"]
  /\ ready' = Tail(ready)
  /\ count' = count - 1

(* With mu held: wait while count = 0, otherwise pop the head.             *)
claim_pop_or_wait(c) ==
  /\ claim[c] \in {"resolved", "woken"} /\ mu = "free" /\ janitor # "freed"
  /\ \/ /\ count = 0
        /\ claim' = [claim EXCEPT ![c] = "waiting"]
        /\ UNCHANGED <<queueVars, held>>
     \/ /\ count > 0
        /\ Dequeue(c)
        /\ claim' = [claim EXCEPT ![c] = "popped"]
  /\ UNCHANGED <<binding, kaVars, freeVars>>

claim_no_deadline(c) == FALSE /\ claim[c] = "waiting" /\ UNCHANGED vars

(* CLAIM_TIMEOUT passes while the claimer is blocked on cond.              *)
claim_deadline(c) ==
  /\ claim[c] = "waiting"
  /\ claim' = [claim EXCEPT ![c] = "expired"]
  /\ UNCHANGED <<queueVars, held, binding, kaVars, freeVars>>

(* The timed wait returned ETIMEDOUT: fail without looking at count again. *)
claim_give_up(c) ==
  /\ claim[c] = "expired" /\ mu = "free" /\ janitor # "freed"
  /\ claim' = [claim EXCEPT ![c] = "failed"]
  /\ UNCHANGED <<queueVars, held, binding, kaVars, freeVars>>

claim_issue_binding(c) ==
  /\ claim[c] = "popped"
  /\ claim' = [claim EXCEPT ![c] = "issued"]
  /\ binding' = [binding EXCEPT ![held[c]] = "live"]
  /\ UNCHANGED <<queueVars, held, kaVars, freeVars>>

DiscardBinding(s) == binding' = [binding EXCEPT ![s] = "none"]

(* Write 0x02 || binding.  The peer may have gone away at any time; when   *)
(* the write fails, the binding is discarded and the session closed, and   *)
(* no other ready session is tried.                                        *)
claim_activate(c) ==
  /\ claim[c] = "issued"
  /\ \/ /\ claim' = [claim EXCEPT ![c] = "served"]
        /\ sess' = [sess EXCEPT ![held[c]] = "active"]
        /\ UNCHANGED binding
     \/ /\ claim' = [claim EXCEPT ![c] = "failed"]
        /\ sess' = [sess EXCEPT ![held[c]] = "closed"]
        /\ DiscardBinding(held[c])
  /\ UNCHANGED <<ready, count, held, kaVars, freeVars>>

-------------------------------------------------------------------------------
(* stream_keepalive_thread.                                                *)

NeverStops == FALSE
SeesStop == stop

(* Started, or signalled, or done with a sweep: test stop, wait again.     *)
keepalive_wait ==
  /\ ka = "woken" /\ mu = "free"
  /\ ka' = IF SeesStop THEN "exited" ELSE "waiting"
  /\ UNCHANGED <<queueVars, claimVars, cursor, mu, freeVars>>

keepalive_deadline ==
  /\ ka = "waiting"
  /\ ka' = "expired"
  /\ UNCHANGED <<queueVars, claimVars, cursor, mu, freeVars>>

SweepUnlocked == UNCHANGED mu
SweepLock == mu' = "keepalive"

(* Sweep the expired bindings, then write a marker to each ready session.  *)
keepalive_sweep ==
  /\ ka = "expired" /\ mu = "free"
  /\ \/ /\ SeesStop
        /\ ka' = "exited"
        /\ UNCHANGED <<mu, cursor, binding>>
     \/ /\ ~SeesStop
        /\ ka' = "sweeping"
        /\ SweepLock
        /\ cursor' = ready
        /\ binding' = [s \in Session |-> IF binding[s] = "expired" THEN "none" ELSE binding[s]]
  /\ UNCHANGED <<queueVars, claim, held, freeVars>>

(* A failed write is ignored and the session stays where it is.            *)
keepalive_write ==
  /\ ka = "sweeping" /\ cursor # <<>>
  /\ cursor' = Tail(cursor)
  /\ UNCHANGED <<queueVars, claimVars, ka, mu, freeVars>>

keepalive_unlock ==
  /\ ka = "sweeping" /\ cursor = <<>>
  /\ ka' = "woken"
  /\ mu' = "free"
  /\ UNCHANGED <<queueVars, claimVars, cursor, freeVars>>

-------------------------------------------------------------------------------
(* relay_stream_free, called by the janitor under the registry mutex.      *)

free_stop ==
  /\ janitor = "idle" /\ mu = "free"
  /\ janitor' = "stopping"
  /\ stop' = TRUE
  /\ Broadcast
  /\ UNCHANGED <<queueVars, held, binding, cursor, mu>>

CloseReady == sess' = [s \in Session |-> IF s \in Range(ready) THEN "closed" ELSE sess[s]]

(* After pthread_join: close what is queued, destroy and free the stream.  *)
free_sessions ==
  /\ janitor = "stopping" /\ ka = "exited" /\ mu = "free"
  /\ janitor' = "freed"
  /\ CloseReady
  /\ ready' = <<>>
  /\ count' = 0
  /\ UNCHANGED <<claimVars, kaVars, stop>>

(* A thread that looked the stream up before it was freed and uses it      *)
(* afterwards: undefined behaviour, not followed any further.              *)
touch_freed ==
  /\ janitor = "freed"
  /\ \/ \E c \in Claimer :
          /\ claim[c] \in {"resolved", "waiting", "woken", "expired"}
          /\ claim' = [claim EXCEPT ![c] = "undefined"]
          /\ UNCHANGED sess
     \/ \E s \in Session :
          /\ sess[s] = "resolved"
          /\ sess' = [sess EXCEPT ![s] = "undefined"]
          /\ UNCHANGED claim
  /\ UNCHANGED <<ready, count, held, binding, kaVars, freeVars>>

-------------------------------------------------------------------------------
(* Environment: the 300 s of a binding run out.                            *)

binding_expires(s) ==
  /\ binding[s] = "live"
  /\ binding' = [binding EXCEPT ![s] = "expired"]
  /\ UNCHANGED <<queueVars, claim, held, kaVars, freeVars>>

(* The stream is gone and no thread is left inside.                        *)
finished ==
  /\ janitor = "freed"
  /\ \A c \in Claimer : claim[c] \in {"served", "failed", "undefined"}
  /\ \A s \in Session : sess[s] \in {"active", "closed", "undefined"}
  /\ UNCHANGED vars
-------------------------------------------------------------------------------
SdkStep == \E s \in Session : offer_lookup(s) \/ relay_stream_offer(s)

ClaimStep(c) ==
  \/ claim_lookup(c) \/ claim_pop_or_wait(c) \/ claim_deadline(c)
  \/ claim_give_up(c) \/ claim_issue_binding(c) \/ claim_activate(c)

KeepaliveStep ==
  \/ keepalive_wait \/ keepalive_deadline \/ keepalive_sweep
  \/ keepalive_write \/ keepalive_unlock

Next ==
  \/ SdkStep
  \/ \E c \in Claimer : ClaimStep(c)
  \/ KeepaliveStep
  \/ free_stop \/ free_sessions \/ touch_freed
  \/ \E s \in Session : binding_expires(s)
  \/ finished

Spec == Init /\ [][Next]_vars

(* Threads that can run do run.  A claimer that keeps finding mu taken by  *)
(* the sweep gets it in the end: the sweep runs once in 15 seconds and an  *)
(* unlock wakes a blocked locker.  Nobody has to call: SDK connections and *)
(* peers are free to do nothing, and a renewed lease is never freed.       *)
Fairness ==
  /\ \A c \in Claimer : SF_vars(claim_pop_or_wait(c)) /\ SF_vars(claim_give_up(c))
  /\ \A c \in Claimer : WF_vars(claim_deadline(c) \/ claim_issue_binding(c) \/ claim_activate(c))
  /\ WF_vars(KeepaliveStep)
  /\ WF_vars(free_sessions)
  /\ WF_vars(touch_freed)

FairSpec == Spec /\ Fairness

-------------------------------------------------------------------------------
TypeOK ==
  /\ ready \in Seq(Session) /\ count \in 0..READY_LIMIT
  /\ mu \in {"free", "keepalive"} /\ stop \in BOOLEAN
  /\ sess \in [Session -> SessState]
  /\ claim \in [Claimer -> ClaimState]
  /\ held \in [Claimer -> Session \cup {None}]
  /\ ka \in {"waiting", "woken", "expired", "sweeping", "exited"}
  /\ cursor \in Seq(Session)
  /\ janitor \in {"idle", "stopping", "freed"}
  /\ binding \in [Session -> {"none", "live", "expired"}]

(* The list and the counter of relay_stream agree, the list holds each     *)
(* session once, and it holds exactly the sessions that were offered and   *)
(* neither claimed nor closed: relay_stream_offer, relay_stream_claim and  *)
(* relay_stream_free keep ready_head, ready_tail and count together.       *)
QueueConsistent ==
  /\ count = Len(ready)
  /\ IsInjective(ready)
  /\ \A s \in Session : sess[s] = "ready" <=> s \in Range(ready)

(* A popped session belongs to exactly one claimer: no two workers ever    *)
(* bridge two tenant connections onto the same reverse session.            *)
ExclusiveClaim ==
  /\ \A c, d \in Claimer : held[c] = held[d] /\ held[c] # None => c = d
  /\ \A s \in Session : sess[s] \in {"popped", "active"} => \E c \in Claimer : held[c] = s
  /\ \A c \in Claimer : claim[c] \in {"popped", "issued"} =>
       held[c] \in Session /\ sess[held[c]] = "popped"

(* The keepalive sweep only ever writes its marker to sessions that are    *)
(* still queued, so that no 0x00 lands behind the 0x02 of a claim, in the  *)
(* middle of a tenant's TLS stream.                                        *)
MarkerOnlyToReady == \A s \in Range(cursor) : sess[s] = "ready"

(* A binding exists only for a session that some worker is activating or   *)
(* has activated: relay_stream_claim "discard[s] it if the activation      *)
(* frame never reaches a live stream".                                     *)
BindingAccounted ==
  \A s \in Session : binding[s] # "none" =>
    \/ sess[s] = "active"
    \/ \E c \in Claimer : claim[c] = "issued" /\ held[c] = s

(* Freeing the stream leaves no session behind, not even one that was      *)
(* offered after stop was set: its descriptor would never be closed.       *)
DrainComplete == janitor = "freed" => \A s \in Session : sess[s] # "ready"

(* The safety of a stream in server.c, in every interleaving of offers,    *)
(* claims, the keepalive sweep and the janitor: the queue is consistent,   *)
(* claims are exclusive, markers go to queued sessions, bindings are       *)
(* accounted for and freeing leaves nothing behind.                        *)
StreamInv ==
  TypeOK /\ QueueConsistent /\ ExclusiveClaim /\ MarkerOnlyToReady /\ BindingAccounted /\ DrainComplete

(* Every relay_stream_claim call returns.                                  *)
ClaimReturns ==
  \A c \in Claimer :
    claim[c] = "resolved" ~> claim[c] \in {"served", "failed", "undefined"}

(* The janitor, which holds the registry mutex meanwhile, gets through     *)
(* relay_stream_free: the keepalive thread it joins sees stop and exits.   *)
FreeCompletes == janitor = "stopping" ~> janitor = "freed"

-------------------------------------------------------------------------------
(* The stream implements the bounded FIFO of SessionQueue.                 *)
PlaceOf(s) ==
  CASE sess[s] \in {"new", "resolved", "undefined"} -> "outside"
    [] sess[s] = "ready"  -> "queued"
    [] sess[s] = "popped" -> "taken"
    [] sess[s] = "active" -> "serving"
    [] OTHER              -> "closed"

Queue == INSTANCE SessionQueue
           WITH queue <- ready, place <- [s \in Session |-> PlaceOf(s)]

(* Sessions enter at the back while there is room, leave from the front to *)
(* one claim each, and end served or closed: SessionQueue!QSpec.           *)
ImplementsQueue == Queue!QSpec
===============================================================================
