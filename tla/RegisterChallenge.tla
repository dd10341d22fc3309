-------------------------- MODULE RegisterChallenge ---------------------------
(***************************************************************************)
(* The register challenges of src/portal/api_server.c: the store that      *)
(* POST /sdk/register/challenge fills, in memory shared by the API workers *)
(* and guarded by a process-shared mutex, and the part of POST             *)
(* /sdk/register that authenticates, for requests that name a challenge.   *)
(*                                                                         *)
(* /sdk/register takes a snapshot of the entry in one critical section,    *)
(* verifies the signature without the mutex, and consumes the entry in a   *)
(* second one, so it is four steps here.  A challenge stands for its       *)
(* random id; what it says (identity, transports, message) is fixed when   *)
(* it is made.                                                             *)
(***************************************************************************)
EXTENDS Naturals

CONSTANTS Challenge,                  \* challenges
          Request,                    \* POST /sdk/register requests
          MAX_REGISTER_CHALLENGES,    \* slots of the store (512 in the code)
          NoChallenge                 \* a slot that is not in_use

ASSUME StoreAssumption ==
  MAX_REGISTER_CHALLENGES \in Nat \ {0} /\ NoChallenge \notin Challenge

VARIABLES
  slot,      \* the entries
  issued,    \* challenges handed out
  expired,   \* challenges past their expires_at
  evicted,   \* challenges overwritten because the store was full
  req        \* the requests: the challenge each names, the entry its lookup found,
             \* and (the model's own) whether the challenge was then already spent

storeVars == <<slot, issued, expired, evicted, req>>

Slot == 1..MAX_REGISTER_CHALLENGES
IdleRequest == [pc |-> "idle", c |-> NoChallenge, at |-> 0, late |-> FALSE]

StoreInit ==
  /\ slot = [i \in Slot |-> NoChallenge]
  /\ issued = {} /\ expired = {} /\ evicted = {}
  /\ req = [r \in Request |-> IdleRequest]

Find(c) == {i \in Slot : slot[i] = c}
Free == {i \in Slot : slot[i] = NoChallenge}

(* The first free slot, or any slot when none is free.                     *)
Target == IF Free = {} THEN Slot ELSE {i \in Free : \A j \in Free : i <= j}

Put(c, i) == [slot EXCEPT ![i] = c]

store_register_challenge(c) ==
  /\ c \notin issued
  /\ issued' = issued \cup {c}
  /\ \E i \in Target :
       /\ slot' = Put(c, i)
       /\ evicted' = IF Free = {} THEN evicted \cup {slot[i]} ELSE evicted
  /\ UNCHANGED <<expired, req>>

challenge_expires(c) ==
  /\ c \in issued \ expired
  /\ expired' = expired \cup {c}
  /\ UNCHANGED <<slot, issued, evicted, req>>

-------------------------------------------------------------------------------
(* handle_register.                                                        *)

Consumed(c) ==
  \E q \in Request : req[q].c = c /\ req[q].pc \in {"consumed", "registered", "mismatch"}

Found(c) == Find(c) # {} /\ c \notin expired

register_snapshot(r, c) ==
  /\ req[r].pc = "idle" /\ c \in issued
  /\ req' = [req EXCEPT ![r] = [pc |-> IF Found(c) THEN "snapshot" ELSE "not_found", c |-> c,
                                at |-> IF Found(c) THEN CHOOSE i \in Find(c) : TRUE ELSE 0,
                                late |-> Consumed(c) \/ c \in expired]]
  /\ UNCHANGED <<slot, issued, expired, evicted>>

(* Another message, a wrong signature, or a message past its expiry: 400   *)
(* and 403, and the challenge is left as it is.                            *)
verify_siwe(r) ==
  /\ req[r].pc = "snapshot"
  /\ \/ req' = [req EXCEPT ![r].pc = "refused"]
     \/ req[r].c \notin expired /\ req' = [req EXCEPT ![r].pc = "verified"]
  /\ UNCHANGED <<slot, issued, expired, evicted>>

ConsumeNothing(r) == r \in Request /\ UNCHANGED slot
ConsumeAt(r) == slot' = [slot EXCEPT ![req[r].at] = NoChallenge]
Consume(r) == slot' = [i \in Slot |-> IF slot[i] = req[r].c THEN NoChallenge ELSE slot[i]]

(* The entry is looked up again: it may have been overwritten, or consumed *)
(* by another request with the same challenge, and then nothing happens.   *)
consume_challenge(r) ==
  /\ req[r].pc = "verified"
  /\ req' = [req EXCEPT ![r].pc = "consumed"]
  /\ Consume(r)
  /\ UNCHANGED <<issued, expired, evicted>>

(* The transports of the challenge are checked only now: 409 or 400, or    *)
(* the lease is registered.                                                *)
register_lease(r) ==
  /\ req[r].pc = "consumed"
  /\ \E outcome \in {"registered", "mismatch"} : req' = [req EXCEPT ![r].pc = outcome]
  /\ UNCHANGED <<slot, issued, expired, evicted>>

StoreNext ==
  \/ \E c \in Challenge :
       \/ store_register_challenge(c) \/ challenge_expires(c)
       \/ \E r \in Request : register_snapshot(r, c)
  \/ \E r \in Request : verify_siwe(r) \/ consume_challenge(r) \/ register_lease(r)

StoreSpec == StoreInit /\ [][StoreNext]_storeVars

-------------------------------------------------------------------------------
ReqState == {"idle", "not_found", "snapshot", "refused", "verified", "consumed", "registered", "mismatch"}

(* Types of the store and of the requests; a challenge is in one slot.     *)
StoreTypeOK ==
  /\ slot \in [Slot -> Challenge \cup {NoChallenge}]
  /\ \A i, j \in Slot : slot[i] = slot[j] /\ slot[i] # NoChallenge => i = j
  /\ {issued, expired, evicted} \subseteq SUBSET Challenge
  /\ req \in [Request -> [pc: ReqState, c: Challenge \cup {NoChallenge},
                          at: Slot \cup {0}, late: BOOLEAN]]

(* A challenge that was handed out stays in the store until a request that *)
(* proved the identity has consumed it, or a full store overwrote it: a    *)
(* failed attempt does not burn it ("Consume the challenge only after SIWE *)
(* verification"), nor does a request whose own entry has been replaced.   *)
ChallengeKept ==
  StoreTypeOK /\ \A c \in issued : Find(c) # {} \/ c \in evicted \/ Consumed(c)

(* A request that begins after the challenge was consumed, or had expired, *)
(* registers nothing.                                                      *)
ConsumedIsConsumed ==
  \A r \in Request : req[r].late => req[r].pc \in {"not_found", "snapshot", "refused"}
===============================================================================
