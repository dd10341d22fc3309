------------------------------- MODULE Listener -------------------------------
(***************************************************************************)
(* One listener of the SDK, src/sdk/listener.c: the run thread that        *)
(* registers a lease and waits, the reverse session threads, the renewal   *)
(* thread, and portillia_listener_close.                                   *)
(*                                                                         *)
(* The relay is up, or down, or answers registrations without a host name. *)
(* A reverse session whose relay went down is lost, which its thread sees  *)
(* when its read returns, if ever.  Of time the model keeps what the code  *)
(* depends on: the renewal is sent renew_before_sec before the lease ends, *)
(* so the access token expires only while a renewal is outstanding or      *)
(* where there is no renewal thread, and from then on the relay answers    *)
(* 404 to it.  Retry budgets change only how long a thread sleeps between  *)
(* two attempts, and are left out.                                         *)
(***************************************************************************)
EXTENDS Naturals

CONSTANT ReadyTarget     \* ready_target, the number of reverse sessions (2)

ASSUME TargetAssumption == ReadyTarget \in Nat \ {0}

VARIABLES
  relay,       \* "up", "down", or "nameless": it answers without a host name
  token,       \* the lease's access token: "none", "valid" or "expired"
  run,         \* where listener_run_thread is
  rev,         \* where each reverse_session_thread is, by its place in reverse_tids
  reverse_count, \* how many of them could be started
  renew,       \* where renew_thread is
  cancelled,   \* the cancelled field
  closer       \* where portillia_listener_close is

listenerVars == <<relay, token, run, rev, reverse_count, renew, cancelled, closer>>

Thread == 1..ReadyTarget

ListenerInit ==
  /\ relay \in {"up", "down", "nameless"}
  /\ token = "none" /\ run = "loop"
  /\ rev = [t \in Thread |-> "none"] /\ reverse_count = 0 /\ renew = "none"
  /\ cancelled = FALSE /\ closer = "idle"

-------------------------------------------------------------------------------
(* listener_run_thread.                                                    *)

run_loop ==
  /\ run = "loop"
  /\ run' = IF cancelled THEN "stopped" ELSE "registering"
  /\ UNCHANGED <<relay, token, rev, reverse_count, renew, cancelled, closer>>

GiveUp == run' = "stopped"
Backoff == run' = IF cancelled THEN "stopped" ELSE "sleeping"

(* Without a host name run_lease asks for another registration, at once,   *)
(* and the lease is cleared.                                               *)
register_and_configure ==
  /\ run = "registering"
  /\ \/ relay = "up" /\ run' = "starting" /\ token' = "valid"
     \/ relay = "nameless" /\ run' = "loop" /\ token' = "none"
     \/ relay = "down" /\ Backoff /\ UNCHANGED token
  /\ UNCHANGED <<relay, rev, reverse_count, renew, cancelled, closer>>

run_sleep ==
  /\ run = "sleeping"
  /\ run' = "loop"
  /\ UNCHANGED <<relay, token, rev, reverse_count, renew, cancelled, closer>>

Start(t) ==
  /\ rev' = [rev EXCEPT ![t] = "loop"]
  /\ reverse_count' = reverse_count + 1

(* run_lease starts its threads one by one, until it is cancelled; it      *)
(* counts those that pthread_create could start ...                        *)
start_reverse(t) ==
  /\ run = "starting" /\ ~cancelled
  /\ rev[t] = "none" /\ \A u \in 1..t - 1 : rev[u] # "none"
  /\ \/ Start(t)
     \/ rev' = [rev EXCEPT ![t] = "failed"] /\ UNCHANGED reverse_count
  /\ UNCHANGED <<relay, token, run, renew, cancelled, closer>>

start_renew ==
  /\ run = "starting" /\ (cancelled \/ \A t \in Thread : rev[t] # "none")
  /\ renew' \in IF cancelled THEN {"none"} ELSE {"none", "loop"}
  /\ run' = "testing"
  /\ UNCHANGED <<relay, token, rev, reverse_count, cancelled, closer>>

WaitForError == run' = "waiting"
WaitTest == run' = IF cancelled THEN "joining" ELSE "waiting"

(* ... and waits: no thread sets run_err, nothing signals run_err_cond.    *)
run_wait ==
  /\ run = "testing"
  /\ WaitTest
  /\ UNCHANGED <<relay, token, rev, reverse_count, renew, cancelled, closer>>

(* pthread_cond_wait may return by itself.                                 *)
spurious_wakeup ==
  /\ run = "waiting"
  /\ run' = "testing"
  /\ UNCHANGED <<relay, token, rev, reverse_count, renew, cancelled, closer>>

(* The first reverse_count places of reverse_tids are joined, whichever    *)
(* threads those are.                                                      *)
JoinReverse == \A t \in 1..reverse_count : rev[t] \in {"exited", "failed"}
ThreadsJoined == JoinReverse /\ renew \in {"none", "exited"}

(* run_lease returns 0 only when it was cancelled.  To join a place that   *)
(* was never filled fails, or is undefined.                                *)
join_threads ==
  /\ run = "joining"
  /\ \/ ThreadsJoined /\ run' = "stopped"
     \/ (\E t \in 1..reverse_count : rev[t] = "failed") /\ run' = "undefined"
  /\ UNCHANGED <<relay, token, rev, reverse_count, renew, cancelled, closer>>

-------------------------------------------------------------------------------
(* reverse_session_thread.                                                 *)

reverse_loop(t) ==
  /\ rev[t] = "loop" /\ closer # "closed"
  /\ rev' = [rev EXCEPT ![t] = IF cancelled THEN "exited" ELSE "opening"]
  /\ UNCHANGED <<relay, token, run, reverse_count, renew, cancelled, closer>>

(* Neither SSL_connect nor the read of the answer has a timeout: the call  *)
(* need not end.                                                           *)
open_reverse_session(t) ==
  /\ rev[t] = "opening" /\ closer # "closed"
  /\ rev' = [rev EXCEPT ![t] = IF relay # "down" /\ token = "valid" THEN "session"
                               ELSE IF cancelled THEN "exited" ELSE "sleeping"]
  /\ UNCHANGED <<relay, token, run, reverse_count, renew, cancelled, closer>>

reverse_sleep(t) ==
  /\ rev[t] = "sleeping" /\ closer # "closed"
  /\ rev' = [rev EXCEPT ![t] = "loop"]
  /\ UNCHANGED <<relay, token, run, reverse_count, renew, cancelled, closer>>

Reopen(t) == rev' = [rev EXCEPT ![t] = "loop"]

(* The session is claimed or hung up, or the thread sees that it is lost;  *)
(* session_read has no timeout either.                                     *)
run_session(t) ==
  /\ rev[t] \in {"session", "lost"} /\ closer # "closed"
  /\ Reopen(t)
  /\ UNCHANGED <<relay, token, run, reverse_count, renew, cancelled, closer>>

(* A thread nobody joined goes on with a listener that is no more.         *)
use_freed(t) ==
  /\ rev[t] \in {"loop", "opening", "sleeping", "session", "lost"} /\ closer = "closed"
  /\ rev' = [rev EXCEPT ![t] = "undefined"]
  /\ UNCHANGED <<relay, token, run, reverse_count, renew, cancelled, closer>>

-------------------------------------------------------------------------------
(* renew_thread.                                                           *)

renew_loop ==
  /\ renew = "loop"
  /\ renew' = IF cancelled THEN "exited" ELSE "sleeping"
  /\ UNCHANGED <<relay, token, run, rev, reverse_count, cancelled, closer>>

renew_due ==
  /\ renew = "sleeping"
  /\ renew' = IF cancelled THEN "exited" ELSE "renewing"
  /\ UNCHANGED <<relay, token, run, rev, reverse_count, cancelled, closer>>

portillia_api_renew_lease ==
  /\ renew = "renewing"
  /\ renew' = IF relay # "down" /\ token = "valid" THEN "loop" ELSE "retrying"
  /\ UNCHANGED <<relay, token, run, rev, reverse_count, cancelled, closer>>

renew_retry ==
  /\ renew = "retrying"
  /\ renew' = IF cancelled THEN "exited" ELSE "renewing"
  /\ UNCHANGED <<relay, token, run, rev, reverse_count, cancelled, closer>>

-------------------------------------------------------------------------------
portillia_listener_close ==
  /\ closer = "idle"
  /\ closer' = "joining"
  /\ cancelled' = TRUE
  /\ UNCHANGED <<relay, token, run, rev, reverse_count, renew>>

(* After pthread_join: clear_lease, destroy the stream and the rest.       *)
close_free ==
  /\ closer = "joining" /\ run = "stopped"
  /\ closer' = "closed"
  /\ token' = "none"
  /\ UNCHANGED <<relay, run, rev, reverse_count, renew, cancelled>>

Lost(r) == [t \in Thread |-> IF r = "down" /\ rev[t] = "session" THEN "lost" ELSE rev[t]]

relay_changes ==
  /\ \E r \in {"up", "down", "nameless"} \ {relay} : relay' = r /\ rev' = Lost(r)
  /\ UNCHANGED <<token, run, reverse_count, renew, cancelled, closer>>

token_expires ==
  /\ token = "valid"
  /\ \/ renew \in {"renewing", "retrying"} /\ relay = "down"
     \/ renew = "none" /\ run \in {"testing", "waiting"}
  /\ token' = "expired"
  /\ UNCHANGED <<relay, run, rev, reverse_count, renew, cancelled, closer>>

RunStep == run_loop \/ register_and_configure \/ run_sleep \/ start_renew \/ run_wait
           \/ join_threads \/ \E t \in Thread : start_reverse(t)
ReverseStep(t) == reverse_loop(t) \/ reverse_sleep(t)
SessionCall(t) == open_reverse_session(t) \/ run_session(t)
RenewStep == renew_loop \/ renew_due \/ portillia_api_renew_lease \/ renew_retry

ListenerNext ==
  \/ RunStep \/ spurious_wakeup \/ RenewStep
  \/ \E t \in Thread : ReverseStep(t) \/ SessionCall(t) \/ use_freed(t)
  \/ portillia_listener_close \/ close_free
  \/ relay_changes \/ token_expires

ListenerSpec == ListenerInit /\ [][ListenerNext]_listenerVars

(* Threads run, sleeps end, and the calls of the API client end by their   *)
(* timeouts.  A reverse session's calls need not end (SessionCall), nobody *)
(* has to close the listener, the relay need not come back, and a          *)
(* condition variable need not wake by itself.                             *)
FairListenerSpec ==
  /\ ListenerSpec
  /\ WF_listenerVars(RunStep) /\ WF_listenerVars(RenewStep) /\ WF_listenerVars(close_free)
  /\ \A t \in Thread : WF_listenerVars(ReverseStep(t))

-------------------------------------------------------------------------------
RunState == {"loop", "registering", "sleeping", "starting", "testing", "waiting", "joining", "stopped",
             "undefined"}
ReverseState == {"none", "failed", "loop", "opening", "sleeping", "session", "lost", "exited", "undefined"}

ListenerTypeOK ==
  /\ relay \in {"up", "down", "nameless"} /\ cancelled \in BOOLEAN
  /\ token \in {"none", "valid", "expired"}
  /\ run \in RunState
  /\ rev \in [Thread -> ReverseState]
  /\ reverse_count \in 0..ReadyTarget
  /\ renew \in {"none", "loop", "sleeping", "renewing", "retrying", "exited"}
  /\ closer \in {"idle", "joining", "closed"}

(* reverse_tids has a place that could not be filled before one that could. *)
Gap == \E t, u \in Thread : t < u /\ rev[t] = "failed" /\ rev[u] \notin {"none", "failed"}

(* When portillia_listener_close frees the stream client, the lease and    *)
(* the listener itself, none of the threads that use them is left, even if *)
(* the last of them could not be started.  The exception is a thread that  *)
(* could not be started before one that could: run_lease counts threads    *)
(* and joins places, and so leaves a thread behind.                        *)
FreedAfterThreads ==
  closer = "closed" =>
    /\ run = "stopped" /\ renew \in {"none", "exited"}
    /\ \A t \in Thread : rev[t] \in {"none", "failed", "exited"} \/ Gap

(* Registration is retried "in the background until each relay becomes     *)
(* ready", and each reverse session that is claimed or lost is opened      *)
(* again, once the relay stays there and as long as the lease has not run  *)
(* out; if the thread's calls return, which no timeout makes them do.      *)
SessionsReopen ==
  \A t \in Thread :
    /\ []<>(rev[t] \notin {"opening", "lost"})
    /\ <>[](relay = "up" /\ token # "expired" /\ ~cancelled /\ rev[t] # "failed")
    => []<>(rev[t] = "session")

(* A close that finds the listener still trying to register returns.       *)
CloseDuringStartup ==
  closer = "joining" /\ run \in {"loop", "registering", "sleeping"} ~> closer = "closed"

(* run_lease waits "for error from any thread or cancellation": a close    *)
(* that finds it waiting ends the wait.                                    *)
CloseEndsWait == closer = "joining" /\ run = "waiting" ~> run # "waiting"

===============================================================================
