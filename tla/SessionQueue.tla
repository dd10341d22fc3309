----------------------------- MODULE SessionQueue -----------------------------
(***************************************************************************)
(* What a relay stream promises to the rest of the relay: a bounded FIFO   *)
(* of reverse sessions.  A session enters at the back if there is room,    *)
(* leaves from the front to exactly one claim, and is then either carried  *)
(* to a tenant connection or closed.  Nothing is said about threads, locks *)
(* or wakeups.  RelayStream implements this specification.                 *)
(***************************************************************************)
EXTENDS Naturals, Sequences

CONSTANTS Session,      \* reverse sessions
          READY_LIMIT   \* capacity of the ready queue

VARIABLES queue,        \* sessions waiting to be claimed, oldest first
          place         \* where each session is

qvars == <<queue, place>>

Place == {"outside", "queued", "taken", "serving", "closed"}

QInit ==
  /\ queue = <<>>
  /\ place = [s \in Session |-> "outside"]

Enter(s) ==
  /\ place[s] = "outside"
  /\ Len(queue) < READY_LIMIT
  /\ queue' = Append(queue, s)
  /\ place' = [place EXCEPT ![s] = "queued"]

Refuse(s) ==
  /\ place[s] = "outside"
  /\ place' = [place EXCEPT ![s] = "closed"]
  /\ UNCHANGED queue

Take ==
  /\ queue # <<>>
  /\ queue' = Tail(queue)
  /\ place' = [place EXCEPT ![Head(queue)] = "taken"]

Serve(s) ==
  /\ place[s] = "taken"
  /\ place' = [place EXCEPT ![s] = "serving"]
  /\ UNCHANGED queue

GiveBack(s) ==
  /\ place[s] = "taken"
  /\ place' = [place EXCEPT ![s] = "closed"]
  /\ UNCHANGED queue

Drain ==
  /\ queue' = <<>>
  /\ place' = [s \in Session |-> IF place[s] = "queued" THEN "closed" ELSE place[s]]

QNext ==
  \/ \E s \in Session : Enter(s) \/ Refuse(s) \/ Serve(s) \/ GiveBack(s)
  \/ Take
  \/ Drain

QSpec == QInit /\ [][QNext]_qvars
===============================================================================
