------------------------------ MODULE MCExposure ------------------------------
(***************************************************************************)
(* Exposure with a bound on what applications and relays do: calls that    *)
(* change the relays, calls of accept, connections, the close, and threads *)
(* that cannot be started.                                                 *)
(***************************************************************************)
EXTENDS Exposure

CONSTANTS
  MaxInput,              \* a budget for the inputs
  CallCost, CloseCost,   \* what a call that changes the relays and what the close takes of it
  TrafficCost,           \* likewise an accept or a connection
  FaultCost              \* and a listener or an accept thread that cannot be made

VARIABLE input

(* With a discovery thread only calls are made.                            *)
Quiet == th[Discovery].pc = "exited"

Unstarted == {u \in Url : lst[u].pc = "unstarted"}
Faults == Cardinality(unmade \cup Unstarted)
NewFaults == Cardinality((unmade' \ unmade) \cup (Unstarted' \ Unstarted))

MCInit == Init /\ input = FaultCost * Faults /\ input <= MaxInput

MCNext ==
  \/ Call /\ input + CallCost <= MaxInput /\ input' = input + CallCost
  \/ Traffic /\ Quiet /\ input + TrafficCost <= MaxInput /\ input' = input + TrafficCost
  \/ close_cancel /\ input + CloseCost <= MaxInput /\ input' = input + CloseCost
  \/ Inner /\ input' = input + FaultCost * NewFaults /\ (NewFaults = 0 \/ input' <= MaxInput)

MCSpec == MCInit /\ [][MCNext]_<<vars, input>> /\ Fairness

MCUrl == {1, 2}
MCLoad == [u \in MCUrl |-> 3 - u]
MCPath == {<<>>, <<1, 2>>}
===============================================================================
