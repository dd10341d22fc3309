----------------------------- MODULE ProxyBridge ------------------------------
(***************************************************************************)
(* One bridge of src/portal/proxy.c between a browser connection (Client)  *)
(* and a reverse session (Target): a thread that starts two copiers, one   *)
(* per direction, joins them and closes.  With tls, the target is an       *)
(* OpenSSL object and the copiers are ssl_copy_fd_to_ssl and               *)
(* ssl_copy_ssl_to_fd; without, they are two copy_thread.                  *)
(*                                                                         *)
(* Data is counted in chunks.  A peer may send, end its sending side, and  *)
(* vanish (reset).  Throttling and telemetry totals only take time.        *)
(***************************************************************************)
EXTENDS Integers

CONSTANT MaxChunks     \* bound on the chunks each peer sends

ASSUME BridgeAssumption == MaxChunks \in Nat

Peer == {"client", "target"}
Other(p) == IF p = "client" THEN "target" ELSE "client"

VARIABLES
  tls,       \* which bridge this is: the target is an SSL object
  out,       \* chunks a peer has sent
  fin,       \* a peer has ended its sending side
  reset,     \* a peer has vanished
  rd,        \* chunks the relay has read from a peer
  wr,        \* chunks the relay has written to a peer
  shutWr,    \* the relay has ended its side towards a peer: the peer sees EOF
  shutRd,    \* the relay has given up reading from a peer
  copier,    \* the copier that reads from a peer
  broken,    \* a copier stopped because it could not write
  active,    \* global_active_conns
  fd         \* the relay's descriptors

peerVars == <<tls, out, fin, reset>>
bridgeVars == <<peerVars, rd, wr, shutWr, shutRd, copier, broken, active, fd>>

BridgeInit ==
  /\ tls \in BOOLEAN
  /\ out = [p \in Peer |-> 0] /\ rd = out /\ wr = out
  /\ fin = [p \in Peer |-> FALSE] /\ reset = fin
  /\ shutWr = fin /\ shutRd = fin /\ broken = fin
  /\ copier = [p \in Peer |-> "new"]
  /\ active = 0
  /\ fd = [p \in Peer |-> "open"]

-------------------------------------------------------------------------------
(* pthread_create in the bridge thread; it may fail (ssl_bridge_thread_func *)
(* ignores the result and is modelled with threads that start).            *)
start(p) ==
  /\ copier[p] = "new" /\ (p = "target" => copier["client"] # "new")
  /\ \/ /\ copier' = [copier EXCEPT ![p] = "reading"]
        /\ active' = IF tls THEN active ELSE active + 1
     \/ /\ ~tls
        /\ copier' = [copier EXCEPT ![p] = "absent"]
        /\ UNCHANGED active
  /\ UNCHANGED <<peerVars, rd, wr, shutWr, shutRd, broken, fd>>

AtEnd(p) == reset[p] \/ shutRd[p] \/ (fin[p] /\ rd[p] = out[p])

copy_read(p) ==
  /\ copier[p] = "reading"
  /\ \/ /\ AtEnd(p)
        /\ copier' = [copier EXCEPT ![p] = "ending"]
        /\ UNCHANGED rd
     \/ /\ ~AtEnd(p) /\ rd[p] < out[p]
        /\ rd' = [rd EXCEPT ![p] = @ + 1]
        /\ copier' = [copier EXCEPT ![p] = "writing"]
  /\ UNCHANGED <<peerVars, wr, shutWr, shutRd, broken, active, fd>>

copy_write(p) ==
  LET q == Other(p)
  IN  /\ copier[p] = "writing"
      /\ \/ /\ ~reset[q] /\ ~shutWr[q]
            /\ wr' = [wr EXCEPT ![q] = @ + 1]
            /\ copier' = [copier EXCEPT ![p] = "reading"]
            /\ UNCHANGED broken
         \/ /\ reset[q] \/ shutWr[q]
            /\ copier' = [copier EXCEPT ![p] = "ending"]
            /\ broken' = [broken EXCEPT ![p] = TRUE]
            /\ UNCHANGED wr
      /\ UNCHANGED <<peerVars, rd, shutWr, shutRd, active, fd>>

(* What a copier that reads from p shuts down when it ends.                *)
WholeSource(p) ==
  /\ shutWr' = [shutWr EXCEPT ![p] = TRUE]
  /\ shutRd' = [shutRd EXCEPT ![p] = TRUE]
NoEofOnward(p) ==
  /\ shutRd' = [shutRd EXCEPT ![p] = TRUE]
  /\ UNCHANGED shutWr
PlainShutdown(p) ==
  /\ shutWr' = [shutWr EXCEPT ![Other(p)] = TRUE]
  /\ shutRd' = [shutRd EXCEPT ![p] = TRUE]
(* Only the client's descriptor is shut down, not the SSL object.          *)
TlsShutdown(p) ==
  /\ shutWr' = [shutWr EXCEPT !["client"] = @ \/ p = "target"]
  /\ shutRd' = [shutRd EXCEPT !["client"] = @ \/ p = "client"]
Shutdown(p) == IF tls THEN TlsShutdown(p) ELSE PlainShutdown(p)

Decrement == active' = IF tls THEN active ELSE active - 1

copy_end(p) ==
  /\ copier[p] = "ending"
  /\ copier' = [copier EXCEPT ![p] = "done"]
  /\ Decrement
  /\ Shutdown(p)
  /\ UNCHANGED <<peerVars, rd, wr, broken, fd>>

JoinedOne == \E p \in Peer : copier[p] = "done"
Joined == \A p \in Peer : copier[p] \in {"done", "absent"}

(* The bridge thread: join what was started, then close.  SSL_free leaves  *)
(* the descriptor under the SSL object alone.                              *)
bridge_close ==
  /\ fd["client"] = "open"
  /\ Joined
  /\ fd' = [fd EXCEPT !["client"] = "closed", !["target"] = IF tls THEN "orphaned" ELSE "closed"]
  /\ shutWr' = [p \in Peer |-> TRUE]
  /\ UNCHANGED <<peerVars, rd, wr, shutRd, copier, broken, active>>

-------------------------------------------------------------------------------
(* The peers.                                                              *)

send(p) ==
  /\ out[p] < MaxChunks /\ ~fin[p] /\ ~reset[p]
  /\ out' = [out EXCEPT ![p] = @ + 1]
  /\ UNCHANGED <<tls, fin, reset, rd, wr, shutWr, shutRd, copier, broken, active, fd>>

end(p) ==
  /\ ~fin[p]
  /\ fin' = [fin EXCEPT ![p] = TRUE]
  /\ UNCHANGED <<tls, out, reset, rd, wr, shutWr, shutRd, copier, broken, active, fd>>

vanish(p) ==
  /\ ~reset[p]
  /\ reset' = [reset EXCEPT ![p] = TRUE]
  /\ UNCHANGED <<tls, out, fin, rd, wr, shutWr, shutRd, copier, broken, active, fd>>

(* A peer that has seen the end of the other side finishes its own.        *)
answer_eof(p) == shutWr[p] /\ end(p)

Copier(p) == start(p) \/ copy_read(p) \/ copy_write(p) \/ copy_end(p)

BridgeNext ==
  \/ \E p \in Peer : Copier(p) \/ send(p) \/ end(p) \/ vanish(p)
  \/ bridge_close

BridgeSpec == BridgeInit /\ [][BridgeNext]_bridgeVars

(* The threads run; a peer answers an end of stream with its own, as HTTP  *)
(* and TLS endpoints do.                                                   *)
FairBridgeSpec ==
  /\ BridgeSpec /\ WF_bridgeVars(bridge_close)
  /\ \A p \in Peer : WF_bridgeVars(Copier(p)) /\ WF_bridgeVars(answer_eof(p))

-------------------------------------------------------------------------------
BridgeTypeOK ==
  /\ tls \in BOOLEAN
  /\ {out, rd, wr} \subseteq [Peer -> 0..MaxChunks]
  /\ {fin, reset, shutWr, shutRd, broken} \subseteq [Peer -> BOOLEAN]
  /\ copier \in [Peer -> {"new", "reading", "writing", "ending", "done", "absent"}]
  /\ active \in 0..2
  /\ fd \in [Peer -> {"open", "closed", "orphaned"}]

(* global_active_conns is back to what it was when a bridge is done,       *)
(* whichever copiers could be started and however they ended.              *)
ConnsBalanced == fd["client"] = "closed" => active = 0

(* No descriptor is closed under a copier that may still use it: another   *)
(* connection could have been given the same number.                       *)
NoUseAfterClose ==
  \A p \in Peer : copier[p] \in {"reading", "writing", "ending"} => \A q \in Peer : fd[q] = "open"

(* However the two copiers of a bridge end, or fail to start, proxy.c      *)
(* closes no descriptor under one and counts the connection once.          *)
BridgeInv == BridgeTypeOK /\ ConnsBalanced /\ NoUseAfterClose

(* The end of one direction does not cut the other short: a peer sees the  *)
(* end of the stream only after every chunk the other one sent, unless a   *)
(* connection broke or a copier could not be started.                      *)
NothingCut ==
  \A p \in Peer : LET q == Other(p) IN
    shutWr[q] /\ ~reset[p] /\ ~reset[q] /\ copier[p] # "absent" /\ ~broken[p] =>
      wr[q] = out[p]

(* The end of the target's stream ends the bridge, and so does the end of  *)
(* the client's stream if the bridge is a plain one, where copy_thread     *)
(* passes it on with shutdown(dst, SHUT_WR).                               *)
EndCloses ==
  \A p \in Peer :
    fin[p] /\ (p = "target" \/ ~tls)
      ~> (fd["client"] = "closed" \/ \E q \in Peer : copier[q] = "absent")
===============================================================================
