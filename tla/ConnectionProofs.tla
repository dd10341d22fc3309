--------------------------- MODULE ConnectionProofs ---------------------------
(***************************************************************************)
(* The safety of a claimed connection: its keyless binding, for any number *)
(* of bindings, leases, requests and ClientHello chunks, and its bridge,   *)
(* for streams of any length.                                              *)
(*                                                                         *)
(* Once a request has spent a binding, the entry is gone and, its          *)
(* connection being past the claim, is never minted again.  An entry is    *)
(* pinned to the routed ClientHello or to none, and is pinned as soon as   *)
(* the last chunk may be on its way; where bytes come behind the hello, or *)
(* its capture is undefined, nothing is claimed of the pin.                *)
(***************************************************************************)
EXTENDS KeylessSign, ProxyBridge, TLAPS

(* Requests name connections that are past the claim, and have a status    *)
(* once they have consulted the registry; a spent binding has no entry.    *)
RequestsConsistent ==
  \A r \in Request :
    /\ req[r].pc = "new" <=> req[r].b = None
    /\ req[r].pc \in {"new", "sent"} => req[r].status = "none"
    /\ req[r].b # None => req[r].b \in Binding /\ conn[req[r].b] \notin {"idle", "issued"}
    /\ req[r].status = "OK" => req[r].b \in Binding /\ req[r].b \notin live
    /\ req[r].seen => req[r].b \in Binding /\ sent[req[r].b] = chunks[req[r].b]

(* Entries are pinned to the routed ClientHello, in time, when nothing     *)
(* comes behind its record.                                                *)
PinsConsistent ==
  \A b \in Binding :
    /\ pin[b] \in {None, route[b], Garbled}
    /\ alone[b] => pin[b] # Garbled
    /\ alone[b] /\ sent[b] = chunks[b] => pin[b] = route[b]
    /\ conn[b] = "writing" => sent[b] < chunks[b]
    /\ alone[b] /\ conn[b] = "writing" /\ sent[b] + 1 = chunks[b] => pin[b] = route[b]

IInv ==
  /\ TypeOK /\ SingleUse /\ SignedOnlyRouted /\ PinnedBeforeDelivered
  /\ RequestsConsistent /\ PinsConsistent

(* An empty registry, no connection and no request.                        *)
LEMMA InitInv == Init => IInv
<1> SUFFICES ASSUME Init PROVE IInv
  OBVIOUS
<1>a. sweeper \in BOOLEAN
  BY Zenon DEF Init
<1>b. NoRequest \in RequestType
  BY DEF NoRequest, RequestType, ReqState, Status
<1>1. TypeOK
  BY <1>a, <1>b, ChunksAssumption DEF Init, TypeOK
<1>2. \A r \in Request : req[r] = NoRequest
  BY DEF Init
<1>3. SingleUse /\ SignedOnlyRouted
  BY <1>2 DEF NoRequest, SingleUse, SignedOnlyRouted
<1>6. PinnedBeforeDelivered
  BY <1>2 DEF Init, NoRequest, PinnedBeforeDelivered
<1>4. RequestsConsistent
  BY <1>2 DEF NoRequest, RequestsConsistent
<1>7. \A b \in Binding : chunks[b] \in Nat \ {0} /\ sent[b] = 0 /\ pin[b] = None /\ conn[b] = "idle"
  BY ChunksAssumption DEF Init
<1>5. PinsConsistent
  BY <1>7, NoHello DEF PinsConsistent
<1> QED BY <1>1, <1>3, <1>4, <1>5, <1>6 DEF IInv

(* relay_stream_claim mints a binding for a connection that has none yet.  *)
LEMMA IssueInv ==
  ASSUME IInv, NEW b \in Binding, NEW l \in Lease, claim_issue(b, l)
  PROVE  IInv'
<1>0. /\ conn[b] = "idle" /\ conn' = [conn EXCEPT ![b] = "issued"]
      /\ live' = live \cup {b} /\ lease' = [lease EXCEPT ![b] = l]
      /\ UNCHANGED <<pin, expired, route, chunks, alone, sent, req, sweeper>>
  BY DEF claim_issue, portillia_bindings_issue
<1>a. \A r \in Request : req[r].b # b
  BY <1>0, NoBinding DEF IInv, RequestsConsistent
<1>1. TypeOK' BY <1>0 DEF IInv, TypeOK
<1>2. SingleUse' BY <1>0 DEF IInv, SingleUse
<1>3. SignedOnlyRouted'
  BY <1>0, <1>a DEF IInv, TypeOK, SignedOnlyRouted, RequestsConsistent
<1>4. PinnedBeforeDelivered' BY <1>0 DEF IInv, PinnedBeforeDelivered
<1>5. RequestsConsistent' BY <1>0, <1>a DEF IInv, TypeOK, RequestsConsistent
<1>6. PinsConsistent' BY <1>0 DEF IInv, TypeOK, PinsConsistent
<1> QED BY <1>1, <1>2, <1>3, <1>4, <1>5, <1>6 DEF IInv

(* The activation frame reaches the tenant, or the binding is discarded.   *)
LEMMA ActivateInv ==
  ASSUME IInv, NEW b \in Binding, claim_activate(b)
  PROVE  IInv'
<1>0. /\ conn[b] = "issued" /\ live' \subseteq live
      /\ \E k \in {"reading", "ended"} : conn' = [conn EXCEPT ![b] = k]
      /\ UNCHANGED <<lease, pin, expired, route, chunks, alone, sent, req, sweeper>>
  BY DEF claim_activate, portillia_bindings_discard
<1>1. TypeOK' BY <1>0 DEF IInv, TypeOK
<1>2. SingleUse' /\ SignedOnlyRouted' /\ PinnedBeforeDelivered'
  BY <1>0 DEF IInv, SingleUse, SignedOnlyRouted, PinnedBeforeDelivered
<1>3. RequestsConsistent' BY <1>0 DEF IInv, TypeOK, RequestsConsistent
<1>4. PinsConsistent' BY <1>0 DEF IInv, TypeOK, PinsConsistent
<1> QED BY <1>1, <1>2, <1>3, <1>4 DEF IInv

(* A chunk of the ClientHello is previewed before it is written on.        *)
LEMMA CaptureInv ==
  ASSUME IInv, NEW b \in Binding, capture_on_write(b)
  PROVE  IInv'
<1>0. /\ conn[b] = "reading" /\ sent[b] < chunks[b]
      /\ UNCHANGED <<live, lease, expired, route, chunks, alone, sent, req, sweeper>>
      /\ \/ conn' = [conn EXCEPT ![b] = "ended"] /\ pin' = pin
         \/ sent[b] > 0 /\ conn' = [conn EXCEPT ![b] = "undefined"] /\ pin' = pin
         \/ /\ sent[b] + 1 < chunks[b] \/ ~alone[b]
            /\ conn' = [conn EXCEPT ![b] = "writing"] /\ pin' = pin
         \/ conn' = [conn EXCEPT ![b] = "writing"] /\ PinHello(b)
  BY Zenon DEF capture_on_write
<1>p. PinHello(b) => \/ pin' = [pin EXCEPT ![b] = route[b]]
                     \/ ~alone[b] /\ pin' = [pin EXCEPT ![b] = Garbled]
  BY Zenon DEF PinHello
<1>t. /\ pin \in [Binding -> Hello \cup {None, Garbled}] /\ route[b] \in Hello
      /\ alone \in [Binding -> BOOLEAN]
  BY Zenon DEF IInv, TypeOK
<1>a. /\ conn' \in [Binding -> {"idle", "issued", "reading", "writing", "ended", "undefined"}]
      /\ conn'[b] \in {"writing", "ended", "undefined"}
      /\ \A a \in Binding : a # b => conn'[a] = conn[a]
  BY <1>0 DEF IInv, TypeOK
<1>u. conn'[b] = "undefined" => sent[b] > 0
  BY <1>0 DEF IInv, TypeOK
<1>b. /\ pin' \in [Binding -> Hello \cup {None, Garbled}]
      /\ \A a \in Binding : a # b => pin'[a] = pin[a]
  BY <1>0, <1>p, <1>t
<1>c. /\ pin'[b] \in {pin[b], route[b], Garbled}
      /\ alone[b] => pin'[b] \in {pin[b], route[b]}
  BY <1>0, <1>p DEF IInv, TypeOK
<1>d. sent[b] \in Nat /\ chunks[b] \in Nat
  BY ChunksAssumption DEF IInv, TypeOK
<1>e. alone[b] /\ conn'[b] = "writing" /\ sent[b] + 1 = chunks[b] => pin'[b] = route[b]
  BY <1>0, <1>p, <1>d DEF IInv, TypeOK
<1>1. TypeOK'
  <2>1. alone' \in [Binding -> BOOLEAN] /\ sweeper' \in BOOLEAN
    BY <1>0, Zenon DEF IInv, TypeOK
  <2> QED BY <1>0, <1>a, <1>b, <2>1 DEF IInv, TypeOK
<1>2. SingleUse' /\ SignedOnlyRouted'
  BY <1>0 DEF IInv, SingleUse, SignedOnlyRouted
<1>3. PinnedBeforeDelivered'
  BY <1>0, <1>a, <1>u, <1>d DEF IInv, PinnedBeforeDelivered
<1>4. RequestsConsistent' BY <1>0, <1>a DEF IInv, TypeOK, RequestsConsistent
<1>5. PinsConsistent'
  <2>1. ASSUME NEW a \in Binding, a # b
        PROVE  /\ pin'[a] = pin[a] /\ conn'[a] = conn[a]
    BY <2>1, <1>a, <1>b
  <2>2. /\ pin[b] \in {None, route[b], Garbled} /\ (alone[b] => pin[b] # Garbled)
    BY DEF IInv, PinsConsistent
  <2>3. Garbled # route[b]
    BY NoHello, <1>t
  <2> QED BY <1>0, <1>c, <1>d, <1>e, <2>1, <2>2, <2>3 DEF IInv, PinsConsistent
<1> QED BY <1>1, <1>2, <1>3, <1>4, <1>5 DEF IInv

(* The chunk is written to the tenant, or the write fails.                 *)
LEMMA WriteInv ==
  ASSUME IInv, NEW b \in Binding, write_chunk(b)
  PROVE  IInv'
<1>0. /\ conn[b] = "writing"
      /\ UNCHANGED <<live, lease, pin, expired, route, chunks, alone, req, sweeper>>
      /\ \/ conn' = [conn EXCEPT ![b] = "reading"] /\ sent' = [sent EXCEPT ![b] = sent[b] + 1]
         \/ conn' = [conn EXCEPT ![b] = "ended"] /\ sent' = sent
  BY DEF write_chunk
<1>a. /\ conn' \in [Binding -> {"idle", "issued", "reading", "writing", "ended", "undefined"}]
      /\ conn'[b] \in {"reading", "ended"}
      /\ \A a \in Binding : a # b => conn'[a] = conn[a]
  BY <1>0 DEF IInv, TypeOK
<1>b. sent[b] \in 0..HELLO_CHUNKS /\ sent[b] < chunks[b] /\ chunks[b] \in 1..HELLO_CHUNKS
  BY <1>0 DEF IInv, TypeOK, PinsConsistent
<1>c. /\ sent' \in [Binding -> 0..HELLO_CHUNKS]
      /\ sent'[b] = sent[b] \/ sent'[b] = sent[b] + 1
      /\ \A a \in Binding : a # b => sent'[a] = sent[a]
  BY <1>0, <1>b, ChunksAssumption DEF IInv, TypeOK
<1>1. TypeOK' BY <1>0, <1>a, <1>c DEF IInv, TypeOK
<1>2. SingleUse' /\ SignedOnlyRouted'
  BY <1>0 DEF IInv, SingleUse, SignedOnlyRouted
<1>5. PinnedBeforeDelivered'
  BY <1>0, <1>a, <1>c DEF IInv, PinnedBeforeDelivered
<1>3. RequestsConsistent' BY <1>0, <1>a, <1>b, <1>c DEF IInv, TypeOK, RequestsConsistent
<1>4. PinsConsistent' BY <1>0, <1>a, <1>b, <1>c DEF IInv, TypeOK, PinsConsistent
<1> QED BY <1>1, <1>2, <1>3, <1>4, <1>5 DEF IInv

(* POST /v1/sign arrives.                                                  *)
LEMMA SendInv ==
  ASSUME IInv, NEW r \in Request, NEW b \in Binding, NEW l \in Lease, NEW h \in Hello,
         send_sign(r, b, l, h)
  PROVE  IInv'
<1> DEFINE q == [pc |-> "sent", b |-> b, l |-> l, h |-> h, seen |-> sent[b] = chunks[b], status |-> "none"]
<1>0. /\ conn[b] \notin {"idle", "issued"} /\ req' = [req EXCEPT ![r] = q]
      /\ UNCHANGED <<live, lease, pin, expired, conn, route, chunks, alone, sent, sweeper>>
  BY DEF send_sign
<1>a. q \in RequestType
  <2>1. (sent[b] = chunks[b]) \in BOOLEAN
    BY Zenon
  <2> QED BY <2>1 DEF RequestType, ReqState, Status
<1>b. /\ q.pc = "sent" /\ q.b = b /\ q.status = "none" /\ (q.seen => sent[b] = chunks[b])
  BY Zenon
<1> HIDE DEF q
<1>c. /\ req' \in [Request -> RequestType] /\ req'[r] = q
      /\ \A p \in Request : p # r => req'[p] = req[p]
  BY <1>0, <1>a DEF IInv, TypeOK
<1>1. TypeOK' BY <1>0, <1>c DEF IInv, TypeOK
<1>2. SingleUse' BY <1>b, <1>c DEF IInv, SingleUse
<1>3. SignedOnlyRouted' BY <1>0, <1>b, <1>c DEF IInv, SignedOnlyRouted
<1>4. PinnedBeforeDelivered' BY <1>0, <1>b, <1>c DEF IInv, PinnedBeforeDelivered
<1>5. RequestsConsistent' BY <1>0, <1>b, <1>c, NoBinding DEF IInv, RequestsConsistent
<1>6. PinsConsistent' BY <1>0 DEF IInv, PinsConsistent
<1> QED BY <1>1, <1>2, <1>3, <1>4, <1>5, <1>6 DEF IInv

(* What each answer of portillia_bindings_validate_and_consume says.       *)
LEMMA ValidateFacts ==
  ASSUME NEW b, NEW l, NEW h
  PROVE  LET status == Validate(b, l, h) IN
         /\ status \in Status \ {"none"}
         /\ status = "OK" => b \in live /\ lease[b] = l /\ pin[b] # None /\ pin[b] = h
         /\ status = "NEVER_FIXED" => pin[b] = None
         /\ status = "HELLO_MISMATCH" => pin[b] # None /\ pin[b] # h
BY DEF Validate, Status

(* The registry is consulted, and the entry spent in the same critical     *)
(* section when it validates.                                              *)
LEMMA ConsumeInv ==
  ASSUME IInv, NEW r \in Request, portillia_bindings_validate_and_consume(r)
  PROVE  IInv'
<1> DEFINE b == req[r].b
           status == Validate(req[r].b, req[r].l, req[r].h)
           q == [req[r] EXCEPT !.status = status, !.pc = IF status = "OK" THEN "spent" ELSE "refused"]
<1>r. req' = [req EXCEPT ![r].status = status, ![r].pc = IF status = "OK" THEN "spent" ELSE "refused"]
  BY DEF portillia_bindings_validate_and_consume
<1>0. /\ req[r].pc = "sent"
      /\ live' = IF status = "OK" THEN live \ {b} ELSE live
      /\ UNCHANGED <<lease, pin, expired, conn, route, chunks, alone, sent, sweeper>>
  BY DEF portillia_bindings_validate_and_consume, Consume
<1>a. /\ req[r] \in RequestType /\ b \in Binding /\ b # None
      /\ conn[b] \notin {"idle", "issued"} /\ (req[r].seen => sent[b] = chunks[b])
  BY <1>0, NoBinding DEF IInv, TypeOK, RequestsConsistent
<1>b. /\ status \in Status \ {"none"}
      /\ status = "OK" => b \in live /\ lease[b] = req[r].l /\ pin[b] # None /\ pin[b] = req[r].h
      /\ status = "NEVER_FIXED" => pin[b] = None
      /\ status = "HELLO_MISMATCH" => pin[b] # None /\ pin[b] # req[r].h
  BY ValidateFacts
<1> HIDE DEF status
<1>c. /\ q \in RequestType /\ q.b = b /\ q.l = req[r].l /\ q.h = req[r].h /\ q.seen = req[r].seen
      /\ q.status = status /\ q.pc \in {"spent", "refused"}
  BY <1>a, <1>b, Zenon DEF RequestType, ReqState, Status
<1>h. b = req[r].b
  OBVIOUS
<1>i. req' = [req EXCEPT ![r] = q]
  BY <1>r, Zenon DEF IInv, TypeOK
<1> HIDE DEF q, b
<1>d. /\ req' \in [Request -> RequestType] /\ req'[r] = q
      /\ \A p \in Request : p # r => req'[p] = req[p]
  BY <1>0, <1>c, <1>i DEF IInv, TypeOK
<1>e. /\ pin[b] \in {None, route[b], Garbled} /\ req[r].h # Garbled /\ route[b] # None
      /\ alone[b] /\ sent[b] = chunks[b] => pin[b] = route[b]
  <2>1. req[r].h \in Hello \cup {None} /\ route[b] \in Hello
    BY <1>a, Zenon DEF IInv, TypeOK, RequestType
  <2>2. /\ pin[b] \in {None, route[b], Garbled}
        /\ alone[b] /\ sent[b] = chunks[b] => pin[b] = route[b]
    BY <1>a, Zenon DEF IInv, PinsConsistent
  <2> QED BY <2>1, <2>2, NoHello
<1>1. TypeOK' BY <1>0, <1>d DEF IInv, TypeOK
<1>2. SingleUse'
  <2>1. ASSUME NEW p \in Request, p # r, req[p].status = "OK", req[p].b = b PROVE status # "OK"
    BY <2>1, <1>b DEF IInv, RequestsConsistent
  <2> QED BY <2>1, <1>c, <1>d DEF IInv, SingleUse
<1>3. SignedOnlyRouted'
  BY <1>0, <1>b, <1>c, <1>d, <1>e DEF IInv, SignedOnlyRouted
<1>4. PinnedBeforeDelivered'
  BY <1>0, <1>a, <1>b, <1>c, <1>d, <1>e DEF IInv, PinnedBeforeDelivered
<1>5. RequestsConsistent'
  BY <1>0, <1>a, <1>b, <1>c, <1>d DEF IInv, RequestsConsistent
<1>6. PinsConsistent' BY <1>0 DEF IInv, PinsConsistent
<1> QED BY <1>1, <1>2, <1>3, <1>4, <1>5, <1>6 DEF IInv

(* The digest is signed, or refused after all.                             *)
LEMMA FinishInv ==
  ASSUME IInv, NEW r \in Request, finish_sign(r)
  PROVE  IInv'
<1>0. PICK k \in {"signed", "refused"} : req' = [req EXCEPT ![r].pc = k]
  BY Zenon DEF finish_sign
<1>a. req[r].pc = "spent" /\ UNCHANGED <<live, lease, pin, expired, conn, route, chunks, alone, sent, sweeper>>
  BY DEF finish_sign
<1>b. /\ req' \in [Request -> RequestType]
      /\ \A p \in Request : /\ req'[p].b = req[p].b /\ req'[p].l = req[p].l /\ req'[p].h = req[p].h
                            /\ req'[p].seen = req[p].seen /\ req'[p].status = req[p].status
                            /\ req'[p].pc = req[p].pc \/ (req[p].pc = "spent" /\ req'[p].pc = k)
  BY <1>0, <1>a DEF IInv, TypeOK, RequestType, ReqState
<1>1. TypeOK' BY <1>a, <1>b DEF IInv, TypeOK
<1>2. SingleUse' /\ SignedOnlyRouted' /\ PinnedBeforeDelivered'
  BY <1>a, <1>b DEF IInv, SingleUse, SignedOnlyRouted, PinnedBeforeDelivered
<1>3. RequestsConsistent' BY <1>a, <1>b DEF IInv, RequestsConsistent
<1>4. PinsConsistent' BY <1>a, Zenon DEF IInv, PinsConsistent
<1> QED BY <1>1, <1>2, <1>3, <1>4 DEF IInv

(* A binding grows old, expired entries are swept, streams come and go:    *)
(* entries only disappear.                                                 *)
LEMMA SweepInv ==
  ASSUME IInv,
         portillia_bindings_sweep_expired \/ streams_change \/ (\E b \in Binding : binding_expires(b))
               \/ UNCHANGED vars
  PROVE  IInv'
<1>0. /\ live' \subseteq live /\ UNCHANGED <<lease, pin, conn, route, chunks, alone, sent, req>>
      /\ expired' \in SUBSET Binding
  BY DEF portillia_bindings_sweep_expired, Expired, streams_change, binding_expires, vars,
     IInv, TypeOK
<1>a. sweeper' \in BOOLEAN
  BY Zenon DEF portillia_bindings_sweep_expired, streams_change, binding_expires, vars, IInv, TypeOK
<1>1. TypeOK' BY <1>0, <1>a DEF IInv, TypeOK
<1>2. SingleUse' /\ SignedOnlyRouted' /\ PinnedBeforeDelivered' /\ PinsConsistent'
  BY <1>0 DEF IInv, SingleUse, SignedOnlyRouted, PinnedBeforeDelivered, PinsConsistent
<1>3. RequestsConsistent' BY <1>0 DEF IInv, RequestsConsistent
<1> QED BY <1>1, <1>2, <1>3 DEF IInv

(* Every step keeps the inductive invariant.                               *)
LEMMA NextInv == IInv /\ [Next]_vars => IInv'
<1> SUFFICES ASSUME IInv, [Next]_vars PROVE IInv'
  OBVIOUS
<1>1. ASSUME NEW b \in Binding,
             \/ \E l \in Lease : claim_issue(b, l)
             \/ claim_activate(b) \/ capture_on_write(b) \/ write_chunk(b) \/ binding_expires(b)
      PROVE  IInv'
  BY <1>1, IssueInv, ActivateInv, CaptureInv, WriteInv, SweepInv
<1>2. ASSUME NEW r \in Request,
             \/ \E b \in Binding, l \in Lease, h \in Hello : send_sign(r, b, l, h)
             \/ portillia_bindings_validate_and_consume(r) \/ finish_sign(r)
      PROVE  IInv'
  BY <1>2, SendInv, ConsumeInv, FinishInv
<1>3. CASE portillia_bindings_sweep_expired \/ streams_change \/ UNCHANGED vars
  BY <1>3, SweepInv
<1> QED BY <1>1, <1>2, <1>3 DEF Next

(* IInv holds in every state of every run.                                 *)
LEMMA Invariance == Spec => []IInv
BY InitInv, NextInv, PTL DEF Spec

(* Types; every entry of the binding registry belongs to a lease.          *)
THEOREM TypeCorrect == Spec => []TypeOK
<1>1. IInv => TypeOK
  BY DEF IInv
<1> QED BY Invariance, <1>1, PTL

(* portillia_bindings_validate_and_consume lets one request through per    *)
(* binding, however many handlers run at the same time.                    *)
THEOREM BindingsAreSingleUse == Spec => []SingleUse
<1>1. IInv => SingleUse
  BY DEF IInv
<1> QED BY Invariance, <1>1, PTL

(* What handle_keyless_sign signs was routed by this relay, for that lease. *)
THEOREM SignsOnlyRouted == Spec => []SignedOnlyRouted
<1>1. IInv => SignedOnlyRouted
  BY DEF IInv
<1> QED BY Invariance, <1>1, PTL

(* capture_on_write pins before the tenant can have the whole ClientHello, *)
(* when nothing is read behind it, unless its capture was undefined.       *)
THEOREM PinsBeforeDelivery == Spec => []PinnedBeforeDelivered
<1>1. IInv => PinnedBeforeDelivered
  BY DEF IInv
<1> QED BY Invariance, <1>1, PTL

-------------------------------------------------------------------------------
(* The bridge of proxy.c that carries a claimed connection.                *)

(* A copier that has started and has not ended.                            *)
Busy(p) == copier[p] \in {"reading", "writing", "ending"}

(* A plain bridge counts each copier that runs, a TLS one counts none.     *)
Running(p) == IF Busy(p) /\ ~tls THEN 1 ELSE 0
Counted == active = Running("client") + Running("target")

(* The descriptors are closed together, after both copiers have ended.     *)
ClosedTogether ==
  /\ fd["client"] = "open" <=> fd["target"] = "open"
  /\ fd["client"] # "open" => Joined

(* What a copier has read it has written, but for the chunk in its hands   *)
(* or one that could not be written.                                       *)
InHand(p) == IF copier[p] = "writing" \/ broken[p] THEN 1 ELSE 0
Conserved == \A p \in Peer : rd[p] <= out[p] /\ rd[p] = wr[Other(p)] + InHand(p)

(* A copier ends because its source has, or vanished, or its destination   *)
(* broke; a peer sees the end of the stream, and the relay stops reading,  *)
(* only then.                                                              *)
EndedWell ==
  \A p \in Peer :
    /\ broken[p] => copier[p] \in {"ending", "done"}
    /\ copier[p] \in {"ending", "done"} => reset[p] \/ broken[p] \/ (fin[p] /\ rd[p] = out[p])
    /\ shutRd[p] => copier[p] = "done"
    /\ shutWr[Other(p)] => copier[p] \in {"done", "absent"}

(* Why a bridge is safe.                                                   *)
IBridge == BridgeTypeOK /\ Counted /\ ClosedTogether /\ Conserved /\ EndedWell

-------------------------------------------------------------------------------
(* The type invariant, one conjunct per variable.                          *)
LEMMA BridgeTyped ==
  BridgeTypeOK <=> /\ tls \in BOOLEAN
             /\ out \in [Peer -> 0..MaxChunks] /\ rd \in [Peer -> 0..MaxChunks]
             /\ wr \in [Peer -> 0..MaxChunks]
             /\ fin \in [Peer -> BOOLEAN] /\ reset \in [Peer -> BOOLEAN]
             /\ shutWr \in [Peer -> BOOLEAN] /\ shutRd \in [Peer -> BOOLEAN]
             /\ broken \in [Peer -> BOOLEAN]
             /\ copier \in [Peer -> {"new", "reading", "writing", "ending", "done", "absent"}]
             /\ active \in 0..2
             /\ fd \in [Peer -> {"open", "closed", "orphaned"}]
BY DEF BridgeTypeOK

(* Each peer has one other.                                                *)
LEMMA TwoPeers ==
  /\ "client" \in Peer /\ "target" \in Peer
  /\ Other("client") = "target" /\ Other("target") = "client"
  /\ \A p \in Peer : Other(p) \in Peer /\ Other(Other(p)) = p /\ Other(p) # p
BY DEF Peer, Other

(* A bridge thread that has just started has two open descriptors.        *)
LEMMA BridgeStarts == BridgeInit => IBridge
<1> SUFFICES ASSUME BridgeInit PROVE IBridge OBVIOUS
<1>1. BridgeTypeOK
  BY BridgeTyped, BridgeAssumption DEF BridgeInit
<1>2. Counted /\ ClosedTogether /\ Conserved /\ EndedWell
  BY TwoPeers
     DEF BridgeInit, Counted, Running, Busy, ClosedTogether, Conserved, InHand, EndedWell
<1> QED BY <1>1, <1>2 DEF IBridge

(* pthread_create.                                                         *)
LEMMA StartKeeps ==
  ASSUME IBridge, NEW p \in Peer, start(p) PROVE IBridge'
<1> USE TwoPeers, BridgeAssumption
<1>1. BridgeTypeOK'
  <2>1. active' \in 0..2
    BY BridgeTyped DEF IBridge, start, Counted, Running, Busy, Peer
  <2> QED BY <2>1, BridgeTyped DEF IBridge, BridgeTypeOK, start, peerVars
<1>2. Counted'
  BY BridgeTyped DEF IBridge, start, peerVars, Counted, Running, Busy, Peer
<1>3. ClosedTogether'
  BY BridgeTyped DEF IBridge, start, ClosedTogether, Joined
<1>4. Conserved'
  BY BridgeTyped DEF IBridge, start, peerVars, Conserved, InHand
<1>5. EndedWell'
  BY BridgeTyped DEF IBridge, start, peerVars, EndedWell
<1> QED BY <1>1, <1>2, <1>3, <1>4, <1>5 DEF IBridge

(* A read, or the end of the source.                                       *)
LEMMA ReadKeeps ==
  ASSUME IBridge, NEW p \in Peer, copy_read(p) PROVE IBridge'
<1> USE TwoPeers, BridgeAssumption
<1>1. BridgeTypeOK'
  BY BridgeTyped DEF IBridge, BridgeTypeOK, copy_read, peerVars
<1>2. Counted'
  BY BridgeTyped DEF IBridge, copy_read, peerVars, Counted, Running, Busy, Peer
<1>3. ClosedTogether'
  BY BridgeTyped DEF IBridge, copy_read, ClosedTogether, Joined
<1>4. Conserved'
  BY BridgeTyped DEF IBridge, copy_read, peerVars, Conserved, InHand, EndedWell
<1>5. EndedWell'
  BY BridgeTyped DEF IBridge, copy_read, AtEnd, peerVars, EndedWell
<1> QED BY <1>1, <1>2, <1>3, <1>4, <1>5 DEF IBridge

(* A write, or the discovery that the destination is gone.                 *)
LEMMA WriteKeeps ==
  ASSUME IBridge, NEW p \in Peer, copy_write(p) PROVE IBridge'
<1> USE TwoPeers, BridgeAssumption
<1>1. BridgeTypeOK'
  <2>1. wr' \in [Peer -> 0..MaxChunks]
    BY BridgeTyped DEF IBridge, copy_write, Conserved, InHand
  <2>2. broken' \in [Peer -> BOOLEAN]
    BY BridgeTyped, Zenon DEF IBridge, copy_write
  <2>3. copier' \in [Peer -> {"new", "reading", "writing", "ending", "done", "absent"}]
    BY BridgeTyped DEF IBridge, copy_write
  <2> QED BY <2>1, <2>2, <2>3, BridgeTyped DEF IBridge, BridgeTypeOK, copy_write, peerVars
<1>2. Counted'
  BY BridgeTyped DEF IBridge, copy_write, peerVars, Counted, Running, Busy, Peer
<1>3. ClosedTogether'
  BY BridgeTyped DEF IBridge, copy_write, ClosedTogether, Joined
<1>4. Conserved'
  BY BridgeTyped DEF IBridge, copy_write, peerVars, Conserved, InHand, EndedWell
<1>5. EndedWell'
  <2>1. UNCHANGED <<out, fin, reset, rd, shutWr, shutRd>> /\ copier[p] = "writing"
    BY Zenon DEF copy_write, peerVars
  <2>2. CASE broken' = broken /\ copier' = [copier EXCEPT ![p] = "reading"]
    BY <2>1, <2>2, BridgeTyped DEF IBridge, EndedWell
  <2>3. CASE broken' = [broken EXCEPT ![p] = TRUE] /\ copier' = [copier EXCEPT ![p] = "ending"]
    BY <2>1, <2>3, BridgeTyped DEF IBridge, EndedWell
  <2> QED BY <2>2, <2>3, Zenon DEF copy_write
<1> QED BY <1>1, <1>2, <1>3, <1>4, <1>5 DEF IBridge

(* A copier's last step: the count, and the half-shutdown.                 *)
LEMMA EndKeeps ==
  ASSUME IBridge, NEW p \in Peer, copy_end(p) PROVE IBridge'
<1> USE TwoPeers, BridgeAssumption
<1>0. /\ shutWr' \in [Peer -> BOOLEAN] /\ shutRd' \in [Peer -> BOOLEAN]
      /\ \A q \in Peer : shutRd'[q] => shutRd[q] \/ q = p
      /\ \A q \in Peer : shutWr'[Other(q)] => shutWr[Other(q)] \/ q = p
  <2>1. CASE tls
    <3>1. TlsShutdown(p) BY <2>1 DEF copy_end, Shutdown
    <3>2. PICK w \in BOOLEAN : w = (shutWr["client"] \/ p = "target") BY Zenon
    <3>3. PICK r \in BOOLEAN : r = (shutRd["client"] \/ p = "client") BY Zenon
    <3>4. shutWr' = [shutWr EXCEPT !["client"] = w] /\ shutRd' = [shutRd EXCEPT !["client"] = r]
      BY <3>1, <3>2, <3>3, Zenon DEF TlsShutdown
    <3> QED BY <3>2, <3>3, <3>4, BridgeTyped DEF IBridge, Peer
  <2>2. CASE ~tls
    <3>1. PlainShutdown(p) BY <2>2 DEF copy_end, Shutdown
    <3> QED BY <3>1, BridgeTyped DEF IBridge, PlainShutdown
  <2> QED BY <2>1, <2>2
<1>1. BridgeTypeOK'
  <2>1. active' \in 0..2
    BY BridgeTyped DEF IBridge, copy_end, Decrement, Counted, Running, Busy, Peer
  <2> QED BY <1>0, <2>1, BridgeTyped, Zenon DEF IBridge, BridgeTypeOK, copy_end, peerVars
<1>2. Counted'
  BY BridgeTyped DEF IBridge, copy_end, Decrement, peerVars, Counted, Running, Busy, Peer
<1>3. ClosedTogether'
  BY BridgeTyped DEF IBridge, copy_end, ClosedTogether, Joined
<1>4. Conserved'
  BY BridgeTyped DEF IBridge, copy_end, peerVars, Conserved, InHand
<1>5. EndedWell'
  BY <1>0, BridgeTyped DEF IBridge, copy_end, peerVars, EndedWell
<1> QED BY <1>1, <1>2, <1>3, <1>4, <1>5 DEF IBridge

(* The bridge thread closes what both copiers have left.                   *)
LEMMA CloseKeeps == ASSUME IBridge, bridge_close PROVE IBridge'
<1> USE TwoPeers, BridgeAssumption
<1>1. BridgeTypeOK'
  BY BridgeTyped DEF IBridge, BridgeTypeOK, bridge_close, peerVars
<1>2. Counted' /\ Conserved'
  BY DEF IBridge, bridge_close, peerVars, Counted, Running, Busy, Conserved, InHand
<1>3. ClosedTogether'
  BY BridgeTyped DEF IBridge, bridge_close, ClosedTogether, Joined
<1>4. EndedWell'
  BY DEF IBridge, bridge_close, peerVars, EndedWell, Joined
<1> QED BY <1>1, <1>2, <1>3, <1>4 DEF IBridge

(* The peers send, end their side and vanish as they please.               *)
LEMMA PeersKeep ==
  ASSUME IBridge, NEW p \in Peer, send(p) \/ end(p) \/ vanish(p)
  PROVE  IBridge'
<1> USE TwoPeers, BridgeAssumption
<1>1. BridgeTypeOK'
  <2>1. CASE send(p)
    <3>1. UNCHANGED <<tls, fin, reset, rd, wr, shutWr, shutRd, copier, broken, active, fd>>
      BY <2>1, Zenon DEF send
    <3>2. out' \in [Peer -> 0..MaxChunks]
      BY <2>1, BridgeTyped DEF IBridge, send
    <3>3. QED
      BY <3>1, <3>2 DEF IBridge, BridgeTypeOK
  <2>2. CASE end(p) BY <2>2, BridgeTyped, Zenon DEF IBridge, BridgeTypeOK, end
  <2>3. CASE vanish(p) BY <2>3, BridgeTyped, Zenon DEF IBridge, BridgeTypeOK, vanish
  <2> QED BY <2>1, <2>2, <2>3
<1>2. Counted' /\ ClosedTogether'
  BY DEF IBridge, send, end, vanish, Counted, Running, Busy, ClosedTogether, Joined
<1>3. Conserved'
  BY BridgeTyped DEF IBridge, send, end, vanish, Conserved, InHand
<1>4. EndedWell'
  <2>1. CASE send(p) BY <2>1, BridgeTyped DEF IBridge, send, EndedWell
  <2>2. CASE end(p) BY <2>2, BridgeTyped DEF IBridge, end, EndedWell
  <2>3. CASE vanish(p) BY <2>3, BridgeTyped DEF IBridge, vanish, EndedWell
  <2> QED BY <2>1, <2>2, <2>3
<1> QED BY <1>1, <1>2, <1>3, <1>4 DEF IBridge

(* Every step of a copier, of the bridge thread and of a peer.             *)
LEMMA BridgeStep == ASSUME IBridge, [BridgeNext]_bridgeVars PROVE IBridge'
<1>1. CASE BridgeNext
  <2>1. CASE bridge_close BY <2>1, CloseKeeps
  <2>2. ASSUME NEW p \in Peer, Copier(p) \/ send(p) \/ end(p) \/ vanish(p) PROVE IBridge'
    BY <2>2, StartKeeps, ReadKeeps, WriteKeeps, EndKeeps, PeersKeep DEF Copier
  <2> QED BY <1>1, <2>1, <2>2 DEF BridgeNext
<1>2. CASE UNCHANGED bridgeVars
  BY <1>2, Zenon DEF bridgeVars, peerVars, IBridge, BridgeTypeOK, Counted, Running, Busy,
     ClosedTogether, Joined,
     Conserved, InHand, EndedWell
<1> QED BY <1>1, <1>2

(* What the invariant says of a bridge.                                    *)
LEMMA BridgeMeans == ASSUME IBridge PROVE BridgeInv /\ NothingCut
<1> USE TwoPeers, BridgeAssumption
<1>1. ConnsBalanced
  BY DEF IBridge, ConnsBalanced, ClosedTogether, Joined, Counted, Running, Busy
<1>2. NoUseAfterClose
  BY BridgeTyped DEF IBridge, NoUseAfterClose, ClosedTogether, Joined, Peer
<1>3. NothingCut
  BY BridgeTyped DEF IBridge, NothingCut, Conserved, InHand, EndedWell
<1> QED BY <1>1, <1>2, <1>3 DEF IBridge, BridgeInv

(* Whatever the peers send and however they end, and whether or not both   *)
(* copiers could be started: ssl_bridge_thread_func and bridge_thread_func *)
(* close no descriptor under a copier and balance global_active_conns.     *)
THEOREM BridgesSafe == BridgeSpec => []BridgeInv
<1>1. BridgeInit => IBridge BY BridgeStarts
<1>2. IBridge /\ [BridgeNext]_bridgeVars => IBridge' BY BridgeStep
<1>3. IBridge => BridgeInv BY BridgeMeans
<1> QED BY <1>1, <1>2, <1>3, PTL DEF BridgeSpec

(* A copier passes the end of a stream on after all of it: copy_thread and *)
(* the ssl_copy functions cut nothing off, however long the streams are.   *)
THEOREM StreamsArriveWhole == BridgeSpec => []NothingCut
<1>1. BridgeInit => IBridge BY BridgeStarts
<1>2. IBridge /\ [BridgeNext]_bridgeVars => IBridge' BY BridgeStep
<1>3. IBridge => NothingCut BY BridgeMeans
<1> QED BY <1>1, <1>2, <1>3, PTL DEF BridgeSpec
===============================================================================
