----------------------------- MODULE KeylessSign ------------------------------
(***************************************************************************)
(* Keyless signing: the binding registry (keyless/bindings.c), the capture *)
(* of the browser's ClientHello on its way to the tenant (proxy.c), and    *)
(* the handlers of POST /v1/sign (keyless/server.c).                       *)
(*                                                                         *)
(* A claim mints a binding for its lease; the copier that forwards the     *)
(* browser's bytes pins the binding to the ClientHello it sees; a signing  *)
(* request spends the binding.  Each registry call is atomic (reg->mu); a  *)
(* request and a forwarded chunk are several steps.  A binding (16 random  *)
(* bytes) names one tenant connection.  A ClientHello arrives in one read  *)
(* or in up to HELLO_CHUNKS, and is represented by its hash.               *)
(***************************************************************************)
EXTENDS Naturals, FiniteSets

CONSTANTS Binding,        \* bindings, one per claimed connection
          Lease,          \* lease ids: the identity a lease was registered by
          Hello,          \* ClientHello transcripts
          Request,        \* POST /v1/sign requests
          HELLO_CHUNKS,   \* reads a ClientHello may be spread over
          None,           \* the zero hash; no lease, no binding
          Garbled         \* the hash of bytes that are no browser's ClientHello

ASSUME ChunksAssumption == HELLO_CHUNKS \in Nat \ {0}
ASSUME NoHello == None \notin Hello \cup Lease /\ Garbled \notin Hello \cup {None}
ASSUME NoBinding == None \notin Binding

VARIABLES
  live,      \* bindings with an entry in the registry
  lease,     \* lease_id of each entry
  pin,       \* hello_hash of each entry
  expired,   \* bindings older than 300 seconds
  conn,      \* where the connection of each binding is
  route,     \* the ClientHello its browser sends
  chunks,    \* the number of reads it arrives in
  alone,     \* nothing follows the record of the ClientHello in its last read
  sent,      \* chunks of it written to the tenant
  req,       \* the signing requests
  sweeper    \* some lease, hence some keepalive thread, exists

vars == <<live, lease, pin, expired, conn, route, chunks, alone, sent, req, sweeper>>

Status == {"none", "OK", "UNKNOWN_OR_EXPIRED", "WRONG_LEASE", "NEVER_FIXED", "HELLO_MISMATCH"}
ReqState == {"new", "sent", "spent", "signed", "refused"}
NoRequest == [pc |-> "new", b |-> None, l |-> None, h |-> None, seen |-> FALSE, status |-> "none"]

Init ==
  /\ live = {} /\ expired = {}
  /\ lease = [b \in Binding |-> None]
  /\ pin = [b \in Binding |-> None]
  /\ conn = [b \in Binding |-> "idle"]
  /\ route \in [Binding -> Hello]
  /\ chunks \in [Binding -> 1..HELLO_CHUNKS]
  /\ alone \in [Binding -> BOOLEAN]
  /\ sent = [b \in Binding |-> 0]
  /\ req = [r \in Request |-> NoRequest]
  /\ sweeper = FALSE

-------------------------------------------------------------------------------
(* The registry.                                                           *)

portillia_bindings_issue(b, l) ==
  /\ live' = live \cup {b}
  /\ lease' = [lease EXCEPT ![b] = l]
  /\ UNCHANGED pin

portillia_bindings_discard(b) ==
  /\ live' = live \ {b}
  /\ UNCHANGED <<lease, pin>>

CanFix(b) == b \in live /\ b \notin expired /\ pin[b] = None

ForgetLease(b, l, h) ==
  IF b \notin live \/ b \in expired THEN "UNKNOWN_OR_EXPIRED"
  ELSE IF pin[b] = None THEN "NEVER_FIXED"
  ELSE IF pin[b] # h THEN "HELLO_MISMATCH"
  ELSE IF l = None THEN "WRONG_LEASE" ELSE "OK"
Validate(b, l, h) ==
  IF b \notin live \/ b \in expired THEN "UNKNOWN_OR_EXPIRED"
  ELSE IF lease[b] # l THEN "WRONG_LEASE"
  ELSE IF pin[b] = None THEN "NEVER_FIXED"
  ELSE IF pin[b] # h THEN "HELLO_MISMATCH" ELSE "OK"

KeepEntry(b) == b \in Binding /\ UNCHANGED live
Consume(b) == live' = live \ {b}

Unused == {b \in expired : pin[b] = None}
Expired == expired

(* Called by every stream's keepalive thread.                              *)
portillia_bindings_sweep_expired ==
  /\ sweeper /\ live \cap Expired # {}
  /\ live' = live \ Expired
  /\ UNCHANGED <<lease, pin, expired, conn, route, chunks, alone, sent, req, sweeper>>

-------------------------------------------------------------------------------
(* A tenant connection: claim, activation frame, copier.                   *)

claim_issue(b, l) ==
  /\ conn[b] = "idle" /\ sweeper
  /\ conn' = [conn EXCEPT ![b] = "issued"]
  /\ portillia_bindings_issue(b, l)
  /\ UNCHANGED <<expired, route, chunks, alone, sent, req, sweeper>>

(* The activation frame carries the binding to the tenant, or the session  *)
(* turns out to be dead and the binding is discarded.                      *)
claim_activate(b) ==
  /\ conn[b] = "issued"
  /\ \/ /\ conn' = [conn EXCEPT ![b] = "reading"]
        /\ UNCHANGED <<live, lease, pin>>
     \/ /\ conn' = [conn EXCEPT ![b] = "ended"]
        /\ portillia_bindings_discard(b)
  /\ UNCHANGED <<expired, route, chunks, alone, sent, req, sweeper>>

PinNothing(b) == b \in Binding /\ UNCHANGED pin
PinHello(b) ==
  \E h \in {route[b]} \cup IF alone[b] THEN {} ELSE {Garbled} : pin' = [pin EXCEPT ![b] = h]

(* A chunk was read from the browser.  Before it is written on, the bytes  *)
(* so far are previewed: not a ClientHello, or a binding that cannot be    *)
(* pinned, ends the copy; the chunk that completes it pins the binding.    *)
(* The preview works on a copy of what the accumulator holds, allocated    *)
(* with its length and used with its capacity.  From the second chunk on   *)
(* the append writes past the copy, or moves it and leaves the pointer to  *)
(* be freed again: it may work, or the behaviour is undefined.  A record's *)
(* body is read after what follows the record was moved over it, so with   *)
(* more bytes behind it the hash may be another one, or be put off.        *)
capture_on_write(b) ==
  /\ conn[b] = "reading" /\ sent[b] < chunks[b]
  /\ \/ /\ conn' = [conn EXCEPT ![b] = "ended"]
        /\ UNCHANGED pin
     \/ /\ sent[b] > 0
        /\ conn' = [conn EXCEPT ![b] = "undefined"]
        /\ UNCHANGED pin
     \/ /\ sent[b] + 1 < chunks[b] \/ ~alone[b]
        /\ conn' = [conn EXCEPT ![b] = "writing"]
        /\ UNCHANGED pin
     \/ /\ sent[b] + 1 = chunks[b]
        /\ CanFix(b)
        /\ conn' = [conn EXCEPT ![b] = "writing"]
        /\ PinHello(b)
  /\ UNCHANGED <<live, lease, expired, route, chunks, alone, sent, req, sweeper>>

(* write() to the reverse session, then capture_after_write advances the   *)
(* accumulator; a failed write ends the copy.                              *)
write_chunk(b) ==
  /\ conn[b] = "writing"
  /\ \/ /\ conn' = [conn EXCEPT ![b] = "reading"]
        /\ sent' = [sent EXCEPT ![b] = sent[b] + 1]
     \/ /\ conn' = [conn EXCEPT ![b] = "ended"]
        /\ UNCHANGED sent
  /\ UNCHANGED <<live, lease, pin, expired, route, chunks, alone, req, sweeper>>

binding_expires(b) ==
  /\ b \in live \ expired
  /\ expired' = expired \cup {b}
  /\ UNCHANGED <<live, lease, pin, conn, route, chunks, alone, sent, req, sweeper>>

(* The first stream is created, or the last one freed: there is a          *)
(* keepalive thread per stream, and nobody else sweeps.                    *)
streams_change ==
  /\ sweeper' = ~sweeper
  /\ UNCHANGED <<live, lease, pin, expired, conn, route, chunks, alone, sent, req>>

-------------------------------------------------------------------------------
(* handle_keyless_sign.  A request names a binding the relay has sent out, *)
(* presents a ClientHello, and carries an access token, which makes it a   *)
(* request of lease l; "seen" says that the whole ClientHello had been     *)
(* forwarded when the request was made.  A request that is malformed,      *)
(* stale or carries no valid token is refused and changes nothing.         *)

send_sign(r, b, l, h) ==
  /\ req[r].pc = "new"
  /\ conn[b] \notin {"idle", "issued"}
  /\ req' = [req EXCEPT ![r] = [pc |-> "sent", b |-> b, l |-> l, h |-> h,
                                seen |-> sent[b] = chunks[b], status |-> "none"]]
  /\ UNCHANGED <<live, lease, pin, expired, conn, route, chunks, alone, sent, sweeper>>

portillia_bindings_validate_and_consume(r) ==
  LET status == Validate(req[r].b, req[r].l, req[r].h)
  IN  /\ req[r].pc = "sent"
      /\ req' = [req EXCEPT ![r].status = status,
                            ![r].pc = IF status = "OK" THEN "spent" ELSE "refused"]
      /\ IF status = "OK" THEN Consume(req[r].b) ELSE UNCHANGED live
      /\ UNCHANGED <<lease, pin, expired, conn, route, chunks, alone, sent, sweeper>>

(* key_id is compared only now, with the binding already spent.            *)
finish_sign(r) ==
  /\ req[r].pc = "spent"
  /\ \E outcome \in {"signed", "refused"} : req' = [req EXCEPT ![r].pc = outcome]
  /\ UNCHANGED <<live, lease, pin, expired, conn, route, chunks, alone, sent, sweeper>>

-------------------------------------------------------------------------------
Next ==
  \/ \E b \in Binding :
       \/ \E l \in Lease : claim_issue(b, l)
       \/ claim_activate(b) \/ capture_on_write(b) \/ write_chunk(b) \/ binding_expires(b)
  \/ \E r \in Request :
       \/ \E b \in Binding, l \in Lease, h \in Hello : send_sign(r, b, l, h)
       \/ portillia_bindings_validate_and_consume(r) \/ finish_sign(r)
  \/ portillia_bindings_sweep_expired \/ streams_change

Spec == Init /\ [][Next]_vars

(* Handlers run to their end, and a keepalive thread sweeps every 15 s.    *)
FairSpec ==
  /\ Spec
  /\ \A r \in Request : WF_vars(portillia_bindings_validate_and_consume(r) \/ finish_sign(r))
  /\ \A b \in Binding : WF_vars(binding_expires(b))
  /\ WF_vars(portillia_bindings_sweep_expired)

-------------------------------------------------------------------------------
RequestType ==
  [pc: ReqState, b: Binding \cup {None}, l: Lease \cup {None}, h: Hello \cup {None},
   seen: BOOLEAN, status: Status]

TypeOK ==
  /\ live \in SUBSET Binding /\ expired \in SUBSET Binding
  /\ lease \in [Binding -> Lease \cup {None}]
  /\ pin \in [Binding -> Hello \cup {None, Garbled}]
  /\ conn \in [Binding -> {"idle", "issued", "reading", "writing", "ended", "undefined"}]
  /\ route \in [Binding -> Hello]
  /\ chunks \in [Binding -> 1..HELLO_CHUNKS]
  /\ alone \in [Binding -> BOOLEAN]
  /\ sent \in [Binding -> 0..HELLO_CHUNKS]
  /\ req \in [Request -> RequestType]
  /\ sweeper \in BOOLEAN
  /\ \A b \in live : lease[b] \in Lease

(* A binding is spent by at most one request, however many handlers        *)
(* validate it at the same time ("single use: spend the binding").         *)
SingleUse ==
  \A r, q \in Request :
    req[r].status = "OK" /\ req[q].status = "OK" /\ req[r].b = req[q].b => r = q

(* A signature is produced only for the lease the connection was claimed   *)
(* from and over the ClientHello the relay itself forwarded on it.         *)
SignedOnlyRouted ==
  \A r \in Request : req[r].status = "OK" =>
    /\ req[r].h = route[req[r].b]
    /\ req[r].l = lease[req[r].b]

(* A tenant that has received the whole ClientHello never finds its        *)
(* binding unpinned, and is never told that the hello it received is not   *)
(* the routed one: capture_on_write pins before the last chunk is written. *)
(* This is so of every ClientHello that comes in one read with nothing     *)
(* behind it.  One that comes in several reads is pinned in time too, or   *)
(* its capture was undefined, which nothing is before the second chunk.    *)
PinnedBeforeDelivered ==
  /\ \A r \in Request : req[r].seen /\ alone[req[r].b] =>
       /\ req[r].status # "NEVER_FIXED"
       /\ req[r].h = route[req[r].b] => req[r].status # "HELLO_MISMATCH"
  /\ \A b \in Binding : conn[b] = "undefined" => sent[b] \in 1..(chunks[b] - 1)

(* Every entry leaves the registry, spent, discarded, or expired and swept *)
(* by a keepalive thread, unless the last keepalive thread goes first.     *)
EntriesReclaimed == \A b \in Binding : b \in live ~> (b \notin live \/ ~sweeper)
===============================================================================
