---------------------------- MODULE TomatoLinkRelay ----------------------------
(***************************************************************************)
(* The in-memory routing core of Tomato Link                               *)
(* (services/link-relay/.../core.py): authenticated peers publish opaque   *)
(* frames to one destination endpoint of their own organization, and the   *)
(* destination pulls and acknowledges them.  The independent cancellation  *)
(* lane (control_lane.py) is the same discipline with other limits and a   *)
(* narrower Route, so it is an instance of this module.                    *)
(*                                                                         *)
(* A deque of queued frames is represented by the positions its frames     *)
(* have in `log', the append-only history of every accepted frame: a queue *)
(* is a set of positions and its order is the order of the numbers.        *)
(*                                                                         *)
(* A call that the code rejects, and an exact retransmission answered from *)
(* the receipt store, change nothing; they are the stuttering steps.       *)
(***************************************************************************)
EXTENDS Integers, Sequences, FiniteSets, FiniteSetsExt

CONSTANTS
  Endpoint,     (* ids of the registered endpoints                          *)
  Enabled,      (* the registered endpoints that are enabled                *)
  OrgOf,        (* the organization of each endpoint                        *)
  RoleOf,       (* the role of each endpoint: device or edge                *)
  Route,        (* <<source role, destination role>> pairs that may talk    *)
  Peer,         (* identities the transport hands over, forged ones too     *)
  Frame,        (* well-formed frames a peer may publish                    *)
  MaxTTL, MaxSkew,       (* MAXIMUM_FRAME_TTL, MAXIMUM_CLOCK_SKEW           *)
  MaxFrames, MaxBytes,   (* limits of one destination queue                 *)
  MaxReceipts, MaxPull,  (* MAXIMUM_RECEIPT_RECORDS, MAXIMUM_PULL_FRAMES    *)
  MaxTime       (* bound of the clock in a finite run                       *)

ASSUME EndpointAssumption == Enabled \subseteq Endpoint

ASSUME LimitAssumption ==
  /\ MaxFrames \in Nat \ {0} /\ MaxReceipts \in Nat \ {0}
  /\ MaxPull \in Nat \ {0}   /\ MaxBytes \in Nat
  /\ MaxTTL \in Nat          /\ MaxSkew \in Nat /\ MaxTime \in Nat

ASSUME FrameAssumption ==
  \A f \in Frame : /\ f.seq \in Nat \ {0} /\ f.len \in Nat \ {0}
                   /\ f.created \in Nat   /\ f.expires \in Nat

VARIABLES
  queue,         (* endpoint -> positions in log of its queued frames       *)
  bytes,         (* endpoint -> the relay's running byte count of the queue *)
  receipts,      (* (organization, frame id) -> frame and delivery state    *)
  receiptOrder,  (* keys of receipts, oldest first                          *)
  lastSeq,       (* (source, session) -> last accepted sequence, 0 if none  *)
  now,           (* the clock that callers pass as received_at              *)
  log,           (* history: every accepted frame, in order                 *)
  delivered,     (* history: <<peer, position>> handed over by a pull       *)
  acked          (* history: positions removed by an acknowledgement        *)

store == <<receipts, receiptOrder, lastSeq>>
vars  == <<queue, bytes, store, now, log, delivered, acked>>

-----------------------------------------------------------------------------
Key(f)     == <<f.org, f.id>>
Stream(f)  == <<f.src, f.session>>
Streams    == {Stream(f) : f \in Frame}
FrameIds   == {f.id : f \in Frame}
Receivers  == {r[2] : r \in Route}

\* _require_peer: an authenticated peer bound to an enabled endpoint.
RequirePeer(p) ==
  /\ p.authenticated
  /\ p.endpoint \in Enabled
  /\ p.org = OrgOf[p.endpoint]
  /\ p.role = RoleOf[p.endpoint]

\* The time window of TomatoLinkFrameValidator.validate.
TimeValid(f, t) ==
  /\ f.created < f.expires
  /\ f.expires - f.created <= MaxTTL
  /\ f.created <= t + MaxSkew
  /\ t < f.expires

\* The source binding and destination checks of publish.
Routable(f, e) ==
  /\ f.src = e
  /\ f.org = OrgOf[e]
  /\ f.dst \in Enabled
  /\ OrgOf[f.dst] = OrgOf[e]
  /\ <<RoleOf[e], RoleOf[f.dst]>> \in Route

\* Mutant: a sequence number may be used twice.
InSequenceOrEqual(f) == f.seq >= lastSeq[Stream(f)]

\* The replay check of publish, which does not depend on the receipts.
InSequence(f) == f.seq > lastSeq[Stream(f)]

\* The payload bytes of the frames at positions S of a list: a running sum.
BytesOf(list, S) ==
  LET sum[n \in 0..Len(list)] ==
        IF n = 0 THEN 0 ELSE sum[n - 1] + (IF n \in S THEN list[n].len ELSE 0)
  IN sum[Len(list)]

PayloadBytes(S) == BytesOf(log, S)

\* Mutant: the clock skew is granted when a frame is discarded as well.
RetainedLess(e, t) == {i \in queue[e] : t + MaxSkew < log[i].expires}

\* Mutant: the byte count is left alone when frames are discarded.
RetainedBytesStale(e, t) == bytes[e]

\* _discard_expired: what is left of e's queue, and its byte count, at time t.
Retained(e, t) == {i \in queue[e] : t < log[i].expires}
RetainedBytes(e, t) ==
  IF Retained(e, t) = queue[e] THEN bytes[e] ELSE PayloadBytes(Retained(e, t))

\* Mutant: one frame too few.
OldestButOne(S, n) == {i \in S : Cardinality({j \in S : j < i}) < n - 1}

\* The n oldest members of a queue.
Oldest(S, n) == {i \in S : Cardinality({j \in S : j < i}) < n}

-----------------------------------------------------------------------------
Init ==
  /\ queue = [e \in Endpoint |-> {}]
  /\ bytes = [e \in Endpoint |-> 0]
  /\ receipts = <<>>
  /\ receiptOrder = <<>>
  /\ lastSeq = [s \in Streams |-> 0]
  /\ now = 0
  /\ log = <<>>
  /\ delivered = {}
  /\ acked = {}

\* _remember_receipt: evict the oldest record when the store is full.
Remember(k, r) ==
  LET full == Len(receiptOrder) >= MaxReceipts
      kept == IF full THEN DOMAIN receipts \ {Head(receiptOrder)}
                      ELSE DOMAIN receipts
  IN /\ receiptOrder' =
          Append(IF full THEN Tail(receiptOrder) ELSE receiptOrder, k)
     /\ receipts' =
          [x \in kept \cup {k} |-> IF x = k THEN r ELSE receipts[x]]

\* publish, when every check passes and the frame id has no receipt.
Publish(p, f) ==
  /\ RequirePeer(p)
  /\ TimeValid(f, now)
  /\ Routable(f, p.endpoint)
  /\ Key(f) \notin DOMAIN receipts
  /\ InSequence(f)
  /\ Cardinality(queue[f.dst]) < MaxFrames
  /\ bytes[f.dst] + f.len <= MaxBytes
  /\ log' = Append(log, f)
  /\ queue' = [queue EXCEPT ![f.dst] = @ \cup {Len(log) + 1}]
  /\ bytes' = [bytes EXCEPT ![f.dst] = @ + f.len]
  /\ lastSeq' = [lastSeq EXCEPT ![Stream(f)] = f.seq]
  /\ Remember(Key(f), [frame |-> f, state |-> "queued", dst |-> f.dst])
  /\ UNCHANGED <<now, delivered, acked>>

\* pull: discard what has expired and hand over the oldest n frames, which
\* stay queued until they are acknowledged.
Pull(p, n) ==
  LET e == p.endpoint IN
  /\ RequirePeer(p)
  /\ p.role \in Receivers
  /\ queue' = [queue EXCEPT ![e] = Retained(e, now)]
  /\ bytes' = [bytes EXCEPT ![e] = RetainedBytes(e, now)]
  /\ delivered' = delivered \cup {<<p, i>> : i \in Oldest(Retained(e, now), n)}
  /\ UNCHANGED <<store, now, log, acked>>

\* acknowledge, when a queued frame of the peer has this id: the oldest one is
\* removed and its receipt, if still held, says so.
Acknowledge(p, id) ==
  LET e    == p.endpoint
      hits == {i \in Retained(e, now) : log[i].id = id}
      k    == <<OrgOf[e], id>>
  IN
  /\ RequirePeer(p)
  /\ p.role \in Receivers
  /\ \E i \in hits :
       /\ \A j \in hits : i <= j
       /\ queue' = [queue EXCEPT ![e] = Retained(e, now) \ {i}]
       /\ bytes' = [bytes EXCEPT ![e] = RetainedBytes(e, now) - log[i].len]
       /\ acked' = acked \cup {i}
       /\ receipts' = [x \in DOMAIN receipts |->
                         IF x = k THEN [receipts[x] EXCEPT !.state = "acknowledged",
                                                           !.dst = e]
                                  ELSE receipts[x]]
  /\ UNCHANGED <<receiptOrder, lastSeq, now, log, delivered>>

\* acknowledge, when no queued frame has this id: the call is rejected, but
\* only after it has discarded what has expired.
AcknowledgeUnknown(p, id) ==
  LET e == p.endpoint IN
  /\ RequirePeer(p)
  /\ p.role \in Receivers
  /\ \A i \in Retained(e, now) : log[i].id # id
  /\ queue' = [queue EXCEPT ![e] = Retained(e, now)]
  /\ bytes' = [bytes EXCEPT ![e] = RetainedBytes(e, now)]
  /\ UNCHANGED <<store, now, log, delivered, acked>>

\* The callers' clock advances.
Tick ==
  /\ now < MaxTime
  /\ now' = now + 1
  /\ UNCHANGED <<queue, bytes, store, log, delivered, acked>>

Next ==
  \/ \E p \in Peer, f \in Frame : Publish(p, f)
  \/ \E p \in Peer, n \in 1..MaxPull : Pull(p, n)
  \/ \E p \in Peer, id \in FrameIds : Acknowledge(p, id)
  \/ \E p \in Peer, id \in FrameIds : AcknowledgeUnknown(p, id)
  \/ Tick

Spec == Init /\ [][Next]_vars

\* A receiver that stays attached keeps polling and acknowledges what it was
\* handed.  Neither the publishers nor the clock need be fair.
Consume(p) == \E i \in DOMAIN log :
                <<p, i>> \in delivered /\ Acknowledge(p, log[i].id)

FairSpec ==
  /\ Spec
  /\ \A p \in Peer : WF_vars(Pull(p, 1)) /\ WF_vars(Consume(p))

-----------------------------------------------------------------------------
(* Properties.                                                             *)

\* Every variable has its type, and every queue holds accepted positions.
TypeOK ==
  /\ log \in Seq(Frame)
  /\ queue \in [Endpoint -> SUBSET (DOMAIN log)]
  /\ bytes = [e \in Endpoint |-> bytes[e]]
  /\ receiptOrder \in Seq({Key(f) : f \in Frame})
  /\ receipts = [k \in DOMAIN receipts |-> receipts[k]]
  /\ \A k \in DOMAIN receipts :
       receipts[k] \in [frame : Frame, state : {"queued", "acknowledged"},
                        dst : Endpoint]
  /\ lastSeq \in [Streams -> Nat]
  /\ now \in Nat
  /\ delivered \subseteq Peer \X DOMAIN log
  /\ acked \subseteq DOMAIN log

\* The running byte count of a queue, which three code paths update in two
\* different ways, always equals the payload bytes that are queued, and
\* neither limit is ever exceeded.
QueueAccounting ==
  \A e \in Endpoint :
    /\ bytes[e] = PayloadBytes(queue[e])
    /\ bytes[e] <= MaxBytes
    /\ Cardinality(queue[e]) <= MaxFrames

\* The receipt store and its eviction order never drift apart: each key is
\* in the order exactly once, and the store stays bounded.
ReceiptStoreOK ==
  /\ DOMAIN receipts = {receiptOrder[i] : i \in DOMAIN receiptOrder}
  /\ \A i, j \in DOMAIN receiptOrder :
       receiptOrder[i] = receiptOrder[j] => i = j
  /\ Len(receiptOrder) <= MaxReceipts

\* Within one source and session, frames are accepted in strictly increasing
\* sequence order, even after the receipt that made a retransmission
\* idempotent was evicted; so no frame is ever accepted twice.
SequencesIncrease ==
  \A i, j \in DOMAIN log :
    i < j /\ Stream(log[i]) = Stream(log[j]) => log[i].seq < log[j].seq

\* A frame that its destination acknowledged is never queued again, whatever
\* is retransmitted and whatever the receipt store has forgotten.
AcknowledgedStaysGone ==
  \A i \in acked, e \in Endpoint : \A j \in queue[e] : log[i] # log[j]

\* A frame reaches only an authenticated peer bound to the frame's
\* destination, in the organization of its source, over an allowed route.
Isolation ==
  \A d \in delivered :
    LET p == d[1]  f == log[d[2]] IN
    /\ RequirePeer(p)
    /\ p.endpoint = f.dst
    /\ p.org = f.org
    /\ f.org = OrgOf[f.src]
    /\ <<RoleOf[f.src], p.role>> \in Route

\* What a retransmission is told: the receipt of an id is that of the last
\* frame accepted with it.  "queued" is never said of a frame its destination
\* acknowledged, nor of one that left the queue before it expired.
\* "acknowledged" is said only once the destination it names has acknowledged
\* a frame with this id; that is the last one, unless the id was accepted anew
\* after its receipt was evicted, for acknowledge looks for the oldest queued
\* frame with the id and marks whatever receipt the id has by then.
LastWithKey(k) == Max({i \in DOMAIN log : Key(log[i]) = k})
ReceiptTruth ==
  \A k \in DOMAIN receipts :
    LET i == LastWithKey(k)  r == receipts[k] IN
    /\ r.frame = log[i]
    /\ r.state = "queued" =>
         /\ r.dst = log[i].dst
         /\ i \notin acked
         /\ i \in queue[log[i].dst] \/ now >= log[i].expires
    /\ r.state = "acknowledged" =>
         \E j \in acked : Key(log[j]) = k /\ log[j].dst = r.dst

\* An acknowledgement means removal from the queue: a frame whose receipt says
\* "acknowledged" is in no queue.  It does not hold of a lane in which an id is
\* accepted anew while an earlier frame with it is still queued.
AcknowledgedRemoved ==
  \A k \in DOMAIN receipts :
    receipts[k].state = "acknowledged" =>
      \A e \in Endpoint : LastWithKey(k) \notin queue[e]

\* A frame leaves a queue only because it was acknowledged or has expired:
\* a full queue or a full receipt store never drops one silently.
NoSilentDrop ==
  [][\A e \in Endpoint : \A i \in queue[e] \ queue'[e] :
       i \in acked' \/ now >= log[i].expires]_vars

\* No receiver that keeps polling and acknowledging leaves a frame queued for
\* ever behind others, even when the clock never expires anything.
QueueDrains ==
  \A i \in 1..Cardinality(Frame), e \in Endpoint :
    i \in queue[e] ~> i \notin queue[e]
=============================================================================
