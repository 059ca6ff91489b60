------------------------- MODULE TomatoLinkRelayProofs -------------------------
(***************************************************************************)
(* Machine-checked proofs about TomatoLinkRelay, for every set of          *)
(* endpoints, peers and frames and every value of the limits.              *)
(***************************************************************************)
EXTENDS TomatoLinkRelay, BoundedFifo, FiniteSetTheorems, WellFoundedInduction, TLAPS

\* Every accepted frame passed the binding and route checks of publish.
LogRouted ==
  \A i \in DOMAIN log : log[i].src \in Enabled /\ Routable(log[i], log[i].src)

\* A position is queued only for the destination of its frame, and no longer
\* once it was acknowledged.
QueueRouted ==
  \A e \in Endpoint : \A i \in queue[e] : log[i].dst = e /\ i \notin acked

\* The last sequence of a stream bounds every sequence accepted from it.
LastSeqBound ==
  \A i \in DOMAIN log : log[i].seq <= lastSeq[Stream(log[i])]

\* The inductive invariant.
Inv ==
  /\ TypeOK
  /\ LogRouted
  /\ QueueRouted
  /\ LastSeqBound
  /\ SequencesIncrease
  /\ ReceiptStoreOK
  /\ Isolation

\* A full store loses its head before it takes a new member: the order and the
\* members stay in step.
LEMMA EvictAndAppend ==
  ASSUME NEW K, NEW M \in Nat \ {0}, NEW q \in Seq(K), Len(q) <= M, Distinct(q),
         NEW x \in K, x \notin Members(q)
  PROVE  /\ Append(Evict(q, M), x) \in Seq(K)
         /\ Len(Append(Evict(q, M), x)) <= M
         /\ Distinct(Append(Evict(q, M), x))
         /\ Members(Append(Evict(q, M), x)) = EvictMembers(q, M) \cup {x}
         /\ x \notin EvictMembers(q, M)
<1> DEFINE s == Append(Evict(q, M), x)
<1>1. PICK lost \in {0, 1} : lost = IF Len(q) >= M THEN 1 ELSE 0
  OBVIOUS
<1>2. PICK n \in Nat : n + lost = Len(q) /\ n < M
  <2>1. Len(q) \in Nat /\ Len(q) - lost \in Nat /\ Len(q) - lost < M
    BY <1>1
  <2> QED BY <2>1
<1>3. /\ s \in Seq(K) /\ Len(s) = n + 1 /\ DOMAIN s = 1..(n + 1) /\ n + 1 <= M
      /\ DOMAIN q = 1..(n + lost)
      /\ \A i \in 1..n : s[i] = q[i + lost]
      /\ s[n + 1] = x
  BY <1>1, <1>2 DEF Evict
<1>4. \A i \in 1..n : i + lost \in DOMAIN q /\ q[i + lost] # x
  <2>1. \A j \in DOMAIN q : q[j] # x
    BY DEF Members
  <2>2. \A i \in 1..n : i + lost \in 1..(n + lost)
    OBVIOUS
  <2> QED BY <1>3, <2>1, <2>2
<1>5. EvictMembers(q, M) = Members(q) \ {q[i] : i \in 1..lost}
  BY <1>1, <1>2, <1>3 DEF EvictMembers, Members
<1> HIDE DEF s
<1>6. Distinct(s)
  <2>1. \A i, j \in 1..n : s[i] = s[j] => i = j
    <3> TAKE i, j \in 1..n
    <3>1. q[i + lost] = q[j + lost] => i + lost = j + lost
      BY <1>4 DEF Distinct
    <3> QED BY <1>3, <3>1
  <2>2. \A i \in 1..n : s[i] # s[n + 1]
    BY <1>3, <1>4
  <2>3. \A i \in 1..(n + 1) : i \in 1..n \/ i = n + 1
    OBVIOUS
  <2> QED BY <1>3, <2>1, <2>2, <2>3 DEF Distinct
<1>7. \A i \in 1..n : s[i] \in EvictMembers(q, M)
  <2> TAKE i \in 1..n
  <2>1. \A j \in 1..lost : j \in DOMAIN q /\ j # i + lost
    BY <1>3
  <2>2. \A j \in 1..lost : q[j] # q[i + lost]
    BY <1>4, <2>1 DEF Distinct
  <2>3. q[i + lost] \in Members(q)
    BY <1>4 DEF Members
  <2> QED BY <1>3, <1>5, <2>2, <2>3
<1>8. ASSUME NEW m \in EvictMembers(q, M) PROVE \E i \in 1..n : m = s[i]
  <2>1. PICK j \in 1..(n + lost) : m = q[j]
    BY <1>3, <1>5, <1>8 DEF Members
  <2>2. j \notin 1..lost
    BY <1>5, <1>8, <2>1
  <2>3. j - lost \in 1..n /\ s[j - lost] = m
    BY <1>3, <2>1, <2>2
  <2> QED BY <2>3
<1>9. Members(s) = EvictMembers(q, M) \cup {x}
  <2>1. \A i \in DOMAIN s : i \in 1..n \/ i = n + 1
    BY <1>3
  <2>2. 1..n \subseteq DOMAIN s /\ n + 1 \in DOMAIN s
    BY <1>3
  <2> QED BY <1>3, <1>7, <1>8, <2>1, <2>2 DEF Members
<1> QED BY <1>3, <1>5, <1>6, <1>9 DEF s

-----------------------------------------------------------------------------
LEMMA RetainedSubset ==
  ASSUME NEW e, NEW t
  PROVE  Retained(e, t) \subseteq queue[e]
BY DEF Retained

LEMMA OldestSubset ==
  ASSUME NEW S, NEW n
  PROVE  Oldest(S, n) \subseteq S
BY DEF Oldest

LEMMA InitInv == Init => Inv
<1> SUFFICES ASSUME Init PROVE Inv
  OBVIOUS
<1> USE DEF Init
<1>1. log \in Seq(Frame) /\ DOMAIN log = {} /\ DOMAIN receipts = {}
      /\ DOMAIN receiptOrder = {} /\ Len(receiptOrder) = 0
  OBVIOUS
<1>2. TypeOK
  BY <1>1 DEF TypeOK
<1>3. LogRouted /\ QueueRouted /\ LastSeqBound /\ SequencesIncrease /\ Isolation
  BY <1>1 DEF LogRouted, QueueRouted, LastSeqBound, SequencesIncrease, Isolation
<1>4. ReceiptStoreOK
  BY <1>1, LimitAssumption DEF ReceiptStoreOK
<1> QED BY <1>2, <1>3, <1>4 DEF Inv

\* Accepting a frame: the new position is the only one that can disturb a
\* conjunct, and the receipt store is where the work is.
LEMMA PublishInv ==
  ASSUME NEW p \in Peer, NEW f \in Frame, Inv, Publish(p, f)
  PROVE  Inv'
<1> DEFINE n == Len(log) + 1
<1>1. /\ log \in Seq(Frame) /\ Len(log) \in Nat /\ DOMAIN log = 1..Len(log)
      /\ log' = Append(log, f) /\ log' \in Seq(Frame)
      /\ DOMAIN log' = 1..n /\ n \notin DOMAIN log /\ n \in DOMAIN log'
      /\ DOMAIN log \subseteq DOMAIN log'
      /\ log'[n] = f
      /\ \A i \in DOMAIN log : log'[i] = log[i]
  BY DEF Inv, TypeOK, Publish
<1>2. f.dst \in Endpoint /\ Stream(f) \in Streams /\ Key(f) \in {Key(g) : g \in Frame}
  BY EndpointAssumption DEF Publish, Routable, Streams
<1>3. lastSeq \in [Streams -> Nat] /\ f.seq \in Nat /\ f.seq > lastSeq[Stream(f)]
      /\ lastSeq' = [lastSeq EXCEPT ![Stream(f)] = f.seq]
  BY FrameAssumption DEF Inv, TypeOK, Publish, InSequence
<1>4. queue' = [queue EXCEPT ![f.dst] = @ \cup {n}]
  BY DEF Publish
<1>5. ReceiptStoreOK' /\ receiptOrder' \in Seq({Key(g) : g \in Frame})
      /\ receipts' = [k \in DOMAIN receipts' |-> receipts'[k]]
      /\ \A k \in DOMAIN receipts' :
           receipts'[k] \in [frame : Frame, state : {"queued", "acknowledged"},
                             dst : Endpoint]
  <2> DEFINE full == Len(receiptOrder) >= MaxReceipts
             kept == IF full THEN DOMAIN receipts \ {Head(receiptOrder)}
                             ELSE DOMAIN receipts
             rest == IF full THEN Tail(receiptOrder) ELSE receiptOrder
             K == {Key(g) : g \in Frame}
             r == [frame |-> f, state |-> "queued", dst |-> f.dst]
  <2>1. /\ receiptOrder' = Append(rest, Key(f))
        /\ receipts' = [x \in kept \cup {Key(f)} |->
                           IF x = Key(f) THEN r ELSE receipts[x]]
        /\ Key(f) \notin DOMAIN receipts
    BY DEF Publish, Remember
  <2>2. /\ receiptOrder \in Seq(K) /\ Len(receiptOrder) <= MaxReceipts
        /\ DOMAIN receipts = Members(receiptOrder) /\ Distinct(receiptOrder)
        /\ \A k \in DOMAIN receipts :
             receipts[k] \in [frame : Frame, state : {"queued", "acknowledged"},
                              dst : Endpoint]
    BY DEF Inv, TypeOK, ReceiptStoreOK, Members, Distinct
  <2>3. /\ rest = Evict(receiptOrder, MaxReceipts)
        /\ kept = EvictMembers(receiptOrder, MaxReceipts)
        /\ kept \subseteq DOMAIN receipts /\ MaxReceipts \in Nat \ {0}
        /\ Key(f) \notin Members(receiptOrder) /\ Key(f) \in K
    BY <1>2, <2>1, <2>2, LimitAssumption DEF Evict, EvictMembers
  <2> HIDE DEF full, rest, kept, K
  <2>4. /\ Append(rest, Key(f)) \in Seq(K)
        /\ Len(Append(rest, Key(f))) <= MaxReceipts
        /\ Distinct(Append(rest, Key(f)))
        /\ Members(Append(rest, Key(f))) = kept \cup {Key(f)}
        /\ Key(f) \notin kept
    BY <2>2, <2>3, EvictAndAppend
  <2>5. receiptOrder' \in Seq({Key(g) : g \in Frame})
    BY <2>1, <2>4 DEF K
  <2>6. DOMAIN receipts' = kept \cup {Key(f)}
    BY <2>1
  <2>7. ReceiptStoreOK'
    BY <2>1, <2>4, <2>6 DEF ReceiptStoreOK, Members, Distinct
  <2>8. r \in [frame : Frame, state : {"queued", "acknowledged"}, dst : Endpoint]
    BY <1>2
  <2>9. \A k \in DOMAIN receipts' :
          receipts'[k] \in [frame : Frame, state : {"queued", "acknowledged"},
                            dst : Endpoint]
    BY <2>1, <2>2, <2>3, <2>6, <2>8
  <2> QED BY <2>1, <2>5, <2>6, <2>7, <2>9
<1>6. TypeOK'
  <2>1. queue' \in [Endpoint -> SUBSET (DOMAIN log')]
    BY <1>1, <1>2, <1>4 DEF Inv, TypeOK
  <2>2. lastSeq' \in [Streams -> Nat]
    BY <1>2, <1>3
  <2>3. bytes' = [e \in Endpoint |-> bytes'[e]]
    BY DEF Inv, TypeOK, Publish
  <2>4. now' \in Nat /\ delivered' \subseteq Peer \X DOMAIN log' /\ acked' \subseteq DOMAIN log'
    BY <1>1 DEF Inv, TypeOK, Publish
  <2> QED BY <1>1, <1>5, <2>1, <2>2, <2>3, <2>4 DEF TypeOK
<1>7. LogRouted'
  <2>1. f.src \in Enabled /\ Routable(f, f.src)
    BY DEF Publish, RequirePeer, Routable
  <2>2. \A i \in DOMAIN log : log[i].src \in Enabled /\ Routable(log[i], log[i].src)
    BY DEF Inv, LogRouted
  <2>3. ASSUME NEW i \in DOMAIN log'
        PROVE  log'[i].src \in Enabled /\ Routable(log'[i], log'[i].src)
    <3>1. CASE i = n
      BY <1>1, <2>1, <3>1
    <3>2. CASE i \in DOMAIN log
      BY <1>1, <2>2, <3>2
    <3> QED BY <1>1, <3>1, <3>2
  <2> QED BY <2>3 DEF LogRouted, Routable
<1>8. QueueRouted'
  BY <1>1, <1>2, <1>4 DEF Inv, TypeOK, QueueRouted, Publish
<1>9. \A i \in DOMAIN log : /\ Stream(log[i]) \in Streams /\ log[i].seq \in Nat
                            /\ log[i].seq <= lastSeq[Stream(log[i])]
  BY <1>1, FrameAssumption DEF Inv, LastSeqBound, Streams
<1>10. LastSeqBound'
  <2>1. ASSUME NEW i \in DOMAIN log' PROVE log'[i].seq <= lastSeq'[Stream(log'[i])]
    <3>1. CASE i = n
      BY <1>1, <1>2, <1>3, <3>1
    <3>2. CASE i \in DOMAIN log /\ Stream(log[i]) = Stream(f)
      BY <1>1, <1>2, <1>3, <1>9, <3>2
    <3>3. CASE i \in DOMAIN log /\ Stream(log[i]) # Stream(f)
      BY <1>1, <1>2, <1>3, <1>9, <3>3
    <3> QED BY <1>1, <2>1, <3>1, <3>2, <3>3
  <2> QED BY <2>1 DEF LastSeqBound, Stream
<1>11. SequencesIncrease'
  <2>1. ASSUME NEW i \in DOMAIN log', NEW j \in DOMAIN log', i < j,
               Stream(log'[i]) = Stream(log'[j])
        PROVE  log'[i].seq < log'[j].seq
    <3>1. CASE j \in DOMAIN log
      BY <1>1, <2>1, <3>1 DEF Inv, SequencesIncrease
    <3>2. CASE j = n
      <4>1. i \in DOMAIN log /\ log'[i] = log[i] /\ log'[j] = f
        BY <1>1, <2>1, <3>2
      <4>2. log[i].seq <= lastSeq[Stream(f)] /\ log[i].seq \in Nat
        BY <1>9, <2>1, <4>1
      <4> QED BY <1>2, <1>3, <4>1, <4>2
    <3> QED BY <1>1, <2>1, <3>1, <3>2
  <2> QED BY <2>1 DEF SequencesIncrease, Stream
<1>12. Isolation'
  BY <1>1 DEF Inv, TypeOK, Isolation, Publish, RequirePeer
<1> QED BY <1>5, <1>6, <1>7, <1>8, <1>10, <1>11, <1>12 DEF Inv

-----------------------------------------------------------------------------
\* Every action but Publish leaves the log and the sequences alone, only
\* shrinks queues, and acknowledges only positions that leave their queue.
LEMMA ShrinkInv ==
  ASSUME Inv,
         UNCHANGED <<log, lastSeq, receiptOrder>>,
         queue' \in [Endpoint -> SUBSET (DOMAIN log)],
         \A e \in Endpoint : queue'[e] \subseteq queue[e],
         acked' \subseteq DOMAIN log,
         \A e \in Endpoint : \A i \in queue'[e] : i \in acked' => i \in acked,
         bytes' = [e \in Endpoint |-> bytes'[e]],
         DOMAIN receipts' = DOMAIN receipts,
         receipts' = [k \in DOMAIN receipts' |-> receipts'[k]],
         \A k \in DOMAIN receipts' :
           receipts'[k] \in [frame : Frame, state : {"queued", "acknowledged"},
                             dst : Endpoint],
         now' \in Nat,
         delivered' \subseteq Peer \X DOMAIN log,
         Isolation'
  PROVE  Inv'
<1>1. TypeOK'
  BY DEF Inv, TypeOK
<1>2. LogRouted' /\ LastSeqBound' /\ SequencesIncrease'
  BY DEF Inv, LogRouted, LastSeqBound, SequencesIncrease, Routable, Stream
<1>3. QueueRouted'
  BY DEF Inv, QueueRouted
<1>4. ReceiptStoreOK'
  BY DEF Inv, ReceiptStoreOK
<1> QED BY <1>1, <1>2, <1>3, <1>4 DEF Inv

LEMMA PullInv ==
  ASSUME NEW p \in Peer, NEW n, Inv, Pull(p, n)
  PROVE  Inv'
<1> DEFINE e == p.endpoint
<1>1. e \in Endpoint
  BY EndpointAssumption DEF Pull, RequirePeer
<1>2. Retained(e, now) \subseteq queue[e] /\ queue[e] \subseteq DOMAIN log
  BY <1>1, RetainedSubset DEF Inv, TypeOK
<1>3. /\ queue' \in [Endpoint -> SUBSET (DOMAIN log)]
      /\ \A d \in Endpoint : queue'[d] \subseteq queue[d]
  BY <1>1, <1>2 DEF Inv, TypeOK, Pull
<1>4. Oldest(Retained(e, now), n) \subseteq queue[e]
  BY <1>2, OldestSubset
<1>5. delivered' \subseteq Peer \X DOMAIN log
  BY <1>2, <1>4 DEF Inv, TypeOK, Pull
<1>6. Isolation'
  <2>1. ASSUME NEW d \in delivered', d \notin delivered
        PROVE  d[1] = p /\ d[2] \in queue[e]
    BY <1>4, <2>1 DEF Pull
  <2>2. \A i \in queue[e] : i \in DOMAIN log /\ log[i].dst = e
    BY <1>1, <1>2 DEF Inv, QueueRouted
  <2>3. RequirePeer(p) /\ log' = log
    BY DEF Pull
  <2>4. ASSUME NEW i \in queue[e]
        PROVE  /\ e = log[i].dst
               /\ p.org = log[i].org
               /\ log[i].org = OrgOf[log[i].src]
               /\ <<RoleOf[log[i].src], p.role>> \in Route
    BY <2>2, <2>3, <2>4 DEF Inv, LogRouted, Routable, RequirePeer
  <2> QED BY <2>1, <2>3, <2>4 DEF Inv, Isolation, RequirePeer
<1>7. bytes' = [d \in Endpoint |-> bytes'[d]]
  BY DEF Inv, TypeOK, Pull
<1> QED
  BY <1>3, <1>5, <1>6, <1>7, ShrinkInv DEF Inv, TypeOK, Pull, store

LEMMA AcknowledgeInv ==
  ASSUME NEW p \in Peer, NEW id, Inv, Acknowledge(p, id)
  PROVE  Inv'
<1> DEFINE e == p.endpoint
           k == <<OrgOf[e], id>>
<1>1. e \in Endpoint
  BY EndpointAssumption DEF Acknowledge, RequirePeer
<1>2. Retained(e, now) \subseteq queue[e] /\ queue[e] \subseteq DOMAIN log
  BY <1>1, RetainedSubset DEF Inv, TypeOK
<1>3. PICK i \in Retained(e, now) :
        /\ queue' = [queue EXCEPT ![e] = Retained(e, now) \ {i}]
        /\ bytes' = [bytes EXCEPT ![e] = RetainedBytes(e, now) - log[i].len]
        /\ acked' = acked \cup {i}
        /\ receipts' = [x \in DOMAIN receipts |->
                          IF x = k THEN [receipts[x] EXCEPT !.state = "acknowledged",
                                                            !.dst = e]
                                   ELSE receipts[x]]
  BY DEF Acknowledge
<1>4. /\ queue' \in [Endpoint -> SUBSET (DOMAIN log)]
      /\ \A d \in Endpoint : queue'[d] \subseteq queue[d]
  BY <1>1, <1>2, <1>3 DEF Inv, TypeOK
<1>5. \A d \in Endpoint : \A j \in queue'[d] : j \in acked' => j \in acked
  <2>1. \A d \in Endpoint : d # e => i \notin queue[d]
    BY <1>1, <1>2 DEF Inv, QueueRouted
  <2>2. \A d \in Endpoint : i \notin queue'[d]
    BY <1>1, <1>3, <1>4, <2>1 DEF Inv, TypeOK
  <2> QED BY <1>3, <2>2
<1>6. acked' \subseteq DOMAIN log
  BY <1>2, <1>3 DEF Inv, TypeOK
<1>7. /\ DOMAIN receipts' = DOMAIN receipts
      /\ receipts' = [x \in DOMAIN receipts' |-> receipts'[x]]
      /\ \A x \in DOMAIN receipts' :
           receipts'[x] \in [frame : Frame, state : {"queued", "acknowledged"},
                             dst : Endpoint]
  BY <1>1, <1>3 DEF Inv, TypeOK
<1>8. bytes' = [d \in Endpoint |-> bytes'[d]]
  BY <1>3 DEF Inv, TypeOK
<1>9. Isolation' /\ UNCHANGED <<log, lastSeq, receiptOrder, now, delivered>>
  BY DEF Inv, Isolation, RequirePeer, Acknowledge
<1> QED
  BY <1>4, <1>5, <1>6, <1>7, <1>8, <1>9, ShrinkInv DEF Inv, TypeOK

LEMMA AcknowledgeUnknownInv ==
  ASSUME NEW p \in Peer, NEW id, Inv, AcknowledgeUnknown(p, id)
  PROVE  Inv'
<1> DEFINE e == p.endpoint
<1>1. e \in Endpoint
  BY EndpointAssumption DEF AcknowledgeUnknown, RequirePeer
<1>2. Retained(e, now) \subseteq queue[e] /\ queue[e] \subseteq DOMAIN log
  BY <1>1, RetainedSubset DEF Inv, TypeOK
<1>3. /\ queue' \in [Endpoint -> SUBSET (DOMAIN log)]
      /\ \A d \in Endpoint : queue'[d] \subseteq queue[d]
  BY <1>1, <1>2 DEF Inv, TypeOK, AcknowledgeUnknown
<1>4. bytes' = [d \in Endpoint |-> bytes'[d]]
  BY DEF Inv, TypeOK, AcknowledgeUnknown
<1>5. Isolation' /\ UNCHANGED <<store, now, log, delivered, acked>>
  BY DEF Inv, Isolation, RequirePeer, AcknowledgeUnknown
<1> QED
  BY <1>3, <1>4, <1>5, ShrinkInv DEF Inv, TypeOK, store

LEMMA TickInv == Inv /\ Tick => Inv'
<1> SUFFICES ASSUME Inv, Tick PROVE Inv'
  OBVIOUS
<1>1. Isolation' /\ now' \in Nat /\ UNCHANGED <<queue, bytes, store, log, delivered, acked>>
  BY DEF Inv, TypeOK, Isolation, RequirePeer, Tick
<1> QED
  BY <1>1, ShrinkInv DEF Inv, TypeOK, store

LEMMA StutterInv == Inv /\ UNCHANGED vars => Inv'
<1> SUFFICES ASSUME Inv, UNCHANGED vars PROVE Inv'
  OBVIOUS
<1>1. Isolation'
  BY DEF Inv, Isolation, RequirePeer, vars
<1> QED
  BY <1>1, ShrinkInv DEF Inv, TypeOK, store, vars

LEMMA StepInv == Inv /\ [Next]_vars => Inv'
<1> SUFFICES ASSUME Inv, [Next]_vars PROVE Inv'
  OBVIOUS
<1>1. CASE \E p \in Peer, f \in Frame : Publish(p, f)
  BY <1>1, PublishInv
<1>2. CASE \E p \in Peer, n \in 1..MaxPull : Pull(p, n)
  BY <1>2, PullInv
<1>3. CASE \E p \in Peer, id \in FrameIds : Acknowledge(p, id)
  BY <1>3, AcknowledgeInv
<1>4. CASE \E p \in Peer, id \in FrameIds : AcknowledgeUnknown(p, id)
  BY <1>4, AcknowledgeUnknownInv
<1>5. CASE Tick
  BY <1>5, TickInv
<1>6. CASE UNCHANGED vars
  BY <1>6, StutterInv
<1> QED BY <1>1, <1>2, <1>3, <1>4, <1>5, <1>6 DEF Next

\* The invariant the theorems below rest on holds in every reachable state.
THEOREM Invariance == Spec => []Inv
<1>1. Init => Inv
  BY InitInv
<1>2. Inv /\ [Next]_vars => Inv'
  BY StepInv
<1> QED BY <1>1, <1>2, PTL DEF Spec

-----------------------------------------------------------------------------
\* Type correctness of the relay core.
THEOREM TypeCorrect == Spec => []TypeOK
<1>1. Inv => TypeOK
  BY DEF Inv
<1> QED BY <1>1, Invariance, PTL

\* Frames of one source and session are accepted in increasing sequence order
\* only, however many receipts the bounded store has evicted: the replay
\* protection of publish does not depend on the idempotency records.
THEOREM NoReplay == Spec => []SequencesIncrease
<1>1. Inv => SequencesIncrease
  BY DEF Inv
<1> QED BY <1>1, Invariance, PTL

\* The receipt store stays bounded and agrees with its eviction order.
THEOREM ReceiptsBounded == Spec => []ReceiptStoreOK
<1>1. Inv => ReceiptStoreOK
  BY DEF Inv
<1> QED BY <1>1, Invariance, PTL

\* Only an authenticated peer at the destination, in the organization of the
\* source and over an allowed route, is ever handed a frame.
THEOREM DeliveryIsolated == Spec => []Isolation
<1>1. Inv => Isolation
  BY DEF Inv
<1> QED BY <1>1, Invariance, PTL

\* A frame its destination acknowledged is never queued for it again.
THEOREM NoRequeueAfterAck == Spec => []AcknowledgedStaysGone
<1>1. Inv => AcknowledgedStaysGone
  <2> SUFFICES ASSUME Inv, NEW i \in acked, NEW e \in Endpoint, NEW j \in queue[e],
                      log[i] = log[j]
               PROVE  FALSE
    BY DEF AcknowledgedStaysGone
  <2>1. i \in DOMAIN log /\ j \in DOMAIN log /\ j \notin acked
    BY DEF Inv, TypeOK, QueueRouted
  <2>2. i \in Int /\ j \in Int /\ i # j /\ log[i].seq \in Nat
    BY <2>1, FrameAssumption DEF Inv, TypeOK
  <2>3. Stream(log[i]) = Stream(log[j]) /\ log[i].seq = log[j].seq
    OBVIOUS
  <2> QED BY <2>1, <2>2, <2>3 DEF Inv, SequencesIncrease
<1> QED BY <1>1, Invariance, PTL

\* A full queue rejects; it never makes room by dropping a live frame.
THEOREM NothingDropped == Spec => NoSilentDrop
<1> DEFINE Kept == \A e \in Endpoint : \A i \in queue[e] \ queue'[e] :
                     i \in acked' \/ now >= log[i].expires
<1>1. Inv /\ [Next]_vars => [Kept]_vars
  <2> SUFFICES ASSUME Inv, Next PROVE Kept
    OBVIOUS
  <2> USE DEF Inv, TypeOK
  <2>1. ASSUME NEW p \in Peer, NEW f \in Frame, Publish(p, f) PROVE Kept
    BY <2>1, EndpointAssumption DEF Publish, Routable
  <2>2. ASSUME NEW d \in Endpoint, NEW i \in queue[d],
               ~ (now >= log[i].expires)
        PROVE  i \in Retained(d, now)
    BY <2>2, FrameAssumption DEF Retained
  <2>3. ASSUME NEW p \in Peer, NEW n \in 1..MaxPull, Pull(p, n) PROVE Kept
    BY <2>2, <2>3, EndpointAssumption DEF Pull, RequirePeer
  <2>4. ASSUME NEW p \in Peer, NEW id \in FrameIds, Acknowledge(p, id) PROVE Kept
    <3> DEFINE e == p.endpoint
    <3>1. e \in Endpoint
      BY <2>4, EndpointAssumption DEF Acknowledge, RequirePeer
    <3>2. PICK i \in Retained(e, now) :
            /\ queue' = [queue EXCEPT ![e] = Retained(e, now) \ {i}]
            /\ acked' = acked \cup {i}
      BY <2>4 DEF Acknowledge
    <3>3. ASSUME NEW d \in Endpoint, NEW j \in queue[d] \ queue'[d],
                 ~ (now >= log[j].expires)
          PROVE  j \in acked'
      BY <2>2, <3>1, <3>2, <3>3
    <3> QED BY <3>3
  <2>5. ASSUME NEW p \in Peer, NEW id \in FrameIds, AcknowledgeUnknown(p, id) PROVE Kept
    BY <2>2, <2>5, EndpointAssumption DEF AcknowledgeUnknown, RequirePeer
  <2>6. CASE Tick
    BY <2>6 DEF Tick
  <2> QED BY <2>1, <2>3, <2>4, <2>5, <2>6 DEF Next
<1> QED BY <1>1, Invariance, PTL DEF Spec, NoSilentDrop

-----------------------------------------------------------------------------
(* What a retransmission is told.                                          *)

\* i is the last accepted frame with key k.
IsLast(k, i) ==
  /\ i \in DOMAIN log /\ Key(log[i]) = k
  /\ \A j \in DOMAIN log : Key(log[j]) = k => j <= i

\* The receipt of a key tells the truth about the accepted frame i.
Tells(k, i) ==
  /\ receipts[k].frame = log[i]
  /\ receipts[k].state = "queued" =>
       /\ receipts[k].dst = log[i].dst
       /\ i \notin acked /\ (i \in queue[log[i].dst] \/ now >= log[i].expires)
  /\ receipts[k].state = "acknowledged" =>
       \E j \in acked : Key(log[j]) = k /\ log[j].dst = receipts[k].dst

ReceiptInv == \A k \in DOMAIN receipts : \E i \in DOMAIN log : IsLast(k, i) /\ Tells(k, i)

LEMMA LastIs ==
  ASSUME Inv, NEW k, NEW i, IsLast(k, i)
  PROVE  LastWithKey(k) = i
<1> DEFINE S == {j \in DOMAIN log : Key(log[j]) = k}
<1>1. S \subseteq Int
  BY DEF Inv, TypeOK
<1>2. i \in S /\ \A j \in S : i >= j
  BY <1>1 DEF IsLast
<1>3. \A x \in S : (\A j \in S : x >= j) => x = i
  BY <1>1, <1>2
<1>4. LastWithKey(k) = CHOOSE x \in S : \A j \in S : x >= j
  BY DEF LastWithKey, Max
<1> HIDE DEF S
<1> QED BY <1>2, <1>3, <1>4, Zenon

\* The new receipt is of the new frame, and those that are kept are of others.
LEMMA PublishReceipts ==
  ASSUME Inv, ReceiptInv, NEW p \in Peer, NEW f \in Frame, Publish(p, f)
  PROVE  ReceiptInv'
<1>0. PICK n : n = Len(log) + 1
  OBVIOUS
<1> DEFINE r == [frame |-> f, state |-> "queued", dst |-> f.dst]
<1>1. /\ DOMAIN log' = DOMAIN log \cup {n} /\ n \notin DOMAIN log /\ log'[n] = f
      /\ \A i \in DOMAIN log : log'[i] = log[i] /\ i < n
      /\ \A i \in DOMAIN log : i \in Int
      /\ n \in Int /\ n \notin acked
  BY <1>0 DEF Inv, TypeOK, Publish
<1>2. /\ UNCHANGED <<now, acked>> /\ f.dst \in Endpoint
      /\ queue' = [queue EXCEPT ![f.dst] = @ \cup {n}]
      /\ Key(f) \notin DOMAIN receipts
  BY <1>0, EndpointAssumption DEF Publish, Routable
<1>3. /\ n \in queue'[f.dst]
      /\ \A e \in Endpoint : queue[e] \subseteq queue'[e]
  BY <1>2 DEF Inv, TypeOK
<1>4. /\ \A k \in DOMAIN receipts' : k = Key(f) \/ (k \in DOMAIN receipts /\ k # Key(f))
      /\ receipts'[Key(f)] = r
      /\ \A k \in DOMAIN receipts' : k # Key(f) => receipts'[k] = receipts[k]
  <2>1. \E K \in SUBSET DOMAIN receipts :
          receipts' = [x \in K \cup {Key(f)} |-> IF x = Key(f) THEN r ELSE receipts[x]]
    BY DEF Publish, Remember
  <2> HIDE DEF r
  <2> QED BY <1>2, <2>1
<1>5. r.frame = f /\ r.dst = f.dst /\ r.state = "queued" /\ r.state # "acknowledged"
  OBVIOUS
<1> HIDE DEF r
<1> SUFFICES ASSUME NEW k \in DOMAIN receipts'
             PROVE  \E i \in DOMAIN log' : IsLast(k, i)' /\ Tells(k, i)'
  BY DEF ReceiptInv
<1>6. CASE k = Key(f)
  <2>1. IsLast(k, n)'
    BY <1>1, <1>6 DEF IsLast, Key
  <2>2. Tells(k, n)'
    BY <1>1, <1>2, <1>3, <1>4, <1>5, <1>6 DEF Tells
  <2> QED BY <1>1, <2>1, <2>2
<1>7. CASE k # Key(f)
  <2>1. k \in DOMAIN receipts /\ receipts'[k] = receipts[k]
    BY <1>4, <1>7
  <2>2. PICK i \in DOMAIN log : IsLast(k, i) /\ Tells(k, i)
    BY <2>1 DEF ReceiptInv
  <2>3. IsLast(k, i)'
    BY <1>1, <1>7, <2>2 DEF IsLast, Key
  <2>4. log[i].dst \in Endpoint
    BY EndpointAssumption DEF Inv, LogRouted, Routable
  <2>5. Tells(k, i)'
    <3>1. \A j \in acked : j \in DOMAIN log /\ log'[j] = log[j]
      BY <1>1 DEF Inv, TypeOK
    <3>2. log'[i] = log[i]
      BY <1>1
    <3> QED BY <1>2, <1>3, <2>1, <2>2, <2>4, <3>1, <3>2 DEF Tells, Key
  <2> QED BY <1>1, <2>3, <2>5
<1> QED BY <1>6, <1>7

\* Queues lose only what has expired, and receipts stay.
LEMMA ExpireReceipts ==
  ASSUME Inv, ReceiptInv, UNCHANGED <<log, receipts, acked>>, now' \in Nat, now <= now',
         \A e \in Endpoint : \A i \in queue[e] : i \in queue'[e] \/ now' >= log[i].expires
  PROVE  ReceiptInv'
<1> SUFFICES ASSUME NEW k \in DOMAIN receipts
             PROVE  \E i \in DOMAIN log : IsLast(k, i)' /\ Tells(k, i)'
  BY DEF ReceiptInv
<1>1. PICK i \in DOMAIN log : IsLast(k, i) /\ Tells(k, i)
  BY DEF ReceiptInv
<1>2. log[i].dst \in Endpoint /\ log[i].expires \in Nat /\ now \in Nat
  <2>1. log[i] \in Frame /\ now \in Nat
    BY DEF Inv, TypeOK
  <2>2. log[i].dst \in Endpoint
    BY EndpointAssumption DEF Inv, LogRouted, Routable
  <2> QED BY <2>1, <2>2, FrameAssumption
<1>3. IsLast(k, i)'
  BY <1>1 DEF IsLast, Key
<1>4. Tells(k, i)'
  BY <1>1, <1>2 DEF Tells, Key
<1> QED BY <1>3, <1>4

LEMMA AcknowledgeReceipts ==
  ASSUME Inv, ReceiptInv, NEW p \in Peer, NEW id, Acknowledge(p, id)
  PROVE  ReceiptInv'
<1> DEFINE e == p.endpoint
           k == <<OrgOf[e], id>>
<1>1. e \in Endpoint
  BY EndpointAssumption DEF Acknowledge, RequirePeer
<1>2. PICK i \in Retained(e, now) :
        /\ log[i].id = id
        /\ queue' = [queue EXCEPT ![e] = Retained(e, now) \ {i}]
        /\ acked' = acked \cup {i}
        /\ receipts' = [x \in DOMAIN receipts |->
                          IF x = k THEN [receipts[x] EXCEPT !.state = "acknowledged",
                                                            !.dst = e]
                                   ELSE receipts[x]]
        /\ UNCHANGED <<log, now>>
  BY DEF Acknowledge
<1>3. i \in queue[e] /\ i \in DOMAIN log /\ log[i].dst = e
  BY <1>1, RetainedSubset DEF Inv, TypeOK, QueueRouted
<1>4. Key(log[i]) = k
  BY <1>2, <1>3 DEF Inv, LogRouted, Routable, Key
<1> HIDE DEF k
<1>5. \A j \in queue[e] : j # i => j \in queue'[e] \/ now >= log[j].expires
  <2>1. \A j \in queue[e] : j \in Retained(e, now) \/ now >= log[j].expires
    BY <1>1, FrameAssumption DEF Inv, TypeOK, Retained
  <2>2. queue'[e] = Retained(e, now) \ {i}
    BY <1>1, <1>2 DEF Inv, TypeOK
  <2> QED BY <2>1, <2>2
<1> SUFFICES ASSUME NEW x \in DOMAIN receipts
             PROVE  \E j \in DOMAIN log : IsLast(x, j)' /\ Tells(x, j)'
  BY <1>2 DEF ReceiptInv
<1>6. PICK j \in DOMAIN log : IsLast(x, j) /\ Tells(x, j)
  BY DEF ReceiptInv
<1>7. IsLast(x, j)'
  BY <1>2, <1>6 DEF IsLast, Key
<1>8. Tells(x, j)'
  <2>1. CASE x = k
    <3>1. /\ receipts'[x].state = "acknowledged" /\ receipts'[x].dst = e
          /\ receipts'[x].frame = receipts[x].frame
      BY <1>2, <2>1 DEF Inv, TypeOK
    <3> QED BY <1>2, <1>3, <1>4, <1>6, <2>1, <3>1 DEF Tells, Key
  <2>2. CASE x # k
    <3>1. receipts'[x] = receipts[x] /\ j # i
      BY <1>2, <1>4, <1>6, <2>2 DEF IsLast
    <3>2. log[j].dst \in Endpoint
      BY EndpointAssumption DEF Inv, LogRouted, Routable
    <3>3. log[j].dst # e => queue'[log[j].dst] = queue[log[j].dst]
      BY <1>2, <3>2 DEF Inv, TypeOK
    <3> QED BY <1>2, <1>5, <1>6, <3>1, <3>3 DEF Tells, Key
  <2> QED BY <2>1, <2>2
<1> QED BY <1>7, <1>8

LEMMA ReceiptStep == Inv /\ ReceiptInv /\ [Next]_vars => ReceiptInv'
<1> SUFFICES ASSUME Inv, ReceiptInv, [Next]_vars PROVE ReceiptInv'
  OBVIOUS
<1>0. now \in Nat /\ now <= now
  BY DEF Inv, TypeOK
<1>1. ASSUME NEW e \in Endpoint, NEW i \in queue[e]
      PROVE  i \in Retained(e, now) \/ now >= log[i].expires
  BY FrameAssumption DEF Inv, TypeOK, Retained
<1>2. ASSUME NEW p \in Peer, NEW n, Pull(p, n) PROVE ReceiptInv'
  <2>1. p.endpoint \in Endpoint
    BY <1>2, EndpointAssumption DEF Pull, RequirePeer
  <2>2. \A e \in Endpoint : \A i \in queue[e] : i \in queue'[e] \/ now >= log[i].expires
    BY <1>1, <1>2, <2>1 DEF Pull, Inv, TypeOK
  <2> QED BY <1>0, <1>2, <2>2, ExpireReceipts DEF Pull, store
<1>3. ASSUME NEW p \in Peer, NEW id, AcknowledgeUnknown(p, id) PROVE ReceiptInv'
  <2>1. p.endpoint \in Endpoint
    BY <1>3, EndpointAssumption DEF AcknowledgeUnknown, RequirePeer
  <2>2. \A e \in Endpoint : \A i \in queue[e] : i \in queue'[e] \/ now >= log[i].expires
    BY <1>1, <1>3, <2>1 DEF AcknowledgeUnknown, Inv, TypeOK
  <2> QED BY <1>0, <1>3, <2>2, ExpireReceipts DEF AcknowledgeUnknown, store
<1>4. CASE Tick
  BY <1>0, <1>4, ExpireReceipts DEF Tick, store
<1>5. CASE UNCHANGED vars
  BY <1>0, <1>5, ExpireReceipts DEF vars, store
<1> QED BY <1>2, <1>3, <1>4, <1>5, PublishReceipts, AcknowledgeReceipts DEF Next

\* A retransmission is answered from the receipt of its key, through every
\* eviction, expiry and acknowledgement: _remember_receipt, _discard_expired
\* and acknowledge never leave a record that says "queued" of a frame that is
\* gone before its time, and a record that says "acknowledged" names a
\* destination that acknowledged a frame with this key, which need not be the
\* last one where an evicted key was used again.
THEOREM ReceiptsTrue == Spec => []ReceiptTruth
<1>1. Init => ReceiptInv
  BY DEF Init, ReceiptInv
<1>2. Inv /\ ReceiptInv /\ [Next]_vars => ReceiptInv'
  BY ReceiptStep
<1>3. Inv /\ ReceiptInv => ReceiptTruth
  <2> SUFFICES ASSUME Inv, ReceiptInv, NEW k \in DOMAIN receipts
               PROVE  LET i == LastWithKey(k)  r == receipts[k] IN
                      /\ r.frame = log[i]
                      /\ r.state = "queued" =>
                           /\ r.dst = log[i].dst
                           /\ i \notin acked
                           /\ i \in queue[log[i].dst] \/ now >= log[i].expires
                      /\ r.state = "acknowledged" =>
                           \E j \in acked : Key(log[j]) = k /\ log[j].dst = r.dst
    BY DEF ReceiptTruth
  <2>1. PICK i \in DOMAIN log : IsLast(k, i) /\ Tells(k, i)
    BY DEF ReceiptInv
  <2>2. LastWithKey(k) = i
    BY <2>1, LastIs
  <2> QED BY <2>1, <2>2 DEF Tells
<1> QED BY <1>1, <1>2, <1>3, Invariance, PTL DEF Spec

-----------------------------------------------------------------------------
(* The limit of a queue.                                                   *)

QueuesBounded == \A e \in Endpoint : IsFiniteSet(queue[e]) /\ Cardinality(queue[e]) <= MaxFrames

LEMMA BoundedStep == Inv /\ QueuesBounded /\ [Next]_vars => QueuesBounded'
<1> SUFFICES ASSUME Inv, QueuesBounded, [Next]_vars, NEW e \in Endpoint
             PROVE  IsFiniteSet(queue'[e]) /\ Cardinality(queue'[e]) <= MaxFrames
  BY DEF QueuesBounded
<1>1. IsFiniteSet(queue[e]) /\ Cardinality(queue[e]) \in Nat
      /\ Cardinality(queue[e]) <= MaxFrames /\ MaxFrames \in Nat
  BY FS_CardinalityType, LimitAssumption DEF QueuesBounded
<1>2. ASSUME queue'[e] \subseteq queue[e]
      PROVE  IsFiniteSet(queue'[e]) /\ Cardinality(queue'[e]) <= MaxFrames
  <2>1. IsFiniteSet(queue'[e]) /\ Cardinality(queue'[e]) <= Cardinality(queue[e])
    BY <1>1, <1>2, FS_Subset
  <2>2. Cardinality(queue'[e]) \in Nat
    BY <2>1, FS_CardinalityType
  <2> QED BY <1>1, <2>1, <2>2
<1>3. ASSUME NEW p \in Peer, NEW f \in Frame, Publish(p, f)
      PROVE  IsFiniteSet(queue'[e]) /\ Cardinality(queue'[e]) <= MaxFrames
  <2> DEFINE n == Len(log) + 1
  <2>1. CASE f.dst = e
    <3>1. queue'[e] = queue[e] \cup {n} /\ n \notin queue[e]
          /\ Cardinality(queue[e]) < MaxFrames
      BY <1>3, <2>1 DEF Publish, Inv, TypeOK
    <3>2. Cardinality(queue'[e]) = Cardinality(queue[e]) + 1 /\ IsFiniteSet(queue'[e])
      BY <1>1, <3>1, FS_AddElement
    <3> QED BY <1>1, <3>1, <3>2
  <2>2. CASE f.dst # e
    BY <1>2, <1>3, <2>2 DEF Publish, Inv, TypeOK
  <2> QED BY <2>1, <2>2
<1>4. ASSUME NEW p \in Peer, NEW n, Pull(p, n) PROVE queue'[e] \subseteq queue[e]
  BY <1>4, RetainedSubset DEF Pull, Inv, TypeOK
<1>5. ASSUME NEW p \in Peer, NEW id, Acknowledge(p, id) PROVE queue'[e] \subseteq queue[e]
  <2>1. PICK i : queue' = [queue EXCEPT ![p.endpoint] = Retained(p.endpoint, now) \ {i}]
    BY <1>5 DEF Acknowledge
  <2> QED BY <2>1, RetainedSubset DEF Inv, TypeOK
<1>6. ASSUME NEW p \in Peer, NEW id, AcknowledgeUnknown(p, id)
      PROVE  queue'[e] \subseteq queue[e]
  BY <1>6, RetainedSubset DEF AcknowledgeUnknown, Inv, TypeOK
<1>7. CASE Tick \/ UNCHANGED vars
  BY <1>2, <1>7 DEF Tick, vars
<1> QED BY <1>2, <1>3, <1>4, <1>5, <1>6, <1>7 DEF Next

\* publish refuses when the destination's queue is full, so no queue ever holds
\* more than MaxFrames frames: the part of QueueAccounting that is not a sum.
THEOREM QueuesLimited == Spec => []QueuesBounded
<1>1. Init => QueuesBounded
  <2> SUFFICES ASSUME Init, NEW e \in Endpoint
               PROVE  IsFiniteSet(queue[e]) /\ Cardinality(queue[e]) <= MaxFrames
    BY DEF QueuesBounded
  <2>1. queue[e] = {}
    BY DEF Init
  <2> QED BY <2>1, FS_EmptySet, LimitAssumption
<1>2. Inv /\ QueuesBounded /\ [Next]_vars => QueuesBounded'
  BY BoundedStep
<1> QED BY <1>1, <1>2, Invariance, PTL DEF Spec
-----------------------------------------------------------------------------
(* Sums of bytes.                                                          *)

Below == {p \in Nat \X Nat : p[1] < p[2]}

LEMMA Least ==
  ASSUME NEW T \in SUBSET Nat, T # {}
  PROVE  \E m \in T : \A y \in T : m <= y
<1>1. IsWellFoundedOn(Below, Nat)
  BY NatLessThanWellFounded, Zenon DEF OpToRel, Below
<1>2. PICK x \in T : \A y \in T : ~ (<<y, x>> \in Below)
  BY <1>1, WFMin
<1>3. \A a, b \in Nat : a < b => <<a, b>> \in Below
  BY DEF Below
<1>4. \A y \in T : ~ (y < x)
  BY <1>2, <1>3
<1>5. \A a, b \in Nat : ~ (a < b) => b <= a
  OBVIOUS
<1> QED BY <1>2, <1>4, <1>5

\* Induction up to a number.
LEMMA Induct ==
  ASSUME NEW N \in Nat, NEW S, 0 \in S, \A n \in 1..N : n - 1 \in S => n \in S
  PROVE  0..N \subseteq S
<1> DEFINE T == (0..N) \ S
<1>1. CASE T # {}
  <2>1. PICK m \in T : \A y \in T : m <= y
    <3>1. T \in SUBSET Nat
      OBVIOUS
    <3> HIDE DEF T
    <3> QED BY <1>1, <3>1, Least
  <2>2. m \in 1..N /\ m - 1 \in 0..N
    BY <2>1
  <2>3. m - 1 \notin T
    BY <2>1, <2>2
  <2> QED BY <2>2, <2>3
<1> QED BY <1>1

\* A sum that starts lower and grows less stays lower.
LEMMA OrderedSums ==
  ASSUME NEW N \in Nat, NEW f \in [0..N -> Nat], NEW g \in [0..N -> Nat], f[0] <= g[0],
         \A n \in 1..N : f[n] - f[n - 1] <= g[n] - g[n - 1]
  PROVE  \A n \in 0..N : f[n] <= g[n]
<1> DEFINE S == {n \in 0..N : f[n] <= g[n]}
<1>1. 0 \in S
  OBVIOUS
<1>2. ASSUME NEW n \in 1..N, n - 1 \in S PROVE n \in S
  <2>1. n \in 0..N /\ n - 1 \in 0..N /\ f[n - 1] <= g[n - 1]
    BY <1>2
  <2>2. f[n] \in Nat /\ g[n] \in Nat /\ f[n - 1] \in Nat /\ g[n - 1] \in Nat
    BY <2>1
  <2> QED BY <2>1, <2>2
<1> HIDE DEF S
<1>3. 0..N \subseteq S
  BY <1>1, <1>2, Induct
<1> QED BY <1>3 DEF S

\* Sums that start together and grow alike stay together.
LEMMA SameSums ==
  ASSUME NEW N \in Nat, NEW f \in [0..N -> Nat], NEW g \in [0..N -> Nat], f[0] = g[0],
         \A n \in 1..N : f[n] - f[n - 1] = g[n] - g[n - 1]
  PROVE  \A n \in 0..N : f[n] = g[n]
<1> DEFINE S == {n \in 0..N : f[n] = g[n]}
<1>1. 0 \in S
  OBVIOUS
<1>2. ASSUME NEW n \in 1..N, n - 1 \in S PROVE n \in S
  <2>1. n \in 0..N /\ n - 1 \in 0..N /\ f[n - 1] = g[n - 1]
    BY <1>2
  <2>2. f[n] \in Nat /\ g[n] \in Nat /\ f[n - 1] \in Nat /\ g[n - 1] \in Nat
    BY <2>1
  <2> QED BY <2>1, <2>2
<1> HIDE DEF S
<1>3. 0..N \subseteq S
  BY <1>1, <1>2, Induct
<1> QED BY <1>3 DEF S

\* What the frame at position n adds to the sum over S.
Weight(list, S, n) == IF n \in S THEN list[n].len ELSE 0
Sums(list, S, N, f) ==
  f \in [0..N -> Nat] /\ f[0] = 0 /\ \A n \in 1..N : f[n] = f[n - 1] + Weight(list, S, n)

LEMMA WeightType ==
  ASSUME NEW list \in Seq(Frame), NEW S, NEW n \in 1..Len(list)
  PROVE  Weight(list, S, n) \in Nat
<1>1. list[n] \in Frame
  OBVIOUS
<1> QED BY <1>1, FrameAssumption DEF Weight

LEMMA SumsExist ==
  ASSUME NEW list \in Seq(Frame), NEW S
  PROVE  \E f : Sums(list, S, Len(list), f)
<1> PICK N \in Nat : N = Len(list)
  OBVIOUS
<1> DEFINE T == {m \in 0..N : \E f : Sums(list, S, m, f)}
<1>1. 0 \in T
  <2>1. Sums(list, S, 0, [n \in 0..0 |-> 0])
    BY DEF Sums
  <2> QED BY <2>1
<1>2. ASSUME NEW m \in 1..N, m - 1 \in T PROVE m \in T
  <2>1. PICK f : Sums(list, S, m - 1, f)
    BY <1>2
  <2>2. Weight(list, S, m) \in Nat
    BY WeightType
  <2> PICK w \in Nat : w = Weight(list, S, m)
    BY <2>2
  <2> PICK g : g = [n \in 0..m |-> IF n = m THEN f[m - 1] + w ELSE f[n]]
    OBVIOUS
  <2>3. f \in [0..(m - 1) -> Nat] /\ f[0] = 0
        /\ \A n \in 1..(m - 1) : f[n] = f[n - 1] + Weight(list, S, n)
    BY <2>1 DEF Sums
  <2>4. g \in [0..m -> Nat] /\ g[0] = 0 /\ g[m] = g[m - 1] + w
    BY <2>3
  <2>5. ASSUME NEW n \in 1..m, n # m PROVE g[n] = g[n - 1] + Weight(list, S, n)
    <3>1. n \in 1..(m - 1) /\ n \in 0..m /\ n - 1 \in 0..m /\ n - 1 # m
      BY <2>5
    <3>2. g[n] = f[n] /\ g[n - 1] = f[n - 1]
      BY <2>5, <3>1
    <3> QED BY <2>3, <3>1, <3>2
  <2>6. Sums(list, S, m, g)
    BY <2>4, <2>5 DEF Sums
  <2>7. m \in 0..N
    OBVIOUS
  <2> QED BY <2>6, <2>7
<1> HIDE DEF T
<1>3. 0..N \subseteq T
  BY <1>1, <1>2, Induct
<1>4. N \in T
  BY <1>3
<1> QED BY <1>4 DEF T

\* BytesOf is what it is meant to be: the last of the running sums.
LEMMA BytesAreSums ==
  ASSUME NEW list \in Seq(Frame), NEW S
  PROVE  \E f : Sums(list, S, Len(list), f) /\ BytesOf(list, S) = f[Len(list)]
<1> PICK N \in Nat : N = Len(list)
  OBVIOUS
<1> DEFINE Running(f) ==
      f = [n \in 0..N |-> IF n = 0 THEN 0 ELSE f[n - 1] + (IF n \in S THEN list[n].len ELSE 0)]
<1>1. PICK f : Sums(list, S, N, f)
  BY SumsExist
<1>2. Running(f)
  <2>1. f = [n \in 0..N |-> f[n]] /\ f[0] = 0
    BY <1>1 DEF Sums
  <2>2. ASSUME NEW n \in 0..N
        PROVE  f[n] = IF n = 0 THEN 0 ELSE f[n - 1] + (IF n \in S THEN list[n].len ELSE 0)
    <3>1. f[0] = 0 /\ \A j \in 1..N : f[j] = f[j - 1] + Weight(list, S, j)
      BY <1>1 DEF Sums
    <3>2. CASE n = 0
      BY <3>1, <3>2
    <3>3. CASE n # 0
      <4>1. n \in 1..N
        BY <3>3
      <4>2. f[n] = f[n - 1] + Weight(list, S, n)
        BY <3>1, <4>1
      <4> QED BY <3>3, <4>2, Zenon DEF Weight
    <3> QED BY <3>2, <3>3
  <2> QED BY <2>1, <2>2
<1>3. PICK g : g = (CHOOSE h : h = [n \in 0..N |-> IF n = 0 THEN 0
                                      ELSE h[n - 1] + (IF n \in S THEN list[n].len ELSE 0)])
               /\ BytesOf(list, S) = g[N]
  BY Zenon DEF BytesOf
<1>4. Running(g)
  BY <1>2, <1>3, Zenon
<1>5. /\ g[0] = 0 /\ DOMAIN g = 0..N /\ g = [n \in 0..N |-> g[n]]
      /\ \A n \in 1..N : g[n] = g[n - 1] + Weight(list, S, n)
  <2>1. ASSUME NEW n \in 1..N PROVE g[n] = g[n - 1] + Weight(list, S, n)
    BY <1>4 DEF Weight
  <2>2. g[0] = 0 /\ DOMAIN g = 0..N
    BY <1>4
  <2>3. g = [n \in DOMAIN g |-> g[n]]
    BY <1>4, Zenon
  <2> QED BY <2>1, <2>2, <2>3
<1>6. \A n \in 0..N : g[n] \in Nat
  <2> DEFINE T == {n \in 0..N : g[n] \in Nat}
  <2>1. 0 \in T
    BY <1>5
  <2>2. ASSUME NEW n \in 1..N, n - 1 \in T PROVE n \in T
    <3>1. Weight(list, S, n) \in Nat
      BY WeightType
    <3> QED BY <1>5, <2>2, <3>1
  <2> HIDE DEF T
  <2>3. 0..N \subseteq T
    BY <2>1, <2>2, Induct
  <2> QED BY <2>3 DEF T
<1>7. Sums(list, S, N, g)
  BY <1>5, <1>6 DEF Sums
<1> QED BY <1>3, <1>7

\* Fewer frames hold no more bytes.
LEMMA BytesOfSubset ==
  ASSUME NEW list \in Seq(Frame), NEW S, NEW T \in SUBSET S
  PROVE  BytesOf(list, T) \in Nat /\ BytesOf(list, S) \in Nat /\ BytesOf(list, T) <= BytesOf(list, S)
<1> PICK N \in Nat : N = Len(list)
  OBVIOUS
<1>1. PICK f : Sums(list, T, N, f) /\ BytesOf(list, T) = f[N]
  BY BytesAreSums
<1>2. PICK g : Sums(list, S, N, g) /\ BytesOf(list, S) = g[N]
  BY BytesAreSums
<1>3. \A n \in 1..N : Weight(list, T, n) <= Weight(list, S, n)
  <2> TAKE n \in 1..N
  <2>1. Weight(list, S, n) \in Nat /\ Weight(list, T, n) \in Nat
    BY WeightType
  <2> QED BY <2>1 DEF Weight
<1>4. ASSUME NEW n \in 1..N PROVE f[n] - f[n - 1] <= g[n] - g[n - 1]
  <2>1. n \in 0..N /\ n - 1 \in 0..N
    OBVIOUS
  <2>2. f[n - 1] \in Nat /\ g[n - 1] \in Nat /\ f[n] = f[n - 1] + Weight(list, T, n)
        /\ g[n] = g[n - 1] + Weight(list, S, n)
    BY <1>1, <1>2, <2>1 DEF Sums
  <2>3. Weight(list, T, n) \in Nat /\ Weight(list, S, n) \in Nat
    BY WeightType
  <2> QED BY <1>3, <2>2, <2>3
<1>5. \A n \in 0..N : f[n] <= g[n]
  <2>1. f \in [0..N -> Nat] /\ g \in [0..N -> Nat] /\ f[0] <= g[0]
    BY <1>1, <1>2 DEF Sums
  <2> QED BY <1>4, <2>1, OrderedSums
<1> QED BY <1>1, <1>2, <1>5 DEF Sums

\* One frame holds its bytes.
LEMMA BytesWithout ==
  ASSUME NEW list \in Seq(Frame), NEW S, NEW i \in S, i \in 1..Len(list)
  PROVE  BytesOf(list, S) = BytesOf(list, S \ {i}) + list[i].len
<1> PICK N \in Nat : N = Len(list)
  OBVIOUS
<1> PICK w \in Nat : w = list[i].len
  BY FrameAssumption
<1>1. PICK f : Sums(list, S, N, f) /\ BytesOf(list, S) = f[N]
  BY BytesAreSums
<1>2. PICK g : Sums(list, S \ {i}, N, g) /\ BytesOf(list, S \ {i}) = g[N]
  BY BytesAreSums
<1> PICK h : h = [n \in 0..N |-> IF n >= i THEN g[n] + w ELSE g[n]]
  OBVIOUS
<1>3. g \in [0..N -> Nat] /\ g[0] = 0 /\ f \in [0..N -> Nat] /\ f[0] = 0
  BY <1>1, <1>2 DEF Sums
<1>4. /\ h \in [0..N -> Nat] /\ h[0] = 0
      /\ \A n \in 0..N : h[n] = IF n >= i THEN g[n] + w ELSE g[n]
  BY <1>3
<1>5. ASSUME NEW n \in 1..N PROVE h[n] - h[n - 1] = f[n] - f[n - 1]
  <2>1. n \in 0..N /\ n - 1 \in 0..N
    OBVIOUS
  <2>2. /\ f[n] = f[n - 1] + Weight(list, S, n) /\ g[n] = g[n - 1] + Weight(list, S \ {i}, n)
        /\ f[n - 1] \in Nat /\ g[n - 1] \in Nat
    BY <1>1, <1>2, <1>3, <2>1 DEF Sums
  <2>3. Weight(list, S, n) \in Nat /\ Weight(list, S \ {i}, n) \in Nat
    BY WeightType
  <2>4. CASE n = i
    <3>1. Weight(list, S, n) = w /\ Weight(list, S \ {i}, n) = 0
      BY <2>4 DEF Weight
    <3>2. h[n] = g[n] + w /\ h[n - 1] = g[n - 1]
      BY <1>4, <2>1, <2>4
    <3> QED BY <2>2, <3>1, <3>2
  <2>5. CASE n # i
    <3>1. Weight(list, S, n) = Weight(list, S \ {i}, n)
      BY <2>5 DEF Weight
    <3>2. n >= i <=> n - 1 >= i
      BY <2>5
    <3> QED BY <1>4, <2>1, <2>2, <2>3, <3>1, <3>2
  <2> QED BY <2>4, <2>5
<1>6. \A n \in 0..N : h[n] = f[n]
  <2>1. h \in [0..N -> Nat] /\ f \in [0..N -> Nat] /\ h[0] = f[0]
    BY <1>3, <1>4
  <2> QED BY <1>5, <2>1, SameSums
<1>7. N \in 0..N /\ N >= i
  OBVIOUS
<1>8. f[N] = h[N] /\ h[N] = g[N] + w
  BY <1>4, <1>6, <1>7
<1> QED BY <1>1, <1>2, <1>8

\* A frame that is appended to the list adds its bytes where it is queued.
LEMMA BytesAppended ==
  ASSUME NEW list \in Seq(Frame), NEW x \in Frame, NEW S
  PROVE  BytesOf(Append(list, x), S)
           = BytesOf(list, S) + (IF Len(list) + 1 \in S THEN x.len ELSE 0)
<1> PICK N \in Nat : N = Len(list)
  OBVIOUS
<1> PICK longer : longer = Append(list, x)
  OBVIOUS
<1>0. longer \in Seq(Frame)
  OBVIOUS
<1>1. PICK f : Sums(list, S, N, f) /\ BytesOf(list, S) = f[N]
  BY BytesAreSums
<1>2. /\ Len(longer) = N + 1 /\ longer[N + 1] = x
      /\ \A n \in 1..N : Weight(longer, S, n) = Weight(list, S, n)
  BY DEF Weight
<1>3. PICK g : Sums(longer, S, N + 1, g) /\ BytesOf(longer, S) = g[N + 1]
  BY <1>0, <1>2, BytesAreSums
<1> PICK h : h = [n \in 0..N |-> g[n]]
  OBVIOUS
<1>4. /\ f \in [0..N -> Nat] /\ f[0] = 0 /\ h \in [0..N -> Nat] /\ h[0] = 0
      /\ \A n \in 0..N : h[n] = g[n]
  BY <1>1, <1>3 DEF Sums
<1>5. ASSUME NEW n \in 1..N PROVE h[n] - h[n - 1] = f[n] - f[n - 1]
  <2>1. n \in 0..N /\ n - 1 \in 0..N /\ n \in 1..(N + 1)
    OBVIOUS
  <2>2. f[n] = f[n - 1] + Weight(list, S, n) /\ g[n] = g[n - 1] + Weight(list, S, n)
    BY <1>1, <1>2, <1>3, <2>1 DEF Sums
  <2>3. Weight(list, S, n) \in Nat /\ f[n - 1] \in Nat /\ h[n - 1] \in Nat
    BY <1>4, <2>1, WeightType
  <2> QED BY <1>4, <2>1, <2>2, <2>3
<1>6. \A n \in 0..N : h[n] = f[n]
  <2>1. h \in [0..N -> Nat] /\ f \in [0..N -> Nat] /\ h[0] = f[0]
    BY <1>4
  <2> QED BY <1>5, <2>1, SameSums
<1>7. N \in 0..N
  OBVIOUS
<1>8. g[N] = f[N]
  BY <1>4, <1>6, <1>7
<1>9. g[N + 1] = g[N] + (IF N + 1 \in S THEN x.len ELSE 0)
  <2>1. N + 1 \in 1..(N + 1) /\ N + 1 - 1 = N
    OBVIOUS
  <2>2. g[N + 1] = g[N] + Weight(longer, S, N + 1)
    BY <1>3, <2>1 DEF Sums
  <2> QED BY <1>2, <2>2 DEF Weight
<1> QED BY <1>1, <1>3, <1>8, <1>9

\* Positions beyond the list hold none.
LEMMA BytesOfBeyond ==
  ASSUME NEW list \in Seq(Frame), NEW S
  PROVE  BytesOf(list, S \cup {Len(list) + 1}) = BytesOf(list, S)
<1> PICK N \in Nat : N = Len(list)
  OBVIOUS
<1> PICK T : T = S \cup {N + 1}
  OBVIOUS
<1>1. PICK f : Sums(list, S, N, f) /\ BytesOf(list, S) = f[N]
  BY BytesAreSums
<1>2. PICK g : Sums(list, T, N, g) /\ BytesOf(list, T) = g[N]
  BY BytesAreSums
<1>3. \A n \in 1..N : Weight(list, T, n) = Weight(list, S, n)
  BY DEF Weight
<1>4. f \in [0..N -> Nat] /\ f[0] = 0 /\ g \in [0..N -> Nat] /\ g[0] = 0
  BY <1>1, <1>2 DEF Sums
<1>5. ASSUME NEW n \in 1..N PROVE f[n] - f[n - 1] = g[n] - g[n - 1]
  <2>1. n \in 0..N /\ n - 1 \in 0..N
    OBVIOUS
  <2>2. f[n] = f[n - 1] + Weight(list, S, n) /\ g[n] = g[n - 1] + Weight(list, S, n)
    BY <1>1, <1>2, <1>3 DEF Sums
  <2>3. Weight(list, S, n) \in Nat /\ f[n - 1] \in Nat /\ g[n - 1] \in Nat
    BY <1>4, <2>1, WeightType
  <2> QED BY <2>2, <2>3
<1>6. \A n \in 0..N : f[n] = g[n]
  <2>1. f \in [0..N -> Nat] /\ g \in [0..N -> Nat] /\ f[0] = g[0]
    BY <1>4
  <2> QED BY <1>5, <2>1, SameSums
<1>7. N \in 0..N
  OBVIOUS
<1> QED BY <1>1, <1>2, <1>6, <1>7

LEMMA BytesOfNone ==
  ASSUME NEW list \in Seq(Frame)
  PROVE  BytesOf(list, {}) = 0
<1> PICK N \in Nat : N = Len(list)
  OBVIOUS
<1>1. PICK f : Sums(list, {}, N, f) /\ BytesOf(list, {}) = f[N]
  BY BytesAreSums
<1> PICK h : h = [n \in 0..N |-> 0]
  OBVIOUS
<1>2. f \in [0..N -> Nat] /\ f[0] = 0 /\ h \in [0..N -> Nat] /\ \A n \in 0..N : h[n] = 0
  BY <1>1 DEF Sums
<1>3. ASSUME NEW n \in 1..N PROVE f[n] - f[n - 1] = h[n] - h[n - 1]
  <2>1. n \in 0..N /\ n - 1 \in 0..N
    OBVIOUS
  <2>2. f[n] = f[n - 1] + 0 /\ f[n - 1] \in Nat
    BY <1>1, <1>2, <2>1 DEF Sums, Weight
  <2> QED BY <1>2, <2>1, <2>2
<1>4. \A n \in 0..N : f[n] = h[n]
  <2>1. f \in [0..N -> Nat] /\ h \in [0..N -> Nat] /\ f[0] = h[0]
    BY <1>2
  <2> QED BY <1>3, <2>1, SameSums
<1>5. N \in 0..N /\ h[N] = 0
  BY <1>2
<1> QED BY <1>1, <1>4, <1>5
-----------------------------------------------------------------------------
(* The byte count of a queue.                                              *)

BytesExact == \A e \in Endpoint : bytes[e] = PayloadBytes(queue[e]) /\ bytes[e] <= MaxBytes

\* What _discard_expired leaves is counted right, whether it recounts or not.
LEMMA RetainedExact ==
  ASSUME Inv, BytesExact, NEW e \in Endpoint
  PROVE  /\ RetainedBytes(e, now) = BytesOf(log, Retained(e, now))
         /\ RetainedBytes(e, now) <= MaxBytes
<1> PICK R : R = Retained(e, now)
  OBVIOUS
<1>1. R \in SUBSET queue[e] /\ log \in Seq(Frame)
  BY RetainedSubset DEF Inv, TypeOK
<1>2. bytes[e] = BytesOf(log, queue[e]) /\ bytes[e] <= MaxBytes
  BY DEF BytesExact, PayloadBytes
<1>3. BytesOf(log, R) \in Nat /\ BytesOf(log, queue[e]) \in Nat
      /\ BytesOf(log, R) <= BytesOf(log, queue[e])
  BY <1>1, BytesOfSubset
<1>4. RetainedBytes(e, now) = BytesOf(log, R)
  BY <1>2 DEF RetainedBytes, PayloadBytes
<1> QED BY <1>2, <1>3, <1>4, LimitAssumption

LEMMA ExactStep == Inv /\ BytesExact /\ [Next]_vars => BytesExact'
<1> SUFFICES ASSUME Inv, BytesExact, [Next]_vars PROVE BytesExact'
  OBVIOUS
<1>1. /\ queue \in [Endpoint -> SUBSET (1..Len(log))] /\ log \in Seq(Frame)
      /\ bytes = [e \in Endpoint |-> bytes[e]]
      /\ \A e \in Endpoint : bytes[e] = BytesOf(log, queue[e]) /\ bytes[e] <= MaxBytes
  BY DEF Inv, TypeOK, BytesExact, PayloadBytes
<1>2. ASSUME NEW e \in Endpoint, NEW R, NEW n, log' = log,
             queue' = [queue EXCEPT ![e] = R], bytes' = [bytes EXCEPT ![e] = n],
             n = BytesOf(log, R), n <= MaxBytes
      PROVE  BytesExact'
  <2>1. ASSUME NEW d \in Endpoint
        PROVE  bytes'[d] = BytesOf(log, queue'[d]) /\ bytes'[d] <= MaxBytes
    <3>1. CASE d = e
      BY <1>1, <1>2, <3>1
    <3>2. CASE d # e
      BY <1>1, <1>2, <3>2
    <3> QED BY <3>1, <3>2
  <2> QED BY <1>2, <2>1 DEF BytesExact, PayloadBytes
<1>3. ASSUME NEW p \in Peer, NEW f \in Frame, Publish(p, f) PROVE BytesExact'
  <2>1. /\ log' = Append(log, f) /\ queue' = [queue EXCEPT ![f.dst] = @ \cup {Len(log) + 1}]
        /\ bytes' = [bytes EXCEPT ![f.dst] = @ + f.len] /\ bytes[f.dst] + f.len <= MaxBytes
    BY <1>3 DEF Publish
  <2>2. ASSUME NEW e \in Endpoint
        PROVE  bytes'[e] = BytesOf(log', queue'[e]) /\ bytes'[e] <= MaxBytes
    <3>1. Len(log) + 1 \notin queue[e]
      BY <1>1
    <3>2. CASE e = f.dst
      <4> PICK S : S = queue[e] \cup {Len(log) + 1}
        OBVIOUS
      <4>1. BytesOf(log', S) = BytesOf(log, S) + f.len
        BY <1>1, <2>1, BytesAppended
      <4>2. BytesOf(log, S) = BytesOf(log, queue[e])
        BY <1>1, BytesOfBeyond
      <4>3. queue'[e] = S /\ bytes'[e] = bytes[e] + f.len
        BY <1>1, <2>1, <3>2
      <4> QED BY <1>1, <2>1, <3>2, <4>1, <4>2, <4>3
    <3>3. CASE e # f.dst
      <4>1. queue'[e] = queue[e] /\ bytes'[e] = bytes[e]
        BY <1>1, <2>1, <3>3
      <4>2. BytesOf(log', queue[e]) = BytesOf(log, queue[e]) + 0
        BY <1>1, <2>1, <3>1, BytesAppended
      <4>3. BytesOf(log, queue[e]) \in Nat
        BY <1>1, BytesOfSubset
      <4> QED BY <1>1, <4>1, <4>2, <4>3
    <3> QED BY <3>2, <3>3
  <2> QED BY <2>2 DEF BytesExact, PayloadBytes
<1>4. ASSUME NEW p \in Peer, NEW n, Pull(p, n) PROVE BytesExact'
  <2>1. p.endpoint \in Endpoint
    BY <1>4, EndpointAssumption DEF Pull, RequirePeer
  <2> QED BY <1>2, <1>4, <2>1, RetainedExact DEF Pull
<1>5. ASSUME NEW p \in Peer, NEW id, Acknowledge(p, id) PROVE BytesExact'
  <2> PICK e : e = p.endpoint
    OBVIOUS
  <2> PICK R : R = Retained(e, now)
    OBVIOUS
  <2>1. e \in Endpoint
    BY <1>5, EndpointAssumption DEF Acknowledge, RequirePeer
  <2>2. PICK i \in R : /\ queue' = [queue EXCEPT ![e] = R \ {i}]
                       /\ bytes' = [bytes EXCEPT ![e] = RetainedBytes(e, now) - log[i].len]
                       /\ log' = log
    BY <1>5 DEF Acknowledge
  <2>3. i \in 1..Len(log)
    BY <1>1, <2>1, <2>2, RetainedSubset
  <2>4. BytesOf(log, R) = BytesOf(log, R \ {i}) + log[i].len
    BY <1>1, <2>3, BytesWithout
  <2>5. /\ BytesOf(log, R \ {i}) \in Nat /\ BytesOf(log, R) \in Nat /\ log[i].len \in Nat
    BY <1>1, <2>3, BytesOfSubset, FrameAssumption
  <2>6. RetainedBytes(e, now) = BytesOf(log, R) /\ RetainedBytes(e, now) <= MaxBytes
    BY <2>1, RetainedExact
  <2> PICK n : n = RetainedBytes(e, now) - log[i].len
    OBVIOUS
  <2>7. n = BytesOf(log, R \ {i}) /\ n <= MaxBytes
    BY <2>4, <2>5, <2>6, LimitAssumption
  <2> QED BY <1>2, <2>1, <2>2, <2>7
<1>6. ASSUME NEW p \in Peer, NEW id, AcknowledgeUnknown(p, id) PROVE BytesExact'
  <2>1. p.endpoint \in Endpoint
    BY <1>6, EndpointAssumption DEF AcknowledgeUnknown, RequirePeer
  <2> QED BY <1>2, <1>6, <2>1, RetainedExact DEF AcknowledgeUnknown
<1>7. CASE Tick \/ UNCHANGED vars
  BY <1>7 DEF Tick, vars, BytesExact, PayloadBytes
<1> QED BY <1>3, <1>4, <1>5, <1>6, <1>7 DEF Next

\* The running byte count of a queue, which publish adds to, acknowledge
\* subtracts from and _discard_expired recounts, is always the payload bytes
\* that are queued; and neither limit of a queue is ever exceeded.
THEOREM AccountsExact == Spec => []QueueAccounting
<1>1. Init => BytesExact
  <2> SUFFICES ASSUME Init, NEW e \in Endpoint
               PROVE  bytes[e] = PayloadBytes(queue[e]) /\ bytes[e] <= MaxBytes
    BY DEF BytesExact
  <2>1. queue[e] = {} /\ bytes[e] = 0 /\ log \in Seq(Frame)
    BY DEF Init
  <2> QED BY <2>1, BytesOfNone, LimitAssumption DEF PayloadBytes
<1>2. Inv /\ BytesExact /\ [Next]_vars => BytesExact'
  BY ExactStep
<1>3. BytesExact /\ QueuesBounded => QueueAccounting
  BY DEF BytesExact, QueuesBounded, QueueAccounting
<1> QED BY <1>1, <1>2, <1>3, Invariance, QueuesLimited, PTL DEF Spec
=============================================================================
