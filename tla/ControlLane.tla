------------------------------ MODULE ControlLane ------------------------------
(***************************************************************************)
(* The cancellation lane of Tomato Link (services/link-relay/.../          *)
(* control_lane.py) beside the ordinary relay.  Publication, delivery,     *)
(* acknowledgement, expiry and receipts follow the relay's discipline      *)
(* step by step, with limits of its own and only the route from a device   *)
(* to an edge, so both lanes are instances of TomatoLinkRelay.  They share *)
(* the endpoints, the peers and the clock, and no other state.             *)
(***************************************************************************)
EXTENDS Integers, Sequences, FiniteSets

CONSTANTS
  Endpoint, Enabled, OrgOf, RoleOf, Peer,     (* as in TomatoLinkRelay      *)
  OrdinaryFrame, CancelFrame,                 (* what the two lanes carry   *)
  OrdinaryRoute,                              (* routes of ordinary frames  *)
  MaxTTL, MaxFrames, MaxBytes, MaxReceipts, MaxPull,  (* ordinary limits    *)
  MaxControlTTL, MaxControlFrames, MaxControlBytes, MaxControlReceipts,
  MaxControlPull,                             (* MAXIMUM_CONTROL_...        *)
  MaxSkew, MaxTime

VARIABLES
  queue, bytes, receipts, receiptOrder, lastSeq, log, delivered, acked,
  controls, controlBytes, controlReceipts, controlOrder, controlSeq,
  controlLog, controlDelivered, controlAcked,
  now

ordinary == <<queue, bytes, receipts, receiptOrder, lastSeq, log, delivered, acked>>
control  == <<controls, controlBytes, controlReceipts, controlOrder, controlSeq,
              controlLog, controlDelivered, controlAcked>>
vars     == <<ordinary, control, now>>

-----------------------------------------------------------------------------

\* The source role that publish requires and the roles that may be addressed.
ControlRoute == {<<"device", "edge">>}

Relay == INSTANCE TomatoLinkRelay WITH Frame <- OrdinaryFrame, Route <- OrdinaryRoute

Lane == INSTANCE TomatoLinkRelay
  WITH Frame <- CancelFrame, Route <- ControlRoute,
       MaxTTL <- MaxControlTTL, MaxFrames <- MaxControlFrames,
       MaxBytes <- MaxControlBytes, MaxReceipts <- MaxControlReceipts,
       MaxPull <- MaxControlPull,
       queue <- controls, bytes <- controlBytes, receipts <- controlReceipts,
       receiptOrder <- controlOrder, lastSeq <- controlSeq, log <- controlLog,
       delivered <- controlDelivered, acked <- controlAcked

Init == Relay!Init /\ Lane!Init

\* Any call of the ordinary relay.
Ordinary ==
  /\ \/ \E p \in Peer, f \in OrdinaryFrame : Relay!Publish(p, f)
     \/ \E p \in Peer, n \in 1..MaxPull : Relay!Pull(p, n)
     \/ \E p \in Peer, id \in Relay!FrameIds :
          Relay!Acknowledge(p, id) \/ Relay!AcknowledgeUnknown(p, id)
  /\ UNCHANGED control

\* Mutant: a cancellation is refused while the ordinary queue is full.
CancelShared(p, f) ==
  /\ Cardinality(queue[f.dst]) < MaxFrames
  /\ Lane!Publish(p, f)
  /\ UNCHANGED ordinary

Cancel(p, f) == Lane!Publish(p, f) /\ UNCHANGED ordinary
PullControls(p, n) == Lane!Pull(p, n) /\ UNCHANGED ordinary
AcknowledgeControl(p, id) ==
  /\ Lane!Acknowledge(p, id) \/ Lane!AcknowledgeUnknown(p, id)
  /\ UNCHANGED ordinary

Tick ==
  /\ now < MaxTime
  /\ now' = now + 1
  /\ UNCHANGED <<ordinary, control>>

Next ==
  \/ Ordinary
  \/ \E p \in Peer, f \in CancelFrame : Cancel(p, f)
  \/ \E p \in Peer, n \in 1..MaxControlPull : PullControls(p, n)
  \/ \E p \in Peer, id \in Lane!FrameIds : AcknowledgeControl(p, id)
  \/ Tick

Spec == Init /\ [][Next]_vars

\* A device keeps trying to cancel and the edge keeps serving the lane; neither
\* the clock nor anybody on the ordinary lane need ever move.
FairSpec ==
  /\ Spec
  /\ \A p \in Peer, f \in CancelFrame : WF_vars(Cancel(p, f))
  /\ \A p \in Peer : WF_vars(PullControls(p, 1)) /\ WF_vars(Lane!Consume(p) /\ UNCHANGED ordinary)

-----------------------------------------------------------------------------
(* Properties.                                                             *)

\* services/link-relay/README.md: filling the ordinary queue cannot consume
\* cancellation capacity.  A device that keeps trying has its cancellation
\* accepted and the edge is handed it or acknowledges it, unless it expires or
\* the device itself has overtaken it with a later one; the ordinary queue may
\* be full, and stay full, all the time.
Heard(f) ==
  \/ now >= f.expires
  \/ controlSeq[Lane!Stream(f)] > f.seq
  \/ \E i \in controlAcked : controlLog[i] = f
  \/ \E d \in controlDelivered : controlLog[d[2]] = f
CancellationHeard ==
  \A f \in CancelFrame : RoleOf[f.src] = "device" => <>Heard(f)

\* docs/security/tomato-link-session-governance-threat-model.md: acknowledgement
\* means removal from the relay queue.  So no device is told "acknowledged" of
\* a cancellation that the edge has not taken out of its queue.
ReceiptsOfRemoved == Lane!AcknowledgedRemoved
=============================================================================
