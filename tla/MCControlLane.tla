----------------------------- MODULE MCControlLane -----------------------------
(***************************************************************************)
(* Constants for model checking ControlLane: a device and an edge, one     *)
(* ordinary frame that fills the ordinary queue, and cancellations of two  *)
(* sessions that compete for the one place of the control queue; for the    *)
(* receipts, cancellations one of which uses an id again.                  *)
(***************************************************************************)
EXTENDS ControlLane, TLC

CONSTANTS dev, edge, org, idA, c1, c2, c3, s1, s2

MCOrgOf  == dev :> org @@ edge :> org
MCRoleOf == dev :> "device" @@ edge :> "edge"
MCOrdinaryRoute == {<<"device", "edge">>, <<"edge", "device">>}

Identity(e, role, auth) ==
  [endpoint |-> e, org |-> org, role |-> role, authenticated |-> auth]
MCPeer == { Identity(dev, "device", TRUE), Identity(edge, "edge", TRUE) }

Message(id, src, dst, session, seq, expires) ==
  [id |-> id, org |-> org, src |-> src, dst |-> dst, session |-> session,
   seq |-> seq, created |-> 0, expires |-> expires, len |-> 1]

MCOrdinaryFrame == { Message(idA, dev, edge, s1, 1, 2) }
MCCancelFrame ==
  { Message(c1, dev, edge, s1, 1, 2), Message(c2, dev, edge, s1, 2, 2),
    Message(c3, dev, edge, s2, 1, 1), Message(c3, edge, dev, s2, 2, 2) }

\* A device that uses an id again after another one.
MCReusedFrame ==
  { Message(c1, dev, edge, s1, 1, 2), Message(c2, dev, edge, s1, 2, 2),
    Message(c1, dev, edge, s1, 3, 2) }

=============================================================================
