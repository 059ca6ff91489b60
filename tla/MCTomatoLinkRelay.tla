--------------------------- MODULE MCTomatoLinkRelay ---------------------------
(***************************************************************************)
(* Constants for model checking TomatoLinkRelay: a device and an edge in   *)
(* one organization, an edge of another organization, a disabled edge, and *)
(* peers with a forged organization or without authentication.             *)
(***************************************************************************)
EXTENDS TomatoLinkRelay, TLC

CONSTANTS dev, edge, other, off, orgA, orgB, idA, idB, idC, idD, s1, s2

MCEndpoint == {dev, edge, other, off}
MCEnabled  == {dev, edge, other}
MCOrgOf    == dev :> orgA @@ edge :> orgA @@ off :> orgA @@ other :> orgB
MCRoleOf   == dev :> "device" @@ edge :> "edge" @@ off :> "edge" @@ other :> "edge"
MCRoute    == {<<"device", "edge">>, <<"edge", "device">>}

Identity(e, org, role, auth) ==
  [endpoint |-> e, org |-> org, role |-> role, authenticated |-> auth]

MCPeer ==
  { Identity(dev, orgA, "device", TRUE), Identity(edge, orgA, "edge", TRUE),
    Identity(other, orgB, "edge", TRUE), Identity(edge, orgB, "edge", TRUE),
    Identity(edge, orgA, "edge", FALSE), Identity(off, orgA, "edge", TRUE) }

Message(id, src, dst, session, seq, expires, len) ==
  [id |-> id, org |-> orgA, src |-> src, dst |-> dst, session |-> session,
   seq |-> seq, created |-> 0, expires |-> expires, len |-> len]

\* Three frames of one session to the edge with distinct ids and lifetimes, a
\* changed reuse of the first id with a later sequence, a frame of the other
\* direction, and one addressed across organizations.
MCFrame ==
  { Message(idA, dev, edge, s1, 1, 2, 1),
    Message(idB, dev, edge, s1, 2, 1, 2),
    Message(idC, dev, edge, s1, 3, 2, 1),
    Message(idA, dev, edge, s1, 4, 2, 2),
    Message(idD, edge, dev, s2, 1, 2, 1),
    Message(idD, dev, other, s2, 1, 2, 1) }
=============================================================================
