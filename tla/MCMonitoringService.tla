-------------------------- MODULE MCMonitoringService --------------------------
(***************************************************************************)
(* Constants for model checking MonitoringService: an operator of one      *)
(* organization on two devices, an operator of another, a command whose id *)
(* is reused with another payload, and a camera whose frames hold a broken *)
(* run, a confirmed run and a frame later than the shortest deadline.      *)
(***************************************************************************)
EXTENDS MonitoringService, TLC

CONSTANTS orgA, orgB, ana, bob, devA, devA2, devB, garage, lobby, id1, id2

Operator(org, actor, device) ==
  [org |-> org, actor |-> actor, device |-> device, deviceOrg |-> org]
MCContext == { Operator(orgA, ana, devA), Operator(orgA, ana, devA2),
               Operator(orgB, bob, devB) }

Monitor(id, org, actor, device, camera, duration, sentAt) ==
  [id |-> id, org |-> org, actor |-> actor, device |-> device,
   camera |-> camera, duration |-> duration, sentAt |-> sentAt]
MCRequest ==
  { Monitor(id1, orgA, ana, devA, garage, 1, 1),
    Monitor(id1, orgA, ana, devA, lobby, 1, 1),
    Monitor(id1, orgB, bob, devB, lobby, 3, 1) }

MCOwnerOf == (garage :> orgA) @@ (lobby :> orgB)
MCOnline == {garage, lobby}
MCPermitted ==
  { <<c, camera>> \in MCContext \X MCOnline : MCOwnerOf[camera] = c.org \/ c.org = orgB }

Frame(at, person) == [at |-> at, person |-> person]
MCFrames == (garage :> << Frame(0, TRUE), Frame(1, FALSE), Frame(1, TRUE),
                          Frame(2, TRUE), Frame(3, TRUE) >>)
         @@ (lobby :> << Frame(1, TRUE), Frame(1, TRUE) >>)
=============================================================================
