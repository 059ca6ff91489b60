--------------------------- MODULE MCPassiveDiscovery ---------------------------
(***************************************************************************)
(* Constants for model checking PassiveDiscovery: an operator with a scope *)
(* that was later renewed under the same id for a shorter time, an         *)
(* operator of another organization, a command id that is reused, and a    *)
(* source that repeats a candidate and holds a foreign one.                *)
(***************************************************************************)
EXTENDS PassiveDiscovery, TLC

CONSTANTS orgA, orgB, ana, bob, devA, devB, scopeA, scopeB, lan, iot,
          id1, printer, camera, stranger

Operator(org, actor, device, scope, until) ==
  [org |-> org, actor |-> actor, device |-> device, scope |-> scope, until |-> until]
MCContext == { Operator(orgA, ana, devA, scopeA, 5), Operator(orgA, ana, devA, scopeA, 2),
               Operator(orgB, bob, devB, scopeB, 3) }

Discover(id, org, actor, device, network, duration, maximum) ==
  [id |-> id, org |-> org, actor |-> actor, device |-> device,
   network |-> network, duration |-> duration, maximum |-> maximum, sentAt |-> 1]
MCRequest ==
  { Discover(id1, orgA, ana, devA, lan, 1, 1), Discover(id1, orgA, ana, devA, lan, 4, 3),
    Discover(id1, orgB, bob, devB, iot, 2, 2) }

MCPermitted == { <<c, n>> \in MCContext \X {lan, iot} : c.org = orgB => n = iot }

Candidate(id, org) == [id |-> id, org |-> org]
MCSource ==
  (lan :> << Candidate(printer, orgA), Candidate(printer, orgA),
             Candidate(camera, orgA), Candidate(stranger, orgB) >>)
  @@ (iot :> << Candidate(stranger, orgB) >>)
=============================================================================
