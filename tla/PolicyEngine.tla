------------------------------ MODULE PolicyEngine ------------------------------
(***************************************************************************)
(* The policy decision of a request (packages/policy-engine/.../           *)
(* evaluator.py) over a registry of tools (registry.py).  A decision is a  *)
(* function of the request: the first check that fails gives it, and the   *)
(* order of the checks is what keeps a decision that asks for something    *)
(* more, such as a confirmation, from being answered by a later denial.    *)
(*                                                                         *)
(* A request is a record: tool, actor, device, profile, targets, duration, *)
(* at (evaluated_at), plan, and grant, scope, confirmation, each of which  *)
(* may be None.  A plan stands for its hash.  The reason code of a denial  *)
(* is left out.                                                            *)
(***************************************************************************)
EXTENDS Absence, Integers, Sequences, FiniteSets, SequencesExt, FiniteSetsExt

\* What ToolRegistry.register refuses of one manifest.
Registrable(m) ==
  /\ m.risk # "R3"
  /\ m.physical => m.confirmed
  /\ m.risk \in {"R1", "R2"} => m.maxDuration # None
  /\ m.risk = "R2" => m.authorization = "scope" /\ m.confirmed /\ m.roles # {}
  /\ m.maxTargets >= 1
  /\ m.maxDuration # None => m.maxDuration >= 1

\* register: a manifest that is refused, or whose id is taken, changes nothing.
Register(tools, m) ==
  IF Registrable(m) /\ m.tool \notin {t.tool : t \in tools}
    THEN tools \cup {m} ELSE tools

\* The registry after the given manifests were offered, in order.
ToolRegistry(manifests) == FoldLeft(Register, {}, manifests)

\* Actor, device, grant and scope belong to one organization.
OneOrganization(r) ==
  /\ r.actor.org = r.device.org
  /\ r.grant # None => r.actor.org = r.grant.org
  /\ r.scope # None => r.actor.org = r.scope.org

Granted(r) ==
  /\ r.grant # None
  /\ r.grant.enabled
  /\ r.grant.until > r.at
  /\ r.targets \subseteq r.grant.resources

InScope(r) ==
  /\ r.scope.until > r.at
  /\ r.tool \in r.scope.tools
  /\ r.targets \subseteq r.scope.targets

Lasting(r, t) == t.maxDuration # None => r.duration \in 1..t.maxDuration

Confirms(r) ==
  /\ r.confirmation.until > r.at
  /\ r.confirmation.actor = r.actor.id
  /\ r.confirmation.device = r.device.id
  /\ r.confirmation.plan = r.plan

\* The checks in the order of evaluate, each with the decision if it fails.
Checks(r, t) ==
  << [ok |-> OneOrganization(r),              else |-> "deny"],
     [ok |-> r.device.trusted,                else |-> "deny"],
     [ok |-> r.profile = t.profile,           else |-> "require_profile_change"],
     [ok |-> /\ t.roles \subseteq r.actor.roles
             /\ t.capabilities \subseteq r.device.capabilities
             /\ Cardinality(r.targets) \in 1..t.maxTargets,
                                              else |-> "deny"],
     [ok |-> t.authorization = "grant" => Granted(r),
                                              else |-> "deny"],
     [ok |-> t.authorization = "scope" => r.scope # None,
                                              else |-> "require_scope"],
     [ok |-> t.authorization = "scope" /\ r.scope # None => InScope(r),
                                              else |-> "deny"],
     [ok |-> Lasting(r, t),                   else |-> "deny"],
     [ok |-> t.confirmed => r.confirmation # None,
                                              else |-> "allow_with_confirmation"],
     [ok |-> t.confirmed /\ r.confirmation # None => Confirms(r),
                                              else |-> "deny"],
     [ok |-> t.physical => r.confirmation # None /\ r.confirmation.physical,
                                              else |-> "require_physical_confirmation"] >>

\* The decision of the first check that fails.
Decide(checks) ==
  LET failed == {i \in DOMAIN checks : ~ checks[i].ok}
  IN  IF failed = {} THEN "allow" ELSE checks[Min(failed)].else

\* Mutant: a confirmation is asked for before the rest is examined.
EvaluateEager(tools, r) ==
  LET named == {t \in tools : t.tool = r.tool}
  IN  IF named = {} THEN "deny"
      ELSE LET t == CHOOSE x \in named : TRUE IN
           IF t.confirmed /\ r.confirmation = None
             THEN "allow_with_confirmation" ELSE Decide(Checks(r, t))

Evaluate(tools, r) ==
  LET named == {t \in tools : t.tool = r.tool}
  IN  IF named = {} THEN "deny" ELSE Decide(Checks(r, CHOOSE t \in named : TRUE))
=============================================================================
