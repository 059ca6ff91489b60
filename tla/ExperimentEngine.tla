---------------------------- MODULE ExperimentEngine ----------------------------
(***************************************************************************)
(* The experiment engine (packages/experiment-engine/.../engine.py) with   *)
(* what it asks before an experiment runs: the module registry, the plan   *)
(* and proposal validation (registry.py, plans.py, proposals.py), the      *)
(* policy.                                                                 *)
(*                                                                         *)
(* A plan is named by its contents, which its hash covers.  A call that is *)
(* rejected, and a retry answered from the job, change nothing.  The       *)
(* executors are behind an interface: one may raise while it creates its   *)
(* session, may return a step that the engine refuses, and may return any  *)
(* number of steps, or for ever steps, that do not complete.               *)
(***************************************************************************)
EXTENDS PolicyEngine

CONSTANTS
  Modules,      (* module manifests, in the order of their registration     *)
  Executors,    (* the executors the engine was built with                  *)
  Proposal,     (* proposals of the model, each with the experiment id it   *)
                (* is bound to: exp, module, target, duration               *)
  ModuleAlias, TargetAlias,   (* the binder's reviewed aliases              *)
  Experiment,   (* experiment ids                                           *)
  Operator,     (* authenticated actors: id, org, roles                     *)
  Source,       (* devices: id, org, trusted, capabilities                  *)
  Scope,        (* operation scopes: id, org, tools, targets, until         *)
  Steps,        (* bound of the steps told apart in a finite run            *)
  MayFail       (* whether executors may raise or return a bad step         *)

ASSUME EngineAssumption ==
  /\ Modules \in Seq({Modules[i] : i \in DOMAIN Modules})
  /\ \A q \in Proposal : q.exp \in Experiment
  /\ Steps \in Nat \ {0}

VARIABLES
  job,          (* experiment id -> [plan, state, steps], _jobs             *)
  trail         (* experiment id -> its audit records: the states, in order *)

engine == <<job, trail>>
-----------------------------------------------------------------------------
(* Registration and validation.                                            *)

\* What ModuleRegistry.register refuses, apart from repeated ids.
Admissible(m) ==
  /\ m.risk # "R3"
  /\ m.risk \in {"R1", "R2"} => m.cancel
  /\ m.physical => m.confirmed
  /\ m.risk = "R2" => m.authorization = "scope" /\ m.confirmed

Clash(m, k) == m.module = k.module \/ m.executor = k.executor

\* register, for each manifest in turn: whether it is accepted.  Each module id
\* is taken once, and each executor is bound to one module.
Accepted ==
  CHOOSE r \in [DOMAIN Modules -> BOOLEAN] :
    \A i \in DOMAIN Modules :
      r[i] <=> /\ Admissible(Modules[i])
               /\ \A j \in 1..(i - 1) : r[j] => ~ Clash(Modules[i], Modules[j])

Registered == {Modules[i] : i \in {x \in DOMAIN Modules : Accepted[x]}}
ManifestOf(id) == CHOOSE m \in Registered : m.module = id

\* _as_tool_manifest: the edge's capabilities are not asked of the Cardputer.
AsTool(m) ==
  [tool |-> m.module, risk |-> m.risk, profile |-> m.profile,
   authorization |-> m.authorization, roles |-> m.roles, capabilities |-> {},
   confirmed |-> m.confirmed, physical |-> m.physical,
   maxDuration |-> m.maxDuration, maxTargets |-> 16]

\* build_policy_registry: no two of the modules have the same id.
Tools == {AsTool(m) : m \in Registered}

\* ToolRegistry.register raises otherwise, and there is no engine.
ASSUME ToolsAssumption == \A t \in Tools : Registrable(t)

\* ExperimentProposalBinder.bind: identity and scope come from outside the model.
Bind(q, a, d, scope) ==
  [exp |-> q.exp, module |-> ModuleAlias[q.module], targets |-> {TargetAlias[q.target]},
   actor |-> a.id, org |-> a.org, device |-> d.id, profile |-> "lab",
   scope |-> scope.id, duration |-> q.duration]

Bindable(q, a, d) ==
  /\ q.module \in DOMAIN ModuleAlias /\ q.target \in DOMAIN TargetAlias
  /\ a.org = d.org

\* ExperimentPlanValidator.validate.
Valid(p) ==
  /\ \E m \in Registered : m.module = p.module
  /\ p.profile = ManifestOf(p.module).profile
  /\ p.duration <= ManifestOf(p.module).maxDuration

\* The plans that pass: what a client may submit.
Plans ==
  {p \in { Bind(b[1], b[2], b[3], b[4]) :
             b \in {x \in Proposal \X Operator \X Source \X Scope :
                      Bindable(x[1], x[2], x[3])} } : Valid(p)}

\* _verify_context: the plan is the caller's, and its scope and the report of
\* the edge that will run it outlast the run.
Fits(p, c, t) ==
  /\ c.actor.id = p.actor /\ c.actor.org = p.org
  /\ c.device.id = p.device /\ c.device.org = p.org
  /\ c.scope # None /\ c.scope.id = p.scope
  /\ c.scope.until >= t + p.duration
  /\ ManifestOf(p.module).edge =>
       /\ c.report # None
       /\ c.report.org = p.org /\ c.report.until >= t + p.duration
       /\ <<p.module, ManifestOf(p.module).executor>> \in c.report.modules

\* The PolicyRequest of start.
Asked(p, c, t) ==
  [tool |-> p.module, actor |-> c.actor, device |-> c.device, profile |-> p.profile,
   targets |-> p.targets, duration |-> p.duration, at |-> t, plan |-> p,
   grant |-> None, scope |-> c.scope, confirmation |-> c.confirmation]
-----------------------------------------------------------------------------
(* The life of an experiment.                                              *)

Terminal == {"completed", "cancelled", "denied", "failed"}
Known    == DOMAIN job
StateOf(e) == IF e \in Known THEN job[e].state ELSE "none"

EngineInit ==
  /\ job = <<>>
  /\ trail = [e \in Experiment |-> <<>>]

\* A new job that passes through the given states in one call, each audited.
Enter(p, states) ==
  /\ job' = [e \in Known \cup {p.exp} |->
               IF e = p.exp THEN [plan |-> p, state |-> Last(states), steps |-> 0]
                            ELSE job[e]]
  /\ trail' = [trail EXCEPT ![p.exp] = @ \o states]

\* Mutant: an experiment that never came to run is submitted again.
NewOrIdle(p) == StateOf(p.exp) \in {"none", "denied", "authorized"}

New(p) == p.exp \notin Known

Submitted(p, c, t) == New(p) /\ Fits(p, c, t)
Allowed(p, c, t)   == Evaluate(Tools, Asked(p, c, t)) = "allow"
Available(p)       == ManifestOf(p.module).executor \in Executors

\* start, denied by the policy: also when a confirmation would have sufficed.
Deny(p, c, t) ==
  /\ Submitted(p, c, t) /\ ~ Allowed(p, c, t)
  /\ Enter(p, <<"validated", "denied">>)

\* start, without the executor of the module.
Unavailable(p, c, t) ==
  /\ Submitted(p, c, t) /\ Allowed(p, c, t) /\ ~ Available(p)
  /\ Enter(p, <<"validated", "authorized", "failed">>)

\* start, when the executor raises: the job stays as it is, authorized.
Interrupted(p, c, t) ==
  /\ MayFail
  /\ Submitted(p, c, t) /\ Allowed(p, c, t) /\ Available(p)
  /\ Enter(p, <<"validated", "authorized">>)

Run(p, c, t) ==
  /\ Submitted(p, c, t) /\ Allowed(p, c, t) /\ Available(p)
  /\ Enter(p, <<"validated", "authorized", "running">>)

\* A transition of a known job, and its audit record.
Become(e, s) ==
  /\ job' = [job EXCEPT ![e].state = s]
  /\ trail' = [trail EXCEPT ![e] = Append(@, s)]

\* advance, with a step that does not complete the session.  Nothing limits
\* their number: those past the bound look like the last one, and change nothing.
\* So does an exception that advance does not catch: the job goes on running.
Progress(e) ==
  /\ StateOf(e) = "running" /\ job[e].steps < Steps - 1
  /\ job' = [job EXCEPT ![e].steps = @ + 1]
  /\ UNCHANGED trail

\* advance, with the step that completes it, whichever that is.
Complete(e) ==
  /\ StateOf(e) = "running"
  /\ Become(e, "completed")

\* advance, with a step or a result that the engine refuses.
Fail(e) ==
  /\ MayFail
  /\ StateOf(e) = "running"
  /\ Become(e, "failed")

Advance(e) == Progress(e) \/ Complete(e) \/ Fail(e)

\* cancel, which also ends a job whose start was interrupted.
Cancel(e) ==
  /\ e \in Known /\ StateOf(e) \notin Terminal
  /\ Become(e, "cancelled")

\* The audited ends of a job, in order, as the results that JobLifecycle names.
EndsOf(e)  == {i \in DOMAIN trail[e] : trail[e][i] \in Terminal}
Nth(S, n)  == CHOOSE i \in S : Cardinality({j \in S : j < i}) = n - 1
Result(s)  == IF s = "completed" THEN "simulated" ELSE s
Verdict(e) == [n \in 1..Cardinality(EndsOf(e)) |-> Result(trail[e][Nth(EndsOf(e), n)])]

\* The engine implements JobLifecycle: each experiment id is refused or runs
\* once, its steps happen while it runs, and its audit trail holds one
\* verdict, given by the call that ends it, whatever is retried, raised or
\* cancelled.
Lifecycle == INSTANCE JobLifecycle WITH
  Key     <- Experiment,
  phase   <- [e \in Experiment |-> IF StateOf(e) = "authorized" THEN "running" ELSE StateOf(e)],
  work    <- [e \in Experiment |-> IF e \in Known THEN job[e].steps ELSE 0],
  verdict <- [e \in Experiment |-> Verdict(e)]
=============================================================================
