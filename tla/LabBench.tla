-------------------------------- MODULE LabBench --------------------------------
(***************************************************************************)
(* The laboratory: a Cardputer that shows a plan and signs the press of    *)
(* its confirmation key, the edge that answers capability requests         *)
(* (services/edge-agent/.../application.py, device_gateway.py and          *)
(* presentation.py) and turns a press into a confirmation                  *)
(* (confirmation_gateway.py), and the experiment engine.                   *)
(*                                                                         *)
(* What carries answers and engine events to the display, and what gathers *)
(* the context of a start, is not in the source: here any of them may      *)
(* arrive at any later time, more than once, or never, and any context     *)
(* that could be gathered may be used.                                     *)
(***************************************************************************)
EXTENDS ExperimentEngine, LabDevice

CONSTANTS
  OperatorOf,   (* device -> the operator bound to it                       *)
  EdgeOrg,      (* the organization of the edge                             *)
  RequestId,    (* ids of requests to the edge                              *)
  MaxRequests,  (* MAX_IDEMPOTENCY_RECORDS                                  *)
  Past,         (* age a signed message may have: 5 minutes                 *)
  ConfirmTTL, ReportTTL, (* 60 seconds and 5 minutes                        *)
  MaxTime       (* bound of the clock in a finite run                       *)

ASSUME LabAssumption ==
  /\ Past \in Nat /\ ConfirmTTL \in Nat \ {0} /\ ReportTTL \in Nat \ {0}
  /\ MaxRequests \in Nat /\ MaxTime \in Nat /\ MaxLab \in Nat
  /\ None \notin Experiment \cup Plans
  /\ None \notin [actor : {o.id : o \in Operator}, device : {s.id : s \in Source},
                  plan : Plans, physical : BOOLEAN, until : Nat]

VARIABLES
  now,          (* one clock, read by every call                            *)
  answered,     (* request id -> [method, at], the remembered requests      *)
  heard,        (* device -> the last confirmation message accepted         *)
  confirmations (* confirmations the gateway has issued                     *)

edge == <<answered, heard, confirmations>>
vars == <<engine, device, edge, now>>
-----------------------------------------------------------------------------
\* capabilities_view: a tile for each module that the edge reports.
Advertised == {m.module : m \in Registered}
Method     == {"edge.capabilities", "experiment.propose"}

\* _capability_report, made at time t.
Report(t) ==
  [org |-> EdgeOrg, at |-> t, until |-> t + ReportTTL,
   modules |-> {<<m.module, m.executor>> : m \in Registered}]

\* The reports among the answers that CapabilityReportValidator accepts now.
Validated(r) ==
  /\ r.org = EdgeOrg
  /\ r.at <= now /\ now < r.until /\ r.until - r.at <= ReportTTL
  /\ \A x \in r.modules : \E m \in Registered : m.module = x[1] /\ m.executor = x[2]
Reports ==
  {r \in {Report(answered[q].at) :
            q \in {x \in DOMAIN answered : answered[x].method = "edge.capabilities"}} :
     Validated(r)}

\* A request signed in the laboratory profile reaches the application under an
\* id it has not seen before: a full memory refuses it.  A repeated id is
\* answered from memory.
Ask(d, q, method) ==
  /\ InLab(d)
  /\ q \notin DOMAIN answered
  /\ Cardinality(DOMAIN answered) < MaxRequests
  /\ answered' = [x \in DOMAIN answered \cup {q} |->
                    IF x = q THEN [method |-> method, at |-> now] ELSE answered[x]]
  /\ UNCHANGED <<engine, device, heard, confirmations, now>>

\* Mutant: the confirmation is not limited to the press that gave it.
ConfirmLasting(i) ==
  /\ i \in DOMAIN presses /\ i > heard[presses[i].device]
  /\ now - presses[i].at <= Past
  /\ presses[i].device \in DOMAIN OperatorOf
  /\ heard' = [heard EXCEPT ![presses[i].device] = i]
  /\ confirmations' = confirmations \cup
       {[actor |-> OperatorOf[presses[i].device].id, device |-> presses[i].device,
         plan |-> presses[i].plan, physical |-> TRUE, until |-> now + MaxTime]}
  /\ UNCHANGED <<engine, device, answered, now>>

\* DeviceLabConfirmationGateway.handle: the messages of a device are accepted
\* once, in order.
Confirm(i) ==
  /\ i \in DOMAIN presses /\ i > heard[presses[i].device]
  /\ now - presses[i].at <= Past
  /\ presses[i].device \in DOMAIN OperatorOf
  /\ heard' = [heard EXCEPT ![presses[i].device] = i]
  /\ confirmations' = confirmations \cup
       {[actor |-> OperatorOf[presses[i].device].id, device |-> presses[i].device,
         plan |-> presses[i].plan, physical |-> TRUE, until |-> now + ConfirmTTL]}
  /\ UNCHANGED <<engine, device, answered, now>>

\* Contexts a caller can gather for a start.
Contexts ==
  [actor : Operator, device : Source, scope : Scope \cup {None},
   confirmation : confirmations \cup {None}, report : Reports \cup {None}]

Start ==
  \E p \in Plans, c \in Contexts :
    Deny(p, c, now) \/ Unavailable(p, c, now) \/ Interrupted(p, c, now) \/ Run(p, c, now)
Step == \E e \in Experiment : Advance(e) \/ Cancel(e)

Reached(e, s) == Contains(trail[e], s)

\* What the display may be told at any time after it happened.
Tell(d) ==
  \/ \E q \in DOMAIN answered :
       answered[q].method = "edge.capabilities" /\ Advertise(d, Advertised)
  \/ \E m \in Advertised : Select(d, m)
  \/ \E p \in Plans : Review(d, p)
  \/ \E c \in confirmations : c.device = d /\ Acknowledge(d, c.plan)
  \/ \E e \in Known :
       \/ Reached(e, "running") /\ Started(d, e)
       \/ \E n \in 1..job[e].steps : Progressed(d, e, n)
       \/ Reached(e, "completed") /\ Completed(d, e, Steps)
       \/ Reached(e, "cancelled") /\ Cancelled(d, e)

Operate(d) ==
  \/ \E p \in Profiles, until \in (0..MaxTime + MaxLab) \cup {None} : Switch(d, p, now, until)
  \/ TickProfile(d, now)
  \/ Reboot(d)
  \/ \E p \in Plans : Press(d, p, now)

Tick == now < MaxTime /\ now' = now + 1 /\ UNCHANGED <<engine, device, edge>>

Init ==
  /\ EngineInit /\ DeviceInit
  /\ now = 0
  /\ answered = <<>> /\ heard = [d \in Device |-> 0] /\ confirmations = {}

Next ==
  \/ Start /\ UNCHANGED <<device, edge, now>>
  \/ Step /\ UNCHANGED <<device, edge, now>>
  \/ \E d \in Device : (Tell(d) \/ Operate(d)) /\ UNCHANGED <<engine, edge, now>>
  \/ \E d \in Device, q \in RequestId, method \in Method : Ask(d, q, method)
  \/ \E i \in DOMAIN presses : Confirm(i)
  \/ Tick

Spec == Init /\ [][Next]_vars

-----------------------------------------------------------------------------
(* Properties.                                                             *)

Hashes == Plans \cup {None}

TypeOK ==
  /\ \A e \in Known : /\ job[e].plan \in Plans /\ job[e].plan.exp = e
                      /\ job[e].steps \in 0..Steps - 1
                      /\ trail[e] # <<>> /\ job[e].state = Last(trail[e])
  /\ \A d \in Device :
       /\ profile[d].active \in Profiles
       /\ profile[d].active = "lab" <=> profile[d].expires # None
       /\ dash[d].review \in Hashes /\ dash[d].confirmed \in {None, dash[d].review}
       /\ dash[d].progress \in 0..Steps
  /\ presses \in Seq([device : Device, plan : Plans, at : 0..MaxTime])
  /\ heard \in [Device -> 0..Len(presses)]
  /\ \A q \in DOMAIN answered : answered[q] \in [method : Method, at : 0..now]

\* An experiment of a module that asks for a physical confirmation starts to
\* run only if a person pressed the key for exactly its plan, on its device, no
\* longer ago than a message may travel and a confirmation lasts: neither a
\* press for another plan of the same experiment nor an old one starts it.
ConfirmedByPress ==
  [][\A e \in Experiment :
       /\ StateOf(e) # "running" /\ StateOf(e)' = "running"
       /\ ManifestOf(job'[e].plan.module).physical
       => \E k \in DOMAIN presses :
            /\ presses[k].plan = job'[e].plan
            /\ presses[k].device = job'[e].plan.device
            /\ presses[k].at <= now /\ now < presses[k].at + Past + ConfirmTTL]_vars

\* The display shows an experiment under way only over a plan that a person
\* confirmed on that device and the edge accepted, although the plan on the
\* display may be replaced between the press and the answer to it.
ShownIsConfirmed ==
  \A d \in Device : dash[d].state \in {"running", "result", "cancelled"} =>
    /\ \E k \in 1..heard[d] : presses[k].device = d /\ presses[k].plan = dash[d].review
    /\ \E c \in confirmations : c.device = d /\ c.plan = dash[d].review

\* The display is never ahead of the engine: it shows a result or an end only
\* of an experiment that has come to it, and no step that has not been done,
\* however late and in whatever order it is told.
DisplayNotAhead ==
  \A d \in Device : LET v == dash[d] IN
    /\ v.state = "running" => Reached(v.active, "running") /\ v.progress <= job[v.active].steps
    /\ v.state = "result" => StateOf(v.active) = "completed"
    /\ v.state = "cancelled" => StateOf(v.active) = "cancelled"

\* A decision that asks for a confirmation is kept: with a confirmation of that
\* plan on that device, made with the key, the same request is allowed at the
\* same time, and no other denial hides behind it.
ConfirmationSuffices ==
  \A p \in Plans, c \in Contexts :
    LET r == Asked(p, c, now) IN
    Evaluate(Tools, r) \in {"allow_with_confirmation", "require_physical_confirmation"} =>
      Evaluate(Tools, [r EXCEPT !.confirmation =
        [actor |-> c.actor.id, device |-> c.device.id, plan |-> p,
         physical |-> TRUE, until |-> now + ConfirmTTL]]) = "allow"

\* The engine implements JobLifecycle (see ExperimentEngine): each experiment id
\* is refused or runs once, and its audit trail holds one verdict.
Implements == Lifecycle!Spec
=============================================================================
