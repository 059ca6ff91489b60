---------------------------- MODULE CommandServices ----------------------------
(***************************************************************************)
(* The services that answer a command at once: camera status               *)
(* (services/orchestrator/.../service.py) and the stored asset inventory   *)
(* (asset_inventory.py), with the audit sink (adapters.py) and the checks  *)
(* that all services share (execution.py).                                 *)
(*                                                                         *)
(* A service remembers the request and the outcome of every command it has *)
(* looked at, under the organization and the actor that were authenticated *)
(* and the id of the command.  A repeated request is answered from there,  *)
(* a changed one is rejected: neither changes anything.                    *)
(***************************************************************************)
EXTENDS PolicyEngine

CONSTANTS
  CameraOrg,    (* camera -> its organization                               *)
  InventoryOrg, (* the inventories: pairs <<organization, inventory>>       *)
  Asset,        (* stored assets: id, org, inventory, changed               *)
  MaxAssets,    (* MAXIMUM_ASSET_RESULTS                                    *)
  Past, Future  (* the timestamp window: 5 minutes and 30 seconds           *)

VARIABLES
  answers,      (* key -> [request, reason, result], _outcomes              *)
  audit         (* the audit events: key, result, at                        *)
-----------------------------------------------------------------------------
\* The replay key of a command, with the service that keeps it.
KeyOf(q, x) == <<q.action, x.actor.org, x.actor.id, q.id>>

\* Mutant: a changed request under a known id is a new one.
NewRequest(k, q) == k \in DOMAIN answers => answers[k].request # q

New(k, q) == k \notin DOMAIN answers

\* timestamp_is_fresh and context_matches.
Fresh(q, t) == t - Past <= q.at /\ q.at <= t + Future
ContextMatches(q, x) ==
  /\ q.actor = x.actor.id /\ q.org = x.actor.org
  /\ q.source = x.device.id /\ x.actor.org = x.device.org

\* camera_status_manifest and asset_list_manifest.
Manifest(tool, profile, role, capability, targets) ==
  [tool |-> tool, risk |-> "R0", profile |-> profile, authorization |-> "grant",
   roles |-> {role}, capabilities |-> {capability}, confirmed |-> FALSE,
   physical |-> FALSE, maxDuration |-> None, maxTargets |-> targets]
QueryTools ==
  ToolRegistry(<< Manifest("camera.status", "assistant", "viewer", "camera_status_query", 32),
                  Manifest("asset.list", "inventory", "inventory_viewer",
                           "asset_inventory_query", 1) >>)

Decision(q, x, t) ==
  Evaluate(QueryTools,
    [tool |-> q.action, actor |-> x.actor, device |-> x.device, profile |-> q.profile,
     targets |-> {q.target}, duration |-> None, at |-> t, plan |-> None,
     grant |-> x.grant, scope |-> None, confirmation |-> None])

\* resolve_owned, of the camera and of the asset repository.
OwnsCamera(org, camera) == camera \in DOMAIN CameraOrg /\ CameraOrg[camera] = org
OwnsInventory(org, inventory) == <<org, inventory>> \in InventoryOrg

\* The checks of a service, in its order, each with the reason if it fails.
Timely(q, t)    == [ok |-> Fresh(q, t), else |-> "stale"]
InContext(q, x) == [ok |-> ContextMatches(q, x), else |-> "context"]
Policy(q, x, t) == [ok |-> Decision(q, x, t) = "allow", else |-> Decision(q, x, t)]
Owned(yes)      == [ok |-> yes, else |-> "inaccessible"]

CameraVerdict(q, x, t) ==
  Decide(<< Timely(q, t), InContext(q, x),
            Owned(OwnsCamera(x.actor.org, q.target)), Policy(q, x, t) >>)
AssetVerdict(q, x, t) ==
  Decide(<< Timely(q, t), InContext(q, x),
            Policy(q, x, t), Owned(OwnsInventory(x.actor.org, q.target)) >>)

\* The assets of an inventory that a command selects.
Selected(q, x) ==
  {a \in Asset : /\ a.org = x.actor.org /\ a.inventory = q.target
                 /\ q.changes => a.changed}

\* Those that are listed: the first by their ids, which differ within an
\* organization, up to the limit.
Listed(q, x) ==
  {a \in Selected(q, x) : Cardinality({b \in Selected(q, x) : b.id < a.id}) < MaxAssets}

Result(q, x, reason) ==
  IF reason # "allow" THEN {}
  ELSE IF q.action = "asset.list" THEN Listed(q, x) ELSE {q.target}

Status(reason) == IF reason = "allow" THEN "simulated" ELSE "denied"

Keep(k, answer) ==
  answers' = [j \in DOMAIN answers \cup {k} |-> IF j = k THEN answer ELSE answers[j]]

\* append: the id of an event is made of its key and its result, and an event
\* that differs from the one recorded under its id raises.
Audit(k, result, t) ==
  /\ \A e \in audit : e.key = k /\ e.result = result => e.at = t
  /\ audit' = audit \cup {[key |-> k, result |-> result, at |-> t]}

\* Mutant: only an answer that was allowed is remembered.
AnswerUnlessDenied(q, x, t, reason) ==
  LET k == KeyOf(q, x) IN
  /\ New(k, q)
  /\ Audit(k, Status(reason), t)
  /\ IF reason = "allow"
       THEN Keep(k, [request |-> q, reason |-> reason, result |-> Result(q, x, reason)])
       ELSE UNCHANGED answers

\* The end of execute: audited first, remembered then.
Answer(q, x, t, reason) ==
  LET k == KeyOf(q, x) IN
  /\ New(k, q)
  /\ Audit(k, Status(reason), t)
  /\ Keep(k, [request |-> q, reason |-> reason, result |-> Result(q, x, reason)])

\* execute of each service; asset.list looks at its action first.
QueryCamera(q, x, t) == Answer(q, x, t, CameraVerdict(q, x, t))
ListAssets(q, x, t)  == q.action = "asset.list" /\ Answer(q, x, t, AssetVerdict(q, x, t))
=============================================================================
