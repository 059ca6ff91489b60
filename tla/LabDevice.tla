------------------------------- MODULE LabDevice -------------------------------
(***************************************************************************)
(* The laboratory side of a Cardputer: the profile and the messages of the *)
(* simulator (packages/device-protocol/.../simulator.py) and the dashboard *)
(* that shows a plan for confirmation and then its progress                *)
(* (lab_dashboard.py).                                                     *)
(*                                                                         *)
(* The dashboard is told of what happens elsewhere by calls that carry a   *)
(* plan hash or an experiment id; a plan stands for its hash.  A rejected  *)
(* call changes nothing.                                                   *)
(***************************************************************************)
EXTENDS Absence, Integers, Sequences

CONSTANTS
  Device,       (* the devices in the laboratory                            *)
  Profiles,     (* profiles the operator switches to, "lab" among them      *)
  MaxLab,       (* longest laboratory profile: 30 minutes                   *)
  MaxPresses    (* bound of the confirmations pressed in a finite run       *)

VARIABLES
  profile,      (* device -> [active, expires]                              *)
  dash,         (* device -> its dashboard                                  *)
  presses       (* the signed confirmations, in order: device, plan, at     *)

device == <<profile, dash, presses>>
-----------------------------------------------------------------------------
(* The profile.                                                            *)

Assistant == [active |-> "assistant", expires |-> None]
InLab(d)  == profile[d].active = "lab"

\* switch_profile, of an unlocked device.
Switch(d, p, t, until) ==
  /\ IF p = "lab" THEN until # None /\ t < until /\ until <= t + MaxLab
                ELSE until = None
  /\ profile' = [profile EXCEPT ![d] = [active |-> p, expires |-> until]]
  /\ UNCHANGED <<dash, presses>>

\* tick: what ends an expired profile.
TickProfile(d, t) ==
  /\ profile[d].expires # None /\ t >= profile[d].expires
  /\ profile' = [profile EXCEPT ![d] = Assistant]
  /\ UNCHANGED <<dash, presses>>

\* reboot: the dashboard is an object of its own and stays as it is.
Reboot(d) ==
  /\ profile' = [profile EXCEPT ![d] = Assistant]
  /\ UNCHANGED <<dash, presses>>
-----------------------------------------------------------------------------
(* The dashboard.                                                          *)

Blank ==
  [state |-> "disconnected", tiles |-> {}, selected |-> None, review |-> None,
   confirmed |-> None, active |-> None, progress |-> 0]

Show(d, v) == dash' = [dash EXCEPT ![d] = v] /\ UNCHANGED <<profile, presses>>

\* apply_capabilities, in any state: what was shown before is forgotten.
Advertise(d, tiles) ==
  /\ InLab(d)
  /\ Show(d, [Blank EXCEPT !.state = "ready", !.tiles = tiles])

\* review.
Select(d, m) ==
  /\ dash[d].state = "ready" /\ m \in dash[d].tiles
  /\ Show(d, [dash[d] EXCEPT !.state = "review", !.selected = m])

\* apply_plan_review: a plan that replaces another one is not confirmed yet.
Review(d, p) ==
  /\ dash[d].state = "review" /\ p.module = dash[d].selected
  /\ Show(d, [dash[d] EXCEPT !.review = p, !.confirmed = None])

\* lab_plan_confirmation_message: the key press, signed for the plan its caller
\* passes.  It asks for the profile, and neither for the time nor for what the
\* dashboard shows.
Press(d, p, t) ==
  /\ Len(presses) < MaxPresses
  /\ InLab(d)
  /\ presses' = Append(presses, [device |-> d, plan |-> p, at |-> t])
  /\ UNCHANGED <<profile, dash>>

\* physical_confirmation_received.
Acknowledge(d, p) ==
  /\ dash[d].state = "review" /\ dash[d].review # None
  /\ p = dash[d].review
  /\ Show(d, [dash[d] EXCEPT !.confirmed = p])

\* Mutant: the key press is not awaited.
StartedUnconfirmed(d, e) ==
  /\ dash[d].state = "review"
  /\ dash[d].review # None
  /\ Show(d, [dash[d] EXCEPT !.state = "running", !.active = e])

\* started: the plan on the display must be confirmed.
Started(d, e) ==
  /\ dash[d].state = "review"
  /\ dash[d].review # None /\ dash[d].confirmed = dash[d].review
  /\ Show(d, [dash[d] EXCEPT !.state = "running", !.active = e])

Following(d, e) == dash[d].state = "running" /\ e = dash[d].active

\* update_progress.
Progressed(d, e, n) ==
  /\ Following(d, e)
  /\ Show(d, [dash[d] EXCEPT !.progress = n])

\* Mutant: the end of any experiment ends the one on the display.
CompletedAny(d, e, n) ==
  /\ dash[d].state = "running"
  /\ Show(d, [dash[d] EXCEPT !.state = "result", !.progress = n])

\* completed.
Completed(d, e, n) ==
  /\ Following(d, e)
  /\ Show(d, [dash[d] EXCEPT !.state = "result", !.progress = n])

\* cancelled.
Cancelled(d, e) ==
  /\ Following(d, e)
  /\ Show(d, [dash[d] EXCEPT !.state = "cancelled"])

DeviceInit ==
  /\ profile = [d \in Device |-> Assistant]
  /\ dash = [d \in Device |-> Blank]
  /\ presses = <<>>
=============================================================================
