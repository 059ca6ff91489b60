----------------------------- MODULE LabBenchProofs -----------------------------
(***************************************************************************)
(* The laboratory, for any devices, modules, operators and limits: what a  *)
(* display shows is confirmed and has happened.                            *)
(*                                                                         *)
(* The invariant ties three records of one thing together: what an         *)
(* experiment is (job), what it has been (trail) and what a display says   *)
(* of it; and the confirmed plan of a display to a confirmation and to the *)
(* press that it was made from.                                            *)
(***************************************************************************)
EXTENDS LabBench, FiniteSetTheorems, WellFoundedInduction, TLAPS

JobState   == {"authorized", "running"} \cup Terminal
TrailState == JobState \cup {"validated"}
DashState  == {"disconnected", "ready", "review", "running", "result", "cancelled"}
Shown      == {"running", "result", "cancelled"}

EngineType ==
  /\ job \in [DOMAIN job -> [plan : Plans, state : JobState, steps : 0..(Steps - 1)]]
  /\ DOMAIN job \subseteq Experiment
  /\ trail \in [Experiment -> Seq(TrailState)]

Dashboard ==
  [state : DashState, tiles : {{}, Advertised}, selected : Advertised \cup {None},
   review : Plans \cup {None}, confirmed : Plans \cup {None},
   active : Experiment \cup {None}, progress : Nat]
DashType == dash \in [Device -> Dashboard]

EdgeType ==
  /\ presses \in Seq([device : Device, plan : Plans, at : Nat])
  /\ heard \in [Device -> Nat] /\ now \in Nat
  /\ \A d \in Device : heard[d] <= Len(presses)
  /\ \A k \in 1..Len(presses) : presses[k].at <= now

\* The trail of an experiment begins with its job and ends with the job's state;
\* only its last record is an end.
TrailInv ==
  \A e \in Experiment :
    /\ e \notin Known => trail[e] = <<>>
    /\ e \in Known => trail[e] # <<>> /\ job[e].state = trail[e][Len(trail[e])]
    /\ \A i \in DOMAIN trail[e] : trail[e][i] \in Terminal => i = Len(trail[e])

\* A confirmation was made from a press that was heard, and lasts no longer than
\* the age a message may have and its own time.
From(k, c) ==
  /\ presses[k].device = c.device /\ presses[k].plan = c.plan
  /\ presses[k].at <= now /\ c.until <= presses[k].at + Past + ConfirmTTL
ConfirmationInv ==
  \A c \in confirmations :
    /\ c.device \in Device /\ c.plan \in Plans /\ c.until \in Nat
    /\ \E k \in 1..heard[c.device] : From(k, c)

\* What ShownIsConfirmed says of a plan.
Backed(d, p) ==
  /\ \E k \in 1..heard[d] : presses[k].device = d /\ presses[k].plan = p
  /\ \E c \in confirmations : c.device = d /\ c.plan = p

\* What a display v of device d may say of the press and of the experiment.
Honest(d, v) ==
  /\ v.confirmed \in {None, v.review}
  /\ v.confirmed # None => Backed(d, v.review)
  /\ v.state \in Shown => v.confirmed # None /\ v.active \in Known
  /\ v.state \notin Shown => v.progress = 0

NotAhead(v) ==
  /\ v.state = "running" => Reached(v.active, "running") /\ v.progress <= job[v.active].steps
  /\ v.state = "result" => StateOf(v.active) = "completed"
  /\ v.state = "cancelled" => StateOf(v.active) = "cancelled"

DashInv == \A d \in Device : Honest(d, dash[d]) /\ NotAhead(dash[d])

LabInv ==
  /\ EngineType /\ DashType /\ EdgeType /\ TrailInv /\ ConfirmationInv /\ DashInv
-----------------------------------------------------------------------------
(* The display.                                                            *)

\* What a call leaves alone that changes one display only.
LEMMA ShowInv ==
  ASSUME LabInv, NEW d \in Device, NEW v \in Dashboard, Show(d, v), Honest(d, v), NotAhead(v),
         UNCHANGED <<engine, edge, now>>
  PROVE  LabInv'
<1>1. /\ dash' = [dash EXCEPT ![d] = v] /\ presses' = presses /\ profile' = profile
      /\ job' = job /\ trail' = trail /\ heard' = heard /\ now' = now
      /\ confirmations' = confirmations
  BY DEF Show, engine, edge
<1>2. dash' \in [Device -> Dashboard] /\ dash'[d] = v /\ \A x \in Device : x # d => dash'[x] = dash[x]
  BY <1>1 DEF LabInv, DashType
<1>3. EngineType' /\ EdgeType' /\ TrailInv' /\ ConfirmationInv'
  BY <1>1 DEF LabInv, EngineType, EdgeType, TrailInv, ConfirmationInv, From, Known
<1>4. ASSUME NEW x \in Device PROVE Honest(x, dash[x])' /\ NotAhead(dash[x])'
  <2>1. PICK w : w = dash'[x]
    OBVIOUS
  <2>2. Honest(x, w) /\ NotAhead(w)
    BY <1>2, <2>1 DEF LabInv, DashInv
  <2>3. Honest(x, w)' /\ NotAhead(w)'
    BY <1>1, <2>2 DEF Honest, NotAhead, Backed, Reached, StateOf, Known
  <2> QED BY <2>1, <2>3 DEF Honest, NotAhead
<1> QED BY <1>2, <1>3, <1>4 DEF LabInv, DashType, DashInv

LEMMA DashFields ==
  ASSUME NEW v \in Dashboard
  PROVE  /\ \A s \in DashState : [v EXCEPT !.state = s] \in Dashboard
         /\ \A n \in Nat : [v EXCEPT !.progress = n] \in Dashboard
         /\ \A e \in Experiment : [v EXCEPT !.active = e] \in Dashboard
         /\ \A m \in Advertised : [v EXCEPT !.selected = m] \in Dashboard
         /\ \A p \in Plans : [v EXCEPT !.review = p] \in Dashboard
         /\ \A p \in Plans \cup {None} : [v EXCEPT !.confirmed = p] \in Dashboard
BY DEF Dashboard

LEMMA AdvertiseInv ==
  ASSUME LabInv, NEW d \in Device, Advertise(d, Advertised), UNCHANGED <<engine, edge, now>>
  PROVE  LabInv'
<1> DEFINE v == [[Blank EXCEPT !.state = "ready"] EXCEPT !.tiles = Advertised]
<1>1. v.state = "ready" /\ v.confirmed = None /\ v.review = None /\ v.progress = 0
  BY DEF Blank
<1>2. Show(d, v)
  BY DEF Advertise
<1>3. v \in Dashboard
  <2>1. Blank \in Dashboard
    BY DEF Blank, Dashboard, DashState
  <2>2. \A b \in Dashboard : [b EXCEPT !.state = "ready"] \in Dashboard
    BY DashFields DEF DashState
  <2>3. \A b \in Dashboard : [b EXCEPT !.tiles = Advertised] \in Dashboard
    BY DEF Dashboard
  <2> QED BY <2>1, <2>2, <2>3
<1> HIDE DEF v
<1>4. Honest(d, v) /\ NotAhead(v)
  BY <1>1 DEF Honest, NotAhead, Shown
<1> QED BY <1>2, <1>3, <1>4, ShowInv

LEMMA SelectInv ==
  ASSUME LabInv, NEW d \in Device, NEW m \in Advertised, Select(d, m),
         UNCHANGED <<engine, edge, now>>
  PROVE  LabInv'
<1> DEFINE v == [[dash[d] EXCEPT !.state = "review"] EXCEPT !.selected = m]
<1>1. dash[d] \in Dashboard /\ Honest(d, dash[d]) /\ dash[d].state = "ready"
  BY DEF LabInv, DashType, DashInv, Select
<1>2. Show(d, v)
  BY DEF Select
<1>3. v \in Dashboard
  BY <1>1, DashFields DEF DashState
<1>4. /\ v.state = "review" /\ v.confirmed = dash[d].confirmed /\ v.review = dash[d].review
      /\ v.progress = dash[d].progress
  BY <1>1 DEF Dashboard
<1> HIDE DEF v
<1>5. Honest(d, v) /\ NotAhead(v)
  BY <1>1, <1>4 DEF Honest, NotAhead, Shown
<1> QED BY <1>2, <1>3, <1>5, ShowInv

LEMMA ReviewInv ==
  ASSUME LabInv, NEW d \in Device, NEW p \in Plans, Review(d, p), UNCHANGED <<engine, edge, now>>
  PROVE  LabInv'
<1> DEFINE v == [[dash[d] EXCEPT !.review = p] EXCEPT !.confirmed = None]
<1>1. dash[d] \in Dashboard /\ Honest(d, dash[d]) /\ dash[d].state = "review"
  BY DEF LabInv, DashType, DashInv, Review
<1>2. Show(d, v)
  BY DEF Review
<1>3. v \in Dashboard
  BY <1>1, DashFields
<1>4. /\ v.state = "review" /\ v.confirmed = None /\ v.progress = dash[d].progress
  BY <1>1 DEF Dashboard
<1> HIDE DEF v
<1>5. Honest(d, v) /\ NotAhead(v)
  BY <1>1, <1>4 DEF Honest, NotAhead, Shown
<1> QED BY <1>2, <1>3, <1>5, ShowInv

LEMMA AcknowledgeInv ==
  ASSUME LabInv, NEW d \in Device, NEW c \in confirmations, c.device = d,
         Acknowledge(d, c.plan), UNCHANGED <<engine, edge, now>>
  PROVE  LabInv'
<1> DEFINE v == [dash[d] EXCEPT !.confirmed = c.plan]
<1>1. /\ dash[d] \in Dashboard /\ Honest(d, dash[d]) /\ dash[d].state = "review"
      /\ c.plan = dash[d].review /\ c.plan \in Plans
  BY DEF LabInv, DashType, DashInv, Acknowledge, ConfirmationInv
<1>2. Show(d, v)
  BY DEF Acknowledge
<1>3. v \in Dashboard
  BY <1>1, DashFields
<1>4. /\ v.state = "review" /\ v.confirmed = v.review /\ v.review = c.plan
      /\ v.progress = dash[d].progress
  BY <1>1 DEF Dashboard
<1>5. Backed(d, c.plan)
  BY DEF LabInv, ConfirmationInv, From, Backed
<1> HIDE DEF v
<1>6. Honest(d, v) /\ NotAhead(v)
  BY <1>1, <1>4, <1>5 DEF Honest, NotAhead, Shown
<1> QED BY <1>2, <1>3, <1>6, ShowInv

LEMMA StartedInv ==
  ASSUME LabInv, NEW d \in Device, NEW e \in Known, Reached(e, "running"), Started(d, e),
         UNCHANGED <<engine, edge, now>>
  PROVE  LabInv'
<1> DEFINE v == [[dash[d] EXCEPT !.state = "running"] EXCEPT !.active = e]
<1>1. /\ dash[d] \in Dashboard /\ Honest(d, dash[d]) /\ dash[d].state = "review"
      /\ dash[d].review # None /\ dash[d].confirmed = dash[d].review
      /\ e \in Experiment /\ job[e].steps \in Nat
  BY EngineAssumption DEF LabInv, DashType, DashInv, Started, EngineType, Known
<1>2. Show(d, v)
  BY DEF Started
<1>3. v \in Dashboard
  BY <1>1, DashFields DEF DashState
<1>4. /\ v.state = "running" /\ v.active = e
      /\ v.confirmed = dash[d].confirmed /\ v.review = dash[d].review
      /\ v.progress = dash[d].progress
  BY <1>1 DEF Dashboard
<1> HIDE DEF v
<1>5. Honest(d, v)
  BY <1>1, <1>4 DEF Honest, Shown
<1>6. NotAhead(v)
  BY <1>1, <1>4 DEF Honest, NotAhead, Shown
<1> QED BY <1>2, <1>3, <1>5, <1>6, ShowInv

\* An experiment that has reached an end is at that end.
LEMMA EndReached ==
  ASSUME LabInv, NEW e \in Known, NEW s \in Terminal, Reached(e, s)
  PROVE  StateOf(e) = s
<1>1. PICK i \in DOMAIN trail[e] : trail[e][i] = s
  BY DEF Reached, Contains
<1>2. e \in Experiment
  BY DEF LabInv, EngineType, Known
<1>3. i = Len(trail[e]) /\ job[e].state = trail[e][Len(trail[e])]
  BY <1>1, <1>2 DEF LabInv, TrailInv
<1> QED BY <1>1, <1>3 DEF StateOf

LEMMA ProgressedInv ==
  ASSUME LabInv, NEW d \in Device, NEW e \in Known, NEW n \in 1..job[e].steps,
         Progressed(d, e, n), UNCHANGED <<engine, edge, now>>
  PROVE  LabInv'
<1> DEFINE v == [dash[d] EXCEPT !.progress = n]
<1>1. /\ dash[d] \in Dashboard /\ Honest(d, dash[d]) /\ NotAhead(dash[d])
      /\ dash[d].state = "running" /\ dash[d].active = e
      /\ n \in Nat /\ n <= job[e].steps
  BY EngineAssumption DEF LabInv, DashType, DashInv, Progressed, Following, EngineType, Known
<1>2. Show(d, v)
  BY DEF Progressed
<1>3. v \in Dashboard
  BY <1>1, DashFields
<1>4. /\ v.state = "running" /\ v.active = e /\ v.progress = n
      /\ v.confirmed = dash[d].confirmed /\ v.review = dash[d].review
  BY <1>1 DEF Dashboard
<1> HIDE DEF v
<1>5. Honest(d, v)
  BY <1>1, <1>4 DEF Honest, Shown
<1>6. NotAhead(v)
  BY <1>1, <1>4 DEF NotAhead
<1> QED BY <1>2, <1>3, <1>5, <1>6, ShowInv

LEMMA CompletedInv ==
  ASSUME LabInv, NEW d \in Device, NEW e \in Known, Reached(e, "completed"),
         Completed(d, e, Steps), UNCHANGED <<engine, edge, now>>
  PROVE  LabInv'
<1> DEFINE v == [[dash[d] EXCEPT !.state = "result"] EXCEPT !.progress = Steps]
<1>1. /\ dash[d] \in Dashboard /\ Honest(d, dash[d])
      /\ dash[d].state = "running" /\ dash[d].active = e
  BY DEF LabInv, DashType, DashInv, Completed, Following
<1>2. Show(d, v)
  BY DEF Completed
<1>3. v \in Dashboard
  BY <1>1, DashFields, EngineAssumption DEF DashState
<1>4. /\ v.state = "result" /\ v.active = e
      /\ v.confirmed = dash[d].confirmed /\ v.review = dash[d].review
  BY <1>1 DEF Dashboard
<1>5. StateOf(e) = "completed"
  BY EndReached DEF Terminal
<1> HIDE DEF v
<1>6. Honest(d, v)
  BY <1>1, <1>4 DEF Honest, Shown
<1>7. NotAhead(v)
  BY <1>4, <1>5 DEF NotAhead
<1> QED BY <1>2, <1>3, <1>6, <1>7, ShowInv

LEMMA CancelledInv ==
  ASSUME LabInv, NEW d \in Device, NEW e \in Known, Reached(e, "cancelled"),
         Cancelled(d, e), UNCHANGED <<engine, edge, now>>
  PROVE  LabInv'
<1> DEFINE v == [dash[d] EXCEPT !.state = "cancelled"]
<1>1. /\ dash[d] \in Dashboard /\ Honest(d, dash[d])
      /\ dash[d].state = "running" /\ dash[d].active = e
  BY DEF LabInv, DashType, DashInv, Cancelled, Following
<1>2. Show(d, v)
  BY DEF Cancelled
<1>3. v \in Dashboard
  BY <1>1, DashFields DEF DashState
<1>4. /\ v.state = "cancelled" /\ v.active = e
      /\ v.confirmed = dash[d].confirmed /\ v.review = dash[d].review
  BY <1>1 DEF Dashboard
<1>5. StateOf(e) = "cancelled"
  BY EndReached DEF Terminal
<1> HIDE DEF v
<1>6. Honest(d, v)
  BY <1>1, <1>4 DEF Honest, Shown
<1>7. NotAhead(v)
  BY <1>4, <1>5 DEF NotAhead
<1> QED BY <1>2, <1>3, <1>6, <1>7, ShowInv

LEMMA TellInv ==
  ASSUME LabInv, NEW d \in Device, Tell(d), UNCHANGED <<engine, edge, now>>
  PROVE  LabInv'
BY AdvertiseInv, SelectInv, ReviewInv, AcknowledgeInv, StartedInv, ProgressedInv, CompletedInv,
   CancelledInv DEF Tell
-----------------------------------------------------------------------------
(* The presses, the confirmations and the clock.                           *)

\* The presses that were made, and those that were heard.
LEMMA PressFields ==
  ASSUME EdgeType
  PROVE  /\ now \in Nat /\ Len(presses) \in Nat
         /\ \A k \in 1..Len(presses) :
              /\ presses[k] \in [device : Device, plan : Plans, at : Nat]
              /\ presses[k].at \in Nat /\ presses[k].at <= now
         /\ \A d \in Device : heard[d] \in Nat /\ 1..heard[d] \subseteq 1..Len(presses)
<1> DEFINE R == [device : Device, plan : Plans, at : Nat]
<1>1. presses \in Seq(R) /\ now \in Nat
  BY DEF EdgeType
<1>2. \A k \in 1..Len(presses) : presses[k].at <= now
  BY DEF EdgeType
<1>3. \A r \in R : r.at \in Nat
  OBVIOUS
<1>4. ASSUME NEW d \in Device PROVE heard[d] \in Nat /\ 1..heard[d] \subseteq 1..Len(presses)
  <2>1. heard[d] \in Nat /\ heard[d] <= Len(presses)
    BY DEF EdgeType
  <2>2. Len(presses) \in Nat
    BY <1>1
  <2> QED BY <2>1, <2>2
<1> HIDE DEF R
<1>5. Len(presses) \in Nat /\ \A k \in 1..Len(presses) : presses[k] \in R
  BY <1>1
<1> QED BY <1>1, <1>2, <1>3, <1>4, <1>5 DEF R

\* They grow, and a display that was backed stays so.
LEMMA EdgeInv ==
  ASSUME LabInv, UNCHANGED <<engine, dash>>, EdgeType',
         \A k \in 1..Len(presses) : presses'[k] = presses[k],
         Len(presses') >= Len(presses), \A d \in Device : heard'[d] >= heard[d], now' >= now,
         confirmations \subseteq confirmations',
         \A c \in confirmations' \ confirmations :
           /\ c.device \in Device /\ c.plan \in Plans /\ c.until \in Nat
           /\ \E k \in 1..heard'[c.device] : From(k, c)'
  PROVE  LabInv'
<1>1. dash' = dash /\ job' = job /\ trail' = trail
  BY DEF engine
<1>2. EngineType' /\ DashType' /\ TrailInv'
  BY <1>1 DEF LabInv, EngineType, DashType, TrailInv, Known
<1>3. \A d \in Device : \A k \in 1..heard[d] : k \in 1..heard'[d] /\ presses'[k] = presses[k]
  <2>1. ASSUME NEW d \in Device, NEW k \in 1..heard[d]
        PROVE  k \in 1..heard'[d] /\ k \in 1..Len(presses)
    <3>1. heard[d] \in Nat /\ heard'[d] \in Nat /\ heard'[d] >= heard[d]
      BY DEF LabInv, EdgeType
    <3>2. k \in 1..Len(presses)
      BY PressFields DEF LabInv
    <3> QED BY <3>1, <3>2
  <2> QED BY <2>1
<1>4. ConfirmationInv'
  <2>1. ASSUME NEW c \in confirmations
        PROVE  /\ c.device \in Device /\ c.plan \in Plans /\ c.until \in Nat
               /\ \E k \in 1..heard'[c.device] : From(k, c)'
    <3>1. /\ c.device \in Device /\ c.plan \in Plans /\ c.until \in Nat
          /\ \E k \in 1..heard[c.device] : From(k, c)
      BY DEF LabInv, ConfirmationInv
    <3>2. PICK k \in 1..heard[c.device] : From(k, c)
      BY <3>1
    <3>3. k \in 1..heard'[c.device] /\ presses'[k] = presses[k]
      BY <1>3, <3>1, <3>2
    <3>4. presses[k].at \in Nat /\ now \in Nat /\ now' \in Nat
      <4>1. k \in 1..Len(presses)
        BY <3>1, <3>2, PressFields DEF LabInv
      <4> QED BY <4>1, PressFields DEF LabInv, EdgeType
    <3>5. presses[k].at <= now'
      BY <3>2, <3>4 DEF From
    <3> QED BY <3>1, <3>2, <3>3, <3>5 DEF From
  <2> QED BY <2>1 DEF ConfirmationInv
<1>5. ASSUME NEW d \in Device PROVE Honest(d, dash[d])' /\ NotAhead(dash[d])'
  <2>1. PICK w : w = dash[d]
    OBVIOUS
  <2>2. Honest(d, w) /\ NotAhead(w)
    BY <2>1 DEF LabInv, DashInv
  <2>3. \A p : Backed(d, p) => Backed(d, p)'
    BY <1>3 DEF Backed
  <2>4. Honest(d, w)' /\ NotAhead(w)'
    BY <1>1, <2>2, <2>3 DEF Honest, NotAhead, Reached, StateOf, Known
  <2> QED BY <1>1, <2>1, <2>4
<1> QED BY <1>2, <1>4, <1>5 DEF LabInv, DashInv

LEMMA PressInv ==
  ASSUME LabInv, NEW d \in Device, NEW p \in Plans, Press(d, p, now), UNCHANGED <<engine, edge, now>>
  PROVE  LabInv'
<1> DEFINE r == [device |-> d, plan |-> p, at |-> now]
           R == [device : Device, plan : Plans, at : Nat]
<1>1. /\ presses' = Append(presses, r) /\ dash' = dash /\ heard' = heard /\ now' = now
      /\ confirmations' = confirmations
  BY DEF Press, edge
<1>2. r \in R
  BY DEF LabInv, EdgeType
<1> HIDE DEF r
<1>4. /\ presses \in Seq(R) /\ presses' \in Seq(R) /\ Len(presses') = Len(presses) + 1
      /\ \A k \in 1..Len(presses) : presses'[k] = presses[k]
      /\ presses'[Len(presses) + 1] = r
  BY <1>1, <1>2 DEF LabInv, EdgeType
<1>5. \A k \in 1..Len(presses') : presses'[k].at <= now'
  <2>1. r.at = now /\ now \in Nat
    BY DEF r, LabInv, EdgeType
  <2>2. ASSUME NEW k \in 1..Len(presses') PROVE k \in 1..Len(presses) \/ k = Len(presses) + 1
    BY <1>4
  <2>3. \A k \in 1..Len(presses) : presses'[k].at <= now'
    BY <1>1, <1>4 DEF LabInv, EdgeType
  <2>4. presses'[Len(presses) + 1].at <= now'
    BY <1>1, <1>4, <2>1
  <2> QED BY <2>2, <2>3, <2>4
<1>6. EdgeType'
  BY <1>1, <1>4, <1>5 DEF LabInv, EdgeType
<1> HIDE DEF R
<1>7. Len(presses') >= Len(presses) /\ \A k \in 1..Len(presses) : presses'[k] = presses[k]
  BY <1>4, PressFields DEF LabInv
<1>8. UNCHANGED <<engine, dash>> /\ now' >= now /\ \A x \in Device : heard'[x] >= heard[x]
  BY <1>1, PressFields DEF LabInv
<1>9. confirmations' \ confirmations = {}
  BY <1>1
<1> QED BY <1>1, <1>6, <1>7, <1>8, <1>9, EdgeInv

\* A change of the profile only.
LEMMA ProfileInv ==
  ASSUME LabInv, UNCHANGED <<dash, presses>>, UNCHANGED <<engine, edge, now>>
  PROVE  LabInv'
<1>1. presses' = presses /\ heard' = heard /\ now' = now /\ confirmations' = confirmations
  BY DEF edge
<1>2. EdgeType'
  BY <1>1 DEF LabInv, EdgeType
<1> QED BY <1>1, <1>2, EdgeInv DEF LabInv, EdgeType

LEMMA OperateInv ==
  ASSUME LabInv, NEW d \in Device, Operate(d), UNCHANGED <<engine, edge, now>>
  PROVE  LabInv'
BY PressInv, ProfileInv DEF Operate, Switch, TickProfile, Reboot

LEMMA AskInv ==
  ASSUME LabInv, NEW d \in Device, NEW q, NEW method, Ask(d, q, method)
  PROVE  LabInv'
<1>1. /\ presses' = presses /\ heard' = heard /\ now' = now /\ confirmations' = confirmations
      /\ UNCHANGED <<engine, dash>>
  BY DEF Ask, device
<1>2. EdgeType'
  BY <1>1 DEF LabInv, EdgeType
<1> QED BY <1>1, <1>2, EdgeInv DEF LabInv, EdgeType

LEMMA TickInv ==
  ASSUME LabInv, Tick
  PROVE  LabInv'
<1>1. /\ presses' = presses /\ heard' = heard /\ now' = now + 1 /\ confirmations' = confirmations
      /\ UNCHANGED <<engine, dash>>
  BY DEF Tick, device, edge
<1>2. EdgeType'
  <2>1. ASSUME NEW k \in 1..Len(presses) PROVE presses[k].at <= now + 1
    <3>1. presses[k].at \in Nat /\ now \in Nat /\ presses[k].at <= now
      BY PressFields DEF LabInv
    <3> QED BY <3>1
  <2> QED BY <1>1, <2>1 DEF LabInv, EdgeType
<1> QED BY <1>1, <1>2, EdgeInv DEF LabInv, EdgeType

LEMMA ConfirmInv ==
  ASSUME LabInv, NEW i \in DOMAIN presses, Confirm(i)
  PROVE  LabInv'
<1> PICK p : p = presses[i]
  OBVIOUS
<1> PICK c : c = [actor |-> OperatorOf[p.device].id, device |-> p.device, plan |-> p.plan,
                  physical |-> TRUE, until |-> now + ConfirmTTL]
  OBVIOUS
<1>1. /\ presses' = presses /\ now' = now /\ UNCHANGED <<engine, dash>>
      /\ heard' = [heard EXCEPT ![p.device] = i]
      /\ confirmations' = confirmations \cup {c}
      /\ i > heard[p.device] /\ now - p.at <= Past
  BY DEF Confirm, device
<1>2. /\ p \in [device : Device, plan : Plans, at : Nat] /\ i \in Nat /\ i <= Len(presses) /\ i >= 1
      /\ heard \in [Device -> Nat] /\ now \in Nat
  <2>1. /\ presses \in Seq([device : Device, plan : Plans, at : Nat])
        /\ heard \in [Device -> Nat] /\ now \in Nat
    BY DEF LabInv, EdgeType
  <2>2. i \in 1..Len(presses) /\ Len(presses) \in Nat
    BY <2>1
  <2> QED BY <2>1, <2>2, PressFields DEF LabInv
<1>3. /\ heard' \in [Device -> Nat] /\ heard'[p.device] = i
      /\ \A d \in Device : heard'[d] >= heard[d] /\ heard'[d] <= Len(presses)
  BY <1>1, <1>2 DEF LabInv, EdgeType
<1>4. EdgeType'
  BY <1>1, <1>2, <1>3 DEF LabInv, EdgeType
<1>5. p.at <= now
  BY <1>2 DEF LabInv, EdgeType
<1>6. From(i, c)'
  <2>1. now + ConfirmTTL <= p.at + Past + ConfirmTTL
    BY <1>1, <1>2, LabAssumption
  <2> QED BY <1>1, <1>5, <2>1 DEF From
<1>7. c.device \in Device /\ c.plan \in Plans /\ c.until \in Nat /\ i \in 1..heard'[c.device]
  BY <1>2, <1>3, LabAssumption
<1>8. ASSUME NEW k \in confirmations' \ confirmations
      PROVE  /\ k.device \in Device /\ k.plan \in Plans /\ k.until \in Nat
             /\ \E x \in 1..heard'[k.device] : From(x, k)'
  <2>1. k = c
    BY <1>1
  <2> QED BY <1>6, <1>7, <2>1
<1>9. Len(presses') >= Len(presses) /\ now' >= now
  BY <1>1, <1>2 DEF LabInv, EdgeType
<1>10. \A d \in Device : heard'[d] >= heard[d]
  BY <1>3
<1> QED BY <1>1, <1>4, <1>8, <1>9, <1>10, EdgeInv
-----------------------------------------------------------------------------
(* The engine.                                                             *)

LEMMA PlanFields == \A p \in Plans : p.exp \in Experiment
<1> DEFINE Bound == {x \in Proposal \X Operator \X Source \X Scope : Bindable(x[1], x[2], x[3])}
<1>1. SUFFICES ASSUME NEW b \in Bound PROVE Bind(b[1], b[2], b[3], b[4]).exp \in Experiment
  BY DEF Plans
<1>2. b[1] \in Proposal
  OBVIOUS
<1> QED BY <1>2, EngineAssumption DEF Bind

\* Experiments are added and go on; what has happened to one stays, and an end is kept.
LEMMA EngineInv ==
  ASSUME LabInv, UNCHANGED <<device, edge, now>>, EngineType', TrailInv',
         \A e \in Known : e \in Known' /\ job'[e].steps >= job[e].steps,
         \A e \in Known : Reached(e, "running") => Reached(e, "running")',
         \A e \in Known : StateOf(e) \in Terminal => StateOf(e)' = StateOf(e)
  PROVE  LabInv'
<1>1. /\ dash' = dash /\ presses' = presses /\ heard' = heard /\ now' = now
      /\ confirmations' = confirmations
  BY DEF device, edge
<1>2. DashType' /\ EdgeType' /\ ConfirmationInv'
  <2>1. DashType'
    BY <1>1 DEF LabInv, DashType
  <2>2. EdgeType' /\ ConfirmationInv'
    BY <1>1 DEF LabInv, EdgeType, ConfirmationInv, From
  <2> QED BY <2>1, <2>2
<1>3. ASSUME NEW d \in Device PROVE Honest(d, dash[d])' /\ NotAhead(dash[d])'
  <2>1. PICK w : w = dash[d]
    OBVIOUS
  <2>2. Honest(d, w) /\ NotAhead(w) /\ w \in Dashboard
    BY <2>1 DEF LabInv, DashInv, DashType
  <2>3. Honest(d, w)'
    BY <1>1, <2>2 DEF Honest, Backed
  <2>4. ASSUME w.state \notin Shown PROVE NotAhead(w)'
    BY <2>4 DEF NotAhead, Shown
  <2>5. ASSUME w.state \in Shown PROVE NotAhead(w)'
    <3>1. w.active \in Known /\ w.active \in Known' /\ w.active \in Experiment
      BY <2>2, <2>5 DEF Honest, LabInv, EngineType, Known
    <3>2. w.progress <= job[w.active].steps => w.progress <= job'[w.active].steps
      <4>1. job[w.active].steps \in Nat /\ job'[w.active].steps \in Nat /\ w.progress \in Nat
        BY <2>2, <3>1, EngineAssumption DEF LabInv, EngineType, Known, Dashboard
      <4>2. job'[w.active].steps >= job[w.active].steps
        BY <3>1
      <4> QED BY <4>1, <4>2
    <3> QED BY <2>2, <3>1, <3>2 DEF NotAhead, Terminal
  <2> QED BY <1>1, <2>1, <2>3, <2>4, <2>5
<1> QED BY <1>2, <1>3 DEF LabInv, DashInv

\* A list of states that a job may pass through in one call.
Passage(states) ==
  /\ states \in Seq(TrailState) /\ states # <<>> /\ Last(states) = states[Len(states)]
  /\ Last(states) \in JobState
  /\ \A i \in DOMAIN states : states[i] \in Terminal => i = Len(states)

LEMMA EnterInv ==
  ASSUME LabInv, NEW p \in Plans, New(p), NEW states, Passage(states), Enter(p, states),
         UNCHANGED <<device, edge, now>>
  PROVE  LabInv'
<1> DEFINE J == [plan : Plans, state : JobState, steps : 0..(Steps - 1)]
<1>1. PICK j : j = [plan |-> p, state |-> Last(states), steps |-> 0]
  OBVIOUS
<1>2. j \in J /\ j.state = Last(states)
  BY <1>1, EngineAssumption DEF Passage
<1>3. p.exp \in Experiment /\ p.exp \notin Known
  BY PlanFields DEF New
<1>4. /\ Known' = Known \cup {p.exp} /\ job'[p.exp] = j /\ \A e \in Known : job'[e] = job[e]
      /\ job' = [e \in Known' |-> job'[e]]
  BY <1>1, <1>3 DEF Enter, Known
<1>5. trail[p.exp] = <<>> /\ trail \in [Experiment -> Seq(TrailState)]
  BY <1>3 DEF LabInv, EngineType, TrailInv
<1>6. <<>> \o states = states
  BY DEF Passage
<1>7. trail' = [trail EXCEPT ![p.exp] = states]
  BY <1>5, <1>6 DEF Enter
<1>8. /\ trail' \in [Experiment -> Seq(TrailState)] /\ trail'[p.exp] = states
      /\ \A e \in Experiment : e # p.exp => trail'[e] = trail[e]
  BY <1>3, <1>5, <1>7 DEF Passage
<1>9. EngineType'
  <2>1. \A e \in Known : job[e] \in J
    BY DEF LabInv, EngineType, Known
  <2>2. \A e \in Known' : job'[e] \in J
    BY <1>2, <1>4, <2>1
  <2>3. Known' \subseteq Experiment
    BY <1>3, <1>4 DEF LabInv, EngineType, Known
  <2> HIDE DEF J
  <2>4. job' \in [DOMAIN job' -> J]
    BY <1>4, <2>2 DEF Known
  <2> QED BY <1>8, <2>3, <2>4 DEF EngineType, J, Known
<1>10. TrailInv'
  <2>1. ASSUME NEW e \in Experiment, e # p.exp
        PROVE  /\ e \notin Known' => trail'[e] = <<>>
               /\ e \in Known' => trail'[e] # <<>> /\ job'[e].state = trail'[e][Len(trail'[e])]
               /\ \A i \in DOMAIN trail'[e] : trail'[e][i] \in Terminal => i = Len(trail'[e])
    <3>1. /\ trail'[e] = trail[e] /\ (e \in Known' <=> e \in Known)
          /\ e \in Known => job'[e] = job[e]
      BY <1>4, <1>8, <2>1
    <3> QED BY <3>1 DEF LabInv, TrailInv
  <2>2. /\ trail'[p.exp] # <<>> /\ job'[p.exp].state = trail'[p.exp][Len(trail'[p.exp])]
        /\ \A i \in DOMAIN trail'[p.exp] : trail'[p.exp][i] \in Terminal => i = Len(trail'[p.exp])
    BY <1>2, <1>4, <1>8 DEF Passage
  <2> QED BY <1>4, <2>1, <2>2 DEF TrailInv
<1>11. ASSUME NEW e \in Known
       PROVE  /\ job'[e].steps >= job[e].steps
              /\ Reached(e, "running") => Reached(e, "running")'
              /\ StateOf(e)' = StateOf(e)
  <2>1. job[e].steps \in Nat /\ e \in Experiment /\ e # p.exp
    BY <1>3, EngineAssumption DEF LabInv, EngineType, Known
  <2>2. job'[e] = job[e] /\ trail'[e] = trail[e] /\ e \in Known'
    BY <1>4, <1>8, <2>1
  <2> QED BY <2>1, <2>2 DEF Reached, StateOf
<1> QED BY <1>4, <1>9, <1>10, <1>11, EngineInv

LEMMA StartInv ==
  ASSUME LabInv, Start, UNCHANGED <<device, edge, now>>
  PROVE  LabInv'
<1>1. PICK p \in Plans, c \in Contexts :
        Deny(p, c, now) \/ Unavailable(p, c, now) \/ Interrupted(p, c, now) \/ Run(p, c, now)
  BY DEF Start
<1> USE DEF Passage, TrailState, JobState, Terminal, Last
<1>2. CASE Deny(p, c, now)
  <2>1. Passage(<<"validated", "denied">>)
    OBVIOUS
  <2> QED BY <1>2, <2>1, EnterInv DEF Deny, Submitted
<1>3. CASE Unavailable(p, c, now)
  <2>1. Passage(<<"validated", "authorized", "failed">>)
    OBVIOUS
  <2> QED BY <1>3, <2>1, EnterInv DEF Unavailable, Submitted
<1>4. CASE Interrupted(p, c, now)
  <2>1. Passage(<<"validated", "authorized">>)
    OBVIOUS
  <2> QED BY <1>4, <2>1, EnterInv DEF Interrupted, Submitted
<1>5. CASE Run(p, c, now)
  <2>1. Passage(<<"validated", "authorized", "running">>)
    OBVIOUS
  <2> QED BY <1>5, <2>1, EnterInv DEF Run, Submitted
<1> QED BY <1>1, <1>2, <1>3, <1>4, <1>5

LEMMA ProgressInv ==
  ASSUME LabInv, NEW e \in Experiment, Progress(e), UNCHANGED <<device, edge, now>>
  PROVE  LabInv'
<1> DEFINE J == [plan : Plans, state : JobState, steps : 0..(Steps - 1)]
<1>1. e \in Known /\ trail' = trail /\ job[e].steps < Steps - 1
  BY DEF Progress, StateOf
<1>2. \A x \in Known : job[x] \in J
  BY DEF LabInv, EngineType, Known
<1>3. PICK j : j = [job[e] EXCEPT !.steps = @ + 1]
  OBVIOUS
<1>4. j \in J /\ j.state = job[e].state /\ j.steps >= job[e].steps
  <2>1. job[e] \in J /\ job[e].steps \in Nat
    BY <1>1, <1>2, EngineAssumption
  <2>2. job[e].steps + 1 \in 0..(Steps - 1) /\ job[e].steps + 1 >= job[e].steps
    BY <1>1, <2>1, EngineAssumption
  <2> QED BY <1>3, <2>1, <2>2
<1>5. /\ Known' = Known /\ job'[e] = j /\ \A x \in Known : x # e => job'[x] = job[x]
      /\ job' = [x \in Known |-> job'[x]]
  BY <1>1, <1>3 DEF Progress, Known, LabInv, EngineType
<1> HIDE DEF J
<1>6. \A x \in Known : job'[x] \in J /\ job'[x].state = job[x].state
  BY <1>2, <1>4, <1>5
<1>7. EngineType'
  <2>1. job' \in [DOMAIN job' -> J]
    BY <1>5, <1>6 DEF Known
  <2> QED BY <1>1, <1>5, <2>1 DEF LabInv, EngineType, J, Known
<1>8. TrailInv'
  BY <1>1, <1>5, <1>6 DEF LabInv, TrailInv
<1>9. ASSUME NEW x \in Known
      PROVE  /\ job'[x].steps >= job[x].steps
             /\ Reached(x, "running") => Reached(x, "running")'
             /\ StateOf(x)' = StateOf(x)
  <2>1. job[x].steps \in Nat
    BY <1>2, EngineAssumption DEF J
  <2>2. job'[x].steps >= job[x].steps
    BY <1>4, <1>5, <2>1
  <2> QED BY <1>1, <1>5, <1>6, <2>2 DEF Reached, StateOf
<1> QED BY <1>5, <1>7, <1>8, <1>9, EngineInv

LEMMA BecomeInv ==
  ASSUME LabInv, NEW e \in Known, StateOf(e) \notin Terminal, NEW s \in JobState, Become(e, s),
         UNCHANGED <<device, edge, now>>
  PROVE  LabInv'
<1> DEFINE J == [plan : Plans, state : JobState, steps : 0..(Steps - 1)]
<1>1. \A x \in Known : job[x] \in J
  BY DEF LabInv, EngineType, Known
<1>2. PICK j : j = [job[e] EXCEPT !.state = s]
  OBVIOUS
<1>3. j \in J /\ j.state = s /\ j.steps = job[e].steps
  BY <1>1, <1>2
<1>4. /\ Known' = Known /\ job'[e] = j /\ \A x \in Known : x # e => job'[x] = job[x]
      /\ job' = [x \in Known |-> job'[x]]
  BY <1>2 DEF Become, Known, LabInv, EngineType
<1> HIDE DEF J
<1>5. e \in Experiment /\ trail \in [Experiment -> Seq(TrailState)]
  BY DEF LabInv, EngineType, Known
<1>6. PICK q : q = Append(trail[e], s)
  OBVIOUS
<1>7. /\ q \in Seq(TrailState) /\ q # <<>> /\ q[Len(q)] = s /\ Len(q) = Len(trail[e]) + 1
      /\ Len(trail[e]) \in Nat
      /\ \A i \in DOMAIN trail[e] : i \in DOMAIN q /\ q[i] = trail[e][i]
      /\ \A i \in DOMAIN q : i \in DOMAIN trail[e] \/ i = Len(q)
  BY <1>5, <1>6 DEF TrailState
<1>8. /\ trail' \in [Experiment -> Seq(TrailState)] /\ trail'[e] = q
      /\ \A x \in Experiment : x # e => trail'[x] = trail[x]
  BY <1>5, <1>6, <1>7 DEF Become
<1>9. EngineType'
  <2>1. job' \in [DOMAIN job' -> J]
    BY <1>1, <1>3, <1>4 DEF Known
  <2> QED BY <1>4, <1>8, <2>1 DEF LabInv, EngineType, J, Known
<1>10. \A i \in DOMAIN trail[e] : trail[e][i] \notin Terminal
  <2>1. job[e].state \notin Terminal /\ job[e].state = trail[e][Len(trail[e])]
    BY <1>5 DEF StateOf, LabInv, TrailInv
  <2> QED BY <1>5, <2>1 DEF LabInv, TrailInv
<1>11. TrailInv'
  <2>1. ASSUME NEW x \in Experiment, x # e
        PROVE  /\ x \notin Known' => trail'[x] = <<>>
               /\ x \in Known' => trail'[x] # <<>> /\ job'[x].state = trail'[x][Len(trail'[x])]
               /\ \A i \in DOMAIN trail'[x] : trail'[x][i] \in Terminal => i = Len(trail'[x])
    BY <1>4, <1>8, <2>1 DEF LabInv, TrailInv
  <2>2. \A i \in DOMAIN q : q[i] \in Terminal => i = Len(q)
    BY <1>7, <1>10
  <2> QED BY <1>3, <1>4, <1>7, <1>8, <2>1, <2>2 DEF TrailInv
<1>12. ASSUME NEW x \in Known
       PROVE  /\ job'[x].steps >= job[x].steps
              /\ Reached(x, "running") => Reached(x, "running")'
              /\ StateOf(x) \in Terminal => StateOf(x)' = StateOf(x)
  <2>1. job[x].steps \in Nat /\ x \in Experiment
    BY <1>1, EngineAssumption DEF J, LabInv, EngineType, Known
  <2>2. CASE x = e
    <3>1. Reached(x, "running") => Reached(x, "running")'
      BY <1>7, <1>8, <2>2 DEF Reached, Contains
    <3> QED BY <1>3, <1>4, <2>1, <2>2, <3>1
  <2>3. CASE x # e
    BY <1>4, <1>8, <2>1, <2>3 DEF Reached, StateOf
  <2> QED BY <2>2, <2>3
<1> QED BY <1>4, <1>9, <1>11, <1>12, EngineInv

LEMMA StepInv ==
  ASSUME LabInv, Step, UNCHANGED <<device, edge, now>>
  PROVE  LabInv'
<1>1. PICK e \in Experiment : Advance(e) \/ Cancel(e)
  BY DEF Step
<1>2. CASE Progress(e)
  BY <1>2, ProgressInv
<1>3. CASE Complete(e) \/ Fail(e) \/ Cancel(e)
  <2>1. /\ e \in Known /\ StateOf(e) \notin Terminal
        /\ Become(e, "completed") \/ Become(e, "failed") \/ Become(e, "cancelled")
    BY <1>3 DEF Complete, Fail, Cancel, StateOf, Terminal
  <2> QED BY <2>1, BecomeInv DEF JobState, Terminal
<1> QED BY <1>1, <1>2, <1>3 DEF Advance
-----------------------------------------------------------------------------
LEMMA LabInit == Init => LabInv
<1> SUFFICES ASSUME Init PROVE LabInv
  OBVIOUS
<1>1. /\ dash = [d \in Device |-> Blank] /\ presses = <<>> /\ now = 0
      /\ heard = [d \in Device |-> 0] /\ confirmations = {}
      /\ job = <<>> /\ trail = [e \in Experiment |-> <<>>]
  BY DEF Init, EngineInit, DeviceInit
<1>2. EngineType /\ TrailInv
  <2>1. DOMAIN job = {}
    BY <1>1
  <2>2. EngineType
    BY <1>1, <2>1 DEF EngineType
  <2> QED BY <1>1, <2>1, <2>2 DEF TrailInv, Known
<1>3. EdgeType /\ ConfirmationInv
  BY <1>1 DEF EdgeType, ConfirmationInv
<1>4. /\ Blank \in Dashboard /\ Blank.state = "disconnected" /\ Blank.progress = 0
      /\ Blank.confirmed = None
  BY DEF Blank, Dashboard, DashState
<1>5. DashType
  BY <1>1, <1>4 DEF DashType
<1>6. ASSUME NEW d \in Device PROVE Honest(d, dash[d]) /\ NotAhead(dash[d])
  BY <1>1, <1>4 DEF Honest, NotAhead, Shown
<1> QED BY <1>2, <1>3, <1>5, <1>6 DEF LabInv, DashInv

LEMMA LabNext == LabInv /\ [Next]_vars => LabInv'
<1> SUFFICES ASSUME LabInv, [Next]_vars PROVE LabInv'
  OBVIOUS
<1>1. CASE Start /\ UNCHANGED <<device, edge, now>>
  BY <1>1, StartInv
<1>2. CASE Step /\ UNCHANGED <<device, edge, now>>
  BY <1>2, StepInv
<1>3. CASE \E d \in Device : (Tell(d) \/ Operate(d)) /\ UNCHANGED <<engine, edge, now>>
  BY <1>3, TellInv, OperateInv
<1>4. CASE \E d \in Device, q \in RequestId, method \in Method : Ask(d, q, method)
  BY <1>4, AskInv
<1>5. CASE \E i \in DOMAIN presses : Confirm(i)
  BY <1>5, ConfirmInv
<1>6. CASE Tick
  BY <1>6, TickInv
<1>7. CASE UNCHANGED vars
  BY <1>7, ProfileInv DEF vars, device
<1> QED BY <1>1, <1>2, <1>3, <1>4, <1>5, <1>6, <1>7 DEF Next

\* What is known of every reachable state.
THEOREM LabInvariant == Spec => []LabInv
BY LabInit, LabNext, PTL DEF Spec

\* The display shows an experiment under way only over a plan that a person
\* confirmed on it with the key and the edge accepted (DeviceDashboard, and
\* DeviceLabConfirmationGateway.handle).
THEOREM ShownConfirmed == Spec => []ShownIsConfirmed
<1>1. LabInv => ShownIsConfirmed
  BY DEF LabInv, DashInv, Honest, Backed, Shown, ShownIsConfirmed
<1> QED BY <1>1, LabInvariant, PTL

\* The display shows a result or an end only of an experiment that has come to
\* it, and no step that has not been done (DeviceDashboard and ExperimentEngine).
THEOREM DisplayTrue == Spec => []DisplayNotAhead
<1>1. LabInv => DisplayNotAhead
  BY DEF LabInv, DashInv, NotAhead, DisplayNotAhead
<1> QED BY <1>1, LabInvariant, PTL
-----------------------------------------------------------------------------
(* The decision.                                                           *)

Below == {p \in Nat \X Nat : p[1] < p[2]}

LEMMA Least ==
  ASSUME NEW T \in SUBSET Nat, T # {}
  PROVE  \E m \in T : \A y \in T : m <= y
<1>1. IsWellFoundedOn(Below, Nat)
  BY NatLessThanWellFounded, Zenon DEF OpToRel, Below
<1>2. PICK x \in T : \A y \in T : ~ (<<y, x>> \in Below)
  BY <1>1, WFMin
<1>3. \A a, b \in Nat : a < b => <<a, b>> \in Below
  BY DEF Below
<1>4. \A y \in T : ~ (y < x)
  BY <1>2, <1>3
<1>5. \A a, b \in Nat : ~ (a < b) => b <= a
  OBVIOUS
<1> QED BY <1>2, <1>4, <1>5

LEMMA MinLeast ==
  ASSUME NEW T \in SUBSET Nat, T # {}
  PROVE  Min(T) \in T /\ \A y \in T : Min(T) <= y
<1>1. \E m \in T : \A y \in T : m <= y
  BY Least
<1> QED BY <1>1, Zenon DEF Min

\* A request whose decision asks for a confirmation passes every check before it.
LEMMA AsksForConfirmation ==
  ASSUME NEW r, NEW t,
         Decide(Checks(r, t)) \in {"allow_with_confirmation", "require_physical_confirmation"}
  PROVE  \A i \in 1..8 : Checks(r, t)[i].ok
<1> DEFINE C == Checks(r, t)
           failed == {i \in DOMAIN C : ~ C[i].ok}
<1>1. DOMAIN C = 1..11
  BY DEF Checks
<1>2. /\ C[1].else = "deny" /\ C[2].else = "deny" /\ C[3].else = "require_profile_change"
      /\ C[4].else = "deny" /\ C[5].else = "deny" /\ C[6].else = "require_scope"
      /\ C[7].else = "deny" /\ C[8].else = "deny"
  BY DEF Checks
<1>3. failed # {} /\ C[Min(failed)].else \in {"allow_with_confirmation", "require_physical_confirmation"}
  BY DEF Decide
<1> HIDE DEF C
<1>4. failed \in SUBSET Nat
  BY <1>1
<1>5. Min(failed) \in 1..11 /\ \A y \in failed : Min(failed) <= y
  BY <1>1, <1>3, <1>4, MinLeast
<1> HIDE DEF failed
<1>6. Min(failed) \notin 1..8
  BY <1>2, <1>3
<1>7. \A i \in 1..8 : i \notin failed
  BY <1>5, <1>6
<1> QED BY <1>1, <1>7 DEF C, failed

\* A decision that asks for a confirmation is kept (PolicyEvaluator.evaluate).
LEMMA Suffices == LabInv => ConfirmationSuffices
<1> SUFFICES ASSUME LabInv, NEW p \in Plans, NEW c \in Contexts,
                    Evaluate(Tools, Asked(p, c, now)) \in
                      {"allow_with_confirmation", "require_physical_confirmation"}
             PROVE  Evaluate(Tools, [Asked(p, c, now) EXCEPT !.confirmation =
                      [actor |-> c.actor.id, device |-> c.device.id, plan |-> p,
                       physical |-> TRUE, until |-> now + ConfirmTTL]]) = "allow"
  BY DEF ConfirmationSuffices
<1> PICK k : k = [actor |-> c.actor.id, device |-> c.device.id, plan |-> p,
                  physical |-> TRUE, until |-> now + ConfirmTTL]
  OBVIOUS
<1> PICK r : r = Asked(p, c, now)
  OBVIOUS
<1> PICK s : s = [r EXCEPT !.confirmation = k]
  OBVIOUS
<1> PICK t : t = CHOOSE x \in {y \in Tools : y.tool = r.tool} : TRUE
  OBVIOUS
<1>1. now \in Nat /\ ConfirmTTL \in Nat \ {0}
  BY LabAssumption DEF LabInv, EdgeType
<1>2. /\ r.tool = p.module /\ r.actor = c.actor /\ r.device = c.device /\ r.at = now /\ r.plan = p
  BY DEF Asked
<1>3. /\ s.tool = r.tool /\ s.actor = r.actor /\ s.device = r.device /\ s.profile = r.profile
      /\ s.targets = r.targets /\ s.duration = r.duration /\ s.at = r.at /\ s.plan = r.plan
      /\ s.grant = r.grant /\ s.scope = r.scope /\ s.confirmation = k
  BY DEF Asked
<1>4. k # None
  <2>1. c.actor \in Operator /\ c.device \in Source
    BY DEF Contexts
  <2>2. k \in [actor : {o.id : o \in Operator}, device : {x.id : x \in Source},
               plan : Plans, physical : BOOLEAN, until : Nat]
    BY <1>1, <2>1
  <2> QED BY <2>2, LabAssumption
<1>5. Confirms(s) /\ k.physical
  BY <1>1, <1>2, <1>3 DEF Confirms
<1>6. {y \in Tools : y.tool = r.tool} # {} /\ Decide(Checks(r, t)) \in
         {"allow_with_confirmation", "require_physical_confirmation"}
  BY DEF Evaluate
<1>7. \A i \in 1..8 : Checks(r, t)[i].ok
  BY <1>6, AsksForConfirmation
<1>8. \A i \in 1..11 : Checks(s, t)[i].ok
  <2>1. /\ Checks(s, t)[1].ok /\ Checks(s, t)[2].ok /\ Checks(s, t)[3].ok /\ Checks(s, t)[4].ok
    BY <1>3, <1>7 DEF Checks, OneOrganization
  <2>2. /\ Checks(s, t)[5].ok /\ Checks(s, t)[6].ok /\ Checks(s, t)[7].ok /\ Checks(s, t)[8].ok
    BY <1>3, <1>7 DEF Checks, Granted, InScope, Lasting
  <2>3. /\ Checks(s, t)[9].ok /\ Checks(s, t)[10].ok /\ Checks(s, t)[11].ok
    BY <1>3, <1>4, <1>5 DEF Checks
  <2> QED BY <2>1, <2>2, <2>3
<1>9. Decide(Checks(s, t)) = "allow"
  <2>1. DOMAIN Checks(s, t) = 1..11
    BY DEF Checks
  <2> QED BY <1>8, <2>1 DEF Decide
<1>10. Evaluate(Tools, s) = "allow"
  BY <1>3, <1>6, <1>9 DEF Evaluate
<1> QED BY <1>10

\* No denial hides behind a decision that asks for a confirmation
\* (PolicyEvaluator.evaluate, for a start by ExperimentEngine).
THEOREM ConfirmationKept == Spec => []ConfirmationSuffices
BY LabInvariant, Suffices, PTL
-----------------------------------------------------------------------------
(* The registry and the press.                                             *)

LEMMA Induct ==
  ASSUME NEW S, 0 \in S, \A n \in Nat : n \in S => n + 1 \in S
  PROVE  Nat \subseteq S
<1> DEFINE T == Nat \ S
<1>1. CASE T = {}
  BY <1>1
<1>2. CASE T # {}
  <2>1. PICK m \in T : \A y \in T : m <= y
    BY <1>2, Least
  <2>2. m # 0 /\ m \in Nat /\ m - 1 \in Nat
    BY <2>1
  <2>3. m - 1 \notin T
    BY <2>1, <2>2
  <2>4. m - 1 + 1 \in S
    BY <2>2, <2>3
  <2> QED BY <2>2, <2>4
<1> QED BY <1>1, <1>2

\* What register says of manifest i, once it has answered for those before it.
Takes(r, i) ==
  /\ Admissible(Modules[i])
  /\ \A j \in 1..(i - 1) : r[j] => ~ Clash(Modules[i], Modules[j])

\* register answers for each of the manifests.
LEMMA AcceptedAnswers ==
  \A i \in DOMAIN Modules : Accepted[i] <=> Takes(Accepted, i)
<1> DEFINE Answers(r, n) == \A i \in 1..n : r[i] <=> Takes(r, i)
           S == {n \in Nat : \E r \in [1..n -> BOOLEAN] : Answers(r, n)}
<1>1. 0 \in S
  <2>1. Answers([i \in 1..0 |-> TRUE], 0)
    OBVIOUS
  <2>2. [i \in 1..0 |-> TRUE] \in [1..0 -> BOOLEAN]
    OBVIOUS
  <2> QED BY <2>1, <2>2
<1>2. ASSUME NEW n \in Nat, n \in S PROVE n + 1 \in S
  <2>1. PICK r \in [1..n -> BOOLEAN] : Answers(r, n)
    BY <1>2
  <2> DEFINE q == [i \in 1..(n + 1) |-> IF i \in 1..n THEN r[i]
                                        ELSE IF Takes(r, n + 1) THEN TRUE ELSE FALSE]
  <2>2. q \in [1..(n + 1) -> BOOLEAN]
    OBVIOUS
  <2>3. \A i \in 1..n : q[i] = r[i]
    OBVIOUS
  <2>4. q[n + 1] <=> Takes(r, n + 1)
    OBVIOUS
  <2> HIDE DEF q
  <2>5. ASSUME NEW i \in 1..(n + 1) PROVE Takes(q, i) <=> Takes(r, i)
    <3>1. \A j \in 1..(i - 1) : q[j] = r[j]
      BY <2>3
    <3> QED BY <3>1 DEF Takes
  <2>6. ASSUME NEW i \in 1..(n + 1) PROVE q[i] <=> Takes(q, i)
    <3>1. CASE i \in 1..n
      BY <2>1, <2>3, <2>5, <3>1
    <3>2. CASE i \notin 1..n
      <4>1. i = n + 1
        BY <3>2
      <4> QED BY <2>4, <2>5, <4>1
    <3> QED BY <3>1, <3>2
  <2> QED BY <2>2, <2>6
<1>3. Nat \subseteq S
  <2> HIDE DEF S
  <2> QED BY <1>1, <1>2, Induct
<1>4. DOMAIN Modules = 1..Len(Modules) /\ Len(Modules) \in Nat
  BY EngineAssumption
<1>5. \E r \in [DOMAIN Modules -> BOOLEAN] : \A i \in DOMAIN Modules : r[i] <=> Takes(r, i)
  BY <1>3, <1>4
<1>6. Accepted = CHOOSE r \in [DOMAIN Modules -> BOOLEAN] :
                   \A i \in DOMAIN Modules : r[i] <=> Takes(r, i)
  BY DEF Accepted, Takes
<1> QED BY <1>5, <1>6, Zenon

\* No two registered modules have the same id.
LEMMA RegisteredOnce ==
  ASSUME NEW m \in Registered, NEW k \in Registered, m.module = k.module
  PROVE  m = k
<1>1. PICK i \in DOMAIN Modules : Accepted[i] /\ m = Modules[i]
  BY DEF Registered
<1>2. PICK j \in DOMAIN Modules : Accepted[j] /\ k = Modules[j]
  BY DEF Registered
<1>3. i \in Nat /\ j \in Nat /\ i >= 1 /\ j >= 1
  BY EngineAssumption
<1>4. ~ (i < j)
  BY <1>1, <1>2, <1>3, AcceptedAnswers DEF Takes, Clash
<1>5. ~ (j < i)
  BY <1>1, <1>2, <1>3, AcceptedAnswers DEF Takes, Clash
<1> QED BY <1>1, <1>2, <1>3, <1>4, <1>5

\* The tool of a module asks for what the module asks for.
LEMMA ToolOf ==
  ASSUME NEW id, NEW t \in Tools, t.tool = id
  PROVE  t.physical = ManifestOf(id).physical /\ (t.physical => t.confirmed)
<1>1. PICK m \in Registered : t = AsTool(m)
  BY DEF Tools
<1>2. m.module = id /\ t.physical = m.physical
  BY <1>1 DEF AsTool
<1>3. ManifestOf(id) = m
  BY <1>2, RegisteredOnce DEF ManifestOf
<1> QED BY <1>2, <1>3, ToolsAssumption DEF Registrable

\* An allowed request of a tool that asks for a press has one.
LEMMA AllowedConfirmed ==
  ASSUME NEW r, NEW t, Decide(Checks(r, t)) = "allow", t.physical, t.confirmed
  PROVE  r.confirmation # None /\ Confirms(r)
<1> DEFINE C == Checks(r, t)
           failed == {i \in DOMAIN C : ~ C[i].ok}
<1>1. DOMAIN C = 1..11 /\ \A i \in 1..11 : C[i].else # "allow"
  BY DEF Checks
<1> HIDE DEF C
<1>2. failed = {}
  <2>1. SUFFICES ASSUME failed # {} PROVE FALSE
    OBVIOUS
  <2>2. Min(failed) \in 1..11
    BY <1>1, <2>1, MinLeast
  <2> HIDE DEF failed
  <2>3. Decide(C) = C[Min(failed)].else
    BY <2>1 DEF Decide, failed
  <2> QED BY <1>1, <2>2, <2>3 DEF C
<1>3. C[9].ok /\ C[10].ok
  BY <1>1, <1>2
<1> QED BY <1>3 DEF C, Checks

\* Only a start that is allowed makes an experiment run.
LEMMA RunsByStart ==
  ASSUME LabInv, [Next]_vars, NEW e \in Experiment, StateOf(e) # "running", StateOf(e)' = "running"
  PROVE  \E p \in Plans, c \in Contexts : e = p.exp /\ job'[e].plan = p /\ Run(p, c, now)
<1>1. job' # job
  BY DEF StateOf, Known
<1>2. ASSUME Step PROVE FALSE
  <2>1. PICK x \in Experiment : Advance(x) \/ Cancel(x)
    BY <1>2 DEF Step
  <2>2. x \in Known /\ job \in [Known -> [plan : Plans, state : JobState, steps : 0..(Steps - 1)]]
    BY <2>1 DEF Advance, Progress, Complete, Fail, Cancel, StateOf, LabInv, EngineType, Known
  <2>3. CASE Progress(x)
    BY <2>2, <2>3 DEF Progress, StateOf, Known
  <2>4. CASE Become(x, "completed") \/ Become(x, "failed") \/ Become(x, "cancelled")
    BY <2>2, <2>4 DEF Become, StateOf, Known
  <2> QED BY <2>1, <2>3, <2>4 DEF Advance, Complete, Fail, Cancel
<1>3. Start
  BY <1>1, <1>2 DEF Next, Ask, Confirm, Tick, engine, vars
<1>4. PICK p \in Plans, c \in Contexts :
        Deny(p, c, now) \/ Unavailable(p, c, now) \/ Interrupted(p, c, now) \/ Run(p, c, now)
  BY <1>3 DEF Start
<1>5. ASSUME NEW states, Enter(p, states), New(p)
      PROVE  e = p.exp /\ job'[e].plan = p /\ Last(states) = "running"
  BY <1>5 DEF Enter, New, StateOf, Known
<1>6. e = p.exp /\ job'[e].plan = p
  BY <1>4, <1>5 DEF Deny, Unavailable, Interrupted, Run, Submitted
<1>7. /\ Last(<<"validated", "denied">>) # "running"
      /\ Last(<<"validated", "authorized", "failed">>) # "running"
      /\ Last(<<"validated", "authorized">>) # "running"
  BY DEF Last
<1>8. Run(p, c, now)
  BY <1>4, <1>5, <1>7 DEF Deny, Unavailable, Interrupted, Submitted
<1> QED BY <1>6, <1>8

LEMMA RunConfirmed ==
  ASSUME LabInv, NEW p \in Plans, NEW c \in Contexts, Run(p, c, now),
         ManifestOf(p.module).physical
  PROVE  \E k \in DOMAIN presses :
           /\ presses[k].plan = p /\ presses[k].device = p.device
           /\ presses[k].at <= now /\ now < presses[k].at + Past + ConfirmTTL
<1> PICK r : r = Asked(p, c, now)
  OBVIOUS
<1>1. /\ r.tool = p.module /\ r.device = c.device /\ r.at = now /\ r.plan = p
      /\ r.confirmation = c.confirmation
  BY DEF Asked
<1>2. c.device.id = p.device /\ Evaluate(Tools, r) = "allow"
  BY DEF Run, Submitted, Fits, Allowed
<1>3. PICK t \in Tools : t.tool = p.module /\ Decide(Checks(r, t)) = "allow"
  <2> DEFINE named == {y \in Tools : y.tool = r.tool}
  <2>1. named # {} /\ Decide(Checks(r, CHOOSE y \in named : TRUE)) = "allow"
    BY <1>2 DEF Evaluate
  <2>2. (CHOOSE y \in named : TRUE) \in named
    BY <2>1
  <2> QED BY <1>1, <2>1, <2>2
<1>4. t.physical /\ t.confirmed
  BY <1>3, ToolOf
<1>5. c.confirmation # None /\ Confirms(r)
  BY <1>1, <1>3, <1>4, AllowedConfirmed
<1> PICK k : k = c.confirmation
  OBVIOUS
<1>6. k \in confirmations /\ k.until > now /\ k.device = p.device /\ k.plan = p
  BY <1>1, <1>2, <1>5 DEF Contexts, Confirms
<1>7. PICK i \in 1..heard[k.device] : From(i, k)
  BY <1>6 DEF LabInv, ConfirmationInv
<1>8. i \in DOMAIN presses /\ presses[i].at \in Nat /\ now \in Nat
  <2>1. k.device \in Device
    BY <1>6 DEF LabInv, ConfirmationInv
  <2>2. i \in 1..Len(presses)
    BY <1>7, <2>1, PressFields DEF LabInv
  <2>3. DOMAIN presses = 1..Len(presses)
    BY DEF LabInv, EdgeType
  <2> QED BY <2>2, <2>3, PressFields DEF LabInv
<1>9. now < presses[i].at + Past + ConfirmTTL
  <2>1. k.until \in Nat /\ k.until <= presses[i].at + Past + ConfirmTTL
    BY <1>6, <1>7 DEF LabInv, ConfirmationInv, From
  <2> QED BY <1>6, <1>8, <2>1, LabAssumption
<1> QED BY <1>6, <1>7, <1>8, <1>9 DEF From

\* An experiment of a module that asks for a press runs only over a fresh press
\* for exactly its plan (ExperimentEngine.start, DeviceLabConfirmationGateway).
THEOREM PressedFirst == Spec => ConfirmedByPress
<1> DEFINE A == \A e \in Experiment :
       /\ StateOf(e) # "running" /\ StateOf(e)' = "running"
       /\ ManifestOf(job'[e].plan.module).physical
       => \E k \in DOMAIN presses :
            /\ presses[k].plan = job'[e].plan
            /\ presses[k].device = job'[e].plan.device
            /\ presses[k].at <= now /\ now < presses[k].at + Past + ConfirmTTL
<1>1. LabInv /\ [Next]_vars => [A]_vars
  <2>1. SUFFICES ASSUME LabInv, [Next]_vars, NEW e \in Experiment,
                        StateOf(e) # "running", StateOf(e)' = "running",
                        ManifestOf(job'[e].plan.module).physical
                 PROVE  \E k \in DOMAIN presses :
                          /\ presses[k].plan = job'[e].plan
                          /\ presses[k].device = job'[e].plan.device
                          /\ presses[k].at <= now /\ now < presses[k].at + Past + ConfirmTTL
    OBVIOUS
  <2>2. PICK p \in Plans, c \in Contexts : job'[e].plan = p /\ Run(p, c, now)
    BY <2>1, RunsByStart
  <2> QED BY <2>1, <2>2, RunConfirmed
<1> QED BY <1>1, LabInvariant, PTL DEF Spec, ConfirmedByPress
-----------------------------------------------------------------------------
(* The engine implements JobLifecycle.                                     *)

Phase(e)  == IF StateOf(e) = "authorized" THEN "running" ELSE StateOf(e)
WorkOf(e) == IF e \in Known THEN job[e].steps ELSE 0
Told(s)   == IF s \in Terminal THEN <<Result(s)>> ELSE <<>>

\* The verdict of an experiment in the audit trail is that of its state.
VerdictInv == \A e \in Experiment : Verdict(e) = Told(Phase(e))

LEMMA VerdictOfState == LabInv => VerdictInv
<1> SUFFICES ASSUME LabInv, NEW e \in Experiment PROVE Verdict(e) = Told(Phase(e))
  BY DEF VerdictInv
<1>1. trail[e] \in Seq(TrailState)
  BY DEF LabInv, EngineType
<1>2. CASE StateOf(e) \notin Terminal
  <2>1. EndsOf(e) = {}
    <3>1. CASE e \notin Known
      BY <1>1, <3>1 DEF LabInv, TrailInv, EndsOf
    <3>2. CASE e \in Known
      BY <1>1, <1>2, <3>2 DEF LabInv, TrailInv, EndsOf, StateOf
    <3> QED BY <3>1, <3>2
  <2>2. Verdict(e) = <<>>
    BY <2>1, FS_EmptySet DEF Verdict
  <2> QED BY <1>2, <2>2 DEF Told, Phase, Terminal
<1>3. CASE StateOf(e) \in Terminal
  <2> PICK n : n = Len(trail[e])
    OBVIOUS
  <2>1. e \in Known /\ trail[e] # <<>> /\ trail[e][n] = StateOf(e)
    BY <1>3 DEF LabInv, TrailInv, StateOf, Terminal
  <2>2. n \in Nat /\ n \in DOMAIN trail[e]
    BY <1>1, <2>1
  <2>3. EndsOf(e) = {n}
    BY <1>3, <2>1, <2>2 DEF LabInv, TrailInv, EndsOf
  <2>4. Cardinality({n}) = 1
    BY FS_Singleton
  <2>5. Nth({n}, 1) = n
    <3>1. {j \in {n} : j < n} = {}
      BY <2>2
    <3>2. Cardinality({j \in {n} : j < n}) = 0
      BY <3>1, FS_EmptySet
    <3> QED BY <3>2 DEF Nth
  <2>6. Verdict(e) = [i \in 1..1 |-> Result(trail[e][Nth({n}, i)])]
    BY <2>3, <2>4 DEF Verdict
  <2>7. Verdict(e) = <<Result(StateOf(e))>>
    <3>1. ASSUME NEW i \in 1..1 PROVE Result(trail[e][Nth({n}, i)]) = Result(StateOf(e))
      <4>1. i = 1
        OBVIOUS
      <4>2. trail[e][Nth({n}, i)] = StateOf(e)
        BY <2>1, <2>5, <4>1
      <4> QED BY <4>2
    <3>2. Verdict(e) = [i \in 1..1 |-> Result(StateOf(e))]
      BY <2>6, <3>1
    <3> QED BY <3>2
  <2> QED BY <1>3, <2>7 DEF Told, Phase, Terminal
<1> QED BY <1>2, <1>3

\* An end of an experiment enters its verdict.
LEMMA Concluded ==
  ASSUME LabInv, VerdictInv, VerdictInv', NEW e \in Experiment, NEW s \in Terminal, Phase(e) \notin Terminal,
         Phase(e)' = s, \A x \in Experiment : x # e => Phase(x)' = Phase(x)
  PROVE  Lifecycle!Conclude(e, s)
<1> DEFINE r == Lifecycle!ResultOf[s]
<1>1. Result(s) = r
  BY DEF Result, Lifecycle!ResultOf, Terminal
<1>2. Verdict(e) = <<>> /\ Verdict(e)' = <<r>>
  BY <1>1 DEF VerdictInv, Told, Terminal, Result
<1>3. \A x \in Experiment : x # e => Verdict(x)' = Verdict(x)
  BY DEF VerdictInv, Told, Terminal, Result
<1> HIDE DEF r
<1>4. Append(Verdict(e), r) = <<r>>
  BY <1>2
<1>5. [x \in Experiment |-> Verdict(x)']
        = [[x \in Experiment |-> Verdict(x)] EXCEPT ![e] = Append(@, r)]
  BY <1>2, <1>3, <1>4
<1>6. [x \in Experiment |-> Phase(x)'] = [[x \in Experiment |-> Phase(x)] EXCEPT ![e] = s]
  OBVIOUS
<1> QED BY <1>5, <1>6 DEF Lifecycle!Conclude, Phase, r

\* A step that ends no experiment enters none.
LEMMA NoneTold ==
  ASSUME LabInv, VerdictInv, VerdictInv',
         \A x \in Experiment : \/ Phase(x)' = Phase(x)
                                \/ (Phase(x) \notin Terminal /\ Phase(x)' \notin Terminal)
  PROVE  UNCHANGED [x \in Experiment |-> Verdict(x)]
<1>1. \A x \in Experiment : Verdict(x)' = Verdict(x)
  BY DEF VerdictInv, Told, Terminal, Result
<1> QED BY <1>1

LEMMA SameWork ==
  ASSUME LabInv, \A x \in Experiment : WorkOf(x)' = WorkOf(x)
  PROVE  /\ UNCHANGED [x \in Experiment |-> IF x \in Known THEN job[x].steps ELSE 0]
         /\ \A e \in Experiment : Lifecycle!More(e)
<1>1. [x \in Experiment |-> WorkOf(x)'] = [x \in Experiment |-> WorkOf(x)]
  OBVIOUS
<1>2. \A e \in Experiment : WorkOf(e) \in Nat
  BY EngineAssumption DEF LabInv, EngineType, WorkOf, Known
<1> QED BY <1>1, <1>2 DEF Lifecycle!More, WorkOf

LEMMA EnterStep ==
  ASSUME LabInv, VerdictInv, VerdictInv', NEW p \in Plans, New(p), NEW states, Enter(p, states),
         Last(states) \in {"denied", "failed", "authorized", "running"}
  PROVE  Lifecycle!Next
<1> PICK e \in Experiment : e = p.exp
  BY PlanFields
<1>1. /\ e \notin Known /\ StateOf(e)' = Last(states) /\ WorkOf(e)' = 0
      /\ \A x \in Experiment : x # e => StateOf(x)' = StateOf(x) /\ WorkOf(x)' = WorkOf(x)
  BY DEF Enter, New, StateOf, WorkOf, Known
<1>2. /\ Phase(e) = "none" /\ WorkOf(e) = 0
      /\ \A x \in Experiment : x # e => Phase(x)' = Phase(x)
  BY <1>1 DEF Phase, StateOf, WorkOf
<1>3. UNCHANGED [x \in Experiment |-> IF x \in Known THEN job[x].steps ELSE 0]
  <2>1. \A x \in Experiment : WorkOf(x)' = WorkOf(x)
    BY <1>1, <1>2
  <2> QED BY <2>1, SameWork
<1>4. CASE Last(states) \in {"denied", "failed"}
  <2>1. Phase(e)' = Last(states) /\ Last(states) \in Terminal /\ Phase(e) \notin Terminal
    BY <1>1, <1>2, <1>4 DEF Phase, Terminal
  <2>2. Lifecycle!Conclude(e, Last(states))
    BY <1>2, <2>1, Concluded
  <2>3. [x \in Experiment |-> Phase(x)][e] = "none"
    BY <1>2
  <2> QED BY <1>3, <1>4, <2>2, <2>3 DEF Lifecycle!Next, Lifecycle!Refuse, Phase
<1>5. CASE Last(states) \in {"authorized", "running"}
  <2>1. Phase(e)' = "running"
    BY <1>1, <1>5 DEF Phase
  <2>2. UNCHANGED [x \in Experiment |-> Verdict(x)]
    BY <1>2, <2>1, NoneTold DEF Terminal
  <2>3. [x \in Experiment |-> Phase(x)'] = [[x \in Experiment |-> Phase(x)] EXCEPT ![e] = "running"]
    BY <1>2, <2>1
  <2>4. [x \in Experiment |-> Phase(x)][e] = "none"
    BY <1>2
  <2> QED BY <1>3, <2>2, <2>3, <2>4 DEF Lifecycle!Next, Lifecycle!Begin, Phase
<1> QED BY <1>4, <1>5

LEMMA BecomeStep ==
  ASSUME LabInv, VerdictInv, VerdictInv', NEW e \in Known, StateOf(e) \notin Terminal,
         NEW s \in Terminal \ {"denied"}, Become(e, s)
  PROVE  Lifecycle!Next
<1>1. /\ e \in Experiment /\ StateOf(e) \in {"authorized", "running"}
      /\ job \in [Known -> [plan : Plans, state : JobState, steps : 0..(Steps - 1)]]
  BY DEF LabInv, EngineType, Known, StateOf, JobState
<1>2. /\ StateOf(e)' = s
      /\ \A x : x # e => StateOf(x)' = StateOf(x)
      /\ \A x : WorkOf(x)' = WorkOf(x)
  BY <1>1 DEF Become, StateOf, WorkOf, Known
<1>3. /\ Phase(e) = "running" /\ Phase(e)' = s
      /\ \A x \in Experiment : x # e => Phase(x)' = Phase(x)
  BY <1>1, <1>2 DEF Phase, Terminal
<1>4. Lifecycle!Conclude(e, s)
  <2>1. Phase(e) \notin Terminal
    BY <1>3 DEF Terminal
  <2> QED BY <1>1, <1>3, <2>1, Concluded
<1>5. Lifecycle!More(e)
  BY <1>1, <1>2, SameWork
<1>6. [x \in Experiment |-> Phase(x)][e] = "running"
  BY <1>1, <1>3
<1>7. s \in Lifecycle!Outcome \ {"denied"}
  BY DEF Lifecycle!Outcome, Lifecycle!ResultOf, Terminal
<1> QED BY <1>1, <1>4, <1>5, <1>6, <1>7 DEF Lifecycle!Next, Lifecycle!Finish, Phase

LEMMA ProgressStep ==
  ASSUME LabInv, VerdictInv, VerdictInv', NEW e \in Experiment, Progress(e)
  PROVE  Lifecycle!Next
<1>1. /\ e \in Known /\ StateOf(e) = "running"
      /\ job \in [Known -> [plan : Plans, state : JobState, steps : 0..(Steps - 1)]]
      /\ job' = [job EXCEPT ![e].steps = @ + 1]
  BY DEF LabInv, EngineType, Known, StateOf, Progress
<1>2. job[e].steps \in Nat
  BY <1>1, EngineAssumption
<1>3. \A x : StateOf(x)' = StateOf(x)
  BY <1>1 DEF StateOf, Known
<1>4. /\ WorkOf(e)' = WorkOf(e) + 1 /\ WorkOf(e) \in Nat
      /\ \A x : x # e => WorkOf(x)' = WorkOf(x)
  BY <1>1, <1>2 DEF WorkOf, Known
<1>5. Lifecycle!More(e)
  <2>1. [x \in Experiment |-> WorkOf(x)'] = [[x \in Experiment |-> WorkOf(x)] EXCEPT ![e] = WorkOf(e)']
    BY <1>4
  <2>2. WorkOf(e)' >= WorkOf(e)
    BY <1>4
  <2> QED BY <2>1, <2>2 DEF Lifecycle!More, WorkOf
<1>6. \A x : Phase(x)' = Phase(x)
  BY <1>3 DEF Phase
<1>7. UNCHANGED [x \in Experiment |-> Verdict(x)]
  BY <1>6, NoneTold
<1>8. UNCHANGED [x \in Experiment |-> Phase(x)] /\ [x \in Experiment |-> Phase(x)][e] = "running"
  BY <1>1, <1>6 DEF Phase
<1> QED BY <1>5, <1>7, <1>8 DEF Lifecycle!Next, Lifecycle!Work, Phase

LEMMA EngineStutter ==
  ASSUME UNCHANGED engine
  PROVE  UNCHANGED Lifecycle!vars
<1>1. job' = job /\ trail' = trail
  BY DEF engine
<1>2. \A e \in Experiment : /\ Phase(e)' = Phase(e) /\ WorkOf(e)' = WorkOf(e)
                            /\ Verdict(e)' = Verdict(e)
  BY <1>1 DEF Phase, WorkOf, StateOf, Known, Verdict, EndsOf, Nth
<1> QED BY <1>2 DEF Lifecycle!vars, Phase, WorkOf

LEMMA StepRefines == LabInv /\ VerdictInv /\ VerdictInv' /\ [Next]_vars => [Lifecycle!Next]_Lifecycle!vars
<1> SUFFICES ASSUME LabInv, VerdictInv, VerdictInv', [Next]_vars PROVE [Lifecycle!Next]_Lifecycle!vars
  OBVIOUS
<1>1. ASSUME Start PROVE Lifecycle!Next
  <2>1. PICK p \in Plans, c \in Contexts :
          Deny(p, c, now) \/ Unavailable(p, c, now) \/ Interrupted(p, c, now) \/ Run(p, c, now)
    BY <1>1 DEF Start
  <2>2. /\ Last(<<"validated", "denied">>) = "denied"
        /\ Last(<<"validated", "authorized", "failed">>) = "failed"
        /\ Last(<<"validated", "authorized">>) = "authorized"
        /\ Last(<<"validated", "authorized", "running">>) = "running"
    BY DEF Last
  <2> QED BY <2>1, <2>2, EnterStep DEF Deny, Unavailable, Interrupted, Run, Submitted
<1>2. ASSUME Step PROVE Lifecycle!Next
  <2>1. PICK e \in Experiment : Advance(e) \/ Cancel(e)
    BY <1>2 DEF Step
  <2>2. CASE Progress(e)
    BY <2>2, ProgressStep
  <2>3. CASE Complete(e) \/ Fail(e) \/ Cancel(e)
    <3>1. /\ e \in Known /\ StateOf(e) \notin Terminal
          /\ Become(e, "completed") \/ Become(e, "failed") \/ Become(e, "cancelled")
      BY <2>3 DEF Complete, Fail, Cancel, StateOf, Terminal
    <3> QED BY <3>1, BecomeStep DEF Terminal
  <2> QED BY <2>1, <2>2, <2>3 DEF Advance
<1>3. CASE UNCHANGED engine
  BY <1>3, EngineStutter
<1> QED BY <1>1, <1>2, <1>3 DEF Next, Ask, Confirm, Tick, vars

\* The engine implements the lifecycle that its callers rely on: an experiment
\* id is refused or runs once, it progresses only while it runs, it ends once,
\* and its verdict enters the audit trail with the step that decides it.
THEOREM Refinement == Spec => Implements
<1>1. Init => Lifecycle!Init
  <2> SUFFICES ASSUME Init PROVE Lifecycle!Init
    OBVIOUS
  <2>1. \A e \in Experiment : Phase(e) = "none" /\ e \notin Known
    BY DEF Init, EngineInit, Phase, StateOf, Known
  <2>2. \A e \in Experiment : Verdict(e) = <<>>
    BY <2>1, LabInit, VerdictOfState DEF VerdictInv, Told, Terminal
  <2> QED BY <2>1, <2>2 DEF Lifecycle!Init, Phase
<1> QED BY <1>1, StepRefines, LabInvariant, VerdictOfState, PTL DEF Spec, Implements, Lifecycle!Spec

LifecycleProofs == INSTANCE JobLifecycleProofs
  WITH Key     <- Experiment,
       phase   <- [e \in Experiment |-> IF StateOf(e) = "authorized" THEN "running" ELSE StateOf(e)],
       work    <- [e \in Experiment |-> IF e \in Known THEN job[e].steps ELSE 0],
       verdict <- [e \in Experiment |-> Verdict(e)]

\* So an experiment has a verdict in its audit trail exactly when it has ended,
\* one, and the right one.
THEOREM OneVerdictEach == Spec => []Lifecycle!VerdictsMatch
<1>1. Lifecycle!Init <=> LifecycleProofs!Init
  BY DEF Lifecycle!Init, LifecycleProofs!Init
<1>2. Lifecycle!Next <=> LifecycleProofs!Next
  BY Zenon DEF Lifecycle!Next, LifecycleProofs!Next, Lifecycle!Refuse, LifecycleProofs!Refuse,
     Lifecycle!Begin, LifecycleProofs!Begin, Lifecycle!Work, LifecycleProofs!Work,
     Lifecycle!Finish, LifecycleProofs!Finish, Lifecycle!Conclude, LifecycleProofs!Conclude,
     Lifecycle!More, LifecycleProofs!More, Lifecycle!ResultOf, LifecycleProofs!ResultOf,
     Lifecycle!Outcome, LifecycleProofs!Outcome
<1>3. UNCHANGED Lifecycle!vars <=> UNCHANGED LifecycleProofs!vars
  BY DEF Lifecycle!vars, LifecycleProofs!vars
<1>4. Lifecycle!VerdictsMatch <=> LifecycleProofs!VerdictsMatch
  BY DEF Lifecycle!VerdictsMatch, LifecycleProofs!VerdictsMatch,
     Lifecycle!ResultOf, LifecycleProofs!ResultOf, Lifecycle!Outcome, LifecycleProofs!Outcome
<1>5. LifecycleProofs!Spec => []LifecycleProofs!VerdictsMatch
  BY LifecycleProofs!OneVerdict
<1> QED BY <1>1, <1>2, <1>3, <1>4, <1>5, Refinement, PTL
        DEF Implements, Lifecycle!Spec, LifecycleProofs!Spec
=============================================================================
