---------------------------- MODULE MonitoringService ----------------------------
(***************************************************************************)
(* Camera monitoring jobs (services/orchestrator/.../monitoring_service.py *)
(* with state_machine.py, detection.py and monitoring_adapters.py).        *)
(* Operators start, advance and cancel jobs; advancing takes one frame     *)
(* from the job's worker, and enough consecutive frames with a person      *)
(* produce the job's one event, which goes to the event sink, the push     *)
(* channel and the inbox, in that order.                                   *)
(*                                                                         *)
(* Calls interleave freely and each brings its own time, so a call may     *)
(* carry a time earlier than one already used.  Any of the three sinks may *)
(* raise.  Rejected calls and answered retries are stuttering steps, but a *)
(* call that changes something before it raises is an action.              *)
(***************************************************************************)
EXTENDS Integers, Sequences, FiniteSets

CONSTANTS
  Context,      (* authenticated contexts: org, actor, device, deviceOrg    *)
  Request,      (* valid payloads: id, org, actor, device, camera,          *)
                (* duration, sentAt                                         *)
  OwnerOf,      (* the organization of each configured camera               *)
  Online,       (* the cameras that are online                              *)
  Permitted,    (* <<context, camera>> pairs that the policy allows         *)
  Frames,       (* camera -> sequence of frames: at, person                 *)
  MinFrames,    (* minimum_frames of the TemporalPersonConfirmer            *)
  Past, Future, (* freshness window of a command                            *)
  MayFail,      (* the sinks, numbered in call order, that may raise        *)
  MaxTime       (* bound of evaluated_at in a finite run                    *)

ASSUME LimitAssumption ==
  /\ MinFrames \in Nat \ {0, 1}
  /\ Past \in Nat /\ Future \in Nat /\ MaxTime \in Nat

ASSUME RequestAssumption ==
  \A q \in Request : q.duration \in Nat \ {0} /\ q.sentAt \in Nat

ASSUME FrameAssumption ==
  \A c \in DOMAIN Frames :
    /\ Frames[c] \in Seq([at : Nat, person : BOOLEAN])
    /\ Len(Frames[c]) <= 300
    /\ \A i, j \in DOMAIN Frames[c] : i < j => Frames[c][i].at <= Frames[c][j].at

VARIABLES
  commands,     (* replay key -> [request, started], the remembered calls   *)
  job,          (* replay key -> the MonitoringJob                          *)
  worker,       (* replay key -> [taken, cancelled], the frame worker       *)
  run,          (* replay key -> the confirmer's run of frames, by position *)
  emitted,      (* the jobs whose event the confirmer has produced          *)
  known,        (* _known_events                                            *)
  events, push, inbox, (* contents of the three sinks                       *)
  audit         (* appended audit events, in order                          *)

sinks == <<events, push, inbox>>
vars  == <<commands, job, worker, run, emitted, known, sinks, audit>>

-----------------------------------------------------------------------------
Time       == 0..MaxTime
KeyOf(q, c) == <<c.org, c.actor, q.id>>
Keys       == {KeyOf(q, c) : q \in Request, c \in Context}
Actors     == {c.actor : c \in Context}
FramesOf(k) ==
  IF job[k].camera \in DOMAIN Frames THEN Frames[job[k].camera] ELSE <<>>

\* The checks of start, in any order: their reasons differ, their effect not.
Admissible(q, c, t) ==
  /\ t - Past <= q.sentAt /\ q.sentAt <= t + Future
  /\ q.actor = c.actor /\ q.org = c.org /\ q.device = c.device
  /\ c.org = c.deviceOrg
  /\ q.camera \in DOMAIN OwnerOf /\ OwnerOf[q.camera] = c.org
  /\ q.camera \in Online
  /\ <<c, q.camera>> \in Permitted

\* _authorized_job
Authorized(k, c) ==
  /\ k \in DOMAIN job
  /\ job[k].org = c.org /\ job[k].actor = c.actor /\ job[k].device = c.device

\* The frame that next_frame would return, if any.
HasFrame(k) == ~ worker[k].cancelled /\ worker[k].taken < Len(FramesOf(k))
NextFrame(k) == FramesOf(k)[worker[k].taken + 1]

Extend(f, k, v) == [x \in DOMAIN f \cup {k} |-> IF x = k THEN v ELSE f[x]]

Init ==
  /\ commands = <<>> /\ job = <<>> /\ worker = <<>> /\ run = <<>>
  /\ emitted = {} /\ known = {}
  /\ events = {} /\ push = {} /\ inbox = {}
  /\ audit = <<>>

\* start, when the command is denied: audited, then remembered.
StartDenied(q, c, t) ==
  LET k == KeyOf(q, c) IN
  /\ k \notin DOMAIN commands
  /\ ~ Admissible(q, c, t)
  /\ audit' = Append(audit, [key |-> k, result |-> "denied"])
  /\ commands' = Extend(commands, k, [request |-> q, started |-> FALSE])
  /\ UNCHANGED <<job, worker, run, emitted, known, sinks>>

\* start, when the job runs: the transitions to RUNNING all carry the time t.
Start(q, c, t) ==
  LET k == KeyOf(q, c) IN
  /\ k \notin DOMAIN commands
  /\ Admissible(q, c, t)
  /\ worker' = Extend(worker, k, [taken |-> 0, cancelled |-> FALSE])
  /\ job' = Extend(job, k,
              [state |-> "running", since |-> t, deadline |-> t + q.duration,
               org |-> c.org, actor |-> c.actor, device |-> c.device,
               camera |-> q.camera, frames |-> 0, hasEvent |-> FALSE])
  /\ run' = Extend(run, k, <<>>)
  /\ commands' = Extend(commands, k, [request |-> q, started |-> TRUE])
  /\ UNCHANGED <<emitted, known, sinks, audit>>

\* Mutant: the audit event is forgotten.
FinishUnaudited(k, t, state, result) ==
  /\ t >= job[k].since
  /\ job' = [job EXCEPT ![k].state = state, ![k].since = t]
  /\ UNCHANGED audit

\* job.transition to a terminal state, which a time before the last transition
\* refuses, and the audit event that follows it.
Finish(k, t, state, result) ==
  /\ t >= job[k].since
  /\ job' = [job EXCEPT ![k].state = state, ![k].since = t]
  /\ audit' = Append(audit, [key |-> k, result |-> result])
Complete(k, t) == Finish(k, t, "completed", "simulated")

\* advance, when the deadline has passed.
Elapse(k, c, t) ==
  /\ Authorized(k, c) /\ job[k].state = "running"
  /\ t >= job[k].deadline
  /\ Complete(k, t)
  /\ UNCHANGED <<commands, worker, run, emitted, known, sinks>>

\* Mutant: a job without frames waits for its deadline.
ExhaustWaits(k, c, t) ==
  /\ Authorized(k, c) /\ job[k].state = "running"
  /\ t < job[k].deadline
  /\ ~ HasFrame(k)
  /\ UNCHANGED vars

\* advance, when the worker returns no frame: exhausted or cancelled.
Exhaust(k, c, t) ==
  /\ Authorized(k, c) /\ job[k].state = "running"
  /\ t < job[k].deadline
  /\ ~ HasFrame(k)
  /\ Complete(k, t)
  /\ UNCHANGED <<commands, worker, run, emitted, known, sinks>>

\* advance, when the frame is later than the deadline: the frame is taken even
\* if the time of the call then makes the transition raise.
Overrun(k, c, t) ==
  /\ Authorized(k, c) /\ job[k].state = "running"
  /\ t < job[k].deadline
  /\ HasFrame(k) /\ NextFrame(k).at > job[k].deadline
  /\ worker' = [worker EXCEPT ![k].taken = @ + 1]
  /\ \/ Complete(k, t)
     \/ t < job[k].since /\ UNCHANGED <<job, audit>>
  /\ UNCHANGED <<commands, run, emitted, known, sinks>>

\* Mutant: the channels are served before the event is recorded.
PublishEarly(e, recipient, n) ==
  /\ n = 3 \/ n + 1 \in MayFail
  /\ push'   = IF n >= 1 THEN push \cup {<<e, recipient>>} ELSE push
  /\ inbox'  = IF n >= 2 THEN inbox \cup {<<e, recipient>>} ELSE inbox
  /\ events' = IF n = 3 THEN events \cup {e} ELSE events

\* publish_event reaches the first n sinks; a later one raised.
Publish(e, recipient, n) ==
  /\ n = 3 \/ n + 1 \in MayFail
  /\ events' = IF n >= 1 THEN events \cup {e} ELSE events
  /\ push'   = IF n >= 2 THEN push \cup {<<e, recipient>>} ELSE push
  /\ inbox'  = IF n = 3 THEN inbox \cup {<<e, recipient>>} ELSE inbox

\* Mutant: a frame without a person does not reset the run.
RunAfterUnbroken(k) ==
  IF NextFrame(k).person THEN Append(run[k], worker[k].taken + 1) ELSE run[k]

\* observe: the confirmer's run of frames with a person, after this frame.
RunAfter(k) ==
  IF NextFrame(k).person THEN Append(run[k], worker[k].taken + 1) ELSE <<>>
Confirms(k) == k \notin emitted /\ Len(RunAfter(k)) >= MinFrames
EventOf(k) ==
  LET r == RunAfter(k)
  IN [key |-> k, camera |-> job[k].camera,
      frames |-> SubSeq(r, Len(r) - MinFrames + 1, Len(r))]

\* advance, when it processes a frame and perhaps publishes the event.
Observe(k, c, t, n) ==
  /\ Authorized(k, c) /\ job[k].state = "running"
  /\ t < job[k].deadline
  /\ HasFrame(k) /\ NextFrame(k).at <= job[k].deadline
  /\ worker' = [worker EXCEPT ![k].taken = @ + 1]
  /\ run' = IF k \in emitted THEN run ELSE [run EXCEPT ![k] = RunAfter(k)]
  /\ emitted' = IF Confirms(k) THEN emitted \cup {k} ELSE emitted
  /\ IF Confirms(k) /\ ~ job[k].hasEvent
     THEN /\ job' = [job EXCEPT ![k].frames = @ + 1, ![k].hasEvent = TRUE]
          /\ known' = known \cup {EventOf(k)}
          /\ Publish(EventOf(k), c.actor, n)
     ELSE /\ job' = [job EXCEPT ![k].frames = @ + 1]
          /\ UNCHANGED <<known, sinks>>
  /\ UNCHANGED <<commands, audit>>

\* publish_event called again for a known event, at any time.
Republish(e, recipient, n) ==
  /\ e \in known
  /\ recipient = job[e.key].actor
  /\ Publish(e, recipient, n)
  /\ UNCHANGED <<commands, job, worker, run, emitted, known, audit>>

\* cancel: the worker is cancelled even if the time of the call then makes
\* the transition raise.
Cancel(k, c, t) ==
  /\ Authorized(k, c) /\ job[k].state = "running"
  /\ worker' = [worker EXCEPT ![k].cancelled = TRUE]
  /\ \/ Finish(k, t, "cancelled", "cancelled")
     \/ t < job[k].since /\ UNCHANGED <<job, audit>>
  /\ UNCHANGED <<commands, run, emitted, known, sinks>>

Advance(k, c, t) ==
  \/ Elapse(k, c, t)
  \/ Exhaust(k, c, t)
  \/ Overrun(k, c, t)
  \/ \E n \in 0..3 : Observe(k, c, t, n)

Next ==
  \/ \E q \in Request, c \in Context, t \in Time :
       StartDenied(q, c, t) \/ Start(q, c, t)
  \/ \E k \in Keys, c \in Context, t \in Time : Advance(k, c, t) \/ Cancel(k, c, t)
  \/ \E e \in known, a \in Actors, n \in 0..3 : Republish(e, a, n)

Spec == Init /\ [][Next]_vars

\* run_to_completion keeps advancing a job, at a time the job accepts.
FairSpec ==
  /\ Spec
  /\ \A k \in Keys : WF_vars(\E c \in Context, t \in Time : Advance(k, c, t))

-----------------------------------------------------------------------------
(* Properties.                                                             *)

Job == [state : {"running", "completed", "cancelled"}, since : Nat,
        deadline : Nat, org : {c.org : c \in Context}, actor : Actors,
        device : {c.device : c \in Context}, camera : DOMAIN OwnerOf,
        frames : Nat, hasEvent : BOOLEAN]

TypeOK ==
  /\ commands \in [DOMAIN commands -> [request : Request, started : BOOLEAN]]
  /\ DOMAIN commands \subseteq Keys
  /\ job \in [DOMAIN job -> Job]
  /\ DOMAIN job = {k \in DOMAIN commands : commands[k].started}
  /\ worker \in [DOMAIN job -> [taken : Nat, cancelled : BOOLEAN]]
  /\ run \in [DOMAIN job -> Seq(Nat)]
  /\ emitted \subseteq DOMAIN job
  /\ audit \in Seq([key : Keys, result : {"denied", "simulated", "cancelled"}])

\* An event stands for MinFrames consecutive frames of the job's own camera,
\* each with a person and none later than the deadline, all taken by the
\* worker; and a job has at most one, whatever failed while it was published.
EventConfirmed ==
  /\ \A e, f \in known : e.key = f.key => e = f
  /\ \A e \in known :
       /\ e.key \in DOMAIN job /\ e.camera = job[e.key].camera
       /\ Len(e.frames) = MinFrames
       /\ \A i \in 1..MinFrames :
            LET p == e.frames[i] IN
            /\ p = e.frames[1] + i - 1
            /\ p \in 1..worker[e.key].taken
            /\ FramesOf(e.key)[p].person
            /\ FramesOf(e.key)[p].at <= job[e.key].deadline

\* A notification is delivered only for a recorded event, to the operator of
\* the job and in the camera's organization, push before inbox: a failed
\* publication leaves a prefix that a retry completes.
NotifiedInOrder ==
  /\ inbox \subseteq push
  /\ \A d \in push : /\ d[1] \in events
                     /\ d[2] = job[d[1].key].actor
                     /\ OwnerOf[d[1].camera] = job[d[1].key].org
  /\ events \subseteq known

\* Monitoring implements the lifecycle that an operator relies on.
Phase(k) == IF k \notin DOMAIN commands THEN "none"
            ELSE IF ~ commands[k].started THEN "denied" ELSE job[k].state
EventsOf(k) == {i \in DOMAIN audit : audit[i].key = k}
Nth(S, n) == CHOOSE i \in S : Cardinality({j \in S : j < i}) = n - 1
Verdicts(k) ==
  [n \in 1..Cardinality(EventsOf(k)) |-> audit[Nth(EventsOf(k), n)].result]
Lifecycle == INSTANCE JobLifecycle
  WITH Key     <- Keys,
       phase   <- [k \in Keys |-> Phase(k)],
       work    <- [k \in Keys |-> IF k \in DOMAIN job THEN job[k].frames ELSE 0],
       verdict <- [k \in Keys |-> Verdicts(k)]
Implements == Lifecycle!Spec

\* Every job ends, because its source of frames is bounded.
JobsEnd ==
  \A k \in Keys :
    (k \in DOMAIN job /\ job[k].state = "running")
      ~> (k \in DOMAIN job /\ job[k].state # "running")

\* docs/product/mvp.md:84 says that cancelling a running job stops processing
\* and records `cancelled': a worker stopped by cancel belongs to a job that
\* is recorded as cancelled.
CancelRecorded ==
  \A k \in DOMAIN job : worker[k].cancelled => job[k].state = "cancelled"
=============================================================================
