------------------------ MODULE MonitoringServiceProofs ------------------------
(***************************************************************************)
(* Machine-checked proofs about MonitoringService, for any cameras and     *)
(* frames, any commands and contexts, and sinks that raise at any call.    *)
(*                                                                         *)
(* The invariant ties the run of frames that the confirmer keeps between   *)
(* calls to what the worker has handed out: the run ends with the last     *)
(* frame taken, or a frame later than the deadline was taken since, after  *)
(* which nothing is observed any more (RunInv).  The audit log holds       *)
(* events of ended commands only (AuditEnded), which is what makes every   *)
(* step of the service a step or a stutter of JobLifecycle.                *)
(***************************************************************************)
EXTENDS MonitoringService, FiniteSetTheorems, TLAPS

\* A job watches a camera of its operator's organization.
Owned == \A k \in DOMAIN job : OwnerOf[job[k].camera] = job[k].org

\* The run holds consecutive frames with a person, none later than the
\* deadline, and is broken by every frame without one.
RunOf(k) ==
  LET r == run[k]  taken == worker[k].taken IN
  /\ taken <= Len(FramesOf(k))
  /\ \A i \in 1..Len(r) :
       /\ r[i] = r[1] + i - 1 /\ r[i] \in 1..taken
       /\ FramesOf(k)[r[i]].person /\ FramesOf(k)[r[i]].at <= job[k].deadline
  /\ k \notin emitted /\ Len(r) > 0 =>
       r[Len(r)] = taken \/ FramesOf(k)[taken].at > job[k].deadline
RunInv == \A k \in DOMAIN job : RunOf(k)

Ended == {"denied", "completed", "cancelled"}
AuditEnded == \A i \in DOMAIN audit : Phase(audit[i].key) \in Ended

KnownEmitted == \A e \in known : e.key \in emitted

Inv ==
  /\ TypeOK /\ Owned /\ RunInv /\ AuditEnded
  /\ KnownEmitted /\ EventConfirmed /\ NotifiedInOrder

Result == {"denied", "simulated", "cancelled"}
-----------------------------------------------------------------------------
LEMMA Limits == MinFrames \in Nat /\ MinFrames >= 2 /\ MaxTime \in Nat
BY LimitAssumption

LEMMA ElementOf ==
  ASSUME NEW S, NEW s \in Seq(S), NEW i \in DOMAIN s
  PROVE  s[i] \in S
OBVIOUS

LEMMA FramesType ==
  ASSUME NEW k
  PROVE  /\ FramesOf(k) \in Seq([at : Nat, person : BOOLEAN])
         /\ \A i, j \in DOMAIN FramesOf(k) :
              i < j => FramesOf(k)[i].at <= FramesOf(k)[j].at
         /\ \A i \in DOMAIN FramesOf(k) : FramesOf(k)[i].at \in Nat
<1>1. CASE job[k].camera \in DOMAIN Frames
  <2>1. FramesOf(k) = Frames[job[k].camera]
    BY <1>1 DEF FramesOf
  <2>2. FramesOf(k) \in Seq([at : Nat, person : BOOLEAN])
    BY <1>1, <2>1, FrameAssumption
  <2>3. \A i \in DOMAIN FramesOf(k) : FramesOf(k)[i] \in [at : Nat, person : BOOLEAN]
    BY <2>2, ElementOf
  <2> QED BY <1>1, <2>1, <2>2, <2>3, FrameAssumption
<1>2. CASE job[k].camera \notin DOMAIN Frames
  BY <1>2 DEF FramesOf
<1> QED BY <1>1, <1>2

LEMMA FramesLength ==
  ASSUME NEW camera
  PROVE  Len(IF camera \in DOMAIN Frames THEN Frames[camera] ELSE <<>>) \in Nat
<1>1. CASE camera \in DOMAIN Frames
  BY <1>1, FrameAssumption
<1>2. CASE camera \notin DOMAIN Frames
  BY <1>2
<1> QED BY <1>1, <1>2

LEMMA ExtendValue ==
  ASSUME NEW f, NEW k, NEW v
  PROVE  /\ DOMAIN Extend(f, k, v) = DOMAIN f \cup {k}
         /\ Extend(f, k, v)[k] = v
         /\ \A x \in DOMAIN f : x # k => Extend(f, k, v)[x] = f[x]
         /\ Extend(f, k, v) = [x \in DOMAIN Extend(f, k, v) |-> Extend(f, k, v)[x]]
BY DEF Extend

\* A function stays of its type when it is extended.
LEMMA ExtendType ==
  ASSUME NEW T, NEW D, NEW f \in [D -> T], NEW k, NEW v \in T
  PROVE  Extend(f, k, v) \in [D \cup {k} -> T]
BY DEF Extend

\* What a call leaves as it was of a job that exists.
SameJob(k) ==
  /\ job'[k].camera = job[k].camera /\ job'[k].deadline = job[k].deadline
  /\ job'[k].org = job[k].org /\ job'[k].actor = job[k].actor

LEMMA SameFrames ==
  ASSUME NEW k, SameJob(k)
  PROVE  FramesOf(k)' = FramesOf(k)
BY DEF SameJob, FramesOf

\* What EventConfirmed says of one event.
Confirmed(e) ==
  /\ e.key \in DOMAIN job /\ e.camera = job[e.key].camera
  /\ Len(e.frames) = MinFrames
  /\ \A i \in 1..MinFrames :
       LET p == e.frames[i] IN
       /\ p = e.frames[1] + i - 1
       /\ p \in 1..worker[e.key].taken
       /\ FramesOf(e.key)[p].person
       /\ FramesOf(e.key)[p].at <= job[e.key].deadline

\* An event survives whatever only adds jobs and takes frames.
LEMMA ConfirmedKept ==
  ASSUME Inv, DOMAIN job \subseteq DOMAIN job',
         \A k \in DOMAIN job : SameJob(k),
         \A k \in DOMAIN job : worker'[k].taken \in Nat /\ worker[k].taken <= worker'[k].taken,
         NEW e \in known
  PROVE  Confirmed(e)'
<1>1. e.key \in DOMAIN job /\ FramesOf(e.key)' = FramesOf(e.key)
  BY SameFrames DEF Inv, EventConfirmed
<1>2. SameJob(e.key) /\ worker[e.key].taken <= worker'[e.key].taken
      /\ worker'[e.key].taken \in Nat /\ worker[e.key].taken \in Nat
  BY <1>1 DEF Inv, TypeOK
<1> QED BY <1>1, <1>2 DEF Inv, EventConfirmed, SameJob, Confirmed

\* And so do the notifications of it.
LEMMA EvidenceKept ==
  ASSUME Inv, DOMAIN job \subseteq DOMAIN job', DOMAIN worker' = DOMAIN job',
         \A k \in DOMAIN job : SameJob(k),
         \A k \in DOMAIN job : worker'[k].taken \in Nat /\ worker[k].taken <= worker'[k].taken,
         emitted \subseteq emitted', UNCHANGED <<known, sinks>>
  PROVE  KnownEmitted' /\ EventConfirmed' /\ NotifiedInOrder'
<1>1. UNCHANGED <<known, events, push, inbox>>
  BY DEF sinks
<1>2. \A e \in known : e.key \in DOMAIN job
  BY DEF Inv, EventConfirmed
<1>3. KnownEmitted'
  BY <1>1 DEF Inv, KnownEmitted
<1>4. EventConfirmed'
  <2>1. \A e \in known : Confirmed(e)'
    BY ConfirmedKept
  <2>2. \A e, f \in known : e.key = f.key => e = f
    BY DEF Inv, EventConfirmed
  <2> QED BY <1>1, <2>1, <2>2 DEF EventConfirmed, Confirmed
<1>5. NotifiedInOrder'
  <2>1. \A d \in push : d[1] \in known /\ SameJob(d[1].key)
    BY <1>2 DEF Inv, NotifiedInOrder
  <2> QED BY <1>1, <2>1 DEF Inv, NotifiedInOrder, SameJob
<1> QED BY <1>3, <1>4, <1>5

LEMMA InitInv == Init => Inv
<1> SUFFICES ASSUME Init PROVE Inv
  OBVIOUS
<1> USE DEF Init
<1>1. TypeOK
  BY DEF TypeOK
<1>2. Owned /\ RunInv /\ AuditEnded /\ KnownEmitted /\ EventConfirmed /\ NotifiedInOrder
  BY DEF Owned, RunInv, AuditEnded, KnownEmitted, EventConfirmed, NotifiedInOrder
<1> QED BY <1>1, <1>2 DEF Inv
-----------------------------------------------------------------------------
(* Starting a job.                                                         *)

\* The commands that are remembered, with the new one.
LEMMA Remembered ==
  ASSUME TypeOK, NEW q \in Request, NEW c \in Context, NEW b \in BOOLEAN,
         commands' = Extend(commands, KeyOf(q, c), [request |-> q, started |-> b])
  PROVE  /\ commands' \in [DOMAIN commands' -> [request : Request, started : BOOLEAN]]
         /\ DOMAIN commands' = DOMAIN commands \cup {KeyOf(q, c)}
         /\ DOMAIN commands' \subseteq Keys
         /\ commands'[KeyOf(q, c)].started = b
         /\ \A k \in DOMAIN commands : k # KeyOf(q, c) => commands'[k] = commands[k]
<1>1. KeyOf(q, c) \in Keys
  BY DEF Keys
<1>2. [request |-> q, started |-> b] \in [request : Request, started : BOOLEAN]
      /\ [request |-> q, started |-> b].started = b
  OBVIOUS
<1> DEFINE v == [request |-> q, started |-> b]
<1> HIDE DEF v
<1> QED BY <1>1, <1>2, ExtendType DEF TypeOK, Extend, v

LEMMA StartDeniedInv ==
  ASSUME Inv, NEW q \in Request, NEW c \in Context, NEW t \in Time, StartDenied(q, c, t)
  PROVE  Inv'
<1> DEFINE k == KeyOf(q, c)
<1>1. /\ k \notin DOMAIN commands
      /\ audit' = Append(audit, [key |-> k, result |-> "denied"])
      /\ commands' = Extend(commands, k, [request |-> q, started |-> FALSE])
      /\ UNCHANGED <<job, worker, run, emitted, known, sinks>>
  BY DEF StartDenied
<1>2. k \in Keys
  BY DEF Keys
<1>3. /\ commands' \in [DOMAIN commands' -> [request : Request, started : BOOLEAN]]
      /\ DOMAIN commands' = DOMAIN commands \cup {k} /\ DOMAIN commands' \subseteq Keys
      /\ ~ commands'[k].started
      /\ \A j \in DOMAIN commands : commands'[j] = commands[j]
  BY <1>1, Remembered DEF Inv
<1> HIDE DEF k
<1>4. TypeOK'
  <2>1. DOMAIN job = {j \in DOMAIN commands' : commands'[j].started}
    BY <1>1, <1>3 DEF Inv, TypeOK
  <2>2. audit' \in Seq([key : Keys, result : Result])
    BY <1>1, <1>2 DEF Inv, TypeOK, Result
  <2> QED BY <1>1, <1>3, <2>1, <2>2 DEF Inv, TypeOK, Result
<1>5. Owned' /\ RunInv'
  BY <1>1 DEF Inv, Owned, RunInv, RunOf, FramesOf
<1>6. AuditEnded'
  <2>1. \A j \in DOMAIN commands : Phase(j)' = Phase(j)
    BY <1>1, <1>3 DEF Phase
  <2>2. Phase(k)' = "denied"
    BY <1>3 DEF Phase
  <2>3. \A i \in DOMAIN audit : audit[i].key \in DOMAIN commands
    BY DEF Inv, AuditEnded, Phase, Ended
  <2>4. ASSUME NEW i \in DOMAIN audit'
        PROVE  Phase(audit[i].key)' \in Ended
    <3>1. CASE i \in DOMAIN audit
      <4>1. audit'[i] = audit[i]
        BY <1>1, <3>1 DEF Inv, TypeOK
      <4> QED BY <2>1, <2>3, <3>1, <4>1 DEF Inv, AuditEnded
    <3>2. CASE i \notin DOMAIN audit
      <4>1. audit'[i].key = k
        BY <1>1, <2>4, <3>2 DEF Inv, TypeOK
      <4> QED BY <2>2, <4>1 DEF Ended
    <3> QED BY <3>1, <3>2
  <2> QED BY <2>4 DEF AuditEnded
<1>7. KnownEmitted' /\ EventConfirmed' /\ NotifiedInOrder'
  BY <1>1 DEF Inv, KnownEmitted, EventConfirmed, NotifiedInOrder, FramesOf, sinks
<1> QED BY <1>4, <1>5, <1>6, <1>7 DEF Inv

LEMMA StartInv ==
  ASSUME Inv, NEW q \in Request, NEW c \in Context, NEW t \in Time, Start(q, c, t)
  PROVE  Inv'
<1> DEFINE k == KeyOf(q, c)
           j0 == [state |-> "running", since |-> t, deadline |-> t + q.duration,
                  org |-> c.org, actor |-> c.actor, device |-> c.device,
                  camera |-> q.camera, frames |-> 0, hasEvent |-> FALSE]
           w0 == [taken |-> 0, cancelled |-> FALSE]
<1>1. /\ k \notin DOMAIN commands /\ Admissible(q, c, t)
      /\ worker' = Extend(worker, k, w0) /\ job' = Extend(job, k, j0)
      /\ run' = Extend(run, k, <<>>)
      /\ commands' = Extend(commands, k, [request |-> q, started |-> TRUE])
      /\ UNCHANGED <<emitted, known, sinks, audit>>
  BY DEF Start
<1>2. /\ commands' \in [DOMAIN commands' -> [request : Request, started : BOOLEAN]]
      /\ DOMAIN commands' = DOMAIN commands \cup {k} /\ DOMAIN commands' \subseteq Keys
      /\ commands'[k].started
      /\ \A j \in DOMAIN commands : commands'[j] = commands[j]
  BY <1>1, Remembered DEF Inv
<1>3. k \notin DOMAIN job /\ DOMAIN worker = DOMAIN job /\ DOMAIN run = DOMAIN job
  BY <1>1 DEF Inv, TypeOK
<1>4. j0 \in Job /\ w0 \in [taken : Nat, cancelled : BOOLEAN]
  <2>1. q.duration \in Nat /\ t \in Nat
    BY RequestAssumption, Limits DEF Time
  <2>2. q.camera \in DOMAIN OwnerOf
    BY <1>1 DEF Admissible
  <2> QED BY <2>1, <2>2 DEF Job, Actors
<1>5. j0.camera = q.camera /\ j0.org = c.org /\ w0.taken = 0 /\ OwnerOf[q.camera] = c.org
  BY <1>1 DEF Admissible
<1> HIDE DEF k, j0, w0
<1>6. /\ DOMAIN job' = DOMAIN job \cup {k} /\ job'[k] = j0
      /\ \A j \in DOMAIN job : job'[j] = job[j]
      /\ job' \in [DOMAIN job' -> Job]
  BY <1>1, <1>3, <1>4, ExtendType DEF Extend, Inv, TypeOK
<1>7. /\ worker'[k] = w0 /\ \A j \in DOMAIN job : worker'[j] = worker[j]
      /\ worker' \in [DOMAIN job' -> [taken : Nat, cancelled : BOOLEAN]]
  BY <1>1, <1>3, <1>4, <1>6, ExtendType DEF Extend, Inv, TypeOK
<1>8. /\ run'[k] = <<>> /\ \A j \in DOMAIN job : run'[j] = run[j]
      /\ run' \in [DOMAIN job' -> Seq(Nat)]
  <2>1. <<>> \in Seq(Nat)
    OBVIOUS
  <2> QED BY <1>1, <1>3, <1>6, <2>1, ExtendType DEF Extend, Inv, TypeOK
<1>9. TypeOK'
  <2>1. DOMAIN job' = {j \in DOMAIN commands' : commands'[j].started}
    BY <1>2, <1>6 DEF Inv, TypeOK
  <2> QED BY <1>1, <1>2, <1>6, <1>7, <1>8, <2>1 DEF Inv, TypeOK
<1>10. Owned'
  BY <1>5, <1>6 DEF Inv, Owned
<1>11. \A j \in DOMAIN job : FramesOf(j)' = FramesOf(j)
  BY <1>6 DEF FramesOf
<1>12. RunInv'
  <2> SUFFICES ASSUME NEW j \in DOMAIN job' PROVE RunOf(j)'
    BY DEF RunInv
  <2>1. CASE j = k
    <3>1. run'[j] = <<>> /\ worker'[j].taken = 0
      BY <1>5, <1>7, <1>8, <2>1
    <3>2. Len(FramesOf(j)') \in Nat
      BY FramesLength DEF FramesOf
    <3> QED BY <3>1, <3>2 DEF RunOf
  <2>2. CASE j \in DOMAIN job
    <3>1. RunOf(j)
      BY <2>2 DEF Inv, RunInv
    <3>2. /\ FramesOf(j)' = FramesOf(j) /\ worker'[j] = worker[j] /\ run'[j] = run[j]
          /\ job'[j] = job[j] /\ emitted' = emitted
      BY <1>1, <1>6, <1>7, <1>8, <1>11, <2>2
    <3> QED BY <3>1, <3>2 DEF RunOf
  <2> QED BY <1>6, <2>1, <2>2
<1>13. AuditEnded'
  <2>1. \A j \in DOMAIN commands : Phase(j)' = Phase(j)
    BY <1>1, <1>2, <1>6 DEF Phase, Inv, TypeOK
  <2>2. \A i \in DOMAIN audit : audit[i].key \in DOMAIN commands
    BY DEF Inv, AuditEnded, Phase, Ended
  <2> QED BY <1>1, <2>1, <2>2 DEF Inv, AuditEnded
<1>14. KnownEmitted' /\ EventConfirmed' /\ NotifiedInOrder'
  <2>1. /\ \A j \in DOMAIN job : SameJob(j)
        /\ \A j \in DOMAIN job : worker'[j].taken \in Nat /\ worker[j].taken <= worker'[j].taken
        /\ DOMAIN worker' = DOMAIN job' /\ DOMAIN job \subseteq DOMAIN job'
    BY <1>6, <1>7 DEF SameJob, Inv, TypeOK
  <2> QED BY <1>1, <2>1, EvidenceKept
<1> QED BY <1>9, <1>10, <1>12, <1>13, <1>14 DEF Inv
-----------------------------------------------------------------------------
(* Ending a job.                                                           *)

\* What job.transition to a terminal state and its audit event change.
LEMMA FinishEffect ==
  ASSUME Inv, NEW k \in DOMAIN job, NEW t \in Nat, NEW s \in {"completed", "cancelled"},
         NEW r \in Result, job[k].state = "running", Finish(k, t, s, r), UNCHANGED commands
  PROVE  /\ job' \in [DOMAIN job -> Job] /\ \A j \in DOMAIN job : SameJob(j)
         /\ \A j \in DOMAIN job : j # k => job'[j] = job[j]
         /\ job'[k].state = s /\ job'[k].frames = job[k].frames
         /\ audit' \in Seq([key : Keys, result : Result]) /\ AuditEnded'
         /\ Phase(k) = "running" /\ Phase(k)' = s /\ \A j : j # k => Phase(j)' = Phase(j)
<1>1. job \in [DOMAIN job -> Job] /\ k \in Keys
  BY DEF Inv, TypeOK
<1>2. /\ job' = [job EXCEPT ![k].state = s, ![k].since = t]
      /\ audit' = Append(audit, [key |-> k, result |-> r])
  BY DEF Finish
<1>3. job' \in [DOMAIN job -> Job]
  <2>1. job' = [j \in DOMAIN job |-> job'[j]]
    BY <1>2
  <2>2. \A j \in DOMAIN job : j # k => job'[j] = job[j]
    BY <1>1, <1>2
  <2>3. job'[k] = [[job[k] EXCEPT !.state = s] EXCEPT !.since = t]
    BY <1>1, <1>2
  <2>4. job[k] \in Job
    BY <1>1
  <2>5. \A x \in Job : [x EXCEPT !.state = s] \in Job
    BY DEF Job
  <2>6. \A x \in Job : [x EXCEPT !.since = t] \in Job
    BY DEF Job
  <2>7. job'[k] \in Job
    BY <2>3, <2>4, <2>5, <2>6
  <2> QED BY <1>1, <2>1, <2>2, <2>7
<1>4. /\ \A j \in DOMAIN job : j # k => job'[j] = job[j]
      /\ job'[k].state = s /\ job'[k].frames = job[k].frames /\ SameJob(k)
  BY <1>1, <1>2 DEF Job, SameJob
<1>5. \A j \in DOMAIN job : SameJob(j)
  BY <1>4 DEF SameJob
<1>6. audit' \in Seq([key : Keys, result : Result])
  BY <1>1, <1>2 DEF Inv, TypeOK, Result
<1>7. Phase(k) = "running" /\ Phase(k)' = s /\ \A j : j # k => Phase(j)' = Phase(j)
  <2>1. k \in DOMAIN commands /\ commands[k].started
    BY DEF Inv, TypeOK
  <2>2. \A j \in DOMAIN commands : commands[j].started => j \in DOMAIN job
    BY DEF Inv, TypeOK
  <2> QED BY <1>3, <1>4, <2>1, <2>2 DEF Phase
<1>8. AuditEnded'
  <2> SUFFICES ASSUME NEW i \in DOMAIN audit' PROVE Phase(audit[i].key)' \in Ended
    BY DEF AuditEnded
  <2>1. CASE i \in DOMAIN audit
    <3>1. audit'[i] = audit[i]
      BY <1>2, <2>1 DEF Inv, TypeOK
    <3>2. Phase(audit[i].key) \in Ended /\ audit[i].key # k
      BY <1>7, <2>1 DEF Inv, AuditEnded, Ended
    <3> QED BY <1>7, <3>1, <3>2
  <2>2. CASE i \notin DOMAIN audit
    <3>1. audit'[i].key = k
      BY <1>2, <2>2 DEF Inv, TypeOK
    <3> QED BY <1>7, <3>1 DEF Ended
  <2> QED BY <2>1, <2>2
<1> QED BY <1>3, <1>4, <1>5, <1>6, <1>7, <1>8

\* A call that ends a job or leaves it, and may take or stop its worker.
LEMMA WorkerInv ==
  ASSUME Inv, job' \in [DOMAIN job -> Job], \A j \in DOMAIN job : SameJob(j),
         audit' \in Seq([key : Keys, result : Result]), AuditEnded',
         worker' \in [DOMAIN job -> [taken : Nat, cancelled : BOOLEAN]],
         \A j \in DOMAIN job : worker[j].taken <= worker'[j].taken,
         \A j \in DOMAIN job : RunOf(j)',
         UNCHANGED <<commands, run, emitted, known, sinks>>
  PROVE  Inv'
<1>1. DOMAIN job' = DOMAIN job /\ DOMAIN worker' = DOMAIN job
  OBVIOUS
<1>2. TypeOK'
  BY <1>1 DEF Inv, TypeOK, Result
<1>3. Owned'
  BY <1>1 DEF Inv, Owned, SameJob
<1>4. RunInv'
  BY <1>1 DEF RunInv
<1>5. \A j \in DOMAIN job : worker'[j].taken \in Nat
  OBVIOUS
<1>6. KnownEmitted' /\ EventConfirmed' /\ NotifiedInOrder'
  BY <1>1, <1>5, EvidenceKept
<1> QED BY <1>2, <1>3, <1>4, <1>6 DEF Inv

\* The run of a job whose worker keeps its place is what it was.
LEMMA RunKept ==
  ASSUME Inv, NEW j \in DOMAIN job, SameJob(j), worker'[j].taken = worker[j].taken,
         UNCHANGED <<run, emitted>>
  PROVE  RunOf(j)'
<1>1. FramesOf(j)' = FramesOf(j) /\ RunOf(j)
  BY SameFrames DEF Inv, RunInv
<1> QED BY <1>1 DEF RunOf, SameJob

\* A worker hands out one frame.
LEMMA TakenStep ==
  ASSUME Inv, NEW k \in DOMAIN job, worker' = [worker EXCEPT ![k].taken = @ + 1]
  PROVE  /\ worker' \in [DOMAIN job -> [taken : Nat, cancelled : BOOLEAN]]
         /\ worker'[k].taken = worker[k].taken + 1 /\ worker[k].taken \in Nat
         /\ \A j \in DOMAIN job : j # k => worker'[j].taken = worker[j].taken
         /\ \A j \in DOMAIN job : worker[j].taken <= worker'[j].taken
<1>1. worker \in [DOMAIN job -> [taken : Nat, cancelled : BOOLEAN]]
  BY DEF Inv, TypeOK
<1>2. worker' \in [DOMAIN job -> [taken : Nat, cancelled : BOOLEAN]]
  BY <1>1
<1>3. worker'[k].taken = worker[k].taken + 1 /\ worker[k].taken \in Nat
  BY <1>1
<1>4. \A j \in DOMAIN job : j # k => worker'[j].taken = worker[j].taken
  BY <1>1
<1>5. \A j \in DOMAIN job : worker[j].taken \in Nat
  BY <1>1
<1> QED BY <1>2, <1>3, <1>4, <1>5

LEMMA CompleteInv ==
  ASSUME Inv, NEW k, NEW c \in Context, NEW t \in Time,
         Elapse(k, c, t) \/ Exhaust(k, c, t)
  PROVE  Inv'
<1>1. /\ k \in DOMAIN job /\ job[k].state = "running" /\ t \in Nat
      /\ Finish(k, t, "completed", "simulated")
      /\ UNCHANGED <<commands, worker, run, emitted, known, sinks>>
  BY Limits DEF Elapse, Exhaust, Authorized, Complete, Time
<1>2. /\ job' \in [DOMAIN job -> Job] /\ \A j \in DOMAIN job : SameJob(j)
      /\ audit' \in Seq([key : Keys, result : Result]) /\ AuditEnded'
  BY <1>1, FinishEffect DEF Result
<1>3. worker' \in [DOMAIN job -> [taken : Nat, cancelled : BOOLEAN]]
      /\ \A j \in DOMAIN job : worker[j].taken <= worker'[j].taken
  BY <1>1 DEF Inv, TypeOK
<1>4. \A j \in DOMAIN job : RunOf(j)'
  BY <1>1, <1>2, RunKept
<1> QED BY <1>1, <1>2, <1>3, <1>4, WorkerInv

LEMMA CancelInv ==
  ASSUME Inv, NEW k, NEW c \in Context, NEW t \in Time, Cancel(k, c, t)
  PROVE  Inv'
<1>1. /\ k \in DOMAIN job /\ job[k].state = "running" /\ t \in Nat
      /\ worker' = [worker EXCEPT ![k].cancelled = TRUE]
      /\ Finish(k, t, "cancelled", "cancelled") \/ UNCHANGED <<job, audit>>
      /\ UNCHANGED <<commands, run, emitted, known, sinks>>
  BY Limits DEF Cancel, Authorized, Time
<1>2. /\ job' \in [DOMAIN job -> Job] /\ \A j \in DOMAIN job : SameJob(j)
      /\ audit' \in Seq([key : Keys, result : Result]) /\ AuditEnded'
  <2>1. CASE Finish(k, t, "cancelled", "cancelled")
    BY <1>1, <2>1, FinishEffect DEF Result
  <2>2. CASE UNCHANGED <<job, audit>>
    BY <1>1, <2>2 DEF Inv, TypeOK, SameJob, AuditEnded, Phase, Result
  <2> QED BY <1>1, <2>1, <2>2
<1>3. /\ worker' \in [DOMAIN job -> [taken : Nat, cancelled : BOOLEAN]]
      /\ \A j \in DOMAIN job : worker'[j].taken = worker[j].taken /\ worker[j].taken \in Nat
  BY <1>1 DEF Inv, TypeOK
<1>4. \A j \in DOMAIN job : RunOf(j)'
  BY <1>1, <1>2, <1>3, RunKept
<1> QED BY <1>1, <1>2, <1>3, <1>4, WorkerInv

\* A frame after the deadline is taken: nothing is observed any more.
LEMMA OverrunInv ==
  ASSUME Inv, NEW k, NEW c \in Context, NEW t \in Time, Overrun(k, c, t)
  PROVE  Inv'
<1>1. /\ k \in DOMAIN job /\ job[k].state = "running" /\ t \in Nat
      /\ HasFrame(k) /\ NextFrame(k).at > job[k].deadline
      /\ worker' = [worker EXCEPT ![k].taken = @ + 1]
      /\ Finish(k, t, "completed", "simulated") \/ UNCHANGED <<job, audit>>
      /\ UNCHANGED <<commands, run, emitted, known, sinks>>
  BY Limits DEF Overrun, Complete, Authorized, Time
<1>2. /\ job' \in [DOMAIN job -> Job] /\ \A j \in DOMAIN job : SameJob(j)
      /\ audit' \in Seq([key : Keys, result : Result]) /\ AuditEnded'
  <2>1. CASE Finish(k, t, "completed", "simulated")
    BY <1>1, <2>1, FinishEffect DEF Result
  <2>2. CASE UNCHANGED <<job, audit>>
    BY <1>1, <2>2 DEF Inv, TypeOK, SameJob, AuditEnded, Phase, Result
  <2> QED BY <1>1, <2>1, <2>2
<1>3. /\ worker' \in [DOMAIN job -> [taken : Nat, cancelled : BOOLEAN]]
      /\ worker'[k].taken = worker[k].taken + 1 /\ worker[k].taken \in Nat
      /\ \A j \in DOMAIN job : j # k => worker'[j].taken = worker[j].taken
      /\ \A j \in DOMAIN job : worker[j].taken <= worker'[j].taken
  BY <1>1, TakenStep
<1>4. \A j \in DOMAIN job : j # k => RunOf(j)'
  BY <1>1, <1>2, <1>3, RunKept
<1>5. RunOf(k)'
  <2>1. /\ FramesOf(k)' = FramesOf(k) /\ job'[k].deadline = job[k].deadline
        /\ run'[k] = run[k] /\ emitted' = emitted /\ RunOf(k) /\ Len(FramesOf(k)) \in Nat
    BY <1>1, <1>2, SameFrames, FramesType DEF SameJob, Inv, RunInv
  <2>2. worker[k].taken + 1 <= Len(FramesOf(k))
        /\ FramesOf(k)[worker[k].taken + 1].at > job[k].deadline
    BY <1>1, <1>3, <2>1 DEF HasFrame, NextFrame
  <2> QED BY <1>3, <2>1, <2>2 DEF RunOf
<1> QED BY <1>1, <1>2, <1>3, <1>4, <1>5, WorkerInv
-----------------------------------------------------------------------------
(* Observing a frame.                                                      *)

\* The run after a frame in time: still consecutive, and it ends with it.
LEMMA RunAfterValue ==
  ASSUME Inv, NEW k \in DOMAIN job, k \notin emitted, HasFrame(k),
         NextFrame(k).at <= job[k].deadline
  PROVE  LET r == RunAfter(k)  p == worker[k].taken + 1 IN
         /\ r \in Seq(Nat)
         /\ \A i \in 1..Len(r) :
              /\ r[i] = r[1] + i - 1 /\ r[i] \in 1..p
              /\ FramesOf(k)[r[i]].person /\ FramesOf(k)[r[i]].at <= job[k].deadline
         /\ Len(r) > 0 => r[Len(r)] = p
<1> DEFINE old == run[k]
           taken == worker[k].taken
           F == FramesOf(k)
           deadline == job[k].deadline
           p == taken + 1
<1>1. old \in Seq(Nat) /\ taken \in Nat /\ deadline \in Nat
  BY DEF Inv, TypeOK, Job
<1>2. /\ F \in Seq([at : Nat, person : BOOLEAN])
      /\ \A i, j \in DOMAIN F : i < j => F[i].at <= F[j].at
      /\ \A i \in DOMAIN F : F[i].at \in Nat
  BY FramesType
<1>3. /\ taken <= Len(F)
      /\ \A i \in 1..Len(old) :
           /\ old[i] = old[1] + i - 1 /\ old[i] \in 1..taken
           /\ F[old[i]].person /\ F[old[i]].at <= deadline
      /\ Len(old) > 0 => old[Len(old)] = taken \/ F[taken].at > deadline
  BY DEF Inv, RunInv, RunOf
<1>4. taken < Len(F) /\ F[p].at <= deadline
  BY DEF HasFrame, NextFrame
<1>5. RunAfter(k) = IF F[p].person THEN Append(old, p) ELSE <<>>
  BY DEF RunAfter, NextFrame
<1> HIDE DEF old, taken, F, deadline
<1>6. CASE ~ F[p].person
  BY <1>5, <1>6 DEF F, taken
<1>7. CASE F[p].person
  <2>1. ASSUME Len(old) > 0 PROVE old[Len(old)] = taken
    <3>1. old[1] \in 1..taken
      BY <1>1, <1>3, <2>1
    <3>2. taken \in DOMAIN F /\ p \in DOMAIN F /\ taken < p
      BY <1>1, <1>2, <1>4, <3>1
    <3>3. F[taken].at <= F[p].at
      BY <1>2, <3>2
    <3>4. F[taken].at \in Nat /\ F[p].at \in Nat
      BY <1>2, <3>2
    <3> QED BY <1>1, <1>3, <1>4, <2>1, <3>3, <3>4
  <2>2. Len(Append(old, p)) = Len(old) + 1 /\ Len(old) \in Nat
        /\ Append(old, p)[Len(old) + 1] = p
        /\ Append(old, p) \in Seq(Nat)
        /\ \A i \in 1..Len(old) : Append(old, p)[i] = old[i] /\ old[i] \in Nat
    BY <1>1
  <2>3. p = Append(old, p)[1] + (Len(old) + 1) - 1
    <3>1. CASE Len(old) = 0
      BY <1>1, <2>2, <3>1
    <3>2. CASE Len(old) > 0
      <4>1. 1 \in 1..Len(old) /\ Len(old) \in 1..Len(old)
        BY <2>2, <3>2
      <4>2. old[Len(old)] = old[1] + Len(old) - 1 /\ old[1] \in Nat
        BY <1>3, <2>2, <4>1
      <4> QED BY <1>1, <2>1, <2>2, <3>2, <4>1, <4>2
    <3> QED BY <2>2, <3>1, <3>2
  <2>4. \A i \in 1..(Len(old) + 1) :
          LET x == Append(old, p)[i] IN
          /\ x = Append(old, p)[1] + i - 1 /\ x \in 1..p
          /\ F[x].person /\ F[x].at <= deadline
    <3> TAKE i \in 1..(Len(old) + 1)
    <3>1. CASE i = Len(old) + 1
      BY <1>1, <1>4, <1>7, <2>2, <2>3, <3>1
    <3>2. CASE i \in 1..Len(old)
      <4>1. 1 \in 1..Len(old)
        BY <2>2, <3>2
      <4> QED BY <1>1, <1>3, <2>2, <3>2, <4>1
    <3> QED BY <2>2, <3>1, <3>2
  <2>5. RunAfter(k) = Append(old, p)
    BY <1>5, <1>7
  <2> DEFINE r == RunAfter(k)
  <2> HIDE DEF p
  <2>6. r \in Seq(Nat) /\ Len(r) = Len(old) + 1 /\ r[Len(r)] = p
    BY <2>2, <2>5
  <2>7. \A i \in 1..Len(r) :
          r[i] = r[1] + i - 1 /\ r[i] \in 1..p /\ F[r[i]].person /\ F[r[i]].at <= deadline
    BY <2>4, <2>5, <2>6
  <2> HIDE DEF r
  <2> QED BY <2>6, <2>7 DEF F, taken, deadline, p, r
<1> QED BY <1>6, <1>7

\* The frames of the event: the last MinFrames of the run.
LEMMA EventFrames ==
  ASSUME NEW r \in Seq(Nat), Len(r) >= MinFrames
  PROVE  LET f == SubSeq(r, Len(r) - MinFrames + 1, Len(r)) IN
         /\ Len(f) = MinFrames
         /\ \A i \in 1..MinFrames :
              f[i] = r[Len(r) - MinFrames + i] /\ Len(r) - MinFrames + i \in 1..Len(r)
BY Limits

\* Publication reaches the sinks in order, for an event that is recorded.
LEMMA PublishInOrder ==
  ASSUME NotifiedInOrder, EventConfirmed, NEW e, NEW n \in 0..3,
         Publish(e, job[e.key].actor, n), e \in known', known \subseteq known',
         e.key \in DOMAIN job, OwnerOf[e.camera] = job[e.key].org,
         \A j \in DOMAIN job : SameJob(j)
  PROVE  NotifiedInOrder'
<1> DEFINE d0 == <<e, job[e.key].actor>>
<1>0. d0[1] = e /\ d0[2] = job[e.key].actor
  OBVIOUS
<1>1. /\ events \subseteq events' /\ events' \subseteq events \cup {e}
      /\ inbox' \subseteq push'
      /\ \A d \in push' : d \in push \/ (d = d0 /\ e \in events')
  <2>1. /\ events' = IF n >= 1 THEN events \cup {e} ELSE events
        /\ push' = IF n >= 2 THEN push \cup {d0} ELSE push
        /\ inbox' = IF n = 3 THEN inbox \cup {d0} ELSE inbox
        /\ inbox \subseteq push
    BY DEF Publish, NotifiedInOrder
  <2> HIDE DEF d0
  <2>2. CASE n \in {0, 1}
    BY <2>1, <2>2
  <2>3. CASE n \in {2, 3}
    BY <2>1, <2>3
  <2> QED BY <2>2, <2>3
<1>2. \A d \in push : d[1].key \in DOMAIN job
  BY DEF NotifiedInOrder, EventConfirmed
<1>3. \A d \in push' : /\ d[1] \in events'
                       /\ d[2] = job'[d[1].key].actor
                       /\ OwnerOf[d[1].camera] = job'[d[1].key].org
  <2> HIDE DEF d0
  <2> QED BY <1>0, <1>1, <1>2 DEF NotifiedInOrder, SameJob
<1> QED BY <1>1, <1>3 DEF NotifiedInOrder

LEMMA ObserveInv ==
  ASSUME Inv, NEW k, NEW c \in Context, NEW t \in Time, NEW n \in 0..3, Observe(k, c, t, n)
  PROVE  Inv'
<1>1. /\ k \in DOMAIN job /\ job[k].actor = c.actor
      /\ HasFrame(k) /\ NextFrame(k).at <= job[k].deadline
      /\ worker' = [worker EXCEPT ![k].taken = @ + 1]
      /\ run' = IF k \in emitted THEN run ELSE [run EXCEPT ![k] = RunAfter(k)]
      /\ emitted' = IF Confirms(k) THEN emitted \cup {k} ELSE emitted
      /\ \/ /\ Confirms(k)
            /\ job' = [job EXCEPT ![k].frames = @ + 1, ![k].hasEvent = TRUE]
            /\ known' = known \cup {EventOf(k)}
            /\ Publish(EventOf(k), c.actor, n)
         \/ /\ job' = [job EXCEPT ![k].frames = @ + 1]
            /\ UNCHANGED <<known, sinks>>
      /\ UNCHANGED <<commands, audit>>
  BY DEF Observe, Authorized
<1>2. job \in [DOMAIN job -> Job]
  BY DEF Inv, TypeOK
<1>3. /\ job' \in [DOMAIN job -> Job] /\ \A j \in DOMAIN job : SameJob(j)
      /\ \A j \in DOMAIN job : job'[j].state = job[j].state
  <2>1. CASE job' = [job EXCEPT ![k].frames = @ + 1, ![k].hasEvent = TRUE]
    BY <1>1, <1>2, <2>1 DEF Job, SameJob
  <2>2. CASE job' = [job EXCEPT ![k].frames = @ + 1]
    BY <1>1, <1>2, <2>2 DEF Job, SameJob
  <2> QED BY <1>1, <2>1, <2>2
<1>4. /\ worker' \in [DOMAIN job -> [taken : Nat, cancelled : BOOLEAN]]
      /\ worker'[k].taken = worker[k].taken + 1 /\ worker[k].taken \in Nat
      /\ \A j \in DOMAIN job : j # k => worker'[j].taken = worker[j].taken
      /\ \A j \in DOMAIN job : worker[j].taken <= worker'[j].taken
  BY <1>1, TakenStep
<1>5. emitted \subseteq emitted' /\ emitted' \subseteq emitted \cup {k}
  BY <1>1
<1>6. run' \in [DOMAIN job -> Seq(Nat)] /\ \A j \in DOMAIN job : j # k => run'[j] = run[j]
  <2>1. run \in [DOMAIN job -> Seq(Nat)]
    BY DEF Inv, TypeOK
  <2>2. CASE k \in emitted
    BY <1>1, <2>1, <2>2
  <2>3. CASE k \notin emitted
    BY <1>1, <2>1, <2>3, RunAfterValue
  <2> QED BY <2>2, <2>3
<1>7. TypeOK'
  <2>1. DOMAIN job' = DOMAIN job
    BY <1>3
  <2> QED BY <1>1, <1>3, <1>4, <1>5, <1>6, <2>1 DEF Inv, TypeOK
<1>8. Owned'
  BY <1>3 DEF Inv, Owned, SameJob
<1>9. AuditEnded'
  <2>1. \A j : Phase(j)' = Phase(j)
    BY <1>1, <1>3 DEF Phase, Inv, TypeOK
  <2> QED BY <1>1, <2>1 DEF Inv, AuditEnded
<1>10. RunInv'
  <2>1. ASSUME NEW j \in DOMAIN job, j # k
        PROVE  RunOf(j)'
    <3>1. FramesOf(j)' = FramesOf(j) /\ RunOf(j)
      BY <1>3, SameFrames DEF Inv, RunInv
    <3>2. j \in emitted' <=> j \in emitted
      BY <1>5, <2>1
    <3>3. run'[j] = run[j] /\ worker'[j].taken = worker[j].taken
          /\ job'[j].deadline = job[j].deadline
      BY <1>3, <1>4, <1>6, <2>1 DEF SameJob
    <3> QED BY <3>1, <3>2, <3>3 DEF RunOf
  <2>2. RunOf(k)'
    <3>1. FramesOf(k)' = FramesOf(k) /\ RunOf(k) /\ Len(FramesOf(k)) \in Nat
      BY <1>1, <1>3, SameFrames, FramesType DEF Inv, RunInv
    <3>2. worker[k].taken + 1 <= Len(FramesOf(k)) /\ job'[k].deadline = job[k].deadline
      BY <1>1, <1>3, <1>4, <3>1 DEF HasFrame, SameJob
    <3>3. CASE k \in emitted
      <4>1. run'[k] = run[k] /\ k \in emitted'
        BY <1>1, <1>5, <3>3
      <4> QED BY <1>4, <3>1, <3>2, <4>1 DEF RunOf
    <3>4. CASE k \notin emitted
      <4>1. run'[k] = RunAfter(k)
        BY <1>1, <3>4 DEF Inv, TypeOK
      <4> QED BY <1>1, <1>4, <3>1, <3>2, <3>4, <4>1, RunAfterValue DEF RunOf
    <3> QED BY <3>3, <3>4
  <2> QED BY <1>3, <2>1, <2>2 DEF RunInv
<1>11. KnownEmitted' /\ EventConfirmed' /\ NotifiedInOrder'
  <2>1. CASE UNCHANGED <<known, sinks>>
    BY <1>3, <1>4, <1>5, <2>1, EvidenceKept
  <2>2. CASE /\ Confirms(k) /\ known' = known \cup {EventOf(k)}
             /\ Publish(EventOf(k), c.actor, n)
    <3>0. PICK r, e0 : r = RunAfter(k) /\ e0 = EventOf(k)
      OBVIOUS
    <3>1. /\ e0.key = k /\ e0.camera = job[k].camera
          /\ e0.frames = SubSeq(r, Len(r) - MinFrames + 1, Len(r))
      BY <3>0 DEF EventOf
    <3>2. k \notin emitted /\ Len(r) >= MinFrames /\ k \in emitted'
      BY <1>1, <2>2, <3>0 DEF Confirms
    <3>3. /\ r \in Seq(Nat)
          /\ \A i \in 1..Len(r) :
               /\ r[i] = r[1] + i - 1 /\ r[i] \in 1..worker'[k].taken
               /\ FramesOf(k)[r[i]].person /\ FramesOf(k)[r[i]].at <= job[k].deadline
      BY <1>1, <1>4, <3>0, <3>2, RunAfterValue
    <3>4. /\ Len(e0.frames) = MinFrames
          /\ \A i \in 1..MinFrames :
               /\ e0.frames[i] = r[Len(r) - MinFrames + i]
               /\ Len(r) - MinFrames + i \in 1..Len(r)
      BY <3>1, <3>2, <3>3, EventFrames
    <3>5. \A i \in 1..MinFrames :
            LET p == e0.frames[i] IN
            /\ p = e0.frames[1] + i - 1 /\ p \in 1..worker'[k].taken
            /\ FramesOf(k)[p].person /\ FramesOf(k)[p].at <= job[k].deadline
      <4>1. 1 \in 1..MinFrames /\ Len(r) \in Nat /\ r[1] \in Nat
        BY <3>2, <3>3, Limits
      <4>2. \A i \in 1..MinFrames : e0.frames[i] = r[1] + Len(r) - MinFrames + i - 1
        <5> TAKE i \in 1..MinFrames
        <5> DEFINE x == Len(r) - MinFrames + i
        <5>1. x \in 1..Len(r) /\ e0.frames[i] = r[x]
          BY <3>4
        <5>2. r[x] = r[1] + x - 1
          <6> HIDE DEF x
          <6> QED BY <3>3, <5>1
        <5> QED BY <4>1, <5>1, <5>2, Limits
      <4>3. e0.frames[1] = r[1] + Len(r) - MinFrames
        BY <4>1, <4>2, Limits
      <4> TAKE i \in 1..MinFrames
      <4>4. e0.frames[i] = e0.frames[1] + i - 1
        BY <4>1, <4>2, <4>3, Limits
      <4> QED BY <3>3, <3>4, <4>4
    <3>6. KnownEmitted'
      BY <1>5, <2>2, <3>0, <3>1, <3>2 DEF Inv, KnownEmitted
    <3>7. EventConfirmed'
      <4>1. \A e \in known : Confirmed(e)'
        <5>1. DOMAIN job \subseteq DOMAIN job' /\ \A j \in DOMAIN job : worker'[j].taken \in Nat
          BY <1>3, <1>4
        <5> QED BY <1>3, <1>4, <5>1, ConfirmedKept
      <4>2. Confirmed(e0)'
        <5>1. FramesOf(k)' = FramesOf(k) /\ SameJob(k) /\ k \in DOMAIN job'
          BY <1>1, <1>3, SameFrames
        <5> QED BY <3>1, <3>4, <3>5, <5>1 DEF Confirmed, SameJob
      <4>3. \A e \in known : e.key # e0.key
        BY <3>1, <3>2 DEF Inv, KnownEmitted
      <4>4. known' = known \cup {e0}
        BY <2>2, <3>0
      <4>5. \A e, f \in known' : e.key = f.key => e = f
        BY <4>3, <4>4 DEF Inv, EventConfirmed
      <4> QED BY <4>1, <4>2, <4>4, <4>5 DEF EventConfirmed, Confirmed
    <3>8. NotifiedInOrder'
      <4>1. /\ Publish(e0, job[e0.key].actor, n) /\ known' = known \cup {e0}
            /\ e0.key \in DOMAIN job /\ OwnerOf[e0.camera] = job[e0.key].org
        BY <1>1, <2>2, <3>0, <3>1 DEF Inv, Owned
      <4> QED BY <1>3, <4>1, PublishInOrder DEF Inv
    <3> QED BY <3>6, <3>7, <3>8
  <2> QED BY <1>1, <2>1, <2>2
<1> QED BY <1>7, <1>8, <1>9, <1>10, <1>11 DEF Inv

LEMMA RepublishInv ==
  ASSUME Inv, NEW e \in known, NEW a \in Actors, NEW n \in 0..3, Republish(e, a, n)
  PROVE  Inv'
<1>1. /\ Publish(e, job[e.key].actor, n)
      /\ UNCHANGED <<commands, job, worker, run, emitted, known, audit>>
  BY DEF Republish
<1>2. e.key \in DOMAIN job /\ OwnerOf[e.camera] = job[e.key].org
  BY DEF Inv, EventConfirmed, Owned
<1>3. NotifiedInOrder'
  BY <1>1, <1>2, PublishInOrder DEF Inv, SameJob
<1>4. TypeOK' /\ Owned' /\ RunInv' /\ AuditEnded' /\ KnownEmitted' /\ EventConfirmed'
  BY <1>1 DEF Inv, TypeOK, Owned, RunInv, RunOf, FramesOf, AuditEnded, Phase,
     KnownEmitted, EventConfirmed
<1> QED BY <1>3, <1>4 DEF Inv
-----------------------------------------------------------------------------
LEMMA NextInv == Inv /\ [Next]_vars => Inv'
<1> SUFFICES ASSUME Inv, [Next]_vars PROVE Inv'
  OBVIOUS
<1>1. ASSUME NEW q \in Request, NEW c \in Context, NEW t \in Time,
             StartDenied(q, c, t) \/ Start(q, c, t)
      PROVE  Inv'
  BY <1>1, StartDeniedInv, StartInv
<1>2. ASSUME NEW k \in Keys, NEW c \in Context, NEW t \in Time, Advance(k, c, t)
      PROVE  Inv'
  <2>1. CASE Elapse(k, c, t) \/ Exhaust(k, c, t)
    BY <2>1, CompleteInv
  <2>2. CASE Overrun(k, c, t)
    BY <2>2, OverrunInv
  <2>3. ASSUME NEW n \in 0..3, Observe(k, c, t, n)
        PROVE  Inv'
    BY <2>3, ObserveInv
  <2> QED BY <1>2, <2>1, <2>2, <2>3 DEF Advance
<1>3. ASSUME NEW k \in Keys, NEW c \in Context, NEW t \in Time, Cancel(k, c, t)
      PROVE  Inv'
  BY <1>3, CancelInv
<1>4. ASSUME NEW e \in known, NEW a \in Actors, NEW n \in 0..3, Republish(e, a, n)
      PROVE  Inv'
  BY <1>4, RepublishInv
<1>5. CASE UNCHANGED vars
  BY <1>5 DEF vars, sinks, Inv, TypeOK, Owned, RunInv, RunOf, FramesOf, AuditEnded, Phase,
     KnownEmitted, EventConfirmed, NotifiedInOrder
<1> QED BY <1>1, <1>2, <1>3, <1>4, <1>5 DEF Next

THEOREM Invariance == Spec => []Inv
BY InitInv, NextInv, PTL DEF Spec

\* Commands, jobs, workers, runs and the audit log keep their types.
THEOREM TypeCorrect == Spec => []TypeOK
BY Invariance, PTL DEF Inv

\* An event stands for consecutive frames of its job's camera, each with a
\* person, none late and all taken by its worker, and a job has at most one,
\* whichever calls interleave and whatever its publication does.
THEOREM EventsConfirmed == Spec => []EventConfirmed
BY Invariance, PTL DEF Inv

\* A notification goes to the operator of its job, for an event that is
\* recorded, push before inbox, however often a sink raises.
THEOREM NotificationsInOrder == Spec => []NotifiedInOrder
BY Invariance, PTL DEF Inv
-----------------------------------------------------------------------------
(* Monitoring implements JobLifecycle.                                     *)

\* The log holds at most one event of a command.
AuditOnce == \A i, j \in DOMAIN audit : audit[i].key = audit[j].key => i = j

\* What a step appends to the log, if anything.
LEMMA Appended ==
  ASSUME Inv, [Next]_vars
  PROVE  \/ audit' = audit
         \/ \E k \in Keys, r \in Result :
              Phase(k) \notin Ended /\ audit' = Append(audit, [key |-> k, result |-> r])
<1>1. ASSUME NEW q \in Request, NEW c \in Context, NEW t \in Time, StartDenied(q, c, t)
      PROVE  \E k \in Keys, r \in Result :
               Phase(k) \notin Ended /\ audit' = Append(audit, [key |-> k, result |-> r])
  <2>1. KeyOf(q, c) \in Keys /\ Phase(KeyOf(q, c)) = "none"
    BY <1>1 DEF StartDenied, Keys, Phase
  <2> QED BY <1>1, <2>1 DEF StartDenied, Result, Ended
<1>2. ASSUME NEW k \in DOMAIN job, NEW t, NEW s, NEW r \in Result,
             job[k].state = "running", Finish(k, t, s, r)
      PROVE  \E j \in Keys, x \in Result :
               Phase(j) \notin Ended /\ audit' = Append(audit, [key |-> j, result |-> x])
  <2>1. k \in Keys /\ Phase(k) = "running"
    BY <1>2 DEF Inv, TypeOK, Phase
  <2> QED BY <1>2, <2>1 DEF Finish, Ended
<1>3. ASSUME NEW k \in Keys, NEW c \in Context, NEW t \in Time,
             Advance(k, c, t) \/ Cancel(k, c, t)
      PROVE  \/ audit' = audit
             \/ \E j \in Keys, x \in Result :
                  Phase(j) \notin Ended /\ audit' = Append(audit, [key |-> j, result |-> x])
  <2>1. k \in DOMAIN job /\ job[k].state = "running"
    BY <1>3 DEF Advance, Cancel, Elapse, Exhaust, Overrun, Observe, Authorized
  <2>2. \/ audit' = audit
        \/ Finish(k, t, "completed", "simulated")
        \/ Finish(k, t, "cancelled", "cancelled")
    BY <1>3 DEF Advance, Cancel, Elapse, Exhaust, Overrun, Observe, Complete
  <2> QED BY <1>2, <2>1, <2>2 DEF Result
<1>4. CASE UNCHANGED vars
  BY <1>4 DEF vars
<1>5. ASSUME NEW q \in Request, NEW c \in Context, NEW t \in Time, Start(q, c, t)
      PROVE  audit' = audit
  BY <1>5 DEF Start
<1>6. ASSUME NEW e, NEW a, NEW n, Republish(e, a, n)
      PROVE  audit' = audit
  BY <1>6 DEF Republish
<1> QED BY <1>1, <1>3, <1>4, <1>5, <1>6 DEF Next

LEMMA OnceKept == Inv /\ AuditOnce /\ [Next]_vars => AuditOnce'
<1> SUFFICES ASSUME Inv, AuditOnce, [Next]_vars PROVE AuditOnce'
  OBVIOUS
<1>1. CASE audit' = audit
  BY <1>1 DEF AuditOnce
<1>2. ASSUME NEW k \in Keys, NEW r \in Result, Phase(k) \notin Ended,
             audit' = Append(audit, [key |-> k, result |-> r])
      PROVE  AuditOnce'
  <2>1. \A i \in DOMAIN audit : audit[i].key # k
    BY <1>2 DEF Inv, AuditEnded
  <2>2. /\ DOMAIN audit' = DOMAIN audit \cup {Len(audit) + 1}
        /\ \A i \in DOMAIN audit : audit'[i] = audit[i]
        /\ audit'[Len(audit) + 1].key = k
    BY <1>2 DEF Inv, TypeOK
  <2> QED BY <2>1, <2>2 DEF AuditOnce
<1> QED BY <1>1, <1>2, Appended

THEOREM VerdictOnce == Spec => []AuditOnce
<1>1. Init => AuditOnce
  BY DEF Init, AuditOnce
<1> QED BY <1>1, Invariance, OnceKept, PTL DEF Spec

\* The verdicts of a command with one event, and with none.
LEMMA OneEvent ==
  ASSUME NEW i \in Nat
  PROVE  Cardinality({i}) = 1 /\ Nth({i}, 1) = i
<1>1. Cardinality({i}) = 1
  BY FS_Singleton
<1>2. {j \in {i} : j < i} = {}
  OBVIOUS
<1>3. Cardinality({j \in {i} : j < i}) = 0
  BY <1>2, FS_EmptySet
<1> QED BY <1>1, <1>3 DEF Nth

LEMMA NoVerdict ==
  ASSUME NEW S, NEW log, S = {}
  PROVE  [n \in 1..Cardinality(S) |-> log[Nth(S, n)].result] = <<>>
BY FS_EmptySet

LEMMA VerdictsAfter ==
  ASSUME NEW k
  PROVE  Verdicts(k)' = [n \in 1..Cardinality(EventsOf(k)') |->
                           audit'[Nth(EventsOf(k)', n)].result]
BY DEF Verdicts, Nth

LEMMA VerdictAfter ==
  ASSUME NEW k, NEW i \in Nat, EventsOf(k)' = {i}
  PROVE  Verdicts(k)' = <<audit'[i].result>>
<1>1. PICK log : log = audit'
  OBVIOUS
<1>2. Verdicts(k)' = [n \in 1..Cardinality({i}) |-> log[Nth({i}, n)].result]
  BY <1>1, VerdictsAfter
<1>3. [n \in 1..Cardinality({i}) |-> log[Nth({i}, n)].result] = <<log[i].result>>
  BY OneEvent
<1> QED BY <1>1, <1>2, <1>3

\* An event changes the verdicts of its own command only.
LEMMA VerdictsKept ==
  ASSUME Inv, AuditOnce, NEW k, NEW r, NEW j, j # k,
         audit' = Append(audit, [key |-> k, result |-> r])
  PROVE  Verdicts(j)' = Verdicts(j)
<1>1. /\ DOMAIN audit' = DOMAIN audit \cup {Len(audit) + 1}
      /\ \A i \in DOMAIN audit : audit'[i] = audit[i] /\ i \in Nat
      /\ audit'[Len(audit) + 1].key = k
  BY DEF Inv, TypeOK
<1>2. EventsOf(j)' = EventsOf(j)
  BY <1>1 DEF EventsOf
<1>3. CASE EventsOf(j) = {}
  BY <1>2, <1>3, NoVerdict DEF Verdicts
<1>4. ASSUME NEW i \in EventsOf(j)
      PROVE  Verdicts(j)' = Verdicts(j)
  <2>1. EventsOf(j) = {i} /\ i \in Nat /\ audit'[i] = audit[i]
    BY <1>1, <1>4 DEF EventsOf, AuditOnce
  <2>2. Verdicts(j) = <<audit[i].result>>
    BY <2>1, OneEvent DEF Verdicts
  <2>3. Verdicts(j)' = <<audit'[i].result>>
    BY <1>2, <2>1, VerdictAfter
  <2> QED BY <2>1, <2>2, <2>3
<1> QED BY <1>3, <1>4

\* The event of a command that had none is its verdict.
LEMMA VerdictsNew ==
  ASSUME Inv, NEW k \in Keys, NEW r \in Result, Phase(k) \notin Ended,
         audit' = Append(audit, [key |-> k, result |-> r])
  PROVE  Verdicts(k)' = Append(Verdicts(k), r)
<1>1. /\ DOMAIN audit' = DOMAIN audit \cup {Len(audit) + 1}
      /\ \A i \in DOMAIN audit : audit'[i] = audit[i]
      /\ audit'[Len(audit) + 1] = [key |-> k, result |-> r] /\ Len(audit) + 1 \in Nat
  BY DEF Inv, TypeOK
<1>2. EventsOf(k) = {}
  BY DEF Inv, AuditEnded, EventsOf
<1>3. Verdicts(k) = <<>>
  BY <1>2, NoVerdict DEF Verdicts
<1>4. EventsOf(k)' = {Len(audit) + 1}
  BY <1>1, <1>2 DEF EventsOf
<1>5. Verdicts(k)' = <<r>>
  BY <1>1, <1>4, VerdictAfter
<1> QED BY <1>3, <1>5

\* What a command's end is to JobLifecycle.
LEMMA Concluded ==
  ASSUME Inv, AuditOnce, NEW k \in Keys, NEW s \in Ended,
         Phase(k) \notin Ended, Phase(k)' = s, \A j : j # k => Phase(j)' = Phase(j),
         audit' = Append(audit, [key |-> k, result |-> Lifecycle!ResultOf[s]])
  PROVE  Lifecycle!Conclude(k, s)
<1> DEFINE r == Lifecycle!ResultOf[s]
<1>1. r \in Result
  BY DEF Result, Ended, Lifecycle!ResultOf
<1> HIDE DEF r
<1>2. audit' = Append(audit, [key |-> k, result |-> r])
  BY DEF r
<1>3. Verdicts(k)' = Append(Verdicts(k), r) /\ \A j : j # k => Verdicts(j)' = Verdicts(j)
  BY <1>1, <1>2, VerdictsKept, VerdictsNew
<1>4. [j \in Keys |-> Phase(j)'] = [[j \in Keys |-> Phase(j)] EXCEPT ![k] = s]
  OBVIOUS
<1>5. [j \in Keys |-> Verdicts(j)']
        = [[j \in Keys |-> Verdicts(j)] EXCEPT ![k] = Append(@, r)]
  BY <1>3
<1> QED BY <1>4, <1>5 DEF Lifecycle!Conclude, r

\* The frames that count as the work of a job.
WorkOf(k) == IF k \in DOMAIN job THEN job[k].frames ELSE 0

LEMMA SameWork ==
  ASSUME \A j \in Keys : WorkOf(j)' = WorkOf(j)
  PROVE  /\ UNCHANGED [j \in Keys |-> IF j \in DOMAIN job THEN job[j].frames ELSE 0]
         /\ \A k \in Keys : Inv => Lifecycle!More(k)
<1>1. UNCHANGED [j \in Keys |-> IF j \in DOMAIN job THEN job[j].frames ELSE 0]
  BY DEF WorkOf
<1>2. ASSUME NEW k \in Keys, Inv
      PROVE  Lifecycle!More(k)
  <2>1. WorkOf(k) \in Nat
    BY <1>2 DEF Inv, TypeOK, Job, WorkOf
  <2> QED BY <1>1, <2>1 DEF Lifecycle!More, WorkOf
<1> QED BY <1>1, <1>2

LEMMA StartDeniedStep ==
  ASSUME Inv, AuditOnce, NEW q \in Request, NEW c \in Context, NEW t \in Time,
         StartDenied(q, c, t)
  PROVE  Lifecycle!Refuse(KeyOf(q, c))
<1> DEFINE k == KeyOf(q, c)
<1>1. /\ k \in Keys /\ k \notin DOMAIN commands
      /\ audit' = Append(audit, [key |-> k, result |-> "denied"])
      /\ commands' = Extend(commands, k, [request |-> q, started |-> FALSE])
      /\ job' = job
  BY DEF StartDenied, Keys
<1> HIDE DEF k
<1>2. Phase(k) = "none" /\ Phase(k)' = "denied" /\ \A j : j # k => Phase(j)' = Phase(j)
  BY <1>1 DEF Phase, Extend
<1>3. Lifecycle!Conclude(k, "denied")
  BY <1>1, <1>2, Concluded DEF Ended, Lifecycle!ResultOf
<1>4. UNCHANGED [j \in Keys |-> IF j \in DOMAIN job THEN job[j].frames ELSE 0]
  BY <1>1
<1> QED BY <1>1, <1>2, <1>3, <1>4 DEF Lifecycle!Refuse, k

LEMMA StartStep ==
  ASSUME Inv, NEW q \in Request, NEW c \in Context, NEW t \in Time, Start(q, c, t)
  PROVE  Lifecycle!Begin(KeyOf(q, c))
<1> DEFINE k == KeyOf(q, c)
           j0 == [state |-> "running", since |-> t, deadline |-> t + q.duration,
                  org |-> c.org, actor |-> c.actor, device |-> c.device,
                  camera |-> q.camera, frames |-> 0, hasEvent |-> FALSE]
<1>1. /\ k \in Keys /\ k \notin DOMAIN commands
      /\ commands' = Extend(commands, k, [request |-> q, started |-> TRUE])
      /\ job' = Extend(job, k, j0) /\ audit' = audit
  BY DEF Start, Keys
<1>2. j0.state = "running" /\ j0.frames = 0
  OBVIOUS
<1>3. k \notin DOMAIN job /\ DOMAIN job \subseteq DOMAIN commands
  BY <1>1 DEF Inv, TypeOK
<1> HIDE DEF k, j0
<1>4. /\ DOMAIN job' = DOMAIN job \cup {k} /\ job'[k] = j0
      /\ \A j \in DOMAIN job : job'[j] = job[j]
  BY <1>1, <1>3 DEF Extend
<1>5. /\ DOMAIN commands' = DOMAIN commands \cup {k} /\ commands'[k].started
      /\ \A j \in DOMAIN commands : commands'[j] = commands[j]
  BY <1>1 DEF Extend
<1>6. Phase(k) = "none" /\ Phase(k)' = "running"
  BY <1>1, <1>2, <1>4, <1>5 DEF Phase
<1>7. \A j : j # k => Phase(j)' = Phase(j)
  <2> TAKE j
  <2>1. j \in DOMAIN commands /\ commands[j].started => j \in DOMAIN job
    BY DEF Inv, TypeOK
  <2> QED BY <2>1, <1>4, <1>5 DEF Phase
<1>8. [j \in Keys |-> Phase(j)'] = [[j \in Keys |-> Phase(j)] EXCEPT ![k] = "running"]
  BY <1>6, <1>7
<1>9. UNCHANGED [j \in Keys |-> IF j \in DOMAIN job THEN job[j].frames ELSE 0]
  BY <1>2, <1>3, <1>4
<1>10. UNCHANGED [j \in Keys |-> Verdicts(j)]
  BY <1>1 DEF Verdicts, EventsOf, Nth
<1> QED BY <1>1, <1>6, <1>8, <1>9, <1>10 DEF Lifecycle!Begin, k

LEMMA FinishStep ==
  ASSUME Inv, AuditOnce, NEW k \in DOMAIN job, NEW t \in Time,
         NEW s \in {"completed", "cancelled"}, job[k].state = "running",
         Finish(k, t, s, Lifecycle!ResultOf[s]), UNCHANGED commands
  PROVE  Lifecycle!Finish(k)
<1>1. t \in Nat /\ k \in Keys /\ Lifecycle!ResultOf[s] \in Result
  BY Limits DEF Time, Inv, TypeOK, Result, Lifecycle!ResultOf
<1>2. /\ Phase(k) = "running" /\ Phase(k)' = s /\ \A j : j # k => Phase(j)' = Phase(j)
      /\ job' \in [DOMAIN job -> Job] /\ job'[k].frames = job[k].frames
      /\ \A j \in DOMAIN job : j # k => job'[j] = job[j]
  BY <1>1, FinishEffect
<1>3. Lifecycle!Conclude(k, s)
  BY <1>1, <1>2, Concluded DEF Finish, Ended
<1>4. \A j \in Keys : WorkOf(j)' = WorkOf(j)
  BY <1>2 DEF WorkOf
<1>5. Lifecycle!More(k)
  BY <1>1, <1>4, SameWork
<1> QED BY <1>1, <1>2, <1>3, <1>5 DEF Lifecycle!Finish, Lifecycle!Outcome, Lifecycle!ResultOf

LEMMA ObserveStep ==
  ASSUME Inv, NEW k, NEW c, NEW t, NEW n, Observe(k, c, t, n)
  PROVE  k \in Keys /\ Lifecycle!Work(k)
<1>1. /\ k \in DOMAIN job /\ job[k].state = "running"
      /\ \/ job' = [job EXCEPT ![k].frames = @ + 1, ![k].hasEvent = TRUE]
         \/ job' = [job EXCEPT ![k].frames = @ + 1]
      /\ UNCHANGED <<commands, audit>>
  BY DEF Observe, Authorized
<1>2. k \in Keys /\ job \in [DOMAIN job -> Job] /\ Phase(k) = "running"
  BY <1>1 DEF Inv, TypeOK, Phase
<1>3. /\ DOMAIN job' = DOMAIN job /\ job'[k].frames = job[k].frames + 1
      /\ \A j \in DOMAIN job : job'[j].state = job[j].state
      /\ \A j \in DOMAIN job : j # k => job'[j] = job[j]
      /\ job[k].frames \in Nat
  BY <1>1, <1>2 DEF Job
<1>4. \A j \in Keys : Phase(j)' = Phase(j)
  BY <1>1, <1>3 DEF Phase, Inv, TypeOK
<1>5. UNCHANGED [j \in Keys |-> Phase(j)] /\ UNCHANGED [j \in Keys |-> Verdicts(j)]
  BY <1>1, <1>4 DEF Verdicts, EventsOf, Nth
<1>6. Lifecycle!More(k)
  <2>1. WorkOf(k)' >= WorkOf(k)
    BY <1>1, <1>3 DEF WorkOf
  <2>2. \A j : j # k => WorkOf(j)' = WorkOf(j)
    BY <1>3 DEF WorkOf
  <2>3. [j \in Keys |-> WorkOf(j)'] = [[j \in Keys |-> WorkOf(j)] EXCEPT ![k] = WorkOf(k)']
    BY <2>2
  <2> QED BY <1>2, <2>1, <2>3 DEF Lifecycle!More, WorkOf
<1> QED BY <1>2, <1>5, <1>6 DEF Lifecycle!Work

\* What leaves commands, jobs and the log leaves the lifecycle.
LEMMA Stutter ==
  ASSUME UNCHANGED <<commands, job, audit>>
  PROVE  UNCHANGED Lifecycle!vars
<1>1. \A j : Phase(j)' = Phase(j) /\ Verdicts(j)' = Verdicts(j)
  BY DEF Phase, Verdicts, EventsOf, Nth
<1> QED BY <1>1 DEF Lifecycle!vars

LEMMA StepRefines == Inv /\ AuditOnce /\ [Next]_vars => [Lifecycle!Next]_Lifecycle!vars
<1> SUFFICES ASSUME Inv, AuditOnce, [Next]_vars
             PROVE  [Lifecycle!Next]_Lifecycle!vars
  OBVIOUS
<1>1. ASSUME NEW q \in Request, NEW c \in Context, NEW t \in Time,
             StartDenied(q, c, t) \/ Start(q, c, t)
      PROVE  Lifecycle!Next
  <2>1. KeyOf(q, c) \in Keys
    BY DEF Keys
  <2> QED BY <1>1, <2>1, StartDeniedStep, StartStep DEF Lifecycle!Next
<1>2. ASSUME NEW k \in Keys, NEW c \in Context, NEW t \in Time,
             Advance(k, c, t) \/ Cancel(k, c, t)
      PROVE  [Lifecycle!Next]_Lifecycle!vars
  <2>1. ASSUME NEW n \in 0..3, Observe(k, c, t, n)
        PROVE  Lifecycle!Next
    BY <2>1, ObserveStep DEF Lifecycle!Next
  <2>2. CASE Elapse(k, c, t) \/ Exhaust(k, c, t) \/ Overrun(k, c, t) \/ Cancel(k, c, t)
    <3>1. k \in DOMAIN job /\ job[k].state = "running" /\ UNCHANGED commands
      BY <2>2 DEF Elapse, Exhaust, Overrun, Cancel, Authorized
    <3>2. \/ Finish(k, t, "completed", "simulated")
          \/ Finish(k, t, "cancelled", "cancelled")
          \/ UNCHANGED <<job, audit>>
      BY <2>2 DEF Elapse, Exhaust, Overrun, Cancel, Complete
    <3>3. \/ Lifecycle!Finish(k) \/ UNCHANGED <<job, audit>>
      BY <3>1, <3>2, FinishStep DEF Lifecycle!ResultOf
    <3> QED BY <3>1, <3>3, Stutter DEF Lifecycle!Next
  <2> QED BY <1>2, <2>1, <2>2 DEF Advance
<1>3. ASSUME NEW e \in known, NEW a \in Actors, NEW n \in 0..3, Republish(e, a, n)
      PROVE  UNCHANGED Lifecycle!vars
  BY <1>3, Stutter DEF Republish
<1>4. CASE UNCHANGED vars
  BY <1>4, Stutter DEF vars
<1> QED BY <1>1, <1>2, <1>3, <1>4 DEF Next

\* Monitoring implements the lifecycle an operator relies on: a command is
\* refused or starts one job, frames count only while it runs, it ends once,
\* and its verdict enters the audit log with the step that decides it.
THEOREM Refinement == Spec => Implements
<1>1. Init => Lifecycle!Init
  <2> SUFFICES ASSUME Init PROVE Lifecycle!Init
    OBVIOUS
  <2>1. \A k : Phase(k) = "none" /\ EventsOf(k) = {} /\ k \notin DOMAIN job
    BY DEF Init, Phase, EventsOf
  <2>2. \A k : Verdicts(k) = <<>>
    BY <2>1, NoVerdict DEF Verdicts
  <2> QED BY <2>1, <2>2 DEF Lifecycle!Init
<1> QED BY <1>1, StepRefines, Invariance, VerdictOnce, PTL DEF Spec, Implements, Lifecycle!Spec

LifecycleProofs == INSTANCE JobLifecycleProofs
  WITH Key     <- Keys,
       phase   <- [k \in Keys |-> Phase(k)],
       work    <- [k \in Keys |-> IF k \in DOMAIN job THEN job[k].frames ELSE 0],
       verdict <- [k \in Keys |-> Verdicts(k)]

\* So a monitoring command has a verdict in the log exactly when it has ended,
\* one, and the right one.
THEOREM OneVerdictEach == Spec => []Lifecycle!VerdictsMatch
<1>1. Lifecycle!Init <=> LifecycleProofs!Init
  BY DEF Lifecycle!Init, LifecycleProofs!Init
<1>2. Lifecycle!Next <=> LifecycleProofs!Next
  BY Zenon DEF Lifecycle!Next, LifecycleProofs!Next, Lifecycle!Refuse, LifecycleProofs!Refuse,
     Lifecycle!Begin, LifecycleProofs!Begin, Lifecycle!Work, LifecycleProofs!Work,
     Lifecycle!Finish, LifecycleProofs!Finish, Lifecycle!Conclude, LifecycleProofs!Conclude,
     Lifecycle!More, LifecycleProofs!More, Lifecycle!ResultOf, LifecycleProofs!ResultOf,
     Lifecycle!Outcome, LifecycleProofs!Outcome
<1>3. UNCHANGED Lifecycle!vars <=> UNCHANGED LifecycleProofs!vars
  BY DEF Lifecycle!vars, LifecycleProofs!vars
<1>4. Lifecycle!VerdictsMatch <=> LifecycleProofs!VerdictsMatch
  BY DEF Lifecycle!VerdictsMatch, LifecycleProofs!VerdictsMatch,
     Lifecycle!ResultOf, LifecycleProofs!ResultOf, Lifecycle!Outcome, LifecycleProofs!Outcome
<1>5. LifecycleProofs!Spec => []LifecycleProofs!VerdictsMatch
  BY LifecycleProofs!OneVerdict
<1> QED BY <1>1, <1>2, <1>3, <1>4, <1>5, Refinement, PTL
        DEF Implements, Lifecycle!Spec, LifecycleProofs!Spec
=============================================================================
