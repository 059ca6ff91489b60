---------------------------- MODULE PassiveDiscovery ----------------------------
(***************************************************************************)
(* Passive discovery jobs (services/orchestrator/.../discovery.py).  An    *)
(* operator with an operation scope starts a job on one network interface; *)
(* advancing it takes one candidate from the source of observations and    *)
(* adds it to the job, until the source has no more, the deadline passes,  *)
(* the operator cancels or a candidate of another organization appears.    *)
(*                                                                         *)
(* The source is any PassiveDiscoverySource that hands out a finite list.  *)
(* The in-memory one never holds a foreign or repeated candidate and never *)
(* more than were asked for; the service relies on none of this.           *)
(*                                                                         *)
(* Each call brings its own time and its own context, in which a scope may *)
(* have been renewed or shortened under the same id.                       *)
(***************************************************************************)
EXTENDS Integers, Sequences, FiniteSets, FiniteSetsExt

CONSTANTS
  Context,      (* authenticated contexts: org, actor, device, and the id   *)
                (* and valid_until of their scope: scope, until             *)
  Request,      (* valid payloads: id, org, actor, device, network,         *)
                (* duration, maximum, sentAt                                *)
  Permitted,    (* <<context, network>> pairs that the policy allows while  *)
                (* the scope is valid                                       *)
  Source,       (* network -> the candidates: id, org                       *)
  Past, Future, (* freshness window of a command                            *)
  MaxTime       (* bound of evaluated_at in a finite run                    *)

ASSUME LimitAssumption ==
  /\ Past \in Nat /\ Future \in Nat /\ MaxTime \in Nat
  /\ \A c \in Context : c.until \in Nat

ASSUME RequestAssumption ==
  \A q \in Request :
    q.duration \in Nat \ {0} /\ q.maximum \in Nat \ {0} /\ q.sentAt \in Nat

ASSUME SourceAssumption ==
  \A n \in DOMAIN Source : Source[n] \in Seq({Source[n][i] : i \in DOMAIN Source[n]})

VARIABLES
  commands,     (* replay key -> [request, started], the remembered calls   *)
  job,          (* replay key -> the DiscoveryJob                           *)
  worker,       (* replay key -> [taken, cancelled], what the source keeps  *)
  audit,        (* appended audit events, in order                          *)
  granted,      (* history: key -> valid_until of the scope it started with *)
  observed      (* history: <<replay key, candidate id, time>> recorded by  *)
                (* the last call that recorded any                          *)

history == <<granted, observed>>
vars    == <<commands, job, worker, audit, history>>

-----------------------------------------------------------------------------
Time       == 0..MaxTime
KeyOf(q, c) == <<c.org, c.actor, q.id>>
Keys       == {KeyOf(q, c) : q \in Request, c \in Context}

Extend(f, k, v) == [x \in DOMAIN f \cup {k} |-> IF x = k THEN v ELSE f[x]]

\* Mutant: the scope must only be valid at the start.
AdmissibleShort(q, c, t) ==
  /\ t - Past <= q.sentAt /\ q.sentAt <= t + Future
  /\ q.actor = c.actor /\ q.org = c.org /\ q.device = c.device
  /\ <<c, q.network>> \in Permitted /\ t < c.until
  /\ q.network \in DOMAIN Source

\* The checks of start, in any order: their reasons differ, their effect not.
\* The last one is the answer of source.start.
Admissible(q, c, t) ==
  /\ t - Past <= q.sentAt /\ q.sentAt <= t + Future
  /\ q.actor = c.actor /\ q.org = c.org /\ q.device = c.device
  /\ <<c, q.network>> \in Permitted /\ t < c.until
  /\ t + q.duration <= c.until
  /\ q.network \in DOMAIN Source

\* _authorized_job
Authorized(k, c) ==
  /\ k \in DOMAIN job
  /\ job[k].org = c.org /\ job[k].actor = c.actor
  /\ job[k].device = c.device /\ job[k].scope = c.scope

\* What next_candidate has not handed out yet.
Remaining(k) ==
  IF worker[k].cancelled THEN <<>>
  ELSE SubSeq(Source[job[k].network], worker[k].taken + 1, Len(Source[job[k].network]))

Init ==
  /\ commands = <<>> /\ job = <<>> /\ worker = <<>>
  /\ audit = <<>> /\ granted = <<>> /\ observed = {}

StartDenied(q, c, t) ==
  LET k == KeyOf(q, c) IN
  /\ k \notin DOMAIN commands
  /\ ~ Admissible(q, c, t)
  /\ audit' = Append(audit, [key |-> k, result |-> "denied"])
  /\ commands' = Extend(commands, k, [request |-> q, started |-> FALSE])
  /\ UNCHANGED <<job, worker, history>>

\* start, when the job runs: the transitions to RUNNING all carry the time t.
Start(q, c, t) ==
  LET k == KeyOf(q, c) IN
  /\ k \notin DOMAIN commands
  /\ Admissible(q, c, t)
  /\ worker' = Extend(worker, k, [taken |-> 0, cancelled |-> FALSE])
  /\ job' = Extend(job, k,
              [state |-> "running", since |-> t, deadline |-> t + q.duration,
               org |-> c.org, actor |-> c.actor, device |-> c.device,
               scope |-> c.scope, network |-> q.network,
               maximum |-> q.maximum, candidates |-> {}])
  /\ commands' = Extend(commands, k, [request |-> q, started |-> TRUE])
  /\ granted' = Extend(granted, k, c.until)
  /\ UNCHANGED <<audit, observed>>

-----------------------------------------------------------------------------
ResultOf == [completed |-> "simulated", failed |-> "failed", cancelled |-> "cancelled"]

\* Mutant: the audit event comes before the transition that may raise.
EndAuditFirst(k, j, t, state) ==
  /\ job' = [job EXCEPT ![k] = IF t >= j.since THEN [j EXCEPT !.state = state, !.since = t] ELSE j]
  /\ audit' = Append(audit, [key |-> k, result |-> ResultOf[state]])

\* job.transition to a terminal state with its audit event.  A time before the
\* last transition makes it raise, and nothing more of the call happens.
End(k, j, t, state) ==
  IF t >= j.since
  THEN /\ job' = [job EXCEPT ![k] = [j EXCEPT !.state = state, !.since = t]]
       /\ audit' = Append(audit, [key |-> k, result |-> ResultOf[state]])
  ELSE /\ job' = [job EXCEPT ![k] = j]
       /\ UNCHANGED audit

\* add_candidate for the candidates s in order: what the job has before the
\* i-th of them, and after the last.  Repeated ones change nothing, and from
\* the maximum on nothing is added.
Offered(j, s, i) == j.candidates \cup {s[x].id : x \in 1..(i - 1)}
Added(j, s) ==
  j.candidates \cup
    {s[i].id : i \in {x \in DOMAIN s : Cardinality(Offered(j, s, x)) < j.maximum}}

\* One call takes the candidates `taken' and adds those of the job's own
\* organization that come before the first foreign one, which fails the job.
\* Otherwise the job goes on or ends, at the time `at'.
Take(k, t, taken, ending, at) ==
  LET j       == job[k]
      foreign == {i \in DOMAIN taken : taken[i].org # j.org}
      own     == IF foreign = {} THEN taken ELSE SubSeq(taken, 1, Min(foreign) - 1)
      used    == IF foreign = {} THEN Len(taken) ELSE Min(foreign)
      after   == [j EXCEPT !.candidates = Added(j, own)]
  IN
  /\ worker' = [worker EXCEPT ![k].taken = @ + used]
  /\ observed' = IF after.candidates = j.candidates THEN observed
                  ELSE {<<k, id, t>> : id \in after.candidates \ j.candidates}
  /\ IF foreign # {} THEN End(k, after, t, "failed")
     ELSE IF ending # "running" THEN End(k, after, at, ending)
     ELSE job' = [job EXCEPT ![k] = after] /\ UNCHANGED audit
  /\ UNCHANGED <<commands, granted>>

Running(k, c) == Authorized(k, c) /\ job[k].state = "running"

\* Past the deadline nothing is taken, and without a candidate nothing can be.
Complete(k, t) ==
  /\ End(k, job[k], t, "completed")
  /\ UNCHANGED <<commands, worker, history>>

\* Mutant: a job without candidates waits for its deadline.
AdvanceWaits(k, c, t) ==
  /\ Running(k, c)
  /\ \/ t >= job[k].deadline /\ Complete(k, t)
     \/ /\ t < job[k].deadline /\ Remaining(k) # <<>>
        /\ Take(k, t, <<Head(Remaining(k))>>, "running", t)

\* advance
Advance(k, c, t) ==
  /\ Running(k, c)
  /\ \/ (t >= job[k].deadline \/ Remaining(k) = <<>>) /\ Complete(k, t)
     \/ /\ t < job[k].deadline /\ Remaining(k) # <<>>
        /\ Take(k, t, <<Head(Remaining(k))>>, "running", t)

\* run_to_completion before the deadline: one advance more than the job may
\* have candidates, and then the job fails, a second later.  The milliseconds
\* between its advances are left out.
RunToCompletion(k, c, t) ==
  LET rest == Remaining(k)  enough == job[k].maximum + 1 IN
  /\ Running(k, c)
  /\ t < job[k].deadline
  /\ IF Len(rest) < enough
     THEN Take(k, t, rest, "completed", t)
     ELSE Take(k, t, SubSeq(rest, 1, enough), "failed", t + 1)

\* cancel: the source is cancelled even if the transition then raises.
Cancel(k, c, t) ==
  /\ Running(k, c)
  /\ worker' = [worker EXCEPT ![k].cancelled = TRUE]
  /\ End(k, job[k], t, "cancelled")
  /\ UNCHANGED <<commands, history>>

Next ==
  \/ \E q \in Request, c \in Context, t \in Time :
       StartDenied(q, c, t) \/ Start(q, c, t)
  \/ \E k \in Keys, c \in Context, t \in Time :
       Advance(k, c, t) \/ RunToCompletion(k, c, t) \/ Cancel(k, c, t)

Spec == Init /\ [][Next]_vars

\* The owner of a job keeps advancing it, at a time the job accepts.
FairSpec ==
  /\ Spec
  /\ \A k \in Keys : WF_vars(\E c \in Context, t \in Time : Advance(k, c, t))
-----------------------------------------------------------------------------
(* Properties.                                                             *)

Job == [state : {"running"} \cup DOMAIN ResultOf, since : Nat, deadline : Nat,
        org : {c.org : c \in Context}, actor : {c.actor : c \in Context},
        device : {c.device : c \in Context}, scope : {c.scope : c \in Context},
        network : DOMAIN Source, maximum : Nat,
        candidates : SUBSET UNION {{Source[n][i].id : i \in DOMAIN Source[n]} : n \in DOMAIN Source}]

\* Every variable has its type; every remembered start has a job, a worker and
\* the end of the scope it was granted under.
TypeOK ==
  /\ commands \in [DOMAIN commands -> [request : Request, started : BOOLEAN]]
  /\ DOMAIN commands \subseteq Keys
  /\ job \in [DOMAIN job -> Job]
  /\ DOMAIN job = {k \in DOMAIN commands : commands[k].started}
  /\ worker \in [DOMAIN job -> [taken : Nat, cancelled : BOOLEAN]]
  /\ granted \in [DOMAIN job -> Nat]
  /\ audit \in Seq([key : Keys, result : {"denied"} \cup {ResultOf[s] : s \in DOMAIN ResultOf}])
  /\ \A o \in observed : o[1] \in DOMAIN job

\* docs/decisions/ADR-0007-passive-discovery-simulation.md:29: "The scope must
\* remain valid through the requested job duration."  Nothing is observed at a
\* time at which the scope that admitted the job has ended, whatever scope the
\* later calls bring.
WithinScope == \A o \in observed : o[3] < granted[o[1]]

\* What the operator sees of a command, and its audited results, in order.
Phase(k) ==
  IF k \notin DOMAIN commands THEN "none"
  ELSE IF k \in DOMAIN job THEN job[k].state ELSE "denied"
EventsOf(k) == {i \in DOMAIN audit : audit[i].key = k}
Nth(S, n)   == CHOOSE i \in S : Cardinality({j \in S : j < i}) = n - 1
Verdicts(k) == [n \in 1..Cardinality(EventsOf(k)) |-> audit[Nth(EventsOf(k), n)].result]

\* The service implements JobLifecycle: one verdict for each command, given
\* with the step that ends it, and no candidate taken outside a running job.
Lifecycle == INSTANCE JobLifecycle WITH
  Key     <- Keys,
  phase   <- [k \in Keys |-> Phase(k)],
  work    <- [k \in Keys |-> IF k \in DOMAIN job THEN worker[k].taken ELSE 0],
  verdict <- [k \in Keys |-> Verdicts(k)]
Implements == Lifecycle!Spec

\* A job whose owner keeps advancing it ends, even if no call ever carries a
\* time past its deadline.
JobsEnd ==
  \A k \in Keys : (k \in DOMAIN job) ~> (k \in DOMAIN job /\ job[k].state # "running")
=============================================================================
