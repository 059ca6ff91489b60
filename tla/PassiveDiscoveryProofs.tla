------------------------ MODULE PassiveDiscoveryProofs ------------------------
(***************************************************************************)
(* Machine-checked proofs about PassiveDiscovery, for any commands,        *)
(* contexts, policies and sources of candidates.                           *)
(*                                                                         *)
(* A job's deadline lies within the scope that admitted it (DeadlineInv),  *)
(* and nothing is taken from the deadline on: so nothing is observed       *)
(* outside the scope, whatever scope a later call brings.  Of each command *)
(* the audit log holds what its phase says (AuditInv), which is what makes *)
(* every step of the service a step or a stutter of JobLifecycle.          *)
(***************************************************************************)
EXTENDS PassiveDiscovery, FiniteSetTheorems, WellFoundedInduction, TLAPS

Candidates(n) == {Source[n][i] : i \in DOMAIN Source[n]}
Ids == UNION {{Source[n][i].id : i \in DOMAIN Source[n]} : n \in DOMAIN Source}

DeadlineInv == \A k \in DOMAIN job : job[k].deadline <= granted[k]

Ended   == {"denied", "completed", "failed", "cancelled"}
Results == {"denied", "simulated", "failed", "cancelled"}

\* The events of a command: one, of its result, once it has ended.
AuditOf(k) ==
  IF Phase(k) \in Ended
  THEN \E i \in DOMAIN audit :
         EventsOf(k) = {i} /\ audit[i].result = Lifecycle!ResultOf[Phase(k)]
  ELSE EventsOf(k) = {}
AuditInv == \A k \in Keys : AuditOf(k)

Inv == TypeOK /\ DeadlineInv /\ WithinScope /\ AuditInv
-----------------------------------------------------------------------------
(* Lists.                                                                  *)

LEMMA PartType ==
  ASSUME NEW S, NEW s \in Seq(S), NEW m \in Nat \ {0}, NEW n \in 0..Len(s)
  PROVE  SubSeq(s, m, n) \in Seq(S)
OBVIOUS

LEMMA HeadType ==
  ASSUME NEW S, NEW s \in Seq(S), s # <<>>
  PROVE  <<Head(s)>> \in Seq(S)
OBVIOUS

Below == {p \in Nat \X Nat : p[1] < p[2]}

LEMMA MinMember ==
  ASSUME NEW T \in SUBSET Nat, T # {}
  PROVE  Min(T) \in T
<1>1. IsWellFoundedOn(Below, Nat)
  BY NatLessThanWellFounded, Zenon DEF OpToRel, Below
<1>2. PICK x \in T : \A y \in T : ~ (<<y, x>> \in Below)
  BY <1>1, WFMin
<1>3. \A a, b \in Nat : a < b => <<a, b>> \in Below
  BY DEF Below
<1>4. \A y \in T : ~ (y < x)
  BY <1>2, <1>3
<1>5. \A a, b \in Nat : ~ (a < b) => b <= a
  OBVIOUS
<1>6. \E m \in T : \A y \in T : m <= y
  BY <1>2, <1>4, <1>5
<1> QED BY <1>6, Zenon DEF Min

\* What may be taken is a list of candidates of the job's network.
LEMMA RemainingType ==
  ASSUME TypeOK, NEW k \in DOMAIN job
  PROVE  Remaining(k) \in Seq(Candidates(job[k].network))
<1> DEFINE S == Candidates(job[k].network)
           s == Source[job[k].network]
<1>1. job[k] \in Job /\ worker[k].taken \in Nat
  BY DEF TypeOK
<1>2. job[k].network \in DOMAIN Source
  BY <1>1 DEF Job
<1>3. s \in Seq(S)
  BY <1>2, SourceAssumption DEF Candidates
<1> HIDE DEF S, s
<1>4. worker[k].taken + 1 \in Nat \ {0} /\ Len(s) \in 0..Len(s)
  BY <1>1, <1>3
<1>5. SubSeq(s, worker[k].taken + 1, Len(s)) \in Seq(S) /\ <<>> \in Seq(S)
  BY <1>3, <1>4, PartType
<1> QED BY <1>5 DEF Remaining, s, S
-----------------------------------------------------------------------------
(* The audit log.                                                          *)

LEMMA Recorded ==
  ASSUME Inv, NEW k \in Keys, NEW s \in Ended, Phase(k) \notin Ended, Phase(k)' = s,
         \A j \in Keys : j # k => Phase(j)' = Phase(j),
         audit' = Append(audit, [key |-> k, result |-> Lifecycle!ResultOf[s]])
  PROVE  AuditInv'
<1>1. /\ DOMAIN audit' = DOMAIN audit \cup {Len(audit) + 1} /\ Len(audit) + 1 \notin DOMAIN audit
      /\ \A i \in DOMAIN audit : audit'[i] = audit[i]
      /\ audit'[Len(audit) + 1] = [key |-> k, result |-> Lifecycle!ResultOf[s]]
  BY DEF Inv, TypeOK
<1>2. ASSUME NEW j \in Keys, j # k PROVE AuditOf(j)'
  <2>1. EventsOf(j)' = EventsOf(j) /\ Phase(j)' = Phase(j)
    BY <1>1, <1>2 DEF EventsOf
  <2>2. AuditOf(j)
    BY DEF Inv, AuditInv
  <2> QED BY <1>1, <2>1, <2>2 DEF AuditOf
<1>3. AuditOf(k)'
  <2>1. EventsOf(k) = {}
    BY DEF Inv, AuditInv, AuditOf
  <2>2. EventsOf(k)' = {Len(audit) + 1}
    BY <1>1, <2>1 DEF EventsOf
  <2> QED BY <1>1, <2>2 DEF AuditOf
<1> QED BY <1>2, <1>3 DEF AuditInv

LEMMA Unrecorded ==
  ASSUME Inv, audit' = audit,
         \A j \in Keys : Phase(j)' = Phase(j) \/ (Phase(j) \notin Ended /\ Phase(j)' \notin Ended)
  PROVE  AuditInv'
<1> SUFFICES ASSUME NEW j \in Keys PROVE AuditOf(j)'
  BY DEF AuditInv
<1>1. EventsOf(j)' = EventsOf(j) /\ AuditOf(j)
  BY DEF EventsOf, Inv, AuditInv
<1> QED BY <1>1 DEF AuditOf
-----------------------------------------------------------------------------
(* The start of a job.                                                     *)

LEMMA InitInv == Init => Inv
<1> SUFFICES ASSUME Init PROVE Inv
  OBVIOUS
<1>1. DOMAIN commands = {} /\ DOMAIN job = {} /\ DOMAIN audit = {}
  BY DEF Init
<1>2. TypeOK
  BY <1>1 DEF Init, TypeOK
<1>3. AuditInv
  BY <1>1 DEF AuditInv, AuditOf, Phase, EventsOf, Ended
<1> QED BY <1>1, <1>2, <1>3 DEF Init, Inv, DeadlineInv, WithinScope

LEMMA Limits == \A t \in Time : t \in Nat
BY LimitAssumption DEF Time

\* An event that a call appends has a key and a result.
LEMMA AppendType ==
  ASSUME TypeOK, NEW k \in Keys, NEW r \in Results,
         audit' = Append(audit, [key |-> k, result |-> r])
  PROVE  audit' \in Seq([key : Keys, result : {"denied"} \cup {ResultOf[s] : s \in DOMAIN ResultOf}])
<1>1. Results = {"denied"} \cup {ResultOf[s] : s \in DOMAIN ResultOf}
  BY DEF Results, ResultOf
<1> QED BY <1>1 DEF TypeOK

LEMMA StartDeniedInv ==
  ASSUME Inv, NEW q \in Request, NEW c \in Context, NEW t \in Time, StartDenied(q, c, t)
  PROVE  /\ Inv' /\ KeyOf(q, c) \in Keys
         /\ Phase(KeyOf(q, c)) = "none" /\ Phase(KeyOf(q, c))' = "denied"
         /\ \A j : j # KeyOf(q, c) => Phase(j)' = Phase(j)
<1> PICK k : k = KeyOf(q, c)
  OBVIOUS
<1>1. /\ k \in Keys /\ k \notin DOMAIN commands
      /\ audit' = Append(audit, [key |-> k, result |-> "denied"])
      /\ commands' = Extend(commands, k, [request |-> q, started |-> FALSE])
      /\ job' = job /\ worker' = worker /\ granted' = granted /\ observed' = observed
  BY DEF StartDenied, Keys, history
<1>2. k \notin DOMAIN job
  BY <1>1 DEF Inv, TypeOK
<1>3. Phase(k) = "none" /\ Phase(k)' = "denied" /\ \A j : j # k => Phase(j)' = Phase(j)
  BY <1>1, <1>2 DEF Phase, Extend
<1>4. AuditInv'
  BY <1>1, <1>3, Recorded DEF Ended, Lifecycle!ResultOf
<1>5. TypeOK'
  <2>1. commands' \in [DOMAIN commands' -> [request : Request, started : BOOLEAN]]
    BY <1>1 DEF Inv, TypeOK, Extend
  <2>2. DOMAIN job' = {j \in DOMAIN commands' : commands'[j].started} /\ DOMAIN commands' \subseteq Keys
    BY <1>1, <1>2 DEF Inv, TypeOK, Extend
  <2>3. audit' \in Seq([key : Keys, result : {"denied"} \cup {ResultOf[s] : s \in DOMAIN ResultOf}])
    BY <1>1, AppendType DEF Inv, Results
  <2> QED BY <1>1, <2>1, <2>2, <2>3 DEF Inv, TypeOK
<1>6. DeadlineInv' /\ WithinScope'
  BY <1>1 DEF Inv, DeadlineInv, WithinScope
<1> QED BY <1>1, <1>3, <1>4, <1>5, <1>6 DEF Inv

LEMMA StartInv ==
  ASSUME Inv, NEW q \in Request, NEW c \in Context, NEW t \in Time, Start(q, c, t)
  PROVE  /\ Inv' /\ KeyOf(q, c) \in Keys
         /\ Phase(KeyOf(q, c)) = "none" /\ Phase(KeyOf(q, c))' = "running"
         /\ \A j : j # KeyOf(q, c) => Phase(j)' = Phase(j)
<1> PICK k : k = KeyOf(q, c)
  OBVIOUS
<1> PICK j0 : j0 = [state |-> "running", since |-> t, deadline |-> t + q.duration,
                    org |-> c.org, actor |-> c.actor, device |-> c.device,
                    scope |-> c.scope, network |-> q.network,
                    maximum |-> q.maximum, candidates |-> {}]
  OBVIOUS
<1>1. /\ k \in Keys /\ k \notin DOMAIN commands
      /\ commands' = Extend(commands, k, [request |-> q, started |-> TRUE])
      /\ job' = Extend(job, k, j0)
      /\ worker' = Extend(worker, k, [taken |-> 0, cancelled |-> FALSE])
      /\ granted' = Extend(granted, k, c.until)
      /\ audit' = audit /\ observed' = observed
      /\ q.network \in DOMAIN Source /\ t + q.duration <= c.until
  BY DEF Start, Keys, Admissible
<1>2. /\ j0.state = "running" /\ j0.deadline <= c.until /\ c.until \in Nat
      /\ j0 \in Job
  <2>1. t \in Nat /\ q.duration \in Nat /\ q.maximum \in Nat /\ c.until \in Nat
    BY Limits, LimitAssumption, RequestAssumption
  <2>2. t + q.duration \in Nat
    BY <2>1
  <2> QED BY <1>1, <2>1, <2>2 DEF Job
<1>3. k \notin DOMAIN job
  BY <1>1 DEF Inv, TypeOK
<1>4. /\ DOMAIN job' = DOMAIN job \cup {k} /\ job'[k] = j0
      /\ \A j \in DOMAIN job : job'[j] = job[j]
      /\ job' \in [DOMAIN job' -> Job]
  <2>1. job \in [DOMAIN job -> Job]
    BY DEF Inv, TypeOK
  <2> HIDE DEF Job
  <2> QED BY <1>1, <1>2, <1>3, <2>1 DEF Extend
<1>5. /\ DOMAIN granted' = DOMAIN job' /\ granted'[k] = c.until
      /\ \A j \in DOMAIN job : granted'[j] = granted[j]
      /\ granted' \in [DOMAIN job' -> Nat]
  BY <1>1, <1>2, <1>3, <1>4 DEF Extend, Inv, TypeOK
<1>6. worker' \in [DOMAIN job' -> [taken : Nat, cancelled : BOOLEAN]]
  BY <1>1, <1>3, <1>4 DEF Extend, Inv, TypeOK
<1>7. /\ DOMAIN commands' = DOMAIN commands \cup {k} /\ commands'[k].started
      /\ \A j \in DOMAIN commands : commands'[j] = commands[j]
      /\ commands' \in [DOMAIN commands' -> [request : Request, started : BOOLEAN]]
  BY <1>1 DEF Extend, Inv, TypeOK
<1>8. TypeOK'
  <2>1. DOMAIN job' = {j \in DOMAIN commands' : commands'[j].started} /\ DOMAIN commands' \subseteq Keys
    <3>1. DOMAIN job = {j \in DOMAIN commands : commands[j].started} /\ DOMAIN commands \subseteq Keys
      BY DEF Inv, TypeOK
    <3>2. \A i : i \in DOMAIN job' <=> (i \in DOMAIN commands' /\ commands'[i].started)
      <4>1. ASSUME NEW i, i # k
            PROVE  i \in DOMAIN job' <=> (i \in DOMAIN commands' /\ commands'[i].started)
        BY <1>4, <1>7, <3>1, <4>1
      <4> QED BY <1>4, <1>7, <4>1
    <3> QED BY <1>1, <1>7, <3>1, <3>2
  <2>2. /\ audit' \in Seq([key : Keys, result : {"denied"} \cup {ResultOf[s] : s \in DOMAIN ResultOf}])
        /\ \A o \in observed' : o[1] \in DOMAIN job'
    BY <1>1, <1>4 DEF Inv, TypeOK
  <2> QED BY <1>4, <1>5, <1>6, <1>7, <2>1, <2>2 DEF TypeOK
<1>9. DeadlineInv' /\ WithinScope'
  <2>1. DeadlineInv'
    BY <1>2, <1>4, <1>5 DEF Inv, DeadlineInv
  <2>2. \A o \in observed : o[1] \in DOMAIN job
    BY DEF Inv, TypeOK
  <2> QED BY <1>1, <1>5, <2>1, <2>2 DEF Inv, WithinScope
<1>10. /\ Phase(k) = "none" /\ Phase(k)' = "running"
       /\ \A j : j # k => Phase(j)' = Phase(j)
  <2>1. Phase(k) = "none" /\ Phase(k)' = "running"
    BY <1>1, <1>2, <1>4, <1>7 DEF Phase
  <2>2. ASSUME NEW j, j # k PROVE Phase(j)' = Phase(j)
    BY <1>4, <1>7, <2>2 DEF Phase
  <2> QED BY <2>1, <2>2
<1>11. AuditInv'
  BY <1>1, <1>10, Unrecorded DEF Ended
<1> QED BY <1>1, <1>8, <1>9, <1>10, <1>11 DEF Inv
-----------------------------------------------------------------------------
(* A step of a job.                                                        *)

WorkOf(k) == IF k \in DOMAIN job THEN worker[k].taken ELSE 0

\* A running job goes on or ends, and its work does not shrink.
Moved(k) ==
  /\ k \in Keys /\ Phase(k) = "running"
  /\ Phase(k)' \in {"running", "completed", "failed", "cancelled"}
  /\ \A i : i # k => Phase(i)' = Phase(i)
  /\ WorkOf(k) \in Nat /\ WorkOf(k)' >= WorkOf(k)
  /\ \A i : i # k => WorkOf(i)' = WorkOf(i)

LEMMA JobStep ==
  ASSUME Inv, NEW k \in DOMAIN job, job[k].state = "running",
         NEW j \in Job, j.deadline = job[k].deadline, job' = [job EXCEPT ![k] = j],
         NEW n \in Nat, NEW b \in BOOLEAN, n >= worker[k].taken,
         worker' = [worker EXCEPT ![k] = [taken |-> n, cancelled |-> b]],
         commands' = commands, granted' = granted, WithinScope', \A o \in observed' : o[1] \in DOMAIN job,
         \/ j.state = "running" /\ audit' = audit
         \/ /\ j.state \in DOMAIN ResultOf
            /\ audit' = Append(audit, [key |-> k, result |-> ResultOf[j.state]])
  PROVE  Inv' /\ Moved(k)
<1>1. /\ job \in [DOMAIN job -> Job] /\ k \in Keys /\ k \in DOMAIN commands
      /\ DOMAIN job \subseteq DOMAIN commands
      /\ worker \in [DOMAIN job -> [taken : Nat, cancelled : BOOLEAN]]
  BY DEF Inv, TypeOK
<1> HIDE DEF Job
<1>2. /\ DOMAIN job' = DOMAIN job /\ job'[k] = j /\ \A i \in DOMAIN job : i # k => job'[i] = job[i]
      /\ job' \in [DOMAIN job -> Job]
  BY <1>1
<1>3. /\ worker' \in [DOMAIN job -> [taken : Nat, cancelled : BOOLEAN]] /\ worker'[k].taken = n
      /\ \A i \in DOMAIN job : i # k => worker'[i] = worker[i]
  BY <1>1
<1>4. /\ Phase(k) = "running" /\ Phase(k)' = j.state /\ \A i : i # k => Phase(i)' = Phase(i)
  BY <1>1, <1>2 DEF Phase
<1>5. /\ WorkOf(k) \in Nat /\ WorkOf(k)' >= WorkOf(k) /\ \A i : i # k => WorkOf(i)' = WorkOf(i)
  BY <1>1, <1>2, <1>3 DEF WorkOf
<1>6. /\ AuditInv'
      /\ audit' \in Seq([key : Keys, result : {"denied"} \cup {ResultOf[s] : s \in DOMAIN ResultOf}])
      /\ j.state \in {"running", "completed", "failed", "cancelled"}
  <2>1. CASE j.state = "running" /\ audit' = audit
    <3>1. AuditInv'
      BY <1>4, <2>1, Unrecorded
    <3> QED BY <2>1, <3>1 DEF Inv, TypeOK
  <2>2. CASE /\ j.state \in DOMAIN ResultOf
             /\ audit' = Append(audit, [key |-> k, result |-> ResultOf[j.state]])
    <3>1. /\ j.state \in Ended /\ j.state \in {"completed", "failed", "cancelled"}
          /\ ResultOf[j.state] = Lifecycle!ResultOf[j.state] /\ ResultOf[j.state] \in Results
      BY <2>2 DEF Ended, ResultOf, Lifecycle!ResultOf, Results
    <3>2. AuditInv'
      BY <1>1, <1>4, <2>2, <3>1, Recorded DEF Ended
    <3> QED BY <1>1, <2>2, <3>1, <3>2, AppendType DEF Inv
  <2> QED BY <2>1, <2>2
<1>7. TypeOK'
  BY <1>2, <1>3, <1>6 DEF Inv, TypeOK
<1>8. DeadlineInv'
  BY <1>2 DEF Inv, DeadlineInv
<1> QED BY <1>1, <1>4, <1>5, <1>6, <1>7, <1>8 DEF Inv, Moved

\* End gives the job j its end, or leaves it as it is and raises.
LEMMA EndEffect ==
  ASSUME TypeOK, NEW k \in DOMAIN job, NEW j \in Job, j.state = "running", NEW t \in Nat,
         NEW s \in DOMAIN ResultOf, End(k, j, t, s)
  PROVE  \E x \in Job :
           /\ x.deadline = j.deadline /\ job' = [job EXCEPT ![k] = x]
           /\ \/ x.state = "running" /\ audit' = audit
              \/ /\ x.state \in DOMAIN ResultOf
                 /\ audit' = Append(audit, [key |-> k, result |-> ResultOf[x.state]])
<1> PICK x : x = [[j EXCEPT !.state = s] EXCEPT !.since = t]
  OBVIOUS
<1>1. x \in Job /\ x.deadline = j.deadline /\ x.state = s
  BY DEF Job
<1>2. CASE t >= j.since
  <2>1. /\ job' = [job EXCEPT ![k] = x]
        /\ audit' = Append(audit, [key |-> k, result |-> ResultOf[s]])
    BY <1>2 DEF End
  <2> QED BY <1>1, <2>1
<1>3. CASE ~ (t >= j.since)
  BY <1>3 DEF End
<1> QED BY <1>2, <1>3

\* A job may be given candidates of its network.
LEMMA AddedType ==
  ASSUME NEW j \in Job, NEW s \in Seq(Candidates(j.network))
  PROVE  [j EXCEPT !.candidates = Added(j, s)] \in Job
<1>1. j.candidates \subseteq Ids /\ j.network \in DOMAIN Source
  BY DEF Job, Ids
<1>2. \A i \in DOMAIN s : s[i].id \in Ids
  <2>1. SUFFICES ASSUME NEW i \in DOMAIN s PROVE s[i].id \in Ids
    OBVIOUS
  <2>2. PICK x \in DOMAIN Source[j.network] : s[i] = Source[j.network][x]
    BY DEF Candidates
  <2> QED BY <1>1, <2>2 DEF Ids
<1>3. Added(j, s) \in SUBSET Ids
  BY <1>1, <1>2 DEF Added
<1> QED BY <1>3 DEF Job, Ids

LEMMA TakeInv ==
  ASSUME Inv, NEW k \in DOMAIN job, job[k].state = "running", NEW t, t \in Nat, t < job[k].deadline,
         NEW taken \in Seq(Candidates(job[k].network)),
         NEW ending \in {"running", "completed", "failed"}, NEW at \in Nat,
         Take(k, t, taken, ending, at)
  PROVE  Inv' /\ Moved(k)
<1> PICK j : j = job[k]
  OBVIOUS
<1> PICK foreign : foreign = {i \in DOMAIN taken : taken[i].org # j.org}
  OBVIOUS
<1> PICK own : own = IF foreign = {} THEN taken ELSE SubSeq(taken, 1, Min(foreign) - 1)
  OBVIOUS
<1> PICK used : used = IF foreign = {} THEN Len(taken) ELSE Min(foreign)
  OBVIOUS
<1> PICK after : after = [j EXCEPT !.candidates = Added(j, own)]
  OBVIOUS
<1>1. /\ worker' = [worker EXCEPT ![k].taken = @ + used]
      /\ observed' = IF after.candidates = j.candidates THEN observed
                     ELSE {<<k, id, t>> : id \in after.candidates \ j.candidates}
      /\ \/ End(k, after, t, "failed")
         \/ ending # "running" /\ End(k, after, at, ending)
         \/ job' = [job EXCEPT ![k] = after] /\ audit' = audit
      /\ commands' = commands /\ granted' = granted
  BY DEF Take
<1>2. j \in Job /\ worker[k] \in [taken : Nat, cancelled : BOOLEAN] /\ j.state = "running"
  BY DEF Inv, TypeOK
<1>3. own \in Seq(Candidates(j.network)) /\ used \in Nat
  <2>1. CASE foreign = {}
    BY <2>1
  <2>2. CASE foreign # {}
    <3>1. foreign \in SUBSET Nat /\ foreign \subseteq 1..Len(taken)
      OBVIOUS
    <3>2. Min(foreign) \in 1..Len(taken)
      BY <2>2, <3>1, MinMember
    <3>3. Min(foreign) - 1 \in 0..Len(taken) /\ 1 \in Nat \ {0} /\ Min(foreign) \in Nat
      BY <3>2
    <3>4. SubSeq(taken, 1, Min(foreign) - 1) \in Seq(Candidates(j.network))
      BY <3>3, PartType
    <3> QED BY <2>2, <3>3, <3>4
  <2> QED BY <2>1, <2>2
<1>4. after \in Job /\ after.state = "running" /\ after.deadline = j.deadline
  BY <1>2, <1>3, AddedType DEF Job
<1>5. \E x \in Job :
        /\ x.deadline = j.deadline /\ job' = [job EXCEPT ![k] = x]
        /\ \/ x.state = "running" /\ audit' = audit
           \/ /\ x.state \in DOMAIN ResultOf
              /\ audit' = Append(audit, [key |-> k, result |-> ResultOf[x.state]])
  <2>1. "completed" \in DOMAIN ResultOf /\ "failed" \in DOMAIN ResultOf
    BY DEF ResultOf
  <2>2. ASSUME NEW z \in Nat, NEW e \in DOMAIN ResultOf, End(k, after, z, e)
        PROVE  \E x \in Job :
                 /\ x.deadline = after.deadline /\ job' = [job EXCEPT ![k] = x]
                 /\ \/ x.state = "running" /\ audit' = audit
                    \/ /\ x.state \in DOMAIN ResultOf
                       /\ audit' = Append(audit, [key |-> k, result |-> ResultOf[x.state]])
    BY <1>4, <2>2, EndEffect DEF Inv
  <2>3. CASE End(k, after, t, "failed")
    BY <1>4, <2>1, <2>2, <2>3
  <2>4. CASE ending # "running" /\ End(k, after, at, ending)
    BY <1>4, <2>1, <2>2, <2>4
  <2>5. CASE job' = [job EXCEPT ![k] = after] /\ audit' = audit
    BY <1>4, <2>5
  <2> QED BY <1>1, <2>3, <2>4, <2>5
<1>6. /\ WithinScope' /\ \A o \in observed' : o[1] \in DOMAIN job
  <2>1. granted[k] \in Nat /\ job[k].deadline \in Nat /\ job[k].deadline <= granted[k]
    BY <1>2 DEF Inv, TypeOK, DeadlineInv, Job
  <2>2. t < granted[k]
    BY <2>1
  <2>3. \A o \in observed : o[1] \in DOMAIN job /\ o[3] < granted[o[1]]
    BY DEF Inv, TypeOK, WithinScope
  <2>4. CASE observed' = observed
    BY <1>1, <2>3, <2>4 DEF WithinScope
  <2>5. CASE observed' = {<<k, id, t>> : id \in after.candidates \ j.candidates}
    <3>1. \A o \in observed' : o[1] = k /\ o[3] = t
      BY <2>5
    <3> QED BY <1>1, <2>2, <3>1 DEF WithinScope
  <2> QED BY <1>1, <2>4, <2>5
<1>7. PICK n \in Nat, b \in BOOLEAN :
        n >= worker[k].taken /\ worker' = [worker EXCEPT ![k] = [taken |-> n, cancelled |-> b]]
  <2>1. \A n \in Nat : [worker[k] EXCEPT !.taken = n] = [taken |-> n, cancelled |-> worker[k].cancelled]
    <3>1. PICK r \in [taken : Nat, cancelled : BOOLEAN] : r = worker[k]
      BY <1>2
    <3>2. \A n \in Nat : [r EXCEPT !.taken = n] = [taken |-> n, cancelled |-> r.cancelled]
      OBVIOUS
    <3> QED BY <3>1, <3>2, Zenon
  <2>2. worker' = [worker EXCEPT ![k] = [worker[k] EXCEPT !.taken = worker[k].taken + used]]
    BY <1>1
  <2>3. /\ worker[k].taken + used \in Nat /\ worker[k].taken + used >= worker[k].taken
        /\ worker[k].cancelled \in BOOLEAN
    BY <1>2, <1>3
  <2> QED BY <2>1, <2>2, <2>3, Zenon
<1>8. PICK x \in Job :
        /\ x.deadline = job[k].deadline /\ job' = [job EXCEPT ![k] = x]
        /\ \/ x.state = "running" /\ audit' = audit
           \/ /\ x.state \in DOMAIN ResultOf
              /\ audit' = Append(audit, [key |-> k, result |-> ResultOf[x.state]])
  BY <1>5
<1>9. commands' = commands /\ granted' = granted
  BY <1>1
<1> HIDE DEF Job, ResultOf
<1>10. WithinScope' /\ \A o \in observed' : o[1] \in DOMAIN job
  BY <1>6
<1>11. n >= worker[k].taken /\ worker' = [worker EXCEPT ![k] = [taken |-> n, cancelled |-> b]]
  BY <1>7
<1> QED BY <1>8, <1>9, <1>10, <1>11, JobStep

LEMMA CompleteInv ==
  ASSUME Inv, NEW k \in DOMAIN job, job[k].state = "running", NEW t \in Nat, Complete(k, t)
  PROVE  Inv' /\ Moved(k)
<1>1. /\ commands' = commands /\ worker' = worker /\ granted' = granted /\ observed' = observed
      /\ End(k, job[k], t, "completed")
  BY DEF Complete, history
<1>2. /\ job[k] \in Job /\ worker \in [DOMAIN job -> [taken : Nat, cancelled : BOOLEAN]]
      /\ "completed" \in DOMAIN ResultOf
  BY DEF Inv, TypeOK, ResultOf
<1>3. \E x \in Job :
        /\ x.deadline = job[k].deadline /\ job' = [job EXCEPT ![k] = x]
        /\ \/ x.state = "running" /\ audit' = audit
           \/ /\ x.state \in DOMAIN ResultOf
              /\ audit' = Append(audit, [key |-> k, result |-> ResultOf[x.state]])
  BY <1>1, <1>2, EndEffect DEF Inv
<1>4. PICK n \in Nat, b \in BOOLEAN :
        n >= worker[k].taken /\ worker' = [worker EXCEPT ![k] = [taken |-> n, cancelled |-> b]]
  <2>1. /\ worker[k] = [taken |-> worker[k].taken, cancelled |-> worker[k].cancelled]
        /\ worker[k].taken \in Nat /\ worker[k].cancelled \in BOOLEAN
    BY <1>2
  <2>2. worker' = [worker EXCEPT ![k] = worker[k]] /\ worker[k].taken >= worker[k].taken
    BY <1>1, <1>2, <2>1
  <2> QED BY <2>1, <2>2
<1>5. WithinScope' /\ \A o \in observed' : o[1] \in DOMAIN job
  BY <1>1 DEF Inv, TypeOK, WithinScope
<1> QED BY <1>1, <1>3, <1>4, <1>5, JobStep

LEMMA CancelInv ==
  ASSUME Inv, NEW k, NEW c, NEW t \in Nat, Cancel(k, c, t)
  PROVE  Inv' /\ Moved(k)
<1>1. /\ k \in DOMAIN job /\ job[k].state = "running"
      /\ commands' = commands /\ granted' = granted /\ observed' = observed
      /\ worker' = [worker EXCEPT ![k].cancelled = TRUE]
      /\ End(k, job[k], t, "cancelled")
  BY DEF Cancel, Running, Authorized, history
<1>2. /\ job[k] \in Job /\ worker[k] \in [taken : Nat, cancelled : BOOLEAN]
      /\ "cancelled" \in DOMAIN ResultOf
  BY <1>1 DEF Inv, TypeOK, ResultOf
<1>3. \E x \in Job :
        /\ x.deadline = job[k].deadline /\ job' = [job EXCEPT ![k] = x]
        /\ \/ x.state = "running" /\ audit' = audit
           \/ /\ x.state \in DOMAIN ResultOf
              /\ audit' = Append(audit, [key |-> k, result |-> ResultOf[x.state]])
  BY <1>1, <1>2, EndEffect DEF Inv
<1>4. PICK n \in Nat, b \in BOOLEAN :
        n >= worker[k].taken /\ worker' = [worker EXCEPT ![k] = [taken |-> n, cancelled |-> b]]
  <2>1. \A b \in BOOLEAN : [worker[k] EXCEPT !.cancelled = b]
                             = [taken |-> worker[k].taken, cancelled |-> b]
    BY <1>2
  <2>2. worker' = [worker EXCEPT ![k] = [worker[k] EXCEPT !.cancelled = TRUE]]
    BY <1>1
  <2>3. worker[k].taken \in Nat /\ worker[k].taken >= worker[k].taken
    BY <1>2
  <2> QED BY <2>1, <2>2, <2>3, Zenon
<1>5. WithinScope' /\ \A o \in observed' : o[1] \in DOMAIN job
  BY <1>1 DEF Inv, TypeOK, WithinScope
<1> QED BY <1>1, <1>3, <1>4, <1>5, JobStep

LEMMA AdvanceInv ==
  ASSUME Inv, NEW k, NEW c, NEW t \in Nat, Advance(k, c, t)
  PROVE  Inv' /\ Moved(k)
<1>1. k \in DOMAIN job /\ job[k].state = "running"
  BY DEF Advance, Running, Authorized
<1>2. CASE Complete(k, t)
  BY <1>1, <1>2, CompleteInv
<1>3. CASE t < job[k].deadline /\ Remaining(k) # <<>> /\ Take(k, t, <<Head(Remaining(k))>>, "running", t)
  <2>1. <<Head(Remaining(k))>> \in Seq(Candidates(job[k].network))
    BY <1>1, <1>3, RemainingType, HeadType DEF Inv
  <2> QED BY <1>1, <1>3, <2>1, TakeInv
<1> QED BY <1>2, <1>3 DEF Advance

LEMMA RunToCompletionInv ==
  ASSUME Inv, NEW k, NEW c, NEW t \in Nat, RunToCompletion(k, c, t)
  PROVE  Inv' /\ Moved(k)
<1> PICK rest : rest = Remaining(k)
  OBVIOUS
<1> PICK n : n = job[k].maximum + 1
  OBVIOUS
<1>1. /\ k \in DOMAIN job /\ job[k].state = "running" /\ t < job[k].deadline
      /\ \/ Len(rest) < n /\ Take(k, t, rest, "completed", t)
         \/ ~ (Len(rest) < n) /\ Take(k, t, SubSeq(rest, 1, n), "failed", t + 1)
  BY DEF RunToCompletion, Running, Authorized
<1>2. rest \in Seq(Candidates(job[k].network)) /\ n \in Nat
  <2>1. job[k] \in Job
    BY <1>1 DEF Inv, TypeOK
  <2> QED BY <1>1, <2>1, RemainingType DEF Inv, Job
<1>3. CASE Take(k, t, rest, "completed", t)
  BY <1>1, <1>2, <1>3, TakeInv
<1>4. CASE ~ (Len(rest) < n) /\ Take(k, t, SubSeq(rest, 1, n), "failed", t + 1)
  <2>1. n \in 0..Len(rest) /\ 1 \in Nat \ {0} /\ t + 1 \in Nat
    BY <1>2, <1>4
  <2>2. SubSeq(rest, 1, n) \in Seq(Candidates(job[k].network))
    BY <1>2, <2>1, PartType
  <2> QED BY <1>1, <1>4, <2>1, <2>2, TakeInv
<1> QED BY <1>1, <1>3, <1>4
-----------------------------------------------------------------------------
(* The invariant of the service.                                           *)

LEMMA NextInv == Inv /\ [Next]_vars => Inv'
<1> SUFFICES ASSUME Inv, [Next]_vars PROVE Inv'
  OBVIOUS
<1>1. ASSUME NEW q \in Request, NEW c \in Context, NEW t \in Time,
             StartDenied(q, c, t) \/ Start(q, c, t)
      PROVE  Inv'
  BY <1>1, StartDeniedInv, StartInv
<1>2. ASSUME NEW k \in Keys, NEW c \in Context, NEW t \in Time,
             Advance(k, c, t) \/ RunToCompletion(k, c, t) \/ Cancel(k, c, t)
      PROVE  Inv'
  BY <1>2, Limits, AdvanceInv, RunToCompletionInv, CancelInv
<1>3. CASE UNCHANGED vars
  <2>1. UNCHANGED <<commands, job, worker, audit, granted, observed>>
    BY <1>3 DEF vars, history
  <2>2. TypeOK' /\ DeadlineInv' /\ WithinScope'
    BY <2>1 DEF Inv, TypeOK, DeadlineInv, WithinScope
  <2>3. AuditInv'
    BY <2>1, Unrecorded DEF Phase
  <2> QED BY <2>2, <2>3 DEF Inv
<1> QED BY <1>1, <1>2, <1>3 DEF Next

LEMMA Invariance == Spec => []Inv
BY InitInv, NextInv, PTL DEF Spec

\* Every variable keeps its type; every remembered start has a job, a worker
\* and the end of the scope it was granted under (PassiveDiscoveryService).
THEOREM TypeCorrect == Spec => []TypeOK
BY Invariance, PTL DEF Inv

\* Nothing is observed at a time at which the scope that admitted the job has
\* ended, though advance and run_to_completion compare only the scope's id.
THEOREM ObservedWithinScope == Spec => []WithinScope
BY Invariance, PTL DEF Inv
-----------------------------------------------------------------------------
(* The service implements JobLifecycle.                                    *)

Told(s) == IF s \in Ended THEN <<Lifecycle!ResultOf[s]>> ELSE <<>>

\* The results that the log holds of a command are those of its phase.
VerdictInv == \A k \in Keys : Verdicts(k) = Told(Phase(k))

LEMMA VerdictOfPhase == Inv => VerdictInv
<1> SUFFICES ASSUME Inv, NEW k \in Keys PROVE Verdicts(k) = Told(Phase(k))
  BY DEF VerdictInv
<1>1. AuditOf(k) /\ DOMAIN audit \subseteq Nat
  BY DEF Inv, AuditInv, TypeOK
<1>2. CASE Phase(k) \notin Ended
  <2>1. EventsOf(k) = {}
    BY <1>1, <1>2 DEF AuditOf
  <2>2. Verdicts(k) = <<>>
    BY <2>1, FS_EmptySet DEF Verdicts
  <2> QED BY <1>2, <2>2 DEF Told
<1>3. CASE Phase(k) \in Ended
  <2> PICK r : r = Lifecycle!ResultOf[Phase(k)]
    OBVIOUS
  <2>1. PICK i \in DOMAIN audit : EventsOf(k) = {i} /\ audit[i].result = r
    BY <1>1, <1>3 DEF AuditOf
  <2>2. Cardinality({i}) = 1
    BY FS_Singleton
  <2>3. Nth({i}, 1) = i
    <3>1. {j \in {i} : j < i} = {}
      BY <1>1, <2>1
    <3>2. Cardinality({j \in {i} : j < i}) = 0
      BY <3>1, FS_EmptySet
    <3> QED BY <3>2 DEF Nth
  <2>4. Verdicts(k) = [n \in 1..1 |-> audit[Nth({i}, n)].result]
    BY <2>1, <2>2 DEF Verdicts
  <2>5. ASSUME NEW n \in 1..1 PROVE audit[Nth({i}, n)].result = r
    <3>1. n = 1
      OBVIOUS
    <3> QED BY <2>1, <2>3, <3>1
  <2>6. Verdicts(k) = <<r>>
    <3>1. Verdicts(k) = [n \in 1..1 |-> r]
      BY <2>4, <2>5
    <3> QED BY <3>1
  <2> QED BY <1>3, <2>6 DEF Told
<1> QED BY <1>2, <1>3

\* A step that ends a command enters its verdict.
LEMMA Concluded ==
  ASSUME VerdictInv, VerdictInv', NEW k \in Keys, NEW s \in Ended, Phase(k) \notin Ended,
         Phase(k)' = s, \A i : i # k => Phase(i)' = Phase(i)
  PROVE  Lifecycle!Conclude(k, s)
<1> PICK r : r = Lifecycle!ResultOf[s]
  OBVIOUS
<1>1. Verdicts(k) = <<>> /\ Verdicts(k)' = <<r>>
  BY DEF VerdictInv, Told, Lifecycle!ResultOf
<1>2. \A i \in Keys : i # k => Verdicts(i)' = Verdicts(i)
  BY DEF VerdictInv, Told, Lifecycle!ResultOf
<1>3. Append(Verdicts(k), r) = <<r>>
  BY <1>1
<1>4. [i \in Keys |-> Verdicts(i)']
        = [[i \in Keys |-> Verdicts(i)] EXCEPT ![k] = Append(@, r)]
  BY <1>1, <1>2, <1>3
<1>5. [i \in Keys |-> Phase(i)'] = [[i \in Keys |-> Phase(i)] EXCEPT ![k] = s]
  OBVIOUS
<1> QED BY <1>4, <1>5 DEF Lifecycle!Conclude

\* A step that ends none enters none.
LEMMA NoneTold ==
  ASSUME VerdictInv, VerdictInv',
         \A i \in Keys : \/ Phase(i)' = Phase(i)
                         \/ (Phase(i) \notin Ended /\ Phase(i)' \notin Ended)
  PROVE  UNCHANGED [i \in Keys |-> Verdicts(i)]
<1>1. \A i \in Keys : Verdicts(i)' = Verdicts(i)
  BY DEF VerdictInv, Told, Lifecycle!ResultOf
<1> QED BY <1>1

LEMMA StartDeniedStep ==
  ASSUME Inv, VerdictInv, VerdictInv', NEW q \in Request, NEW c \in Context, NEW t \in Time,
         StartDenied(q, c, t)
  PROVE  Lifecycle!Refuse(KeyOf(q, c))
<1> PICK k : k = KeyOf(q, c)
  OBVIOUS
<1>1. /\ k \in Keys /\ Phase(k) = "none" /\ Phase(k)' = "denied"
      /\ \A j : j # k => Phase(j)' = Phase(j)
  BY StartDeniedInv
<1>2. Lifecycle!Conclude(k, "denied")
  BY <1>1, Concluded DEF Ended
<1>3. UNCHANGED [i \in Keys |-> IF i \in DOMAIN job THEN worker[i].taken ELSE 0]
  BY DEF StartDenied
<1>4. [i \in Keys |-> Phase(i)][k] = "none"
  BY <1>1
<1> QED BY <1>2, <1>3, <1>4 DEF Lifecycle!Refuse

LEMMA StartStep ==
  ASSUME Inv, VerdictInv, VerdictInv', NEW q \in Request, NEW c \in Context, NEW t \in Time,
         Start(q, c, t)
  PROVE  Lifecycle!Begin(KeyOf(q, c))
<1> PICK k : k = KeyOf(q, c)
  OBVIOUS
<1>1. /\ k \in Keys /\ Phase(k) = "none" /\ Phase(k)' = "running"
      /\ \A j : j # k => Phase(j)' = Phase(j)
  BY StartInv
<1>2. UNCHANGED [i \in Keys |-> Verdicts(i)]
  BY <1>1, NoneTold DEF Ended
<1>3. UNCHANGED [i \in Keys |-> WorkOf(i)]
  <2>1. /\ k \notin DOMAIN job /\ DOMAIN job' = DOMAIN job \cup {k} /\ DOMAIN worker = DOMAIN job
        /\ worker' = Extend(worker, k, [taken |-> 0, cancelled |-> FALSE])
    BY DEF Start, Inv, TypeOK, Extend
  <2>2. /\ worker'[k].taken = 0 /\ \A i \in DOMAIN job : worker'[i] = worker[i]
    BY <2>1 DEF Extend
  <2>3. \A i : WorkOf(i)' = WorkOf(i)
    BY <2>1, <2>2 DEF WorkOf
  <2> QED BY <2>3
<1>4. [i \in Keys |-> Phase(i)'] = [[i \in Keys |-> Phase(i)] EXCEPT ![k] = "running"]
  BY <1>1
<1>5. [i \in Keys |-> Phase(i)][k] = "none"
  BY <1>1
<1> QED BY <1>2, <1>3, <1>4, <1>5 DEF Lifecycle!Begin, WorkOf

LEMMA MovedStep ==
  ASSUME VerdictInv, VerdictInv', NEW k \in Keys, Moved(k)
  PROVE  Lifecycle!Work(k) \/ Lifecycle!Finish(k)
<1>1. Lifecycle!More(k)
  <2>1. [i \in Keys |-> WorkOf(i)'] = [[i \in Keys |-> WorkOf(i)] EXCEPT ![k] = WorkOf(k)']
    BY DEF Moved
  <2> QED BY <2>1 DEF Lifecycle!More, Moved, WorkOf
<1>2. [i \in Keys |-> Phase(i)][k] = "running"
  BY DEF Moved
<1>3. CASE Phase(k)' = "running"
  <2>1. \A i \in Keys : Phase(i)' = Phase(i)
    BY <1>3 DEF Moved
  <2>2. UNCHANGED [i \in Keys |-> Verdicts(i)] /\ UNCHANGED [i \in Keys |-> Phase(i)]
    BY <2>1, NoneTold
  <2> QED BY <1>1, <1>2, <2>2 DEF Lifecycle!Work
<1>4. CASE Phase(k)' \in {"completed", "failed", "cancelled"}
  <2> PICK s : s = Phase(k)'
    OBVIOUS
  <2>1. s \in Ended /\ s \in Lifecycle!Outcome \ {"denied"}
    BY <1>4 DEF Ended, Lifecycle!Outcome, Lifecycle!ResultOf
  <2>2. Lifecycle!Conclude(k, s)
    BY <2>1, Concluded DEF Moved, Ended
  <2> QED BY <1>1, <1>2, <2>1, <2>2 DEF Lifecycle!Finish
<1> QED BY <1>3, <1>4 DEF Moved

LEMMA StepRefines ==
  Inv /\ VerdictInv /\ VerdictInv' /\ [Next]_vars => [Lifecycle!Next]_Lifecycle!vars
<1> SUFFICES ASSUME Inv, VerdictInv, VerdictInv', [Next]_vars
             PROVE  [Lifecycle!Next]_Lifecycle!vars
  OBVIOUS
<1>1. ASSUME NEW q \in Request, NEW c \in Context, NEW t \in Time,
             StartDenied(q, c, t) \/ Start(q, c, t)
      PROVE  Lifecycle!Next
  <2>1. KeyOf(q, c) \in Keys
    BY DEF Keys
  <2> QED BY <1>1, <2>1, StartDeniedStep, StartStep DEF Lifecycle!Next
<1>2. ASSUME NEW k \in Keys, NEW c \in Context, NEW t \in Time,
             Advance(k, c, t) \/ RunToCompletion(k, c, t) \/ Cancel(k, c, t)
      PROVE  Lifecycle!Next
  <2>1. Moved(k)
    BY <1>2, Limits, AdvanceInv, RunToCompletionInv, CancelInv
  <2> QED BY <2>1, MovedStep DEF Lifecycle!Next
<1>3. CASE UNCHANGED vars
  <2>1. \A k : Phase(k)' = Phase(k) /\ WorkOf(k)' = WorkOf(k) /\ Verdicts(k)' = Verdicts(k)
    BY <1>3 DEF vars, Phase, WorkOf, Verdicts, EventsOf, Nth
  <2> QED BY <2>1 DEF Lifecycle!vars, WorkOf
<1> QED BY <1>1, <1>2, <1>3 DEF Next

\* Discovery implements the lifecycle an operator relies on: a command is
\* refused or starts one job, candidates are taken only while it runs, it ends
\* once, and its verdict enters the audit log with the step that decides it.
THEOREM Refinement == Spec => Implements
<1>1. Init => Lifecycle!Init
  <2> SUFFICES ASSUME Init PROVE Lifecycle!Init
    OBVIOUS
  <2>1. \A k : Phase(k) = "none" /\ k \notin DOMAIN job
    BY DEF Init, Phase
  <2>2. \A k \in Keys : Verdicts(k) = <<>>
    BY <2>1, InitInv, VerdictOfPhase DEF VerdictInv, Told, Ended
  <2> QED BY <2>1, <2>2 DEF Lifecycle!Init
<1> QED BY <1>1, StepRefines, Invariance, VerdictOfPhase, PTL DEF Spec, Implements, Lifecycle!Spec

LifecycleProofs == INSTANCE JobLifecycleProofs
  WITH Key     <- Keys,
       phase   <- [k \in Keys |-> Phase(k)],
       work    <- [k \in Keys |-> IF k \in DOMAIN job THEN worker[k].taken ELSE 0],
       verdict <- [k \in Keys |-> Verdicts(k)]

\* So a discovery command has a verdict in the log exactly when it has ended,
\* one, and the right one.
THEOREM OneVerdictEach == Spec => []Lifecycle!VerdictsMatch
<1>1. Lifecycle!Init <=> LifecycleProofs!Init
  BY DEF Lifecycle!Init, LifecycleProofs!Init
<1>2. Lifecycle!Next <=> LifecycleProofs!Next
  BY Zenon DEF Lifecycle!Next, LifecycleProofs!Next, Lifecycle!Refuse, LifecycleProofs!Refuse,
     Lifecycle!Begin, LifecycleProofs!Begin, Lifecycle!Work, LifecycleProofs!Work,
     Lifecycle!Finish, LifecycleProofs!Finish, Lifecycle!Conclude, LifecycleProofs!Conclude,
     Lifecycle!More, LifecycleProofs!More, Lifecycle!ResultOf, LifecycleProofs!ResultOf,
     Lifecycle!Outcome, LifecycleProofs!Outcome
<1>3. UNCHANGED Lifecycle!vars <=> UNCHANGED LifecycleProofs!vars
  BY DEF Lifecycle!vars, LifecycleProofs!vars
<1>4. Lifecycle!VerdictsMatch <=> LifecycleProofs!VerdictsMatch
  BY DEF Lifecycle!VerdictsMatch, LifecycleProofs!VerdictsMatch,
     Lifecycle!ResultOf, LifecycleProofs!ResultOf, Lifecycle!Outcome, LifecycleProofs!Outcome
<1>5. LifecycleProofs!Spec => []LifecycleProofs!VerdictsMatch
  BY LifecycleProofs!OneVerdict
<1> QED BY <1>1, <1>2, <1>3, <1>4, <1>5, Refinement, PTL
        DEF Implements, Lifecycle!Spec, LifecycleProofs!Spec
=============================================================================
