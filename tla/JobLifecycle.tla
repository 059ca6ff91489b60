------------------------------ MODULE JobLifecycle ------------------------------
(***************************************************************************)
(* What a job service promises its operator: every command is refused or   *)
(* starts one job, work is done only while the job runs, a job ends once,  *)
(* and the verdict that the audit log holds of a command appears with the  *)
(* step that decides it and is never changed.  MonitoringService,          *)
(* PassiveDiscovery and ExperimentEngine implement it.                     *)
(***************************************************************************)
EXTENDS Integers, Sequences

CONSTANT Key      (* commands, each named by its organization, actor and id *)

VARIABLES
  phase,          (* key -> "none", "running" or how it ended               *)
  work,           (* key -> units of work done                              *)
  verdict         (* key -> results recorded in the audit log               *)

vars == <<phase, work, verdict>>

\* The audit result of each way to end.
ResultOf ==
  [denied |-> "denied", completed |-> "simulated", failed |-> "failed",
   cancelled |-> "cancelled"]
Outcome == DOMAIN ResultOf

Init ==
  /\ phase = [k \in Key |-> "none"]
  /\ work = [k \in Key |-> 0]
  /\ verdict = [k \in Key |-> <<>>]

Conclude(k, outcome) ==
  /\ phase' = [phase EXCEPT ![k] = outcome]
  /\ verdict' = [verdict EXCEPT ![k] = Append(@, ResultOf[outcome])]

\* A command is denied, or nobody is there to carry it out.
Refuse(k) ==
  /\ phase[k] = "none"
  /\ \E outcome \in {"denied", "failed"} : Conclude(k, outcome)
  /\ UNCHANGED work

Begin(k) ==
  /\ phase[k] = "none"
  /\ phase' = [phase EXCEPT ![k] = "running"]
  /\ UNCHANGED <<work, verdict>>

\* One call may do any amount of work.
More(k) ==
  /\ work'[k] >= work[k]
  /\ work' = [work EXCEPT ![k] = work'[k]]

Work(k) ==
  /\ phase[k] = "running"
  /\ More(k)
  /\ UNCHANGED <<phase, verdict>>

Finish(k) ==
  /\ phase[k] = "running"
  /\ \E outcome \in Outcome \ {"denied"} : Conclude(k, outcome)
  /\ More(k)

Next == \E k \in Key : Refuse(k) \/ Begin(k) \/ Work(k) \/ Finish(k)

Spec == Init /\ [][Next]_vars

\* A command has a verdict exactly when it has ended, one, and the right one.
VerdictsMatch ==
  \A k \in Key :
    verdict[k] = IF phase[k] \in Outcome THEN <<ResultOf[phase[k]]>> ELSE <<>>
=============================================================================
