--------------------------- MODULE JobLifecycleProofs ---------------------------
(***************************************************************************)
(* Proofs about JobLifecycle.  What it promises of verdicts holds of every *)
(* service that implements it.                                             *)
(***************************************************************************)
EXTENDS JobLifecycle, TLAPS

Result == {"denied", "simulated", "failed", "cancelled"}

TypeOK ==
  /\ phase \in [Key -> {"none", "running"} \cup Outcome]
  /\ verdict \in [Key -> Seq(Result)]

Inv == TypeOK /\ VerdictsMatch

\* The outcomes and their results are strings apart from the other phases.
LEMMA Outcomes ==
  /\ Outcome = {"denied", "completed", "failed", "cancelled"}
  /\ "none" \notin Outcome /\ "running" \notin Outcome
  /\ \A o \in Outcome : ResultOf[o] \in Result
  BY DEF Outcome, ResultOf, Result

\* The one step that gives a verdict gives the first one, and the right one.
LEMMA ConcludeInv ==
  ASSUME Inv, NEW k \in Key, phase[k] \in {"none", "running"},
         NEW o \in Outcome, Conclude(k, o)
  PROVE  Inv'
<1>1. phase' = [phase EXCEPT ![k] = o] /\ verdict' = [verdict EXCEPT ![k] = <<ResultOf[o]>>]
  <2>1. verdict[k] = <<>>
    BY Outcomes DEF Inv, VerdictsMatch
  <2>2. Append(verdict[k], ResultOf[o]) = <<ResultOf[o]>>
    BY <2>1, Outcomes
  <2> QED BY <2>2 DEF Conclude
<1>2. <<ResultOf[o]>> \in Seq(Result)
  BY Outcomes
<1>3. TypeOK'
  BY <1>1, <1>2 DEF Inv, TypeOK
<1>4. ASSUME NEW j \in Key
      PROVE  verdict'[j] = IF phase'[j] \in Outcome THEN <<ResultOf[phase'[j]]>> ELSE <<>>
  <2>1. CASE j = k
    BY <1>1, <2>1 DEF Inv, TypeOK
  <2>2. CASE j # k
    <3>1. verdict'[j] = verdict[j] /\ phase'[j] = phase[j]
      BY <1>1, <2>2 DEF Inv, TypeOK
    <3> QED BY <3>1 DEF Inv, VerdictsMatch
  <2> QED BY <2>1, <2>2
<1> QED BY <1>3, <1>4 DEF Inv, VerdictsMatch

LEMMA InitInv == Init => Inv
  BY Outcomes DEF Init, Inv, TypeOK, VerdictsMatch

LEMMA NextInv == Inv /\ [Next]_vars => Inv'
<1> SUFFICES ASSUME Inv, [Next]_vars PROVE Inv'
  OBVIOUS
<1>1. CASE UNCHANGED vars
  BY <1>1 DEF vars, Inv, TypeOK, VerdictsMatch
<1>2. ASSUME NEW k \in Key, Refuse(k) PROVE Inv'
  <2>1. PICK o \in {"denied", "failed"} : Conclude(k, o)
    BY <1>2 DEF Refuse
  <2> QED BY <1>2, <2>1, ConcludeInv, Outcomes DEF Refuse
<1>3. ASSUME NEW k \in Key, Begin(k) PROVE Inv'
  <2>1. TypeOK'
    BY <1>3 DEF Begin, Inv, TypeOK
  <2>2. ASSUME NEW j \in Key
        PROVE  verdict'[j] = IF phase'[j] \in Outcome THEN <<ResultOf[phase'[j]]>> ELSE <<>>
    <3>1. CASE j = k
      BY <1>3, <3>1, Outcomes DEF Begin, Inv, TypeOK, VerdictsMatch
    <3>2. CASE j # k
      BY <1>3, <3>2 DEF Begin, Inv, TypeOK, VerdictsMatch
    <3> QED BY <3>1, <3>2
  <2> QED BY <2>1, <2>2 DEF Inv, VerdictsMatch
<1>4. ASSUME NEW k \in Key, Work(k) PROVE Inv'
  BY <1>4 DEF Work, Inv, TypeOK, VerdictsMatch
<1>5. ASSUME NEW k \in Key, Finish(k) PROVE Inv'
  <2>1. PICK o \in Outcome : Conclude(k, o)
    BY <1>5 DEF Finish
  <2> QED BY <1>5, <2>1, ConcludeInv DEF Finish
<1> QED BY <1>1, <1>2, <1>3, <1>4, <1>5 DEF Next

\* A command has a verdict in the audit log exactly when it has ended, only
\* one, and the one that tells how it ended, however often it is retried.
THEOREM OneVerdict == Spec => []VerdictsMatch
<1>1. Inv => VerdictsMatch
  BY DEF Inv
<1> QED BY InitInv, NextInv, <1>1, PTL DEF Spec

\* An ended command never starts again or ends in another way.
THEOREM VerdictFinal ==
  Spec => [][\A k \in Key : phase[k] \in Outcome => phase'[k] = phase[k]]_vars
<1>1. Inv /\ [Next]_vars => [\A k \in Key : phase[k] \in Outcome => phase'[k] = phase[k]]_vars
  <2> SUFFICES ASSUME Inv, Next, NEW j \in Key, phase[j] \in Outcome
               PROVE  phase'[j] = phase[j]
    BY DEF vars
  <2>1. PICK k \in Key : Refuse(k) \/ Begin(k) \/ Work(k) \/ Finish(k)
    BY DEF Next
  <2>2. CASE j = k
    BY <2>1, <2>2, Outcomes DEF Refuse, Begin, Work, Finish
  <2>3. CASE j # k
    BY <2>1, <2>3 DEF Refuse, Begin, Work, Finish, Conclude, Inv, TypeOK
  <2> QED BY <2>2, <2>3
<1> QED BY InitInv, NextInv, <1>1, PTL DEF Spec
=============================================================================
