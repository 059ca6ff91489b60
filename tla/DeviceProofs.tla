------------------------------ MODULE DeviceProofs ------------------------------
(***************************************************************************)
(* Machine-checked proofs about the package device-protocol: registry and  *)
(* verifier (DeviceProtocol) for every set of devices, keys, secrets and   *)
(* envelopes and every size of the id window, and the pairing ceremony     *)
(* (EphemeralPairing) for any participants, windows and forged hellos.     *)
(***************************************************************************)
EXTENDS DeviceProtocol, EphemeralPairing, BoundedFifo, FiniteSetTheorems, TLAPS

-----------------------------------------------------------------------------
(* The registry and the verifier.                                          *)

\* The finite counterpart of RevisionCounts that a step preserves.
RegistryInv ==
  \A d \in Provisioned : IsFiniteSet(entry[d].retired)

\* Every generation belongs to a provisioned device, is current or retired
\* there, and its secret is marked as used.
GenerationInv ==
  \A g \in generations :
    /\ g[3] \in usedSecrets
    /\ g[1] \in Provisioned
    /\ g[2] = entry[g[1]].key \/ g[2] \in entry[g[1]].retired

\* The last sequence of an identity bounds every sequence accepted from it.
SeqBound ==
  \A i \in DOMAIN accepted : accepted[i].seq <= lastSeq[Of(accepted[i])]

\* An accepted key is current or retired, and retired as soon as a message
\* under another key of the same device was accepted after it.
KeyHistory ==
  /\ \A i \in DOMAIN accepted :
       LET d == accepted[i].device IN
       /\ d \in Provisioned
       /\ accepted[i].key = entry[d].key \/ accepted[i].key \in entry[d].retired
  /\ \A i, j \in DOMAIN accepted :
       i < j /\ accepted[i].device = accepted[j].device
             /\ accepted[i].key # accepted[j].key
         => accepted[i].key \in entry[accepted[i].device].retired

\* The inductive invariant.
Inv ==
  /\ TypeOK
  /\ RegistryInv
  /\ RevisionCounts
  /\ GenerationInv
  /\ SecretsUnique
  /\ SeqBound
  /\ AcceptedInOrder
  /\ KeyHistory
  /\ GenerationsOrdered
  /\ WindowConsistent

\* A full store loses its head before it takes a new member: the order and the
\* members stay in step.
LEMMA EvictAndAppend ==
  ASSUME NEW K, NEW M \in Nat \ {0}, NEW q \in Seq(K), Len(q) <= M, Distinct(q),
         NEW x \in K, x \notin Members(q)
  PROVE  /\ Append(Evict(q, M), x) \in Seq(K)
         /\ Len(Append(Evict(q, M), x)) <= M
         /\ Distinct(Append(Evict(q, M), x))
         /\ Members(Append(Evict(q, M), x)) = EvictMembers(q, M) \cup {x}
         /\ x \notin EvictMembers(q, M)
<1> DEFINE s == Append(Evict(q, M), x)
<1>1. PICK lost \in {0, 1} : lost = IF Len(q) >= M THEN 1 ELSE 0
  OBVIOUS
<1>2. PICK n \in Nat : n + lost = Len(q) /\ n < M
  <2>1. Len(q) \in Nat /\ Len(q) - lost \in Nat /\ Len(q) - lost < M
    BY <1>1
  <2> QED BY <2>1
<1>3. /\ s \in Seq(K) /\ Len(s) = n + 1 /\ DOMAIN s = 1..(n + 1) /\ n + 1 <= M
      /\ DOMAIN q = 1..(n + lost)
      /\ \A i \in 1..n : s[i] = q[i + lost]
      /\ s[n + 1] = x
  BY <1>1, <1>2 DEF Evict
<1>4. \A i \in 1..n : i + lost \in DOMAIN q /\ q[i + lost] # x
  <2>1. \A j \in DOMAIN q : q[j] # x
    BY DEF Members
  <2>2. \A i \in 1..n : i + lost \in 1..(n + lost)
    OBVIOUS
  <2> QED BY <1>3, <2>1, <2>2
<1>5. EvictMembers(q, M) = Members(q) \ {q[i] : i \in 1..lost}
  BY <1>1, <1>2, <1>3 DEF EvictMembers, Members
<1> HIDE DEF s
<1>6. Distinct(s)
  <2>1. \A i, j \in 1..n : s[i] = s[j] => i = j
    <3> TAKE i, j \in 1..n
    <3>1. q[i + lost] = q[j + lost] => i + lost = j + lost
      BY <1>4 DEF Distinct
    <3> QED BY <1>3, <3>1
  <2>2. \A i \in 1..n : s[i] # s[n + 1]
    BY <1>3, <1>4
  <2>3. \A i \in 1..(n + 1) : i \in 1..n \/ i = n + 1
    OBVIOUS
  <2> QED BY <1>3, <2>1, <2>2, <2>3 DEF Distinct
<1>7. \A i \in 1..n : s[i] \in EvictMembers(q, M)
  <2> TAKE i \in 1..n
  <2>1. \A j \in 1..lost : j \in DOMAIN q /\ j # i + lost
    BY <1>3
  <2>2. \A j \in 1..lost : q[j] # q[i + lost]
    BY <1>4, <2>1 DEF Distinct
  <2>3. q[i + lost] \in Members(q)
    BY <1>4 DEF Members
  <2> QED BY <1>3, <1>5, <2>2, <2>3
<1>8. ASSUME NEW m \in EvictMembers(q, M) PROVE \E i \in 1..n : m = s[i]
  <2>1. PICK j \in 1..(n + lost) : m = q[j]
    BY <1>3, <1>5, <1>8 DEF Members
  <2>2. j \notin 1..lost
    BY <1>5, <1>8, <2>1
  <2>3. j - lost \in 1..n /\ s[j - lost] = m
    BY <1>3, <2>1, <2>2
  <2> QED BY <2>3
<1>9. Members(s) = EvictMembers(q, M) \cup {x}
  <2>1. \A i \in DOMAIN s : s[i] \in EvictMembers(q, M) \cup {x}
    <3>1. \A i \in DOMAIN s : i \in 1..n \/ i = n + 1
      BY <1>3
    <3> QED BY <1>3, <1>7, <3>1
  <2>2. \A m \in EvictMembers(q, M) \cup {x} : \E i \in DOMAIN s : m = s[i]
    <3>1. 1..n \subseteq DOMAIN s /\ n + 1 \in DOMAIN s
      BY <1>3
    <3> QED BY <1>3, <1>8, <3>1
  <2> QED BY <2>1, <2>2, Zenon DEF Members
<1> QED BY <1>3, <1>5, <1>6, <1>9 DEF s

-----------------------------------------------------------------------------
LEMMA InitInv == Init => Inv
<1> SUFFICES ASSUME Init PROVE Inv
  OBVIOUS
<1> USE DEF Init
<1>1. Provisioned = {} /\ DOMAIN accepted = {} /\ accepted \in Seq(Envelope)
      /\ entry \in [Provisioned -> Entry]
  BY DEF Provisioned
<1>2. \A r \in Identity : /\ order[r] = <<>> /\ ids[r] = {} /\ DOMAIN order[r] = {}
                          /\ order[r] \in Seq(MessageIds) /\ Len(order[r]) = 0
  OBVIOUS
<1>3. TypeOK
  BY <1>1, <1>2 DEF TypeOK
<1>4. WindowConsistent
  BY <1>2, LimitAssumption DEF WindowConsistent
<1> QED
  BY <1>1, <1>3, <1>4 DEF Inv, RegistryInv, RevisionCounts, GenerationInv,
     SecretsUnique, SeqBound, AcceptedInOrder, KeyHistory, GenerationsOrdered

LEMMA ProvisionInv ==
  ASSUME NEW d \in Device, NEW k \in KeyId, NEW s \in Secret, Inv, Provision(d, k, s)
  PROVE  Inv'
<1> USE DEF Provision, Unused, verifier
<1>1. /\ DOMAIN entry' = Provisioned \cup {d} /\ d \notin Provisioned
      /\ \A x \in Provisioned : entry'[x] = entry[x]
      /\ entry'[d] = [key |-> k, secret |-> s, revoked |-> FALSE,
                      revision |-> 1, retired |-> {}]
      /\ entry' = [x \in DOMAIN entry' |-> entry'[x]]
  OBVIOUS
<1>2. entry'[d] \in Entry
  BY <1>1 DEF Entry
<1>3. TypeOK'
  BY <1>1, <1>2 DEF Inv, TypeOK, Provisioned
<1>4. RegistryInv' /\ RevisionCounts'
  BY <1>1, FS_EmptySet, LimitAssumption DEF Inv, RegistryInv, RevisionCounts, Provisioned
<1>5. GenerationInv'
  BY <1>1 DEF Inv, GenerationInv, Provisioned
<1>6. SecretsUnique'
  <2>1. \A g \in generations : g[1] # d /\ g[3] # s
    BY <1>1 DEF Inv, GenerationInv
  <2> QED BY <2>1 DEF Inv, SecretsUnique
<1>7. SeqBound' /\ AcceptedInOrder' /\ GenerationsOrdered'
  BY DEF Inv, SeqBound, AcceptedInOrder, GenerationsOrdered, Of
<1>8. KeyHistory'
  BY <1>1 DEF Inv, KeyHistory, Provisioned
<1>9. WindowConsistent'
  BY DEF Inv, WindowConsistent
<1> QED BY <1>3, <1>4, <1>5, <1>6, <1>7, <1>8, <1>9 DEF Inv

\* The registry counters of an identity that is not revoked.
LEMMA CurrentRevision ==
  ASSUME RevisionCounts, NEW d \in Provisioned, ~ entry[d].revoked,
         Cardinality(entry[d].retired) \in Nat
  PROVE  /\ entry[d].revision = 1 + Cardinality(entry[d].retired)
         /\ Cardinality(entry[d].retired) <= MaxRotations
         /\ entry[d].key \notin entry[d].retired
<1>1. (IF entry[d].revoked THEN 1 ELSE 0) = 0
  OBVIOUS
<1>2. entry[d].revision = 1 + Cardinality(entry[d].retired)
                            + (IF entry[d].revoked THEN 1 ELSE 0)
  BY DEF RevisionCounts
<1> QED BY <1>1, <1>2 DEF RevisionCounts

LEMMA RotateKeyInv ==
  ASSUME NEW d \in Device, NEW k \in KeyId, NEW new \in KeyId, NEW s \in Secret,
         Inv, RotateKey(d, k, new, s)
  PROVE  Inv'
<1> DEFINE old == entry[d]
<1>1. /\ d \in Provisioned /\ old \in Entry /\ DOMAIN entry' = Provisioned
      /\ old.key = k /\ new # k /\ new \notin old.retired /\ ~ old.revoked
      /\ s \notin usedSecrets /\ Cardinality(old.retired) < MaxRotations
      /\ entry'[d] = [key |-> new, secret |-> s, revoked |-> FALSE,
                      revision |-> old.revision + 1,
                      retired |-> old.retired \cup {k}]
      /\ \A x \in Provisioned : x # d => entry'[x] = entry[x]
      /\ entry' = [x \in Provisioned |-> entry'[x]]
  BY DEF Inv, TypeOK, RotateKey, Unused, Provisioned
<1>2. /\ entry'[d] \in Entry /\ entry'[d].key = new /\ entry'[d].secret = s
      /\ entry'[d].retired = old.retired \cup {k}
      /\ entry'[d].revision = old.revision + 1 /\ entry'[d].revoked = FALSE
  BY <1>1 DEF Entry
<1>3. UNCHANGED <<ids, order, lastSeq, accepted, now>>
      /\ usedSecrets' = usedSecrets \cup {s}
      /\ generations' = generations \cup {<<d, new, s>>}
  BY DEF RotateKey, verifier
<1>4. TypeOK'
  <2>1. \A x \in Provisioned : entry'[x] \in Entry
    BY <1>1, <1>2 DEF Inv, TypeOK
  <2>2. entry' \in [DOMAIN entry' -> Entry]
    BY <1>1, <2>1
  <2>3. usedSecrets' \subseteq Secret /\ generations' \subseteq Device \X KeyId \X Secret
    BY <1>3 DEF Inv, TypeOK
  <2> QED BY <1>1, <1>3, <2>2, <2>3 DEF Inv, TypeOK, Provisioned
<1>5. RegistryInv' /\ RevisionCounts'
  <2>0. IsFiniteSet(old.retired) /\ Cardinality(old.retired) \in Nat
    BY <1>1, FS_CardinalityType DEF Inv, RegistryInv
  <2>1. /\ IsFiniteSet(old.retired) /\ k \notin old.retired
        /\ old.revision = 1 + Cardinality(old.retired)
    BY <1>1, <2>0, CurrentRevision DEF Inv
  <2>2. /\ IsFiniteSet(old.retired \cup {k})
        /\ Cardinality(old.retired \cup {k}) = Cardinality(old.retired) + 1
        /\ Cardinality(old.retired) \in Nat
    BY <2>1, FS_AddElement, FS_CardinalityType
  <2>3. RegistryInv'
    BY <1>1, <1>2, <2>2 DEF Inv, RegistryInv, Provisioned
  <2>4. RevisionCounts'
    <3>1. ASSUME NEW x \in Provisioned, x # d
          PROVE  /\ entry'[x].revision = 1 + Cardinality(entry'[x].retired)
                                           + (IF entry'[x].revoked THEN 1 ELSE 0)
                 /\ Cardinality(entry'[x].retired) <= MaxRotations
                 /\ entry'[x].key \notin entry'[x].retired
      BY <1>1, <3>1 DEF Inv, RevisionCounts
    <3>2. /\ entry'[d].revision = 1 + Cardinality(entry'[d].retired)
                                    + (IF entry'[d].revoked THEN 1 ELSE 0)
          /\ Cardinality(entry'[d].retired) <= MaxRotations
          /\ entry'[d].key \notin entry'[d].retired
      BY <1>1, <1>2, <2>1, <2>2, LimitAssumption
    <3> QED BY <1>1, <3>1, <3>2 DEF RevisionCounts, Provisioned
  <2> QED BY <2>3, <2>4
<1>6. GenerationInv'
  BY <1>1, <1>2, <1>3 DEF Inv, GenerationInv, Provisioned
<1>7. SecretsUnique'
  <2>1. \A g \in generations : g[3] # s /\ ~ (g[1] = d /\ g[2] = new)
    BY <1>1 DEF Inv, GenerationInv
  <2> QED BY <1>3, <2>1 DEF Inv, SecretsUnique
<1>8. SeqBound' /\ AcceptedInOrder' /\ GenerationsOrdered' /\ WindowConsistent'
  BY <1>3 DEF Inv, SeqBound, AcceptedInOrder, GenerationsOrdered, WindowConsistent, Of
<1>9. KeyHistory'
  BY <1>1, <1>2, <1>3 DEF Inv, KeyHistory, Provisioned
<1> QED BY <1>4, <1>5, <1>6, <1>7, <1>8, <1>9 DEF Inv

LEMMA RevokeInv ==
  ASSUME NEW d \in Device, NEW k \in KeyId, Inv, Revoke(d, k)
  PROVE  Inv'
<1> DEFINE old == entry[d]
<1>1. /\ d \in Provisioned /\ old \in Entry /\ DOMAIN entry' = Provisioned
      /\ ~ old.revoked
      /\ entry' = [entry EXCEPT ![d].revoked = TRUE, ![d].revision = @ + 1]
      /\ \A x \in Provisioned : x # d => entry'[x] = entry[x]
      /\ entry' = [x \in Provisioned |-> entry'[x]]
  BY DEF Inv, TypeOK, Revoke, Provisioned
<1>2. /\ entry'[d] \in Entry /\ entry'[d].key = old.key
      /\ entry'[d].retired = old.retired
      /\ entry'[d].revision = old.revision + 1 /\ entry'[d].revoked = TRUE
  BY <1>1 DEF Entry
<1>3. UNCHANGED <<ids, order, lastSeq, accepted, now, usedSecrets, generations>>
  BY DEF Revoke, verifier
<1>4. TypeOK'
  BY <1>1, <1>2, <1>3 DEF Inv, TypeOK, Provisioned
<1>5. RegistryInv'
  BY <1>1, <1>2 DEF Inv, RegistryInv, Provisioned
<1>6. RevisionCounts'
  <2>1. IsFiniteSet(old.retired) /\ Cardinality(old.retired) \in Nat
    BY <1>1, FS_CardinalityType DEF Inv, RegistryInv
  <2>2. /\ old.revision = 1 + Cardinality(old.retired)
        /\ Cardinality(old.retired) <= MaxRotations /\ old.key \notin old.retired
    BY <1>1, <2>1, CurrentRevision DEF Inv
  <2> QED BY <1>1, <1>2, <2>1, <2>2 DEF Inv, RevisionCounts, Provisioned
<1>7. GenerationInv' /\ SecretsUnique'
  BY <1>1, <1>2, <1>3 DEF Inv, GenerationInv, SecretsUnique, Provisioned
<1>8. SeqBound' /\ AcceptedInOrder' /\ GenerationsOrdered' /\ WindowConsistent'
  BY <1>3 DEF Inv, SeqBound, AcceptedInOrder, GenerationsOrdered, WindowConsistent, Of
<1>9. KeyHistory'
  BY <1>1, <1>2, <1>3 DEF Inv, KeyHistory, Provisioned
<1> QED BY <1>4, <1>5, <1>6, <1>7, <1>8, <1>9 DEF Inv

LEMMA VerifyInv ==
  ASSUME NEW e \in Envelope, Inv, Verify(e)
  PROVE  Inv'
<1> DEFINE r == Of(e)
           d == e.device
           n == Len(accepted) + 1
<1>1. /\ UNCHANGED <<entry, usedSecrets, generations, now>>
      /\ d \in Provisioned /\ e.key = entry[d].key
      /\ e.id \notin ids[r] /\ e.seq > lastSeq[r]
      /\ lastSeq' = [lastSeq EXCEPT ![r] = e.seq]
  BY DEF Verify, Authentic, InSequence, registry
<1>2. r \in Identity /\ e.id \in MessageIds /\ e.seq \in Nat
  BY EnvelopeAssumption DEF Of, Identity, MessageIds
<1>3. /\ accepted \in Seq(Envelope) /\ Len(accepted) \in Nat
      /\ DOMAIN accepted = 1..Len(accepted)
      /\ accepted' = Append(accepted, e) /\ accepted' \in Seq(Envelope)
      /\ DOMAIN accepted' = 1..n /\ n \notin DOMAIN accepted
      /\ accepted'[n] = e
      /\ \A i \in DOMAIN accepted : accepted'[i] = accepted[i]
  BY DEF Inv, TypeOK, Verify
<1>4. \A i \in DOMAIN accepted : /\ Of(accepted[i]) \in Identity
                                 /\ accepted[i].seq \in Nat
                                 /\ accepted[i].seq <= lastSeq[Of(accepted[i])]
  BY <1>3, EnvelopeAssumption DEF Inv, SeqBound, Of, Identity
<1>5. lastSeq \in [Identity -> Nat] /\ lastSeq' \in [Identity -> Nat]
  BY <1>1, <1>2 DEF Inv, TypeOK
<1>6. WindowConsistent' /\ order' \in [Identity -> Seq(MessageIds)]
      /\ ids' \in [Identity -> SUBSET MessageIds]
  <2> DEFINE o == order[r]
             rest == KeptOrder(r)
             kept == KeptIds(r)
  <2>1. /\ order' = [order EXCEPT ![r] = Append(rest, e.id)]
        /\ ids' = [ids EXCEPT ![r] = kept \cup {e.id}]
    BY DEF Verify
  <2>2. /\ o \in Seq(MessageIds) /\ Len(o) <= MaxIds
        /\ ids[r] = Members(o) /\ Distinct(o) /\ ids[r] \subseteq MessageIds
    BY <1>2 DEF Inv, TypeOK, WindowConsistent, Members, Distinct
  <2>3. /\ rest = Evict(o, MaxIds) /\ kept = EvictMembers(o, MaxIds)
        /\ e.id \notin Members(o) /\ MaxIds \in Nat \ {0}
        /\ kept \subseteq MessageIds
    BY <1>1, <2>2, LimitAssumption DEF Evict, EvictMembers, Full, KeptOrder, KeptIds
  <2> HIDE DEF o, rest, kept
  <2>4. /\ Append(rest, e.id) \in Seq(MessageIds)
        /\ Len(Append(rest, e.id)) <= MaxIds
        /\ Distinct(Append(rest, e.id))
        /\ Members(Append(rest, e.id)) = kept \cup {e.id}
    <3>1. /\ Append(Evict(o, MaxIds), e.id) \in Seq(MessageIds)
          /\ Len(Append(Evict(o, MaxIds), e.id)) <= MaxIds
          /\ Distinct(Append(Evict(o, MaxIds), e.id))
          /\ Members(Append(Evict(o, MaxIds), e.id)) = EvictMembers(o, MaxIds) \cup {e.id}
      <4>1. o \in Seq(MessageIds) /\ Len(o) <= MaxIds /\ Distinct(o)
        BY <2>2
      <4>2. e.id \in MessageIds /\ e.id \notin Members(o) /\ MaxIds \in Nat \ {0}
        BY <1>2, <2>3
      <4>3. ASSUME NEW q \in Seq(MessageIds), NEW x \in MessageIds,
                   Len(q) <= MaxIds, Distinct(q), x \notin Members(q)
            PROVE  /\ Append(Evict(q, MaxIds), x) \in Seq(MessageIds)
                   /\ Len(Append(Evict(q, MaxIds), x)) <= MaxIds
                   /\ Distinct(Append(Evict(q, MaxIds), x))
                   /\ Members(Append(Evict(q, MaxIds), x)) = EvictMembers(q, MaxIds) \cup {x}
        BY <4>2, <4>3, EvictAndAppend
      <4> QED BY <4>1, <4>2, <4>3, Zenon
    <3> QED BY <2>3, <3>1
  <2>5. order' \in [Identity -> Seq(MessageIds)] /\ ids' \in [Identity -> SUBSET MessageIds]
    BY <1>2, <2>1, <2>3, <2>4 DEF Inv, TypeOK
  <2>6. order'[r] = Append(rest, e.id) /\ ids'[r] = kept \cup {e.id}
    BY <1>2, <2>1 DEF Inv, TypeOK
  <2>7. ASSUME NEW x \in Identity, x # r
        PROVE  order'[x] = order[x] /\ ids'[x] = ids[x]
    BY <2>1, <2>7 DEF Inv, TypeOK
  <2>8. ASSUME NEW x \in Identity
        PROVE  /\ ids'[x] = Members(order'[x])
               /\ Distinct(order'[x])
               /\ Len(order'[x]) <= MaxIds
    <3>1. CASE x = r
      BY <2>4, <2>6, <3>1
    <3>2. CASE x # r
      BY <2>7, <3>2 DEF Inv, WindowConsistent, Members, Distinct
    <3> QED BY <3>1, <3>2
  <2> QED BY <2>5, <2>8 DEF WindowConsistent, Members, Distinct
<1>7. TypeOK'
  BY <1>1, <1>3, <1>5, <1>6 DEF Inv, TypeOK, Provisioned
<1>8. RegistryInv' /\ RevisionCounts' /\ GenerationInv' /\ SecretsUnique'
  BY <1>1 DEF Inv, RegistryInv, RevisionCounts, GenerationInv, SecretsUnique, Provisioned
<1>9. SeqBound'
  <2>1. ASSUME NEW i \in DOMAIN accepted' PROVE accepted'[i].seq <= lastSeq'[Of(accepted'[i])]
    <3>1. CASE i = n
      BY <1>1, <1>2, <1>3, <1>5, <3>1
    <3>2. CASE i \in DOMAIN accepted /\ Of(accepted[i]) = r
      BY <1>1, <1>2, <1>3, <1>4, <1>5, <3>2
    <3>3. CASE i \in DOMAIN accepted /\ Of(accepted[i]) # r
      BY <1>1, <1>2, <1>3, <1>4, <1>5, <3>3
    <3> QED BY <1>3, <2>1, <3>1, <3>2, <3>3
  <2> QED BY <2>1 DEF SeqBound, Of
<1>10. AcceptedInOrder'
  <2>1. ASSUME NEW i \in DOMAIN accepted', NEW j \in DOMAIN accepted', i < j,
               Of(accepted'[i]) = Of(accepted'[j])
        PROVE  accepted'[i].seq < accepted'[j].seq
    <3>1. CASE j \in DOMAIN accepted
      BY <1>3, <2>1, <3>1 DEF Inv, AcceptedInOrder
    <3>2. CASE j = n
      <4>1. i \in DOMAIN accepted /\ accepted'[i] = accepted[i] /\ accepted'[j] = e
        BY <1>3, <2>1, <3>2
      <4> QED BY <1>1, <1>2, <1>4, <1>5, <2>1, <4>1
    <3> QED BY <1>3, <2>1, <3>1, <3>2
  <2> QED BY <2>1 DEF AcceptedInOrder, Of
<1>11. KeyHistory'
  BY <1>1, <1>3 DEF Inv, KeyHistory, Provisioned
<1>12. GenerationsOrdered'
  <2> SUFFICES ASSUME NEW i \in DOMAIN accepted', NEW j \in DOMAIN accepted',
                      NEW k \in DOMAIN accepted', i < j, j < k,
                      accepted'[i].device = accepted'[j].device,
                      Of(accepted'[i]) = Of(accepted'[k])
               PROVE  accepted'[i].key = accepted'[j].key
    BY DEF GenerationsOrdered, Of
  <2>1. i \in DOMAIN accepted /\ j \in DOMAIN accepted
        /\ accepted'[i] = accepted[i] /\ accepted'[j] = accepted[j]
    BY <1>3
  <2>2. CASE k \in DOMAIN accepted
    BY <1>3, <2>1, <2>2 DEF Inv, GenerationsOrdered
  <2>3. CASE k = n
    <3>1. accepted[i].device = d /\ accepted[i].key = entry[d].key
      BY <1>1, <1>3, <2>1, <2>3 DEF Of
    <3>2. entry[d].key \notin entry[d].retired
      BY <1>1 DEF Inv, RevisionCounts
    <3> QED BY <2>1, <3>1, <3>2 DEF Inv, KeyHistory
  <2> QED BY <1>3, <2>2, <2>3
<1> QED BY <1>6, <1>7, <1>8, <1>9, <1>10, <1>11, <1>12 DEF Inv

LEMMA IdleInv ==
  ASSUME Inv, UNCHANGED <<registry, verifier>>, now' \in Nat
  PROVE  Inv'
<1> USE DEF registry, verifier
<1>1. TypeOK'
  BY DEF Inv, TypeOK, Provisioned
<1>2. RegistryInv' /\ RevisionCounts' /\ GenerationInv' /\ SecretsUnique'
  BY DEF Inv, RegistryInv, RevisionCounts, GenerationInv, SecretsUnique, Provisioned
<1>3. SeqBound' /\ AcceptedInOrder' /\ GenerationsOrdered' /\ WindowConsistent' /\ KeyHistory'
  BY DEF Inv, SeqBound, AcceptedInOrder, GenerationsOrdered, WindowConsistent,
     KeyHistory, Provisioned, Of
<1> QED BY <1>1, <1>2, <1>3 DEF Inv

LEMMA StepInv == Inv /\ [Next]_vars => Inv'
<1> SUFFICES ASSUME Inv, [Next]_vars PROVE Inv'
  OBVIOUS
<1>1. CASE \E d \in Device, k \in KeyId, s \in Secret : Provision(d, k, s)
  BY <1>1, ProvisionInv
<1>2. CASE \E d \in Device, k, new \in KeyId, s \in Secret : RotateKey(d, k, new, s)
  BY <1>2, RotateKeyInv
<1>3. CASE \E d \in Device, k \in KeyId : Revoke(d, k)
  BY <1>3, RevokeInv
<1>4. CASE \E e \in Envelope : Verify(e)
  BY <1>4, VerifyInv
<1>5. CASE Tick
  BY <1>5, IdleInv DEF Tick, Inv, TypeOK
<1>6. CASE UNCHANGED vars
  BY <1>6, IdleInv DEF vars, Inv, TypeOK
<1> QED BY <1>1, <1>2, <1>3, <1>4, <1>5, <1>6 DEF Next

\* The invariant the theorems below rest on holds in every reachable state.
THEOREM Invariance == Spec => []Inv
<1>1. Init => Inv
  BY InitInv
<1>2. Inv /\ [Next]_vars => Inv'
  BY StepInv
<1> QED BY <1>1, <1>2, PTL DEF Spec

-----------------------------------------------------------------------------
\* No envelope is accepted twice, and sequences of one key generation only
\* grow, although the verifier remembers a bounded number of message ids.
THEOREM NoReplay == Spec => []AcceptedInOrder
<1>1. Inv => AcceptedInOrder
  BY DEF Inv
<1> QED BY <1>1, Invariance, PTL

\* Rotation starts a fresh replay state without reopening an old one: the
\* generations of a device never interleave among the accepted messages.
THEOREM NoOldGeneration == Spec => []GenerationsOrdered
<1>1. Inv => GenerationsOrdered
  BY DEF Inv
<1> QED BY <1>1, Invariance, PTL

\* Key material is never shared between devices or generations, and a retired
\* key id never becomes current again.
THEOREM NoSharedSecret == Spec => []SecretsUnique
<1>1. Inv => SecretsUnique
  BY DEF Inv
<1> QED BY <1>1, Invariance, PTL

\* The identity revision counts every rotation and the revocation exactly once.
THEOREM RevisionExact == Spec => []RevisionCounts
<1>1. Inv => RevisionCounts
  BY DEF Inv
<1> QED BY <1>1, Invariance, PTL

\* The two representations of the id window agree, so evicting never fails.
THEOREM WindowAgrees == Spec => []WindowConsistent
<1>1. Inv => WindowConsistent
  BY DEF Inv
<1> QED BY <1>1, Invariance, PTL

\* A revoked identity stays exactly as it was revoked and is never heard again.
THEOREM RevocationFinal == Spec => RevocationTerminal
<1> DEFINE Final == \A d \in Provisioned : entry[d].revoked =>
             /\ d \in DOMAIN entry' /\ entry'[d] = entry[d]
             /\ accepted' # accepted => accepted'[Len(accepted')].device # d
<1>1. Inv /\ [Next]_vars => [Final]_vars
  <2> SUFFICES ASSUME Inv, Next, NEW d \in Provisioned, entry[d].revoked
               PROVE  /\ d \in DOMAIN entry' /\ entry'[d] = entry[d]
                      /\ accepted' # accepted => accepted'[Len(accepted')].device # d
    OBVIOUS
  <2> USE DEF Inv, TypeOK, Provisioned, registry, verifier
  <2>1. ASSUME NEW x \in Device, NEW k \in KeyId, NEW s \in Secret, Provision(x, k, s)
        PROVE  d \in DOMAIN entry' /\ entry'[d] = entry[d] /\ accepted' = accepted
    BY <2>1 DEF Provision
  <2>2. ASSUME NEW x \in Device, NEW k \in KeyId, NEW new \in KeyId, NEW s \in Secret,
               RotateKey(x, k, new, s)
        PROVE  d \in DOMAIN entry' /\ entry'[d] = entry[d] /\ accepted' = accepted
    BY <2>2 DEF RotateKey
  <2>3. ASSUME NEW x \in Device, NEW k \in KeyId, Revoke(x, k)
        PROVE  d \in DOMAIN entry' /\ entry'[d] = entry[d] /\ accepted' = accepted
    BY <2>3 DEF Revoke
  <2>4. ASSUME NEW e \in Envelope, Verify(e)
        PROVE  /\ d \in DOMAIN entry' /\ entry'[d] = entry[d]
               /\ accepted'[Len(accepted')].device # d
    <3>1. accepted'[Len(accepted')] = e
      BY <2>4 DEF Verify
    <3>2. e.device # d /\ entry' = entry
      BY <2>4 DEF Verify, Authentic
    <3> QED BY <3>1, <3>2
  <2>5. CASE Tick
    BY <2>5 DEF Tick
  <2> QED BY <2>1, <2>2, <2>3, <2>4, <2>5 DEF Next
<1> QED BY <1>1, Invariance, PTL DEF Spec, RevocationTerminal

-----------------------------------------------------------------------------
(* The pairing ceremony.  The invariant adds to the properties that the    *)
(* hello a participant compares is set once and is of the other role, and  *)
(* that what a sink accepted was computed from it.                         *)

Held == {"private key", "root"}

Types ==
  /\ phase \in [Participant -> Phases]
  /\ peer \in [Participant -> SUBSET Hellos]
  /\ secrets \in [Participant -> SUBSET Held]
  /\ sent \subseteq Hellos /\ clock \in Nat

PeerInv ==
  \A p \in Participant :
    /\ \A h \in peer[p] : h.ceremony = CeremonyOf[p] /\ h.role # RoleOf[p]
    /\ \A g, h \in peer[p] : g = h
    /\ phase[p] = "offered" => peer[p] = {}
    /\ phase[p] \in {"awaiting", "established", "consumed"} => peer[p] # {}

Record(p, h, t) == [by |-> p, keyId |-> Transcript(p, h), root |-> Root(p, h), at |-> t]

InstalledInv ==
  /\ \A a \in installed :
       /\ a.by \in Participant /\ phase[a.by] = "consumed" /\ a.at < Expires[a.by]
       /\ \A h \in peer[a.by] : HonestPeer(a.by, h) /\ a = Record(a.by, h, a.at)
  /\ \A a, b \in installed : a.by = b.by => a = b

RootHonest ==
  \A p \in Participant : "root" \in secrets[p] => \A h \in peer[p] : HonestPeer(p, h)

CeremonyInv == Types /\ PeerInv /\ SecretsHeld /\ InstalledInv /\ RootHonest

\* The person's comparison: two displays of different roles that show the same
\* transcript belong to participants that hold each other's hello.
LEMMA SameDisplay ==
  ASSUME NEW p \in Participant, NEW q \in Participant, RoleOf[p] # RoleOf[q],
         Displayed(p) = Displayed(q), NEW h \in peer[p]
  PROVE  h = Hello(q)
<1>1. PICK g \in peer[q] : Transcript(p, h) = Transcript(q, g)
  BY DEF Displayed
<1>2. Hello(p) # Hello(q)
  <2>1. Hello(p).role = RoleOf[p] /\ Hello(q).role = RoleOf[q]
    BY DEF Hello
  <2> QED BY <2>1
<1> HIDE DEF Hello
<1> QED BY <1>1, <1>2 DEF Transcript

LEMMA CeremonyInitInv == CeremonyInit => CeremonyInv
<1> SUFFICES ASSUME CeremonyInit PROVE CeremonyInv
  OBVIOUS
<1>1. Types
  BY DEF CeremonyInit, Types, Phases, Held
<1>2. PeerInv /\ InstalledInv
  BY DEF CeremonyInit, PeerInv, InstalledInv
<1>3. SecretsHeld
  BY DEF CeremonyInit, SecretsHeld, Terminal
<1>4. RootHonest
  BY DEF CeremonyInit, RootHonest
<1> QED BY <1>1, <1>2, <1>3, <1>4 DEF CeremonyInv

\* Calls that leave phases, hellos and secrets as they are.
LEMMA QuietInv ==
  ASSUME CeremonyInv, UNCHANGED <<phase, peer, secrets, installed>>,
         sent' \subseteq Hellos, clock' \in Nat
  PROVE  CeremonyInv'
  BY DEF CeremonyInv, Types, PeerInv, SecretsHeld, InstalledInv, RootHonest, HonestPeer, Record

LEMMA ReceiveInv ==
  ASSUME CeremonyInv, NEW p \in Participant, NEW h \in Hellos, Receive(p, h)
  PROVE  CeremonyInv'
<1>1. phase[p] = "offered" /\ "root" \notin secrets[p]
  <2>1. phase[p] \notin Terminal /\ peer[p] = {} /\ phase[p] \in Phases
    BY DEF Receive, Live, CeremonyInv, Types
  <2>2. phase[p] = "offered"
    BY <2>1 DEF CeremonyInv, PeerInv, Phases, Terminal
  <2>3. secrets[p] = {"private key"}
    BY <2>2 DEF CeremonyInv, SecretsHeld, Terminal
  <2> QED BY <2>2, <2>3
<1>2. /\ h.ceremony = CeremonyOf[p] /\ h.role # RoleOf[p]
      /\ peer' = [peer EXCEPT ![p] = {h}]
      /\ phase' = [phase EXCEPT ![p] = "awaiting"]
      /\ UNCHANGED <<secrets, sent, installed, clock>>
  BY DEF Receive, PeerFieldsValid
<1>3. Types'
  BY <1>2 DEF CeremonyInv, Types, Phases
<1>4. PeerInv'
  BY <1>2 DEF CeremonyInv, Types, PeerInv
<1>5. SecretsHeld'
  BY <1>1, <1>2 DEF CeremonyInv, Types, SecretsHeld, Terminal
<1>6. InstalledInv'
  <2>1. \A a \in installed : a.by # p
    BY <1>1 DEF CeremonyInv, InstalledInv
  <2> QED BY <1>2, <2>1 DEF CeremonyInv, Types, InstalledInv
<1>7. RootHonest'
  BY <1>1, <1>2 DEF CeremonyInv, Types, RootHonest
<1> QED BY <1>3, <1>4, <1>5, <1>6, <1>7 DEF CeremonyInv

LEMMA ConfirmInv ==
  ASSUME CeremonyInv, NEW p \in Participant, NEW q \in Participant, RoleOf[p] # RoleOf[q],
         Confirm(p, q)
  PROVE  CeremonyInv'
<1>1. /\ phase[p] = "awaiting"
      /\ secrets' = [secrets EXCEPT ![p] = @ \cup {"root"}]
      /\ phase' = [phase EXCEPT ![p] = "established"]
      /\ UNCHANGED <<peer, sent, installed, clock>>
  BY DEF Confirm
<1>2. \A h \in peer[p] : HonestPeer(p, h)
  <2>1. ASSUME NEW h \in peer[p] PROVE HonestPeer(p, h)
    <3>1. h = Hello(q)
      BY SameDisplay DEF Confirm
    <3>2. h.ceremony = CeremonyOf[p] /\ Hello(q).ceremony = CeremonyOf[q]
      BY DEF CeremonyInv, PeerInv, Hello
    <3> QED BY <3>1, <3>2 DEF HonestPeer
  <2> QED BY <2>1
<1>3. Types'
  BY <1>1 DEF CeremonyInv, Types, Phases, Held
<1>4. PeerInv'
  BY <1>1 DEF CeremonyInv, Types, PeerInv
<1>5. SecretsHeld'
  BY <1>1 DEF CeremonyInv, Types, SecretsHeld, Terminal
<1>6. InstalledInv'
  <2>1. \A a \in installed : a.by # p
    BY <1>1 DEF CeremonyInv, InstalledInv
  <2> QED BY <1>1, <2>1 DEF CeremonyInv, Types, InstalledInv
<1>7. RootHonest'
  BY <1>1, <1>2 DEF CeremonyInv, Types, RootHonest
<1> QED BY <1>3, <1>4, <1>5, <1>6, <1>7 DEF CeremonyInv

LEMMA ConsumeInv ==
  ASSUME CeremonyInv, NEW p \in Participant, Consume(p)
  PROVE  CeremonyInv'
<1>1. /\ phase[p] = "established" /\ clock < Expires[p]
      /\ secrets' = [secrets EXCEPT ![p] = {}]
      /\ phase' = [phase EXCEPT ![p] = "consumed"]
      /\ UNCHANGED <<peer, sent, clock>>
      /\ installed' = installed \cup {Record(p, h, clock) : h \in peer[p]}
  BY DEF Consume, Live, Record
<1>2. \A a \in installed : a.by # p
  BY <1>1 DEF CeremonyInv, InstalledInv
<1>3. /\ \A h \in peer[p] : HonestPeer(p, h)
      /\ \A g, h \in peer[p] : g = h
  BY <1>1 DEF CeremonyInv, SecretsHeld, RootHonest, PeerInv, Terminal
<1>4. \A h, t : Record(p, h, t).by = p /\ Record(p, h, t).at = t
  BY DEF Record
<1>5. Types'
  BY <1>1 DEF CeremonyInv, Types, Phases, Terminal
<1>6. PeerInv'
  BY <1>1 DEF CeremonyInv, Types, PeerInv
<1>7. SecretsHeld'
  BY <1>1 DEF CeremonyInv, Types, SecretsHeld, Terminal
<1>8. RootHonest'
  BY <1>1 DEF CeremonyInv, Types, RootHonest
<1>9. InstalledInv'
  <2>1. ASSUME NEW a \in installed'
        PROVE  /\ a.by \in Participant /\ phase'[a.by] = "consumed" /\ a.at < Expires[a.by]
               /\ \A h \in peer'[a.by] : HonestPeer(a.by, h) /\ a = Record(a.by, h, a.at)
    <3>1. CASE a \in installed
      <4>1. a.by \in Participant /\ a.by # p
        BY <1>2, <3>1 DEF CeremonyInv, InstalledInv
      <4>2. phase'[a.by] = phase[a.by] /\ peer'[a.by] = peer[a.by]
        BY <1>1, <4>1 DEF CeremonyInv, Types
      <4> QED BY <3>1, <4>1, <4>2 DEF CeremonyInv, InstalledInv
    <3>2. CASE a \notin installed
      <4>1. PICK h \in peer[p] : a = Record(p, h, clock)
        BY <1>1, <3>2
      <4>2. a.by = p /\ a.at = clock /\ phase'[p] = "consumed" /\ peer'[p] = peer[p]
        BY <1>1, <1>4, <4>1 DEF CeremonyInv, Types
      <4> QED BY <1>1, <1>3, <4>1, <4>2
    <3> QED BY <3>1, <3>2
  <2>2. ASSUME NEW a \in installed', NEW b \in installed', a.by = b.by PROVE a = b
    <3>1. CASE a \in installed /\ b \in installed
      BY <2>2, <3>1 DEF CeremonyInv, InstalledInv
    <3>2. CASE a \notin installed /\ b \notin installed
      BY <1>1, <1>3, <3>2
    <3>3. CASE a \in installed /\ b \notin installed
      BY <1>1, <1>2, <1>4, <2>2, <3>3
    <3>4. CASE a \notin installed /\ b \in installed
      BY <1>1, <1>2, <1>4, <2>2, <3>4
    <3> QED BY <3>1, <3>2, <3>3, <3>4
  <2> QED BY <2>1, <2>2 DEF InstalledInv, HonestPeer, Record
<1> QED BY <1>5, <1>6, <1>7, <1>8, <1>9 DEF CeremonyInv

LEMMA EndInv ==
  ASSUME CeremonyInv, NEW p \in Participant, NEW how \in {"cancelled", "expired"}, End(p, how)
  PROVE  CeremonyInv'
<1>1. /\ phase[p] \notin Terminal
      /\ secrets' = [secrets EXCEPT ![p] = {}]
      /\ phase' = [phase EXCEPT ![p] = how]
      /\ UNCHANGED <<peer, sent, installed, clock>>
  BY DEF End
<1>2. Types'
  BY <1>1 DEF CeremonyInv, Types, Phases, Terminal
<1>3. PeerInv'
  BY <1>1 DEF CeremonyInv, Types, PeerInv
<1>4. SecretsHeld'
  BY <1>1 DEF CeremonyInv, Types, SecretsHeld, Terminal
<1>5. InstalledInv'
  <2>1. \A a \in installed : a.by # p
    BY <1>1 DEF CeremonyInv, InstalledInv, Terminal
  <2> QED BY <1>1, <2>1 DEF CeremonyInv, Types, InstalledInv
<1>6. RootHonest'
  BY <1>1 DEF CeremonyInv, Types, RootHonest
<1> QED BY <1>2, <1>3, <1>4, <1>5, <1>6 DEF CeremonyInv

LEMMA CeremonyNextInv == CeremonyInv /\ [CeremonyNext]_ceremonyVars => CeremonyInv'
<1> SUFFICES ASSUME CeremonyInv, [CeremonyNext]_ceremonyVars PROVE CeremonyInv'
  OBVIOUS
<1>1. sent \subseteq Hellos /\ clock \in Nat /\ Forged \subseteq Hellos
  BY DEF CeremonyInv, Types, Hellos
<1>2. CASE UNCHANGED ceremonyVars
  BY <1>1, <1>2, QuietInv DEF ceremonyVars
<1>3. ASSUME NEW p \in Participant, SendHello(p) PROVE CeremonyInv'
  <2>1. sent' \subseteq Hellos
    BY <1>1, <1>3 DEF SendHello, Hellos
  <2> QED BY <1>1, <1>3, <2>1, QuietInv DEF SendHello
<1>4. ASSUME NEW p \in Participant, NEW h \in sent \cup Forged, Receive(p, h) PROVE CeremonyInv'
  BY <1>1, <1>4, ReceiveInv
<1>5. ASSUME NEW p \in Participant, NEW q \in Participant, RoleOf[p] # RoleOf[q], Confirm(p, q)
      PROVE  CeremonyInv'
  BY <1>5, ConfirmInv
<1>6. ASSUME NEW p \in Participant, Consume(p) PROVE CeremonyInv'
  BY <1>6, ConsumeInv
<1>7. ASSUME NEW p \in Participant, Cancel(p) \/ Expire(p) PROVE CeremonyInv'
  BY <1>7, EndInv DEF Cancel, Expire
<1>8. CASE Elapse
  BY <1>1, <1>8, QuietInv DEF Elapse
<1> QED BY <1>2, <1>3, <1>4, <1>5, <1>6, <1>7, <1>8 DEF CeremonyNext

-----------------------------------------------------------------------------
LEMMA CeremonyInvariance == CeremonySpec => []CeremonyInv
  BY CeremonyInitInv, CeremonyNextInv, PTL DEF CeremonySpec

\* Type correctness: a participant remembers at most one hello.
THEOREM CeremonyTyped == CeremonySpec => []CeremonyTypeOK
<1>1. CeremonyInv => CeremonyTypeOK
  <2> SUFFICES ASSUME CeremonyInv, NEW p \in Participant PROVE Cardinality(peer[p]) <= 1
    BY DEF CeremonyInv, Types, CeremonyTypeOK, Held
  <2>1. CASE peer[p] = {}
    BY <2>1, FS_EmptySet
  <2>2. CASE peer[p] # {}
    <3>1. PICK h \in peer[p] : TRUE
      BY <2>2
    <3>2. peer[p] = {h}
      BY <3>1 DEF CeremonyInv, PeerInv
    <3>3. Cardinality({h}) = 1
      BY FS_Singleton
    <3> QED BY <3>2, <3>3
  <2> QED BY <2>1, <2>2
<1> QED BY CeremonyInvariance, <1>1, PTL

\* The machine in the middle fails: a root that is held or installed is shared
\* with an honest participant of the same ceremony and the other role.
THEOREM NoRootWithNetwork == CeremonySpec => []RootsShared
<1>1. CeremonyInv => RootsShared
  <2> SUFFICES ASSUME CeremonyInv, NEW a \in installed, NEW h \in peer[a.by]
               PROVE  HonestPeer(a.by, h) /\ a.root = Root(a.by, h)
    BY DEF CeremonyInv, RootHonest, RootsShared
  <2>1. HonestPeer(a.by, h) /\ a = Record(a.by, h, a.at)
    BY DEF CeremonyInv, InstalledInv
  <2>2. Record(a.by, h, a.at).root = Root(a.by, h)
    BY DEF Record
  <2> QED BY <2>1, <2>2
<1> QED BY CeremonyInvariance, <1>1, PTL

\* A participant installs its root at most once, inside its window.
THEOREM OneInstallation == CeremonySpec => []InstalledOnce
<1>1. CeremonyInv => InstalledOnce
  BY DEF CeremonyInv, InstalledInv, InstalledOnce
<1> QED BY CeremonyInvariance, <1>1, PTL

\* An ended ceremony holds no secret, and a live one the secrets of its phase.
THEOREM NoSecretKept == CeremonySpec => []SecretsHeld
<1>1. CeremonyInv => SecretsHeld
  BY DEF CeremonyInv
<1> QED BY CeremonyInvariance, <1>1, PTL

\* Two sinks with one key id hold one root, of one device and one edge.
THEOREM SidesAgree == CeremonySpec => []RootsAgree
<1>1. CeremonyInv => RootsAgree
  <2> SUFFICES ASSUME CeremonyInv, NEW a \in installed, NEW b \in installed, a.keyId = b.keyId
               PROVE  a.root = b.root /\ (RoleOf[a.by] = RoleOf[b.by] => a = b)
    BY DEF RootsAgree
  <2>1. PICK g \in peer[a.by], q \in Participant :
          /\ g = Hello(q) /\ RoleOf[q] # RoleOf[a.by] /\ a = Record(a.by, g, a.at)
    BY DEF CeremonyInv, InstalledInv, PeerInv, HonestPeer
  <2>2. PICK h \in peer[b.by], r \in Participant :
          /\ h = Hello(r) /\ RoleOf[r] # RoleOf[b.by] /\ b = Record(b.by, h, b.at)
    BY DEF CeremonyInv, InstalledInv, PeerInv, HonestPeer
  <2>3. a.by \in Participant /\ b.by \in Participant
    BY DEF CeremonyInv, InstalledInv
  <2>4. /\ a.keyId = {Hello(a.by), Hello(q)} /\ b.keyId = {Hello(b.by), Hello(r)}
        /\ a.root = [shared |-> {a.by, Hello(q).key}, salt |-> a.keyId]
        /\ b.root = [shared |-> {b.by, Hello(r).key}, salt |-> b.keyId]
    <3>1. ASSUME NEW x, NEW y, NEW t
          PROVE  /\ Record(x, y, t).keyId = {Hello(x), y}
                 /\ Record(x, y, t).root = [shared |-> {x, y.key}, salt |-> {Hello(x), y}]
      BY DEF Record, Transcript, Root
    <3>2. a.keyId = Record(a.by, g, a.at).keyId /\ a.root = Record(a.by, g, a.at).root
      BY <2>1
    <3>3. b.keyId = Record(b.by, h, b.at).keyId /\ b.root = Record(b.by, h, b.at).root
      BY <2>2
    <3>4. /\ a.keyId = {Hello(a.by), g} /\ b.keyId = {Hello(b.by), h}
          /\ a.root = [shared |-> {a.by, g.key}, salt |-> {Hello(a.by), g}]
          /\ b.root = [shared |-> {b.by, h.key}, salt |-> {Hello(b.by), h}]
      <4>1. /\ Record(a.by, g, a.at).keyId = {Hello(a.by), g}
            /\ Record(a.by, g, a.at).root = [shared |-> {a.by, g.key}, salt |-> {Hello(a.by), g}]
        BY <3>1
      <4>2. /\ Record(b.by, h, b.at).keyId = {Hello(b.by), h}
            /\ Record(b.by, h, b.at).root = [shared |-> {b.by, h.key}, salt |-> {Hello(b.by), h}]
        BY <3>1
      <4> QED BY <3>2, <3>3, <4>1, <4>2
    <3> HIDE DEF Hello
    <3> QED BY <2>1, <2>2, <3>4
  <2>5. \A x \in Participant : Hello(x).key = x /\ Hello(x).role = RoleOf[x]
    BY DEF Hello
  <2> HIDE DEF Hello
  <2>6. \/ a.by = b.by /\ q = r
        \/ a.by = r /\ q = b.by
    <3>1. \/ Hello(a.by) = Hello(b.by) /\ Hello(q) = Hello(r)
          \/ Hello(a.by) = Hello(r) /\ Hello(q) = Hello(b.by)
      <4>1. Hello(a.by) # Hello(q) /\ Hello(b.by) # Hello(r)
        BY <2>1, <2>2, <2>3, <2>5
      <4> QED BY <2>4, <4>1
    <3> QED BY <2>1, <2>2, <2>3, <2>5, <3>1
  <2>7. {a.by, q} = {b.by, r}
    BY <2>6
  <2>8. a.root = b.root
    BY <2>1, <2>2, <2>4, <2>5, <2>7
  <2>9. RoleOf[a.by] = RoleOf[b.by] => a = b
    BY <2>1, <2>2, <2>6 DEF CeremonyInv, InstalledInv
  <2> QED BY <2>8, <2>9
<1> QED BY CeremonyInvariance, <1>1, PTL

\* Two sides agree on one root and share it with nobody else.
THEOREM PairedOnly == CeremonySpec => []RootsPaired
BY NoRootWithNetwork, SidesAgree, PTL DEF RootsPaired

\* The ceremony moves forward only, and the hello that the displays compared is
\* never exchanged for another.
THEOREM OnlyForward == CeremonySpec => Forward
<1> DEFINE A == \A p \in Participant :
                  /\ phase'[p] # phase[p] => Rank[phase'[p]] > Rank[phase[p]]
                  /\ peer[p] # {} => peer'[p] = peer[p]
<1>1. CeremonyInv /\ [CeremonyNext]_ceremonyVars => [\A p \in Participant :
                                  /\ phase'[p] # phase[p] => Rank[phase'[p]] > Rank[phase[p]]
                                  /\ peer[p] # {} => peer'[p] = peer[p]]_ceremonyVars
  <2> SUFFICES ASSUME CeremonyInv, CeremonyNext, NEW p \in Participant
               PROVE  /\ phase'[p] # phase[p] => Rank[phase'[p]] > Rank[phase[p]]
                      /\ peer[p] # {} => peer'[p] = peer[p]
    BY DEF ceremonyVars
  <2>1. /\ phase \in [Participant -> Phases] /\ peer \in [Participant -> SUBSET Hellos]
        /\ \A q \in Participant : phase[q] = "offered" => peer[q] = {}
        /\ \A q \in Participant : phase[q] \in {"awaiting", "established"} => peer[q] # {}
    BY DEF CeremonyInv, Types, PeerInv
  <2>2. CASE UNCHANGED <<phase, peer>>
    BY <2>2
  <2>3. ASSUME NEW q \in Participant, NEW h, Receive(q, h) PROVE A
    <3>1. phase[q] = "offered" /\ peer[q] = {}
      BY <2>1, <2>3 DEF Receive, Live, Phases, Terminal
    <3> QED BY <2>1, <2>3, <3>1 DEF Receive, Rank
  <2>4. ASSUME NEW q \in Participant, NEW r \in Participant, Confirm(q, r) PROVE A
    BY <2>1, <2>4 DEF Confirm, Rank
  <2>5. ASSUME NEW q \in Participant, Consume(q) PROVE A
    BY <2>1, <2>5 DEF Consume, Rank
  <2>6. ASSUME NEW q \in Participant, NEW how \in {"cancelled", "expired"}, End(q, how) PROVE A
    BY <2>1, <2>6 DEF End, Phases, Terminal, Rank
  <2> QED BY <2>2, <2>3, <2>4, <2>5, <2>6
          DEF CeremonyNext, SendHello, Elapse, Cancel, Expire
<1> QED BY CeremonyInvariance, <1>1, PTL DEF CeremonySpec, Forward
=============================================================================
