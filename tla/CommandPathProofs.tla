---------------------------- MODULE CommandPathProofs ----------------------------
(***************************************************************************)
(* Machine-checked proofs about the path of a command: the session under   *)
(* which it is sealed (LinkSession), for any sides and routes, any offsets *)
(* of their clocks and any limits, and the device, the gateways and the    *)
(* services between which it travels (CommandDesk), for any operators,     *)
(* menus, captures and contexts.                                           *)
(*                                                                         *)
(* Everything a side does under a lease is traced back to the contract     *)
(* that was issued for it: a tag names its lease (TagsNameLeases), so a    *)
(* changed contract is not admitted; a key names its lease, so what was    *)
(* sealed under it was sealed by a side that holds its session, at a time  *)
(* of the lease and with a nonce that this side still remembers            *)
(* (SealedUnderLease).                                                     *)
(*                                                                         *)
(* An answer is traced back to the message that asked for it: a text       *)
(* message was signed under the profile of its action (TextInv), a capture *)
(* that was sent is used up or still in the recorder (VoiceInv), and a job *)
(* has a phase exactly when its command is remembered (AnsweredInv).       *)
(***************************************************************************)
EXTENDS LinkSession, CommandDesk, FiniteSetTheorems, TLAPS

Key      == [secret : Secret, lease : Lease]
Contract == [lease : Lease, tag : Key]
Binding  == [route : Route, session : SessionId, frame : Frame]
Payload  == [by : Side, key : Key, keyId : KeyId, nonce : Nonce, aad : Binding, at : Nat]
Opening  == [side : Side, lease : Lease, message : Nat, outer : Binding, at : Nat]
Vault    == UNION {[R -> Entry] : R \in SUBSET Route}

TypeInv ==
  /\ vault \in [Side -> Vault]
  /\ usedSecrets \in [Side -> SUBSET Secret]
  /\ sessions \in [Side -> SUBSET Lease]
  /\ usedNonces \in [Side -> SUBSET (KeyId \X Nonce)]
  /\ now \in Nat
  /\ contracts \subseteq Contract /\ IsFiniteSet(contracts)
  /\ sealed \in Seq(Payload)
  /\ opened \subseteq Opening

\* The records of a side and the order of their eviction.
RecordsInv ==
  \A s \in Side : DOMAIN records[s] \subseteq LeaseId /\ recordOrder[s] \in Seq(LeaseId)

TagsNameLeases == \A c \in contracts : c.tag.lease = c.lease

\* A secret in a vault is one that this vault has ever been given.
SecretsUsed ==
  \A s \in Side : \A r \in DOMAIN vault[s] : vault[s][r].secret \in usedSecrets[s]

\* Nobody holds a session that outlasts the longest lease.
SessionsShort ==
  \A s \in Side : \A lease \in sessions[s] : lease.expires - lease.issued <= MaxTTL

\* A message was sealed by a side under a session it holds, while the lease had
\* begun, and that side still remembers its nonce.
SealedUnderLease ==
  \A i \in DOMAIN sealed :
    LET m == sealed[i]  lease == m.key.lease IN
    /\ lease \in sessions[m.by]
    /\ m.keyId = lease.key
    /\ <<lease.key, m.nonce>> \in usedNonces[m.by]
    /\ lease.issued <= m.at + Ahead[m.by]

\* What is open was sealed under the lease that opened it, which had not expired.
OpenedUnderLease ==
  \A o \in opened :
    /\ o.message \in DOMAIN sealed
    /\ o.lease \in sessions[o.side]
    /\ sealed[o.message].key.lease = o.lease
    /\ sealed[o.message].aad = o.outer
    /\ o.outer.route = o.lease.route /\ o.outer.session = o.lease.session
    /\ o.at + Ahead[o.side] < o.lease.expires

Inv ==
  /\ TypeInv /\ RecordsInv
  /\ TagsNameLeases /\ SecretsUsed /\ SessionsIssued /\ SessionsShort
  /\ SealedUnderLease /\ OpenedUnderLease /\ NonceOnce
-----------------------------------------------------------------------------
LEMMA Limits ==
  /\ MinTTL \in Nat \ {0} /\ MaxTTL \in Nat /\ MaxRecords \in Nat \ {0}
  /\ Ahead \in [Side -> Nat]
BY LimitAssumption, SideAssumption

\* A vault is a function on some of the routes.
LEMMA VaultType ==
  ASSUME NEW v \in Vault
  PROVE  /\ DOMAIN v \subseteq Route
         /\ \A r \in DOMAIN v : v[r] \in Entry
         /\ \A r \in Route, e \in Entry : Put(v, r, e) \in Vault
         /\ \A r \in DOMAIN v, e \in Entry : [v EXCEPT ![r] = e] \in Vault
<1>1. PICK R \in SUBSET Route : v \in [R -> Entry]
  BY DEF Vault
<1>2. DOMAIN v = R
  BY <1>1
<1>3. ASSUME NEW r \in Route, NEW e \in Entry PROVE Put(v, r, e) \in Vault
  <2>1. Put(v, r, e) \in [R \cup {r} -> Entry]
    BY <1>1 DEF Put
  <2>2. R \cup {r} \in SUBSET Route
    OBVIOUS
  <2> QED BY <2>1, <2>2 DEF Vault
<1>4. ASSUME NEW r \in DOMAIN v, NEW e \in Entry PROVE [v EXCEPT ![r] = e] \in Vault
  <2>1. [v EXCEPT ![r] = e] \in [R -> Entry]
    BY <1>1, <1>4
  <2> QED BY <2>1 DEF Vault
<1> QED BY <1>1, <1>2, <1>3, <1>4

\* The keys of a put.
LEMMA PutValue ==
  ASSUME NEW f, NEW k, NEW v
  PROVE  /\ DOMAIN Put(f, k, v) = DOMAIN f \cup {k}
         /\ Put(f, k, v)[k] = v
         /\ \A x \in DOMAIN f \ {k} : Put(f, k, v)[x] = f[x]
BY DEF Put

LEMMA InitInv == Init => Inv
<1> SUFFICES ASSUME Init PROVE Inv
  OBVIOUS
<1> USE DEF Init
<1>1. <<>> \in Vault
  <2>1. <<>> \in [{} -> Entry] /\ {} \in SUBSET Route
    OBVIOUS
  <2> QED BY <2>1 DEF Vault
<1>2. TypeInv
  BY <1>1, FS_EmptySet DEF TypeInv
<1>3. RecordsInv /\ SecretsUsed
  BY DEF RecordsInv, SecretsUsed
<1>4. /\ TagsNameLeases /\ SessionsIssued /\ SessionsShort
      /\ SealedUnderLease /\ OpenedUnderLease /\ NonceOnce
  BY DEF TagsNameLeases, SessionsIssued, SessionsShort, SealedUnderLease,
     OpenedUnderLease, NonceOnce
<1> QED BY <1>2, <1>3, <1>4 DEF Inv

-----------------------------------------------------------------------------
(* The vault's operations: they add secrets and forget none.               *)

\* A route's entry is replaced by another, and its secret is one the vault
\* was given.
LEMMA CredentialsInv ==
  ASSUME Inv, NEW s \in Side, NEW r \in Route, NEW e \in Entry, NEW v \in Vault,
         vault' = [vault EXCEPT ![s] = v],
         r \in DOMAIN v, DOMAIN v \subseteq DOMAIN vault[s] \cup {r}, v[r] = e,
         \A q \in DOMAIN vault[s] \ {r} : v[q] = vault[s][q],
         usedSecrets' = [usedSecrets EXCEPT ![s] = @ \cup {e.secret}],
         UNCHANGED <<authority, codec, now>>, opened' = {}
  PROVE  Inv'
<1>1. /\ \A t \in Side : usedSecrets[t] \subseteq usedSecrets'[t]
      /\ e.secret \in usedSecrets'[s] /\ e.secret \in Secret
      /\ UNCHANGED <<records, recordOrder, sessions, contracts>>
      /\ UNCHANGED <<usedNonces, sealed, now>>
  BY DEF Inv, TypeInv, Entry, authority, codec
<1>2. TypeInv'
  BY <1>1 DEF Inv, TypeInv
<1>3. SecretsUsed'
  <2> SUFFICES ASSUME NEW t \in Side, NEW q \in DOMAIN vault'[t]
               PROVE  vault'[t][q].secret \in usedSecrets'[t]
    BY DEF SecretsUsed
  <2>1. CASE t = s /\ q = r
    BY <1>1, <2>1 DEF Inv, TypeInv
  <2>2. CASE t = s /\ q # r
    <3>1. q \in DOMAIN vault[s] \ {r} /\ vault'[t][q] = vault[s][q]
      BY <2>2 DEF Inv, TypeInv
    <3> QED BY <1>1, <2>2, <3>1 DEF Inv, SecretsUsed
  <2>3. CASE t # s
    <3>1. vault'[t] = vault[t]
      BY <2>3 DEF Inv, TypeInv
    <3> QED BY <1>1, <3>1 DEF Inv, SecretsUsed
  <2> QED BY <2>1, <2>2, <2>3
<1>4. SessionsIssued'
  BY <1>1 DEF Inv, SessionsIssued
<1>5. RecordsInv' /\ TagsNameLeases' /\ SessionsShort'
  BY <1>1 DEF Inv, RecordsInv, TagsNameLeases, SessionsShort
<1>6. SealedUnderLease' /\ OpenedUnderLease' /\ NonceOnce'
  BY <1>1 DEF Inv, SealedUnderLease, OpenedUnderLease, NonceOnce
<1> QED BY <1>2, <1>3, <1>4, <1>5, <1>6 DEF Inv

LEMMA VaultsTyped ==
  ASSUME Inv, NEW s \in Side
  PROVE  vault[s] \in Vault /\ DOMAIN vault[s] \subseteq Route
         /\ \A r \in DOMAIN vault[s] : vault[s][r] \in Entry
<1>1. vault[s] \in Vault
  BY DEF Inv, TypeInv
<1> QED BY <1>1, VaultType

LEMMA ProvisionInv ==
  ASSUME Inv, NEW s \in Side, NEW r \in Route, NEW k \in KeyId, NEW x \in Secret,
         Provision(s, r, k, x), opened' = {}
  PROVE  Inv'
<1> DEFINE e == [key |-> k, secret |-> x, revoked |-> FALSE, revision |-> 1, retired |-> {}]
           v == Put(vault[s], r, e)
<1>1. e \in Entry /\ e.secret = x
  BY DEF Entry
<1>2. vault' = [vault EXCEPT ![s] = v]
  BY DEF Provision
<1>3. v \in Vault
  BY <1>1, VaultsTyped, VaultType
<1>4. usedSecrets' = [usedSecrets EXCEPT ![s] = @ \cup {e.secret}]
      /\ UNCHANGED <<authority, codec, now>>
  BY <1>1 DEF Provision
<1> HIDE DEF e
<1>5. /\ DOMAIN v = DOMAIN vault[s] \cup {r} /\ v[r] = e
      /\ \A q \in DOMAIN vault[s] \ {r} : v[q] = vault[s][q]
  BY DEF Put
<1> HIDE DEF v
<1> QED BY <1>1, <1>2, <1>3, <1>4, <1>5, CredentialsInv

LEMMA RotateInv ==
  ASSUME Inv, NEW s \in Side, NEW r \in Route, NEW k \in KeyId, NEW new \in KeyId,
         NEW x \in Secret, Rotate(s, r, k, new, x), opened' = {}
  PROVE  Inv'
<1> DEFINE old == vault[s][r]
           e == [key |-> new, secret |-> x, revoked |-> FALSE,
                 revision |-> old.revision + 1, retired |-> old.retired \cup {old.key}]
           v == [vault[s] EXCEPT ![r] = e]
<1>1. r \in DOMAIN vault[s] /\ old \in Entry
  BY VaultsTyped DEF Rotate
<1>2. e \in Entry /\ e.secret = x
  BY <1>1 DEF Entry
<1>3. vault' = [vault EXCEPT ![s] = v]
  BY DEF Rotate, Inv, TypeInv
<1>4. v \in Vault
  BY <1>1, <1>2, VaultsTyped, VaultType
<1>5. usedSecrets' = [usedSecrets EXCEPT ![s] = @ \cup {e.secret}]
      /\ UNCHANGED <<authority, codec, now>>
  BY <1>2 DEF Rotate
<1>6. /\ DOMAIN v = DOMAIN vault[s] /\ v[r] = e
      /\ \A q \in DOMAIN vault[s] \ {r} : v[q] = vault[s][q]
  BY <1>1
<1> HIDE DEF e, v
<1> QED BY <1>1, <1>2, <1>3, <1>4, <1>5, <1>6, CredentialsInv

LEMMA RevokeInv ==
  ASSUME Inv, NEW s \in Side, NEW r \in Route, NEW k \in KeyId, Revoke(s, r, k),
         opened' = {}
  PROVE  Inv'
<1> DEFINE old == vault[s][r]
           e == [key |-> old.key, secret |-> old.secret, revoked |-> TRUE,
                 revision |-> old.revision + 1, retired |-> old.retired]
           v == [vault[s] EXCEPT ![r] = e]
<1>1. r \in DOMAIN vault[s] /\ old \in Entry
  BY VaultsTyped DEF Revoke
<1>2. e \in Entry /\ e.secret = old.secret
  BY <1>1 DEF Entry
<1>3. vault' = [vault EXCEPT ![s] = v]
  BY DEF Revoke, Inv, TypeInv
<1>4. v \in Vault
  BY <1>1, <1>2, VaultsTyped, VaultType
<1>5. /\ usedSecrets' = [usedSecrets EXCEPT ![s] = @ \cup {e.secret}]
      /\ UNCHANGED <<authority, codec, now>>
  <2>1. e.secret \in usedSecrets[s]
    BY <1>1, <1>2 DEF Inv, SecretsUsed
  <2>2. usedSecrets' = usedSecrets /\ UNCHANGED <<authority, codec, now>>
    BY DEF Revoke
  <2> HIDE DEF e
  <2> QED BY <2>1, <2>2 DEF Inv, TypeInv
<1>6. /\ DOMAIN v = DOMAIN vault[s] /\ v[r] = e
      /\ \A q \in DOMAIN vault[s] \ {r} : v[q] = vault[s][q]
  BY <1>1
<1> HIDE DEF e, v
<1> QED BY <1>1, <1>2, <1>3, <1>4, <1>5, <1>6, CredentialsInv

-----------------------------------------------------------------------------
(* The lease authority: a session is added together with its contract.     *)

LEMMA RememberedTypes ==
  ASSUME Inv, NEW s \in Side, NEW id \in LeaseId, NEW f, NEW lease,
         Remember(s, id, f, lease)
  PROVE  RecordsInv'
<1>1. /\ DOMAIN records[s] \subseteq LeaseId /\ recordOrder[s] \in Seq(LeaseId)
      /\ Len(recordOrder[s]) \in Nat
  BY DEF Inv, RecordsInv
<1>2. /\ MaxRecords >= 1 /\ MaxRecords \in Nat
  BY Limits
<1> DEFINE full == Len(recordOrder[s]) >= MaxRecords
           rest == IF full THEN Tail(recordOrder[s]) ELSE recordOrder[s]
<1>3. rest \in Seq(LeaseId)
  <2>1. full => recordOrder[s] # <<>>
    BY <1>1, <1>2
  <2> QED BY <1>1, <2>1
<1>4. Append(rest, id) \in Seq(LeaseId)
  BY <1>3
<1>5. recordOrder' = [recordOrder EXCEPT ![s] = Append(rest, id)]
  BY DEF Remember
<1> DEFINE kept == IF full THEN DOMAIN records[s] \ {Head(recordOrder[s])}
                           ELSE DOMAIN records[s]
           g == [x \in kept \cup {id} |-> IF x = id THEN [fingerprint |-> f, lease |-> lease]
                                           ELSE records[s][x]]
<1>6. records' = [records EXCEPT ![s] = g]
  BY DEF Remember
<1>7. DOMAIN g \subseteq LeaseId
  BY <1>1
<1> HIDE DEF rest, g
<1>8. ASSUME NEW t \in Side
      PROVE  DOMAIN records'[t] \subseteq LeaseId /\ recordOrder'[t] \in Seq(LeaseId)
  BY <1>1, <1>4, <1>5, <1>6, <1>7 DEF Inv, RecordsInv
<1> QED BY <1>8 DEF RecordsInv

LEMMA SessionAdded ==
  ASSUME Inv, NEW s \in Side, NEW lease \in Lease, NEW C \in SUBSET Contract,
         IsFiniteSet(C), contracts' = contracts \cup C,
         \A c \in C : c.tag.lease = c.lease,
         \E c \in contracts' : c.lease = lease /\ c.tag.secret \in usedSecrets[s],
         lease.expires - lease.issued <= MaxTTL,
         sessions' = [sessions EXCEPT ![s] = @ \cup {lease}],
         RecordsInv',
         UNCHANGED <<credentials, codec, now>>, opened' = {}
  PROVE  Inv'
<1>1. /\ UNCHANGED <<vault, usedSecrets, usedNonces, sealed, now>>
      /\ sessions \in [Side -> SUBSET Lease]
      /\ \A t \in Side : sessions[t] \subseteq sessions'[t]
      /\ \A t \in Side : \A x \in sessions'[t] : x \in sessions[t] \/ (t = s /\ x = lease)
  BY DEF Inv, TypeInv, credentials, codec
<1>2. IsFiniteSet(contracts')
  BY FS_Union DEF Inv, TypeInv
<1>3. TypeInv'
  BY <1>1, <1>2 DEF Inv, TypeInv
<1>4. TagsNameLeases'
  BY DEF Inv, TagsNameLeases
<1>5. SecretsUsed'
  BY <1>1 DEF Inv, SecretsUsed
<1>6. SessionsIssued'
  BY <1>1 DEF Inv, SessionsIssued
<1>7. SessionsShort'
  BY <1>1 DEF Inv, SessionsShort
<1>8. SealedUnderLease'
  <2> SUFFICES ASSUME NEW i \in DOMAIN sealed
               PROVE  LET m == sealed[i]  x == m.key.lease IN
                      /\ x \in sessions'[m.by] /\ m.keyId = x.key
                      /\ <<x.key, m.nonce>> \in usedNonces[m.by]
                      /\ x.issued <= m.at + Ahead[m.by]
    BY <1>1 DEF SealedUnderLease
  <2>0. sealed[i] \in Payload
    BY DEF Inv, TypeInv
  <2>1. sealed[i].by \in Side
    BY <2>0 DEF Payload
  <2> QED BY <1>1, <2>1 DEF Inv, SealedUnderLease
<1>9. OpenedUnderLease'
  BY DEF OpenedUnderLease
<1>10. NonceOnce'
  BY <1>1 DEF Inv, NonceOnce
<1> QED BY <1>3, <1>4, <1>5, <1>6, <1>7, <1>8, <1>9, <1>10 DEF Inv

LEMMA IssueInv ==
  ASSUME Inv, NEW s \in Side, NEW id \in LeaseId, NEW x \in SessionId,
         NEW r \in Route, NEW ttl \in MinTTL..MaxTTL, Issue(s, id, x, r, ttl),
         opened' = {}
  PROVE  Inv'
<1> DEFINE e == vault[s][r]
           lease == [id |-> id, session |-> x, route |-> r, key |-> e.key,
                     revision |-> e.revision, salt |-> Cardinality(contracts) + 1,
                     issued |-> Clock(s), expires |-> Clock(s) + ttl]
           c == [lease |-> lease, tag |-> [secret |-> e.secret, lease |-> lease]]
<1>1. r \in DOMAIN vault[s] /\ e \in Entry
  BY VaultsTyped DEF Issue
<1>2. Clock(s) \in Nat /\ ttl \in Nat /\ ttl <= MaxTTL
  BY Limits DEF Clock, Inv, TypeInv
<1>3. Cardinality(contracts) + 1 \in Nat \ {0}
  <2>1. Cardinality(contracts) \in Nat
    BY FS_CardinalityType DEF Inv, TypeInv
  <2> QED BY <2>1
<1>4. lease \in Lease
  BY <1>1, <1>2, <1>3 DEF Lease, Entry
<1>5. lease.expires - lease.issued <= MaxTTL /\ lease.route = r /\ lease.id = id
  BY <1>2, Limits
<1>6. Derived(s, lease) = [secret |-> e.secret, lease |-> lease]
  BY DEF Derived
<1>7. /\ contracts' = contracts \cup {c}
      /\ sessions' = [sessions EXCEPT ![s] = @ \cup {lease}]
      /\ UNCHANGED <<credentials, codec, now>>
      /\ \E f : Remember(s, id, f, lease)
  BY <1>6 DEF Issue
<1>8. e.secret \in usedSecrets[s] /\ e.secret \in Secret
  BY <1>1 DEF Inv, SecretsUsed, Entry
<1> HIDE DEF lease, e
<1>9. c \in Contract /\ c.lease = lease /\ c.tag.secret = e.secret /\ c.tag.lease = lease
  BY <1>4, <1>8 DEF Contract, Key
<1> HIDE DEF c
<1>10. {c} \in SUBSET Contract /\ IsFiniteSet({c})
  BY <1>9, FS_Singleton
<1>11. RecordsInv'
  BY <1>7, RememberedTypes
<1> QED BY <1>4, <1>5, <1>7, <1>8, <1>9, <1>10, <1>11, SessionAdded

\* The contract that arrived is the one that was issued: its tag names it.
LEMMA AcceptedAsIssued ==
  ASSUME Inv, NEW s \in Side, NEW c \in Delivered, c.tag = Derived(s, c.lease)
  PROVE  c \in contracts
<1>1. PICK d \in contracts, x \in SessionId : c = [d EXCEPT !.lease.session = x]
  BY DEF Delivered
<1>2. d \in Contract /\ d.tag.lease = d.lease
  BY DEF Inv, TypeInv, TagsNameLeases
<1>3. c.tag = d.tag
  BY <1>1, <1>2 DEF Contract
<1>4. c.tag.lease = c.lease
  BY DEF Derived
<1>5. c.lease = d.lease
  BY <1>2, <1>3, <1>4
<1>6. c = [d EXCEPT !.lease = d.lease]
  BY <1>1, <1>2, <1>5 DEF Contract
<1> QED BY <1>2, <1>6 DEF Contract

LEMMA AcceptInv ==
  ASSUME Inv, NEW s \in Side, NEW c \in Delivered, Accept(s, c), opened' = {}
  PROVE  Inv'
<1>1. /\ TimeValid(s, c.lease) /\ Current(s, c.lease) /\ c.tag = Derived(s, c.lease)
      /\ Remember(s, c.lease.id, c, c.lease)
      /\ sessions' = [sessions EXCEPT ![s] = @ \cup {c.lease}]
      /\ UNCHANGED <<credentials, contracts, codec, now>>
  BY DEF Accept, Admissible
<1>2. c \in contracts /\ c.lease \in Lease
  BY <1>1, AcceptedAsIssued DEF Inv, TypeInv, Contract
<1>3. c.tag.secret \in usedSecrets[s]
  BY <1>1 DEF Current, Derived, Inv, SecretsUsed
<1>4. c.lease.expires - c.lease.issued <= MaxTTL
  <2>1. c.lease.expires - c.lease.issued \in Int
    BY <1>2 DEF Lease
  <2> QED BY <1>1, <2>1, Limits DEF TimeValid
<1>5. c.lease.id \in LeaseId
  BY <1>2 DEF Lease
<1>6. RecordsInv'
  BY <1>1, <1>5, RememberedTypes
<1>7. {} \in SUBSET Contract /\ IsFiniteSet({}) /\ contracts' = contracts \cup {}
  BY <1>1, FS_EmptySet
<1>8. \E d \in contracts' : d.lease = c.lease /\ d.tag.secret \in usedSecrets[s]
  BY <1>1, <1>2, <1>3
<1>9. UNCHANGED <<credentials, codec, now>>
  BY <1>1
<1> QED BY <1>1, <1>2, <1>4, <1>6, <1>7, <1>8, <1>9, SessionAdded

-----------------------------------------------------------------------------
(* The codec.                                                              *)

\* What a side may do under a lease it holds and that is active.
LEMMA ActiveLease ==
  ASSUME Inv, NEW s \in Side, NEW lease \in sessions[s], Active(s, lease)
  PROVE  /\ lease \in Lease /\ lease.route \in DOMAIN vault[s]
         /\ vault[s][lease.route] \in Entry
         /\ ~ vault[s][lease.route].revoked
         /\ vault[s][lease.route].revision = lease.revision
         /\ vault[s][lease.route].key = lease.key
         /\ Derived(s, lease) \in Key /\ Derived(s, lease).lease = lease
         /\ Derived(s, lease).secret = vault[s][lease.route].secret
         /\ lease.issued <= now + Ahead[s] /\ now + Ahead[s] < lease.expires
<1>1. lease \in Lease
  BY DEF Inv, TypeInv
<1>2. lease.route \in DOMAIN vault[s] /\ vault[s][lease.route] \in Entry
  BY VaultsTyped DEF Active, Current
<1>3. Derived(s, lease) \in Key
  BY <1>1, <1>2 DEF Derived, Key, Entry
<1> QED BY <1>1, <1>2, <1>3 DEF Active, Current, Derived, Clock

LEMMA SealInv ==
  ASSUME Inv, NEW s \in Side, NEW lease \in sessions[s], NEW f \in Frame,
         NEW nonce \in Nonce, Seal(s, lease, f, nonce), opened' = {}
  PROVE  Inv'
<1> DEFINE m == [by |-> s, key |-> Derived(s, lease), keyId |-> lease.key, nonce |-> nonce,
                 aad |-> BindingOf(lease, f), at |-> now]
           n == Len(sealed) + 1
<1>1. /\ Active(s, lease)
      /\ <<lease.key, nonce>> \notin usedNonces[s]
      /\ usedNonces' = [usedNonces EXCEPT ![s] = @ \cup {<<lease.key, nonce>>}]
      /\ sealed' = Append(sealed, m)
      /\ UNCHANGED <<vault, usedSecrets, records, recordOrder, sessions, contracts>>
      /\ UNCHANGED now
  BY DEF Seal, credentials, authority
<1>2. /\ lease \in Lease /\ Derived(s, lease) \in Key /\ Derived(s, lease).lease = lease
      /\ lease.issued <= now + Ahead[s]
  BY <1>1, ActiveLease
<1>3. m \in Payload
  <2>1. BindingOf(lease, f) \in Binding
    BY <1>2 DEF BindingOf, Binding, Lease
  <2>2. now \in Nat /\ lease.key \in KeyId
    BY <1>2 DEF Inv, TypeInv, Lease
  <2> QED BY <1>2, <2>1, <2>2 DEF Payload
<1>4. /\ m.by = s /\ m.key = Derived(s, lease) /\ m.keyId = lease.key /\ m.nonce = nonce /\ m.at = now
  OBVIOUS
<1> HIDE DEF m
<1>5. /\ sealed' \in Seq(Payload) /\ DOMAIN sealed' = DOMAIN sealed \cup {n}
      /\ n \notin DOMAIN sealed /\ sealed'[n] = m
      /\ \A i \in DOMAIN sealed : sealed'[i] = sealed[i]
      /\ \A i \in DOMAIN sealed : sealed[i] \in Payload
  BY <1>1, <1>3 DEF Inv, TypeInv
<1> HIDE DEF n
<1>6. /\ usedNonces \in [Side -> SUBSET (KeyId \X Nonce)]
      /\ usedNonces' \in [Side -> SUBSET (KeyId \X Nonce)]
      /\ <<lease.key, nonce>> \in usedNonces'[s]
      /\ \A t \in Side : usedNonces[t] \subseteq usedNonces'[t]
  <2>1. <<lease.key, nonce>> \in KeyId \X Nonce
    BY <1>2 DEF Lease
  <2>2. usedNonces \in [Side -> SUBSET (KeyId \X Nonce)]
    BY DEF Inv, TypeInv
  <2> QED BY <1>1, <2>1, <2>2
<1>7. TypeInv'
  BY <1>1, <1>5, <1>6 DEF Inv, TypeInv
<1>8. RecordsInv' /\ TagsNameLeases' /\ SecretsUsed' /\ SessionsIssued' /\ SessionsShort'
  BY <1>1 DEF Inv, RecordsInv, TagsNameLeases, SecretsUsed, SessionsIssued, SessionsShort
<1>9. SealedUnderLease'
  <2> SUFFICES ASSUME NEW i \in DOMAIN sealed'
               PROVE  /\ sealed'[i].key.lease \in sessions'[sealed'[i].by]
                      /\ sealed'[i].keyId = sealed'[i].key.lease.key
                      /\ <<sealed'[i].key.lease.key, sealed'[i].nonce>> \in usedNonces'[sealed'[i].by]
                      /\ sealed'[i].key.lease.issued <= sealed'[i].at + Ahead[sealed'[i].by]
    BY DEF SealedUnderLease
  <2>1. CASE i = n
    BY <1>1, <1>2, <1>4, <1>5, <1>6, <2>1
  <2>2. CASE i \in DOMAIN sealed
    <3>1. sealed[i].by \in Side
      BY <1>5, <2>2 DEF Payload
    <3> QED BY <1>1, <1>5, <1>6, <2>2, <3>1 DEF Inv, SealedUnderLease
  <2> QED BY <1>5, <2>1, <2>2
<1>10. OpenedUnderLease'
  BY DEF OpenedUnderLease
\* An earlier message of s under the same key has its nonce remembered at s.
<1>11. \A i \in DOMAIN sealed :
         sealed[i].by = m.by /\ sealed[i].key = m.key => sealed[i].nonce # m.nonce
  BY <1>1, <1>2, <1>4 DEF Inv, SealedUnderLease
<1>12. NonceOnce'
  BY <1>5, <1>11 DEF Inv, NonceOnce
<1> QED BY <1>7, <1>8, <1>9, <1>10, <1>12 DEF Inv

LEMMA OpenInv ==
  ASSUME Inv, NEW s \in Side, NEW lease \in sessions[s], NEW f \in Frame,
         NEW i \in DOMAIN sealed, Open(s, lease, i, BindingOf(lease, f))
  PROVE  Inv'
<1> DEFINE outer == BindingOf(lease, f)
           o == [side |-> s, lease |-> lease, message |-> i, outer |-> outer, at |-> now]
<1>1. /\ Active(s, lease)
      /\ sealed[i].key = Derived(s, lease) /\ sealed[i].aad = outer
      /\ outer.route = lease.route /\ outer.session = lease.session
      /\ opened' = {o}
      /\ UNCHANGED <<vault, usedSecrets, records, recordOrder, sessions, contracts>>
      /\ UNCHANGED <<usedNonces, sealed, now>>
  BY DEF Open, credentials, authority, codec
<1>2. /\ lease \in Lease /\ Derived(s, lease).lease = lease
      /\ now + Ahead[s] < lease.expires
  BY <1>1, ActiveLease
<1>3. outer \in Binding
  BY <1>2 DEF BindingOf, Binding, Lease
<1>4. now \in Nat /\ i \in Nat
  BY DEF Inv, TypeInv
<1> HIDE DEF outer
<1>5. o \in Opening
  BY <1>2, <1>3, <1>4 DEF Opening
<1>6. /\ o.side = s /\ o.lease = lease /\ o.message = i /\ o.outer = outer /\ o.at = now
  OBVIOUS
<1> HIDE DEF o
<1>7. TypeInv'
  BY <1>1, <1>5 DEF Inv, TypeInv
<1>8. OpenedUnderLease'
  BY <1>1, <1>2, <1>6 DEF OpenedUnderLease
<1>9. RecordsInv' /\ TagsNameLeases' /\ SecretsUsed' /\ SessionsIssued' /\ SessionsShort'
  BY <1>1 DEF Inv, RecordsInv, TagsNameLeases, SecretsUsed, SessionsIssued, SessionsShort
<1>10. SealedUnderLease' /\ NonceOnce'
  BY <1>1 DEF Inv, SealedUnderLease, NonceOnce
<1> QED BY <1>7, <1>8, <1>9, <1>10 DEF Inv

\* The clock goes on, or nothing happens.
LEMMA QuietInv ==
  ASSUME Inv, UNCHANGED <<credentials, authority, codec>>, now' \in Nat,
         opened' \in {{}, opened}
  PROVE  Inv'
<1>1. /\ UNCHANGED <<vault, usedSecrets, records, recordOrder, sessions, contracts>>
      /\ UNCHANGED <<usedNonces, sealed>> /\ opened' \subseteq opened
  BY DEF credentials, authority, codec
<1>2. TypeInv' /\ RecordsInv'
  BY <1>1 DEF Inv, TypeInv, RecordsInv
<1>3. TagsNameLeases' /\ SecretsUsed' /\ SessionsIssued' /\ SessionsShort'
  BY <1>1 DEF Inv, TagsNameLeases, SecretsUsed, SessionsIssued, SessionsShort
<1>4. SealedUnderLease' /\ OpenedUnderLease' /\ NonceOnce'
  BY <1>1 DEF Inv, SealedUnderLease, OpenedUnderLease, NonceOnce
<1> QED BY <1>2, <1>3, <1>4 DEF Inv

-----------------------------------------------------------------------------
(* The theorems.                                                           *)

LEMMA NextInv == Inv /\ [Next]_vars => Inv'
<1> SUFFICES ASSUME Inv, [Next]_vars PROVE Inv'
  OBVIOUS
<1>1. CASE VaultStep /\ opened' = {}
  BY <1>1, ProvisionInv, RotateInv, RevokeInv DEF VaultStep
<1>2. CASE AuthorityStep /\ opened' = {}
  <2>1. \A s \in Side : DOMAIN vault[s] \subseteq Route
    BY VaultsTyped
  <2> QED BY <1>2, <2>1, IssueInv, AcceptInv DEF AuthorityStep
<1>3. CASE SealStep /\ opened' = {}
  BY <1>3, SealInv DEF SealStep
<1>4. CASE OpenStep
  BY <1>4, OpenInv DEF OpenStep
<1>5. CASE Tick /\ opened' = {}
  BY <1>5, QuietInv DEF Tick, Inv, TypeInv
<1>6. CASE UNCHANGED vars
  BY <1>6, QuietInv DEF vars, Inv, TypeInv
<1> QED BY <1>1, <1>2, <1>3, <1>4, <1>5, <1>6 DEF Next

\* The inductive invariant: every session, sealed payload and opening is traced
\* to the lease contract that permits it, through provisioning, rotation,
\* revocation, issue, accept, seal, open and the evictions of the authority.
THEOREM Invariance == Spec => []Inv
<1>1. Init => Inv
  BY InitInv
<1>2. Inv /\ [Next]_vars => Inv'
  BY NextInv
<1> QED BY <1>1, <1>2, PTL DEF Spec

\* Every vault, record store, session table, nonce guard and payload keeps the
\* shape that the classes of session_governance.py and sealed_payload.py give it.
THEOREM TypeCorrect == Spec => []TypeOK
<1>1. Inv => TypeOK
  <2> SUFFICES ASSUME Inv PROVE TypeOK
    OBVIOUS
  <2>1. ASSUME NEW s \in Side
        PROVE  /\ DOMAIN vault[s] \subseteq Route /\ vault[s] \in [DOMAIN vault[s] -> Entry]
               /\ usedSecrets[s] \subseteq Secret
               /\ DOMAIN records[s] \subseteq LeaseId
               /\ recordOrder[s] \in Seq(LeaseId)
               /\ sessions[s] \subseteq Lease
               /\ usedNonces[s] \subseteq KeyId \X Nonce
    <3>1. PICK R \in SUBSET Route : vault[s] \in [R -> Entry]
      BY VaultsTyped DEF Vault
    <3>2. DOMAIN vault[s] \subseteq Route /\ vault[s] \in [DOMAIN vault[s] -> Entry]
      BY <3>1
    <3> QED BY <3>2 DEF Inv, TypeInv, RecordsInv
  <2>2. \A c \in contracts : c.lease \in Lease /\ c.tag.lease = c.lease /\ c.tag.secret \in Secret
    BY DEF Inv, TypeInv, TagsNameLeases, Contract, Key
  <2>3. \A o \in opened : o.side \in Side /\ o.message \in DOMAIN sealed
    BY DEF Inv, TypeInv, OpenedUnderLease, Opening
  <2> QED BY <2>1, <2>2, <2>3 DEF TypeOK, Inv, TypeInv
<1> QED BY <1>1, Invariance, PTL

\* accept compares the tag before it remembers a lease: a contract changed on
\* its way never becomes a session, however often and to whomever it is given.
THEOREM OnlyIssuedSessions == Spec => []SessionsIssued
<1>1. Inv => SessionsIssued
  BY DEF Inv
<1> QED BY <1>1, Invariance, PTL

\* The codec of a side refuses a nonce that its guard remembers, and the guard,
\* which refuses rather than forgets when it is full, remembers every one that
\* this side used under any lease with the same root key.
THEOREM NoncesOnce == Spec => []NonceOnce
<1>1. Inv => NonceOnce
  BY DEF Inv
<1> QED BY <1>1, Invariance, PTL

\* open gives out only what a side with the same session sealed, for the same
\* outer metadata, no longer ago than a lease lasts.
THEOREM OpensOnlySealed == Spec => []OpenedAsSealed
<1>1. Inv => OpenedAsSealed
  <2> SUFFICES ASSUME Inv, NEW o \in opened
               PROVE  LET m == sealed[o.message] IN
                      /\ o.lease \in sessions[m.by] /\ o.lease \in sessions[o.side]
                      /\ m.aad = o.outer
                      /\ m.aad.route = o.lease.route /\ m.aad.session = o.lease.session
                      /\ o.at - m.at < MaxTTL + Ahead[m.by] - Ahead[o.side]
    BY DEF OpenedAsSealed
  <2> DEFINE m == sealed[o.message]
  <2>1. /\ o.message \in DOMAIN sealed /\ o.lease \in sessions[o.side]
        /\ m.key.lease = o.lease /\ m.aad = o.outer
        /\ o.outer.route = o.lease.route /\ o.outer.session = o.lease.session
        /\ o.at + Ahead[o.side] < o.lease.expires
    BY DEF Inv, OpenedUnderLease
  <2>2. o.lease \in sessions[m.by] /\ o.lease.issued <= m.at + Ahead[m.by]
    BY <2>1 DEF Inv, SealedUnderLease
  <2>3. o \in Opening /\ m \in Payload
    BY <2>1 DEF Inv, TypeInv
  <2>4. o.lease \in Lease /\ o.side \in Side /\ m.by \in Side /\ o.at \in Nat /\ m.at \in Nat
    BY <2>3 DEF Opening, Payload
  <2>5. o.lease.expires - o.lease.issued <= MaxTTL
    BY <2>1, <2>4 DEF Inv, SessionsShort
  <2>6. /\ Ahead[m.by] \in Nat /\ Ahead[o.side] \in Nat
        /\ o.lease.expires \in Nat /\ o.lease.issued \in Nat
    BY <2>4, Limits DEF Lease
  <2>7. o.at - m.at < MaxTTL + Ahead[m.by] - Ahead[o.side]
    BY <2>1, <2>2, <2>4, <2>5, <2>6, Limits
  <2> QED BY <2>1, <2>2, <2>7
<1> QED BY <1>1, Invariance, PTL

\* active_session_key reads the vault again for every seal and open, so a
\* rotation or a revocation ends the sessions of a route on its side at once.
THEOREM EndsAtOnce == Spec => InvalidatedAtOnce
<1> DEFINE Sealed(m) == LET e == vault[m.by][m.aad.route]
                        IN ~ e.revoked /\ m.key.secret = e.secret
                           /\ m.key.lease.revision = e.revision
           Opened(o) == LET e == vault[o.side][o.lease.route]
                        IN ~ e.revoked /\ o.lease.revision = e.revision
<1>1. Inv /\ [Next]_vars =>
        /\ sealed' # sealed => Sealed(sealed'[Len(sealed')])
        /\ \A o \in opened' \ opened : Opened(o)
  <2> SUFFICES ASSUME Inv, [Next]_vars
               PROVE  /\ sealed' # sealed => Sealed(sealed'[Len(sealed')])
                      /\ \A o \in opened' \ opened : Opened(o)
    OBVIOUS
  <2>1. ASSUME NEW s \in Side, NEW lease \in sessions[s], NEW f \in Frame,
               NEW nonce \in Nonce, Seal(s, lease, f, nonce)
        PROVE  Sealed(sealed'[Len(sealed')])
    <3> DEFINE m == [by |-> s, key |-> Derived(s, lease), keyId |-> lease.key, nonce |-> nonce,
                     aad |-> BindingOf(lease, f), at |-> now]
    <3>1. Active(s, lease) /\ sealed' = Append(sealed, m)
      BY <2>1 DEF Seal
    <3>2. m.by = s /\ m.key = Derived(s, lease) /\ m.aad.route = lease.route
      BY DEF BindingOf
    <3> HIDE DEF m
    <3>3. sealed'[Len(sealed')] = m
      BY <3>1 DEF Inv, TypeInv
    <3> QED BY <3>1, <3>2, <3>3, ActiveLease
  <2>2. ASSUME NEW s \in Side, NEW lease \in sessions[s], NEW f \in Frame,
               NEW i \in DOMAIN sealed, Open(s, lease, i, BindingOf(lease, f))
        PROVE  sealed' = sealed /\ \A o \in opened' \ opened : Opened(o)
    <3>1. /\ sealed' = sealed /\ Active(s, lease)
          /\ \A o \in opened' : o.side = s /\ o.lease = lease
      BY <2>2 DEF Open, codec
    <3> QED BY <3>1, ActiveLease
  <2>3. ASSUME UNCHANGED codec
        PROVE  sealed' = sealed
    BY <2>3 DEF codec
  <2>4. CASE OpenStep \/ (SealStep /\ opened' = {})
    BY <2>1, <2>2, <2>4 DEF OpenStep, SealStep
  <2>5. CASE ((VaultStep \/ AuthorityStep \/ Tick) /\ opened' = {}) \/ UNCHANGED vars
    <3>1. UNCHANGED codec
      <4>1. CASE VaultStep
        <5>1. PICK s \in Side, r \in Route, k \in KeyId, new \in KeyId, x \in Secret :
                Provision(s, r, k, x) \/ Rotate(s, r, k, new, x) \/ Revoke(s, r, k)
          BY <4>1 DEF VaultStep
        <5>2. CASE Provision(s, r, k, x)
          BY <5>2 DEF Provision
        <5>3. CASE Rotate(s, r, k, new, x)
          BY <5>3 DEF Rotate
        <5>4. CASE Revoke(s, r, k)
          BY <5>4 DEF Revoke
        <5> QED BY <5>1, <5>2, <5>3, <5>4
      <4>2. CASE AuthorityStep
        <5>1. ASSUME NEW s \in Side, NEW id, NEW x, NEW r, NEW ttl, Issue(s, id, x, r, ttl)
              PROVE  UNCHANGED codec
          BY <5>1 DEF Issue
        <5>2. ASSUME NEW s \in Side, NEW c, Accept(s, c)
              PROVE  UNCHANGED codec
          BY <5>2 DEF Accept
        <5> QED BY <4>2, <5>1, <5>2 DEF AuthorityStep
      <4>3. CASE Tick \/ UNCHANGED vars
        BY <4>3 DEF Tick, vars
      <4> QED BY <2>5, <4>1, <4>2, <4>3
    <3>2. opened' \ opened = {}
      BY <2>5 DEF vars
    <3> QED BY <2>3, <3>1, <3>2
  <2> QED BY <2>4, <2>5 DEF Next
<1> QED BY <1>1, Invariance, PTL DEF Spec, InvalidatedAtOnce
-----------------------------------------------------------------------------
(* The command desk.                                                       *)

Profiles == {"assistant", "sentinel", "inventory"}

\* The messages a device signs.
TextMessage ==
  [type : {"text"}, body : {[c EXCEPT !.at = t] : c \in Composed, t \in Nat},
   at : Nat, shown : Profiles]
VoiceMessage ==
  [type : {"voice"}, body : [capture : Capture, audio : Seq(Chunk)], at : Nat, shown : Profiles]
CancelMessage == [type : {"cancel"}, body : JobKey, at : Nat, shown : Profiles]
Signed        == TextMessage \cup VoiceMessage \cup CancelMessage

Recorder ==
  [state : {"idle", "recording", "ready", "cancelled"}, capture : Capture \cup {None},
   audio : Seq(Chunk), from : Nat \cup {None}]

DeskTypeInv ==
  /\ clock \in Nat /\ shown \in Profiles
  /\ recorder \in Recorder /\ used \subseteq Capture
  /\ sent \in Seq(Signed) /\ heard \in 0..Len(sent)
  /\ phase \in [JobKey -> {"none", "running"} \cup Job!Outcome]

\* A recording has a capture id of its own, and what was kept of it fits.
RecorderInv ==
  /\ recorder.state \in {"recording", "ready"} => recorder.capture \in used
  /\ recorder.audio # <<>> => Fits(recorder.audio)
  /\ recorder.state = "ready" => recorder.audio # <<>>
  /\ recorder.state \in {"idle", "cancelled"} => recorder.capture = None /\ recorder.audio = <<>>

\* A text command was signed under its profile.
TextInv ==
  \A i \in DOMAIN sent :
    sent[i].type = "text" => sent[i].shown = ProfileOf[sent[i].body.action]

\* A capture that was sent is used up, or is the one that is still ready.
VoiceInv ==
  \A i \in DOMAIN sent : sent[i].type = "voice" =>
    /\ sent[i].body.capture \in used /\ Fits(sent[i].body.audio)
    /\ recorder.state \in {"recording", "ready"} /\ recorder.capture = sent[i].body.capture
         => recorder.state = "ready" /\ recorder.audio = sent[i].body.audio

\* What AskedInProfile says of one answer.
AskedFor(k) ==
  /\ \E i \in 1..heard : /\ Carries(sent[i], k) /\ sent[i].at = answers[k].request.at
                         /\ sent[i].shown = ProfileOf[k[1]]
  /\ \A r \in answers[k].result :
       IF k[1] = "asset.list" THEN r.org = k[2] ELSE CameraOrg[r] = k[2]

DeskInv ==
  /\ DeskTypeInv /\ RecorderInv /\ TextInv /\ VoiceInv
  /\ AudioWhole /\ OneEventPerAnswer /\ AskedInProfile
-----------------------------------------------------------------------------
(* The verdict of a query service.                                         *)

\* A list of four checks is passed only if each of them is.
LEMMA FourPassed ==
  ASSUME NEW checks, DOMAIN checks = 1..4, Decide(checks) = "allow",
         \A i \in 1..4 : checks[i].ok \/ checks[i].else # "allow"
  PROVE  \A i \in 1..4 : checks[i].ok
<1> DEFINE failed == {i \in DOMAIN checks : ~ checks[i].ok}
<1>1. CASE failed # {}
  <2>1. failed \subseteq 1..4
    OBVIOUS
  <2> HIDE DEF failed
  <2>2. \E m \in failed : \A n \in failed : m <= n
    <3>1. \A n \in failed : n = 1 \/ n = 2 \/ n = 3 \/ n = 4
      BY <2>1
    <3>2. CASE 1 \in failed
      BY <3>1, <3>2
    <3>3. CASE 1 \notin failed /\ 2 \in failed
      BY <3>1, <3>3
    <3>4. CASE 1 \notin failed /\ 2 \notin failed /\ 3 \in failed
      BY <3>1, <3>4
    <3>5. CASE 1 \notin failed /\ 2 \notin failed /\ 3 \notin failed
      BY <1>1, <3>1, <3>5
    <3> QED BY <3>2, <3>3, <3>4, <3>5
  <2>3. Min(failed) \in failed
    BY <2>2, Zenon DEF Min
  <2>4. checks[Min(failed)].else = "allow"
    BY <1>1, Zenon DEF Decide, failed
  <2> QED BY <2>1, <2>3, <2>4 DEF failed
<1>2. CASE failed = {}
  BY <1>2
<1> QED BY <1>1, <1>2

LEMMA CameraAllowed ==
  ASSUME NEW q, NEW x, NEW t, CameraVerdict(q, x, t) = "allow"
  PROVE  Fresh(q, t) /\ OwnsCamera(x.actor.org, q.target)
<1> DEFINE C == << Timely(q, t), InContext(q, x),
                   Owned(OwnsCamera(x.actor.org, q.target)), Policy(q, x, t) >>
<1> PICK d : d = Decision(q, x, t)
  OBVIOUS
<1>1. C = << [ok |-> Fresh(q, t), else |-> "stale"],
             [ok |-> ContextMatches(q, x), else |-> "context"],
             [ok |-> OwnsCamera(x.actor.org, q.target), else |-> "inaccessible"],
             [ok |-> d = "allow", else |-> d] >>
  BY Zenon DEF Timely, InContext, Owned, Policy
<1>2. Decide(C) = "allow"
  BY DEF CameraVerdict
<1> HIDE DEF C
<1>3. DOMAIN C = 1..4 /\ \A i \in 1..4 : C[i].ok \/ C[i].else # "allow"
  <2>1. /\ C[1].else = "stale" /\ C[2].else = "context" /\ C[3].else = "inaccessible"
        /\ C[4].ok = (d = "allow") /\ C[4].else = d
    BY <1>1, Zenon
  <2>2. C[1].else # "allow" /\ C[2].else # "allow" /\ C[3].else # "allow"
    BY <2>1
  <2>3. C[4].ok \/ C[4].else # "allow"
    BY <2>1, Zenon
  <2>4. DOMAIN C = 1..4 /\ \A i \in 1..4 : i = 1 \/ i = 2 \/ i = 3 \/ i = 4
    BY <1>1
  <2> QED BY <2>2, <2>3, <2>4, Zenon
<1>4. \A i \in 1..4 : C[i].ok
  BY <1>2, <1>3, FourPassed
<1>5. C[1].ok = Fresh(q, t) /\ C[3].ok = OwnsCamera(x.actor.org, q.target)
  BY <1>1, Zenon
<1>6. 1 \in 1..4 /\ 3 \in 1..4
  OBVIOUS
<1> QED BY <1>4, <1>5, <1>6, Zenon

LEMMA AssetsAllowed ==
  ASSUME NEW q, NEW x, NEW t, AssetVerdict(q, x, t) = "allow"
  PROVE  Fresh(q, t)
<1> DEFINE C == << Timely(q, t), InContext(q, x),
                   Policy(q, x, t), Owned(OwnsInventory(x.actor.org, q.target)) >>
<1> PICK d : d = Decision(q, x, t)
  OBVIOUS
<1>1. C = << [ok |-> Fresh(q, t), else |-> "stale"],
             [ok |-> ContextMatches(q, x), else |-> "context"],
             [ok |-> d = "allow", else |-> d],
             [ok |-> OwnsInventory(x.actor.org, q.target), else |-> "inaccessible"] >>
  BY Zenon DEF Timely, InContext, Owned, Policy
<1>2. Decide(C) = "allow"
  BY DEF AssetVerdict
<1> HIDE DEF C
<1>3. DOMAIN C = 1..4 /\ \A i \in 1..4 : C[i].ok \/ C[i].else # "allow"
  <2>1. /\ C[1].else = "stale" /\ C[2].else = "context" /\ C[4].else = "inaccessible"
        /\ C[3].ok = (d = "allow") /\ C[3].else = d
    BY <1>1, Zenon
  <2>2. C[1].else # "allow" /\ C[2].else # "allow" /\ C[4].else # "allow"
    BY <2>1
  <2>3. C[3].ok \/ C[3].else # "allow"
    BY <2>1, Zenon
  <2>4. DOMAIN C = 1..4 /\ \A i \in 1..4 : i = 1 \/ i = 2 \/ i = 3 \/ i = 4
    BY <1>1
  <2> QED BY <2>2, <2>3, <2>4, Zenon
<1>4. \A i \in 1..4 : C[i].ok
  BY <1>2, <1>3, FourPassed
<1>5. C[1].ok = Fresh(q, t)
  BY <1>1, Zenon
<1>6. 1 \in 1..4
  OBVIOUS
<1> QED BY <1>4, <1>5, <1>6, Zenon
-----------------------------------------------------------------------------
(* Types.                                                                  *)

LEMMA SignedAs ==
  ASSUME NEW m \in Signed
  PROVE  /\ m.type = "text" => m \in TextMessage
         /\ m.type = "voice" => m \in VoiceMessage
         /\ m.type = "cancel" => m \in CancelMessage
  BY DEF Signed, TextMessage, VoiceMessage, CancelMessage

\* What a composed command says of itself.
LEMMA ComposedFields ==
  ASSUME NEW c \in Composed, NEW t
  PROVE  LET b == [c EXCEPT !.at = t] IN
         /\ b.profile = ProfileOf[b.action] /\ c.profile = b.profile /\ b.id \in CommandId
<1>1. PICK a \in DOMAIN Menu :
        c \in {Compose(a, g, id, changes) : g \in Menu[a], id \in CommandId, changes \in BOOLEAN}
  BY DEF Composed
<1>2. PICK g \in Menu[a], id \in CommandId, changes \in BOOLEAN : c = Compose(a, g, id, changes)
  BY <1>1
<1> QED BY <1>2 DEF Compose

LEMMA DeskInitInv == DeskInit => DeskInv
<1> SUFFICES ASSUME DeskInit PROVE DeskInv
  OBVIOUS
<1> USE DEF DeskInit, DeviceInit
<1>1. sent = <<>> /\ answers = <<>> /\ audit = {} /\ heard = 0 /\ clock = 0
  OBVIOUS
<1>2. recorder \in Recorder /\ recorder.state = "idle" /\ recorder.audio = <<>>
      /\ recorder.capture = None
  BY DEF Recorder, Idle
<1>3. DeskTypeInv
  BY <1>1, <1>2 DEF DeskTypeInv, Job!Init, Profiles
<1>4. RecorderInv /\ TextInv /\ VoiceInv /\ AudioWhole
  BY <1>1, <1>2 DEF RecorderInv, TextInv, VoiceInv, AudioWhole
<1>5. DOMAIN answers = {}
  BY <1>1
<1>6. OneEventPerAnswer /\ AskedInProfile
  BY <1>1, <1>5 DEF OneEventPerAnswer, AskedInProfile
<1> QED BY <1>3, <1>4, <1>6 DEF DeskInv

-----------------------------------------------------------------------------
(* Answers stay.                                                           *)

\* An answer that stays was asked for, if it was.
LEMMA AskedKept ==
  ASSUME DeskInv, NEW k \in DOMAIN answers, answers'[k] = answers[k],
         \A i \in 1..heard : sent'[i] = sent[i], heard' \in Nat, heard <= heard',
         Worked(k)' => Worked(k)
  PROVE  Worked(k)' => AskedFor(k)'
<1> SUFFICES ASSUME Worked(k) PROVE AskedFor(k)'
  OBVIOUS
<1>1. AskedFor(k)
  BY DEF DeskInv, AskedInProfile, AskedFor
<1>2. PICK i \in 1..heard : Carries(sent[i], k) /\ sent[i].at = answers[k].request.at
                            /\ sent[i].shown = ProfileOf[k[1]]
  BY <1>1 DEF AskedFor
<1>3. heard \in Nat
  BY DEF DeskInv, DeskTypeInv
<1>4. i \in 1..heard' /\ sent'[i] = sent[i]
  BY <1>3
<1> PICK m : m = sent[i]
  OBVIOUS
<1>5. Carries(m, k)' /\ m = sent'[i] /\ m.at = answers'[k].request.at /\ m.shown = ProfileOf[k[1]]
  BY <1>2, <1>4 DEF Carries
<1>6. \E j \in 1..heard' : /\ Carries(sent[j], k)' /\ sent'[j].at = answers'[k].request.at
                           /\ sent'[j].shown = ProfileOf[k[1]]
  BY <1>4, <1>5 DEF Carries
<1> QED BY <1>1, <1>6 DEF AskedFor

\* The services are left alone.
LEMMA ServicesKept ==
  ASSUME DeskInv, UNCHANGED services, \A i \in 1..heard : sent'[i] = sent[i],
         heard' \in Nat, heard <= heard',
         \A k \in DOMAIN answers \cap JobKey :
           phase'[k] \in {"running", "completed", "cancelled"}
             => phase[k] \in {"running", "completed", "cancelled"}
  PROVE  OneEventPerAnswer' /\ AskedInProfile'
<1>1. OneEventPerAnswer'
  BY DEF services, DeskInv, OneEventPerAnswer
<1>2. ASSUME NEW k \in DOMAIN answers PROVE Worked(k)' => AskedFor(k)'
  <2>1. answers'[k] = answers[k] /\ (Worked(k)' => Worked(k))
    BY DEF services, Worked
  <2> QED BY <2>1, AskedKept
<1>3. DOMAIN answers' = DOMAIN answers
  BY DEF services
<1> QED BY <1>1, <1>2, <1>3 DEF AskedInProfile, AskedFor
-----------------------------------------------------------------------------
(* The device.                                                             *)

quiet == <<services, jobs, heard, clock>>

LEMMA RecordInv ==
  ASSUME DeskInv, UNCHANGED quiet, UNCHANGED <<shown, sent>>, recorder' \in Recorder,
         used \subseteq used', used' \subseteq Capture, RecorderInv', VoiceInv'
  PROVE  DeskInv'
<1>1. DeskTypeInv'
  BY DEF DeskInv, DeskTypeInv, quiet, jobs
<1>2. TextInv' /\ AudioWhole'
  BY DEF DeskInv, TextInv, AudioWhole
<1>3. OneEventPerAnswer' /\ AskedInProfile'
  <2>1. /\ UNCHANGED services /\ heard' \in Nat /\ heard <= heard'
        /\ \A i \in 1..heard : sent'[i] = sent[i]
        /\ \A k \in DOMAIN answers \cap JobKey :
             phase'[k] \in {"running", "completed", "cancelled"}
               => phase[k] \in {"running", "completed", "cancelled"}
    BY DEF DeskInv, DeskTypeInv, quiet, jobs
  <2> QED BY <2>1, ServicesKept
<1> QED BY <1>1, <1>2, <1>3 DEF DeskInv

LEMMA PressInv ==
  ASSUME DeskInv, UNCHANGED quiet, NEW c \in Capture, Press(c, clock)
  PROVE  DeskInv'
<1>1. /\ recorder' = [state |-> "recording", capture |-> c, audio |-> <<>>, from |-> clock]
      /\ used' = used \cup {c} /\ c \notin used /\ UNCHANGED <<shown, sent>>
  BY DEF Press, Record
<1>2. recorder' \in Recorder /\ used' \subseteq Capture
  BY <1>1 DEF Recorder, DeskInv, DeskTypeInv
<1>3. RecorderInv'
  BY <1>1 DEF RecorderInv
<1>4. VoiceInv'
  <2> SUFFICES ASSUME NEW i \in DOMAIN sent, sent[i].type = "voice"
               PROVE  /\ sent[i].body.capture \in used' /\ Fits(sent[i].body.audio)
                      /\ recorder'.capture # sent[i].body.capture
    BY <1>1 DEF VoiceInv
  <2>1. sent[i].body.capture \in used /\ Fits(sent[i].body.audio)
    BY DEF DeskInv, VoiceInv
  <2> QED BY <1>1, <2>1
<1> QED BY <1>1, <1>2, <1>3, <1>4, RecordInv

\* The recording goes on, is kept, or is thrown away: a capture that was sent
\* stays as it was, or is not in the recorder any more.
LEMMA ChangeInv ==
  ASSUME DeskInv, UNCHANGED quiet, UNCHANGED <<shown, sent, used>>, recorder' \in Recorder,
         RecorderInv',
         recorder'.state \in {"recording", "ready"} =>
           recorder.state = "recording" /\ recorder'.capture = recorder.capture
  PROVE  DeskInv'
<1>1. VoiceInv'
  <2> SUFFICES ASSUME NEW i \in DOMAIN sent, sent[i].type = "voice"
               PROVE  /\ sent[i].body.capture \in used /\ Fits(sent[i].body.audio)
                      /\ ~ (recorder'.state \in {"recording", "ready"}
                              /\ recorder'.capture = sent[i].body.capture)
    BY DEF VoiceInv
  <2>1. /\ sent[i].body.capture \in used /\ Fits(sent[i].body.audio)
        /\ recorder.state = "recording" => recorder.capture # sent[i].body.capture
    BY DEF DeskInv, VoiceInv
  <2> QED BY <2>1
<1>2. used' \subseteq Capture
  BY DEF DeskInv, DeskTypeInv
<1> QED BY <1>1, <1>2, RecordInv

LEMMA GoneInv ==
  ASSUME DeskInv, UNCHANGED quiet, UNCHANGED <<shown, sent, used>>,
         recorder' \in {Idle, Cancelled}
  PROVE  DeskInv'
<1> PICK r : r = recorder'
  OBVIOUS
<1>1. r \in Recorder /\ r.audio = <<>> /\ r.capture = None /\ r.state \in {"idle", "cancelled"}
  <2>1. CASE r = Idle
    BY <2>1 DEF Idle, Recorder
  <2>2. CASE r = Cancelled
    <3>1. r = [state |-> "cancelled", capture |-> None, audio |-> <<>>, from |-> None]
      BY <2>2 DEF Idle, Cancelled
    <3> QED BY <3>1 DEF Recorder
  <2> QED BY <2>1, <2>2
<1>2. RecorderInv'
  BY <1>1 DEF RecorderInv
<1> QED BY <1>1, <1>2, ChangeInv

LEMMA AppendInv ==
  ASSUME DeskInv, UNCHANGED quiet, NEW chunk \in Chunk, AppendEncoded(chunk)
  PROVE  DeskInv'
<1> PICK audio : audio = Append(recorder.audio, chunk)
  OBVIOUS
<1>1. /\ recorder.state = "recording" /\ UNCHANGED <<shown, sent, used>>
      /\ recorder' = IF Fits(audio) THEN [recorder EXCEPT !.audio = audio] ELSE Cancelled
  BY DEF AppendEncoded, Growing, Record
<1>2. CASE ~ Fits(audio)
  BY <1>1, <1>2, GoneInv
<1>3. CASE Fits(audio)
  <2>1. recorder' = [recorder EXCEPT !.audio = audio]
    BY <1>1, <1>3
  <2>2. recorder \in Recorder /\ audio \in Seq(Chunk)
    BY DEF DeskInv, DeskTypeInv, Recorder
  <2>3. /\ recorder' \in Recorder /\ recorder'.state = "recording"
        /\ recorder'.capture = recorder.capture /\ recorder'.audio = audio
    BY <1>1, <2>1, <2>2 DEF Recorder
  <2>4. RecorderInv'
    BY <1>1, <1>3, <2>3 DEF DeskInv, RecorderInv
  <2> QED BY <1>1, <2>3, <2>4, ChangeInv
<1> QED BY <1>2, <1>3

LEMMA ReleaseInv ==
  ASSUME DeskInv, UNCHANGED quiet, NEW t, Release(t)
  PROVE  DeskInv'
<1>1. recorder.state = "recording" /\ UNCHANGED <<shown, sent, used>>
  BY DEF Release, Record
<1>2. CASE recorder' = Cancelled
  BY <1>1, <1>2, GoneInv
<1>3. CASE recorder' = [recorder EXCEPT !.state = "ready", !.from = None] /\ recorder.audio # <<>>
  <2>1. recorder \in Recorder
    BY DEF DeskInv, DeskTypeInv
  <2>2. /\ recorder' \in Recorder /\ recorder'.state = "ready"
        /\ recorder'.capture = recorder.capture /\ recorder'.audio = recorder.audio
    BY <1>3, <2>1 DEF Recorder
  <2>3. RecorderInv'
    BY <1>1, <1>3, <2>2 DEF DeskInv, RecorderInv
  <2> QED BY <1>1, <2>2, <2>3, ChangeInv
<1> QED BY <1>2, <1>3 DEF Release, Record

\* One more message.
LEMMA SendInv ==
  ASSUME DeskInv, UNCHANGED quiet, NEW m \in Signed, Send(m),
         m.type = "text" => m.shown = ProfileOf[m.body.action],
         m.type = "voice" => /\ recorder.state = "ready"
                             /\ m.body.capture = recorder.capture /\ m.body.audio = recorder.audio
  PROVE  DeskInv'
<1>1. /\ sent \in Seq(Signed) /\ sent' = Append(sent, m) /\ UNCHANGED <<shown, recorder, used>>
      /\ heard \in 0..Len(sent)
  BY DEF Send, DeskInv, DeskTypeInv
<1>2. /\ sent' \in Seq(Signed) /\ Len(sent') = Len(sent) + 1 /\ sent'[Len(sent) + 1] = m
      /\ \A i \in 1..Len(sent) : sent'[i] = sent[i]
      /\ DOMAIN sent' = 1..(Len(sent) + 1) /\ DOMAIN sent = 1..Len(sent)
  BY <1>1
<1>3. DeskTypeInv'
  BY <1>1, <1>2 DEF DeskInv, DeskTypeInv, quiet, jobs
<1>4. ASSUME NEW i \in DOMAIN sent' PROVE (i \in DOMAIN sent /\ sent'[i] = sent[i]) \/ sent'[i] = m
  BY <1>1, <1>2
<1>5. RecorderInv' /\ TextInv'
  BY <1>1, <1>4 DEF DeskInv, RecorderInv, TextInv
<1>6. m.type = "voice" => m.body.capture \in used /\ Fits(m.body.audio)
  BY DEF DeskInv, RecorderInv
<1>7. VoiceInv'
  <2> SUFFICES ASSUME NEW i \in DOMAIN sent', sent'[i].type = "voice"
               PROVE  /\ sent'[i].body.capture \in used /\ Fits(sent'[i].body.audio)
                      /\ recorder.state \in {"recording", "ready"}
                           /\ recorder.capture = sent'[i].body.capture
                           => recorder.state = "ready" /\ recorder.audio = sent'[i].body.audio
    BY <1>1 DEF VoiceInv
  <2>1. CASE i \in DOMAIN sent /\ sent'[i] = sent[i]
    BY <2>1 DEF DeskInv, VoiceInv
  <2>2. CASE sent'[i] = m
    BY <1>6, <2>2
  <2> QED BY <1>4, <2>1, <2>2
<1>8. AudioWhole'
  <2> SUFFICES ASSUME NEW i \in DOMAIN sent', NEW j \in DOMAIN sent',
                      sent'[i].type = "voice", sent'[j].type = "voice"
               PROVE  /\ Fits(sent'[i].body.audio)
                      /\ sent'[i].body.capture = sent'[j].body.capture
                           => sent'[i].body.audio = sent'[j].body.audio
    BY DEF AudioWhole, Fits
  <2>1. ASSUME NEW n \in DOMAIN sent, sent[n].type = "voice", m.type = "voice"
        PROVE  m.body.capture = sent[n].body.capture => m.body.audio = sent[n].body.audio
    BY <2>1 DEF DeskInv, VoiceInv
  <2>2. CASE i \in DOMAIN sent /\ sent'[i] = sent[i]
    <3>1. Fits(sent[i].body.audio)
      BY <2>2 DEF DeskInv, VoiceInv
    <3>2. CASE j \in DOMAIN sent /\ sent'[j] = sent[j]
      BY <2>2, <3>1, <3>2 DEF DeskInv, AudioWhole
    <3>3. CASE sent'[j] = m
      BY <2>1, <2>2, <3>1, <3>3
    <3> QED BY <1>4, <3>2, <3>3
  <2>3. CASE sent'[i] = m
    <3>1. CASE j \in DOMAIN sent /\ sent'[j] = sent[j]
      BY <1>6, <2>1, <2>3, <3>1
    <3>2. CASE sent'[j] = m
      BY <1>6, <2>3, <3>2
    <3> QED BY <1>4, <3>1, <3>2
  <2> QED BY <1>4, <2>2, <2>3
<1>9. OneEventPerAnswer' /\ AskedInProfile'
  <2>1. /\ UNCHANGED services /\ heard' \in Nat /\ heard <= heard'
        /\ \A i \in 1..heard : sent'[i] = sent[i]
        /\ \A k \in DOMAIN answers \cap JobKey :
             phase'[k] \in {"running", "completed", "cancelled"}
               => phase[k] \in {"running", "completed", "cancelled"}
    BY <1>1, <1>2 DEF quiet, jobs
  <2> QED BY <2>1, ServicesKept
<1> QED BY <1>3, <1>5, <1>7, <1>8, <1>9 DEF DeskInv

LEMMA UseInv == ASSUME DeskInv, Use, UNCHANGED quiet PROVE DeskInv'
<1>1. clock \in Nat /\ shown \in Profiles /\ recorder \in Recorder
  BY DEF DeskInv, DeskTypeInv
<1>2. ASSUME NEW c \in Composed, NEW t \in 0..clock, SendText(c, t, clock) PROVE DeskInv'
  <2> PICK b : b = [c EXCEPT !.at = t]
    OBVIOUS
  <2>1. /\ c.profile = shown /\ Send(Message("text", b, clock))
    BY <1>2 DEF SendText, Visible
  <2>2. b.profile = ProfileOf[b.action] /\ c.profile = b.profile
    BY ComposedFields
  <2>3. t \in Nat
    BY <1>1
  <2>4. b \in {[d EXCEPT !.at = u] : d \in Composed, u \in Nat}
    <3>1. \E d \in Composed : \E u \in Nat : b = [d EXCEPT !.at = u]
      BY <2>3, Zenon
    <3> QED BY <3>1
  <2> PICK m : m = Message("text", b, clock)
    OBVIOUS
  <2>5. m \in TextMessage /\ m.type = "text" /\ m.shown = shown /\ m.body = b
    BY <1>1, <2>4 DEF Message, TextMessage
  <2>6. m \in Signed /\ m.shown = ProfileOf[m.body.action] /\ m.type # "voice"
    BY <2>1, <2>2, <2>5 DEF Signed
  <2> QED BY <2>1, <2>6, SendInv
<1>3. ASSUME SendVoice(clock) PROVE DeskInv'
  <2> PICK b : b = [capture |-> recorder.capture, audio |-> recorder.audio]
    OBVIOUS
  <2> PICK m : m = Message("voice", b, clock)
    OBVIOUS
  <2>1. recorder.state = "ready" /\ Send(m)
    BY <1>3 DEF SendVoice
  <2>2. recorder.capture \in Capture
    BY <2>1 DEF DeskInv, RecorderInv, DeskTypeInv
  <2>3. m \in VoiceMessage /\ m.type = "voice" /\ m.body = b
    BY <1>1, <2>2 DEF Message, VoiceMessage, Recorder
  <2>4. m \in Signed /\ m.type # "text" /\ m.body.capture = recorder.capture
        /\ m.body.audio = recorder.audio
    BY <2>3 DEF Signed
  <2> QED BY <2>1, <2>4, SendInv
<1>4. ASSUME NEW k \in JobKey, SendCancel(k, clock) PROVE DeskInv'
  <2> PICK m : m = Message("cancel", k, clock)
    OBVIOUS
  <2>1. m \in Signed /\ m.type = "cancel"
    BY <1>1 DEF Message, CancelMessage, Signed
  <2> QED BY <1>4, <2>1, SendInv DEF SendCancel
<1>5. ASSUME NEW p \in Profiles, Switch(p) PROVE DeskInv'
  <2>1. shown' = p /\ UNCHANGED <<recorder, used, sent>>
    BY <1>5 DEF Switch
  <2>2. DeskTypeInv'
    BY <2>1 DEF DeskInv, DeskTypeInv, quiet, jobs
  <2>3. RecorderInv' /\ TextInv' /\ VoiceInv' /\ AudioWhole'
    BY <2>1 DEF DeskInv, RecorderInv, TextInv, VoiceInv, AudioWhole
  <2>4. /\ UNCHANGED services /\ heard' \in Nat /\ heard <= heard'
        /\ \A i \in 1..heard : sent'[i] = sent[i]
        /\ \A k \in DOMAIN answers \cap JobKey :
             phase'[k] \in {"running", "completed", "cancelled"}
               => phase[k] \in {"running", "completed", "cancelled"}
    BY <2>1 DEF DeskInv, DeskTypeInv, quiet, jobs
  <2>5. OneEventPerAnswer' /\ AskedInProfile'
    BY <2>4, ServicesKept
  <2> QED BY <2>2, <2>3, <2>5 DEF DeskInv
<1>6. CASE CancelCapture
  BY <1>6, GoneInv DEF CancelCapture, Record
<1>7. ASSUME NEW c, Acknowledge(c) PROVE DeskInv'
  BY <1>7, GoneInv DEF Acknowledge, Record
<1> QED BY <1>2, <1>3, <1>4, <1>5, <1>6, <1>7, PressInv, AppendInv, ReleaseInv DEF Use, Profiles
-----------------------------------------------------------------------------
(* The services.                                                           *)

\* The device rests while message i is heard.
Hears(i) ==
  /\ i \in DOMAIN sent /\ i > heard /\ heard' = i
  /\ UNCHANGED <<device, clock>>

LEMMA HearsInv ==
  ASSUME DeskInv, NEW i, Hears(i), phase' \in [JobKey -> {"none", "running"} \cup Job!Outcome]
  PROVE  /\ DeskTypeInv' /\ RecorderInv' /\ TextInv' /\ VoiceInv' /\ AudioWhole'
         /\ heard' \in Nat /\ heard <= heard' /\ i \in 1..heard'
         /\ \A j \in 1..heard : sent'[j] = sent[j]
<1>1. /\ UNCHANGED <<shown, recorder, used, sent, clock>> /\ heard' = i /\ heard \in 0..Len(sent)
      /\ i \in 1..Len(sent) /\ i > heard
  BY DEF Hears, device, DeskInv, DeskTypeInv
<1>2. DeskTypeInv'
  BY <1>1 DEF DeskInv, DeskTypeInv
<1>3. RecorderInv' /\ TextInv' /\ VoiceInv' /\ AudioWhole'
  BY <1>1 DEF DeskInv, RecorderInv, TextInv, VoiceInv, AudioWhole
<1> QED BY <1>1, <1>2, <1>3

\* A new answer leaves the others.
LEMMA KeepEffect ==
  ASSUME NEW k, NEW a, Keep(k, a), k \notin DOMAIN answers
  PROVE  /\ DOMAIN answers' = DOMAIN answers \cup {k} /\ answers'[k] = a
         /\ \A j \in DOMAIN answers : answers'[j] = answers[j] /\ j # k
  BY DEF Keep

\* The others are still asked for, and the new one is.
LEMMA AskedAdded ==
  ASSUME DeskInv, NEW i, Hears(i), NEW k, NEW a, Keep(k, a), k \notin DOMAIN answers,
         phase' \in [JobKey -> {"none", "running"} \cup Job!Outcome],
         \A j \in DOMAIN answers \cap JobKey : phase'[j] = phase[j],
         Worked(k)' => /\ Carries(sent[i], k)' /\ sent[i].at = a.request.at
                       /\ sent[i].shown = ProfileOf[k[1]]
                       /\ \A r \in a.result :
                            IF k[1] = "asset.list" THEN r.org = k[2] ELSE CameraOrg[r] = k[2]
  PROVE  AskedInProfile'
<1>1. /\ DOMAIN answers' = DOMAIN answers \cup {k} /\ answers'[k] = a
      /\ \A j \in DOMAIN answers : answers'[j] = answers[j] /\ j # k
  BY KeepEffect
<1>2. /\ heard' \in Nat /\ heard <= heard' /\ i \in 1..heard'
      /\ \A j \in 1..heard : sent'[j] = sent[j]
  BY HearsInv
<1>3. ASSUME NEW j \in DOMAIN answers PROVE Worked(j)' => AskedFor(j)'
  <2>1. answers'[j] = answers[j] /\ (Worked(j)' => Worked(j))
    BY <1>1 DEF Worked
  <2> QED BY <1>2, <2>1, AskedKept
<1>4. Worked(k)' => AskedFor(k)'
  BY <1>1, <1>2 DEF AskedFor, Hears, device
<1> QED BY <1>1, <1>3, <1>4 DEF AskedInProfile, AskedFor

\* A text message that is heard, and the request it carries.
LEMMA TextHeard ==
  ASSUME DeskInv, NEW i \in DOMAIN sent, sent[i].type = "text"
  PROVE  sent[i].shown = ProfileOf[sent[i].body.action] /\ sent[i].body.id \in CommandId
<1>1. sent[i] \in Signed
  BY DEF DeskInv, DeskTypeInv
<1>2. sent[i] \in TextMessage
  BY <1>1, SignedAs
<1>3. PICK c \in Composed, t \in Nat : sent[i].body = [c EXCEPT !.at = t]
  BY <1>2 DEF TextMessage
<1>4. sent[i].body.id \in CommandId
  BY <1>3, ComposedFields
<1> QED BY <1>4 DEF DeskInv, TextInv

\* A query answers a request for the first time, with one event.
LEMMA QueryInv ==
  ASSUME DeskInv, NEW i, Hears(i), NEW q, NEW x \in Context, UNCHANGED jobs,
         sent[i].type = "text", q = sent[i].body, q.at = sent[i].at,
         \/ q.action = "camera.status" /\ QueryCamera(q, x, clock)
         \/ ListAssets(q, x, clock)
  PROVE  DeskInv'
<1> PICK k : k = KeyOf(q, x)
  OBVIOUS
<1> PICK reason : /\ Answer(q, x, clock, reason)
                  /\ reason = "allow" => Fresh(q, clock)
                  /\ q.action \in {"camera.status", "asset.list"}
                  /\ q.action # "asset.list" /\ reason = "allow" => OwnsCamera(x.actor.org, q.target)
  <2>1. CASE q.action = "camera.status" /\ QueryCamera(q, x, clock)
    BY <2>1, CameraAllowed DEF QueryCamera
  <2>2. CASE ListAssets(q, x, clock)
    BY <2>2, AssetsAllowed DEF ListAssets
  <2> QED BY <2>1, <2>2
<1> PICK a : a = [request |-> q, reason |-> reason, result |-> Result(q, x, reason)]
  OBVIOUS
<1> PICK e : e = [key |-> k, result |-> Status(reason), at |-> clock]
  OBVIOUS
<1>1. k \notin DOMAIN answers /\ Keep(k, a) /\ audit' = audit \cup {e}
  BY DEF Answer, New, Audit
<1>2. /\ DOMAIN answers' = DOMAIN answers \cup {k} /\ answers'[k] = a
      /\ \A j \in DOMAIN answers : answers'[j] = answers[j] /\ j # k
  BY <1>1, KeepEffect
<1>3. k[1] = q.action /\ k[2] = x.actor.org /\ k \notin JobKey
  BY DEF KeyOf, JobKey, JobAction
<1>4. phase' = phase /\ phase' \in [JobKey -> {"none", "running"} \cup Job!Outcome]
  BY DEF jobs, DeskInv, DeskTypeInv
<1>5. OneEventPerAnswer'
  <2>1. ASSUME NEW f \in audit'
        PROVE  f.key \in DOMAIN answers' /\ f.result = Status(answers'[f.key].reason)
    <3>1. CASE f = e
      BY <1>2, <3>1
    <3>2. CASE f \in audit
      BY <1>2, <3>2 DEF DeskInv, OneEventPerAnswer
    <3> QED BY <1>1, <3>1, <3>2
  <2>2. ASSUME NEW j \in DOMAIN answers', j \notin JobKey
        PROVE  /\ Cardinality({f \in audit' : f.key = j}) = 1
               /\ answers'[j].reason = "allow" =>
                    \E f \in audit' : f.key = j /\ Fresh(answers'[j].request, f.at)
    <3>1. CASE j = k
      <4>1. {f \in audit' : f.key = j} = {e}
        BY <1>1, <3>1 DEF DeskInv, OneEventPerAnswer
      <4>2. Cardinality({e}) = 1
        BY FS_Singleton
      <4>3. e \in audit' /\ e.key = k /\ e.at = clock
        BY <1>1
      <4>4. answers'[k].reason = reason /\ answers'[k].request = q
        BY <1>2
      <4> QED BY <3>1, <4>1, <4>2, <4>3, <4>4
    <3>2. CASE j # k
      <4>1. j \in DOMAIN answers /\ answers'[j] = answers[j]
        BY <1>2, <3>2
      <4>2. {f \in audit' : f.key = j} = {f \in audit : f.key = j}
        BY <1>1, <3>2
      <4>3. /\ Cardinality({f \in audit : f.key = j}) = 1
            /\ answers[j].reason = "allow" =>
                 \E f \in audit : f.key = j /\ Fresh(answers[j].request, f.at)
        BY <2>2, <4>1 DEF DeskInv, OneEventPerAnswer
      <4> QED BY <1>1, <4>1, <4>2, <4>3
    <3> QED BY <3>1, <3>2
  <2> QED BY <2>1, <2>2 DEF OneEventPerAnswer
<1>6. AskedInProfile'
  <2>1. i \in DOMAIN sent /\ sent[i].shown = ProfileOf[q.action]
    BY TextHeard DEF Hears
  <2>2. Worked(k)' => reason = "allow"
    BY <1>2, <1>3 DEF Worked
  <2>3. Carries(sent[i], k)'
    BY <1>2 DEF Carries, Hears, device
  <2>4. ASSUME reason = "allow", NEW r \in a.result
        PROVE  IF k[1] = "asset.list" THEN r.org = k[2] ELSE CameraOrg[r] = k[2]
    <3>1. CASE q.action = "asset.list"
      BY <1>3, <2>4, <3>1 DEF Result, Listed, Selected
    <3>2. CASE q.action # "asset.list"
      BY <1>3, <2>4, <3>2 DEF Result, OwnsCamera
    <3> QED BY <3>1, <3>2
  <2>5. Worked(k)' => /\ Carries(sent[i], k)' /\ sent[i].at = a.request.at
                      /\ sent[i].shown = ProfileOf[k[1]]
                      /\ \A r \in a.result :
                           IF k[1] = "asset.list" THEN r.org = k[2] ELSE CameraOrg[r] = k[2]
    BY <1>3, <2>1, <2>2, <2>3, <2>4
  <2> QED BY <1>1, <1>4, <2>5, AskedAdded
<1>7. DeskTypeInv' /\ RecorderInv' /\ TextInv' /\ VoiceInv' /\ AudioWhole'
  BY <1>4, HearsInv
<1> QED BY <1>5, <1>6, <1>7 DEF DeskInv

\* A job begins, or its command is refused, under a key that has no answer yet.
LEMMA JobPhase ==
  ASSUME DeskInv, NEW k \in JobKey, Job!Begin(k) \/ Job!Refuse(k)
  PROVE  /\ phase' \in [JobKey -> {"none", "running"} \cup Job!Outcome]
         /\ \A j \in JobKey \ {k} : phase'[j] = phase[j]
<1>1. phase \in [JobKey -> {"none", "running"} \cup Job!Outcome]
  BY DEF DeskInv, DeskTypeInv
<1>2. PICK p \in {"none", "running"} \cup Job!Outcome : phase' = [phase EXCEPT ![k] = p]
  <2>1. {"denied", "failed"} \subseteq Job!Outcome
    BY DEF Job!Outcome, Job!ResultOf
  <2> QED BY <2>1 DEF Job!Begin, Job!Refuse, Job!Conclude
<1> QED BY <1>1, <1>2

LEMMA StartJobInv ==
  ASSUME DeskInv, NEW i, Hears(i), NEW q, NEW x \in Context, StartJob(q, x),
         q.action \in JobAction, q.id \in CommandId \cup Capture, q.at = sent[i].at,
         sent[i].shown = ProfileOf[q.action],
         \/ sent[i].type = "text" /\ sent[i].body = q
         \/ sent[i].type = "voice" /\ q.action = "camera.monitor" /\ sent[i].body.capture = q.id
  PROVE  DeskInv'
<1> PICK k : k = KeyOf(q, x)
  OBVIOUS
<1> PICK a : a = [request |-> q, reason |-> "job", result |-> {}]
  OBVIOUS
<1>1. k \in JobKey /\ k[1] = q.action /\ k[4] = q.id
  BY DEF KeyOf, JobKey
<1>2. /\ k \notin DOMAIN answers /\ Keep(k, a) /\ audit' = audit
      /\ Job!Begin(k) \/ Job!Refuse(k)
  BY DEF StartJob, New
<1>3. /\ DOMAIN answers' = DOMAIN answers \cup {k} /\ answers'[k] = a
      /\ \A j \in DOMAIN answers : answers'[j] = answers[j] /\ j # k
  BY <1>2, KeepEffect
<1>4. /\ phase' \in [JobKey -> {"none", "running"} \cup Job!Outcome]
      /\ \A j \in DOMAIN answers \cap JobKey : phase'[j] = phase[j]
  BY <1>1, <1>2, <1>3, JobPhase
<1>5. OneEventPerAnswer'
  BY <1>1, <1>2, <1>3 DEF DeskInv, OneEventPerAnswer
<1>6. Carries(sent[i], k)'
  BY <1>1, <1>3 DEF Carries, Hears, device
<1>7. AskedInProfile'
  BY <1>1, <1>2, <1>4, <1>6, AskedAdded
<1>8. DeskTypeInv' /\ RecorderInv' /\ TextInv' /\ VoiceInv' /\ AudioWhole'
  BY <1>4, HearsInv
<1> QED BY <1>5, <1>7, <1>8 DEF DeskInv

\* A running job is given an end.
LEMMA EndInv ==
  ASSUME DeskInv, NEW k \in JobKey, phase[k] = "running", NEW o \in Job!Outcome,
         Job!Conclude(k, o)
  PROVE  /\ phase' \in [JobKey -> {"none", "running"} \cup Job!Outcome]
         /\ \A j \in DOMAIN answers \cap JobKey :
              phase'[j] \in {"running", "completed", "cancelled"}
                => phase[j] \in {"running", "completed", "cancelled"}
  BY DEF Job!Conclude, DeskInv, DeskTypeInv

\* The job that a cancellation names.
LEMMA CancelHeard ==
  ASSUME DeskInv, NEW i \in DOMAIN sent, sent[i].type = "cancel"
  PROVE  sent[i].body \in JobKey
<1>1. sent[i] \in Signed
  BY DEF DeskInv, DeskTypeInv
<1> QED BY <1>1, SignedAs DEF CancelMessage

\* The capture that a voice message carries.
LEMMA VoiceHeard ==
  ASSUME DeskInv, NEW i \in DOMAIN sent, sent[i].type = "voice"
  PROVE  sent[i].body.capture \in Capture
<1>1. sent[i] \in Signed
  BY DEF DeskInv, DeskTypeInv
<1> QED BY <1>1, SignedAs DEF VoiceMessage

LEMMA Outcomes == /\ Job!Outcome = {"denied", "completed", "failed", "cancelled"}
  BY DEF Job!Outcome, Job!ResultOf

LEMMA DeliverInv ==
  ASSUME DeskInv, NEW i, NEW x \in Context, Deliver(i, x)
  PROVE  DeskInv'
<1>1. Hears(i) /\ i \in DOMAIN sent
  BY DEF Deliver, Hears
<1>2. phase \in [JobKey -> {"none", "running"} \cup Job!Outcome]
  BY DEF DeskInv, DeskTypeInv
<1>3. CASE HandleText(sent[i], x)
  <2> PICK q : q = sent[i].body
    OBVIOUS
  <2>1. sent[i].type = "text" /\ q.at = sent[i].at /\ Dispatch(q, x)
    BY <1>3 DEF HandleText
  <2>2. sent[i].shown = ProfileOf[q.action] /\ q.id \in CommandId
    BY <1>1, <2>1, TextHeard
  <2>3. CASE q.action \in JobAction /\ StartJob(q, x)
    BY <1>1, <2>1, <2>2, <2>3, StartJobInv
  <2>4. CASE q.action = "camera.status" /\ QueryCamera(q, x, clock) /\ UNCHANGED jobs
    BY <1>1, <2>1, <2>4, QueryInv
  <2>5. CASE ListAssets(q, x, clock) /\ UNCHANGED jobs
    BY <1>1, <2>1, <2>5, QueryInv
  <2> QED BY <2>1, <2>3, <2>4, <2>5 DEF Dispatch
<1>4. CASE HandleVoice(sent[i], x)
  <2> PICK q : q = VoiceCommand(sent[i], x)
    OBVIOUS
  <2>1. sent[i].type = "voice" /\ sent[i].shown = "sentinel" /\ StartJob(q, x)
    BY <1>4 DEF HandleVoice
  <2>2. q.action = "camera.monitor" /\ q.id = sent[i].body.capture /\ q.at = sent[i].at
    BY DEF VoiceCommand
  <2>3. q.id \in CommandId \cup Capture
    BY <1>1, <2>1, <2>2, VoiceHeard
  <2>4. ProfileOf["camera.monitor"] = "sentinel" /\ "camera.monitor" \in JobAction
    BY DEF ProfileOf, JobAction
  <2> QED BY <1>1, <2>1, <2>2, <2>3, <2>4, StartJobInv
<1>5. ASSUME UNCHANGED services, phase' \in [JobKey -> {"none", "running"} \cup Job!Outcome],
             \A j \in DOMAIN answers \cap JobKey :
               phase'[j] \in {"running", "completed", "cancelled"}
                 => phase[j] \in {"running", "completed", "cancelled"}
      PROVE  DeskInv'
  <2>1. /\ DeskTypeInv' /\ RecorderInv' /\ TextInv' /\ VoiceInv' /\ AudioWhole'
        /\ heard' \in Nat /\ heard <= heard' /\ \A j \in 1..heard : sent'[j] = sent[j]
    BY <1>1, <1>5, HearsInv
  <2>2. OneEventPerAnswer' /\ AskedInProfile'
    BY <1>5, <2>1, ServicesKept
  <2> QED BY <2>1, <2>2 DEF DeskInv
<1>6. CASE HandleCancel(sent[i], x)
  <2> PICK k : k = sent[i].body
    OBVIOUS
  <2>1. k \in JobKey /\ phase[k] = "running" /\ Job!Conclude(k, "cancelled") /\ UNCHANGED services
    BY <1>1, <1>6, CancelHeard DEF HandleCancel, Cancellable
  <2>2. "cancelled" \in Job!Outcome
    BY Outcomes
  <2> QED BY <1>5, <2>1, <2>2, EndInv
<1>7. CASE Rejected
  BY <1>2, <1>5, <1>7 DEF Rejected, jobs
<1> QED BY <1>3, <1>4, <1>6, <1>7 DEF Deliver

LEMMA DeskNextInv == DeskInv /\ [DeskNext]_deskVars => DeskInv'
<1> SUFFICES ASSUME DeskInv, [DeskNext]_deskVars PROVE DeskInv'
  OBVIOUS
<1>1. ASSUME UNCHANGED <<device, services, heard>>, clock' \in Nat,
             phase' \in [JobKey -> {"none", "running"} \cup Job!Outcome],
             \A j \in DOMAIN answers \cap JobKey :
               phase'[j] \in {"running", "completed", "cancelled"}
                 => phase[j] \in {"running", "completed", "cancelled"}
      PROVE  DeskInv'
  <2>1. DeskTypeInv' /\ heard' \in Nat /\ heard <= heard' /\ \A j \in 1..heard : sent'[j] = sent[j]
    BY <1>1 DEF DeskInv, DeskTypeInv, device
  <2>2. RecorderInv' /\ TextInv' /\ VoiceInv' /\ AudioWhole'
    BY <1>1 DEF DeskInv, RecorderInv, TextInv, VoiceInv, AudioWhole, device
  <2>3. OneEventPerAnswer' /\ AskedInProfile'
    BY <1>1, <2>1, ServicesKept
  <2> QED BY <2>1, <2>2, <2>3 DEF DeskInv
<1>2. clock \in Nat /\ phase \in [JobKey -> {"none", "running"} \cup Job!Outcome]
  BY DEF DeskInv, DeskTypeInv
<1>3. CASE Use /\ UNCHANGED <<services, jobs, heard, clock>>
  BY <1>3, UseInv DEF quiet
<1>4. ASSUME NEW k \in JobKey, EndJob(k), UNCHANGED <<device, services, heard, clock>>
      PROVE  DeskInv'
  <2>1. PICK o \in Job!Outcome : phase[k] = "running" /\ Job!Conclude(k, o)
    BY <1>4, Outcomes DEF EndJob
  <2> QED BY <1>1, <1>2, <1>4, <2>1, EndInv
<1>5. CASE Elapse
  BY <1>1, <1>2, <1>5 DEF Elapse, jobs
<1>6. CASE UNCHANGED deskVars
  BY <1>1, <1>2, <1>6 DEF deskVars, jobs
<1> QED BY <1>3, <1>4, <1>5, <1>6, DeliverInv DEF DeskNext

\* Commands, messages, the recorder and the answers as CommandDevice,
\* CommandServices and the gateways keep them.
THEOREM DeskInvariance == DeskSpec => []DeskInv
BY DeskInitInv, DeskNextInv, PTL DEF DeskSpec

\* The audit log of the query services holds one event of each answer, of its
\* result, and an allowed one was fresh at the time of its event.
THEOREM AuditedOnce == DeskSpec => []OneEventPerAnswer
BY DeskInvariance, PTL DEF DeskInv

\* Whatever is answered or started was asked for by a message that the device
\* signed in the profile of the action, in the operator's organization.
THEOREM AskedByDevice == DeskSpec => []AskedInProfile
BY DeskInvariance, PTL DEF DeskInv

\* PushToTalkRecorder: a capture is sent within both limits, and always with
\* the same audio.
THEOREM CapturesWhole == DeskSpec => []AudioWhole
BY DeskInvariance, PTL DEF DeskInv
\* A job has a phase exactly when its command is remembered, and no event is
\* of a time to come.
AnsweredInv ==
  /\ \A k \in JobKey : phase[k] # "none" <=> k \in DOMAIN answers
  /\ \A e \in audit : e.at \in 0..clock

LEMMA StartAnswered ==
  ASSUME DeskInv, AnsweredInv, NEW q, NEW x \in Context, StartJob(q, x), UNCHANGED clock,
         q.action \in JobAction, q.id \in CommandId \cup Capture
  PROVE  AnsweredInv'
<1> PICK k : k = KeyOf(q, x)
  OBVIOUS
<1> PICK a : k \notin DOMAIN answers /\ Keep(k, a) /\ audit' = audit
             /\ (Job!Begin(k) \/ Job!Refuse(k))
  BY DEF StartJob, New
<1>1. k \in JobKey
  BY DEF KeyOf, JobKey
<1>2. DOMAIN answers' = DOMAIN answers \cup {k}
  BY KeepEffect
<1>3. \A j \in JobKey \ {k} : phase'[j] = phase[j]
  BY <1>1, JobPhase
<1>4. phase'[k] # "none"
  BY <1>1 DEF Job!Begin, Job!Refuse, Job!Conclude, DeskInv, DeskTypeInv
<1> QED BY <1>1, <1>2, <1>3, <1>4 DEF AnsweredInv

LEMMA QueryAnswered ==
  ASSUME DeskInv, AnsweredInv, NEW q, NEW x, NEW reason, Answer(q, x, clock, reason),
         q.action \notin JobAction, UNCHANGED <<jobs, clock>>
  PROVE  AnsweredInv'
<1> PICK k : k = KeyOf(q, x)
  OBVIOUS
<1>1. PICK a : k \notin DOMAIN answers /\ Keep(k, a)
              /\ audit' = audit \cup {[key |-> k, result |-> Status(reason), at |-> clock]}
  BY DEF Answer, New, Audit
<1>2. k \notin JobKey
  BY DEF KeyOf, JobKey
<1>3. DOMAIN answers' = DOMAIN answers \cup {k}
  BY <1>1, KeepEffect
<1>4. clock \in Nat
  BY DEF DeskInv, DeskTypeInv
<1> QED BY <1>1, <1>2, <1>3, <1>4 DEF AnsweredInv, jobs

LEMMA ConcludeAnswered ==
  ASSUME DeskInv, AnsweredInv, NEW k \in JobKey, phase[k] = "running", NEW o \in Job!Outcome,
         Job!Conclude(k, o), UNCHANGED <<services, clock>>
  PROVE  AnsweredInv'
<1>1. phase' = [phase EXCEPT ![k] = o] /\ o # "none"
  BY Outcomes DEF Job!Conclude
<1> QED BY <1>1 DEF AnsweredInv, services, DeskInv, DeskTypeInv

LEMMA DeliverAnswered ==
  ASSUME DeskInv, AnsweredInv, NEW i \in DOMAIN sent, NEW x \in Context, Deliver(i, x)
  PROVE  AnsweredInv'
<1>1. UNCHANGED clock
  BY DEF Deliver
<1>2. CASE HandleText(sent[i], x)
  <2> PICK q : q = sent[i].body
    OBVIOUS
  <2>1. q.id \in CommandId /\ Dispatch(q, x)
    BY <1>2, TextHeard DEF HandleText
  <2>2. CASE q.action \in JobAction /\ StartJob(q, x)
    BY <1>1, <2>1, <2>2, StartAnswered
  <2>3. CASE ((q.action = "camera.status" /\ QueryCamera(q, x, clock)) \/ ListAssets(q, x, clock))
             /\ UNCHANGED jobs
    <3>1. q.action \notin JobAction
      BY <2>3 DEF ListAssets, JobAction
    <3>2. \E reason : Answer(q, x, clock, reason)
      BY <2>3 DEF ListAssets, QueryCamera
    <3> QED BY <1>1, <2>3, <3>1, <3>2, QueryAnswered
  <2> QED BY <2>1, <2>2, <2>3 DEF Dispatch
<1>3. CASE HandleVoice(sent[i], x)
  <2> PICK q : q = VoiceCommand(sent[i], x)
    OBVIOUS
  <2>1. q.action \in JobAction /\ q.id = sent[i].body.capture
    BY DEF VoiceCommand, JobAction
  <2>2. q.id \in Capture
    BY <1>3, <2>1, VoiceHeard DEF HandleVoice
  <2> QED BY <1>1, <1>3, <2>1, <2>2, StartAnswered DEF HandleVoice
<1>4. CASE HandleCancel(sent[i], x)
  <2>1. sent[i].body \in JobKey /\ "cancelled" \in Job!Outcome
    BY <1>4, CancelHeard, Outcomes DEF HandleCancel
  <2> QED BY <1>1, <1>4, <2>1, ConcludeAnswered DEF HandleCancel, Cancellable
<1>5. CASE Rejected
  BY <1>1, <1>5 DEF Rejected, services, jobs, AnsweredInv
<1> QED BY <1>2, <1>3, <1>4, <1>5 DEF Deliver

LEMMA AnsweredStep == DeskInv /\ AnsweredInv /\ [DeskNext]_deskVars => AnsweredInv'
<1> SUFFICES ASSUME DeskInv, AnsweredInv, [DeskNext]_deskVars PROVE AnsweredInv'
  OBVIOUS
<1>1. CASE UNCHANGED <<services, jobs>> /\ clock' \in {clock, clock + 1}
  BY <1>1 DEF services, jobs, AnsweredInv, DeskInv, DeskTypeInv
<1>2. ASSUME NEW i, NEW x \in Context, Deliver(i, x) PROVE AnsweredInv'
  <2>1. i \in DOMAIN sent
    BY <1>2 DEF Deliver
  <2> QED BY <1>2, <2>1, DeliverAnswered
<1>3. ASSUME NEW k \in JobKey, EndJob(k), UNCHANGED <<services, clock>> PROVE AnsweredInv'
  <2>1. PICK o \in Job!Outcome : phase[k] = "running" /\ Job!Conclude(k, o)
    BY <1>3, Outcomes DEF EndJob
  <2> QED BY <1>3, <2>1, ConcludeAnswered
<1> QED BY <1>1, <1>2, <1>3 DEF DeskNext, deskVars, Elapse

\* Types of the recorder, the messages, the jobs and the audit log; a job is
\* known exactly when its command is remembered.
THEOREM DeskTyped == DeskSpec => []DeskTypeOK
<1>1. DeskInit => AnsweredInv
  <2> SUFFICES ASSUME DeskInit PROVE AnsweredInv
    OBVIOUS
  <2>1. DOMAIN answers = {} /\ audit = {} /\ phase = [k \in JobKey |-> "none"]
    BY DEF DeskInit, Job!Init
  <2> QED BY <2>1 DEF AnsweredInv
<1>2. DeskInv /\ AnsweredInv => DeskTypeOK
  <2> SUFFICES ASSUME DeskInv, AnsweredInv PROVE DeskTypeOK
    OBVIOUS
  <2>1. recorder.state \in {"recording", "ready"} => recorder.capture # None
    BY DeskAssumption DEF DeskInv, DeskTypeInv, RecorderInv
  <2> QED BY <2>1 DEF DeskTypeOK, DeskInv, DeskTypeInv, RecorderInv, Recorder, AnsweredInv
<1> QED BY <1>1, <1>2, AnsweredStep, DeskInvariance, PTL DEF DeskSpec

-----------------------------------------------------------------------------
(* What no call changes.                                                   *)

\* What a query or the start of a job makes of the answers.
LEMMA Dispatched ==
  ASSUME NEW q, NEW x, NEW k \in DOMAIN answers, Dispatch(q, x) \/ StartJob(q, x)
  PROVE  k \in DOMAIN answers' /\ answers'[k] = answers[k]
<1>1. PICK j, a : Keep(j, a) /\ j \notin DOMAIN answers
  BY DEF Dispatch, StartJob, QueryCamera, ListAssets, Answer, New
<1> QED BY <1>1, KeepEffect

\* An answer is final (_outcomes of the services, and the jobs' replay memory):
\* neither the same command nor a changed one under its id replaces it.
THEOREM AnswersStay == DeskSpec => AnswersFinal
<1>1. [DeskNext]_deskVars =>
        [\A k \in DOMAIN answers : k \in DOMAIN answers' /\ answers'[k] = answers[k]]_deskVars
  <2> SUFFICES ASSUME DeskNext, NEW k \in DOMAIN answers
               PROVE  k \in DOMAIN answers' /\ answers'[k] = answers[k]
    BY DEF deskVars
  <2>1. CASE UNCHANGED services
    BY <2>1 DEF services
  <2>2. ASSUME NEW i \in DOMAIN sent, NEW x \in Context, Deliver(i, x)
        PROVE  k \in DOMAIN answers' /\ answers'[k] = answers[k]
    BY <2>1, <2>2, Dispatched DEF Deliver, HandleText, HandleVoice, HandleCancel, Rejected
  <2> QED BY <2>1, <2>2 DEF DeskNext, Elapse
<1> QED BY <1>1, PTL DEF DeskSpec, AnswersFinal

\* Audio that is ready leaves the recorder only when the operator cancels it or
\* when its own command has been answered (PushToTalkRecorder).
THEOREM AudioKept == DeskSpec => CaptureKept
<1> DEFINE Kept == recorder.state = "ready" /\ recorder' # recorder =>
                     \/ recorder'.state = "cancelled"
                     \/ recorder'.state = "idle" /\ Answered(recorder.capture)
<1>1. [DeskNext]_deskVars => [Kept]_deskVars
  <2> SUFFICES ASSUME DeskNext, recorder.state = "ready", recorder' # recorder
               PROVE  \/ recorder'.state = "cancelled"
                      \/ recorder'.state = "idle" /\ Answered(recorder.capture)
    BY DEF deskVars
  <2>1. Use
    BY DEF DeskNext, Deliver, Elapse, device
  <2>2. ASSUME NEW c \in Capture, Answered(c), Acknowledge(c)
        PROVE  recorder'.state = "idle" /\ Answered(recorder.capture)
    BY <2>2 DEF Acknowledge, Record, Idle
  <2>3. CASE CancelCapture
    <3>1. recorder' = Cancelled
      BY <2>3 DEF CancelCapture, Record
    <3>2. Cancelled.state = "cancelled"
      BY DEF Cancelled, Idle
    <3> QED BY <3>1, <3>2
  <2>4. ASSUME NEW c \in Capture, Press(c, clock) PROVE FALSE
    BY <2>4 DEF Press
  <2>5. ASSUME NEW chunk \in Chunk, AppendEncoded(chunk) PROVE FALSE
    BY <2>5 DEF AppendEncoded, Growing
  <2>6. ASSUME NEW t, Release(t) PROVE FALSE
    BY <2>6 DEF Release
  <2>7. ASSUME \/ \E c \in Composed, t \in 0..clock : SendText(c, t, clock)
               \/ SendVoice(clock)
               \/ \E k \in {j \in JobKey : phase[j] # "none"} : SendCancel(k, clock)
               \/ \E p \in {"assistant", "sentinel", "inventory"} : Switch(p)
        PROVE  FALSE
    BY <2>7 DEF SendText, SendVoice, SendCancel, Send, Switch
  <2> QED BY <2>1, <2>2, <2>3, <2>4, <2>5, <2>6, <2>7 DEF Use
<1> QED BY <1>1, PTL DEF DeskSpec, CaptureKept

=============================================================================
