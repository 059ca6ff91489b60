------------------------------ MODULE LinkSession ------------------------------
(***************************************************************************)
(* Governed Tomato Link sessions (services/link-relay/.../                 *)
(* session_governance.py with sealed_payload.py).  Each side of a route    *)
(* has its own credential vault, lease authority and governed codec.       *)
(* Operators provision, rotate and revoke the credential of a route on one *)
(* side at a time; a side issues leases, the other accepts them, and what  *)
(* one of them seals under a lease whoever holds its session opens.  The   *)
(* code compares the route and session of a payload with those of the key; *)
(* it does not ask which end of the route seals, and the two ends have the *)
(* same key and nonce guards of their own.                                 *)
(* Lease contracts and sealed payloads travel over a network that delays,  *)
(* repeats and reorders them and on which a contract or the outer metadata *)
(* of a payload may be changed.                                            *)
(*                                                                         *)
(* A key, a tag and a ciphertext are the data they are computed from.  The *)
(* sides' clocks differ by constant offsets.  Rejected calls and retries   *)
(* answered from a record change nothing and are the stuttering steps.     *)
(***************************************************************************)
EXTENDS Integers, Sequences, FiniteSets

CONSTANTS
  Side,          (* the processes: edges and devices                        *)
  Ahead,         (* how far the clock of each side is ahead                 *)
  Route,         (* routes (organization, source, destination)              *)
  KeyId, Secret, (* root key ids and root secrets                           *)
  LeaseId, SessionId,
  Frame,         (* the rest of the outer metadata that is authenticated    *)
  Nonce,         (* what nonce_source may return                            *)
  MinTTL, MaxTTL, MaxSkew,   (* MINIMUM_ and MAXIMUM_SESSION_TTL, _SKEW     *)
  MaxRotations,  (* MAXIMUM_RETIRED_LINK_KEYS                               *)
  MaxRecords,    (* MAXIMUM_LEASE_RECORDS                                   *)
  MaxNonces,     (* MAXIMUM_TRACKED_NONCES                                  *)
  MaxLeases,     (* bound of the leases issued in a finite run              *)
  MaxTime        (* bound of the clock in a finite run                      *)

ASSUME LimitAssumption ==
  /\ MinTTL \in Nat \ {0} /\ MaxTTL \in Nat /\ MaxSkew \in Nat
  /\ MaxRotations \in Nat /\ MaxRecords \in Nat \ {0} /\ MaxNonces \in Nat
  /\ MaxLeases \in Nat /\ MaxTime \in Nat

ASSUME SideAssumption == Ahead \in [Side -> Nat]

VARIABLES
  vault,        (* side -> route -> its _CredentialEntry                    *)
  usedSecrets,  (* side -> _secret_fingerprints                             *)
  records,      (* side -> lease id -> fingerprint and lease (_records)     *)
  recordOrder,  (* side -> lease ids, oldest first                          *)
  sessions,     (* side -> the leases of the managed sessions callers hold  *)
  usedNonces,   (* side -> <<key id, nonce>> used by its codec              *)
  now,          (* the time of an exact clock                               *)
  contracts,    (* history: authenticated lease contracts ever issued       *)
  sealed,       (* history: sealed payloads and who sealed them, in order   *)
  opened        (* history: what the last step opened, if anything          *)

credentials == <<vault, usedSecrets>>
authority   == <<records, recordOrder, sessions, contracts>>
codec       == <<usedNonces, sealed>>
vars        == <<credentials, authority, codec, opened, now>>

-----------------------------------------------------------------------------
Clock(s) == now + Ahead[s]

Entry == [key : KeyId, secret : Secret, revoked : BOOLEAN,
          revision : Nat \ {0}, retired : SUBSET KeyId]

Init ==
  /\ vault = [s \in Side |-> <<>>]
  /\ usedSecrets = [s \in Side |-> {}]
  /\ records = [s \in Side |-> <<>>]
  /\ recordOrder = [s \in Side |-> <<>>]
  /\ sessions = [s \in Side |-> {}]
  /\ usedNonces = [s \in Side |-> {}]
  /\ now = 0
  /\ contracts = {}
  /\ sealed = <<>>
  /\ opened = {}

-----------------------------------------------------------------------------
(* The vault.                                                              *)

Put(f, k, v) == [x \in DOMAIN f \cup {k} |-> IF x = k THEN v ELSE f[x]]

\* provision: a route is provisioned once per vault.
Provision(s, r, k, secret) ==
  /\ r \notin DOMAIN vault[s]
  /\ secret \notin usedSecrets[s]
  /\ vault' = [vault EXCEPT ![s] =
                 Put(@, r, [key |-> k, secret |-> secret, revoked |-> FALSE,
                            revision |-> 1, retired |-> {}])]
  /\ usedSecrets' = [usedSecrets EXCEPT ![s] = @ \cup {secret}]
  /\ UNCHANGED <<authority, codec, now>>

\* rotate, on the path that installs the new key.
Rotate(s, r, expected, new, secret) ==
  /\ r \in DOMAIN vault[s]
  /\ LET e == vault[s][r] IN
     /\ ~ e.revoked
     /\ e.key # new
     /\ e.key = expected
     /\ new \notin e.retired
     /\ Cardinality(e.retired) < MaxRotations
     /\ secret \notin usedSecrets[s]
     /\ vault' = [vault EXCEPT ![s][r] =
                    [key |-> new, secret |-> secret, revoked |-> FALSE,
                     revision |-> e.revision + 1,
                     retired |-> e.retired \cup {e.key}]]
  /\ usedSecrets' = [usedSecrets EXCEPT ![s] = @ \cup {secret}]
  /\ UNCHANGED <<authority, codec, now>>

\* revoke, the first time.
Revoke(s, r, expected) ==
  /\ r \in DOMAIN vault[s]
  /\ LET e == vault[s][r] IN
     /\ e.key = expected /\ ~ e.revoked
     /\ vault' = [vault EXCEPT ![s][r] =
                    [key |-> e.key, secret |-> e.secret, revoked |-> TRUE,
                     revision |-> e.revision + 1, retired |-> e.retired]]
  /\ UNCHANGED <<usedSecrets, authority, codec, now>>

\* The checks that derive_session_key and authenticate_lease share.
Current(s, lease) ==
  /\ lease.route \in DOMAIN vault[s]
  /\ LET e == vault[s][lease.route] IN
     ~ e.revoked /\ e.key = lease.key /\ e.revision = lease.revision

\* derive_session_key and the tag of authenticate_lease: what they depend on.
Derived(s, lease) == [secret |-> vault[s][lease.route].secret, lease |-> lease]

\* Mutant: the key in the managed session is trusted while the lease lasts.
ActiveCached(s, lease) ==
  /\ lease.issued <= Clock(s) /\ Clock(s) < lease.expires

\* active_session_key, which require_session_active calls too.
Active(s, lease) ==
  /\ lease.issued <= Clock(s) /\ Clock(s) < lease.expires
  /\ Current(s, lease)

-----------------------------------------------------------------------------
(* The lease authority.                                                    *)

\* _remember: evict the oldest record when there are too many.
Remember(s, id, fingerprint, lease) ==
  LET full == Len(recordOrder[s]) >= MaxRecords
      kept == IF full THEN DOMAIN records[s] \ {Head(recordOrder[s])}
                      ELSE DOMAIN records[s]
  IN /\ recordOrder' = [recordOrder EXCEPT ![s] =
                          Append(IF full THEN Tail(@) ELSE @, id)]
     /\ records' = [records EXCEPT ![s] =
                      [x \in kept \cup {id} |->
                         IF x = id THEN [fingerprint |-> fingerprint, lease |-> lease]
                                   ELSE records[s][x]]]

\* _validate_contract: the time window of a contract.
TimeValid(s, lease) ==
  /\ lease.expires - lease.issued \in MinTTL..MaxTTL
  /\ lease.issued <= Clock(s) + MaxSkew
  /\ Clock(s) < lease.expires

\* issue, when the lease id has no record: a fresh salt makes the lease unique.
\* The record is found again by the request, which has no salt.
Issue(s, id, session, r, ttl) ==
  LET e     == vault[s][r]
      lease == [id |-> id, session |-> session, route |-> r, key |-> e.key,
                revision |-> e.revision, salt |-> Cardinality(contracts) + 1,
                issued |-> Clock(s), expires |-> Clock(s) + ttl]
  IN
  /\ Cardinality(contracts) < MaxLeases
  /\ ttl \in MinTTL..MaxTTL
  /\ r \in DOMAIN vault[s] /\ ~ e.revoked
  /\ id \notin DOMAIN records[s]
  /\ contracts' = contracts \cup {[lease |-> lease, tag |-> Derived(s, lease)]}
  /\ Remember(s, id, [id |-> id, session |-> session, route |-> r,
                      issued |-> lease.issued, expires |-> lease.expires], lease)
  /\ sessions' = [sessions EXCEPT ![s] = @ \cup {lease}]
  /\ UNCHANGED <<credentials, codec, now>>

\* Mutant: the tag is not compared.
AdmissibleUntagged(s, c) == TimeValid(s, c.lease) /\ Current(s, c.lease)

\* The checks of accept before it looks at its records.
Admissible(s, c) ==
  /\ TimeValid(s, c.lease)
  /\ Current(s, c.lease)
  /\ c.tag = Derived(s, c.lease)

\* accept, when the lease id has no record; a record is found again by the
\* whole contract.
Accept(s, c) ==
  /\ Admissible(s, c)
  /\ c.lease.id \notin DOMAIN records[s]
  /\ Remember(s, c.lease.id, c, c.lease)
  /\ sessions' = [sessions EXCEPT ![s] = @ \cup {c.lease}]
  /\ UNCHANGED <<credentials, contracts, codec, now>>

\* Contracts as the network delivers them: unchanged, or for another session.
Delivered == UNION { {[c EXCEPT !.lease.session = x] : x \in SessionId} : c \in contracts }

-----------------------------------------------------------------------------
(* The governed codec.                                                     *)

\* The route and session that _require_key_binding compares, and the rest.
BindingOf(lease, frame) ==
  [route |-> lease.route, session |-> lease.session, frame |-> frame]

\* Mutant: a full guard forgets what it holds.
SealForgetting(s, lease, frame, nonce) ==
  /\ lease \in sessions[s]
  /\ Active(s, lease)
  /\ <<lease.key, nonce>> \notin usedNonces[s]
  /\ LET kept == IF Cardinality(usedNonces[s]) >= MaxNonces THEN {} ELSE usedNonces[s]
     IN usedNonces' = [usedNonces EXCEPT ![s] = kept \cup {<<lease.key, nonce>>}]
  /\ sealed' = Append(sealed, [by |-> s, key |-> Derived(s, lease), keyId |-> lease.key,
                               nonce |-> nonce, aad |-> BindingOf(lease, frame), at |-> now])
  /\ UNCHANGED <<credentials, authority, now>>

\* seal: the caller binds the payload to the route and session of its key.
Seal(s, lease, frame, nonce) ==
  /\ lease \in sessions[s]
  /\ Active(s, lease)
  /\ <<lease.key, nonce>> \notin usedNonces[s]
  /\ Cardinality(usedNonces[s]) < MaxNonces
  /\ usedNonces' = [usedNonces EXCEPT ![s] = @ \cup {<<lease.key, nonce>>}]
  /\ sealed' = Append(sealed, [by |-> s, key |-> Derived(s, lease), keyId |-> lease.key,
                               nonce |-> nonce, aad |-> BindingOf(lease, frame), at |-> now])
  /\ UNCHANGED <<credentials, authority, now>>

\* Mutant: the associated data is not authenticated.
OpenUnbound(s, lease, i, outer) ==
  LET m == sealed[i] IN
  /\ lease \in sessions[s]
  /\ Active(s, lease)
  /\ outer.route = lease.route /\ outer.session = lease.session
  /\ m.keyId = lease.key
  /\ m.key = Derived(s, lease)
  /\ opened' = {[side |-> s, lease |-> lease, message |-> i, outer |-> outer, at |-> now]}
  /\ UNCHANGED <<credentials, authority, codec, now>>

\* open: the outer metadata is what the frame that arrived says.
Open(s, lease, i, outer) ==
  LET m == sealed[i] IN
  /\ lease \in sessions[s]
  /\ Active(s, lease)
  /\ outer.route = lease.route /\ outer.session = lease.session
  /\ m.keyId = lease.key
  /\ m.key = Derived(s, lease) /\ m.aad = outer
  /\ opened' = {[side |-> s, lease |-> lease, message |-> i, outer |-> outer, at |-> now]}
  /\ UNCHANGED <<credentials, authority, codec, now>>

Tick ==
  /\ now < MaxTime
  /\ now' = now + 1
  /\ UNCHANGED <<credentials, authority, codec>>

VaultStep ==
  \E s \in Side, r \in Route, k \in KeyId, new \in KeyId, x \in Secret :
    Provision(s, r, k, x) \/ Rotate(s, r, k, new, x) \/ Revoke(s, r, k)
AuthorityStep ==
  \E s \in Side :
    \/ \E id \in LeaseId, x \in SessionId, r \in DOMAIN vault[s], ttl \in MinTTL..MaxTTL :
         Issue(s, id, x, r, ttl)
    \/ \E c \in Delivered : Accept(s, c)
SealStep ==
  \E s \in Side : \E lease \in sessions[s], f \in Frame, nonce \in Nonce :
    Seal(s, lease, f, nonce)
OpenStep ==
  \E s \in Side : \E lease \in sessions[s], f \in Frame, i \in DOMAIN sealed :
    Open(s, lease, i, BindingOf(lease, f))

Next ==
  \/ (VaultStep \/ AuthorityStep \/ SealStep \/ Tick) /\ opened' = {}
  \/ OpenStep

Spec == Init /\ [][Next]_vars

-----------------------------------------------------------------------------
(* Properties.                                                             *)

Lease == [id : LeaseId, session : SessionId, route : Route, key : KeyId,
          revision : Nat \ {0}, salt : Nat \ {0}, issued : Nat, expires : Nat]

TypeOK ==
  /\ \A s \in Side :
       /\ DOMAIN vault[s] \subseteq Route /\ vault[s] \in [DOMAIN vault[s] -> Entry]
       /\ usedSecrets[s] \subseteq Secret
       /\ DOMAIN records[s] \subseteq LeaseId
       /\ recordOrder[s] \in Seq(LeaseId)
       /\ sessions[s] \subseteq Lease
       /\ usedNonces[s] \subseteq KeyId \X Nonce
  /\ now \in Nat
  /\ \A c \in contracts : c.lease \in Lease /\ c.tag.lease = c.lease /\ c.tag.secret \in Secret
  /\ \A o \in opened : o.side \in Side /\ o.message \in DOMAIN sealed

\* A side holds no session that was not issued as it stands, by a vault that
\* shared the route's secret: a changed contract never becomes a session.
SessionsIssued ==
  \A s \in Side : \A lease \in sessions[s] :
    \E c \in contracts : c.lease = lease /\ c.tag.secret \in usedSecrets[s]

\* A side uses a nonce once under a derived key, although its guard remembers
\* nonces by the root key id, for all sessions together and boundedly many.  Of
\* the two ends of a route nothing like it holds: they share the key and
\* neither knows what the other has used (they draw twelve random bytes).
NonceOnce ==
  \A i, j \in DOMAIN sealed :
    /\ sealed[i].by = sealed[j].by
    /\ sealed[i].key = sealed[j].key /\ sealed[i].nonce = sealed[j].nonce
    => i = j

\* What a side opens was sealed by a side that holds the same session, for
\* exactly the outer metadata that arrived with it, no longer ago than a lease
\* lasts (by exact clocks).
OpenedAsSealed ==
  \A o \in opened :
    LET m == sealed[o.message] IN
    /\ o.lease \in sessions[m.by] /\ o.lease \in sessions[o.side]
    /\ m.aad = o.outer
    /\ m.aad.route = o.lease.route /\ m.aad.session = o.lease.session
    /\ o.at - m.at < MaxTTL + Ahead[m.by] - Ahead[o.side]

\* Rotation and revocation end every session of the route at once on their own
\* side: nothing is sealed or opened under a lease of an earlier identity
\* revision, although callers still hold it and it has not expired.
InvalidatedAtOnce ==
  [][/\ sealed' # sealed =>
          LET m == sealed'[Len(sealed')]
              e == vault[m.by][m.aad.route]
          IN ~ e.revoked /\ m.key.secret = e.secret /\ m.key.lease.revision = e.revision
     /\ \A o \in opened' \ opened :
          LET e == vault[o.side][o.lease.route]
          IN ~ e.revoked /\ o.lease.revision = e.revision]_vars
=============================================================================
