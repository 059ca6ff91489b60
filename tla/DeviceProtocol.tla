----------------------------- MODULE DeviceProtocol -----------------------------
(***************************************************************************)
(* The device identity registry and the message verifier                   *)
(* (packages/device-protocol/.../protocol.py).  An operator provisions a   *)
(* device, rotates its key and revokes it while the verifier, which reads  *)
(* the registry on every call, receives signed envelopes that the network  *)
(* may delay, reorder or duplicate: any envelope may arrive at any time    *)
(* and any number of times.                                                *)
(*                                                                         *)
(* A secret stands for its own fingerprint, and an envelope's tag for the  *)
(* secret that signed it.  Rejected calls and idempotent retries change    *)
(* nothing and are the stuttering steps.                                   *)
(***************************************************************************)
EXTENDS Integers, Sequences, FiniteSets

CONSTANTS
  Device,        (* device ids                                              *)
  KeyId, Secret, (* key ids and key material                                *)
  Envelope,      (* well-formed envelopes: device, key, secret, id, seq,    *)
                 (* sentAt; the payload is one the device profile admits    *)
  Past, Future,  (* the timestamp window: 5 minutes and 30 seconds          *)
  MaxIds,        (* MAXIMUM_REPLAY_IDS_PER_DEVICE                           *)
  MaxRotations,  (* MAXIMUM_KEY_ROTATIONS_PER_DEVICE                        *)
  MaxTime        (* bound of the clock in a finite run                      *)

ASSUME LimitAssumption ==
  /\ MaxIds \in Nat \ {0} /\ MaxRotations \in Nat
  /\ Past \in Nat /\ Future \in Nat /\ MaxTime \in Nat

ASSUME EnvelopeAssumption ==
  \A e \in Envelope : /\ e.device \in Device /\ e.key \in KeyId
                      /\ e.seq \in Nat \ {0} /\ e.sentAt \in Nat

VARIABLES
  entry,        (* provisioned device -> its _RegistryEntry                 *)
  usedSecrets,  (* _used_secret_fingerprints                                *)
  ids,          (* (device, key id) -> message ids the verifier remembers   *)
  order,        (* the same ids, oldest first                               *)
  lastSeq,      (* (device, key id) -> last accepted sequence, 0 if none    *)
  now,          (* the clock passed as received_at                          *)
  accepted,     (* history: accepted envelopes, in order                    *)
  generations   (* history: every <<device, key id, secret>> ever current   *)

registry == <<entry, usedSecrets, generations>>
verifier == <<ids, order, lastSeq, accepted>>
vars     == <<registry, verifier, now>>

-----------------------------------------------------------------------------
Provisioned == DOMAIN entry
Identity    == Device \X KeyId
Of(e)       == <<e.device, e.key>>
MessageIds  == {e.id : e \in Envelope}

Entry == [key : KeyId, secret : Secret, revoked : BOOLEAN,
          revision : Nat \ {0}, retired : SUBSET KeyId]

Init ==
  /\ entry = <<>>
  /\ usedSecrets = {}
  /\ ids = [r \in Identity |-> {}]
  /\ order = [r \in Identity |-> <<>>]
  /\ lastSeq = [r \in Identity |-> 0]
  /\ now = 0
  /\ accepted = <<>>
  /\ generations = {}

\* Mutant: only the current secrets of the other devices are compared.
UnusedNow(s) == \A d \in Provisioned : entry[d].secret # s

\* Key material is never accepted a second time.
Unused(s) == s \notin usedSecrets

\* provision: a deliberate registry call for one known device.
Provision(d, k, s) ==
  /\ d \notin Provisioned
  /\ Unused(s)
  /\ entry' = [x \in Provisioned \cup {d} |->
                 IF x = d THEN [key |-> k, secret |-> s, revoked |-> FALSE,
                                revision |-> 1, retired |-> {}]
                          ELSE entry[x]]
  /\ usedSecrets' = usedSecrets \cup {s}
  /\ generations' = generations \cup {<<d, k, s>>}
  /\ UNCHANGED <<verifier, now>>

\* rotate_key, on the path that installs the new key.  A retry finds the new
\* key current and returns the status unchanged.
RotateKey(d, expected, new, s) ==
  /\ new # expected
  /\ d \in Provisioned
  /\ LET e == entry[d] IN
     /\ ~ e.revoked
     /\ e.key # new
     /\ e.key = expected
     /\ new \notin e.retired
     /\ Cardinality(e.retired) < MaxRotations
     /\ s # e.secret
     /\ Unused(s)
     /\ entry' = [entry EXCEPT ![d] =
                    [key |-> new, secret |-> s, revoked |-> FALSE,
                     revision |-> e.revision + 1,
                     retired |-> e.retired \cup {e.key}]]
  /\ usedSecrets' = usedSecrets \cup {s}
  /\ generations' = generations \cup {<<d, new, s>>}
  /\ UNCHANGED <<verifier, now>>

\* revoke, the first time; a retry returns the status unchanged.
Revoke(d, expected) ==
  /\ d \in Provisioned
  /\ entry[d].key = expected
  /\ ~ entry[d].revoked
  /\ entry' = [entry EXCEPT ![d].revoked = TRUE, ![d].revision = @ + 1]
  /\ UNCHANGED <<usedSecrets, generations, verifier, now>>

\* Mutant: retired keys still authenticate.
AuthenticRetired(e) ==
  /\ e.device \in Provisioned
  /\ ~ entry[e.device].revoked
  /\ <<e.device, e.key, e.secret>> \in generations

\* The registry and authentication checks of verify.
Authentic(e) ==
  /\ e.device \in Provisioned
  /\ ~ entry[e.device].revoked
  /\ e.key = entry[e.device].key
  /\ e.secret = entry[e.device].secret

Fresh(e, t) == t - Past <= e.sentAt /\ e.sentAt <= t + Future

\* Mutant: a sequence number may be used twice.
InSequenceOrEqual(e) == e.seq >= lastSeq[Of(e)]

\* The monotonic check, which also covers ids the window has forgotten.
InSequence(e) == e.seq > lastSeq[Of(e)]

\* What the id window of r keeps when it takes a new id: the oldest one makes
\* room when it is full.
Full(r)      == Len(order[r]) >= MaxIds
KeptOrder(r) == IF Full(r) THEN Tail(order[r]) ELSE order[r]
KeptIds(r)   == IF Full(r) THEN ids[r] \ {Head(order[r])} ELSE ids[r]

\* verify, when the envelope is accepted.
Verify(e) ==
  LET r == Of(e) IN
  /\ Authentic(e)
  /\ Fresh(e, now)
  /\ e.id \notin ids[r]
  /\ InSequence(e)
  /\ order' = [order EXCEPT ![r] = Append(KeptOrder(r), e.id)]
  /\ ids' = [ids EXCEPT ![r] = KeptIds(r) \cup {e.id}]
  /\ lastSeq' = [lastSeq EXCEPT ![r] = e.seq]
  /\ accepted' = Append(accepted, e)
  /\ UNCHANGED <<registry, now>>

Tick ==
  /\ now < MaxTime
  /\ now' = now + 1
  /\ UNCHANGED <<registry, verifier>>

Next ==
  \/ \E d \in Device, k \in KeyId, s \in Secret : Provision(d, k, s)
  \/ \E d \in Device, k, new \in KeyId, s \in Secret : RotateKey(d, k, new, s)
  \/ \E d \in Device, k \in KeyId : Revoke(d, k)
  \/ \E e \in Envelope : Verify(e)
  \/ Tick

Spec == Init /\ [][Next]_vars

-----------------------------------------------------------------------------
(* Properties.                                                             *)

TypeOK ==
  /\ entry \in [Provisioned -> Entry] /\ Provisioned \subseteq Device
  /\ usedSecrets \subseteq Secret
  /\ ids \in [Identity -> SUBSET MessageIds]
  /\ order \in [Identity -> Seq(MessageIds)]
  /\ lastSeq \in [Identity -> Nat]
  /\ now \in Nat
  /\ accepted \in Seq(Envelope)
  /\ generations \subseteq Device \X KeyId \X Secret

\* Under one device and key id, messages are accepted in strictly increasing
\* sequence order although the verifier forgets all but the newest ids; hence
\* no envelope is ever accepted twice, however often the network repeats it.
AcceptedInOrder ==
  \A i, j \in DOMAIN accepted :
    i < j /\ Of(accepted[i]) = Of(accepted[j]) => accepted[i].seq < accepted[j].seq

\* Key generations do not interleave: after a message under a newer key was
\* accepted from a device, none under an earlier key is, although each
\* generation starts with empty replay state.
GenerationsOrdered ==
  \A i, j, k \in DOMAIN accepted :
    /\ i < j /\ j < k
    /\ accepted[i].device = accepted[j].device
    /\ Of(accepted[i]) = Of(accepted[k])
    => accepted[i].key = accepted[j].key

\* Key material is never shared, neither between devices nor between the
\* generations of one, and a device never returns to a key id it has retired.
SecretsUnique ==
  \A g, h \in generations :
    (g[3] = h[3] \/ (g[1] = h[1] /\ g[2] = h[2])) => g = h

\* Retries of rotate_key and revoke count once: the identity revision is one
\* more than the rotations, plus one when revoked, and rotations are bounded.
RevisionCounts ==
  \A d \in Provisioned :
    LET e == entry[d] IN
    /\ e.revision = 1 + Cardinality(e.retired) + (IF e.revoked THEN 1 ELSE 0)
    /\ Cardinality(e.retired) <= MaxRotations
    /\ e.key \notin e.retired

\* The bounded id window of each identity: the set and the queue that the
\* verifier updates separately hold the same ids, each once, so that the
\* eviction (a set.remove) never fails half way through a verification.
WindowConsistent ==
  \A r \in Identity :
    /\ ids[r] = {order[r][i] : i \in DOMAIN order[r]}
    /\ \A i, j \in DOMAIN order[r] : order[r][i] = order[r][j] => i = j
    /\ Len(order[r]) <= MaxIds

\* Revocation is terminal: nothing rotates, restores or renumbers a revoked
\* identity, and no message of it is accepted from then on.
RevocationTerminal ==
  [][\A d \in Provisioned : entry[d].revoked =>
       /\ d \in DOMAIN entry' /\ entry'[d] = entry[d]
       /\ accepted' # accepted => accepted'[Len(accepted')].device # d]_vars
=============================================================================
