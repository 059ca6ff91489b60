---------------------------- MODULE EphemeralPairing ----------------------------
(***************************************************************************)
(* The pairing ceremony of Tomato Link (packages/device-protocol/.../      *)
(* ephemeral_pairing.py).  Participants, each one boot of a device or of   *)
(* an edge, exchange hellos over a network that repeats, reorders, loses   *)
(* and replaces them; a person compares the fingerprints on the displays   *)
(* and confirms on each side; each side then hands its root secret to its  *)
(* own credential sink, once.                                              *)
(*                                                                         *)
(* Every participant has a key pair of its own, named after it.  A hash is *)
(* what it is computed from, and a shared secret is the pair of keys that  *)
(* yields it.  Rejected calls, exact retries and a sink that raises change *)
(* nothing; but any call that comes too late expires the ceremony first.   *)
(***************************************************************************)
EXTENDS Integers, FiniteSets

CONSTANTS
  Participant,   (* EphemeralPairingParticipant objects                     *)
  RoleOf,        (* their roles: device or edge                             *)
  CeremonyOf,    (* their ceremonies, which stand for their routes as well  *)
  Created, Expires,  (* their windows                                       *)
  Forged,        (* hellos that no participant made, with any public key    *)
  LowOrder,      (* public keys that X25519 rejects                         *)
  MinTTL, MaxTTL,
  MaxClock       (* bound of the clock in a finite run                      *)

ASSUME WindowAssumption ==
  /\ MinTTL \in Nat \ {0} /\ MaxTTL \in Nat /\ MaxClock \in Nat
  /\ \A p \in Participant :
       /\ RoleOf[p] \in {"device", "edge"}
       /\ Created[p] \in Nat /\ Expires[p] - Created[p] \in MinTTL..MaxTTL

\* No forged hello carries the key of a participant as low-order point, and the
\* maker of a forged hello knows no participant's private key.
ASSUME ForgedAssumption ==
  /\ LowOrder \cap Participant = {}
  /\ \A h \in Forged : \A p \in Participant :
       h.role = RoleOf[p] /\ h.boot = p => h.key # p

VARIABLES
  phase,         (* participant -> PairingState                             *)
  peer,          (* participant -> the peer's hello, a set of at most one   *)
  secrets,       (* participant -> which secrets it holds                   *)
  sent,          (* hellos that participants have made                      *)
  installed,     (* history: what the sinks accepted                        *)
  clock          (* the time that callers pass                              *)

ceremonyVars == <<phase, peer, secrets, sent, installed, clock>>

-----------------------------------------------------------------------------
Terminal == {"consumed", "cancelled", "expired"}
Phases   == {"offered", "awaiting", "established"} \cup Terminal

\* hello: the contract, boot id and key included.
Hello(p) == [role |-> RoleOf[p], ceremony |-> CeremonyOf[p], boot |-> p, key |-> p,
             created |-> Created[p], expires |-> Expires[p]]
Hellos == Forged \cup {Hello(p) : p \in Participant}

\* _canonical_transcript is ordered by role, so it does not matter who is first.
Transcript(p, h) == {Hello(p), h}

\* confirm_fingerprint: HKDF over the shared secret with the transcript as salt.
Root(p, h) == [shared |-> {p, h.key}, salt |-> Transcript(p, h)]

\* What the display of a participant shows, also after the ceremony has ended.
Displayed(p) == {Transcript(p, h) : h \in peer[p]}

\* _require_live, for a call that goes on.
Live(p) == /\ phase[p] \notin Terminal
           /\ Created[p] <= clock /\ clock < Expires[p]

\* _validate_peer_fields
PeerFieldsValid(p, h) ==
  /\ h.role \in {"device", "edge"} \ {RoleOf[p]}
  /\ h.ceremony = CeremonyOf[p]
  /\ h.expires - h.created \in MinTTL..MaxTTL
  /\ h.created <= clock /\ clock < h.expires
  /\ h.key # p

CeremonyInit ==
  /\ phase = [p \in Participant |-> "offered"]
  /\ peer = [p \in Participant |-> {}]
  /\ secrets = [p \in Participant |-> {"private key"}]
  /\ sent = {}
  /\ installed = {}
  /\ clock = 0

SendHello(p) ==
  /\ phase[p] \notin Terminal
  /\ sent' = sent \cup {Hello(p)}
  /\ UNCHANGED <<phase, peer, secrets, installed, clock>>

\* receive_peer_hello, the first time.  The same hello again is answered, another
\* one is refused: neither changes anything.
Receive(p, h) ==
  /\ Live(p) /\ PeerFieldsValid(p, h)
  /\ peer[p] = {}
  /\ peer' = [peer EXCEPT ![p] = {h}]
  /\ phase' = [phase EXCEPT ![p] = "awaiting"]
  /\ UNCHANGED <<secrets, sent, installed, clock>>

\* Mutant: the fingerprint is not compared.
ConfirmUnread(p, q) ==
  /\ Live(p) /\ phase[p] = "awaiting"
  /\ Displayed(q) # {}
  /\ \A h \in peer[p] : h.key \notin LowOrder
  /\ secrets' = [secrets EXCEPT ![p] = @ \cup {"root"}]
  /\ phase' = [phase EXCEPT ![p] = "established"]
  /\ UNCHANGED <<peer, sent, installed, clock>>

\* confirm_fingerprint: the person enters at p what the display of q shows.
Confirm(p, q) ==
  /\ Live(p) /\ phase[p] = "awaiting"
  /\ Displayed(q) = Displayed(p)
  /\ \A h \in peer[p] : h.key \notin LowOrder
  /\ secrets' = [secrets EXCEPT ![p] = @ \cup {"root"}]
  /\ phase' = [phase EXCEPT ![p] = "established"]
  /\ UNCHANGED <<peer, sent, installed, clock>>

\* Mutant: the participant stays established.
ConsumeAgain(p) ==
  /\ Live(p) /\ phase[p] = "established"
  /\ installed' = installed \cup
       {[by |-> p, keyId |-> Transcript(p, h), root |-> Root(p, h), at |-> clock] : h \in peer[p]}
  /\ UNCHANGED <<phase, peer, secrets, sent, clock>>

\* consume_root_secret, when the sink accepts the key id and the root.
Consume(p) ==
  /\ Live(p) /\ phase[p] = "established"
  /\ installed' = installed \cup
       {[by |-> p, keyId |-> Transcript(p, h), root |-> Root(p, h), at |-> clock] : h \in peer[p]}
  /\ secrets' = [secrets EXCEPT ![p] = {}]
  /\ phase' = [phase EXCEPT ![p] = "consumed"]
  /\ UNCHANGED <<peer, sent, clock>>

\* Mutant: only the root is cleared.
EndKeepingKey(p, how) ==
  /\ phase[p] \notin Terminal
  /\ secrets' = [secrets EXCEPT ![p] = @ \ {"root"}]
  /\ phase' = [phase EXCEPT ![p] = how]
  /\ UNCHANGED <<peer, sent, installed, clock>>

End(p, how) ==
  /\ phase[p] \notin Terminal
  /\ secrets' = [secrets EXCEPT ![p] = {}]
  /\ phase' = [phase EXCEPT ![p] = how]
  /\ UNCHANGED <<peer, sent, installed, clock>>

\* cancel, and reset_for_reboot.
Cancel(p) == End(p, "cancelled")

\* expire, or any call that needs a live ceremony and comes too late.
Expire(p) == clock >= Expires[p] /\ End(p, "expired")

Elapse ==
  /\ clock < MaxClock
  /\ clock' = clock + 1
  /\ UNCHANGED <<phase, peer, secrets, sent, installed>>

CeremonyNext ==
  \/ \E p \in Participant : SendHello(p) \/ Consume(p) \/ Cancel(p) \/ Expire(p)
  \/ \E p \in Participant, h \in sent \cup Forged : Receive(p, h)
  \/ \E p, q \in Participant : RoleOf[p] # RoleOf[q] /\ Confirm(p, q)
  \/ Elapse

CeremonySpec == CeremonyInit /\ [][CeremonyNext]_ceremonyVars

-----------------------------------------------------------------------------
(* Properties.                                                             *)

CeremonyTypeOK ==
  /\ phase \in [Participant -> Phases]
  /\ peer \in [Participant -> SUBSET Hellos]
  /\ \A p \in Participant : Cardinality(peer[p]) <= 1
  /\ secrets \in [Participant -> SUBSET {"private key", "root"}]
  /\ sent \subseteq Hellos
  /\ clock \in Nat

\* Two sinks that hold a credential of the same key id hold the same root, and
\* it is a root of one device and one edge.
RootsAgree ==
  \A a, b \in installed : a.keyId = b.keyId =>
    a.root = b.root /\ (RoleOf[a.by] = RoleOf[b.by] => a = b)

\* The machine in the middle fails: a root that a participant holds or has
\* installed is shared with another participant of the same ceremony and the
\* other role, never with the maker of a forged hello.
HonestPeer(p, h) == \E q \in Participant : /\ h = Hello(q)
                                           /\ RoleOf[q] # RoleOf[p]
                                           /\ CeremonyOf[q] = CeremonyOf[p]
RootsShared ==
  /\ \A p \in Participant : "root" \in secrets[p] => \A h \in peer[p] : HonestPeer(p, h)
  /\ \A a \in installed : \A h \in peer[a.by] :
       HonestPeer(a.by, h) /\ a.root = Root(a.by, h)

\* The two sides agree and nobody else: both of the above.
RootsPaired == RootsAgree /\ RootsShared

\* A root is installed at most once by a participant, inside its window.
InstalledOnce ==
  /\ \A a, b \in installed : a.by = b.by => a = b
  /\ \A a \in installed : phase[a.by] = "consumed" /\ a.at < Expires[a.by]

\* A participant holds the secrets its phase needs and an ended one holds none.
SecretsHeld ==
  \A p \in Participant :
    secrets[p] = CASE phase[p] \in Terminal -> {}
                   [] phase[p] = "established" -> {"private key", "root"}
                   [] OTHER -> {"private key"}

\* The ceremony only moves forward, and the hello that the displays compared is
\* never exchanged for another, whatever arrives later.
Rank == [offered |-> 0, awaiting |-> 1, established |-> 2,
         consumed |-> 3, cancelled |-> 3, expired |-> 3]
Forward ==
  [][\A p \in Participant :
       /\ phase'[p] # phase[p] => Rank[phase'[p]] > Rank[phase[p]]
       /\ peer[p] # {} => peer'[p] = peer[p]]_ceremonyVars
=============================================================================
