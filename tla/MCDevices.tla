------------------------------- MODULE MCDevices -------------------------------
(***************************************************************************)
(* Constants for model checking DeviceProtocol and EphemeralPairing.  They *)
(* share no state, so what one does is the same whatever the other does in *)
(* between, and a behaviour of this run has steps of one of them only.     *)
(***************************************************************************)
EXTENDS DeviceProtocol, EphemeralPairing, TLC

(* Envelopes: two devices, one of which signs under two key generations,   *)
(* with enough messages to overflow the id window, a message that reuses   *)
(* an id the window has forgotten and one that reuses a sequence number    *)
(* under a new id.                                                         *)
CONSTANTS d1, d2, k1, k2, s1, s2, s3, m1, m2, m3

MCDevice == {d1, d2}
MCKeyId  == {k1, k2}
MCSecret == {s1, s2, s3}

Message(d, k, s, id, seq, sentAt) ==
  [device |-> d, key |-> k, secret |-> s, id |-> id, seq |-> seq, sentAt |-> sentAt]

MCEnvelope ==
  { Message(d1, k1, s1, m1, 1, 0), Message(d1, k1, s1, m2, 2, 1),
    Message(d1, k1, s1, m3, 3, 1), Message(d1, k1, s1, m1, 4, 1),
    Message(d1, k2, s2, m1, 1, 0), Message(d1, k2, s2, m2, 2, 1),
    Message(d1, k2, s2, m3, 2, 1),
    Message(d2, k1, s2, m1, 1, 0) }

(* A ceremony: a device, the same device after a reboot, and an edge, with *)
(* a network that puts its own key into hellos of both roles, repeats an   *)
(* old one with another boot id, reflects a key and tries a low-order      *)
(* point.                                                                  *)
CONSTANTS dev, dev2, edge, mallory, zero, c1

MCRoleOf == dev :> "device" @@ dev2 :> "device" @@ edge :> "edge"
MCCeremonyOf == dev :> c1 @@ dev2 :> c1 @@ edge :> c1
MCCreated == dev :> 0 @@ dev2 :> 1 @@ edge :> 0
MCExpires == dev :> 2 @@ dev2 :> 3 @@ edge :> 2

Forge(role, boot, key) ==
  [role |-> role, ceremony |-> c1, boot |-> boot, key |-> key, created |-> 0, expires |-> 2]
MCForged ==
  { Forge("edge", edge, mallory), Forge("device", dev, mallory),
    Forge("edge", mallory, edge), Forge("edge", edge, dev), Forge("edge", edge, zero) }

VARIABLE part   (* whose steps are taken *)

DevicesInit  == Init /\ CeremonyInit /\ part \in {"envelopes", "ceremonies"}
EnvelopeStep == part = "envelopes" /\ Next /\ UNCHANGED <<ceremonyVars, part>>
CeremonyStep == part = "ceremonies" /\ CeremonyNext /\ UNCHANGED <<vars, part>>

DevicesSpec == DevicesInit /\ [][EnvelopeStep \/ CeremonyStep]_<<vars, ceremonyVars, part>>
=============================================================================
