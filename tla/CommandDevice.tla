----------------------------- MODULE CommandDevice -----------------------------
(***************************************************************************)
(* A Cardputer that issues commands: the push-to-talk recorder             *)
(* (packages/device-protocol/.../audio.py), the menu that composes text    *)
(* commands (command_composer.py) and the simulator that signs messages    *)
(* for the profile it shows (simulator.py).                                *)
(*                                                                         *)
(* Messages carry the sequence number of their place in `sent'.  A command *)
(* is a record: id, action, actor, org, source, profile, target, duration, *)
(* changes, at.  Its hash is the command; correlation ids are left out.    *)
(***************************************************************************)
EXTENDS Absence, Integers, Sequences, SequencesExt

CONSTANTS
  Owner,        (* the operator the composer was made for: id, org          *)
  DeviceId,     (* this device                                              *)
  Menu,         (* action -> targets on the menu                            *)
  CommandId,    (* ids that callers give to text commands                   *)
  Capture,      (* ids that callers give to captures, each to one recording *)
  Chunk,        (* encoded audio: records with bytes and ms                 *)
  MaxAudioBytes, MaxAudioMs,  (* 18000 and 15000                            *)
  MaxSent,      (* bound of the messages sent in a finite run               *)
  MaxClock       (* bound of the clock in a finite run                       *)

VARIABLES
  shown,        (* the active profile, on the display                       *)
  recorder,     (* the push-to-talk recorder                                *)
  used,         (* capture ids recorded so far                              *)
  sent          (* the signed messages, in order                            *)

device == <<shown, recorder, used, sent>>
-----------------------------------------------------------------------------
(* The recorder.                                                           *)

Idle == [state |-> "idle", capture |-> None, audio |-> <<>>, from |-> None]
Cancelled == [Idle EXCEPT !.state = "cancelled"]
Record(r) == recorder' = r /\ UNCHANGED <<shown, sent>>

Bytes(audio)  == FoldLeft(LAMBDA n, chunk : n + chunk.bytes, 0, audio)
Millis(audio) == FoldLeft(LAMBDA n, chunk : n + chunk.ms, 0, audio)

\* press.  That each capture has an id of its own is its caller's doing.
Press(c, t) ==
  /\ recorder.state \in {"idle", "cancelled"}
  /\ c \notin used /\ used' = used \cup {c}
  /\ Record([state |-> "recording", capture |-> c, audio |-> <<>>, from |-> t])

\* Mutant: a capture that is ready to be sent still grows.
GrowingReady == recorder.state \in {"recording", "ready"}

\* Audio is appended while the key is held, and not later.
Growing == recorder.state = "recording"

Fits(audio) == Bytes(audio) <= MaxAudioBytes /\ Millis(audio) <= MaxAudioMs

\* append_encoded: a capture over its limits is thrown away.
AppendEncoded(chunk) ==
  /\ Growing
  /\ LET audio == Append(recorder.audio, chunk) IN
     Record(IF Fits(audio) THEN [recorder EXCEPT !.audio = audio] ELSE Cancelled)
  /\ UNCHANGED used

\* release: an empty capture, or one that ends before it began, is thrown away;
\* of one that is kept the times are only carried along.
Release(t) ==
  /\ recorder.state = "recording"
  /\ Record(IF recorder.audio # <<>> /\ t >= recorder.from
              THEN [recorder EXCEPT !.state = "ready", !.from = None] ELSE Cancelled)
  /\ UNCHANGED used

\* cancel.
CancelCapture ==
  /\ recorder.state \in {"recording", "ready"}
  /\ Record(Cancelled)
  /\ UNCHANGED used

\* Mutant: any acknowledgement clears the buffer.
AcknowledgeAny(c) ==
  /\ recorder.state = "ready"
  /\ Record(Idle)
  /\ UNCHANGED used

\* acknowledge_processed, of a success; a failure changes nothing.
Acknowledge(c) ==
  /\ recorder.state = "ready" /\ recorder.capture = c
  /\ Record(Idle)
  /\ UNCHANGED used
-----------------------------------------------------------------------------
(* Messages.                                                               *)

\* The actions of the menu, each with the profile it belongs to.
ProfileOf == [a \in {"camera.status", "camera.monitor", "asset.list", "network.passive_discovery"} |->
  CASE a = "camera.status"  -> "assistant"
    [] a = "camera.monitor" -> "sentinel"
    [] OTHER                -> "inventory"]

\* compose, with the duration or the filter that the action asks for; the time
\* of the request is filled in when the operator makes it.
Compose(action, target, id, changes) ==
  [id |-> id, action |-> action, actor |-> Owner.id, org |-> Owner.org, source |-> DeviceId,
   profile |-> ProfileOf[action], target |-> target, at |-> None,
   duration |-> IF action \in {"camera.monitor", "network.passive_discovery"} THEN 1 ELSE None,
   changes |-> IF action = "asset.list" THEN changes ELSE None]
Composed ==
  UNION {{Compose(a, g, id, changes) : g \in Menu[a], id \in CommandId, changes \in BOOLEAN} :
           a \in DOMAIN Menu}

Send(m) ==
  /\ Len(sent) < MaxSent
  /\ sent' = Append(sent, m)
  /\ UNCHANGED <<shown, recorder, used>>

Message(type, body, t) == [type |-> type, body |-> body, at |-> t, shown |-> shown]

\* Mutant: a command is signed under any profile.
VisibleAnyway(c) == TRUE

\* A command belongs to the profile on the display.
Visible(c) == c.profile = shown

\* text_command_message, at a time that may differ from the command's.
SendText(c, requested, t) ==
  Visible(c) /\ Send(Message("text", [c EXCEPT !.at = requested], t))

\* voice_command_message.
SendVoice(t) ==
  /\ recorder.state = "ready"
  /\ Send(Message("voice", [capture |-> recorder.capture, audio |-> recorder.audio], t))

\* physical_cancel_message, for a job the operator knows of.
SendCancel(k, t) == Send(Message("cancel", k, t))

\* switch_profile and reboot, which returns to the assistant profile.
Switch(p) == p # shown /\ shown' = p /\ UNCHANGED <<recorder, used, sent>>

DeviceInit ==
  /\ shown = "assistant" /\ recorder = Idle /\ used = {} /\ sent = <<>>
=============================================================================
