------------------------------ MODULE CommandDesk ------------------------------
(***************************************************************************)
(* Commands from a Cardputer to the orchestrator: the device signs text    *)
(* commands, captures and cancellations, the network repeats, reorders,    *)
(* delays and loses them, and the gateways (services/orchestrator/.../     *)
(* device_gateway.py and voice_gateway.py) hand what they accept to the    *)
(* services.                                                               *)
(*                                                                         *)
(* The verifier is what DeviceProtocol promises of one identity: a message *)
(* is heard within its time window and once, in increasing order.  The     *)
(* monitoring and discovery services are what JobLifecycle promises.  The  *)
(* context of a delivery (actor, device, grant) comes from the caller and  *)
(* may differ each time.                                                   *)
(***************************************************************************)
EXTENDS CommandDevice, CommandServices

CONSTANTS
  Context,      (* execution contexts: actor, device, grant                 *)
  Transcript,   (* audio -> text of the speech fixture                      *)
  IntentOf,     (* text -> [alias, duration] of the intent extractor        *)
  AliasOf       (* <<organization, alias>> -> camera                        *)

ASSUME DeskAssumption ==
  /\ Past \in Nat /\ Future \in Nat /\ MaxClock \in Nat /\ MaxSent \in Nat
  /\ MaxAudioBytes \in Nat /\ MaxAudioMs \in Nat /\ MaxAssets \in Nat
  /\ DOMAIN Menu \subseteq DOMAIN ProfileOf /\ None \notin Capture

VARIABLES
  clock,        (* one clock, read by device and gateways                   *)
  heard,        (* sequence of the last message the verifier accepted       *)
  phase,        (* job key -> phase, of the monitoring and discovery jobs   *)
  verdict       (* job key -> their audited results                         *)

services == <<answers, audit>>
jobs     == <<phase, verdict>>
deskVars == <<device, services, jobs, heard, clock>>
-----------------------------------------------------------------------------
JobAction == {"camera.monitor", "network.passive_discovery"}
JobKey ==
  {<<a, x.actor.org, x.actor.id, id>> :
     a \in JobAction, x \in Context, id \in CommandId \cup Capture}

Job == INSTANCE JobLifecycle WITH Key <- JobKey, work <- [k \in JobKey |-> 0]

\* start of a job service: a stale command or one of another context is denied,
\* as may be any other by the policy; what is known already is answered.
StartJob(q, x) ==
  LET k == KeyOf(q, x) IN
  /\ New(k, q)
  /\ \/ Fresh(q, clock) /\ ContextMatches(q, x) /\ Job!Begin(k)
     \/ Job!Refuse(k)
  /\ Keep(k, [request |-> q, reason |-> "job", result |-> {}])
  /\ UNCHANGED audit

\* The fixed map of actions to services.
Dispatch(q, x) ==
  \/ q.action = "camera.status" /\ QueryCamera(q, x, clock) /\ UNCHANGED jobs
  \/ ListAssets(q, x, clock) /\ UNCHANGED jobs
  \/ q.action \in JobAction /\ StartJob(q, x)

\* DeviceTextCommandGateway.handle: the command must agree with its envelope.
HandleText(m, x) ==
  /\ m.type = "text"
  /\ x.device.id = DeviceId /\ m.body.source = DeviceId
  /\ m.body.at = m.at
  /\ Dispatch(m.body, x)

\* The command a capture stands for, if its words are known.
VoiceCommand(m, x) ==
  LET intent == IntentOf[Transcript[m.body.audio]] IN
  [id |-> m.body.capture, action |-> "camera.monitor", actor |-> x.actor.id,
   org |-> x.actor.org, source |-> x.device.id, profile |-> "sentinel",
   target |-> AliasOf[<<x.actor.org, intent.alias>>], at |-> m.at,
   duration |-> intent.duration, changes |-> None]
Understood(m, x) ==
  /\ m.body.audio \in DOMAIN Transcript
  /\ Transcript[m.body.audio] \in DOMAIN IntentOf
  /\ <<x.actor.org, IntentOf[Transcript[m.body.audio]].alias>> \in DOMAIN AliasOf

\* VoiceMonitoringGateway.handle.
HandleVoice(m, x) ==
  /\ m.type = "voice"
  /\ x.device.id = DeviceId /\ m.shown = "sentinel"
  /\ Understood(m, x)
  /\ StartJob(VoiceCommand(m, x), x)

\* What cancel of a job service asks for: a running job of this operator and
\* device.
Cancellable(k, x) ==
  /\ phase[k] = "running"
  /\ k[2] = x.actor.org /\ k[3] = x.actor.id
  /\ answers[k].request.source = x.device.id

\* DeviceCancelGateway.handle; the id of a job names its service.
HandleCancel(m, x) ==
  /\ m.type = "cancel"
  /\ x.device.id = DeviceId
  /\ Cancellable(m.body, x) /\ Job!Conclude(m.body, "cancelled")
  /\ UNCHANGED services

\* A message that is delivered to another gateway, or refused by its own.
Rejected == UNCHANGED <<services, jobs>>

Deliver(i, x) ==
  /\ i \in DOMAIN sent /\ i > heard
  /\ clock - Past <= sent[i].at /\ sent[i].at <= clock + Future
  /\ heard' = i
  /\ \/ HandleText(sent[i], x) \/ HandleVoice(sent[i], x) \/ HandleCancel(sent[i], x)
     \/ Rejected
  /\ UNCHANGED <<device, clock>>

\* A job ends by its own service.
EndJob(k) ==
  /\ phase[k] = "running"
  /\ \E outcome \in {"completed", "failed"} : Job!Conclude(k, outcome)

\* A capture whose command has been answered may be acknowledged at any time.
Answered(c) == \E k \in DOMAIN answers : k[4] = c

Use ==
  \/ \E c \in Capture : Press(c, clock)
  \/ \E chunk \in Chunk : AppendEncoded(chunk)
  \/ \E t \in 0..clock : Release(t)
  \/ CancelCapture
  \/ \E c \in Capture : Answered(c) /\ Acknowledge(c)
  \/ \E c \in Composed, t \in 0..clock : SendText(c, t, clock)
  \/ SendVoice(clock)
  \/ \E k \in {j \in JobKey : phase[j] # "none"} : SendCancel(k, clock)
  \/ \E p \in {"assistant", "sentinel", "inventory"} : Switch(p)

Elapse ==
  /\ clock < MaxClock /\ clock' = clock + 1
  /\ UNCHANGED <<device, services, jobs, heard>>

DeskInit ==
  /\ DeviceInit /\ Job!Init
  /\ answers = <<>> /\ audit = {}
  /\ heard = 0 /\ clock = 0

DeskNext ==
  \/ Use /\ UNCHANGED <<services, jobs, heard, clock>>
  \/ \E i \in DOMAIN sent, x \in Context : Deliver(i, x)
  \/ \E k \in JobKey : EndJob(k) /\ UNCHANGED <<device, services, heard, clock>>
  \/ Elapse

DeskSpec == DeskInit /\ [][DeskNext]_deskVars

-----------------------------------------------------------------------------
(* Properties.                                                             *)

DeskTypeOK ==
  /\ recorder.state \in {"idle", "recording", "ready", "cancelled"}
  /\ recorder.audio # <<>> => Fits(recorder.audio)
  /\ recorder.state \in {"idle", "cancelled"} <=> recorder.capture = None
  /\ recorder.state \in {"idle", "cancelled"} => recorder.audio = <<>>
  /\ recorder.state = "ready" => recorder.audio # <<>>
  /\ heard \in 0..Len(sent)
  /\ phase \in [JobKey -> {"none", "running"} \cup Job!Outcome]
  /\ \A k \in JobKey : phase[k] # "none" <=> k \in DOMAIN answers
  /\ \A e \in audit : e.at \in 0..clock

\* Audit and answers of the query services agree: a command has one audit
\* event, of the result it was given and of a time at which it was fresh,
\* although it is repeated in new messages, changed, or repeated when the
\* grant has come or gone.
OneEventPerAnswer ==
  /\ \A e \in audit : e.key \in DOMAIN answers /\ e.result = Status(answers[e.key].reason)
  /\ \A k \in DOMAIN answers : k \notin JobKey =>
       /\ Cardinality({e \in audit : e.key = k}) = 1
       /\ answers[k].reason = "allow" =>
            \E e \in audit : e.key = k /\ Fresh(answers[k].request, e.at)

\* An answer is final: neither the same command nor a changed one under its id
\* replaces it.
AnswersFinal ==
  [][\A k \in DOMAIN answers : k \in DOMAIN answers' /\ answers'[k] = answers[k]]_deskVars

\* Whatever is shown or started was asked for by a message of this device,
\* signed while the display showed the profile that the action belongs to, and
\* lies within the organization of the operator in whose context it was heard.
Worked(k) ==
  \/ answers[k].reason = "allow"
  \/ k \in JobKey /\ phase[k] \in {"running", "completed", "cancelled"}
Carries(m, k) ==
  \/ m.type = "text" /\ m.body = answers[k].request
  \/ m.type = "voice" /\ k[1] = "camera.monitor" /\ m.body.capture = k[4]
AskedInProfile ==
  \A k \in DOMAIN answers : Worked(k) =>
    /\ \E i \in 1..heard : /\ Carries(sent[i], k) /\ sent[i].at = answers[k].request.at
                           /\ sent[i].shown = ProfileOf[k[1]]
    /\ \A r \in answers[k].result :
         IF k[1] = "asset.list" THEN r.org = k[2] ELSE CameraOrg[r] = k[2]

\* Recorded audio that is ready leaves the buffer only when the operator
\* cancels it or when its own command has been answered: an acknowledgement of
\* an earlier capture that comes late does not delete it.
CaptureKept ==
  [][recorder.state = "ready" /\ recorder' # recorder =>
       \/ recorder'.state = "cancelled"
       \/ recorder'.state = "idle" /\ Answered(recorder.capture)]_deskVars

\* A capture is sent whole or not at all: within both limits, and when it is sent
\* again, with the same audio.
AudioWhole ==
  \A i, j \in DOMAIN sent :
    /\ sent[i].type = "voice" /\ sent[j].type = "voice"
    => /\ Bytes(sent[i].body.audio) <= MaxAudioBytes
       /\ Millis(sent[i].body.audio) <= MaxAudioMs
       /\ sent[i].body.capture = sent[j].body.capture
            => sent[i].body.audio = sent[j].body.audio
=============================================================================
