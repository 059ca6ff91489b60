# Tomato Sentinel in TLA+

A verification project for Tomato Sentinel: TLA+ modules translated from the
source, TLC configurations that check them on small instances, and proofs that
TLAPS checks for every value of the constants.  `PROJECT.json` holds the index:
components, runs, theorems, hazards, findings and, for every definition, the
source lines it stands for.

All services are synchronous and keep their state in memory.  Concurrency is
the order in which calls of several actors arrive; time is whatever
`received_at` or `evaluated_at` a caller brings.  So an action is one call, its
parameters are the caller's inputs, and a call that raises or returns without
changing anything is a stuttering step.  A call that changes something *before*
it raises is an action of its own.

## 1. The system

| Component | State | Operations | Hard behaviour | What makes it correct |
|---|---|---|---|---|
| **Tomato Link relay** `link-relay/core.py` | queue and byte count per endpoint, receipts and their eviction order, last sequence per source and session | publish, pull, acknowledge | retransmission after receipts are forgotten, expiry of frames whose destination is offline, limits, forged peers | nothing accepted twice or out of order; frames stay in their organization; a frame leaves a queue only by acknowledgement or expiry; counters agree with queues |
| **Control lane** `control_lane.py` | the same, with smaller limits | publish, pull, acknowledge of cancel frames, device to edge only | the ordinary queue is full when a cancellation is needed | a cancellation is delivered whatever the ordinary queue holds |
| **Session governance** `session_governance.py`, `sealed_payload.py` | credentials and revisions, issued and accepted leases, derived keys, counters and nonces | provision, rotate, revoke, issue, accept, seal, open | a lease is used after its credential changed; a lease arrives twice; a nonce is used twice | nothing is sealed or opened under a stale credential or an expired lease; a side uses a nonce once per key |
| **Device protocol** `device-protocol/protocol.py` | per device: current key and retired keys, revision, revocation; per key: last sequence, id window | provision, rotate, revoke, verify | envelopes repeated and reordered across rotations, bounded id memory | no envelope is accepted twice; old generations never come back; revocation is final |
| **Ephemeral pairing** `ephemeral_pairing.py` | two participants with phase, hellos, fingerprint, root secret | hello, receive, confirm, consume, cancel, expire, reboot | hellos repeated, lost or forged; failure while the secret is handed over | two established participants hold the same secret; it is consumed once; terminal states keep none |
| **Monitoring** `monitoring_service.py` | remembered commands, jobs, workers, the confirmer, known events, sinks, audit | start, advance, cancel, publish | calls with times that run backwards, sinks that fail, retries | one verdict per command; an event has its evidence; an ended job is final |
| **Passive discovery** `discovery.py` | remembered commands, jobs, the frame source, candidates, audit | start, advance, cancel | a source that yields a candidate of another organization; scopes that expire | as monitoring, plus failed jobs |
| **Experiment engine** `experiment-engine` | module registry, jobs, audit trail | register, start, advance, cancel | a press for another plan; an executor that raises after its confirmation was used; no clock while it runs | it runs only the plan whose key was pressed, and gets one verdict |
| **Edge agent** `edge-agent` | remembered requests, confirmations | handle, confirm | requests repeated when the memory is full; a press that arrives late | a press confirms one plan, for a limited time |
| **Laboratory dashboard** `lab_dashboard.py`, `simulator.py` | profile, shown plan, progress | review, press, started, progress, completed, cancelled, tick, reboot | the plan on the display is replaced between press and answer; ends told in any order | the display is never ahead of the engine and shows only confirmed plans as running |
| **Command composer, push-to-talk** `command_composer.py`, `audio.py` | recorded audio and its capture | compose, press, append, release, cancel, acknowledge | limits in the middle of a capture; late acknowledgements | audio is sent whole, and kept until its own command is answered |
| **Command services** `service.py`, `asset_inventory.py`, `voice_gateway.py`, `device_gateway.py` | answers, audit | execute, handle | a command repeated with another payload, in another context, after a denial | one final answer and one audit event per command |
| **Policy engine** `policy-engine` | none (a pure function) | register, evaluate | which of two failing checks answers | no denial hides behind a request for confirmation |
| **Local pairing frames** `local_pairing_frame.py`, `TomatoLinkLocalFrame.cpp` | buffer of a decoder | feed, cancel, encode | chunks of any size, the largest frame, a view into the buffer | both decoders agree; exactly the encoded frames are completed |
| **Firmware** `firmware/cardputer` | boot counter in RTC memory, cancellation, draft | boot, display, loop, reset | resets at any point | a crash loop ends in safe mode, and only that |

Interactions: devices reach the edge agent over the relay and the control
lane, whose opaque payloads are sealed under session leases.  The edge agent
and the orchestrator's gateways verify every envelope with the device protocol
before they call the command, monitoring, discovery and experiment services.
These ask the policy engine, and write the audit log.  What carries the edge's
answers and the engine's events back to a display is not in the source.

## 2. Modules

| Module | Models | Composes or refines |
|---|---|---|
| `TomatoLinkRelay` | `link-relay/core.py` | |
| `ControlLane` | `link-relay/control_lane.py` | two instances of `TomatoLinkRelay` |
| `LinkSession` | `session_governance.py`, `sealed_payload.py` | |
| `DeviceProtocol` | `device-protocol/protocol.py` | |
| `EphemeralPairing` | `device-protocol/ephemeral_pairing.py` | |
| `JobLifecycle` | what a job service promises (abstract) | |
| `MonitoringService` | `monitoring_service.py` and its worker, confirmer, sinks | implements `JobLifecycle` |
| `PassiveDiscovery` | `discovery.py` | implements `JobLifecycle` |
| `PolicyEngine` | `policy-engine/evaluator.py`, `registry.py` | |
| `ExperimentEngine` | `experiment-engine` (all but `spectra.py`) | uses `PolicyEngine`, implements `JobLifecycle` |
| `LabDevice` | `lab_dashboard.py` and the laboratory part of `simulator.py` | |
| `LabBench` | `edge-agent`: `application.py`, `confirmation_gateway.py`, `device_gateway.py`, `presentation.py` | composes `ExperimentEngine` and `LabDevice` |
| `CommandDevice` | `audio.py`, `command_composer.py`, the messages of `simulator.py` | |
| `CommandServices` | `service.py`, `asset_inventory.py`, `adapters.py`, `execution.py` | uses `PolicyEngine` |
| `CommandDesk` | orchestrator `device_gateway.py`, `voice_gateway.py` | composes `CommandDevice`, `CommandServices` and the jobs of `JobLifecycle` |
| `LocalFrame` | `local_pairing_frame.py`, `TomatoLinkLocalFrame.cpp` | |
| `SafeBoot` | `TomatoSentinel.ino`, `SafeBootGuard.h`, `LocalDraft.h` | |
| `Absence` | the value `None` | |
| `BoundedFifo` | a bounded store and its eviction order | |
| `TomatoLinkRelayProofs` | theorems about `TomatoLinkRelay` | |
| `CommandPathProofs` | theorems about `LinkSession` and `CommandDesk` | |
| `DeviceProofs` | theorems about `DeviceProtocol` and `EphemeralPairing` | |
| `JobLifecycleProofs` | theorems about `JobLifecycle` | |
| `MonitoringServiceProofs` | theorems about `MonitoringService` | uses `JobLifecycleProofs` |
| `PassiveDiscoveryProofs` | theorems about `PassiveDiscovery` | uses `JobLifecycleProofs` |
| `LabBenchProofs` | theorems about `LabBench` with its engine and devices | uses `JobLifecycleProofs` |
| `FirmwareProofs` | theorems about `SafeBoot` and `LocalFrame` | |
| `MC*` | constants for TLC | |

**TomatoLinkRelay.**  A queue is the set of positions that its frames have in
`log`, the history of accepted frames; a FIFO of distinct, increasing positions
needs no other order.  `bytes` is kept apart from the queue, as the code keeps
it, because the two may drift; `BytesOf` is the running sum that the code takes
when it counts anew.  Peers are those the transport may hand over,
forged ones included.  `received_at` is the variable `now`.

**ControlLane.**  `control_lane.py` repeats the relay with limits and a
direction of its own, so the module holds two instances of the relay, `Relay`
and `Lane`, side by side.  The property that justifies the second one is that a
cancellation is heard though the ordinary queue is never emptied.

**LinkSession.**  Each side of a route has its own vault, lease authority and
codec, and its own clock, a constant ahead of the exact one.  A key, a tag and
a ciphertext are the data they are computed from, which is what equality of
their outputs tells.  The network delivers any issued contract any number of
times, also with another session id, and any sealed payload under any outer
metadata.  Either end of a route may seal and open, since the codec compares the
route and session of a payload with those of its key and asks for no end; each
has a nonce guard of its own.  `opened` holds what the last step opened.

**DeviceProtocol.**  Registry and verifier are one specification, because the
hazards are between them.  An HMAC is the key that signed the envelope.  The
network is a set of envelopes that may arrive any number of times in any order.

**EphemeralPairing.**  A participant is one boot of a device or an edge, with a
key pair named after it; a device that reboots becomes another participant,
while its hellos travel on and its display may still be compared.  The root is
the pair of keys and the transcript it is derived from.  Forged hellos are a
constant.  A call that comes too late expires the ceremony before it raises,
so every such call is the action `Expire`.  The specification is
`CeremonySpec`, its clock `clock`.

**JobLifecycle.**  A command is denied or starts one job, work is done only
while the job runs, a job ends once, and the audit log holds the one verdict of
each ended command.

**MonitoringService.**  The monitoring orchestrator with its frame worker, the
temporal confirmer and the three sinks, any of which may raise.  Every call
carries its own time, which may be earlier than one already used.

**PassiveDiscovery.**  The discovery service with a source that may be any
`PassiveDiscoverySource`: it may repeat candidates, hold one of another
organization, and hold more than were asked for.  `run_to_completion` is one
action, because its advances are one synchronous call; the milliseconds between
them are left out.  Candidates are added in their order up to the job's maximum,
which is said of the set that results (`Added`), not of the loop.

**PolicyEngine.**  `Evaluate` gives the answer of the first check that fails.
The order is part of the model, because a decision that asks for a confirmation
must not be taken back by a check that comes after it.  Reason codes are left
out.

**ExperimentEngine, LabDevice, LabBench.**  A plan stands for its hash.
Proposals are bound, validated and started; `start` is four actions, one for
each way it ends, of which `Interrupted` is the executor that raises while it
creates its session: the experiment stays authorized, its confirmation is used.
An executor may also return a step the engine refuses, and any number of steps
that do not complete: `Steps` bounds only how many are told apart.  A device in
the laboratory profile signs a press for any plan, since the simulator signs what
its caller passes; that the plan is the one on the display is up to the caller,
and nothing here rests on it.  The gateway turns a press into a confirmation
once and in order.  A display is told of the confirmations of its own device
only, each once (`heard`).  The registry is a function of the manifests in the
order they are registered: one is refused when it clashes with one accepted
before (`Accepted`, `Clash`), and if the policy refuses one that is accepted there
is no engine (`ToolsAssumption`).  Any context that could be gathered may be used at
any time.

**CommandDevice, CommandServices, CommandDesk.**  The device composes, signs
and repeats messages for the profile it shows; the network delivers them in
order or never, late, and the caller brings a context of its own for each
delivery.  The verifier is what `DeviceProtocol` promises of one identity and
the job services are what `JobLifecycle` promises of any.  The key of an answer
holds the tool, so one command id under two actions is answered by each service
separately, as in the code.  A capture id is given to one recording; a capture
sent again is a command with a new time, which the job service refuses as a
changed reuse, and the first answer stays.  The assets of
an answer are a set, the first of the selected ones by id up to the limit; the
order of their lines is layout.  Schema validation and correlation ids are left
out.  The specification is `DeskSpec`, its clock `clock`.

**LocalFrame.**  What comes down the wire is fixed at the start, so a buffer is
a number of bytes of it.  The header's content is the set of its wrong fields.
Both decoders get the same calls; each inspects the header in its own order.
The specification is `FrameSpec`.

**SafeBoot.**  RTC memory survives a reset, all else starts anew; a reset may
come at any point.  `failed` is a history variable: boots in a row that began
and were never healthy.  The debounced edge of the button is reported only while
the raw value is pressed, so the raw value is the input.

Validation of schemas, wording of denials and canonical encodings are left out
everywhere.  The order of denials in a job's `start` is left out too: they
differ in the reason they give, not in their effect.  In monitoring and
discovery the policy decision is a constant relation.

Most components call their specification `Spec`.  `CeremonySpec`, `DeskSpec` and
`FrameSpec` have names of their own because their proofs stand in one module
with those of another component.

An operator whose comment begins with `Mutant:` is a plausible bug of the
operator that it stands before.  No specification uses it; `PROJECT.json` names
the property that detects it.

## 3. Runs

A run checks the hazards of its component.  Type invariants (`TypeOK`,
`CeremonyTypeOK`, `DeskTypeOK`; `TypeInv` and `FrameTypeInv` in
`FirmwareProofs`) are part of the proofs; TLC finds them true on these
instances, but no run spends itself on them.

| Run | Asks | Bounds, and why they are enough |
|---|---|---|
| `relay` | accounting of bytes, truth of receipts (also of an id used again), no return after an acknowledgement, no silent drop, and that a polling receiver empties its queue | Six frames: three ids in one session, a changed reuse of an id, the other direction, another organization. Two frames, three bytes and two receipts at most, so that count, bytes and receipts overflow separately; time 0..2 with lifetimes 1 and 2, so that frames expire in front of and behind live ones. |
| `control_lane` | is a cancellation heard while nobody reads the ordinary queue | both lanes hold one frame, so that each is full at once |
| `control_receipts` | is a cancellation that is told "acknowledged" out of the queue (violated, see 6) | one receipt, so that the second cancellation evicts that of the first, and a third with the id of the first |
| `link_session` | do rotation and revocation end sessions at once; is every session one that was issued; payloads opened only as sealed | two keys, secrets, leases, session ids and frames; one record per side, so that a lease id is forgotten and reused; each end may seal one payload; leases of two units in a clock 0..2, so that they run out; device clock one ahead |
| `link_nonces` | does a side use a nonce once under a key | three nonces and a guard of two, so that a side seals twice under one lease, or under two leases of one credential, and a third payload fills the guard; both ends seal; one session id and frame, leases and clock of one unit |
| `devices` | envelopes: replay, order of generations, secrets; ceremonies: do the roots agree and are they shared with honest participants only, installed once, cleared | envelopes: two devices; one signs under two keys; an id window of two and a third id, a reused id and a reused sequence number; ceremonies: a device, its reboot and an edge; hellos that forge each role, a replayed key, a reflected key and a low-order point; windows of two, time 0..3 |
| `monitoring` | evidence of events, order of notification, refinement of `JobLifecycle`, termination | two operators of two organizations and a third device; one command id reused; frames with a broken run, a run, and a late frame; every sink may raise; time 0..3 with calls in any order; one job whose deadline the clock never reaches |
| `monitoring_cancel` | is a cancellation recorded (violated, see 6) | the same |
| `discovery` | nothing observed outside the scope, refinement of `JobLifecycle`, termination | a scope renewed under its id for a shorter time, a reused command id, a source with a repeated and a foreign candidate, limits 1 and 3 of four; one job whose deadline the clock never reaches |
| `lab` | is an experiment started only by a fresh press for its plan; is the display never ahead; does a confirmation suffice; refinement of `JobLifecycle` | a module that asks for a key press, one that does not, one without executor, and manifests the registry refuses; two experiments, one of which may be planned in two ways; message age, confirmation and profile last one unit of a clock 0..2, so that each runs out; an executor that fails, and steps that do not complete told apart up to one |
| `commands` | one final answer and one audit event; only what was asked in its profile; audio whole and kept | two messages, which is a repetition, a changed reuse, a command and its cancellation, or two captures; an own and a foreign camera; inventories of two organizations; a grant that comes and goes and a colleague's context; a capture that breaks each limit |
| `firmware` | frames: do the Python and the firmware decoder agree; are exactly the encoded frames completed; is a view intact; boots: is safe mode earned by failed boots and nothing else; is nothing typed after a cancellation | frames: every header with up to two wrong fields, payloads from none to one too long, eight bytes in every cut, malformed calls and cancellations between them; the frame with the longest payload is five bytes, so a whole frame with bytes after it, and an overflow, fit; boots: a counter that saturates at 3 and crash loops counted to 5, so that they pass its end; both kinds of image |

`devices` and `firmware` each hold two systems that share no state: what one does
is the same whatever the other does in between, so a behaviour of the run has
steps of one of the two only (`part`).

`MaxTime`, `MaxClock`, `MaxLeases`, `MaxSent`, `MaxPresses`, `MaxFed`, `MaxFailed`,
`MaxWrong` and the length of `log` implied by the frames bound runs only; all
other constants are limits of the code, scaled down.  Deadlock is checked for
the relay and the firmware with its frames.  The other systems really stop: every
ceremony ends, every command ends, every device may be revoked, and then all
calls are answered without a change.

`Permutations` of ids serve as symmetry where a run has no liveness property:
`link_session`, `link_nonces` and `commands`.

### Fairness

- `relay`: weak fairness of pull and of "acknowledge what a pull returned", for
  every authenticated peer.  Edges and devices poll; the code promises nothing
  to a receiver that does not.  No fairness of the clock: queues must drain
  though nothing expires.
- `control_lane`: the same for the edge's control lane only, and a device that
  keeps sending its cancellation.  Nothing is assumed of the ordinary lane.
- `monitoring`, `discovery`: weak fairness of advancing a job at some time, as
  `run_to_completion` and the callers' loops do.  No fairness that time passes
  its deadline: the bounded sources must end the job.
- all others state no fairness and check no liveness.

## 4. Proofs

All theorems hold for every value of the constants that satisfies the named
assumptions of the module.  Every invariant and every action property that a
run finds to hold is stated by a theorem; so are the refinements.

An invariant of a run is seldom inductive.  What follows says what had to be
added to it.

### `TomatoLinkRelayProofs`

- Order without replay (`NoReplay`) needs `LastSeqBound`: the last sequence that a
  stream remembers bounds every sequence in `log`.  That accepted frames stay
  acknowledged follows from it, whatever the receipts have forgotten.  With the
  routes of the log and of the queues (`LogRouted`, `QueueRouted`) it gives
  isolation, bounded receipts and the action property `NoSilentDrop`.
- `ReceiptsTrue`: `acknowledge` answers from the receipts, so the invariant ties
  each receipt to the last position in `log` of its key, `LastWithKey`.  While it
  says "queued" it is true of that frame.  When it says "acknowledged" it is true
  of some frame with the key at the destination it names, and no more can be
  said: see `control_receipts` in section 6.
- `AccountsExact`: a publish adds the size of its frame, an acknowledgement
  subtracts it, an expiry counts anew, and the byte count is the sum over the
  queue after each.  `BytesOf` is a recursive function over positions of the
  log, so what it does is shown by induction over these: `Induct` takes the
  least counterexample (`WFMin` of the library), and then sums of a subset, of a
  queue without one position and of a queue with a new one are lemmas.
  `QueuesLimited` says that both limits hold.

### `DeviceProofs`

- Registry and verifier: the same argument per device and key for replay
  (`SeqBound`).  For generations, an accepted key is current or retired, and
  retired as soon as a message under another key of its device was accepted
  after it (`KeyHistory`).  For secrets, every key that ever was current is
  current or retired now and has its secret among the used ones, which rotation
  and provisioning refuse (`GenerationInv`).
- Ceremony: the machine-in-the-middle property rests on `SameDisplay`: displays
  of two roles that show the same transcript hold each other's hello.  The
  invariant adds that a participant's hello is set once and is of the other
  role, and that what a sink accepted was computed from it.  Agreement of two
  sinks follows because a hello names its participant; together these give
  `RootsPaired`, what the run checks.  `CeremonyTyped` is type correctness.

### `JobLifecycleProofs`

Verdicts match phases, and an ended command is final.  Every service that is
shown to implement `JobLifecycle` inherits this: `OneVerdictEach` of monitoring,
discovery and the laboratory composes the refinement with it.

### `CommandPathProofs`

- Sessions: a tag names the lease it was made for and a key names the lease it
  was derived from, so a changed contract is never admitted (`SessionsIssued`),
  and what is opened was sealed under that lease by a side that holds it, at a
  time of the lease and with a nonce that this side still remembers
  (`SealedUnderLease`; `OpenedAsSealed`, `NonceOnce`).  `NonceOnce` is of one side:
  the two ends of a route share a key, and that they do not draw the same nonce
  is a matter of twelve random bytes.  `InvalidatedAtOnce` needs
  no history: an active lease is compared with the vault at each use.
- Desk: an answer is traced back to the message that asked for it.  A text
  message was signed under the profile of its action (`TextInv`); a capture that
  was sent is used up, or still in the recorder with the audio that was sent
  (`VoiceInv`); what is recorded fits (`RecorderInv`).  An allowed verdict passed
  each check of its service (`FourPassed`, `CameraAllowed`, `AssetsAllowed`), which
  gives the organization of what is shown.  These give the five safety
  properties of the run.  Type correctness (`DeskTyped`) adds that a job has a
  phase exactly when its command is remembered (`AnsweredInv`).

### `MonitoringServiceProofs`

The confirmer keeps a run of frames between calls.  `RunInv` says that the run is
consecutive, within the deadline, and ends with the last frame taken, unless a
frame later than the deadline was taken since, after which nothing is observed.
`EventConfirmed` follows; `NotifiedInOrder` is inductive with the order of the sinks.
The refinement needs that only ended commands have an event in the audit log
(`AuditEnded`) and have it once (`AuditOnce`).

### `PassiveDiscoveryProofs`

A deadline lies within the scope that admitted the job (`DeadlineInv`), and
nothing is taken from the deadline on; so `WithinScope` holds whatever scope a
later call brings.  `AuditInv` says what the log holds of a command by its phase;
`VerdictInv` derives the abstract verdict from it, and the refinement follows.

### `LabBenchProofs`

`LabInv` ties three records of one thing together: what an experiment is (`job`),
what it has been (`trail`) and what a display says of it; and the confirmed plan
of a display to a confirmation, and this to the press that it was made from.

- `ShownConfirmed`, `DisplayTrue`: a display only learns of a start from the
  trail, and shows as running only a plan that it confirmed.
- `ConfirmationKept`: the policy asks for a confirmation only when every check
  before that one passed, whatever the registry holds.  What the registry
  accepted is a recursive function, met again by induction (`Induct`).
- `PressedFirst`: a confirmation is valid until at most the age of its message
  and its own lifetime after the press (`From`), and a run starts only with one.
- `Refinement`: the last state of a trail is that of the job (`VerdictInv`).

### `FirmwareProofs`

- `SafeBoot`: the counter in RTC memory and the failed boots in a row agree until
  both have passed the threshold (`Agree`), whichever of them saturates first.
  They are off by one while a boot runs, because a boot is counted by the next
  one that finds it in progress; so the invariant says one thing before the
  guard has run (`BeforeGuard`) and another after (`AfterGuard`).
- `LocalFrame`: the two decoders look for faults in different orders; they find
  one in the same headers, and name it alike but for the header with both a
  reserved bit and a payload that is too large.  While a frame is open both
  have buffered what they were fed (`InStep`); a legal one is open until its
  last byte and complete with it (`Underway`).

### Only model-checked

- Every liveness property: `QueueDrains`, `CancellationHeard`, `JobsEnd`.
  The prover has no fairness and no ENABLED.
- `LabBench!TypeOK`: `LabInv` holds the types that the proofs use.  That a profile
  expires exactly when it is the laboratory's, that the progress of a display
  stays within the steps and that answers are not of a time to come is left.

### Assumptions

Each is named in the module that declares the constants, and TLC evaluates it
on the run of that module.  They say what the source's own checks and types say:
limits are natural numbers, and positive where a constructor refuses zero; times
are natural numbers; ids are not the value `None`; the frames of a camera and the
candidates of a source are finite sequences with fields of their types, since
they are lists and tuples in the code.

## 5. Plan

Done: every module of section 2, with the theorems of section 4.

Proofs next, in this order: `TypeOK` of `LabBench`; type correctness of
`DeviceProtocol`, `SafeBoot` and `LocalFrame` as theorems of their own (it is part
of their invariants); that the ordinary queue and the control lane never hold a
frame of each other's kind, from two instances of the relay's invariant; the
induction lemmas that three modules state separately (`Least`, `Induct`) in one.

Not modelled, and why:

- `link_client.py`, `link_presentation.py`, `secure_websocket.py`: a state
  machine of one outbound connection that only its tests call.  The loop that
  would drive it, the socket and its failures are not in the source, so there is
  no fairness under which its retries could be judged.  One thing to judge when
  they exist: the attempt counter returns to zero on every connection
  (`link_client.py:58`), so a link that connects and fails at once is retried
  without end.  It is the first extension once the loop is there.
- `spectra.py`: numerical synthesis of channels.
- Of the firmware: the scan of the key matrix, drawing, serial output, the
  write guards that refuse every call, mbedTLS and the self tests with their
  fixed vectors.
- The terminal console, JSON schemas and their validator, YAML registries.

## 6. Where the code and its documents differ

Checked:

- `monitoring_cancel`: `docs/product/mvp.md` says that cancelling a running job
  stops processing and records `cancelled`.  `cancel` stops the worker and then
  makes a transition that raises when the time of the call is earlier than the
  last one.  The worker is stopped, the job still runs, and the next advance
  records it as completed.  `discovery.py` has the same order of steps.

- `control_receipts`: the session governance threat model says that an
  acknowledgement means removal from the relay queue.  Once 512 later controls
  have evicted the receipt of an id, the lane accepts the id again with a later
  sequence, though its first cancellation may still be queued.  `acknowledge`
  then removes the first and marks the receipt, which is that of the second
  (`control_lane.py:234`): the second is told "acknowledged" and is still queued.
  `core.py:250` does the same with 1024 receipts.

Met while translating; the modules do what the code does:

- The relay threat model says that a changed reuse of a frame id is denied.  It
  is, until the bounded receipt store has forgotten the id (`core.py:287`).
- ADR-0011 promises exact idempotency of lease contracts.  Within the allowed
  clock skew a contract is accepted before it starts; the same contract
  delivered again is refused until it has started (`session_governance.py:394`).
- The bootstrap threat model says that a changed hello terminates normal
  progress.  The code refuses the hello and goes on (`ephemeral_pairing.py:172`).
- `docs/product/vision.md` counts it as success that every sensitive operation is
  bounded.  The engine compares the duration of an experiment with its scope when
  it starts; `advance` (`engine.py:243`) compares neither a time nor a number of
  steps, so what bounds a running experiment is its executor, and any exception
  but the three that `advance` catches leaves it running.  The three executors in
  the source return three steps; no property says that experiments end.
- ADR-0003 says that expiry returns the simulator to the assistant profile.  It
  does at the next `tick`; between the two the device still acts in the profile
  (`simulator.py:211`).
- The Python and the firmware frame decoder give different reasons for a header
  with both a reserved bit and a payload that is too large.  Both refuse it.
- ADR-0011 also describes a glue that compares the job id inside a cancellation
  with the outer one; the source has no such code yet, so nothing models it.
- When the map of remembered requests of the edge application is full, new
  requests are refused for ever while old ones are still answered
  (`application.py`); nothing in the source empties it.
