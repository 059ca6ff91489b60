-------------------------------- MODULE SafeBoot --------------------------------
(***************************************************************************)
(* The sketch of the original Cardputer (TomatoSentinel.ino): its boots,   *)
(* the crash-loop guard in RTC memory (SafeBootGuard.h), the cancellation  *)
(* button and the local draft (LocalDraft.h).                              *)
(*                                                                         *)
(* RTC memory survives a reset, every other variable starts anew.  A reset *)
(* may come at any point.  The button is given by its raw sample: the      *)
(* debounced edge is reported only while the raw value is pressed, so the  *)
(* raw value decides.  The content of the draft is its length.             *)
(***************************************************************************)
EXTENDS Integers, FiniteSetsExt

CONSTANTS
  MaxUnfinished,  (* the largest value of the 8-bit counter: 255            *)
  Threshold,      (* kSafeModeThreshold: 2                                  *)
  HealthyAfter,   (* time in the loop that makes a boot healthy: 5 s        *)
  MaxDraft,       (* characters of the longest draft: 64                    *)
  MaxFailed       (* bound of the failed boots counted in a finite run      *)

ASSUME BootAssumption ==
  /\ {HealthyAfter, MaxDraft, MaxFailed} \subseteq Nat /\ MaxFailed >= Threshold
  /\ Threshold \in Nat \ {0} /\ MaxUnfinished \in Nat /\ MaxUnfinished >= Threshold

VARIABLES
  interop,   (* the image is an interoperability build                      *)
  phase,     (* "reset", "setup", "dark" (no display), "loop"               *)
  cause,     (* class of the last reset: "clean", "unfinished"              *)
  rtc,       (* rtc_boot_guard: [valid, unfinished, inProgress]             *)
  safe,      (* safe_mode_latched                                           *)
  flawed,    (* the watchdog or a self test failed in this boot             *)
  watched,   (* the loop task is subscribed to the watchdog                 *)
  cancel,    (* cancel_requested                                            *)
  healthy,   (* boot_marked_healthy                                         *)
  up,        (* time since boot_started_at_ms, at most HealthyAfter         *)
  draft,     (* length of local_draft                                       *)
  shift,     (* one_shot_shift_armed                                        *)
  failed     (* boots in a row that began and were never healthy            *)

boot == <<safe, flawed, watched, cancel, healthy, up, draft, shift>>
vars == <<interop, phase, cause, rtc, boot, failed>>
-----------------------------------------------------------------------------
(* The guard.                                                              *)

Lost       == [valid |-> FALSE, unfinished |-> 0, inProgress |-> FALSE]
CleanState == [valid |-> TRUE, unfinished |-> 0, inProgress |-> FALSE]

\* Mutant: the 8-bit counter wraps around.
CountedWrapping(previous, class) ==
  IF ~previous.valid \/ class = "clean" THEN 0
  ELSE IF previous.inProgress THEN (previous.unfinished + 1) % (MaxUnfinished + 1)
  ELSE previous.unfinished

\* begin: a state that is not valid, or a clean start, begins a new sequence;
\* a boot that finds another one in progress counts it, up to 255.
Counted(previous, class) ==
  IF ~previous.valid \/ class = "clean" THEN 0
  ELSE IF previous.inProgress THEN Min({previous.unfinished + 1, MaxUnfinished})
  ELSE previous.unfinished

InProgress(n) == [valid |-> TRUE, unfinished |-> n, inProgress |-> TRUE]
-----------------------------------------------------------------------------
Init ==
  /\ interop \in BOOLEAN
  /\ phase = "reset" /\ cause = "clean" /\ rtc = Lost
  /\ safe = FALSE /\ flawed = FALSE /\ watched = FALSE
  /\ cancel = FALSE /\ healthy = FALSE
  /\ up = 0 /\ draft = 0 /\ shift = FALSE /\ failed = 0

\* A reset, at any point.  Power-on, the reset pin and deep sleep are clean
\* starts; a panic, a watchdog or a brownout is not.  What a power failure does
\* to RTC memory is that it may be lost.
Reset(class, lost) ==
  /\ phase' = "reset" /\ cause' = class
  /\ rtc' = IF lost THEN Lost ELSE rtc
  /\ safe' = FALSE /\ flawed' = FALSE /\ watched' = FALSE
  /\ cancel' = FALSE /\ healthy' = FALSE
  /\ up' = 0 /\ draft' = 0 /\ shift' = FALSE
  /\ failed' = CASE phase = "reset" -> failed
                 [] phase # "reset" /\ healthy -> 0
                 [] OTHER -> Min({failed + 1, MaxFailed})
  /\ UNCHANGED interop

CleanReset == \E lost \in BOOLEAN : Reset("clean", lost)
Crash      == \E lost \in BOOLEAN : Reset("unfinished", lost)

\* setup, up to the display: the guard, the subscription to the watchdog, which
\* may fail, and the self tests of an interoperability build, which may too.
Setup ==
  /\ phase = "reset"
  /\ \E ready, passed \in BOOLEAN :
       /\ passed \/ interop
       /\ watched' = ready
       /\ flawed' = ~(ready /\ passed)
       /\ safe' = (Counted(rtc, cause) >= Threshold \/ ~ready \/ ~passed)
  /\ rtc' = InProgress(Counted(rtc, cause))
  /\ failed' = IF cause = "clean" \/ ~rtc.valid THEN 0 ELSE failed
  /\ phase' = "setup"
  /\ UNCHANGED <<interop, cause, cancel, healthy, up, draft, shift>>

\* display.init: without a display setup never returns.
Display ==
  /\ phase = "setup"
  /\ phase' \in {"loop", "dark"}
  /\ UNCHANGED <<interop, cause, rtc, boot, failed>>

\* The watchdog of a loop task that never gets to its loop.
Watchdog == phase = "dark" /\ watched /\ Reset("unfinished", FALSE)

Tick ==
  /\ phase = "loop" /\ up < HealthyAfter
  /\ up' = up + 1
  /\ UNCHANGED <<interop, phase, cause, rtc, safe, flawed, watched, cancel, healthy,
                 draft, shift, failed>>
-----------------------------------------------------------------------------
(* The loop.                                                               *)

\* append, denied at the limit, and backspace.
Typed(length)  == Min({length + 1, MaxDraft})
Erased(length) == Max({length - 1, 0})

\* handleKeyboardEvent: <<length of the draft, shift>> after a key.
AfterKey(key, length, armed) ==
  CASE key = "character" -> <<Typed(length), FALSE>>
    [] key = "backspace" -> <<Erased(length), armed>>
    [] key = "enter"     -> <<0, FALSE>>
    [] key = "shift"     -> <<length, ~armed>>
    [] OTHER             -> <<length, armed>>

Keys == {"none", "character", "backspace", "enter", "shift", "ignored"}

\* Mutant: keys are still read in a pass that follows a cancellation.
KeysHeardAnyway(cancelled) == ~safe /\ ~interop

\* Whether the keyboard is read at all in a pass of the loop.
KeysHeard(cancelled) == ~safe /\ ~cancelled /\ ~interop

\* markHealthy, once the loop has run for long enough; the latch stays.
Marked == healthy \/ up >= HealthyAfter

\* loop: the cancellation first, then a key, then health.
Loop ==
  \E pressed \in BOOLEAN, key \in Keys :
    /\ phase = "loop"
    /\ cancel' = (cancel \/ pressed)
    /\ LET cleared == pressed /\ ~cancel
           length  == IF cleared THEN 0 ELSE draft
           armed   == ~cleared /\ shift
           after   == IF KeysHeard(cancel') THEN AfterKey(key, length, armed)
                      ELSE <<length, armed>>
       IN draft' = after[1] /\ shift' = after[2]
    /\ healthy' = Marked
    /\ rtc' = IF Marked /\ ~healthy THEN CleanState ELSE rtc
    /\ UNCHANGED <<interop, phase, cause, safe, flawed, watched, up, failed>>

Next == Setup \/ Display \/ Watchdog \/ Tick \/ Loop \/ CleanReset \/ Crash

Spec == Init /\ [][Next]_vars
-----------------------------------------------------------------------------
(* What is promised.                                                       *)

\* A running boot is in safe mode exactly when at least two boots in a row before
\* it began and were never healthy, with no clean start and no loss of the RTC
\* memory between them, however many there were, or when its watchdog or a self
\* test failed; and it stays so for the whole boot, healthy or not.
SafeModeEarned == phase # "reset" => (safe <=> failed >= Threshold \/ flawed)

\* In safe mode, after a cancellation and in an interoperability image there is
\* nothing typed: what was typed before a cancellation is gone, and no later key
\* brings anything back.
NothingTyped == safe \/ cancel \/ interop => draft = 0 /\ ~shift
=============================================================================
