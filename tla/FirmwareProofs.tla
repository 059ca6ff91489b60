---------------------------- MODULE FirmwareProofs ----------------------------
(***************************************************************************)
(* The proofs about the C++ side of the project: the crash-loop guard and  *)
(* the loop of the sketch (SafeBoot), and the frame decoder with its       *)
(* Python twin (LocalFrame).                                               *)
(***************************************************************************)
EXTENDS SafeBoot, LocalFrame, TLAPS

-----------------------------------------------------------------------------
(* SafeBoot.  Safe mode is earned, and nothing is typed, for any threshold,*)
(* size of the counter and length of the draft.  The counter in RTC memory *)
(* and the number of failed boots agree until both have passed the         *)
(* threshold; they are off by one boot while a boot runs, because the      *)
(* guard counts a boot when the next one finds it in progress.             *)

\* Two counts that agree up to the threshold.
Agree(n, m) == n = m \/ (n >= Threshold /\ m >= Threshold)

TypeInv ==
  /\ interop \in BOOLEAN
  /\ phase \in {"reset", "setup", "dark", "loop"}
  /\ cause \in {"clean", "unfinished"}
  /\ rtc \in [valid : BOOLEAN, unfinished : 0..MaxUnfinished, inProgress : BOOLEAN]
  /\ safe \in BOOLEAN /\ flawed \in BOOLEAN /\ cancel \in BOOLEAN
  /\ healthy \in BOOLEAN /\ shift \in BOOLEAN
  /\ draft \in Nat
  /\ failed \in 0..MaxFailed

\* Before the guard has run, what it is going to count is the failed boots.
BeforeGuard ==
  phase = "reset" /\ rtc.valid =>
    Agree(Counted(rtc, "unfinished"), failed)

\* Afterwards the boot is in progress with that count, until it is healthy.
AfterGuard ==
  phase # "reset" => /\ ~healthy => Agree(rtc.unfinished, failed) /\ rtc.valid /\ rtc.inProgress
                     /\ healthy => rtc = CleanState

\* The loop alone types and cancels.
QuietSetup == phase # "loop" => draft = 0 /\ ~shift /\ ~cancel /\ ~healthy

Inv == TypeInv /\ BeforeGuard /\ AfterGuard /\ QuietSetup /\ SafeModeEarned /\ NothingTyped
-----------------------------------------------------------------------------
LEMMA Bounds ==
  /\ MaxFailed \in Nat /\ MaxUnfinished \in Nat /\ MaxDraft \in Nat
  /\ Threshold \in Nat \ {0} /\ Threshold <= MaxFailed /\ Threshold <= MaxUnfinished
BY BootAssumption

\* The smaller of two numbers, which the counter saturates with.
LEMMA MinOfTwo ==
  ASSUME NEW a \in Int, NEW b \in Int
  PROVE  Min({a, b}) = IF a <= b THEN a ELSE b
<1> DEFINE m == IF a <= b THEN a ELSE b
<1>1. m \in {a, b} /\ \A y \in {a, b} : m <= y
  OBVIOUS
<1>2. \A x \in {a, b} : (\A y \in {a, b} : x <= y) => x = m
  OBVIOUS
<1>3. Min({a, b}) = CHOOSE x \in {a, b} : \A y \in {a, b} : x <= y
  BY DEF Min
<1> HIDE DEF m
<1>4. Min({a, b}) = m
  BY <1>1, <1>2, <1>3, Zenon
<1> QED BY <1>4 DEF m

LEMMA MaxOfTwo ==
  ASSUME NEW a \in Int, NEW b \in Int
  PROVE  Max({a, b}) = IF a >= b THEN a ELSE b
<1> DEFINE m == IF a >= b THEN a ELSE b
<1>1. m \in {a, b} /\ \A y \in {a, b} : m >= y
  OBVIOUS
<1>2. \A x \in {a, b} : (\A y \in {a, b} : x >= y) => x = m
  OBVIOUS
<1>3. Max({a, b}) = CHOOSE x \in {a, b} : \A y \in {a, b} : x >= y
  BY DEF Max
<1> HIDE DEF m
<1>4. Max({a, b}) = m
  BY <1>1, <1>2, <1>3, Zenon
<1> QED BY <1>4 DEF m

\* A draft changes by a key into a draft.
LEMMA KeysType ==
  ASSUME NEW key \in Keys, NEW length \in Nat, NEW armed \in BOOLEAN
  PROVE  AfterKey(key, length, armed) \in Nat \X BOOLEAN
<1>1. Typed(length) \in Nat
  BY MinOfTwo, Bounds DEF Typed
<1>2. Erased(length) \in Nat
  BY MaxOfTwo DEF Erased
<1> QED BY <1>1, <1>2 DEF AfterKey, Keys

\* One more failed boot on both sides keeps the counts in agreement, also where
\* one of them or both are full.
LEMMA AgreeAfterFailure ==
  ASSUME NEW n \in 0..MaxUnfinished, NEW m \in 0..MaxFailed, Agree(n, m)
  PROVE  /\ Min({n + 1, MaxUnfinished}) \in 0..MaxUnfinished
         /\ Min({m + 1, MaxFailed}) \in 0..MaxFailed
         /\ Agree(Min({n + 1, MaxUnfinished}), Min({m + 1, MaxFailed}))
BY MinOfTwo, Bounds DEF Agree

\* What the guard counts is a value of the counter.
LEMMA CountedType ==
  ASSUME TypeInv, NEW class \in {"clean", "unfinished"}
  PROVE  Counted(rtc, class) \in 0..MaxUnfinished
BY MinOfTwo, Bounds DEF Counted, TypeInv

LEMMA LostType ==
  /\ Lost \in [valid : BOOLEAN, unfinished : 0..MaxUnfinished, inProgress : BOOLEAN]
  /\ ~Lost.valid
BY Bounds DEF Lost

LEMMA Initially == Init => Inv
<1> SUFFICES ASSUME Init PROVE Inv
  OBVIOUS
<1>1. failed \in 0..MaxFailed /\ draft \in Nat
  BY Bounds DEF Init
<1>2. TypeInv
  BY <1>1, LostType DEF Init, TypeInv
<1>3. BeforeGuard /\ AfterGuard /\ QuietSetup /\ SafeModeEarned /\ NothingTyped
  BY LostType DEF Init, BeforeGuard, AfterGuard, QuietSetup, SafeModeEarned, NothingTyped
<1> QED BY <1>2, <1>3 DEF Inv

\* A reset, whenever it comes, counts the boot that it ends.
LEMMA ResetStep ==
  ASSUME Inv, NEW class \in {"clean", "unfinished"}, NEW lost \in BOOLEAN, Reset(class, lost)
  PROVE  Inv'
<1> USE DEF Inv
<1>1. failed' \in 0..MaxFailed
  <2>1. failed \in 0..MaxFailed /\ 0 \in 0..MaxFailed
    BY Bounds DEF TypeInv
  <2>2. Min({failed + 1, MaxFailed}) \in 0..MaxFailed
    BY <2>1, MinOfTwo, Bounds
  <2>3. failed' \in {failed, 0, Min({failed + 1, MaxFailed})}
    BY Zenon DEF Reset
  <2> QED BY <2>1, <2>2, <2>3
<1>2. TypeInv'
  <2>1. rtc' \in {rtc, Lost}
    BY DEF Reset
  <2>2. phase' = "reset" /\ cause' = class /\ ~safe' /\ ~flawed' /\ ~cancel' /\ ~healthy'
        /\ ~shift' /\ draft' = 0 /\ interop' = interop
    BY Zenon DEF Reset
  <2>3. safe' \in BOOLEAN /\ flawed' \in BOOLEAN /\ cancel' \in BOOLEAN
        /\ healthy' \in BOOLEAN /\ shift' \in BOOLEAN
    BY DEF Reset
  <2> QED BY <1>1, <2>1, <2>2, <2>3, LostType DEF TypeInv
<1>3. BeforeGuard'
  <2> SUFFICES ASSUME rtc'.valid PROVE Agree(Counted(rtc', "unfinished"), failed')
    BY DEF BeforeGuard
  <2>1. rtc' = rtc
    BY LostType DEF Reset
  <2>2. CASE phase = "reset"
    BY <2>1, <2>2 DEF Reset, BeforeGuard
  <2>3. CASE phase # "reset" /\ healthy
    BY <2>1, <2>3 DEF Reset, AfterGuard, CleanState, Counted, Agree
  <2>4. CASE phase # "reset" /\ ~healthy
    <3>1. rtc.valid /\ rtc.inProgress /\ Agree(rtc.unfinished, failed)
      BY <2>4 DEF AfterGuard
    <3>2. Counted(rtc, "unfinished") = Min({rtc.unfinished + 1, MaxUnfinished})
      BY <3>1 DEF Counted
    <3>3. failed' = Min({failed + 1, MaxFailed})
      BY <2>4 DEF Reset
    <3>4. rtc.unfinished \in 0..MaxUnfinished /\ failed \in 0..MaxFailed
      BY DEF TypeInv
    <3> QED BY <2>1, <3>1, <3>2, <3>3, <3>4, AgreeAfterFailure
  <2> QED BY <2>2, <2>3, <2>4 DEF TypeInv
<1>4. AfterGuard' /\ QuietSetup' /\ SafeModeEarned' /\ NothingTyped'
  BY DEF Reset, AfterGuard, QuietSetup, SafeModeEarned, NothingTyped
<1> QED BY <1>2, <1>3, <1>4

\* The guard starts a boot with the count that the boots before it have earned.
LEMMA SetupStep ==
  ASSUME Inv, Setup
  PROVE  Inv'
<1> USE DEF Inv
<1> DEFINE n == Counted(rtc, cause)
<1>1. n \in 0..MaxUnfinished
  BY CountedType DEF TypeInv
<1>2. Agree(n, failed')
  <2>1. CASE cause = "clean" \/ ~rtc.valid
    BY <2>1 DEF Setup, Counted, Agree
  <2>2. CASE ~(cause = "clean" \/ ~rtc.valid)
    <3>1. cause = "unfinished" /\ rtc.valid /\ phase = "reset" /\ failed' = failed
      BY <2>2 DEF Setup, TypeInv
    <3> QED BY <3>1 DEF BeforeGuard
  <2> QED BY <2>1, <2>2
<1>3. rtc' = InProgress(n) /\ phase' = "setup"
  BY DEF Setup
<1>4. failed' \in 0..MaxFailed
  BY Bounds DEF Setup, TypeInv
<1> HIDE DEF n
<1>5. PICK ready, passed \in BOOLEAN :
        /\ flawed' = ~(ready /\ passed)
        /\ safe' = (n >= Threshold \/ ~ready \/ ~passed)
  BY DEF Setup, n
<1>6. TypeInv'
  BY <1>1, <1>3, <1>4, <1>5, Bounds DEF Setup, TypeInv, InProgress
<1>7. SafeModeEarned'
  <2>1. n >= Threshold <=> failed' >= Threshold
    BY <1>1, <1>2, <1>4, Bounds DEF Agree
  <2> QED BY <1>5, <2>1 DEF SafeModeEarned
<1>8. BeforeGuard' /\ AfterGuard' /\ QuietSetup' /\ NothingTyped'
  BY <1>2, <1>3 DEF Setup, BeforeGuard, AfterGuard, QuietSetup, NothingTyped, InProgress
<1> QED BY <1>6, <1>7, <1>8

\* A pass of the loop: what it types, and the boot that it makes healthy.
LEMMA LoopStep ==
  ASSUME Inv, Loop
  PROVE  Inv'
<1> USE DEF Inv
<1>1. PICK pressed \in BOOLEAN, key \in Keys :
        /\ phase = "loop"
        /\ cancel' = (cancel \/ pressed)
        /\ LET cleared == pressed /\ ~cancel
               length  == IF cleared THEN 0 ELSE draft
               armed   == ~cleared /\ shift
               after   == IF KeysHeard(cancel') THEN AfterKey(key, length, armed)
                          ELSE <<length, armed>>
           IN draft' = after[1] /\ shift' = after[2]
        /\ healthy' = Marked
        /\ rtc' = IF Marked /\ ~healthy THEN CleanState ELSE rtc
        /\ UNCHANGED <<interop, phase, cause, safe, flawed, watched, up, failed>>
  BY Zenon DEF Loop
<1> DEFINE cleared == pressed /\ ~cancel
           length  == IF cleared THEN 0 ELSE draft
           armed   == ~cleared /\ shift
<1>2. length \in Nat /\ armed \in BOOLEAN
  BY DEF TypeInv
<1>3. AfterKey(key, length, armed) \in Nat \X BOOLEAN
  BY <1>2, KeysType
<1>4. draft' \in Nat /\ shift' \in BOOLEAN
  BY <1>1, <1>2, <1>3
<1>5. cancel' \in BOOLEAN /\ healthy' \in BOOLEAN
  BY <1>1 DEF TypeInv, Marked
<1>6. TypeInv'
  BY <1>1, <1>4, <1>5, Bounds DEF TypeInv, CleanState
<1>7. NothingTyped'
  <2> SUFFICES ASSUME safe \/ cancel' \/ interop PROVE draft' = 0 /\ ~shift'
    BY <1>1 DEF NothingTyped
  <2>1. ~KeysHeard(cancel')
    BY DEF KeysHeard
  <2>2. draft' = length /\ shift' = armed
    BY <1>1, <2>1
  <2>3. length = 0 /\ ~armed
    BY <1>1 DEF NothingTyped, TypeInv
  <2> QED BY <2>2, <2>3
<1>8. AfterGuard'
  BY <1>1 DEF AfterGuard, CleanState, Agree, Marked
<1>9. BeforeGuard' /\ QuietSetup' /\ SafeModeEarned'
  BY <1>1 DEF BeforeGuard, QuietSetup, SafeModeEarned
<1> QED BY <1>6, <1>7, <1>8, <1>9

\* The invariant is inductive.
LEMMA Inductive == Inv /\ [Next]_vars => Inv'
<1> SUFFICES ASSUME Inv, [Next]_vars PROVE Inv'
  OBVIOUS
<1>1. CASE Setup
  BY <1>1, SetupStep
<1>2. CASE Display
  BY <1>2 DEF Display, boot, Inv, TypeInv, BeforeGuard, AfterGuard, QuietSetup,
     SafeModeEarned, NothingTyped
<1>3. CASE Watchdog
  BY <1>3, ResetStep DEF Watchdog
<1>4. CASE Tick
  BY <1>4 DEF Tick, Inv, TypeInv, BeforeGuard, AfterGuard, QuietSetup, SafeModeEarned,
     NothingTyped
<1>5. CASE Loop
  BY <1>5, LoopStep
<1>6. CASE CleanReset
  BY <1>6, ResetStep DEF CleanReset
<1>7. CASE Crash
  BY <1>7, ResetStep DEF Crash
<1>8. CASE UNCHANGED vars
  BY <1>8 DEF vars, boot, Inv, TypeInv, BeforeGuard, AfterGuard, QuietSetup,
     SafeModeEarned, NothingTyped
<1> QED BY <1>1, <1>2, <1>3, <1>4, <1>5, <1>6, <1>7, <1>8 DEF Next

THEOREM Invariance == Spec => []Inv
BY Initially, Inductive, PTL DEF Spec

\* TomatoSentinel.ino and SafeBootGuard.h: a running boot is in safe mode exactly
\* when its crash loop has earned it or its watchdog or a self test failed.
THEOREM SafeModeExact == Spec => []SafeModeEarned
<1>1. Inv => SafeModeEarned
  BY DEF Inv
<1> QED BY Invariance, <1>1, PTL

\* The loop of TomatoSentinel.ino: in safe mode, after a cancellation and in an
\* interoperability image there is nothing typed.
THEOREM NothingTypedEver == Spec => []NothingTyped
<1>1. Inv => NothingTyped
  BY DEF Inv
<1> QED BY Invariance, <1>1, PTL

-----------------------------------------------------------------------------
(* LocalFrame.  The decoders agree and complete exactly the encoded frames *)
(* for any sizes of the header and of the payload.  While neither is done  *)
(* or refused both hold all bytes that were handed over (InStep), and a    *)
(* frame that an encoder wrote is neither refused nor completed before its *)
(* last byte (Underway).                                                   *)

\* The reasons for which a decoder refuses.
Codes ==
  {"invalid", "overflow", "header_incomplete", "length_mismatch", "magic", "version",
   "type", "flags", "sequence", "reserved", "too_large", "hello_empty",
   "cancel_payload", "checksum", "cancelled"}

\* The two reasons a header may be refused for at once.
SameReason(p, d) == p = d \/ (p = "reserved" /\ d = "too_large")

DecoderType ==
  [buffered : Nat, complete : BOOLEAN, terminal : Codes \cup {None}]

FrameTypeInv ==
  /\ wire \in [type : Types, length : Nat, wrong : SUBSET Fields]
  /\ python \in DecoderType /\ device \in DecoderType
  /\ view \in Nat /\ fed \in Nat /\ disturbed \in BOOLEAN

\* What both decoders have of the wire, while they are neither done nor refused.
Open(d) == ~ d.complete /\ d.terminal = None
InStep ==
  /\ python.complete = device.complete
  /\ SameReason(python.terminal, device.terminal)
  /\ python.complete => python.terminal = None
  /\ Open(python) => /\ ~ disturbed
                     /\ python.buffered = fed /\ device.buffered = fed

\* A legal frame is neither refused nor complete before its last byte.
Legal == Encodes(wire) /\ ~ disturbed
Underway ==
  Legal => /\ fed < Size(wire) => Open(python)
           /\ fed = Size(wire) => python.complete

FrameInv ==
  /\ FrameTypeInv /\ InStep /\ Underway
  /\ SameAnswer /\ FramesExact /\ (view > 0 => device.complete) /\ ViewIntact
-----------------------------------------------------------------------------
LEMMA Sizes ==
  /\ HeaderSize \in Nat /\ HeaderSize >= 1 /\ MaxPayload \in Nat /\ MaxFed \in Nat
BY SizesAssumption

LEMMA SizeType ==
  ASSUME FrameTypeInv
  PROVE  /\ Size(wire) \in Nat /\ Size(wire) >= HeaderSize
         /\ MaxFrame \in Nat /\ wire.length \in Nat
         /\ wire.length <= MaxPayload <=> Size(wire) <= MaxFrame
BY Sizes DEF FrameTypeInv, Size, MaxFrame

\* The first fault in an order is the one before which no other is present.
LEMMA FirstIs ==
  ASSUME NEW order, Len(order) \in Nat, NEW faults, NEW i \in 1..Len(order),
         order[i] \in faults, \A j \in 1..Len(order) : j < i => order[j] \notin faults
  PROVE  FirstOf(order, faults) = order[i]
<1> DEFINE at == {j \in 1..Len(order) : order[j] \in faults}
<1>1. i \in at /\ \A y \in at : i <= y
  OBVIOUS
<1>2. \A x \in at : (\A y \in at : x <= y) => x = i
  <2> TAKE x \in at
  <2> HAVE \A y \in at : x <= y
  <2>1. x <= i /\ i <= x /\ x \in Int /\ i \in Int
    BY <1>1
  <2> QED BY <2>1
<1> HIDE DEF at
<1>3. Min(at) = CHOOSE x \in at : \A y \in at : x <= y
  BY DEF Min
<1>4. Min(at) = i
  BY <1>1, <1>2, <1>3, Zenon
<1>5. FirstOf(order, faults) = IF at = {} THEN "ok" ELSE order[Min(at)]
  BY DEF FirstOf, at
<1> QED BY <1>1, <1>4, <1>5

LEMMA NoneIs ==
  ASSUME NEW order, NEW faults, \A j \in 1..Len(order) : order[j] \notin faults
  PROVE  FirstOf(order, faults) = "ok"
BY DEF FirstOf

\* The two orders of the header, and what they find first.
LEMMA Orders ==
  /\ Len(PythonOrder) = 7 /\ Len(DeviceOrder) = 7
  /\ \A i \in 1..5 : PythonOrder[i] = DeviceOrder[i]
  /\ PythonOrder[1] = "magic" /\ PythonOrder[2] = "version" /\ PythonOrder[3] = "type"
  /\ PythonOrder[4] = "flags" /\ PythonOrder[5] = "sequence"
  /\ PythonOrder[6] = "reserved" /\ PythonOrder[7] = "too_large"
  /\ DeviceOrder[6] = "too_large" /\ DeviceOrder[7] = "reserved"
BY DEF PythonOrder, DeviceOrder

HeaderFaults == {"magic", "version", "type", "flags", "sequence", "reserved", "too_large"}

\* Both orders find a fault that is there, the same one but for the last two.
LEMMA FirstOfHeader ==
  ASSUME NEW F
  PROVE  LET p == FirstOf(PythonOrder, F)  d == FirstOf(DeviceOrder, F)
         IN /\ SameReason(p, d)
            /\ p = "ok" <=> F \cap HeaderFaults = {}
            /\ d = "ok" <=> F \cap HeaderFaults = {}
            /\ p \in HeaderFaults \cup {"ok"} /\ d \in HeaderFaults \cup {"ok"}
<1> DEFINE p == FirstOf(PythonOrder, F)
           d == FirstOf(DeviceOrder, F)
           P == PythonOrder
           D == DeviceOrder
<1>p. /\ \A i \in 1..7 : P[i] \in F /\ (\A j \in 1..7 : j < i => P[j] \notin F) => p = P[i]
      /\ (\A j \in 1..7 : P[j] \notin F) => p = "ok"
  <2>1. \A i \in 1..7 : P[i] \in F /\ (\A j \in 1..7 : j < i => P[j] \notin F) => p = P[i]
    BY Orders, FirstIs
  <2> QED BY <2>1, Orders, NoneIs
<1>d. /\ \A i \in 1..7 : D[i] \in F /\ (\A j \in 1..7 : j < i => D[j] \notin F) => d = D[i]
      /\ (\A j \in 1..7 : D[j] \notin F) => d = "ok"
  <2>1. \A i \in 1..7 : D[i] \in F /\ (\A j \in 1..7 : j < i => D[j] \notin F) => d = D[i]
    BY Orders, FirstIs
  <2> QED BY <2>1, Orders, NoneIs
<1> HIDE DEF p, d
<1>1. CASE \E i \in 1..5 : P[i] \in F /\ (\A j \in 1..5 : j < i => P[j] \notin F)
  <2>1. PICK i \in 1..5 : P[i] \in F /\ (\A j \in 1..5 : j < i => P[j] \notin F)
    BY <1>1
  <2>2. p = P[i]
    BY <1>p, <2>1
  <2>3. d = P[i]
    BY <1>d, <2>1, Orders
  <2>4. P[i] \in HeaderFaults \cap F /\ P[i] # "ok"
    BY <2>1, Orders DEF HeaderFaults
  <2> QED BY <2>2, <2>3, <2>4 DEF SameReason, p, d
<1>2. CASE \A i \in 1..5 : P[i] \notin F
  <2>1. /\ "reserved" \in F => p = "reserved"
        /\ "reserved" \notin F /\ "too_large" \in F => p = "too_large"
        /\ "reserved" \notin F /\ "too_large" \notin F => p = "ok"
    BY <1>p, <1>2, Orders
  <2>2. /\ "too_large" \in F => d = "too_large"
        /\ "too_large" \notin F /\ "reserved" \in F => d = "reserved"
        /\ "reserved" \notin F /\ "too_large" \notin F => d = "ok"
    BY <1>d, <1>2, Orders
  <2>3. F \cap HeaderFaults = F \cap {"reserved", "too_large"}
    BY <1>2, Orders DEF HeaderFaults
  <2> QED BY <2>1, <2>2, <2>3 DEF SameReason, p, d, HeaderFaults
<1>3. (\E i \in 1..5 : P[i] \in F) =>
        \E i \in 1..5 : P[i] \in F /\ (\A j \in 1..5 : j < i => P[j] \notin F)
  OBVIOUS
<1> QED BY <1>1, <1>2, <1>3

\* The faults that are looked for once a frame has its length.
LateOrder  == <<"hello_empty", "cancel_payload", "checksum">>
LateFaults == {"hello_empty", "cancel_payload", "checksum"}

LEMMA FirstOfLate ==
  ASSUME NEW F
  PROVE  LET v == FirstOf(LateOrder, F)
         IN v \in LateFaults \cup {"ok"} /\ (v = "ok" <=> F \cap LateFaults = {})
<1> DEFINE v == FirstOf(LateOrder, F)
           L == LateOrder
<1>1. Len(L) = 3 /\ L[1] = "hello_empty" /\ L[2] = "cancel_payload" /\ L[3] = "checksum"
  BY DEF LateOrder
<1>2. \A i \in 1..3 : L[i] \in F /\ (\A j \in 1..3 : j < i => L[j] \notin F) => v = L[i]
  BY <1>1, FirstIs
<1>3. (\A j \in 1..3 : L[j] \notin F) => v = "ok"
  BY <1>1, NoneIs
<1> HIDE DEF v, L
<1> QED BY <1>1, <1>2, <1>3 DEF v, LateFaults

\* All that can be wrong with the wire.
Faults == wire.wrong \cup ShapeFaults(wire.type, wire.length)

LEMMA FaultsAre ==
  ASSUME FrameTypeInv
  PROVE  /\ Encodes(wire) <=> Faults = {}
         /\ Faults \subseteq HeaderFaults \cup LateFaults
         /\ Faults = {} => Size(wire) <= MaxFrame
<1>1. wire = [type |-> wire.type, length |-> wire.length, wrong |-> wire.wrong]
  BY DEF FrameTypeInv
<1>2. Encodes(wire) <=> ShapeFaults(wire.type, wire.length) = {} /\ wire.wrong = {}
  BY <1>1 DEF Encodes, Encodable, Encoded
<1>3. "too_large" \notin Faults => wire.length <= MaxPayload
  BY SizeType, Sizes DEF Faults, ShapeFaults, FrameTypeInv
<1>4. ShapeFaults(wire.type, wire.length) \subseteq {"too_large", "hello_empty", "cancel_payload"}
      /\ wire.wrong \subseteq Fields
  BY DEF ShapeFaults, FrameTypeInv
<1>5. Faults \subseteq HeaderFaults \cup LateFaults
  BY <1>4 DEF Faults, HeaderFaults, LateFaults, Fields
<1>6. Encodes(wire) <=> Faults = {}
  BY <1>2 DEF Faults
<1> QED BY <1>3, <1>5, <1>6, SizeType

\* What either decoder makes of n bytes: never opposite answers, a frame only if
\* it is whole and an encoder's, and always a frame if it is.
JudgedAlike(n) ==
  LET p == Judge(PythonOrder, n)  d == Judge(DeviceOrder, n)
  IN /\ SameReason(p, d)
     /\ p \in Codes \cup {"ok", "need_more"} /\ d \in Codes \cup {"ok", "need_more"}
     /\ p = "ok" => Encodes(wire) /\ n = Size(wire)
     /\ Encodes(wire) /\ n < Size(wire) => p = "need_more"
     /\ Encodes(wire) /\ n = Size(wire) => p = "ok"

LEMMA Judged ==
  ASSUME FrameTypeInv, NEW n \in Nat
  PROVE  JudgedAlike(n)
<1> DEFINE p == FirstOf(PythonOrder, Faults)
           d == FirstOf(DeviceOrder, Faults)
           v == FirstOf(LateOrder, Faults)
           size == Size(wire)
<1>1. /\ SameReason(p, d)
      /\ p = "ok" <=> Faults \cap HeaderFaults = {}
      /\ d = "ok" <=> Faults \cap HeaderFaults = {}
      /\ p \in HeaderFaults \cup {"ok"} /\ d \in HeaderFaults \cup {"ok"}
  BY FirstOfHeader
<1>2. v \in LateFaults \cup {"ok"} /\ (v = "ok" <=> Faults \cap LateFaults = {})
  BY FirstOfLate
<1>3. size \in Nat /\ size >= HeaderSize /\ HeaderSize \in Nat
  BY SizeType, Sizes
<1>4. /\ Header(PythonOrder, n) = IF n < HeaderSize THEN "header_incomplete" ELSE p
      /\ Header(DeviceOrder, n) = IF n < HeaderSize THEN "header_incomplete" ELSE d
  BY DEF Header, Faults
<1>5. Judge(PythonOrder, n) = IF n < HeaderSize \/ (p = "ok" /\ n < size) THEN "need_more"
                              ELSE IF p # "ok" THEN p
                              ELSE IF n # size THEN "length_mismatch" ELSE v
  BY <1>3, <1>4 DEF Judge, Decode, Faults, LateOrder
<1>6. Judge(DeviceOrder, n) = IF n < HeaderSize \/ (d = "ok" /\ n < size) THEN "need_more"
                              ELSE IF d # "ok" THEN d
                              ELSE IF n # size THEN "length_mismatch" ELSE v
  BY <1>3, <1>4 DEF Judge, Decode, Faults, LateOrder
<1>7. /\ Encodes(wire) <=> Faults = {}
      /\ Faults \subseteq HeaderFaults \cup LateFaults
  BY FaultsAre
<1>8. HeaderFaults \cup LateFaults \cup {"length_mismatch"} \subseteq Codes
      /\ "ok" \notin HeaderFaults \cup LateFaults
      /\ "need_more" \notin HeaderFaults \cup LateFaults
  BY DEF HeaderFaults, LateFaults, Codes
<1> HIDE DEF p, d, v, size
<1> DEFINE jp == Judge(PythonOrder, n)
           jd == Judge(DeviceOrder, n)
<1> HIDE DEF jp, jd
<1>9. SameReason(jp, jd)
  BY <1>1, <1>5, <1>6 DEF SameReason, jp, jd
<1>10. jp \in Codes \cup {"ok", "need_more"} /\ jd \in Codes \cup {"ok", "need_more"}
  BY <1>1, <1>2, <1>5, <1>6, <1>8 DEF jp, jd
<1>11. jp = "ok" => Encodes(wire) /\ n = size
  BY <1>1, <1>2, <1>3, <1>5, <1>7, <1>8 DEF jp
<1>12. /\ Encodes(wire) /\ n < size => jp = "need_more"
       /\ Encodes(wire) /\ n = size => jp = "ok"
  BY <1>1, <1>2, <1>3, <1>5, <1>7, <1>8 DEF jp
<1> QED BY <1>9, <1>10, <1>11, <1>12 DEF JudgedAlike, jp, jd, size
-----------------------------------------------------------------------------
\* What a chunk does to a decoder that is done or refused: nothing.
LEMMA FeedEnded ==
  ASSUME FrameTypeInv, NEW chunk
  PROVE  /\ ~ Open(python) => FeedPython(python, chunk)
                = <<python, IF python.terminal # None THEN python.terminal ELSE "already_complete">>
         /\ ~ Open(device) => FeedDevice(device, chunk)
                = <<device, IF device.terminal # None THEN device.terminal ELSE "already_complete">>
<1>1. CASE python.terminal # None /\ device.terminal # None
  BY <1>1, Zenon DEF FeedPython, FeedDevice
<1>2. CASE python.terminal # None /\ device.terminal = None
  BY <1>2, Zenon DEF FeedPython, FeedDevice, Open
<1>3. CASE python.terminal = None /\ device.terminal # None
  BY <1>3, Zenon DEF FeedPython, FeedDevice, Open
<1>4. CASE python.terminal = None /\ device.terminal = None
  BY <1>4, Zenon DEF FeedPython, FeedDevice, Open
<1> QED BY <1>1, <1>2, <1>3, <1>4

\* The answer to a chunk, with n bytes when it is added.
Verdict(order, room, chunk, n) ==
  IF chunk = Malformed THEN "invalid" ELSE IF ~ room THEN "overflow" ELSE Judge(order, n)

After(verdict, n, done) ==
  CASE verdict = "need_more" -> Holding(n)
    [] verdict = "ok"        -> done
    [] OTHER                 -> Rejected(verdict)

\* What it does to one that is neither.
LEMMA FeedOpen ==
  ASSUME FrameTypeInv, Open(python), Open(device), NEW chunk
  PROVE  LET n == python.buffered + chunk
             m == device.buffered + chunk
             p == Verdict(PythonOrder, PythonRoom(python, chunk), chunk, n)
             d == Verdict(DeviceOrder, DeviceRoom(device, chunk), chunk, m)
         IN /\ FeedPython(python, chunk) = <<After(p, n, PythonDone(n)), p>>
            /\ FeedDevice(device, chunk) = <<After(d, m, DeviceDone(m)), d>>
<1>1. /\ python.terminal = None /\ python.complete = FALSE
      /\ device.terminal = None /\ device.complete = FALSE
  BY DEF Open, FrameTypeInv
<1> QED BY <1>1, Zenon DEF FeedPython, FeedDevice, Verdict, After

LEMMA AfterIs ==
  ASSUME NEW v \in Codes \cup {"ok", "need_more"}, NEW n \in Nat, NEW done
  PROVE  /\ v = "need_more" => After(v, n, done) =
                  [buffered |-> n, complete |-> FALSE, terminal |-> None]
         /\ v = "ok" => After(v, n, done) = done
         /\ v \in Codes => After(v, n, done) =
                  [buffered |-> 0, complete |-> FALSE, terminal |-> v]
<1>1. v \in Codes => v # "ok" /\ v # "need_more"
  BY DEF Codes
<1>2. CASE v = "need_more"
  <2>1. After(v, n, done) = Holding(n)
    BY <1>2, Zenon DEF After
  <2> QED BY <2>1, <1>1, <1>2 DEF Holding, Fresh
<1>3. CASE v = "ok"
  <2>1. v # "need_more"
    BY <1>3
  <2>2. After(v, n, done) = done
    BY <1>3, <2>1, Zenon DEF After
  <2> QED BY <2>1, <2>2, <1>1, <1>3
<1>4. CASE v \in Codes
  <2>1. After(v, n, done) = Rejected(v)
    BY <1>1, <1>4, Zenon DEF After
  <2> QED BY <2>1, <1>1, <1>4 DEF Rejected, Fresh
<1> QED BY <1>2, <1>3, <1>4

LEMMA DoneIs ==
  ASSUME NEW n \in Nat
  PROVE  /\ PythonDone(n) = [buffered |-> 0, complete |-> TRUE, terminal |-> None]
         /\ DeviceDone(n) = [buffered |-> n, complete |-> TRUE, terminal |-> None]
<1>1. \A c : [Fresh EXCEPT !.complete = c] = [buffered |-> 0, complete |-> c, terminal |-> None]
  BY DEF Fresh
<1>2. \A c : [Fresh EXCEPT !.complete = c, !.buffered = n]
               = [buffered |-> n, complete |-> c, terminal |-> None]
  <2> TAKE c
  <2>1. \A x : x = [buffered |-> 0, complete |-> c, terminal |-> None]
                 => [x EXCEPT !.buffered = n] = [buffered |-> n, complete |-> c, terminal |-> None]
    OBVIOUS
  <2>2. [[Fresh EXCEPT !.complete = c] EXCEPT !.buffered = n]
          = [buffered |-> n, complete |-> c, terminal |-> None]
    BY <1>1, <2>1
  <2> QED BY <2>2, Zenon
<1> QED BY <1>1, <1>2, Zenon DEF PythonDone, DeviceDone

\* A chunk handed to decoders that wait for more.
FedAlike(chunk, p, d) ==
  /\ p[2] \in Codes \cup {"ok", "need_more"} /\ d[2] \in Codes \cup {"ok", "need_more"}
  /\ SameReason(p[2], d[2])
  /\ p[1] \in DecoderType /\ d[1] \in DecoderType
  /\ (p[1].complete <=> p[2] = "ok") /\ (d[1].complete <=> d[2] = "ok")
  /\ p[1].terminal = IF p[2] \in Codes THEN p[2] ELSE None
  /\ d[1].terminal = IF d[2] \in Codes THEN d[2] ELSE None
  /\ p[2] = "need_more" => chunk \in Nat /\ p[1].buffered = fed + chunk
                           /\ d[1].buffered = fed + chunk
  /\ d[2] = "ok" => chunk \in Nat /\ Encodes(wire) /\ fed + chunk = Size(wire)
                    /\ d[1].buffered = Size(wire)
  /\ chunk \in Nat /\ Encodes(wire) /\ fed + chunk < Size(wire) => p[2] = "need_more"
  /\ chunk \in Nat /\ Encodes(wire) /\ fed + chunk = Size(wire) => p[2] = "ok"

LEMMA FedOpen ==
  ASSUME FrameInv, Open(python), NEW chunk \in Nat \cup {Malformed}
  PROVE  FedAlike(chunk, FeedPython(python, chunk), FeedDevice(device, chunk))
<1> USE DEF FrameInv
<1>1. Open(device) /\ python.buffered = fed /\ device.buffered = fed /\ fed \in Nat
  BY DEF InStep, SameReason, Open, None, FrameTypeInv
<1> DEFINE n == fed + chunk
           vp == Verdict(PythonOrder, PythonRoom(python, chunk), chunk, n)
           vd == Verdict(DeviceOrder, DeviceRoom(device, chunk), chunk, n)
           p == After(vp, n, PythonDone(n))
           d == After(vd, n, DeviceDone(n))
<1>2. FeedPython(python, chunk) = <<p, vp>> /\ FeedDevice(device, chunk) = <<d, vd>>
  BY <1>1, FeedOpen
<1>3. CASE chunk = Malformed
  <2>1. vp = "invalid" /\ vd = "invalid" /\ chunk \notin Nat
    BY <1>3 DEF Verdict, Malformed
  <2>2. /\ p = Rejected("invalid") /\ d = Rejected("invalid")
    <3> HIDE DEF vp, vd
    <3>1. vp # "ok" /\ vp # "need_more"
      BY <2>1
    <3> QED BY <2>1, <3>1, Zenon DEF After
  <2> HIDE DEF vp, vd, p, d
  <2>3. /\ p \in DecoderType /\ d \in DecoderType
        /\ ~ p.complete /\ ~ d.complete
        /\ p.terminal = "invalid" /\ d.terminal = "invalid"
        /\ p.complete \in BOOLEAN /\ d.complete \in BOOLEAN
    BY <2>2 DEF Rejected, Fresh, DecoderType, Codes
  <2>4. FedAlike(chunk, <<p, vp>>, <<d, vd>>)
    BY <2>1, <2>3 DEF FedAlike, Codes, SameReason
  <2> QED BY <1>2, <2>4 DEF p, d, vp, vd
<1>4. CASE chunk \in Nat
  <2>1. n \in Nat /\ MaxFrame \in Nat /\ Size(wire) \in Nat /\ chunk # Malformed
    BY <1>1, <1>4, SizeType DEF Malformed
  <2>2. /\ PythonRoom(python, chunk) <=> n <= MaxFrame
        /\ DeviceRoom(device, chunk) <=> n <= MaxFrame
    BY <1>1, <1>4, <2>1 DEF PythonRoom, DeviceRoom
  <2>3. /\ vp = IF n <= MaxFrame THEN Judge(PythonOrder, n) ELSE "overflow"
        /\ vd = IF n <= MaxFrame THEN Judge(DeviceOrder, n) ELSE "overflow"
    BY <2>1, <2>2 DEF Verdict
  <2>4. JudgedAlike(n)
    BY <2>1, Judged
  <2>5. Encodes(wire) => Size(wire) <= MaxFrame
    BY FaultsAre
  <2> HIDE DEF vp, vd
  <2>6. /\ vp \in Codes \cup {"ok", "need_more"} /\ vd \in Codes \cup {"ok", "need_more"}
        /\ SameReason(vp, vd)
    BY <2>3, <2>4 DEF JudgedAlike, SameReason, Codes
  <2>7. /\ vd = "ok" => vp = "ok"
        /\ vp = "ok" => Encodes(wire) /\ n = Size(wire)
    BY <2>3, <2>4, <2>6 DEF JudgedAlike, SameReason
  <2>8. /\ Encodes(wire) /\ n < Size(wire) => vp = "need_more"
        /\ Encodes(wire) /\ n = Size(wire) => vp = "ok"
    BY <2>1, <2>3, <2>4, <2>5 DEF JudgedAlike
  <2>9. /\ vp = "need_more" => p = [buffered |-> n, complete |-> FALSE, terminal |-> None]
        /\ vd = "need_more" => d = [buffered |-> n, complete |-> FALSE, terminal |-> None]
        /\ vp = "ok" => p = [buffered |-> 0, complete |-> TRUE, terminal |-> None]
        /\ vd = "ok" => d = [buffered |-> n, complete |-> TRUE, terminal |-> None]
        /\ vp \in Codes => p = [buffered |-> 0, complete |-> FALSE, terminal |-> vp]
        /\ vd \in Codes => d = [buffered |-> 0, complete |-> FALSE, terminal |-> vd]
    <3> HIDE DEF n
    <3> QED BY <2>1, <2>6, AfterIs, DoneIs DEF p, d
  <2> HIDE DEF p, d
  <2>10. Codes \cap {"ok", "need_more"} = {}
    BY DEF Codes
  <2>11. /\ p \in DecoderType /\ d \in DecoderType
         /\ (p.complete <=> vp = "ok") /\ (d.complete <=> vd = "ok")
         /\ p.terminal = IF vp \in Codes THEN vp ELSE None
         /\ d.terminal = IF vd \in Codes THEN vd ELSE None
    <3> HIDE DEF n
    <3>1. /\ vp = "ok" \/ vp = "need_more" \/ vp \in Codes
          /\ vd = "ok" \/ vd = "need_more" \/ vd \in Codes
      BY <2>6
    <3>2. p \in DecoderType /\ d \in DecoderType
      <4> DEFINE D(b, c, w) == [buffered |-> b, complete |-> c, terminal |-> w]
      <4>1. \A b \in Nat, c \in BOOLEAN, w \in Codes \cup {None} : D(b, c, w) \in DecoderType
        BY DEF DecoderType
      <4>2. /\ p \in {D(n, FALSE, None), D(0, TRUE, None)} \cup {D(0, FALSE, w) : w \in Codes}
            /\ d \in {D(n, FALSE, None), D(n, TRUE, None)} \cup {D(0, FALSE, w) : w \in Codes}
        BY <2>9, <3>1
      <4> HIDE DEF D
      <4> QED BY <2>1, <4>1, <4>2
    <3>3. (p.complete <=> vp = "ok") /\ p.terminal = IF vp \in Codes THEN vp ELSE None
      BY <2>9, <2>10, <3>1
    <3>4. (d.complete <=> vd = "ok") /\ d.terminal = IF vd \in Codes THEN vd ELSE None
      BY <2>9, <2>10, <3>1
    <3> QED BY <3>2, <3>3, <3>4
  <2>12. vp = "need_more" => vd = "need_more"
    BY <2>6 DEF SameReason
  <2>13. /\ vp = "need_more" => p.buffered = n /\ d.buffered = n
         /\ vd = "ok" => d.buffered = n
    BY <2>9, <2>12
  <2>14. FedAlike(chunk, <<p, vp>>, <<d, vd>>)
    BY <1>4, <2>6, <2>7, <2>8, <2>11, <2>13 DEF FedAlike
  <2> QED BY <1>2, <2>14 DEF p, d, vp, vd
<1> QED BY <1>3, <1>4

-----------------------------------------------------------------------------
\* What a call hands over, and what that means for the counts.
Handed(chunk) ==
  \/ chunk \in Nat /\ fed' = fed + chunk /\ disturbed' = disturbed
  \/ chunk = Malformed /\ fed' = fed /\ disturbed' = TRUE

LEMMA HandedCounts ==
  ASSUME FrameTypeInv, NEW chunk, Handed(chunk)
  PROVE  /\ fed' \in Nat /\ fed' >= fed /\ (disturbed => disturbed') /\ disturbed' \in BOOLEAN
         /\ (chunk \in Nat => fed' = fed + chunk /\ disturbed' = disturbed)
         /\ (chunk \notin Nat => disturbed')
<1>1. fed \in Nat /\ disturbed \in BOOLEAN
  BY DEF FrameTypeInv
<1>2. CASE chunk \in Nat /\ fed' = fed + chunk /\ disturbed' = disturbed
  BY <1>1, <1>2
<1>3. CASE chunk = Malformed /\ fed' = fed /\ disturbed' = TRUE
  <2>1. chunk \notin Nat
    BY <1>3 DEF Malformed
  <2>2. fed' \in Nat /\ fed' >= fed
    BY <1>1, <1>3
  <2>3. disturbed' \in BOOLEAN /\ (disturbed => disturbed') /\ (chunk \notin Nat => disturbed')
    BY <1>3
  <2>4. chunk \in Nat => fed' = fed + chunk /\ disturbed' = disturbed
    BY <2>1
  <2> QED BY <2>2, <2>3, <2>4
<1> QED BY <1>2, <1>3 DEF Handed

LEMMA StepEnded ==
  ASSUME FrameInv, ~ Open(python), NEW chunk, Feed(chunk), Handed(chunk)
  PROVE  FrameInv'
<1> USE DEF FrameInv
<1>1. ~ Open(device) /\ python.terminal \in Codes \cup {None} /\ device.terminal \in Codes \cup {None}
      /\ (python.terminal = None <=> device.terminal = None)
      /\ fed \in Nat
  BY DEF InStep, SameReason, Open, None, FrameTypeInv, DecoderType
<1> DEFINE p == IF python.terminal # None THEN python.terminal ELSE "already_complete"
           d == IF device.terminal # None THEN device.terminal ELSE "already_complete"
<1>2. FeedPython(python, chunk) = <<python, p>> /\ FeedDevice(device, chunk) = <<device, d>>
  BY <1>1, FeedEnded
<1>3. d # "ok" /\ p # "ok" /\ SameReason(p, d)
  BY <1>1 DEF Codes, None, SameReason, InStep
<1> HIDE DEF p, d
<1>4. /\ python' = python /\ device' = device /\ wire' = wire /\ view' = view
      /\ said' = [python |-> p, device |-> d]
  BY <1>2, <1>3 DEF Feed
<1>5. fed' \in Nat /\ fed' >= fed /\ (disturbed => disturbed') /\ disturbed' \in BOOLEAN
  BY HandedCounts
<1>6. Size(wire) \in Nat
  BY SizeType
<1>7. FrameTypeInv'
  BY <1>4, <1>5 DEF FrameTypeInv
<1>8. InStep'
  BY <1>4 DEF InStep, Open
<1>9. Underway'
  <2>1. Legal' => Legal
    BY <1>4, <1>5 DEF Legal, Encodes, FrameTypeInv
  <2> QED BY <1>4, <1>5, <1>6, <1>1, <2>1 DEF Underway, Open, Size
<1>10. SameAnswer'
  BY <1>3, <1>4 DEF SameAnswer, SameReason
<1>11. FramesExact'
  <2>1. said'.python # "ok" /\ said'.device # "ok"
    BY <1>3, <1>4
  <2>2. Legal' /\ fed' = Size(wire') => python'.complete /\ device'.complete
    BY <1>8, <1>9, <1>4, <1>5, <1>6 DEF Underway, InStep
  <2> QED BY <2>1, <2>2 DEF FramesExact, Legal
<1>12. (view > 0 => device.complete)' /\ ViewIntact'
  BY <1>4 DEF ViewIntact
<1> QED BY <1>7, <1>8, <1>9, <1>10, <1>11, <1>12

LEMMA StepOpen ==
  ASSUME FrameInv, Open(python), NEW chunk, Feed(chunk), Handed(chunk)
  PROVE  FrameInv'
<1> USE DEF FrameInv
<1>1. chunk \in Nat \cup {Malformed} /\ fed \in Nat /\ view \in Nat
  BY DEF Handed, FrameTypeInv
<1> DEFINE p == FeedPython(python, chunk)
           d == FeedDevice(device, chunk)
<1>2. FedAlike(chunk, p, d)
  BY <1>1, FedOpen
<1> HIDE DEF p, d
<1>3. /\ python' = p[1] /\ device' = d[1] /\ wire' = wire
      /\ said' = [python |-> p[2], device |-> d[2]]
      /\ view' = IF d[2] = "ok" THEN Size(wire) ELSE view
  BY DEF Feed, p, d
<1>4. fed' \in Nat /\ fed' >= fed /\ (disturbed => disturbed') /\ disturbed' \in BOOLEAN
      /\ (chunk \in Nat => fed' = fed + chunk /\ disturbed' = disturbed)
      /\ (chunk \notin Nat => disturbed')
  BY HandedCounts
<1>5. Size(wire) \in Nat /\ Size(wire') = Size(wire)
  BY <1>3, SizeType
<1>6. view = 0 /\ ~ disturbed
  BY <1>1 DEF InStep, Open
<1>7. Codes \cap {"ok", "need_more"} = {} /\ None \notin Codes
  BY DEF Codes, None
<1>8. (p[2] = "ok" <=> d[2] = "ok") /\ (p[2] = "need_more" <=> d[2] = "need_more")
  BY <1>2 DEF FedAlike, SameReason
<1>9. FrameTypeInv'
  BY <1>2, <1>3, <1>4, <1>5 DEF FrameTypeInv, FedAlike
<1>10. InStep'
  <2>1. python'.complete = device'.complete
    <3>1. python'.complete \in BOOLEAN /\ device'.complete \in BOOLEAN
      BY <1>9 DEF FrameTypeInv, DecoderType
    <3>2. (python'.complete <=> p[2] = "ok") /\ (device'.complete <=> d[2] = "ok")
      BY <1>2, <1>3 DEF FedAlike
    <3> QED BY <3>1, <3>2, <1>8
  <2>2. SameReason(python'.terminal, device'.terminal)
    BY <1>2, <1>3, <1>7, <1>8 DEF FedAlike, SameReason
  <2>3. python'.complete => python'.terminal = None
    BY <1>2, <1>3, <1>7 DEF FedAlike
  <2>4. Open(python)' => p[2] = "need_more"
    BY <1>2, <1>3, <1>7 DEF FedAlike, Open
  <2>5. Open(python)' => /\ ~ disturbed'
                         /\ python'.buffered = fed' /\ device'.buffered = fed'
    BY <2>4, <1>2, <1>3, <1>4, <1>6 DEF FedAlike
  <2> QED BY <2>1, <2>2, <2>3, <2>5 DEF InStep
<1>11. Underway'
  <2> SUFFICES ASSUME Legal'
               PROVE  /\ fed' < Size(wire) => Open(python)'
                      /\ fed' = Size(wire) => python'.complete
    BY <1>5 DEF Underway
  <2>1. Encodes(wire) /\ chunk \in Nat /\ fed' = fed + chunk
    BY <1>3, <1>4 DEF Legal, Encodes
  <2>2. /\ fed' < Size(wire) => p[2] = "need_more"
        /\ fed' = Size(wire) => p[2] = "ok"
    BY <1>2, <2>1 DEF FedAlike
  <2>3. /\ p[2] = "need_more" => ~ python'.complete /\ python'.terminal = None
        /\ p[2] = "ok" => python'.complete
    BY <1>2, <1>3, <1>7 DEF FedAlike
  <2> QED BY <2>2, <2>3 DEF Open
<1>12. SameAnswer'
  BY <1>2, <1>3 DEF SameAnswer, SameReason, FedAlike
<1>13. FramesExact'
  <2>1. d[2] = "ok" => Encodes(wire)' /\ fed' = Size(wire)' /\ ~ disturbed'
    BY <1>2, <1>3, <1>4, <1>5, <1>6 DEF FedAlike, Encodes
  <2>2. said'.python = p[2] /\ said'.device = d[2]
    BY <1>3
  <2>3. Legal' /\ fed' = Size(wire)' => python'.complete /\ device'.complete
    BY <1>10, <1>11, <1>4, <1>5 DEF Underway, InStep
  <2> QED BY <2>1, <2>2, <2>3, <1>8 DEF FramesExact, Legal
<1>14. (view > 0 => device.complete)' /\ ViewIntact'
  BY <1>2, <1>3, <1>6 DEF ViewIntact, FedAlike
<1> QED BY <1>9, <1>10, <1>11, <1>12, <1>13, <1>14

LEMMA StepCancel ==
  ASSUME FrameInv, Cancel
  PROVE  FrameInv'
<1> USE DEF FrameInv
<1>1. /\ python' = Cancelled(python) /\ device' = Cancelled(device)
      /\ wire' = wire /\ fed' = fed /\ view' = 0 /\ disturbed' = TRUE
      /\ said' = [python |-> None, device |-> None]
  BY DEF Cancel
<1>2. /\ python'.complete = python.complete /\ device'.complete = device.complete
      /\ python'.terminal = IF Open(python) THEN "cancelled" ELSE python.terminal
      /\ device'.terminal = IF Open(device) THEN "cancelled" ELSE device.terminal
      /\ python'.buffered = 0 /\ device'.buffered = 0
  BY <1>1 DEF Cancelled, Open
<1>3. Open(python) <=> Open(device)
  BY DEF Open, InStep, SameReason, None
<1>4. FrameTypeInv'
  <2>1. python' = [buffered |-> 0, complete |-> python.complete, terminal |-> python'.terminal]
        /\ device' = [buffered |-> 0, complete |-> device.complete, terminal |-> device'.terminal]
    BY <1>1 DEF Cancelled
  <2>2. python'.terminal \in Codes \cup {None} /\ device'.terminal \in Codes \cup {None}
    BY <1>2 DEF FrameTypeInv, DecoderType, Codes
  <2> QED BY <1>1, <2>1, <2>2 DEF FrameTypeInv, DecoderType
<1>5. InStep'
  <2>1. python'.complete = device'.complete /\ SameReason(python'.terminal, device'.terminal)
    BY <1>2, <1>3 DEF InStep, SameReason
  <2>2. python'.complete => python'.terminal = None
    BY <1>2 DEF InStep, Open
  <2>3. ~ Open(python')
    BY <1>2 DEF Open, None
  <2> QED BY <2>1, <2>2, <2>3 DEF InStep, Open
<1>6. Underway' /\ FramesExact'
  BY <1>1 DEF Underway, Legal, FramesExact, None
<1>7. SameAnswer' /\ (view > 0 => device.complete)' /\ ViewIntact'
  BY <1>1 DEF SameAnswer, ViewIntact
<1> QED BY <1>4, <1>5, <1>6, <1>7

LEMMA FrameInitially == FrameInit => FrameInv
<1> SUFFICES ASSUME FrameInit PROVE FrameInv
  OBVIOUS
<1>1. /\ python = [buffered |-> 0, complete |-> FALSE, terminal |-> None] /\ device = python
      /\ said = [python |-> None, device |-> None]
      /\ view = 0 /\ fed = 0 /\ disturbed = FALSE
  BY DEF FrameInit, Fresh
<1>2. wire \in [type : Types, length : Nat, wrong : SUBSET Fields]
  BY Sizes DEF FrameInit
<1>3. FrameTypeInv
  BY <1>1, <1>2 DEF FrameTypeInv, DecoderType
<1>4. Size(wire) \in Nat /\ Size(wire) >= 1
  BY <1>3, SizeType, Sizes
<1>5. InStep /\ Underway /\ Open(python)
  BY <1>1, <1>4 DEF InStep, Underway, Open, SameReason, Legal
<1>6. FramesExact
  BY <1>1, <1>4 DEF FramesExact, None
<1> QED BY <1>1, <1>3, <1>5, <1>6 DEF FrameInv, SameAnswer, ViewIntact

LEMMA FrameStep == FrameInv /\ [FrameNext]_frameVars => FrameInv'
<1> SUFFICES ASSUME FrameInv, [FrameNext]_frameVars PROVE FrameInv'
  OBVIOUS
<1>1. CASE FeedBytes
  <2>1. PICK n \in 0..(MaxFed - fed) : Feed(n) /\ fed' = fed + n /\ UNCHANGED disturbed
    BY <1>1 DEF FeedBytes
  <2>2. n \in Nat
    BY Sizes DEF FrameInv, FrameTypeInv
  <2>3. Handed(n)
    BY <2>1, <2>2 DEF Handed
  <2> QED BY <2>1, <2>3, StepEnded, StepOpen
<1>2. CASE FeedMalformed
  <2>1. Feed(Malformed) /\ Handed(Malformed)
    BY <1>2 DEF FeedMalformed, Handed
  <2> QED BY <2>1, StepEnded, StepOpen
<1>3. CASE Cancel
  BY <1>3, StepCancel
<1>4. CASE UNCHANGED frameVars
  BY <1>4 DEF frameVars, FrameInv, FrameTypeInv, InStep, Underway, Legal, SameAnswer, FramesExact,
              ViewIntact, Open, Size, Encodes, Encodable, ShapeFaults, Encoded
<1> QED BY <1>1, <1>2, <1>3, <1>4 DEF FrameNext

LEMMA FrameInvariant == FrameSpec => []FrameInv
BY FrameInitially, FrameStep, PTL DEF FrameSpec
-----------------------------------------------------------------------------
\* Fed alike, the two decoders give the same answer to every call, but for the
\* two reasons that they look for in a different order.
THEOREM SameAnswers == FrameSpec => []SameAnswer
<1>1. FrameInv => SameAnswer
  BY DEF FrameInv
<1> QED BY <1>1, FrameInvariant, PTL

\* A decoder completes exactly the frames that an encoder writes, of any legal
\* length and cut in any way.
THEOREM ExactFrames == FrameSpec => []FramesExact
<1>1. FrameInv => FramesExact
  BY DEF FrameInv
<1> QED BY <1>1, FrameInvariant, PTL

\* A view of a completed frame keeps its bytes until the caller cancels.
THEOREM ViewsIntact == FrameSpec => []ViewIntact
<1>1. FrameInv => ViewIntact
  BY DEF FrameInv
<1> QED BY <1>1, FrameInvariant, PTL
=============================================================================
