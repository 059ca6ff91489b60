------------------------------- MODULE LocalFrame -------------------------------
(***************************************************************************)
(* The frames of local pairing and their two incremental decoders, the     *)
(* Python one (local_pairing_frame.py) and the firmware one                *)
(* (TomatoLinkLocalFrame.cpp).  The same calls are made to both.           *)
(*                                                                         *)
(* What comes down the wire is fixed at the start: a header and whatever   *)
(* follows it.  The header is its type, its declared payload length and    *)
(* the set of its fields that hold a wrong value.  A decoder holds a       *)
(* prefix of the wire, so its buffer is a number of bytes.                 *)
(***************************************************************************)
EXTENDS Integers, FiniteSetsExt, Sequences

CONSTANTS
  HeaderSize,   (* bytes of the header: 20                                  *)
  MaxPayload,   (* bytes of the longest payload: 1024                       *)
  MaxWrong,     (* bound of the header fields that are wrong in one frame   *)
  MaxFed        (* bound of the bytes handed over in a finite run           *)

ASSUME SizesAssumption ==
  /\ HeaderSize \in Nat \ {0}
  /\ {MaxPayload, MaxWrong, MaxFed} \subseteq Nat

VARIABLES
  wire,      (* what is sent: [type, length, wrong]                         *)
  python,    (* the Python decoder: [buffered, complete, terminal]          *)
  device,    (* the firmware decoder                                        *)
  said,      (* the last answers: [python, device]                          *)
  view,      (* bytes of the firmware's buffer the caller has a view of     *)
  fed,       (* bytes handed over so far                                    *)
  disturbed  (* a call was malformed, or the ceremony was cancelled         *)

frameVars == <<wire, python, device, said, view, fed, disturbed>>

Types    == {"hello", "cancel"}
Fields   == {"magic", "version", "type", "flags", "sequence", "reserved", "checksum"}
None     == "none"
MaxFrame == HeaderSize + MaxPayload
-----------------------------------------------------------------------------
(* The format.                                                             *)

\* validateShape: hello carries something, cancel nothing.
ShapeFaults(type, length) ==
  {f \in {"too_large", "hello_empty", "cancel_payload"} :
     \/ f = "too_large" /\ length > MaxPayload
     \/ f = "hello_empty" /\ type = "hello" /\ length = 0
     \/ f = "cancel_payload" /\ type = "cancel" /\ length > 0}

\* encode_local_pairing_frame: _validate_frame first, then every field as it
\* must be.  A sequence of zero is the caller's fault and gives no frame.
Encodable(type, sequence, length) ==
  sequence > 0 /\ ShapeFaults(type, length) = {}

\* encode of the firmware: the wire it writes.
Encoded(type, length) == [type |-> type, length |-> length, wrong |-> {}]

\* The wires that an encoder writes.
Encodes(w) ==
  Encodable(w.type, 1, w.length) /\ w = Encoded(w.type, w.length)

Size(w) == HeaderSize + w.length

\* The first in a list of faults that is present.
FirstOf(order, faults) ==
  LET at == {i \in 1..Len(order) : order[i] \in faults}
  IN IF at = {} THEN "ok" ELSE order[Min(at)]

\* The order in which the header is inspected: _decode_header and
\* inspectHeader look at the last two the other way round.
PythonOrder ==
  <<"magic", "version", "type", "flags", "sequence", "reserved", "too_large">>
DeviceOrder ==
  <<"magic", "version", "type", "flags", "sequence", "too_large", "reserved">>

Header(order, n) ==
  IF n < HeaderSize THEN "header_incomplete"
  ELSE FirstOf(order, wire.wrong \cup ShapeFaults(wire.type, wire.length))

\* decode: header, length, shape and last the checksum, of the first n bytes.
Decode(order, n) ==
  IF Header(order, n) # "ok" THEN Header(order, n)
  ELSE IF n # Size(wire) THEN "length_mismatch"
  ELSE FirstOf(<<"hello_empty", "cancel_payload", "checksum">>,
               wire.wrong \cup ShapeFaults(wire.type, wire.length))
-----------------------------------------------------------------------------
(* The decoders.  A chunk is a number of bytes, or Malformed: an argument  *)
(* that is no bytes object, a null pointer or a missing view.              *)

Malformed == -1

Fresh           == [buffered |-> 0, complete |-> FALSE, terminal |-> None]
Rejected(why)   == [Fresh EXCEPT !.terminal = why]
Holding(n)      == [Fresh EXCEPT !.buffered = n]

\* Completion: the Python decoder copies the frame out and erases its buffer,
\* the firmware keeps the buffer, which the view points into.
PythonDone(n)   == [Fresh EXCEPT !.complete = TRUE]

\* Mutant: the firmware erases its buffer at completion too.
DeviceDoneErased(n) == PythonDone(n)

DeviceDone(n)   == [Fresh EXCEPT !.complete = TRUE, !.buffered = n]

\* Mutant: a frame of the largest size overflows.
PythonRoomLess(d, chunk) == d.buffered + chunk < MaxFrame

\* Room in the buffer for a chunk.
PythonRoom(d, chunk) == d.buffered + chunk <= MaxFrame
DeviceRoom(d, chunk) == chunk <= MaxFrame - d.buffered

\* The judgement of n buffered bytes.
Judge(order, n) ==
  IF n < HeaderSize \/ (Header(order, n) = "ok" /\ n < Size(wire))
  THEN "need_more" ELSE Decode(order, n)

\* feed of the Python decoder: <<the decoder after, the answer>>.
FeedPython(d, chunk) ==
  LET n == d.buffered + chunk
      verdict == IF chunk = Malformed THEN "invalid"
                 ELSE IF ~PythonRoom(d, chunk) THEN "overflow"
                 ELSE Judge(PythonOrder, n)
  IN CASE d.terminal # None -> <<d, d.terminal>>
       [] d.terminal = None /\ d.complete -> <<d, "already_complete">>
       [] OTHER -> << CASE verdict = "need_more" -> Holding(n)
                        [] verdict = "ok"        -> PythonDone(n)
                        [] OTHER                 -> Rejected(verdict), verdict >>

\* Decoder::feed of the firmware.
FeedDevice(d, chunk) ==
  LET n == d.buffered + chunk
      verdict == IF chunk = Malformed THEN "invalid"
                 ELSE IF ~DeviceRoom(d, chunk) THEN "overflow"
                 ELSE Judge(DeviceOrder, n)
  IN CASE d.terminal # None -> <<d, d.terminal>>
       [] d.terminal = None /\ d.complete -> <<d, "already_complete">>
       [] OTHER -> << CASE verdict = "need_more" -> Holding(n)
                        [] verdict = "ok"        -> DeviceDone(n)
                        [] OTHER                 -> Rejected(verdict), verdict >>

\* Mutant: a cancelled decoder starts again.
CancelledFresh(d) == IF d.complete THEN PythonDone(0) ELSE Fresh

\* cancel, of either decoder: the buffer is erased whatever the state.
Cancelled(d) ==
  [buffered |-> 0, complete |-> d.complete,
   terminal |-> IF d.terminal = None /\ ~d.complete THEN "cancelled" ELSE d.terminal]
-----------------------------------------------------------------------------
FrameInit ==
  /\ wire \in [type: Types, length: 0..(MaxPayload + 1),
               wrong: {w \in SUBSET Fields : Cardinality(w) <= MaxWrong}]
  /\ python = Fresh /\ device = Fresh
  /\ said = [python |-> None, device |-> None]
  /\ view = 0 /\ fed = 0 /\ disturbed = FALSE

\* The same chunk is handed to both.  A firmware caller keeps the view of the
\* completed frame until it cancels.
Feed(chunk) ==
  LET p == FeedPython(python, chunk)
      d == FeedDevice(device, chunk)
  IN /\ python' = p[1] /\ device' = d[1]
     /\ said' = [python |-> p[2], device |-> d[2]]
     /\ view' = IF d[2] = "ok" THEN Size(wire) ELSE view
     /\ UNCHANGED wire

FeedBytes ==
  \E n \in 0..(MaxFed - fed) :
    Feed(n) /\ fed' = fed + n /\ UNCHANGED disturbed

FeedMalformed == Feed(Malformed) /\ disturbed' = TRUE /\ UNCHANGED fed

Cancel ==
  /\ python' = Cancelled(python) /\ device' = Cancelled(device)
  /\ said' = [python |-> None, device |-> None]
  /\ view' = 0 /\ disturbed' = TRUE
  /\ UNCHANGED <<wire, fed>>

FrameNext == FeedBytes \/ FeedMalformed \/ Cancel

FrameSpec == FrameInit /\ [][FrameNext]_frameVars
-----------------------------------------------------------------------------
(* What is promised.                                                       *)

\* The two decoders never disagree: fed alike, they give the same answer at
\* every call, and the same reason unless the header has both a reserved bit
\* and a payload that is too large.
SameAnswer ==
  \/ said.python = said.device
  \/ said = [python |-> "reserved", device |-> "too_large"]

\* What a decoder completes is exactly what an encoder can write: a call returns
\* a frame only when its bytes and nothing else have come, cut into chunks in
\* whatever way, and no call before was malformed or a cancellation; and such a
\* frame, of any legal length, is always completed.
FramesExact ==
  /\ \A d \in {"python", "device"} :
       said[d] = "ok" => Encodes(wire) /\ fed = Size(wire) /\ ~disturbed
  /\ Encodes(wire) /\ fed = Size(wire) /\ ~disturbed
       => python.complete /\ device.complete

\* A view of a completed frame points into the firmware decoder's buffer: the
\* bytes stay there, whatever is fed afterwards, until the caller cancels.
ViewIntact == view > 0 => device.buffered = view
=============================================================================
