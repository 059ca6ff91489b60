------------------------------- MODULE MCFirmware -------------------------------
(***************************************************************************)
(* Small instances of SafeBoot and LocalFrame.  They share no state, so    *)
(* what one does is the same whatever the other does in between, and a     *)
(* behaviour of this run has steps of one of them only.                    *)
(*                                                                         *)
(* The boot counter saturates at 3 and failed boots are told apart up to   *)
(* 5, so that a crash loop goes past the end of the counter.  Headers have *)
(* up to two wrong fields, and the bytes are cut into chunks in every way. *)
(***************************************************************************)
EXTENDS SafeBoot, LocalFrame

VARIABLE part   (* whose steps are taken *)

FirmwareInit == Init /\ FrameInit /\ part \in {"boots", "frames"}
BootStep   == part = "boots" /\ Next /\ UNCHANGED <<frameVars, part>>
DecodeStep == part = "frames" /\ FrameNext /\ UNCHANGED <<vars, part>>

FirmwareSpec == FirmwareInit /\ [][BootStep \/ DecodeStep]_<<vars, frameVars, part>>
=============================================================================
