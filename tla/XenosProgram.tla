---------------------------- MODULE XenosProgram ----------------------------
(***************************************************************************)
(* A program that draws: xenos_init, Xe_Init, edram_init, then frames.     *)
(* Each part starts when the one before it has returned.                   *)
(*                                                                         *)
(* The calls of a frame work on the rings and on the state block, and      *)
(* neither looks at the other: XenosFrames has the words a call writes,    *)
(* Xenos what they say.  So a behaviour goes on with one of the two.       *)
(***************************************************************************)
EXTENDS XenosVideo, Edram, XenosFrames, Xenos

VARIABLE phase

vars == <<phase, vvars, evars, fvars, xvars>>

Init == phase = "video" /\ VideoInit /\ EdramInit /\ FramesInit /\ StateInit

\* xenos_init, in main before everything else.
Video ==
  /\ phase = "video" /\ VideoNext
  /\ phase' = phase
  /\ UNCHANGED <<evars, fvars, xvars>>

\* What a part leaves behind is not looked at again.
StartGpu ==
  /\ phase = "video" /\ pc = Done
  /\ phase' = "start"
  /\ mode' = "auto" /\ inbox' = <<>> /\ failed' = FALSE /\ stray' = "none" /\ tmp' = "garbage"
  /\ events' = 0 /\ errors' = 0 /\ talk' = "send" /\ smc' = 0 /\ pc' = Stopped
  /\ ana' = [a \in AnaRegs |-> "reset"] /\ gpu' = [g \in GpuGroups |-> "reset"]
  /\ UNCHANGED <<evars, fvars, xvars>>

\* Xe_Init.
Start ==
  /\ phase = "start" /\ StartNext
  /\ phase' = phase
  /\ UNCHANGED <<vvars, evars, xvars>>

\* edram_init draws through the rings, with a wait after every picture.
StartEdram ==
  /\ phase = "start" /\ cpu = "run"
  /\ phase' = "edram"
  /\ UNCHANGED <<vvars, evars, fvars, xvars>>

Calibrate ==
  /\ phase = "edram" /\ EdramNext
  /\ phase' = phase
  /\ UNCHANGED <<vvars, fvars, xvars>>

StartFrames ==
  /\ phase = "edram" /\ st = "worked"
  /\ phase' \in {"frames", "state"}
  /\ st' = "done"
  /\ tries' = 0 /\ newer' = FALSE /\ wave' = [s \in Sides |-> {}] /\ seen' = Fresh
  /\ cfg' = [s \in Sides |-> 0] /\ nibble' = [p \in Parts |-> 1] /\ base' = 11
  /\ reg' = [nibble |-> nibble', base |-> 0, drawing |-> FALSE] /\ mem' = "old"
  /\ crc' = [of |-> "other", with |-> reg'] /\ fail' = {} /\ wrong' = {} /\ part' = 0
  /\ UNCHANGED <<vvars, fvars, xvars>>

Frames ==
  /\ phase = "frames" /\ FramesNext
  /\ phase' = phase
  /\ UNCHANGED <<vvars, evars, xvars>>

State ==
  /\ phase = "state" /\ StateNext
  /\ phase' = phase
  /\ UNCHANGED <<vvars, evars, fvars>>

Next == Video \/ StartGpu \/ Start \/ StartEdram \/ Calibrate \/ StartFrames \/ Frames \/ State

Spec == Init /\ [][Next]_vars

\* The memory link is sampled and delayed as the chips need it.
Calibrated == EyesOpen /\ NothingBroken
=============================================================================
