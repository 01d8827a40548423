------------------------------ MODULE MCFx2lafw ------------------------------
(***************************************************************************)
(* Instances of Fx2lafw for TLC: a narrow slow command, a wide fast one    *)
(* and one whose delay does not fit the waveform memory.                   *)
(***************************************************************************)
EXTENDS Fx2lafwProperties

CONSTANTS slow8, fast16, long

MCCmds == {slow8, fast16, long}
MCWide == {fast16}
MCFast == {fast16}
MCLongDelay == {long}

TwoCmds == {slow8, fast16}
NoLongDelay == {}

(* The behaviours in which a pending interrupt is taken at once: outside a *)
(* handler, neither the main loop nor the FIFO nor the engine moves on     *)
(* while one waits.                                                        *)
Prompt == irq # {} /\ isr = "none" => UNCHANGED <<main, gpifVars>>
PromptSpec == Init /\ [][Next /\ Prompt]_vars

NarrowAndLong == {slow8, long}
NoCmds == {}
=============================================================================
