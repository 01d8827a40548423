--------------------------- MODULE ScopeProperties ---------------------------
(* What the oscilloscope firmware promises, in terms of module Scope.      *)
EXTENDS Scope

(* NO EARLY ACK.  The status stage of a control transfer is let through    *)
(* only when the main loop is through with the request: a host that saw it *)
(* complete may rely on what it asked for (setupdat.c:131-132).  It does   *)
(* not hold for a SETUP that follows a STALL before the main loop is back. *)
NoEarlyAck ==
  ctl # "idle" /\ ~hsnak => main = "poll" /\ ~dosud /\ ~irq

(* OWN DATA.  The byte that a vendor command acts on is the data stage of  *)
(* the transfer that the command came with, and that transfer has not      *)
(* ended (scope.inc:335-366).                                              *)
ActsOnOwnData ==
  main \in ActPcs => ctl = "status" /\ setupdat = cmd /\ hsnak

(* FRESH SESSION.  While the engine samples, the endpoint holds no packet  *)
(* that was sampled with another gain, rate or number of channels, in an   *)
(* earlier session or before a change of settings (scope.inc:117-128).     *)
FreshSession == engine # "off" => fifo[engine] \subseteq {settings}

(* ENDPOINT.  The engine never fills an endpoint that is switched off,     *)
(* however stop, select and start follow each other (scope.inc:134, 154).  *)
EngineFeedsSelected == engine # "off" => engine = Selected

(* GREEN.  scope.inc:156: "Set green LED, don't clear LED afterwards".     *)
GreenWhileSampling == main = "poll" /\ engine # "off" => led = "green"

(* TIMEOUT.  scope.inc:331: "Set red LED, clear after timeout."  However   *)
(* commands, ticks and the two byte writes of ledcounter fall together, a  *)
(* red LED has a timer running that will clear it.                         *)
RedIsTimed ==
  led = "red" /\ main \notin {"timeout", "timeout_hi", "timeout_lo"}
    => Counting

(* COMPLETION.  Every control transfer ends, also if the next SETUP comes  *)
(* while the main loop still works on the one before.                      *)
ControlCompletes == ctl # "idle" ~> ctl = "idle"
=============================================================================
