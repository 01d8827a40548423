-------------------------- MODULE Fx2lafwProperties --------------------------
(***************************************************************************)
(* What the logic-analyzer firmware must guarantee.                        *)
(***************************************************************************)
EXTENDS Fx2lafw

Booted == main \notin BootPcs

-----------------------------------------------------------------------------
(* Guarantees that hold whatever the host does.                            *)

(* gpif_acquisition_prepare parses the START command in place in EP0BUF    *)
(* (fx2lafw.c:312-314) over many instructions.  While it does, EP0BUF      *)
(* holds a whole command and is not armed, so no host transfer, aborted,   *)
(* repeated or back to back, can change the command under the parser.      *)
CommandStable ==
  main \in ReconfigurePcs \cup {"prep_wait"} =>
    ~busy /\ ep0bcl = CmdSize /\ ep0buf \in Cmds

(* gpif_poll (gpif-acquisition.c:258-284) tests GPIFTRIG once and then     *)
(* resets EP2 in six steps; ibn_isr, which triggers the engine, can run    *)
(* between any two of them.  The engine still never fills EP2 meanwhile,   *)
(* and the acquisition being reset is the one that completed.              *)
QuiescentReset ==
  main \in ResetPcs => ~gpif /\ gpif_acquiring = "RUNNING"

(* timer2_isr (fx2lafw.c:244-256) decrements the 16-bit ledcounter before  *)
(* it tests it.  During an acquisition it is never 0, so the count does    *)
(* not wrap around and leave the LED frozen for 65536 ticks.               *)
LedCounterLive == gpif_acquiring = "RUNNING" => ledcounter \in 1 .. LedPeriod

(* The engine never samples behind the firmware's back: gpif_acquiring is  *)
(* STOPPED only while the engine is idle (otherwise gpif_poll would never  *)
(* reset EP2 after it).                                                    *)
NeverUntracked == Booted /\ gpif => gpif_acquiring # "STOPPED"

(* EP2 offers the host no packet while it is in manual mode: this is the   *)
(* race that gpif_poll's NAK-ALL is there to avoid                         *)
(* (gpif-acquisition.c:262-280).                                           *)
NoReadInManualMode == Booted /\ HasPacket => fifocfg # "manual"

-----------------------------------------------------------------------------
(* Guarantees to a patient host, which sends START only in STOPPED.        *)

(* FIFO, clock and waveform are rewritten only while the engine is idle:   *)
(* the comment at gpif-acquisition.c:191, for the whole reconfiguration    *)
(* and not only at the instant where GPIFTRIG was tested.                  *)
ReconfigureOnlyWhenIdle == main \in ReconfigurePcs => ~gpif

(* Whatever the engine executes is the whole program of one command, with  *)
(* the FIFO width and the clock of that same command.                      *)
CoherentSampling ==
  Booted /\ gpif =>
    /\ wave \in Cmds
    /\ fifocfg = FifoCfg(wave)
    /\ ifconfig = IfConfig(wave)

(* EP2 holds nothing from the end of one acquisition to the beginning of   *)
(* the next: neither while the firmware is stopped nor while it waits for  *)
(* the host's first IN token (the handler has not triggered the engine).   *)
(* gpif_poll reset the FIFO (gpif-acquisition.c:270), so the first packet  *)
(* a host reads after its START is a packet of the acquisition it asked    *)
(* for.                                                                    *)
FreshFifo ==
  Booted /\ \/ gpif_acquiring = "STOPPED"
            \/ gpif_acquiring = "PREPARED" /\ isr # "ibn_mark"
  => fifo = <<>>

(* ibn_isr calls gpif_acquisition_start, whose gpif_fifo_read spins until  *)
(* the engine is idle (gpif.c:174).  Inside the handler that spin never    *)
(* waits: the other interrupts are not held off by a running acquisition.  *)
IsrNeverSpins == isr = "ibn_start" => ~gpif

-----------------------------------------------------------------------------
(* Liveness. *)

(* The data stage of a START brought command c, and the main loop has not  *)
(* begun to act on it.                                                     *)
CommandPending(c) ==
  /\ vendor_command = "START"
  /\ ~busy
  /\ ep0bcl = CmdSize
  /\ ep0buf = c
  /\ main \notin ReconfigurePcs \cup {"ack"}

(* A START command that came through is honoured: the engine samples by    *)
(* it (fx2lafw.c:211-214), provided its delay is one that the waveform     *)
(* memory has room for.                                                    *)
StartHonoured ==
  \A c \in Cmds \ LongDelay : CommandPending(c) ~> (gpif /\ wave = c)

(* Every control transfer ends (setupdat.c:64-69): the host gets its data  *)
(* and its handshake, or a STALL.                                          *)
ControlCompletes == (ctl # "idle") ~> (ctl = "idle")

-----------------------------------------------------------------------------
(* Refinement.  The acquisition as a patient host sees it: a command is    *)
(* requested from its data stage until the status changes or the command   *)
(* is rejected; the engine, and not the firmware's own status, tells       *)
(* RUNNING and OVERRUN apart.                                              *)
Requested ==
  IF vendor_command = "START" /\ ~busy /\ ep0bcl = CmdSize /\ main # "ack"
  THEN ep0buf ELSE NoCmd

Phase ==
  IF gpif_acquiring = "STOPPED" THEN "STOPPED"
  ELSE IF gpif THEN "RUNNING"
  ELSE IF gpif_acquiring = "PREPARED" /\ isr # "ibn_mark" THEN "PREPARED"
  ELSE "OVERRUN"

Promise == INSTANCE Acquisition WITH
  requested <- Requested,
  phase <- Phase,
  config <- IF gpif_acquiring = "STOPPED" THEN NoCmd ELSE wave,
  queue <- fifo

(* The firmware, with a patient host, implements Acquisition, its fairness *)
(* included: fx2lafw_poll, ibn_isr, gpif_acquisition_prepare and gpif_poll *)
(* together never act on a command twice, start an acquisition that was    *)
(* not asked for, or let packets of two acquisitions meet.                 *)
ImplementsAcquisition == Promise!AFairSpec
=============================================================================
