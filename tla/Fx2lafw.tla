------------------------------- MODULE Fx2lafw -------------------------------
(***************************************************************************)
(* The logic-analyzer firmware: src/fx2lafw.c, with the parts of           *)
(* gpif-acquisition.c and fx2lib/lib/setupdat.c it calls, running against  *)
(* the FX2's peripherals and a USB host.                                   *)
(*                                                                         *)
(* Five things interleave: the main loop; the interrupt handlers, which    *)
(* interrupt the main loop between any two of its steps and do not nest;   *)
(* the GPIF engine; the host's control transfers; and the host's bulk IN   *)
(* tokens, which the host may send at any time.  A step of the main loop   *)
(* touches the state it shares with the others once.                       *)
(*                                                                         *)
(* What the host is allowed to do is a parameter: StartWhen, BackToBack    *)
(* and Abort describe hosts from the patient one to the careless one.      *)
(*                                                                         *)
(* A definition named <operator>_<slip> is the operator with a mistake     *)
(* that the code could plausibly contain.  No specification uses it: it    *)
(* shows that a property would notice.                                     *)
(***************************************************************************)
EXTENDS Gpif, Ep0

CONSTANTS
  LedPeriod,   \* timer ticks between two LED toggles; the code's 1000
  WarmBoot,    \* firmware may be downloaded over a sampling device
  StartWhen,   \* the values of gpif_acquiring in which the host sends a
               \* request that disturbs EP2: START or SET_INTERFACE
  BackToBack,  \* the host sends a SETUP while the main loop still works on
               \* the transfer the host saw completed
  Abort        \* the host gives up control transfers half way

ASSUME HostAssumption ==
  /\ StartWhen \subseteq GpifStatus
  /\ WarmBoot \in BOOLEAN
  /\ BackToBack \in BOOLEAN
  /\ Abort \in BOOLEAN

WordSize == 65536                 \* a WORD of the 8051 compiler has 16 bits
ASSUME LedAssumption == LedPeriod \in 1 .. WordSize - 1

VARIABLES
  main,            \* where the main loop is
  isr,             \* where the handler of IBN is, "none" outside it
  irq,             \* pending interrupts
  got_sud,         \* a SETUP packet waits for the main loop
  vendor_command,  \* the vendor command that still has to be completed
  led,             \* the LED pin is high
  ledcounter,      \* ticks until the LED toggles, a 16-bit WORD
  ctl,             \* stage of the host's control transfer
  sent             \* the last command the host got through (history)

cpuVars == <<main, isr, irq, got_sud, vendor_command>>
ledVars == <<led, ledcounter>>
hostVars == <<ctl, sent>>
vars == <<gpifVars, ep0Vars, cpuVars, ledVars, hostVars>>

(* The program counter of main(): fx2lafw_init, then the steps of          *)
(* fx2lafw_poll and of what it calls.                                      *)
BootPcs == {"boot_ep", "boot_gpif"}
SetupPcs == {"dispatch", "start", "fw_version", "revid", "refuse", "rf_nak",
             "rf_flush", "rf_release", "handshake", "clear_sud"}
ReconfigurePcs == {"prep_fifo", "prep_clock", "prep_delay", "prep_dp",
                   "prep_done"}
ResetPcs == {"gp_nak", "gp_manual", "gp_flush", "gp_auto", "gp_release",
             "gp_stopped"}
MainPcs == BootPcs \cup SetupPcs \cup ReconfigurePcs \cup ResetPcs
             \cup {"poll", "vendor", "prep_wait", "ack", "gpif_poll"}
IsrPcs == {"none", "ibn_start", "ibn_mark", "ibn_clear"}

CpuTypeOK ==
  /\ main \in MainPcs
  /\ isr \in IsrPcs
  /\ irq \subseteq {"sudav", "ibn"}
  /\ got_sud \in BOOLEAN
  /\ vendor_command \in {"none", "START"}

IoTypeOK ==
  /\ led \in BOOLEAN
  /\ ledcounter \in 0 .. WordSize - 1
  /\ ctl \in {"idle", "data", "status"}
  /\ sent \in Cmds \cup {NoCmd}

TypeOK == GpifTypeOK /\ Ep0TypeOK /\ CpuTypeOK /\ IoTypeOK

(* fx2lafw_init up to EA = 1: from here on interrupts are taken, and the   *)
(* host sees the device.                                                   *)
Init ==
  /\ GpifInit(WarmBoot)
  /\ Ep0Init
  /\ main = "boot_ep"
  /\ isr = "none"
  /\ irq = {}
  /\ got_sud = FALSE
  /\ vendor_command = "none"
  /\ led = TRUE
  /\ ledcounter = 0
  /\ ctl = "idle"
  /\ sent = NoCmd

-----------------------------------------------------------------------------
(* The main loop. *)

(* Outside interrupt handlers, the main loop goes from one step to another. *)
Step(from, to) ==
  /\ isr = "none"
  /\ main = from
  /\ main' = to
  /\ UNCHANGED <<isr, irq, ledVars, hostVars>>

OnlyGpif == UNCHANGED <<got_sud, vendor_command, ep0Vars>>
OnlyEp0 == UNCHANGED <<got_sud, gpifVars>>

BootEndpoints == Step("boot_ep", "boot_gpif") /\ SetupEndpoints /\ OnlyGpif
BootGpif == Step("boot_gpif", "poll") /\ GpifInitLa /\ OnlyGpif

(* fx2lafw_poll: if (got_sud) handle_setupdata(). *)
PollSetup ==
  /\ Step("poll", IF got_sud THEN "dispatch" ELSE "vendor")
  /\ UNCHANGED <<got_sud, vendor_command, gpifVars, ep0Vars>>

(* The switch of handle_setupdata and that of handle_vendorcommand.        *)
(* SETUPDAT is read here, once; the answer is written by a later step.     *)
CaseOf(r) ==
  CASE r = "START" -> "start"
    [] r = "GET_FW_VERSION" -> "fw_version"
    [] r = "GET_REVID_VERSION" -> "revid"
    [] r = "SET_INTERFACE" -> "rf_nak"
    [] r = "SET_CONFIGURATION" -> "handshake"
    [] r = "UNKNOWN" -> "refuse"

Dispatch ==
  /\ Step("dispatch", CaseOf(setupdat))
  /\ UNCHANGED <<got_sud, vendor_command, gpifVars, ep0Vars>>

VendorStart ==
  /\ Step("start", "handshake")
  /\ vendor_command' = "START"
  /\ ArmOut
  /\ OnlyEp0

SendFwVersion ==
  /\ Step("fw_version", "handshake")
  /\ SendAnswer(VersionSize)
  /\ OnlyEp0
  /\ UNCHANGED vendor_command

SendRevidVersion ==
  /\ Step("revid", "handshake")
  /\ SendAnswer(1)
  /\ OnlyEp0
  /\ UNCHANGED vendor_command

Refuse ==
  /\ Step("refuse", "handshake")
  /\ StallEp0
  /\ OnlyEp0
  /\ UNCHANGED vendor_command

(* handle_set_interface: RESETFIFO(0x02). *)
ResetFifoNak == Step("rf_nak", "rf_flush") /\ SetNakAll(TRUE) /\ OnlyGpif
ResetFifoFlush == Step("rf_flush", "rf_release") /\ FlushFifo /\ OnlyGpif
ResetFifoRelease ==
  Step("rf_release", "handshake") /\ SetNakAll(FALSE) /\ OnlyGpif

\* Slip: HSNAK is left to the hardware.
Handshake_forgotten ==
  /\ Step("handshake", "clear_sud")
  /\ OnlyEp0
  /\ UNCHANGED <<vendor_command, ep0Vars>>

(* The end of handle_setupdata, and got_sud = FALSE after it. *)
Handshake ==
  /\ Step("handshake", "clear_sud")
  /\ ClearHsnak
  /\ OnlyEp0
  /\ UNCHANGED vendor_command

ClearSud ==
  /\ Step("clear_sud", "vendor")
  /\ got_sud' = FALSE
  /\ UNCHANGED <<vendor_command, gpifVars, ep0Vars>>

\* Slip: a data stage of any length is a command.
VendorTarget_anysize ==
  IF vendor_command = "none" \/ busy THEN "gpif_poll" ELSE "prep_wait"

(* fx2lafw_poll: if (vendor_command), waiting for the data stage. *)
VendorTarget ==
  IF vendor_command = "none" \/ busy THEN "gpif_poll"
  ELSE IF ep0bcl = CmdSize THEN "prep_wait" ELSE "ack"

Vendor ==
  /\ Step("vendor", VendorTarget)
  /\ UNCHANGED <<got_sud, vendor_command, gpifVars, ep0Vars>>

\* Slip: the status is set at the top of gpif_acquisition_prepare.
PrepWait_prepared ==
  /\ ~gpif
  /\ Step("prep_wait", "prep_fifo")
  /\ SetStatus("PREPARED")
  /\ OnlyGpif

(* gpif_acquisition_prepare, parsing the command in place in EP0BUF.       *)
(* PrepWait is the spin on GPIFTRIG.                                       *)
PrepWait ==
  /\ ~gpif
  /\ Step("prep_wait", "prep_fifo")
  /\ UNCHANGED <<got_sud, vendor_command, gpifVars, ep0Vars>>

PrepFifo ==
  /\ Step("prep_fifo", "prep_clock")
  /\ WriteFifoCfg(FifoCfg(ep0buf))
  /\ OnlyGpif

\* Slip: the 30MHz branch is missing.
PrepClock_fastonly ==
  /\ Step("prep_clock", "prep_delay")
  /\ WriteIfConfig(IF ep0buf \in Fast THEN "48MHz" ELSE ifconfig)
  /\ OnlyGpif

PrepClock ==
  /\ Step("prep_clock", "prep_delay")
  /\ WriteIfConfig(IfConfig(ep0buf))
  /\ OnlyGpif

PrepReject ==
  /\ ep0buf \in LongDelay
  /\ Step("prep_delay", "ack")
  /\ UNCHANGED <<got_sud, vendor_command, gpifVars, ep0Vars>>

(* The delay states overwrite the program in place ... *)
PrepDelay ==
  /\ ep0buf \notin LongDelay
  /\ Step("prep_delay", "prep_dp")
  /\ WriteWave(NoCmd)
  /\ OnlyGpif

(* ... and it is whole again once the decision point is written. *)
PrepDp == Step("prep_dp", "prep_done") /\ WriteWave(ep0buf) /\ OnlyGpif

\* Slip: the status is not set.
PrepDone_nostatus ==
  /\ Step("prep_done", "ack")
  /\ UNCHANGED <<got_sud, vendor_command, gpifVars, ep0Vars>>

PrepDone == Step("prep_done", "ack") /\ SetStatus("PREPARED") /\ OnlyGpif

\* Slip: the vendor command stays.
AckVendor_kept ==
  /\ Step("ack", "gpif_poll")
  /\ UNCHANGED <<got_sud, vendor_command, gpifVars, ep0Vars>>

AckVendor ==
  /\ Step("ack", "gpif_poll")
  /\ vendor_command' = "none"
  /\ UNCHANGED <<got_sud, gpifVars, ep0Vars>>

\* Slip: GPIFTRIG is not tested.
Completed_untested == gpif_acquiring = "RUNNING"

(* gpif_poll: detect the end of the acquisition and reset EP2. *)
Completed == gpif_acquiring = "RUNNING" /\ ~gpif

GpifPoll ==
  /\ Step("gpif_poll", IF Completed THEN "gp_nak" ELSE "poll")
  /\ UNCHANGED <<got_sud, vendor_command, gpifVars, ep0Vars>>

\* Slips: no NAK-ALL around the reset, no reset of the FIFO.
GpNak_skipped ==
  /\ Step("gp_nak", "gp_manual")
  /\ UNCHANGED <<got_sud, vendor_command, gpifVars, ep0Vars>>
GpFlush_skipped ==
  /\ Step("gp_flush", "gp_auto")
  /\ UNCHANGED <<got_sud, vendor_command, gpifVars, ep0Vars>>

GpNak == Step("gp_nak", "gp_manual") /\ SetNakAll(TRUE) /\ OnlyGpif
GpManual == Step("gp_manual", "gp_flush") /\ WriteFifoCfg("manual") /\ OnlyGpif
GpFlush == Step("gp_flush", "gp_auto") /\ FlushFifo /\ OnlyGpif
GpAuto == Step("gp_auto", "gp_release") /\ WriteFifoCfg("auto") /\ OnlyGpif
GpRelease == Step("gp_release", "gp_stopped") /\ SetNakAll(FALSE) /\ OnlyGpif
GpStopped == Step("gp_stopped", "poll") /\ SetStatus("STOPPED") /\ OnlyGpif

Boot == BootEndpoints \/ BootGpif
HandleSetup ==
  \/ Dispatch \/ VendorStart \/ SendFwVersion \/ SendRevidVersion \/ Refuse
  \/ ResetFifoNak \/ ResetFifoFlush \/ ResetFifoRelease
  \/ Handshake \/ ClearSud
Prepare ==
  \/ PrepWait \/ PrepFifo \/ PrepClock \/ PrepReject \/ PrepDelay \/ PrepDp
  \/ PrepDone
ResetEp2 == GpNak \/ GpManual \/ GpFlush \/ GpAuto \/ GpRelease \/ GpStopped
Main ==
  \/ Boot \/ PollSetup \/ HandleSetup \/ Vendor \/ Prepare \/ AckVendor
  \/ GpifPoll \/ ResetEp2

-----------------------------------------------------------------------------
(* Interrupt handlers.  SUDAV has the lower autovector, so IBN waits for   *)
(* it; a handler runs to its end before another one starts.                *)

SudavIsr ==
  /\ isr = "none"
  /\ "sudav" \in irq
  /\ irq' = irq \ {"sudav"}
  /\ got_sud' = TRUE
  /\ UNCHANGED <<main, isr, vendor_command, ledVars, hostVars, gpifVars,
                 ep0Vars>>

\* Slips: ledcounter is not set, or the status is not tested.
IbnStart_nocounter ==
  /\ gpif_acquiring = "PREPARED"
  /\ isr' = "ibn_start"
  /\ led' = FALSE
  /\ UNCHANGED ledcounter
IbnStart_anystatus ==
  /\ isr' = "ibn_start"
  /\ ledcounter' = 1
  /\ led' = FALSE

(* ibn_isr: the test, with the LED, then gpif_acquisition_start, then the  *)
(* IBN flags.  The host may raise IBN again at any point.                  *)
IbnStart ==
  /\ gpif_acquiring = "PREPARED"
  /\ isr' = "ibn_start"
  /\ ledcounter' = 1
  /\ led' = FALSE

IbnIgnore ==
  /\ gpif_acquiring # "PREPARED"
  /\ isr' = "ibn_clear"
  /\ UNCHANGED ledVars

IbnEnter ==
  /\ isr = "none"
  /\ "ibn" \in irq
  /\ "sudav" \notin irq
  /\ IbnStart \/ IbnIgnore
  /\ UNCHANGED <<main, irq, got_sud, vendor_command, hostVars, gpifVars,
                 ep0Vars>>

IsrStep(from, to) ==
  /\ isr = from
  /\ isr' = to
  /\ UNCHANGED <<main, got_sud, vendor_command, ledVars, hostVars, ep0Vars>>

\* Slip: gpif_acquisition_start leaves the status alone.
IbnMark_nostatus ==
  /\ IsrStep("ibn_mark", "ibn_clear")
  /\ UNCHANGED <<irq, gpifVars>>

IbnTrigger ==
  IsrStep("ibn_start", "ibn_mark") /\ GpifFifoRead /\ UNCHANGED irq
IbnMark ==
  IsrStep("ibn_mark", "ibn_clear") /\ SetStatus("RUNNING") /\ UNCHANGED irq
IbnClear ==
  /\ IsrStep("ibn_clear", "none")
  /\ irq' = irq \ {"ibn"}
  /\ UNCHANGED gpifVars

(* timer2_isr; --ledcounter is 16-bit arithmetic. *)
LedTick == (ledcounter + WordSize - 1) % WordSize

Timer2Isr ==
  /\ isr = "none"
  /\ \/ /\ gpif_acquiring = "RUNNING"
        /\ led' = IF LedTick = 0 THEN ~led ELSE led
        /\ ledcounter' = IF LedTick = 0 THEN LedPeriod ELSE LedTick
     \/ /\ gpif_acquiring = "STOPPED"
        /\ led' = TRUE
        /\ UNCHANGED ledcounter
     \/ /\ gpif_acquiring = "PREPARED"
        /\ UNCHANGED ledVars
  /\ UNCHANGED <<cpuVars, hostVars, gpifVars, ep0Vars>>

Isr == SudavIsr \/ IbnEnter \/ IbnTrigger \/ IbnMark \/ IbnClear

-----------------------------------------------------------------------------
(* The GPIF engine and the host (external). *)

Engine ==
  /\ Sample \/ GpifDone
  /\ UNCHANGED <<cpuVars, ledVars, hostVars, ep0Vars>>

(* An IN token on EP2: a packet leaves, or NAK raises IBN.  A host that is *)
(* acquiring keeps sending them; NAKs in between are harmless.             *)
BulkIn ==
  /\ \/ PopPacket /\ UNCHANGED irq
     \/ ~HasPacket /\ irq' = irq \cup {"ibn"} /\ UNCHANGED gpifVars
  /\ UNCHANGED <<main, isr, got_sud, vendor_command, ledVars, hostVars,
                 ep0Vars>>

(* Is the main loop done with the transfer before? *)
SetupHandled ==
  ~got_sud /\ "sudav" \notin irq /\ vendor_command = "none"

HostSetup(r) ==
  /\ ctl = "idle"
  /\ BackToBack \/ SetupHandled
  /\ r \in {"START", "SET_INTERFACE"} => gpif_acquiring \in StartWhen
  /\ SetupArrives(r)
  /\ irq' = irq \cup {"sudav"}
  /\ ctl' = IF HasDataStage(r) THEN "data" ELSE "status"
  /\ UNCHANGED <<main, isr, got_sud, vendor_command, ledVars, gpifVars, sent>>

UnlessHost == UNCHANGED <<cpuVars, ledVars, gpifVars>>

(* The data stage of START carries a command, or is cut short. *)
HostSendsCommand(c) ==
  /\ ctl = "data"
  /\ ~stall
  /\ setupdat = "START"
  /\ OutData(c, CmdSize)
  /\ sent' = c
  /\ ctl' = "status"
  /\ UnlessHost

HostSendsShort ==
  /\ ctl = "data"
  /\ ~stall
  /\ setupdat = "START"
  /\ OutData(NoCmd, CmdSize - 1)
  /\ ctl' = "status"
  /\ UnlessHost
  /\ UNCHANGED sent

HostReads ==
  /\ ctl = "data"
  /\ ~stall
  /\ setupdat # "START"
  /\ InData
  /\ ctl' = "status"
  /\ UnlessHost
  /\ UNCHANGED sent

HostStatus ==
  /\ ctl = "status"
  /\ ~hsnak \/ stall
  /\ ctl' = "idle"
  /\ UnlessHost
  /\ UNCHANGED <<sent, ep0Vars>>

HostStalled ==
  /\ ctl = "data"
  /\ stall
  /\ ctl' = "idle"
  /\ UnlessHost
  /\ UNCHANGED <<sent, ep0Vars>>

HostAborts ==
  /\ Abort
  /\ ctl # "idle"
  /\ ctl' = "idle"
  /\ UnlessHost
  /\ UNCHANGED <<sent, ep0Vars>>

HostContinues ==
  \/ \E c \in Cmds : HostSendsCommand(c)
  \/ HostSendsShort \/ HostReads \/ HostStatus \/ HostStalled

Host ==
  \/ BulkIn
  \/ \E r \in Requests : HostSetup(r)
  \/ HostContinues
  \/ HostAborts

-----------------------------------------------------------------------------
Next == Main \/ Isr \/ Timer2Isr \/ Engine \/ Host

Spec == Init /\ [][Next]_vars

(* Fairness.  After RETI the 8051 executes at least one instruction of the *)
(* interrupted program, so interrupts delay the main loop but cannot stop  *)
(* it (SF).  A pending interrupt is taken at the next instruction boundary *)
(* outside a handler at which no prior one is pending: WF for SUDAV, SF    *)
(* for IBN, which SUDAV precedes, and for the timer.  A handler runs on    *)
(* and the engine is clocked (WF).  The host carries on a control transfer *)
(* it began, and keeps polling EP2 after its START was accepted.           *)
FirmwareFairness ==
  /\ SF_vars(Main)
  /\ WF_vars(SudavIsr)
  /\ SF_vars(IbnEnter)
  /\ WF_vars(IbnTrigger \/ IbnMark \/ IbnClear)
  /\ SF_vars(Timer2Isr)
  /\ WF_vars(Engine)
HostFairness ==
  /\ WF_vars(HostContinues)
  /\ WF_vars(BulkIn /\ gpif_acquiring = "PREPARED")

(* The firmware's half alone: the host may fall silent at any point.       *)
SilentHostSpec == Spec /\ FirmwareFairness

FairSpec == Spec /\ FirmwareFairness /\ HostFairness
=============================================================================
