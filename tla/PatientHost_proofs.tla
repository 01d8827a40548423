-------------------------- MODULE PatientHost_proofs --------------------------
(***************************************************************************)
(* Proofs about the logic-analyzer firmware with a patient host, which     *)
(* sends START and SET_INTERFACE only while gpif_acquiring is STOPPED, and *)
(* a SETUP only when the main loop is through with the one before.  It may *)
(* give up transfers.  For every set of commands and every FIFO depth.     *)
(***************************************************************************)
EXTENDS Fx2lafw_proofs

Patient == StartWhen \subseteq {"STOPPED"} /\ BackToBack = FALSE

-----------------------------------------------------------------------------
(* Where a request is. *)

Waiting == got_sud \/ "sudav" \in irq
Acting == ReconfigurePcs \cup {"prep_wait", "ack"}

(* One request at a time, and its handler belongs to it.                   *)
RequestInv ==
  /\ "sudav" \in irq => ~got_sud /\ vendor_command = "none"
  /\ main \in SetupPcs => got_sud
  /\ vendor_command = "START" => setupdat = "START" /\ main # "start"
  /\ vendor_command = "START" /\ got_sud => main \in {"handshake", "clear_sud"}
  /\ main \in Acting => vendor_command = "START"
  /\ main = "start" => setupdat = "START"
  /\ main \in {"fw_version", "revid"} => setupdat # "START"
  /\ main \in {"rf_nak", "rf_flush", "rf_release"} => setupdat = "SET_INTERFACE"
  /\ busy /\ setupdat = "START" => vendor_command = "START"
  /\ main = "ack" => ~busy

(* During an acquisition there is no request that would disturb it.        *)
UndisturbedInv ==
  gpif_acquiring # "STOPPED" =>
    /\ Waiting => setupdat \notin {"START", "SET_INTERFACE"}
    /\ vendor_command = "START" => main = "ack"

LEMMA RequestStep ==
  ASSUME Patient, TypeOK, CommandInv, RequestInv, [Next]_vars
  PROVE  RequestInv'
<1> USE DEF RequestInv, SetupPcs, ReconfigurePcs, Acting
<1>t. /\ setupdat \in Requests /\ vendor_command \in {"none", "START"}
      /\ irq \subseteq {"sudav", "ibn"}
  BY DEF TypeOK, Ep0TypeOK, CpuTypeOK
<1>1. CASE Boot \/ ResetEp2
  <2>1. UNCHANGED <<irq, got_sud, vendor_command, ep0Vars>>
    BY <1>1, MainFrame
    DEF Main, Boot, BootEndpoints, BootGpif, ResetEp2, GpNak, GpManual,
        GpFlush, GpAuto, GpRelease, GpStopped, OnlyGpif
  <2>2. /\ main \notin SetupPcs /\ main' \notin SetupPcs
        /\ main' \notin Acting
    BY <1>1
    DEF Boot, BootEndpoints, BootGpif, ResetEp2, GpNak, GpManual, GpFlush,
        GpAuto, GpRelease, GpStopped, Step
  <2> QED
    BY <2>1, <2>2 DEF ep0Vars
<1>2. CASE PollSetup
  BY <1>2, <1>t DEF PollSetup, Step, ep0Vars
<1>3. CASE Dispatch
  BY <1>3, <1>t DEF Dispatch, CaseOf, Requests, Step, ep0Vars
<1>4. CASE VendorStart
  BY <1>4 DEF VendorStart, Step, ArmOut, OnlyEp0
<1>5. CASE SendFwVersion \/ SendRevidVersion
  BY <1>5, <1>t DEF SendFwVersion, SendRevidVersion, Step, SendAnswer, OnlyEp0
<1>6. CASE Refuse
  BY <1>6 DEF Refuse, Step, StallEp0, OnlyEp0
<1>7. CASE ResetFifoNak \/ ResetFifoFlush \/ ResetFifoRelease
  BY <1>7
  DEF ResetFifoNak, ResetFifoFlush, ResetFifoRelease, Step, OnlyGpif, ep0Vars
<1>8. CASE Handshake
  BY <1>8 DEF Handshake, Step, ClearHsnak, OnlyEp0
<1>9. CASE ClearSud
  BY <1>9 DEF ClearSud, Step, ep0Vars
<1>10. CASE Vendor
  BY <1>10, <1>t DEF Vendor, VendorTarget, Step, ep0Vars
<1>11. CASE Prepare
  <2>1. UNCHANGED <<irq, got_sud, vendor_command, ep0Vars>>
    BY <1>11, MainFrame, PrepareFrame
    DEF Main, Prepare, PrepWait, PrepFifo, PrepClock, PrepReject, PrepDelay,
        PrepDp, PrepDone, OnlyGpif
  <2>2. /\ main \in ReconfigurePcs \cup {"prep_wait"}
        /\ main' \in ReconfigurePcs \cup {"ack"}
    BY <1>11
    DEF Prepare, PrepWait, PrepFifo, PrepClock, PrepReject, PrepDelay, PrepDp,
        PrepDone, Step
  <2>3. ~busy
    BY <2>2 DEF CommandInv, CommandStable
  <2> QED
    BY <2>1, <2>2, <2>3 DEF ep0Vars
<1>12. CASE AckVendor
  BY <1>12, <1>t DEF AckVendor, Step, ep0Vars
<1>13. CASE GpifPoll
  BY <1>13 DEF GpifPoll, Step, ep0Vars
<1>14. CASE SudavIsr
  BY <1>14, <1>t DEF SudavIsr, ep0Vars
<1>15. CASE IbnEnter \/ IbnTrigger \/ IbnMark \/ IbnClear
  <2>1. /\ UNCHANGED <<main, got_sud, vendor_command, ep0Vars>>
        /\ "sudav" \in irq' <=> "sudav" \in irq
    BY <1>15 DEF IbnEnter, IbnTrigger, IbnMark, IbnClear, IsrStep
  <2> QED
    BY <2>1 DEF ep0Vars
<1>16. CASE Timer2Isr \/ Engine \/ UNCHANGED vars
  <2>1. UNCHANGED <<cpuVars, ep0Vars>>
    BY <1>16 DEF Timer2Isr, Engine, vars
  <2> QED
    BY <2>1 DEF cpuVars, ep0Vars
<1>17. CASE BulkIn
  <2>1. /\ UNCHANGED <<main, got_sud, vendor_command, ep0Vars>>
        /\ "sudav" \in irq' <=> "sudav" \in irq
    BY <1>17 DEF BulkIn
  <2> QED
    BY <2>1 DEF ep0Vars
<1>18. CASE \E r \in Requests : HostSetup(r)
  BY <1>18, <1>t DEF HostSetup, SetupHandled, SetupArrives, Patient
<1>19. CASE HostContinues \/ HostAborts
  <2>1. UNCHANGED <<cpuVars, setupdat>> /\ (busy' => busy)
    BY <1>19
    DEF HostContinues, HostSendsCommand, HostSendsShort, HostReads, HostStatus,
        HostStalled, HostAborts, UnlessHost, OutData, InData, ep0Vars
  <2> QED
    BY <2>1 DEF cpuVars
<1> QED
  BY <1>1, <1>2, <1>3, <1>4, <1>5, <1>6, <1>7, <1>8, <1>9, <1>10, <1>11,
     <1>12, <1>13, <1>14, <1>15, <1>16, <1>17, <1>18, <1>19
  DEF Next, Main, HandleSetup, Isr, Host

LEMMA UndisturbedStep ==
  ASSUME Patient, TypeOK, AcquisitionInv, RequestInv, UndisturbedInv,
         [Next]_vars
  PROVE  UndisturbedInv'
<1> USE DEF UndisturbedInv, Waiting
<1>t. /\ setupdat \in Requests /\ vendor_command \in {"none", "START"}
      /\ irq \subseteq {"sudav", "ibn"}
  BY DEF TypeOK, Ep0TypeOK, CpuTypeOK
<1>1. ASSUME UNCHANGED <<irq, got_sud, vendor_command, setupdat>>,
             gpif_acquiring' # "STOPPED" => gpif_acquiring # "STOPPED",
             main # "ack"
      PROVE  UndisturbedInv'
  BY <1>1
<1>2. CASE Boot \/ PollSetup \/ Vendor \/ GpifPoll \/ ResetEp2
  <2>1. UNCHANGED <<irq, got_sud, vendor_command, ep0Vars>>
    BY <1>2, MainFrame, ResetFrame
    DEF Main, Boot, BootEndpoints, BootGpif, PollSetup, Vendor, GpifPoll,
        ResetEp2, GpNak, GpManual, GpFlush, GpAuto, GpRelease, GpStopped,
        OnlyGpif
  <2>2. gpif_acquiring' \in {gpif_acquiring, "STOPPED"} /\ main # "ack"
    BY <1>2
    DEF Boot, BootEndpoints, BootGpif, PollSetup, Vendor, GpifPoll,
        ResetEp2, GpNak, GpManual, GpFlush, GpAuto, GpRelease, GpStopped,
        Step, SetupEndpoints, GpifInitLa, SetNakAll, WriteFifoCfg, FlushFifo,
        SetStatus, gpifVars
  <2> QED
    BY <1>1, <2>1, <2>2 DEF ep0Vars
<1>3. CASE HandleSetup
  <2>1. /\ UNCHANGED <<irq, setupdat, gpif_acquiring>> /\ got_sud
        /\ got_sud' => got_sud
        /\ \/ vendor_command' = vendor_command
           \/ setupdat = "START"
        /\ main # "ack"
    BY <1>3, MainFrame, SetupFrame
    DEF HandleSetup, Dispatch, VendorStart, SendFwVersion, SendRevidVersion,
        Refuse, ResetFifoNak, ResetFifoFlush, ResetFifoRelease, Handshake,
        ClearSud, Main, Step, OnlyGpif, OnlyEp0, ArmOut, SendAnswer, StallEp0,
        ClearHsnak, ep0Vars, RequestInv, SetupPcs
  <2> QED
    BY <2>1
<1>4. CASE Prepare
  <2>1. UNCHANGED <<irq, got_sud, vendor_command, ep0Vars>>
    BY <1>4, MainFrame, PrepareFrame
    DEF Main, Prepare, PrepWait, PrepFifo, PrepClock, PrepReject, PrepDelay,
        PrepDp, PrepDone, OnlyGpif
  <2>2. /\ main \in ReconfigurePcs \cup {"prep_wait"}
        /\ main' = "ack" \/ gpif_acquiring' = gpif_acquiring
    BY <1>4
    DEF Prepare, PrepWait, PrepFifo, PrepClock, PrepReject, PrepDelay, PrepDp,
        PrepDone, Step, WriteFifoCfg, WriteIfConfig, WriteWave, gpifVars,
        ReconfigurePcs
  <2>3. vendor_command = "START" /\ ~Waiting
    BY <2>2 DEF RequestInv, Acting, ReconfigurePcs
  <2> QED
    BY <2>1, <2>2, <2>3 DEF ep0Vars, ReconfigurePcs
<1>5. CASE AckVendor
  BY <1>5, <1>t DEF AckVendor, Step, ep0Vars, gpifVars
<1>6. CASE SudavIsr
  BY <1>6 DEF SudavIsr, ep0Vars, gpifVars
<1>7. CASE IbnEnter \/ IbnTrigger \/ IbnMark \/ IbnClear
  <2>1. /\ UNCHANGED <<main, got_sud, vendor_command, ep0Vars>>
        /\ "sudav" \in irq' <=> "sudav" \in irq
    BY <1>7 DEF IbnEnter, IbnTrigger, IbnMark, IbnClear, IsrStep
  <2>2. gpif_acquiring' # "STOPPED" => gpif_acquiring # "STOPPED"
    BY <1>7
    DEF IbnEnter, IbnTrigger, IbnMark, IbnClear, IsrStep, GpifFifoRead,
        SetStatus, gpifVars, AcquisitionInv, IbnOwns
  <2> QED
    BY <2>1, <2>2 DEF ep0Vars
<1>8. CASE Timer2Isr \/ Engine \/ UNCHANGED vars
  <2>1. UNCHANGED <<cpuVars, ep0Vars, gpif_acquiring>>
    BY <1>8 DEF Timer2Isr, Engine, Sample, GpifDone, vars, gpifVars
  <2> QED
    BY <2>1 DEF cpuVars, ep0Vars
<1>9. CASE \E r \in Requests : HostSetup(r)
  BY <1>9, <1>t DEF HostSetup, SetupHandled, SetupArrives, Patient, gpifVars
<1>10. CASE BulkIn \/ HostContinues \/ HostAborts
  <2>1. /\ UNCHANGED <<main, got_sud, vendor_command, setupdat, gpif_acquiring>>
        /\ "sudav" \in irq' <=> "sudav" \in irq
    BY <1>10
    DEF BulkIn, HostContinues, HostSendsCommand, HostSendsShort, HostReads,
        HostStatus, HostStalled, HostAborts, UnlessHost, OutData, InData,
        PopPacket, cpuVars, ep0Vars, gpifVars
  <2> QED
    BY <2>1
<1> QED
  BY <1>2, <1>3, <1>4, <1>5, <1>6, <1>7, <1>8, <1>9, <1>10
  DEF Next, Main, Isr, Host

-----------------------------------------------------------------------------
(* What the engine samples by. *)

Configured == {"prep_clock", "prep_delay", "prep_dp", "prep_done"}
Resetting == {"gp_flush", "gp_auto", "gp_release", "gp_stopped"}

(* gpif_acquisition_prepare gathers the settings of the command in EP0BUF, *)
(* and they stay until gpif_poll resets EP2; the engine waits for ibn_isr. *)
SettingsInv ==
  /\ main \in BootPcs => gpif_acquiring = "STOPPED"
  /\ main \in Configured => fifocfg = FifoCfg(ep0buf)
  /\ main \in Configured \ {"prep_clock"} => ifconfig = IfConfig(ep0buf)
  /\ main \in {"prep_dp", "prep_done"} => ep0buf \notin LongDelay
  /\ main = "prep_done" => wave = ep0buf
  /\ gpif_acquiring = "PREPARED" /\ isr # "ibn_mark" => ~gpif
  /\ gpif_acquiring # "STOPPED" =>
       /\ wave \in Cmds
       /\ ifconfig = IfConfig(wave)
       /\ main \notin Resetting => fifocfg = FifoCfg(wave)

LEMMA SettingsStep ==
  ASSUME TypeOK, CommandInv, AcquisitionInv, RequestInv, UndisturbedInv,
         SettingsInv, [Next]_vars
  PROVE  SettingsInv'
<1> USE DEF SettingsInv, Configured, Resetting
<1>t. setupdat \in Requests /\ vendor_command \in {"none", "START"}
  BY DEF TypeOK, Ep0TypeOK, CpuTypeOK
<1>s. main \in ReconfigurePcs \cup {"prep_wait"} => gpif_acquiring = "STOPPED"
  BY DEF RequestInv, UndisturbedInv, Acting, ReconfigurePcs
<1>1. ASSUME UNCHANGED <<isr, gpifVars>>,
             main \notin BootPcs, main' \notin BootPcs \cup Configured,
             main' \notin Resetting, main \notin Resetting
      PROVE  SettingsInv'
  BY <1>1 DEF gpifVars
<1>2. CASE Boot
  BY <1>2
  DEF Boot, BootEndpoints, BootGpif, Step, SetupEndpoints, GpifInitLa, BootPcs
<1>3. CASE PollSetup \/ Vendor \/ GpifPoll \/ AckVendor
  <2>1. UNCHANGED <<isr, gpifVars>>
    BY <1>3, MainFrame, QuietMainFrame DEF Main
  <2>2. /\ main \notin BootPcs \cup Resetting
        /\ main' \notin BootPcs \cup Configured \cup Resetting
    BY <1>3
    DEF PollSetup, Vendor, VendorTarget, GpifPoll, AckVendor, Step, BootPcs
  <2> QED
    BY <1>1, <2>1, <2>2
<1>4. CASE HandleSetup
  <2>1. UNCHANGED <<isr, gpif, gpif_acquiring, fifocfg, ifconfig, wave>>
    BY <1>4, MainFrame
    DEF Main, HandleSetup, Dispatch, VendorStart, SendFwVersion,
        SendRevidVersion, Refuse, ResetFifoNak, ResetFifoFlush,
        ResetFifoRelease, Handshake, ClearSud, OnlyEp0, SetNakAll, FlushFifo,
        gpifVars
  <2>2. /\ main \notin BootPcs \cup Resetting
        /\ main' \notin BootPcs \cup Configured \cup Resetting
    BY <1>4, <1>t
    DEF HandleSetup, Dispatch, CaseOf, VendorStart, SendFwVersion,
        SendRevidVersion, Refuse, ResetFifoNak, ResetFifoFlush,
        ResetFifoRelease, Handshake, ClearSud, Step, BootPcs, Requests
  <2> QED
    BY <2>1, <2>2
<1>5. CASE Prepare
  <2>1. /\ isr = "none" /\ UNCHANGED <<isr, gpif, ep0buf>>
        /\ gpif_acquiring = "STOPPED"
        /\ main \in ReconfigurePcs \cup {"prep_wait"} /\ main' \notin BootPcs
    BY <1>5, <1>s, PrepareFrame
    DEF Prepare, PrepWait, PrepFifo, PrepClock, PrepReject, PrepDelay, PrepDp,
        PrepDone, Step, ReconfigurePcs, BootPcs, ep0Vars
  <2>2. ep0buf \in Cmds /\ ~gpif
    BY <2>1
    DEF CommandInv, CommandStable, AcquisitionInv, NeverUntracked, Booted,
        BootPcs, ReconfigurePcs
  <2>3. CASE PrepWait \/ PrepFifo \/ PrepClock
    BY <2>1, <2>2, <2>3
    DEF PrepWait, PrepFifo, PrepClock, Step, WriteFifoCfg, WriteIfConfig,
        gpifVars, BootPcs
  <2>4. CASE PrepReject \/ PrepDelay \/ PrepDp
    BY <2>1, <2>2, <2>4
    DEF PrepReject, PrepDelay, PrepDp, Step, WriteWave, gpifVars, BootPcs
  <2>5. CASE PrepDone
    BY <2>1, <2>2, <2>5 DEF PrepDone, Step, SetStatus, BootPcs
  <2> QED
    BY <1>5, <2>3, <2>4, <2>5 DEF Prepare
<1>6. CASE ResetEp2
  <2>1. gpif_acquiring = "RUNNING"
    BY <1>6
    DEF ResetEp2, GpNak, GpManual, GpFlush, GpAuto, GpRelease, GpStopped, Step,
        AcquisitionInv, QuiescentReset, ResetPcs
  <2> QED
    BY <1>6, <2>1
    DEF ResetEp2, GpNak, GpManual, GpFlush, GpAuto, GpRelease, GpStopped, Step,
        SetNakAll, WriteFifoCfg, FlushFifo, SetStatus, BootPcs
<1>7. CASE SudavIsr \/ IbnEnter \/ IbnClear
  <2>1. UNCHANGED <<main, ep0buf, gpifVars>> /\ isr # "ibn_mark"
    BY <1>7 DEF SudavIsr, IbnEnter, IbnClear, IsrStep, ep0Vars
  <2> QED
    BY <2>1 DEF gpifVars
<1>8. CASE IbnTrigger \/ IbnMark
  <2>1. gpif_acquiring = "PREPARED"
    BY <1>8 DEF IbnTrigger, IbnMark, IsrStep, AcquisitionInv, IbnOwns
  <2> QED
    BY <1>8, <2>1
    DEF IbnTrigger, IbnMark, IsrStep, GpifFifoRead, SetStatus, ep0Vars
<1>9. CASE Timer2Isr \/ UNCHANGED vars
  BY <1>9 DEF Timer2Isr, vars, cpuVars, ep0Vars, gpifVars
<1>10. CASE Engine
  BY <1>10 DEF Engine, Sample, GpifDone, cpuVars, ep0Vars
<1>11. CASE Host
  <2>1. UNCHANGED <<main, isr, gpif_acquiring, gpif, fifocfg, ifconfig, wave>>
    BY <1>11, HostFrame DEF PopPacket, gpifVars
  <2>2. main \in Configured => ep0buf' = ep0buf
    <3>1. main \in Configured => ~busy
      BY DEF CommandInv, CommandStable, ReconfigurePcs
    <3> QED
      BY <1>11, <3>1
      DEF Host, BulkIn, HostSetup, SetupArrives, HostContinues,
          HostSendsCommand, HostSendsShort, HostReads, HostStatus, HostStalled,
          HostAborts, OutData, InData, ep0Vars
  <2> QED
    BY <2>1, <2>2
<1> QED
  BY <1>2, <1>3, <1>4, <1>5, <1>6, <1>7, <1>8, <1>9, <1>10, <1>11
  DEF Next, Main, Isr

(* What holds in every state of the firmware with a patient host. *)
PatientInv ==
  /\ TypeOK /\ CommandInv /\ AcquisitionInv
  /\ RequestInv /\ UndisturbedInv /\ SettingsInv

LEMMA PatientInvariant == ASSUME Patient PROVE Spec => []PatientInv
<1>1. ASSUME Init PROVE PatientInv
  <2>1. TypeOK /\ CommandInv
    <3>1. 0 # CmdSize
      BY DEF CmdSize
    <3> QED
      BY <1>1, <3>1, InitType
      DEF Init, Ep0Init, CommandInv, CommandStable, ReconfigurePcs
  <2>2. AcquisitionInv
    BY <1>1
    DEF Init, GpifInit, AcquisitionInv, QuiescentReset, NeverUntracked,
        LedCounterLive, IbnOwns, Booted, ResetPcs, BootPcs
  <2>3. RequestInv /\ UndisturbedInv /\ SettingsInv
    BY <1>1
    DEF Init, GpifInit, Ep0Init, RequestInv, UndisturbedInv, SettingsInv,
        SetupPcs, Acting, ReconfigurePcs, Configured, BootPcs
  <2> QED
    BY <2>1, <2>2, <2>3 DEF PatientInv
<1>2. PatientInv /\ [Next]_vars => PatientInv'
  BY NextType, NextCommand, NextAcquisition, RequestStep, UndisturbedStep,
     SettingsStep DEF PatientInv
<1> QED
  BY <1>1, <1>2, PTL DEF Spec

-----------------------------------------------------------------------------
(* From the test of GPIFTRIG to the last write, the engine stays idle      *)
(* while gpif_acquisition_prepare changes what it runs by.                 *)
THEOREM ReconfigurationIsSafe ==
  ASSUME Patient PROVE Spec => []ReconfigureOnlyWhenIdle
<1>1. PatientInv => ReconfigureOnlyWhenIdle
  BY DEF PatientInv, AcquisitionInv, NeverUntracked, RequestInv,
     UndisturbedInv, ReconfigureOnlyWhenIdle, Acting, ReconfigurePcs, Booted,
     BootPcs, TypeOK, CpuTypeOK
<1> QED
  BY <1>1, PatientInvariant, PTL

(* The engine runs the whole program of one command, with that command's   *)
(* FIFO width and clock.                                                   *)
THEOREM SamplingIsCoherent == ASSUME Patient PROVE Spec => []CoherentSampling
<1>1. PatientInv => CoherentSampling
  BY DEF PatientInv, AcquisitionInv, NeverUntracked, QuiescentReset,
     SettingsInv, CoherentSampling, Resetting, ResetPcs
<1> QED
  BY <1>1, PatientInvariant, PTL

(* ibn_isr finds the engine idle and does not spin in gpif_fifo_read.      *)
THEOREM HandlerNeverSpins == ASSUME Patient PROVE Spec => []IsrNeverSpins
<1>1. PatientInv => IsrNeverSpins
  BY DEF PatientInv, AcquisitionInv, IbnOwns, SettingsInv, IsrNeverSpins
<1> QED
  BY <1>1, PatientInvariant, PTL

-----------------------------------------------------------------------------
(* No sample is left over, once the device did not boot while sampling. *)

FreshInv ==
  /\ main \in BootPcs => ~gpif
  /\ gpif_acquiring = "STOPPED" => fifo = <<>>
  /\ gpif_acquiring = "PREPARED" /\ isr # "ibn_mark" => fifo = <<>>
  /\ main \in {"gp_auto", "gp_release", "gp_stopped"} => fifo = <<>>

LEMMA FreshStep ==
  ASSUME PatientInv, FreshInv, [Next]_vars PROVE FreshInv'
<1> USE DEF FreshInv
<1>t. /\ setupdat \in Requests /\ vendor_command \in {"none", "START"}
      /\ gpif_acquiring \in GpifStatus
  BY DEF PatientInv, TypeOK, Ep0TypeOK, CpuTypeOK, GpifTypeOK
<1>o. gpif_acquiring = "STOPPED" => ~gpif
  BY DEF PatientInv, AcquisitionInv, NeverUntracked, Booted
<1>p. gpif_acquiring = "PREPARED" /\ isr # "ibn_mark" => ~gpif
  BY DEF PatientInv, SettingsInv
<1>1. CASE Boot
  BY <1>1
  DEF Boot, BootEndpoints, BootGpif, Step, SetupEndpoints, GpifInitLa,
      BootPcs, PatientInv, SettingsInv
<1>2. CASE PollSetup \/ Vendor \/ GpifPoll \/ AckVendor
  <2>1. UNCHANGED <<isr, gpifVars>>
    BY <1>2, MainFrame, QuietMainFrame DEF Main
  <2>2. main' \notin BootPcs \cup {"gp_auto", "gp_release", "gp_stopped"}
    BY <1>2
    DEF PollSetup, Vendor, VendorTarget, GpifPoll, AckVendor, Step, BootPcs
  <2> QED
    BY <2>1, <2>2 DEF gpifVars
<1>3. CASE HandleSetup
  <2>1. UNCHANGED <<isr, gpif, gpif_acquiring>> /\ fifo' \in {fifo, <<>>}
    BY <1>3, MainFrame
    DEF Main, HandleSetup, Dispatch, VendorStart, SendFwVersion,
        SendRevidVersion, Refuse, ResetFifoNak, ResetFifoFlush,
        ResetFifoRelease, Handshake, ClearSud, OnlyEp0, SetNakAll, FlushFifo,
        gpifVars
  <2>2. main' \notin BootPcs \cup {"gp_auto", "gp_release", "gp_stopped"}
    BY <1>3, <1>t
    DEF HandleSetup, Dispatch, CaseOf, VendorStart, SendFwVersion,
        SendRevidVersion, Refuse, ResetFifoNak, ResetFifoFlush,
        ResetFifoRelease, Handshake, ClearSud, Step, BootPcs, Requests
  <2> QED
    BY <2>1, <2>2
<1>4. CASE Prepare
  <2>1. UNCHANGED <<isr, gpif, fifo>> /\ main' \in ReconfigurePcs \cup {"ack"}
    BY <1>4, MainFrame, PrepareFrame
    DEF Main, Prepare, PrepWait, PrepFifo, PrepClock, PrepReject, PrepDelay,
        PrepDp, PrepDone, Step, ReconfigurePcs
  <2>2. gpif_acquiring = "STOPPED"
    BY <1>4
    DEF Prepare, PrepWait, PrepFifo, PrepClock, PrepReject, PrepDelay, PrepDp,
        PrepDone, Step, PatientInv, RequestInv, UndisturbedInv, Acting,
        ReconfigurePcs
  <2> QED
    BY <2>1, <2>2 DEF ReconfigurePcs, BootPcs
<1>5. CASE ResetEp2
  <2>1. gpif_acquiring = "RUNNING"
    BY <1>5
    DEF ResetEp2, GpNak, GpManual, GpFlush, GpAuto, GpRelease, GpStopped, Step,
        PatientInv, AcquisitionInv, QuiescentReset, ResetPcs
  <2> QED
    BY <1>5, <2>1
    DEF ResetEp2, GpNak, GpManual, GpFlush, GpAuto, GpRelease, GpStopped, Step,
        SetNakAll, WriteFifoCfg, FlushFifo, SetStatus, BootPcs
<1>6. CASE SudavIsr \/ IbnEnter \/ IbnClear
  BY <1>6 DEF SudavIsr, IbnEnter, IbnClear, IsrStep, gpifVars
<1>7. CASE IbnTrigger \/ IbnMark
  <2>1. gpif_acquiring = "PREPARED"
    BY <1>7
    DEF IbnTrigger, IbnMark, IsrStep, PatientInv, AcquisitionInv, IbnOwns
  <2>2. main \notin BootPcs
    BY <2>1 DEF PatientInv, SettingsInv
  <2> QED
    BY <1>7, <2>1, <2>2
    DEF IbnTrigger, IbnMark, IsrStep, GpifFifoRead, SetStatus
<1>8. CASE Timer2Isr \/ UNCHANGED vars
  BY <1>8 DEF Timer2Isr, vars, cpuVars, gpifVars
<1>9. CASE Engine
  <2>1. /\ gpif /\ (gpif' => gpif)
        /\ UNCHANGED <<main, isr, gpif_acquiring>>
    BY <1>9 DEF Engine, Sample, GpifDone, cpuVars
  <2>2. main \notin BootPcs \cup ResetPcs
    BY <2>1 DEF PatientInv, AcquisitionInv, QuiescentReset
  <2> QED
    BY <1>o, <1>p, <2>1, <2>2 DEF ResetPcs
<1>10. CASE Host
  <2>1. UNCHANGED <<main, isr, gpif, gpif_acquiring>>
    BY <1>10, HostFrame DEF PopPacket, gpifVars
  <2>2. fifo = <<>> => fifo' = <<>>
    BY <1>10, HostFrame DEF PopPacket, HasPacket, gpifVars
  <2> QED
    BY <2>1, <2>2
<1> QED
  BY <1>1, <1>2, <1>3, <1>4, <1>5, <1>6, <1>7, <1>8, <1>9, <1>10
  DEF Next, Main, Isr

LEMMA FreshInvariant ==
  ASSUME Patient, WarmBoot = FALSE PROVE Spec => []FreshInv
<1>1. Init => FreshInv
  BY DEF Init, GpifInit, FreshInv
<1>2. PatientInv /\ FreshInv /\ [Next]_vars => FreshInv'
  BY FreshStep
<1> QED
  BY <1>1, <1>2, PatientInvariant, PTL DEF Spec

(* EP2 is empty when ibn_isr starts an acquisition, and after gpif_poll    *)
(* ended one.                                                              *)
THEOREM FifoIsFresh ==
  ASSUME Patient, WarmBoot = FALSE PROVE Spec => []FreshFifo
<1>1. PatientInv /\ FreshInv => FreshFifo
  BY DEF PatientInv, FreshInv, FreshFifo, AcquisitionInv, IbnOwns
<1> QED
  BY <1>1, PatientInvariant, FreshInvariant, PTL

-----------------------------------------------------------------------------
(* Step simulation: what each actor does to the promise of Acquisition. *)

LEMMA SamePromise ==
  ASSUME UNCHANGED <<gpif_acquiring, gpif, wave, fifo>>,
         UNCHANGED Requested, (isr = "ibn_mark") <=> (isr' = "ibn_mark")
  PROVE  UNCHANGED Promise!avars
  BY DEF Phase, Promise!avars

LEMMA FirmwareStep ==
  ASSUME PatientInv, FreshInv, Main PROVE [Promise!ANext]_(Promise!avars)
<1> USE DEF Phase, Requested
<1>t. /\ setupdat \in Requests /\ vendor_command \in {"none", "START"}
      /\ gpif_acquiring \in GpifStatus
  BY DEF PatientInv, TypeOK, Ep0TypeOK, CpuTypeOK, GpifTypeOK
<1>i. isr = "none" /\ isr' = isr
  BY MainFrame
  DEF Main, Boot, BootEndpoints, BootGpif, PollSetup, HandleSetup,
      Dispatch, VendorStart, SendFwVersion, SendRevidVersion, Refuse,
      ResetFifoNak, ResetFifoFlush, ResetFifoRelease, Handshake, ClearSud,
      Vendor, Prepare, PrepWait, PrepFifo, PrepClock, PrepReject, PrepDelay,
      PrepDp, PrepDone, AckVendor, GpifPoll, ResetEp2, GpNak, GpManual,
      GpFlush, GpAuto, GpRelease, GpStopped, Step
<1>1. CASE Boot
  <2>1. gpif_acquiring = "STOPPED" /\ fifo = <<>>
    BY <1>1
    DEF Boot, BootEndpoints, BootGpif, Step, BootPcs, PatientInv, SettingsInv,
        FreshInv
  <2>2. gpif_acquiring' = "STOPPED" /\ fifo' = <<>>
    BY <1>1, <2>1
    DEF Boot, BootEndpoints, BootGpif, SetupEndpoints, GpifInitLa
  <2>3. UNCHANGED <<vendor_command, ep0Vars>> /\ main # "ack" /\ main' # "ack"
    BY <1>1 DEF Boot, BootEndpoints, BootGpif, Step, OnlyGpif
  <2> QED
    BY <2>1, <2>2, <2>3 DEF Promise!avars, ep0Vars
<1>2. CASE PollSetup \/ GpifPoll
  BY <1>2, <1>i, SamePromise
  DEF PollSetup, GpifPoll, Step, gpifVars, ep0Vars
<1>3. CASE Vendor
  BY <1>3, <1>i, SamePromise DEF Vendor, VendorTarget, Step, gpifVars, ep0Vars
<1>4. CASE AckVendor
  BY <1>4, <1>i, SamePromise DEF AckVendor, Step, gpifVars, ep0Vars
<1>5. CASE HandleSetup
  <2>1. UNCHANGED <<gpif, gpif_acquiring, wave>>
    BY <1>5
    DEF HandleSetup, Dispatch, VendorStart, SendFwVersion,
        SendRevidVersion, Refuse, ResetFifoNak, ResetFifoFlush,
        ResetFifoRelease, Handshake, ClearSud, OnlyEp0, SetNakAll, FlushFifo,
        gpifVars
  <2>2. main \in SetupPcs /\ main # "ack" /\ main' # "ack" /\ got_sud
    BY <1>5, <1>t
    DEF HandleSetup, Dispatch, CaseOf, VendorStart, SendFwVersion,
        SendRevidVersion, Refuse, ResetFifoNak, ResetFifoFlush,
        ResetFifoRelease, Handshake, ClearSud, Step, Requests, SetupPcs,
        PatientInv, RequestInv
  <2>3. fifo' = fifo
    <3>1. CASE ResetFifoFlush
      BY <2>2, <3>1
      DEF ResetFifoFlush, Step, FlushFifo, PatientInv, RequestInv,
          UndisturbedInv, Waiting, FreshInv
    <3> QED
      BY <1>5, <3>1
      DEF HandleSetup, Dispatch, VendorStart, SendFwVersion,
          SendRevidVersion, Refuse, ResetFifoNak, ResetFifoRelease, Handshake,
          ClearSud, OnlyEp0, SetNakAll, gpifVars
  <2>4. Requested' = Requested
    <3>1. CASE VendorStart \/ SendFwVersion \/ SendRevidVersion
      <4>1. vendor_command = "none"
        BY <1>t, <2>2, <3>1
        DEF VendorStart, SendFwVersion, SendRevidVersion, Step, PatientInv,
            RequestInv
      <4> QED
        BY <3>1, <4>1
        DEF VendorStart, SendFwVersion, SendRevidVersion, ArmOut, SendAnswer
    <3>2. CASE Dispatch \/ Refuse \/ ResetFifoNak \/ ResetFifoFlush
                 \/ ResetFifoRelease \/ Handshake \/ ClearSud
      <4>1. UNCHANGED <<vendor_command, busy, ep0bcl, ep0buf>>
        BY <3>2
        DEF Dispatch, Refuse, ResetFifoNak, ResetFifoFlush, ResetFifoRelease,
            Handshake, ClearSud, OnlyGpif, StallEp0, ClearHsnak, ep0Vars
      <4> QED
        BY <2>2, <4>1
    <3> QED
      BY <1>5, <3>1, <3>2 DEF HandleSetup
  <2> QED
    BY <1>i, <2>1, <2>3, <2>4, SamePromise
<1>6. CASE Prepare
  <2>1. UNCHANGED <<gpif, fifo, ep0Vars, vendor_command>>
    BY <1>6, PrepareFrame
    DEF Prepare, PrepWait, PrepFifo, PrepClock, PrepReject, PrepDelay, PrepDp,
        PrepDone, OnlyGpif
  <2>2. /\ gpif_acquiring = "STOPPED" /\ vendor_command = "START" /\ ~busy
        /\ ep0bcl = CmdSize /\ ep0buf \in Cmds /\ main # "ack" /\ ~gpif
    BY <1>6
    DEF Prepare, PrepWait, PrepFifo, PrepClock, PrepReject, PrepDelay, PrepDp,
        PrepDone, Step, PatientInv, RequestInv, UndisturbedInv, CommandInv,
        CommandStable, AcquisitionInv, NeverUntracked, Booted, BootPcs,
        Acting, ReconfigurePcs
  <2>3. CASE PrepReject
    <3>1. Promise!Reject
      BY <2>1, <2>2, <2>3
      DEF Promise!Reject, PrepReject, Step, gpifVars, ep0Vars
    <3> QED
      BY <3>1 DEF Promise!ANext
  <2>4. CASE PrepDone
    <3>1. ep0buf \notin LongDelay /\ wave = ep0buf
      BY <2>4 DEF PrepDone, Step, PatientInv, SettingsInv
    <3>2. Promise!Arm
      BY <1>i, <2>1, <2>2, <2>4, <3>1
      DEF Promise!Arm, PrepDone, Step, SetStatus, ep0Vars
    <3> QED
      BY <3>2 DEF Promise!ANext
  <2>5. CASE PrepWait \/ PrepFifo \/ PrepClock \/ PrepDelay \/ PrepDp
    <3>1. gpif_acquiring' = "STOPPED" /\ main' # "ack"
      BY <2>2, <2>5
      DEF PrepWait, PrepFifo, PrepClock, PrepDelay, PrepDp, Step,
          WriteFifoCfg, WriteIfConfig, WriteWave, gpifVars
    <3> QED
      BY <2>1, <2>2, <3>1 DEF Promise!avars, ep0Vars
  <2> QED
    BY <1>6, <2>3, <2>4, <2>5 DEF Prepare
<1>7. CASE ResetEp2
  <2>1. gpif_acquiring = "RUNNING" /\ ~gpif
    BY <1>7
    DEF ResetEp2, GpNak, GpManual, GpFlush, GpAuto, GpRelease, GpStopped, Step,
        PatientInv, AcquisitionInv, QuiescentReset, ResetPcs
  <2>2. /\ UNCHANGED <<gpif, wave, ep0Vars, vendor_command>>
        /\ main # "ack" /\ main' # "ack"
    BY <1>7, ResetFrame
    DEF ResetEp2, GpNak, GpManual, GpFlush, GpAuto, GpRelease, GpStopped, Step,
        OnlyGpif
  <2>3. CASE GpFlush
    <3>1. gpif_acquiring' = "RUNNING" /\ fifo' = <<>>
      BY <2>1, <2>3 DEF GpFlush, FlushFifo
    <3>2. CASE fifo = <<>>
      BY <2>1, <2>2, <3>1, <3>2 DEF Promise!avars, ep0Vars
    <3>3. CASE fifo # <<>>
      <4>1. Promise!Discard
        BY <2>1, <2>2, <3>1, <3>3 DEF Promise!Discard, ep0Vars
      <4> QED
        BY <4>1 DEF Promise!ANext
    <3> QED
      BY <3>2, <3>3
  <2>4. CASE GpStopped
    <3>1. fifo = <<>> /\ fifo' = fifo /\ gpif_acquiring' = "STOPPED"
      BY <2>4 DEF GpStopped, Step, SetStatus, FreshInv
    <3>2. Promise!Finish
      BY <2>1, <2>2, <3>1 DEF Promise!Finish, ep0Vars
    <3> QED
      BY <3>2 DEF Promise!ANext
  <2>5. CASE GpNak \/ GpManual \/ GpAuto \/ GpRelease
    <3>1. UNCHANGED <<gpif_acquiring, fifo>>
      BY <2>5 DEF GpNak, GpManual, GpAuto, GpRelease, SetNakAll, WriteFifoCfg
    <3> QED
      BY <1>i, <2>1, <2>2, <3>1, SamePromise DEF ep0Vars
  <2> QED
    BY <1>7, <2>3, <2>4, <2>5 DEF ResetEp2
<1> QED
  BY <1>1, <1>2, <1>3, <1>4, <1>5, <1>6, <1>7 DEF Main

LEMMA HandlerStep ==
  ASSUME PatientInv, FreshInv, Isr \/ Timer2Isr
  PROVE  [Promise!ANext]_(Promise!avars)
<1> USE DEF Phase
<1>1. CASE SudavIsr \/ IbnEnter \/ IbnClear \/ Timer2Isr
  BY <1>1, SamePromise
  DEF SudavIsr, IbnEnter, IbnStart, IbnIgnore, IbnClear, Timer2Isr, IsrStep,
      cpuVars, ep0Vars, gpifVars, Requested
<1>2. CASE IbnTrigger
  <2>1. gpif_acquiring = "PREPARED"
    BY <1>2 DEF IbnTrigger, IsrStep, PatientInv, AcquisitionInv, IbnOwns
  <2>2. Promise!Start
    BY <1>2, <2>1
    DEF IbnTrigger, IsrStep, GpifFifoRead, Promise!Start, Requested, ep0Vars
  <2> QED
    BY <2>2 DEF Promise!ANext
<1>3. CASE IbnMark
  <2>1. gpif_acquiring = "PREPARED"
    BY <1>3 DEF IbnMark, IsrStep, PatientInv, AcquisitionInv, IbnOwns
  <2> QED
    BY <1>3, <2>1
    DEF IbnMark, IsrStep, SetStatus, Promise!avars, Requested, ep0Vars
<1> QED
  BY <1>1, <1>2, <1>3 DEF Isr

LEMMA EngineStep ==
  ASSUME PatientInv, FreshInv, Engine PROVE [Promise!ANext]_(Promise!avars)
<1> USE DEF Phase, Requested
<1>1. /\ gpif_acquiring # "STOPPED" /\ gpif
      /\ gpif_acquiring = "PREPARED" => isr = "ibn_mark"
  BY DEF Engine, Sample, GpifDone, PatientInv, AcquisitionInv, NeverUntracked,
     Booted, SettingsInv, FreshInv
<1>2. UNCHANGED <<main, isr, vendor_command, ep0Vars, gpif_acquiring, wave>>
  BY DEF Engine, Sample, GpifDone, cpuVars
<1>3. CASE Sample
  <2>1. Promise!Fill
    BY <1>1, <1>2, <1>3 DEF Sample, Promise!Fill, ep0Vars
  <2> QED
    BY <2>1 DEF Promise!ANext
<1>4. CASE GpifDone
  <2>1. Promise!Overrun
    BY <1>1, <1>2, <1>4 DEF GpifDone, Promise!Overrun, ep0Vars
  <2> QED
    BY <2>1 DEF Promise!ANext
<1> QED
  BY <1>3, <1>4 DEF Engine

LEMMA HostStep ==
  ASSUME Patient, PatientInv, Host PROVE [Promise!ANext]_(Promise!avars)
<1> USE DEF Phase, Requested
<1>1. CASE BulkIn
  <2>1. UNCHANGED <<main, isr, vendor_command, ep0Vars>>
    BY <1>1 DEF BulkIn
  <2>2. CASE PopPacket
    <3>1. Promise!Deliver
      BY <2>1, <2>2 DEF PopPacket, HasPacket, Promise!Deliver, ep0Vars
    <3> QED
      BY <3>1 DEF Promise!ANext
  <2>3. CASE UNCHANGED gpifVars
    BY <2>1, <2>3, SamePromise DEF gpifVars, ep0Vars
  <2> QED
    BY <1>1, <2>2, <2>3 DEF BulkIn
<1>2. CASE \E r \in Requests : HostSetup(r)
  <2>1. vendor_command = "none" /\ vendor_command' = "none"
    BY <1>2 DEF HostSetup, SetupHandled, Patient
  <2> QED
    BY <1>2, <2>1, SamePromise DEF HostSetup, gpifVars
<1>3. CASE \E c \in Cmds : HostSendsCommand(c)
  <2>1. PICK c \in Cmds : HostSendsCommand(c)
    BY <1>3
  <2>2. /\ busy /\ vendor_command = "START" /\ main # "ack" /\ ~busy'
        /\ ep0buf' = c /\ ep0bcl' = CmdSize
        /\ UNCHANGED <<main, isr, vendor_command, gpifVars>>
    BY <2>1
    DEF HostSendsCommand, OutData, UnlessHost, cpuVars, PatientInv, RequestInv
  <2>3. gpif_acquiring = "STOPPED"
    BY <2>2 DEF PatientInv, UndisturbedInv
  <2>4. Promise!Accept(c)
    BY <2>2, <2>3 DEF Promise!Accept, gpifVars
  <2> QED
    BY <2>4 DEF Promise!ANext
<1>4. CASE HostSendsShort
  <2>1. CmdSize - 1 # CmdSize
    BY DEF CmdSize
  <2> QED
    BY <1>4, <2>1, SamePromise
    DEF HostSendsShort, OutData, UnlessHost, cpuVars, gpifVars
<1>5. CASE HostReads
  <2>1. vendor_command # "START"
    BY <1>5 DEF HostReads, PatientInv, RequestInv
  <2> QED
    BY <1>5, <2>1, SamePromise
    DEF HostReads, InData, UnlessHost, cpuVars, gpifVars
<1>6. CASE HostStatus \/ HostStalled \/ HostAborts
  BY <1>6, SamePromise
  DEF HostStatus, HostStalled, HostAborts, UnlessHost, cpuVars, gpifVars,
      ep0Vars
<1> QED
  BY <1>1, <1>2, <1>3, <1>4, <1>5, <1>6 DEF Host, HostContinues

(* With a patient host the firmware implements Acquisition: no command is  *)
(* acted on twice, no acquisition begins unasked, packets of two never     *)
(* meet.  (Its fairness is what the run checks.)                           *)
THEOREM ImplementsAcquisitionSteps ==
  ASSUME Patient, WarmBoot = FALSE PROVE Spec => Promise!ASpec
<1>1. Init => Promise!AInit
  BY DEF Init, GpifInit, Ep0Init, Promise!AInit, Requested, Phase
<1>2. ASSUME PatientInv, FreshInv, [Next]_vars
      PROVE  [Promise!ANext]_(Promise!avars)
  <2>1. CASE UNCHANGED vars
    BY <2>1, SamePromise DEF vars, cpuVars, gpifVars, ep0Vars, Requested
  <2> QED
    BY <1>2, <2>1, FirmwareStep, HandlerStep, EngineStep, HostStep DEF Next
<1> QED
  BY <1>1, <1>2, PatientInvariant, FreshInvariant, PTL
  DEF Spec, Promise!ASpec
=============================================================================
