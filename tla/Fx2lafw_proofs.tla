--------------------------- MODULE Fx2lafw_proofs ---------------------------
(***************************************************************************)
(* Proofs about the logic-analyzer firmware, for every set of commands,    *)
(* every FIFO depth and every host.                                        *)
(***************************************************************************)
EXTENDS Fx2lafwProperties, TLAPS

-----------------------------------------------------------------------------
(* The steps, sorted by what they may do to the GPIF and to EP0. *)

(* Every way in which a step changes the state of module Gpif. *)
GpifEffect ==
  \/ SetupEndpoints \/ GpifInitLa \/ FlushFifo \/ GpifFifoRead
  \/ \E on \in BOOLEAN : SetNakAll(on)
  \/ \E mode \in {"manual", "auto", "wide"} : WriteFifoCfg(mode)
  \/ \E clock \in {"30MHz", "48MHz"} : WriteIfConfig(clock)
  \/ \E program \in Cmds \cup {NoCmd} : WriteWave(program)
  \/ \E status \in GpifStatus : SetStatus(status)
  \/ Sample \/ GpifDone \/ PopPacket
  \/ UNCHANGED gpifVars

(* Every way in which a step changes the state of module Ep0. *)
Ep0Effect ==
  \/ \E r \in Requests : SetupArrives(r)
  \/ \E c \in Cmds : OutData(c, CmdSize)
  \/ OutData(NoCmd, CmdSize - 1)
  \/ InData
  \/ ArmOut
  \/ \E len \in 1 .. VersionSize : SendAnswer(len)
  \/ StallEp0 \/ ClearHsnak
  \/ UNCHANGED ep0Vars

(* EP2 accepts a packet only when it has room, so no effect overfills it.  *)
LEMMA GpifEffectType == ASSUME GpifTypeOK, GpifEffect PROVE GpifTypeOK'
<1> USE DEF GpifTypeOK
<1>1. CASE SetupEndpoints
  BY <1>1, BuffersAssumption DEF SetupEndpoints
<1>2. CASE GpifInitLa
  BY <1>2 DEF GpifInitLa, GpifStatus
<1>3. CASE FlushFifo
  BY <1>3, BuffersAssumption DEF FlushFifo
<1>4. CASE GpifFifoRead
  BY <1>4 DEF GpifFifoRead
<1>5. CASE \E on \in BOOLEAN : SetNakAll(on)
  BY <1>5 DEF SetNakAll
<1>6. CASE \E mode \in {"manual", "auto", "wide"} : WriteFifoCfg(mode)
  BY <1>6 DEF WriteFifoCfg
<1>7. CASE \E clock \in {"30MHz", "48MHz"} : WriteIfConfig(clock)
  BY <1>7 DEF WriteIfConfig
<1>8. CASE \E program \in Cmds \cup {NoCmd} : WriteWave(program)
  BY <1>8 DEF WriteWave
<1>9. CASE \E status \in GpifStatus : SetStatus(status)
  BY <1>9 DEF SetStatus
<1>10. CASE Sample
  BY <1>10, BuffersAssumption DEF Sample
<1>11. CASE GpifDone
  BY <1>11 DEF GpifDone
<1>12. CASE PopPacket
  BY <1>12, BuffersAssumption DEF PopPacket, HasPacket
<1>13. CASE UNCHANGED gpifVars
  BY <1>13 DEF gpifVars
<1> QED
  BY <1>1, <1>2, <1>3, <1>4, <1>5, <1>6, <1>7, <1>8, <1>9, <1>10, <1>11,
     <1>12, <1>13
  DEF GpifEffect

LEMMA Ep0EffectType == ASSUME Ep0TypeOK, Ep0Effect PROVE Ep0TypeOK'
<1> USE DEF Ep0TypeOK
<1>1. CASE \E r \in Requests : SetupArrives(r)
  BY <1>1 DEF SetupArrives
<1>2. CASE (\E c \in Cmds : OutData(c, CmdSize)) \/ OutData(NoCmd, CmdSize - 1)
  <2>1. CmdSize \in 0 .. CmdSize /\ CmdSize - 1 \in 0 .. CmdSize
    BY DEF CmdSize
  <2> QED
    BY <1>2, <2>1 DEF OutData
<1>3. CASE \E len \in 1 .. VersionSize : SendAnswer(len)
  <2>1. \A len \in 1 .. VersionSize : len \in 0 .. CmdSize
    BY DEF CmdSize, VersionSize
  <2> QED
    BY <1>3, <2>1 DEF SendAnswer
<1>4. CASE InData \/ ArmOut \/ StallEp0 \/ ClearHsnak
  <2>1. 0 \in 0 .. CmdSize
    BY DEF CmdSize
  <2> QED
    BY <1>4, <2>1 DEF InData, ArmOut, StallEp0, ClearHsnak
<1>5. CASE UNCHANGED ep0Vars
  BY <1>5 DEF ep0Vars
<1> QED
  BY <1>1, <1>2, <1>3, <1>4, <1>5 DEF Ep0Effect

-----------------------------------------------------------------------------
(* No step of the firmware, the engine or the host does anything else.     *)

LEMMA NextGpifEffect ==
  ASSUME TypeOK, [Next]_vars PROVE GpifEffect
<1>1. CASE Boot
  BY <1>1 DEF Boot, BootEndpoints, BootGpif, GpifEffect
<1>2. CASE PollSetup \/ Vendor \/ GpifPoll \/ AckVendor
  BY <1>2 DEF PollSetup, Vendor, GpifPoll, AckVendor, GpifEffect
<1>3. CASE HandleSetup
  BY <1>3
  DEF HandleSetup, Dispatch, VendorStart, SendFwVersion, SendRevidVersion,
      Refuse, ResetFifoNak, ResetFifoFlush, ResetFifoRelease, Handshake,
      ClearSud, OnlyEp0, GpifEffect
<1>4. CASE Prepare
  BY <1>4
  DEF Prepare, PrepWait, PrepFifo, PrepClock, PrepReject, PrepDelay, PrepDp,
      PrepDone, FifoCfg, IfConfig, GpifEffect, TypeOK, Ep0TypeOK, GpifStatus
<1>5. CASE ResetEp2
  BY <1>5
  DEF ResetEp2, GpNak, GpManual, GpFlush, GpAuto, GpRelease, GpStopped,
      GpifEffect, GpifStatus
<1>6. CASE Isr
  BY <1>6
  DEF Isr, SudavIsr, IbnEnter, IbnTrigger, IbnMark, IbnClear, GpifEffect,
      GpifStatus
<1>7. CASE Timer2Isr \/ Engine
  BY <1>7 DEF Timer2Isr, Engine, GpifEffect
<1>8. CASE Host
  BY <1>8
  DEF Host, BulkIn, HostSetup, HostContinues, HostSendsCommand,
      HostSendsShort, HostReads, HostStatus, HostStalled, HostAborts,
      UnlessHost, GpifEffect
<1>9. CASE UNCHANGED vars
  BY <1>9 DEF vars, GpifEffect
<1> QED
  BY <1>1, <1>2, <1>3, <1>4, <1>5, <1>6, <1>7, <1>8, <1>9 DEF Next, Main

LEMMA NextEp0Effect ==
  ASSUME [Next]_vars PROVE Ep0Effect
<1>1. CASE Boot \/ PollSetup \/ Vendor \/ GpifPoll \/ AckVendor
  BY <1>1
  DEF Boot, BootEndpoints, BootGpif, PollSetup, Vendor, GpifPoll, AckVendor,
      OnlyGpif, Ep0Effect
<1>2. CASE HandleSetup
  <2>1. CASE SendFwVersion
    <3>1. VersionSize \in 1 .. VersionSize
      BY DEF VersionSize
    <3> QED
      BY <2>1, <3>1 DEF SendFwVersion, Ep0Effect
  <2>2. CASE SendRevidVersion
    <3>1. 1 \in 1 .. VersionSize
      BY DEF VersionSize
    <3> QED
      BY <2>2, <3>1 DEF SendRevidVersion, Ep0Effect
  <2>3. CASE Dispatch \/ VendorStart \/ Refuse \/ ResetFifoNak
               \/ ResetFifoFlush \/ ResetFifoRelease \/ Handshake \/ ClearSud
    BY <2>3
    DEF Dispatch, VendorStart, Refuse, ResetFifoNak, ResetFifoFlush,
        ResetFifoRelease, Handshake, ClearSud, OnlyGpif, Ep0Effect
  <2> QED
    BY <1>2, <2>1, <2>2, <2>3 DEF HandleSetup
<1>3. CASE Prepare \/ ResetEp2
  BY <1>3
  DEF Prepare, PrepWait, PrepFifo, PrepClock, PrepReject, PrepDelay, PrepDp,
      PrepDone, ResetEp2, GpNak, GpManual, GpFlush, GpAuto, GpRelease,
      GpStopped, OnlyGpif, Ep0Effect
<1>4. CASE Isr \/ Timer2Isr \/ Engine
  BY <1>4
  DEF Isr, SudavIsr, IbnEnter, IbnTrigger, IbnMark, IbnClear, IsrStep,
      Timer2Isr, Engine, Ep0Effect
<1>5. CASE Host
  BY <1>5
  DEF Host, BulkIn, HostSetup, HostContinues, HostSendsCommand,
      HostSendsShort, HostReads, HostStatus, HostStalled, HostAborts,
      Ep0Effect
<1>6. CASE UNCHANGED vars
  BY <1>6 DEF vars, Ep0Effect
<1> QED
  BY <1>1, <1>2, <1>3, <1>4, <1>5, <1>6 DEF Next, Main

-----------------------------------------------------------------------------
(* Type correctness. *)

LEMMA NextCpuType ==
  ASSUME CpuTypeOK, setupdat \in Requests, [Next]_vars PROVE CpuTypeOK'
<1> USE DEF CpuTypeOK
<1>1. CASE Main
  <2>1. /\ main' \in MainPcs
        /\ UNCHANGED <<isr, irq>>
    BY <1>1
    DEF Main, Boot, BootEndpoints, BootGpif, PollSetup, HandleSetup, Dispatch,
        CaseOf, VendorStart, SendFwVersion, SendRevidVersion, Refuse,
        ResetFifoNak, ResetFifoFlush, ResetFifoRelease, Handshake, ClearSud,
        Vendor, VendorTarget, Prepare, PrepWait, PrepFifo, PrepClock,
        PrepReject, PrepDelay, PrepDp, PrepDone, AckVendor, GpifPoll, ResetEp2,
        GpNak, GpManual, GpFlush, GpAuto, GpRelease, GpStopped, Step, Requests,
        MainPcs, BootPcs, SetupPcs, ReconfigurePcs, ResetPcs
  <2>2. got_sud' \in BOOLEAN /\ vendor_command' \in {"none", "START"}
    BY <1>1
    DEF Main, Boot, BootEndpoints, BootGpif, PollSetup, HandleSetup, Dispatch,
        VendorStart, SendFwVersion, SendRevidVersion, Refuse,
        ResetFifoNak, ResetFifoFlush, ResetFifoRelease, Handshake, ClearSud,
        Vendor, Prepare, PrepWait, PrepFifo, PrepClock,
        PrepReject, PrepDelay, PrepDp, PrepDone, AckVendor, GpifPoll, ResetEp2,
        GpNak, GpManual, GpFlush, GpAuto, GpRelease, GpStopped, OnlyGpif,
        OnlyEp0
  <2> QED
    BY <2>1, <2>2
<1>2. CASE Isr
  BY <1>2
  DEF Isr, SudavIsr, IbnEnter, IbnStart, IbnIgnore, IbnTrigger, IbnMark,
      IbnClear, IsrStep, IsrPcs
<1>3. CASE Timer2Isr \/ Engine \/ UNCHANGED vars
  BY <1>3 DEF Timer2Isr, Engine, vars, cpuVars
<1>4. CASE Host
  BY <1>4
  DEF Host, BulkIn, HostSetup, HostContinues, HostSendsCommand,
      HostSendsShort, HostReads, HostStatus, HostStalled, HostAborts,
      UnlessHost, cpuVars
<1> QED
  BY <1>1, <1>2, <1>3, <1>4 DEF Next

(* No step of the main loop touches the LED, its counter or the host.      *)
LEMMA MainFrame == ASSUME Main PROVE UNCHANGED <<isr, irq, ledVars, hostVars>>
  BY DEF Main, Boot, BootEndpoints, BootGpif, PollSetup, HandleSetup, Dispatch,
     VendorStart, SendFwVersion, SendRevidVersion, Refuse, ResetFifoNak,
     ResetFifoFlush, ResetFifoRelease, Handshake, ClearSud, Vendor, Prepare,
     PrepWait, PrepFifo, PrepClock, PrepReject, PrepDelay, PrepDp, PrepDone,
     AckVendor, GpifPoll, ResetEp2, GpNak, GpManual, GpFlush, GpAuto,
     GpRelease, GpStopped, Step

LEMMA NextIoType == ASSUME IoTypeOK, [Next]_vars PROVE IoTypeOK'
<1> USE DEF IoTypeOK
<1>1. CASE Main
  BY <1>1, MainFrame DEF ledVars, hostVars
<1>2. CASE Isr
  <2>1. 1 \in 0 .. WordSize - 1
    BY DEF WordSize
  <2> QED
    BY <1>2, <2>1
    DEF Isr, SudavIsr, IbnEnter, IbnStart, IbnIgnore, IbnTrigger, IbnMark,
        IbnClear, IsrStep, ledVars, hostVars
<1>3. CASE Timer2Isr
  <2>1. ledcounter' \in 0 .. WordSize - 1
    <3>1. WordSize \in Nat \ {0}
      BY DEF WordSize
    <3>2. LedTick \in 0 .. WordSize - 1
      BY <3>1 DEF LedTick
    <3> QED
      BY <1>3, <3>1, <3>2, LedAssumption DEF Timer2Isr, ledVars
  <2>2. led' \in BOOLEAN
    BY <1>3 DEF Timer2Isr, ledVars
  <2> QED
    BY <1>3, <2>1, <2>2 DEF Timer2Isr, hostVars
<1>4. CASE Engine \/ UNCHANGED vars
  BY <1>4 DEF Engine, vars, ledVars, hostVars
<1>5. CASE Host
  BY <1>5
  DEF Host, BulkIn, HostSetup, HostContinues, HostSendsCommand,
      HostSendsShort, HostReads, HostStatus, HostStalled, HostAborts,
      UnlessHost, ledVars, hostVars
<1> QED
  BY <1>1, <1>2, <1>3, <1>4, <1>5 DEF Next

LEMMA InitType == ASSUME Init PROVE TypeOK
<1>1. GpifTypeOK
  <2>1. gpif \in BOOLEAN /\ fifocfg \in {"manual", "auto", "wide"}
    BY DEF Init, GpifInit
  <2>2. fifo \in Seq(Cmds \cup {NoCmd}) /\ Len(fifo) <= Buffers
    BY BuffersAssumption DEF Init, GpifInit
  <2> QED
    BY <2>1, <2>2 DEF Init, GpifInit, GpifTypeOK, GpifStatus
<1>2. Ep0TypeOK
  <2>1. 0 \in 0 .. CmdSize
    BY DEF CmdSize
  <2> QED
    BY <2>1 DEF Init, Ep0Init, Ep0TypeOK, Requests
<1>3. CpuTypeOK
  BY DEF Init, CpuTypeOK, MainPcs, BootPcs, IsrPcs
<1>4. IoTypeOK
  <2>1. 0 \in 0 .. WordSize - 1
    BY DEF WordSize
  <2> QED
    BY <2>1 DEF Init, IoTypeOK
<1> QED
  BY <1>1, <1>2, <1>3, <1>4 DEF TypeOK

LEMMA NextType == ASSUME TypeOK, [Next]_vars PROVE TypeOK'
<1>1. GpifTypeOK'
  BY NextGpifEffect, GpifEffectType DEF TypeOK
<1>2. Ep0TypeOK'
  BY NextEp0Effect, Ep0EffectType DEF TypeOK
<1>3. CpuTypeOK'
  BY NextCpuType DEF TypeOK, Ep0TypeOK
<1>4. IoTypeOK'
  BY NextIoType DEF TypeOK
<1> QED
  BY <1>1, <1>2, <1>3, <1>4 DEF TypeOK

(* Type correctness of the whole system: in particular EP2 never holds     *)
(* more packets than it has buffers, and ledcounter stays a 16-bit WORD.   *)
THEOREM TypeCorrect == Spec => []TypeOK
<1>1. Init => TypeOK
  BY InitType
<1>2. TypeOK /\ [Next]_vars => TypeOK'
  BY NextType
<1> QED
  BY <1>1, <1>2, PTL DEF Spec

-----------------------------------------------------------------------------
(* What each of the five actors leaves alone. *)

LEMMA IsrFrame ==
  ASSUME Isr PROVE UNCHANGED <<main, vendor_command, hostVars, ep0Vars>>
  BY DEF Isr, SudavIsr, IbnEnter, IbnTrigger, IbnMark, IbnClear, IsrStep

LEMMA HostFrame ==
  ASSUME Host PROVE /\ UNCHANGED <<main, isr, ledVars>>
                    /\ PopPacket \/ UNCHANGED gpifVars
  BY DEF Host, BulkIn, HostSetup, HostContinues, HostSendsCommand,
     HostSendsShort, HostReads, HostStatus, HostStalled, HostAborts,
     UnlessHost, cpuVars

(* The parts of the main loop that never write a GPIF register.            *)
LEMMA QuietMainFrame ==
  ASSUME PollSetup \/ Vendor \/ GpifPoll \/ AckVendor
  PROVE  UNCHANGED gpifVars
  BY DEF PollSetup, Vendor, GpifPoll, AckVendor

(* The handling of SETUP packets leaves the engine and the status alone.   *)
LEMMA SetupFrame ==
  ASSUME HandleSetup
  PROVE  UNCHANGED <<gpif, gpif_acquiring, fifocfg>>
  BY DEF HandleSetup, Dispatch, VendorStart, SendFwVersion, SendRevidVersion,
     Refuse, ResetFifoNak, ResetFifoFlush, ResetFifoRelease, Handshake,
     ClearSud, OnlyEp0, SetNakAll, FlushFifo, gpifVars

LEMMA PrepareFrame ==
  ASSUME Prepare PROVE UNCHANGED <<gpif, fifo, nakall, ep0Vars>>
  BY DEF Prepare, PrepWait, PrepFifo, PrepClock, PrepReject, PrepDelay, PrepDp,
     PrepDone, WriteFifoCfg, WriteIfConfig, WriteWave, SetStatus, OnlyGpif,
     gpifVars

LEMMA ResetFrame ==
  ASSUME ResetEp2 PROVE UNCHANGED <<gpif, ifconfig, wave, ep0Vars>>
  BY DEF ResetEp2, GpNak, GpManual, GpFlush, GpAuto, GpRelease, GpStopped,
     SetNakAll, WriteFifoCfg, FlushFifo, SetStatus, OnlyGpif

-----------------------------------------------------------------------------
(* The command in EP0BUF. *)

CommandInv ==
  /\ CommandStable
  /\ ep0bcl = CmdSize => ep0buf \in Cmds

LEMMA NextCommand ==
  ASSUME TypeOK, CommandInv, [Next]_vars PROVE CommandInv'
<1> USE DEF CommandInv, CommandStable
<1> DEFINE Parsing == main \in ReconfigurePcs \cup {"prep_wait"}
<1>1. ASSUME UNCHANGED ep0Vars, Parsing' => Parsing
      PROVE  CommandInv'
  BY <1>1 DEF ep0Vars
<1>2. CASE Boot \/ PollSetup \/ GpifPoll \/ AckVendor \/ ResetEp2
  <2>1. UNCHANGED ep0Vars
    BY <1>2, ResetFrame
    DEF Boot, BootEndpoints, BootGpif, PollSetup, GpifPoll, AckVendor, OnlyGpif
  <2>2. ~Parsing'
    BY <1>2
    DEF Boot, BootEndpoints, BootGpif, PollSetup, GpifPoll, AckVendor,
        ResetEp2, GpNak, GpManual, GpFlush, GpAuto, GpRelease, GpStopped, Step,
        ReconfigurePcs
  <2> QED
    BY <1>1, <2>1, <2>2
<1>3. CASE HandleSetup
  <2>1. ~Parsing'
    BY <1>3
    DEF HandleSetup, Dispatch, CaseOf, VendorStart, SendFwVersion,
        SendRevidVersion, Refuse, ResetFifoNak, ResetFifoFlush,
        ResetFifoRelease, Handshake, ClearSud, Step, ReconfigurePcs, Requests,
        TypeOK, Ep0TypeOK
  <2>2. ep0bcl' = CmdSize => ep0bcl = CmdSize /\ ep0buf' = ep0buf
    <3>1. 0 # CmdSize /\ 1 # CmdSize /\ VersionSize # CmdSize
      BY DEF CmdSize, VersionSize
    <3> QED
      BY <1>3, <3>1
      DEF HandleSetup, Dispatch, VendorStart, SendFwVersion,
          SendRevidVersion, Refuse, ResetFifoNak, ResetFifoFlush,
          ResetFifoRelease, Handshake, ClearSud, OnlyGpif, ArmOut, SendAnswer,
          StallEp0, ClearHsnak, ep0Vars
  <2> QED
    BY <2>1, <2>2
<1>4. CASE Vendor
  BY <1>4 DEF Vendor, VendorTarget, Step, ep0Vars, ReconfigurePcs
<1>5. CASE Prepare
  <2>1. Parsing
    BY <1>5
    DEF Prepare, PrepWait, PrepFifo, PrepClock, PrepReject, PrepDelay, PrepDp,
        PrepDone, Step, ReconfigurePcs
  <2> QED
    BY <1>1, <1>5, <2>1, PrepareFrame
<1>6. CASE Isr \/ Timer2Isr \/ Engine \/ UNCHANGED vars
  <2>1. UNCHANGED <<main, ep0Vars>>
    BY <1>6, IsrFrame DEF Timer2Isr, Engine, vars, cpuVars
  <2> QED
    BY <1>1, <2>1
<1>7. CASE Host
  <2>1. main' = main
    BY <1>7, HostFrame
  <2>2. CASE \E r \in Requests : HostSetup(r)
    BY <2>1, <2>2 DEF HostSetup, SetupArrives
  <2>3. CASE \E c \in Cmds : HostSendsCommand(c)
    BY <2>1, <2>3 DEF HostSendsCommand, OutData
  <2>4. CASE HostSendsShort
    <3>1. CmdSize - 1 # CmdSize
      BY DEF CmdSize
    <3> QED
      BY <2>1, <2>4, <3>1 DEF HostSendsShort, OutData
  <2>5. CASE HostReads
    BY <2>1, <2>5 DEF HostReads, InData
  <2>6. CASE BulkIn \/ HostStatus \/ HostStalled \/ HostAborts
    BY <1>1, <2>1, <2>6 DEF BulkIn, HostStatus, HostStalled, HostAborts
  <2> QED
    BY <1>7, <2>2, <2>3, <2>4, <2>5, <2>6 DEF Host, HostContinues
<1> QED
  BY <1>2, <1>3, <1>4, <1>5, <1>6, <1>7 DEF Next, Main

(* No host, however it interleaves, aborts or repeats control transfers,   *)
(* can change the START command while gpif_acquisition_prepare reads it.   *)
THEOREM CommandIsStable == Spec => []CommandStable
<1>1. Init => TypeOK /\ CommandInv
  <2>1. 0 # CmdSize
    BY DEF CmdSize
  <2> QED
    BY <2>1, InitType
    DEF Init, Ep0Init, CommandInv, CommandStable, ReconfigurePcs
<1>2. TypeOK /\ CommandInv /\ [Next]_vars => TypeOK' /\ CommandInv'
  BY NextType, NextCommand
<1>3. CommandInv => CommandStable
  BY DEF CommandInv
<1> QED
  BY <1>1, <1>2, <1>3, PTL DEF Spec

-----------------------------------------------------------------------------
(* The acquisition: status, engine and LED counter. *)

(* From its test of gpif_acquiring on, ibn_isr owns the status, and it has *)
(* set ledcounter.                                                         *)
IbnOwns ==
  isr \in {"ibn_start", "ibn_mark"} =>
    gpif_acquiring = "PREPARED" /\ ledcounter \in 1 .. LedPeriod

AcquisitionInv ==
  /\ QuiescentReset
  /\ NeverUntracked
  /\ LedCounterLive
  /\ IbnOwns

LEMMA LedPeriodBounds ==
  LedPeriod \in Nat /\ 1 <= LedPeriod /\ LedPeriod < 65536
<1>1. WordSize = 65536
  BY DEF WordSize
<1> QED
  BY <1>1, LedAssumption

LEMMA NextAcquisition ==
  ASSUME TypeOK, AcquisitionInv, [Next]_vars PROVE AcquisitionInv'
<1> USE DEF AcquisitionInv, QuiescentReset, NeverUntracked, LedCounterLive,
            IbnOwns, Booted
<1>1. CASE Main
  <2>1. UNCHANGED <<isr, ledcounter>> /\ isr = "none"
    BY <1>1, MainFrame
    DEF ledVars, Main, Boot, BootEndpoints, BootGpif, PollSetup, HandleSetup,
        Dispatch, VendorStart, SendFwVersion, SendRevidVersion, Refuse,
        ResetFifoNak, ResetFifoFlush, ResetFifoRelease, Handshake, ClearSud,
        Vendor, Prepare, PrepWait, PrepFifo, PrepClock, PrepReject, PrepDelay,
        PrepDp, PrepDone, AckVendor, GpifPoll, ResetEp2, GpNak, GpManual,
        GpFlush, GpAuto, GpRelease, GpStopped, Step
  <2>2. CASE Boot
    BY <2>1, <2>2
    DEF Boot, BootEndpoints, BootGpif, Step, SetupEndpoints, GpifInitLa,
        BootPcs, ResetPcs
  <2>3. CASE PollSetup \/ Vendor \/ AckVendor
    BY <2>1, <2>3, QuietMainFrame
    DEF PollSetup, Vendor, VendorTarget, AckVendor, Step, gpifVars, BootPcs,
        ResetPcs
  <2>4. CASE HandleSetup
    <3>1. main \notin BootPcs /\ main' \notin ResetPcs
      BY <2>4
      DEF HandleSetup, Dispatch, CaseOf, VendorStart, SendFwVersion,
          SendRevidVersion, Refuse, ResetFifoNak, ResetFifoFlush,
          ResetFifoRelease, Handshake, ClearSud, Step, BootPcs, ResetPcs,
          Requests, TypeOK, Ep0TypeOK
    <3> QED
      BY <2>1, <2>4, <3>1, SetupFrame
  <2>5. CASE Prepare
    <3>1. main \notin BootPcs /\ main' \notin ResetPcs
      BY <2>5
      DEF Prepare, PrepWait, PrepFifo, PrepClock, PrepReject, PrepDelay,
          PrepDp, PrepDone, Step, BootPcs, ResetPcs
    <3>2. gpif_acquiring' \in {gpif_acquiring, "PREPARED"}
      BY <2>5
      DEF Prepare, PrepWait, PrepFifo, PrepClock, PrepReject, PrepDelay,
          PrepDp, PrepDone, WriteFifoCfg, WriteIfConfig, WriteWave, SetStatus,
          gpifVars
    <3> QED
      BY <2>1, <2>5, <3>1, <3>2, PrepareFrame
  <2>6. CASE GpifPoll
    BY <2>1, <2>6, QuietMainFrame
    DEF GpifPoll, Completed, Step, gpifVars, BootPcs, ResetPcs
  <2>7. CASE ResetEp2
    <3>1. main \in ResetPcs
      BY <2>7
      DEF ResetEp2, GpNak, GpManual, GpFlush, GpAuto, GpRelease, GpStopped,
          Step, ResetPcs
    <3>2. \/ gpif_acquiring' = gpif_acquiring
          \/ gpif_acquiring' = "STOPPED" /\ main' \notin ResetPcs
      BY <2>7
      DEF ResetEp2, GpNak, GpManual, GpFlush, GpAuto, GpRelease, GpStopped,
          Step, SetNakAll, WriteFifoCfg, FlushFifo, SetStatus, ResetPcs
    <3> QED
      BY <2>1, <2>7, <3>1, <3>2, ResetFrame
  <2> QED
    BY <1>1, <2>2, <2>3, <2>4, <2>5, <2>6, <2>7 DEF Main
<1>2. CASE Isr
  <2>1. main' = main
    BY <1>2, IsrFrame
  <2>2. CASE SudavIsr
    BY <2>1, <2>2 DEF SudavIsr, ledVars, gpifVars
  <2>3. CASE IbnEnter
    <3>1. 1 \in 1 .. LedPeriod
      BY LedPeriodBounds
    <3>2. UNCHANGED gpifVars
      BY <2>3 DEF IbnEnter
    <3>3. CASE IbnStart
      BY <2>1, <3>1, <3>2, <3>3 DEF IbnStart, gpifVars
    <3>4. CASE IbnIgnore
      BY <2>1, <3>2, <3>4 DEF IbnIgnore, gpifVars, ledVars
    <3> QED
      BY <2>3, <3>3, <3>4 DEF IbnEnter
  <2>4. CASE IbnTrigger
    BY <2>1, <2>4 DEF IbnTrigger, IsrStep, GpifFifoRead, ledVars
  <2>5. CASE IbnMark
    BY <2>1, <2>5 DEF IbnMark, IsrStep, SetStatus, ledVars
  <2>6. CASE IbnClear
    BY <2>1, <2>6 DEF IbnClear, IsrStep, ledVars, gpifVars
  <2> QED
    BY <1>2, <2>2, <2>3, <2>4, <2>5, <2>6 DEF Isr
<1>3. CASE Timer2Isr
  <2>1. UNCHANGED <<main, isr, gpif, gpif_acquiring>> /\ isr = "none"
    BY <1>3 DEF Timer2Isr, cpuVars, gpifVars
  <2>2. gpif_acquiring = "RUNNING" => ledcounter' \in 1 .. LedPeriod
    <3>1. SUFFICES ASSUME gpif_acquiring = "RUNNING"
                   PROVE  ledcounter' \in 1 .. LedPeriod
      OBVIOUS
    <3>2. ledcounter \in Nat /\ 1 <= ledcounter /\ ledcounter < 65536
      BY <3>1, LedPeriodBounds
    <3>3. LedTick = ledcounter - 1
      BY <3>2 DEF LedTick, WordSize
    <3>4. ledcounter' = IF LedTick = 0 THEN LedPeriod ELSE LedTick
      BY <1>3, <3>1 DEF Timer2Isr
    <3> QED
      BY <3>1, <3>2, <3>3, <3>4, LedPeriodBounds
  <2> QED
    BY <2>1, <2>2
<1>4. CASE Engine
  BY <1>4 DEF Engine, Sample, GpifDone, cpuVars, ledVars
<1>5. CASE Host
  BY <1>5, HostFrame DEF PopPacket, gpifVars, ledVars
<1>6. CASE UNCHANGED vars
  BY <1>6 DEF vars, cpuVars, ledVars, gpifVars
<1> QED
  BY <1>1, <1>2, <1>3, <1>4, <1>5, <1>6 DEF Next

LEMMA AcquisitionInvariant == Spec => []AcquisitionInv
<1>1. Init => TypeOK /\ AcquisitionInv
  BY InitType
  DEF Init, GpifInit, AcquisitionInv, QuiescentReset, NeverUntracked,
      LedCounterLive, IbnOwns, Booted, ResetPcs, BootPcs
<1>2. TypeOK /\ AcquisitionInv /\ [Next]_vars => TypeOK' /\ AcquisitionInv'
  BY NextType, NextAcquisition
<1> QED
  BY <1>1, <1>2, PTL DEF Spec

(* Between gpif_poll's test of GPIFTRIG and the end of its reset of EP2,   *)
(* no interrupt restarts the engine.                                       *)
THEOREM ResetIsQuiescent == Spec => []QuiescentReset
  BY AcquisitionInvariant, PTL DEF AcquisitionInv

(* The engine never samples while the firmware believes it stopped.        *)
THEOREM EngineIsTracked == Spec => []NeverUntracked
  BY AcquisitionInvariant, PTL DEF AcquisitionInv

(* timer2_isr's decrement-before-test never wraps ledcounter around.       *)
THEOREM LedCounterNeverWraps == Spec => []LedCounterLive
  BY AcquisitionInvariant, PTL DEF AcquisitionInv

-----------------------------------------------------------------------------
(* NAK-ALL around manual mode. *)

ManualInv ==
  /\ fifocfg = "manual" => main \in {"boot_ep", "gp_flush", "gp_auto"}
  /\ main \in {"gp_manual", "gp_flush", "gp_auto", "gp_release"} => nakall

LEMMA NextManual ==
  ASSUME TypeOK, ManualInv, [Next]_vars PROVE ManualInv'
<1> USE DEF ManualInv
<1>1. CASE Boot
  BY <1>1
  DEF Boot, BootEndpoints, BootGpif, Step, SetupEndpoints, GpifInitLa
<1>2. CASE PollSetup \/ Vendor \/ AckVendor \/ GpifPoll
  BY <1>2, QuietMainFrame
  DEF PollSetup, Vendor, VendorTarget, AckVendor, GpifPoll, Step, gpifVars
<1>3. CASE HandleSetup
  <2>1. /\ main \notin {"boot_ep", "gp_flush", "gp_auto"}
        /\ main' \notin {"gp_manual", "gp_flush", "gp_auto", "gp_release"}
    BY <1>3
    DEF HandleSetup, Dispatch, CaseOf, VendorStart, SendFwVersion,
        SendRevidVersion, Refuse, ResetFifoNak, ResetFifoFlush,
        ResetFifoRelease, Handshake, ClearSud, Step, Requests, TypeOK,
        Ep0TypeOK
  <2> QED
    BY <1>3, <2>1, SetupFrame
<1>4. CASE Prepare
  <2>1. /\ main \notin {"boot_ep", "gp_flush", "gp_auto"}
        /\ main' \notin {"gp_manual", "gp_flush", "gp_auto", "gp_release"}
    BY <1>4
    DEF Prepare, PrepWait, PrepFifo, PrepClock, PrepReject, PrepDelay, PrepDp,
        PrepDone, Step
  <2>2. fifocfg' \in {fifocfg, "auto", "wide"}
    BY <1>4
    DEF Prepare, PrepWait, PrepFifo, PrepClock, PrepReject, PrepDelay, PrepDp,
        PrepDone, WriteFifoCfg, FifoCfg, WriteIfConfig, WriteWave, SetStatus,
        gpifVars
  <2> QED
    BY <2>1, <2>2
<1>5. CASE ResetEp2
  BY <1>5
  DEF ResetEp2, GpNak, GpManual, GpFlush, GpAuto, GpRelease, GpStopped, Step,
      SetNakAll, WriteFifoCfg, FlushFifo, SetStatus
<1>6. CASE Isr
  <2>1. UNCHANGED <<fifocfg, nakall>>
    BY <1>6
    DEF Isr, SudavIsr, IbnEnter, IbnTrigger, IbnMark, IbnClear, GpifFifoRead,
        SetStatus, gpifVars
  <2> QED
    BY <1>6, <2>1, IsrFrame
<1>7. CASE Timer2Isr \/ Engine \/ UNCHANGED vars
  BY <1>7 DEF Timer2Isr, Engine, Sample, GpifDone, vars, cpuVars, gpifVars
<1>8. CASE Host
  BY <1>8, HostFrame DEF PopPacket, gpifVars
<1> QED
  BY <1>1, <1>2, <1>3, <1>4, <1>5, <1>6, <1>7, <1>8 DEF Next, Main

(* gpif_poll's NAK-ALL does what its comment says it is for: in manual     *)
(* mode EP2 answers no IN token with a packet.                             *)
THEOREM ManualModeIsUnread == Spec => []NoReadInManualMode
<1>1. Init => TypeOK /\ ManualInv
  BY InitType DEF Init, ManualInv
<1>2. TypeOK /\ ManualInv /\ [Next]_vars => TypeOK' /\ ManualInv'
  BY NextType, NextManual
<1>3. ManualInv => NoReadInManualMode
  BY DEF ManualInv, NoReadInManualMode, Booted, BootPcs, HasPacket
<1> QED
  BY <1>1, <1>2, <1>3, PTL DEF Spec
=============================================================================
