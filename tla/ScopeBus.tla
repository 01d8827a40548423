------------------------------- MODULE ScopeBus -------------------------------
(***************************************************************************)
(* The oscilloscope firmware and the state of the bus: reset, the switch   *)
(* to high speed, suspend, resume and remote wakeup.  It has the interrupt *)
(* handlers of src/include/scope.inc step by step, the main loop with its  *)
(* sleep, and of the control requests the ones that the bus state depends  *)
(* on or that depend on it.                                                *)
(***************************************************************************)
EXTENDS Autovector

CONSTANTS
  Alternates,   \* the alternate settings that the host selects
  Recovers,     \* a reset lasts longer than the main loop needs for a request
  MaxEvents     \* bound on suspends, resets and signals of the wakeup pin

ASSUME ScopeBusAssumption ==
  Alternates \subseteq 0 .. 7 /\ Recovers \in BOOLEAN /\ MaxEvents \in Nat

VARIABLES
  main,                 \* where the main loop is
  isr,                  \* the INT2 handler that runs, and where it is
  resi, ea,             \* EICON.4, and the global interrupt enable
  dosud, dosuspend, remote_wakeup_allowed, pDevConfig,
  packets,              \* EPxCFG, EPxAUTOINLEN, EP2ISOINPKTS
  wu,                   \* WAKEUPCS.WU; the pin is enabled (WUEN)
  sigresume,            \* USBCS.SIGRESUME
  setupdat, hsnak,      \* endpoint 0
  bus, speed,           \* what the host does with the bus
  ctl,                  \* a control transfer is going on
  selected,             \* what the host selected since the last reset
  events

flagVars == <<dosud, dosuspend>>
usbVars == <<remote_wakeup_allowed, pDevConfig, packets>>
hostVars == <<bus, speed, ctl, selected, setupdat, events>>
wakeVars == <<wu, sigresume>>
vars == <<main, isr, int2Vars, resi, ea, flagVars, usbVars, wakeVars, hsnak,
          hostVars>>

Speeds == {"full", "high"}
NotSelected == 255
NoIsr == [of |-> "none", at |-> "none"]
Enabled == {"sudav", "usbreset", "hispeed", "suspend"}

(* The two bytes of wMaxPacketSize in each alternate setting's endpoint    *)
(* descriptor; beyond the descriptor there are other bytes of the table.   *)
MaxPacket == [
  high |-> <<<<0, 2>>, <<0, 20>>, <<0, 12>>, <<0, 4>>, <<0, 4>>, <<0, 4>>,
             <<0, 4>>, <<0, 2>>>>,
  full |-> <<<<64, 0>>, <<255, 3>>, <<0, 2>>>>]
Settings(s) == 0 .. Len(MaxPacket[s]) - 1
Stray == <<255, 255>>

pPacketSize(s, alt) ==
  IF alt \in Settings(s) THEN MaxPacket[s][alt + 1] ELSE Stray

Packets(ep, bytes, perFrame) ==
  [ep |-> ep, bytes |-> bytes, perFrame |-> perFrame]

\* Slip: the bits that say how many packets there are stay in the length.
Configured_unmasked(size, alt) ==
  IF alt = 0 THEN Packets(6, size[1] + 256 * size[2], 1)
  ELSE Packets(2, size[1] + 256 * size[2], (size[2] \div 8) + 1)

(* select_interface.  Setting 0 is bulk on EP6, the others isochronous on  *)
(* EP2, with up to three packets per microframe.                           *)
Configured(size, alt) ==
  IF alt = 0 THEN Packets(6, size[1] + 256 * size[2], 1)
  ELSE Packets(2, size[1] + 256 * (size[2] % 8), (size[2] \div 8) + 1)

Requests ==
  [code : {"SET_INTERFACE"}, value : Alternates]
    \cup [code : {"SET_FEATURE", "CLEAR_FEATURE"}, value : {1}]

Pcs == {"enable", "renumerate", "sud", "act", "ack", "suspend", "clear_wu",
        "sleep", "asleep", "woken", "resume", "signal"}

TypeOK ==
  /\ main \in Pcs
  /\ isr \in {NoIsr} \cup [of : Enabled, at : {"body", "first", "second"}]
  /\ usbirq \subseteq Enabled /\ usbie \in {{}, Enabled}
  /\ {usbint, resi, ea, dosud, dosuspend, remote_wakeup_allowed, wu,
      sigresume, hsnak, ctl} \subseteq BOOLEAN
  /\ pDevConfig \in Speeds /\ speed \in Speeds
  /\ packets.ep \in {2, 6} /\ packets.bytes \in 0 .. 2047
  /\ packets.perFrame \in 1 .. 32
  /\ setupdat \in Requests
  /\ bus \in {"off", "attached", "active", "idle"}
  /\ selected \in Alternates \cup {NotSelected}
  /\ events \in 0 .. MaxEvents

(* init() has selected setting 0 at the speed the boot loader ran with,    *)
(* which may have left requests.                                           *)
Init ==
  /\ main = "enable" /\ isr = NoIsr
  /\ usbirq \in SUBSET (Enabled \ {"sudav"}) /\ usbie = {} /\ usbint = FALSE
  /\ resi = FALSE /\ ea = FALSE
  /\ dosud = FALSE /\ dosuspend = FALSE
  /\ remote_wakeup_allowed = FALSE /\ pDevConfig = "full"
  /\ speed \in Speeds
  /\ packets = Configured(pPacketSize(speed, 0), 0)
  /\ wu \in BOOLEAN /\ sigresume = FALSE
  /\ setupdat \in {r \in Requests : r.code = "CLEAR_FEATURE"}
  /\ hsnak = FALSE
  /\ bus = "off" /\ ctl = FALSE /\ selected = NotSelected /\ events = 0

-----------------------------------------------------------------------------
(* The main loop, which an INT2 handler interrupts as a whole.             *)
Step(from, to) ==
  /\ main = from /\ isr = NoIsr
  /\ main' = to
  /\ UNCHANGED <<isr, resi, speed, ctl, selected, setupdat, events>>

Still == UNCHANGED <<int2Vars, ea, bus>>
Quietly == Still /\ UNCHANGED <<flagVars, usbVars, hsnak>>

EnableInterrupts ==
  /\ Step("enable", "renumerate")
  /\ Enable(Enabled)
  /\ ea' = TRUE
  /\ UNCHANGED <<flagVars, usbVars, wakeVars, hsnak, bus>>

(* RENUMERATE_UNCOND(): off the bus, and after delay(1500) on it again;    *)
(* the handlers of what was pending have run by then.                      *)
Renumerate ==
  /\ Step("renumerate", "sud")
  /\ Raised = {}
  /\ bus' = "attached"
  /\ UNCHANGED <<int2Vars, ea, flagVars, usbVars, wakeVars, hsnak>>

PollSud ==
  /\ Step("sud", IF dosud THEN "act" ELSE "suspend")
  /\ dosud' = FALSE
  /\ Still /\ UNCHANGED <<dosuspend, usbVars, wakeVars, hsnak>>

(* handle_setupdata *)
SetInterface ==
  /\ setupdat.code = "SET_INTERFACE"
  /\ packets' = Configured(pPacketSize(speed, setupdat.value), setupdat.value)
  /\ UNCHANGED remote_wakeup_allowed

Feature ==
  /\ setupdat.code # "SET_INTERFACE"
  /\ remote_wakeup_allowed' = (setupdat.code = "SET_FEATURE")
  /\ UNCHANGED packets

Act ==
  /\ Step("act", "ack")
  /\ SetInterface \/ Feature
  /\ Still /\ UNCHANGED <<flagVars, pDevConfig, wakeVars, hsnak>>

Ack ==
  /\ Step("ack", "suspend")
  /\ hsnak' = FALSE
  /\ Still /\ UNCHANGED <<flagVars, usbVars, wakeVars>>

PollSuspend ==
  /\ Step("suspend", IF dosuspend THEN "clear_wu" ELSE "sud")
  /\ dosuspend' = FALSE
  /\ Still /\ UNCHANGED <<dosud, usbVars, wakeVars, hsnak>>

(* "Make sure ext wakeups are cleared." *)
ClearWakeup ==
  /\ Step("clear_wu", "sleep")
  /\ wu' = FALSE
  /\ Quietly /\ UNCHANGED sigresume

(* SUSPEND = 1; PCON |= 1 *)
Sleep ==
  /\ Step("sleep", "asleep")
  /\ Quietly /\ UNCHANGED wakeVars

REMOTE_WAKEUP == wu

\* Slip: a wakeup that is allowed is slept over.
Woken_negated ==
  /\ Step("woken", IF remote_wakeup_allowed /\ REMOTE_WAKEUP
                   THEN "clear_wu" ELSE "resume")
  /\ Quietly /\ UNCHANGED wakeVars

Woken ==
  /\ Step("woken", IF ~remote_wakeup_allowed /\ REMOTE_WAKEUP
                   THEN "clear_wu" ELSE "resume")
  /\ Quietly /\ UNCHANGED wakeVars

Resume ==
  /\ Step("resume", IF REMOTE_WAKEUP THEN "signal" ELSE "sud")
  /\ sigresume' = REMOTE_WAKEUP
  /\ Quietly /\ UNCHANGED wu

(* delay(15): long enough for the host to take the resume over. *)
EndSignal ==
  /\ Step("signal", "sud")
  /\ bus = "active"
  /\ sigresume' = FALSE
  /\ Quietly /\ UNCHANGED wu

Main ==
  \/ EnableInterrupts \/ Renumerate \/ PollSud \/ Act \/ Ack \/ PollSuspend
  \/ ClearWakeup \/ Sleep \/ Woken \/ Resume \/ EndSignal

-----------------------------------------------------------------------------
(* Interrupt handlers. *)
OnlyIsr == UNCHANGED <<ea, packets, remote_wakeup_allowed, wakeVars, hsnak,
                       hostVars>>

(* The resume interrupt comes before all others, and ends the sleep. *)
ResumeIsr ==
  /\ ea /\ resi /\ isr = NoIsr
  /\ resi' = FALSE
  /\ main' = IF main = "asleep" THEN "woken" ELSE main
  /\ UNCHANGED <<isr, int2Vars, flagVars, pDevConfig>> /\ OnlyIsr

EnterIsr ==
  /\ ea /\ usbint /\ Raised # {} /\ ~resi
  /\ isr = NoIsr /\ main # "asleep"
  /\ isr' = [of |-> Vector, at |-> "body"]
  /\ UNCHANGED <<main, int2Vars, resi, flagVars, pDevConfig>> /\ OnlyIsr

IsrStep(from, next) ==
  /\ isr.at = from
  /\ isr' = next
  /\ UNCHANGED <<main, resi>> /\ OnlyIsr

(* handle_hispeed in its two handlers, and what the other two leave to the *)
(* main loop.                                                              *)
IsrBody ==
  /\ IsrStep("body", [isr EXCEPT !.at = "first"])
  /\ dosud' = (dosud \/ isr.of = "sudav")
  /\ dosuspend' = (dosuspend \/ isr.of = "suspend")
  /\ pDevConfig' = CASE isr.of = "usbreset" -> "full"
                     [] isr.of = "hispeed" -> "high"
                     [] OTHER -> pDevConfig
  /\ UNCHANGED int2Vars

\* Slip: the request is cleared before EXIF.4.
IsrClears_swapped ==
  /\ \/ /\ IsrStep("first", [isr EXCEPT !.at = "second"])
        /\ ClearRequest(isr.of)
     \/ IsrStep("second", NoIsr) /\ CLEAR_USBINT
  /\ UNCHANGED <<flagVars, pDevConfig>>

(* CLEAR_SUDAV() and its like. *)
IsrClears ==
  /\ \/ IsrStep("first", [isr EXCEPT !.at = "second"]) /\ CLEAR_USBINT
     \/ IsrStep("second", NoIsr) /\ ClearRequest(isr.of)
  /\ UNCHANGED <<flagVars, pDevConfig>>

Isr == ResumeIsr \/ EnterIsr \/ IsrBody \/ IsrClears

-----------------------------------------------------------------------------
(* The host, the bus and the wakeup pin (external). *)
OnlyHost == UNCHANGED <<main, isr, ea, flagVars, usbVars>>
Event == events < MaxEvents /\ events' = events + 1
NoEvent == UNCHANGED events

(* The clock starts again when there is something on the bus, or on the    *)
(* pin.                                                                    *)
ClockStarts ==
  /\ main = "asleep" /\ ~resi
  /\ bus = "active" \/ wu
  /\ resi' = TRUE
  /\ UNCHANGED <<int2Vars, wakeVars, hsnak, hostVars>> /\ OnlyHost

(* Three milliseconds without traffic; a device that wakes up is given the *)
(* time to.                                                                *)
HostSuspends ==
  /\ bus = "active" /\ ~ctl /\ main # "asleep" /\ Event
  /\ bus' = "idle"
  /\ Raise({"suspend"})
  /\ UNCHANGED <<resi, wakeVars, hsnak, speed, ctl, selected, setupdat>>
  /\ OnlyHost

HostResumes ==
  /\ bus = "idle" /\ NoEvent
  /\ bus' = "active"
  /\ UNCHANGED <<int2Vars, resi, wakeVars, hsnak, speed, ctl, selected,
                 setupdat>>
  /\ OnlyHost

(* A reset lasts 10 ms, and the next one does not come before its handlers *)
(* have run.  It ends transfers, and the device starts at full speed.  The *)
(* first one follows the attachment.                                       *)
SpeedSettled ==
  /\ usbirq \cap {"usbreset", "hispeed"} = {}
  /\ isr.of \notin {"usbreset", "hispeed"}

HostResets(s) ==
  /\ bus # "off" /\ SpeedSettled
  /\ IF bus = "attached" THEN NoEvent ELSE Event
  /\ bus' = "active" /\ speed' = s
  /\ ctl' = FALSE /\ selected' = NotSelected /\ hsnak' = FALSE
  /\ Raise({"usbreset"} \cup IF s = "high" THEN {"hispeed"} ELSE {})
  /\ UNCHANGED <<resi, wakeVars, setupdat>>
  /\ OnlyHost

(* The main loop is through with a request that a reset cut off before the *)
(* next one comes.                                                         *)
HostSetup(r) ==
  /\ bus = "active" /\ ~ctl /\ SpeedSettled
  /\ Recovers => main \notin {"act", "ack"} /\ ~dosud
  /\ r.code = "SET_INTERFACE" => r.value \in Settings(speed)
  /\ ctl' = TRUE /\ setupdat' = r /\ hsnak' = TRUE
  /\ Raise({"sudav"})
  /\ UNCHANGED <<resi, wakeVars, bus, speed, selected, events>>
  /\ OnlyHost

HostCompletes ==
  /\ ctl /\ bus = "active" /\ ~hsnak
  /\ ctl' = FALSE
  /\ selected' = IF setupdat.code = "SET_INTERFACE" THEN setupdat.value
                 ELSE selected
  /\ UNCHANGED <<int2Vars, resi, wakeVars, hsnak, bus, speed, setupdat, events>>
  /\ OnlyHost

LocalWakeup ==
  /\ ~wu /\ bus # "off" /\ Event
  /\ wu' = TRUE
  /\ UNCHANGED <<int2Vars, resi, sigresume, hsnak, bus, speed, ctl, selected,
                 setupdat>>
  /\ OnlyHost

Host ==
  \/ ClockStarts \/ HostSuspends \/ HostResumes \/ HostCompletes \/ LocalWakeup
  \/ \E s \in Speeds : HostResets(s)
  \/ \E r \in Requests : HostSetup(r)

Next == Main \/ Isr \/ Host

(* The CPU runs unless it sleeps, interrupts are taken, the clock starts,  *)
(* and the host answers a resume signal and ends its transfers.            *)
Spec ==
  /\ Init /\ [][Next]_vars
  /\ WF_vars(Main) /\ WF_vars(Isr) /\ WF_vars(ClockStarts)
  /\ WF_vars(HostCompletes) /\ WF_vars(sigresume /\ HostResumes)

-----------------------------------------------------------------------------
(* NOTHING LOST.  Whatever comes while a handler runs, a request that is   *)
(* pending after it has returned will interrupt: no SETUP, reset or        *)
(* suspend is stuck behind another one (autovector.h:71-89).               *)
NothingLost == ea /\ isr = NoIsr /\ Raised # {} => usbint

(* PACKETS.  When the host has selected an alternate setting and the       *)
(* firmware is through with what it was asked, the endpoint sends packets  *)
(* as the descriptor for the current speed says, also if the bus was reset *)
(* or changed its speed in the middle of an earlier request                *)
(* (scope.inc:163, 175-182).                                               *)
Quiet == main = "suspend" /\ ~dosud /\ isr = NoIsr /\ Raised = {} /\ ~ctl
Announced == [
  high |-> << <<512, 1>>, <<1024, 3>>, <<1024, 2>>, <<1024, 1>>, <<1024, 1>>,
              <<1024, 1>>, <<1024, 1>>, <<512, 1>> >>,
  full |-> << <<64, 1>>, <<1023, 1>>, <<512, 1>> >>]

PacketsFit ==
  Quiet /\ selected # NotSelected =>
    /\ <<packets.bytes, packets.perFrame>> = Announced[speed][selected + 1]
    /\ packets.ep = (IF selected = 0 THEN 6 ELSE 2)
    /\ pDevConfig = speed

(* SLEEP AND WAKEUP.  On an idle bus the device goes to sleep, or drives   *)
(* the bus to end it; one that may wake the host and has slept does so     *)
(* when its pin asks for it; and it wakes to handle a request              *)
(* (scope.inc:431-457).                                                    *)
SleepsAndWakes ==
  /\ bus = "idle" ~> main = "asleep" \/ bus = "active"
  /\ main = "asleep" /\ wu /\ remote_wakeup_allowed /\ bus = "idle"
       ~> bus = "active"
  /\ ctl ~> ~ctl
=============================================================================
