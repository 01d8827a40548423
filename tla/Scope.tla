-------------------------------- MODULE Scope --------------------------------
(***************************************************************************)
(* The oscilloscope firmware: src/include/scope.inc with the device        *)
(* variants in src/hw/*/fw.c, and the part of fx2lib/lib/setupdat.c that   *)
(* calls it.                                                               *)
(*                                                                         *)
(* The main loop handles one control transfer after the other and waits in *)
(* the middle of a vendor command for its data stage.  timer2_isr counts   *)
(* ledcounter down whenever it likes; the engine fills one of two          *)
(* endpoints; the host sends control transfers and reads the endpoint of   *)
(* the alternate setting it selected.  The suspend part of the main loop   *)
(* is left out; module ScopeRates has the waveforms.                       *)
(***************************************************************************)
EXTENDS Naturals

CONSTANTS
  ByteSize,       \* values of a byte; 256
  TimeoutHigh,    \* the bytes of the ticks that a red LED lasts: 1000 is
  TimeoutLow,     \* 3 * 256 + 232
  LedSharesPort,  \* the LED and the gain selection are pins of one port
  Used,           \* the requests the host sends
  Hasty,          \* the requests after whose transfer the host does not
                  \* wait for the main loop before it sends the next SETUP
  Abort,          \* the host gives up control transfers half way
  Careless        \* the host sends SET_INTERFACE while it is sampling

Settable == {"SET_VOLTAGE", "SET_SAMPLERATE", "SET_NUMCHANNELS"}
VendorWithData == Settable \cup {"TRIGGER", "SET_COUPLING"}
Requests == VendorWithData
              \cup {"UNKNOWN", "SET_CONFIGURATION", "ALT0", "ALT1"}
Data == 0 .. 2                 \* the byte of the data stage; 0 sets nothing

ASSUME ScopeAssumption ==
  /\ ByteSize \in Nat
  /\ TimeoutHigh \in 1 .. ByteSize - 1
  /\ TimeoutLow \in 1 .. ByteSize - 1
  /\ Used \subseteq Requests
  /\ Hasty \subseteq Requests
  /\ {LedSharesPort, Abort, Careless} \subseteq BOOLEAN

VARIABLES
  main,       \* where the main loop is
  cmd,        \* the request it is handling
  dosud,      \* a SETUP packet waits for it
  latched,    \* the LED bits it read from the port in set_voltage
  irq,        \* the interrupt SUDAV is pending
  setupdat, busy, stall, hsnak, ep0buf,         \* endpoint 0, as in Ep0
  altiface,   \* the alternate setting, 0 (bulk, EP6) or 1 (iso, EP2)
  settings,   \* what the Settable requests set
  engine,     \* the endpoint the engine fills, or "off"
  fifo,       \* per endpoint, the settings its packets were sampled with
  led, hi, lo,                  \* the LED, and the two bytes of ledcounter
  ctl,        \* stage of the host's control transfer
  streaming   \* the host asked for samples

cpuVars == <<main, cmd, dosud, latched, irq>>
ep0Vars == <<setupdat, busy, stall, hsnak, ep0buf>>
sampleVars == <<altiface, settings, engine, fifo>>
ledVars == <<led, hi, lo>>
hostVars == <<ctl, streaming>>
vars == <<cpuVars, ep0Vars, sampleVars, ledVars, hostVars>>

Endpoints == {"ep2", "ep6"}
EndpointOf(alt) == IF alt = 0 THEN "ep6" ELSE "ep2"
Selected == EndpointOf(altiface)

ActPcs == {"apply", "volt_read", "volt_write", "reset", "trigger", "green",
           "zero", "zero_hi", "zero_lo"}
MainPcs == ActPcs \cup {"poll", "dispatch", "select", "stop", "red",
             "timeout", "timeout_hi", "timeout_lo", "arm", "wait", "refuse",
             "handshake"}

TypeOK ==
  /\ main \in MainPcs
  /\ cmd \in Requests
  /\ dosud \in BOOLEAN /\ irq \in BOOLEAN
  /\ latched \in {"off", "red", "green"} /\ led \in {"off", "red", "green"}
  /\ setupdat \in Requests
  /\ busy \in BOOLEAN /\ stall \in BOOLEAN /\ hsnak \in BOOLEAN
  /\ ep0buf \in Data
  /\ altiface \in {0, 1}
  /\ settings \in [Settable -> {1, 2}]
  /\ engine \in Endpoints \cup {"off"}
  /\ fifo \in [Endpoints -> SUBSET [Settable -> {1, 2}]]
  /\ hi \in 0 .. ByteSize - 1 /\ lo \in 0 .. ByteSize - 1
  /\ ctl \in {"idle", "data", "status"}
  /\ streaming \in BOOLEAN

(* After init(): both voltages 1, sample rate 1, two channels, alternate   *)
(* setting 0.                                                              *)
Init ==
  /\ main = "poll" /\ cmd = "UNKNOWN"
  /\ dosud = FALSE /\ irq = FALSE
  /\ latched = "off" /\ led = "off" /\ hi = 0 /\ lo = 0
  /\ setupdat = "UNKNOWN"
  /\ busy = FALSE /\ stall = FALSE /\ hsnak = FALSE
  /\ ep0buf = 0
  /\ altiface = 0
  /\ settings = [r \in Settable |-> IF r = "SET_NUMCHANNELS" THEN 2 ELSE 1]
  /\ engine = "off"
  /\ fifo = [e \in Endpoints |-> {}]
  /\ ctl = "idle" /\ streaming = FALSE

-----------------------------------------------------------------------------
(* The main loop. *)
Step(from, to) ==
  /\ main = from
  /\ main' = to
  /\ UNCHANGED <<irq, hostVars>>

OnlyCpu == UNCHANGED <<ep0Vars, sampleVars, ledVars>>
OnlyLed == UNCHANGED <<cmd, dosud, latched, ep0Vars, sampleVars>>
OnlyEp0 == UNCHANGED <<cmd, dosud, latched, sampleVars, ledVars>>
OnlySampling == UNCHANGED <<cmd, dosud, latched, ep0Vars, ledVars>>

\* Slip: the flag is not cleared.
Poll_kept ==
  /\ dosud
  /\ Step("poll", "dispatch")
  /\ UNCHANGED <<dosud, cmd, latched>>
  /\ OnlyCpu

(* The flag is cleared before the request is looked at. *)
Poll ==
  /\ dosud
  /\ Step("poll", "dispatch")
  /\ dosud' = FALSE
  /\ UNCHANGED <<cmd, latched>>
  /\ OnlyCpu

(* handle_setupdata; every request it does not know is a vendor command.   *)
CaseOf(r) ==
  CASE r \in {"ALT0", "ALT1"} -> "select"
    [] r = "SET_CONFIGURATION" -> "handshake"
    [] r \in VendorWithData \cup {"UNKNOWN"} -> "stop"

Dispatch ==
  /\ Step("dispatch", CaseOf(setupdat))
  /\ cmd' = setupdat
  /\ UNCHANGED <<dosud, latched>>
  /\ OnlyCpu

(* handle_set_interface: one endpoint is switched on and the other one     *)
(* off.  The engine and the FIFOs are left as they are.                    *)
SelectInterface ==
  /\ Step("select", "handshake")
  /\ altiface' = IF cmd = "ALT0" THEN 0 ELSE 1
  /\ UNCHANGED <<settings, engine, fifo>>
  /\ OnlySampling

\* Slip: the engine goes on.
StopSampling_forgotten ==
  /\ Step("stop", "red")
  /\ UNCHANGED sampleVars
  /\ OnlySampling

(* handle_vendorcommand: stop_sampling, which commits the packet that is   *)
(* not full, before the command is even looked at ...                      *)
StopSampling ==
  /\ Step("stop", "red")
  /\ engine' = "off"
  /\ fifo' = IF engine = Selected
             THEN [fifo EXCEPT ![engine] = @ \cup {settings}] ELSE fifo
  /\ UNCHANGED <<altiface, settings>>
  /\ OnlySampling

(* ... LED_RED() and ledcounter = 1000.  A WORD is written byte by byte,   *)
(* in an order that the compiler chooses.                                  *)
LedRed ==
  /\ Step("red", "timeout")
  /\ led' = "red"
  /\ UNCHANGED <<hi, lo>>
  /\ OnlyLed

WriteHigh(byte) == hi' = byte /\ UNCHANGED <<led, lo>>
WriteLow(byte) == lo' = byte /\ UNCHANGED <<led, hi>>

AfterTimeout == IF cmd \in VendorWithData THEN "arm" ELSE "refuse"

SetTimeout ==
  /\ \/ Step("timeout", "timeout_hi") /\ WriteLow(TimeoutLow)
     \/ Step("timeout", "timeout_lo") /\ WriteHigh(TimeoutHigh)
     \/ Step("timeout_hi", AfterTimeout) /\ WriteHigh(TimeoutHigh)
     \/ Step("timeout_lo", AfterTimeout) /\ WriteLow(TimeoutLow)
  /\ OnlyLed

(* EP0BCL = 0, and the wait for the data stage. *)
Arm ==
  /\ Step("arm", "wait")
  /\ busy' = TRUE
  /\ UNCHANGED <<setupdat, stall, hsnak, ep0buf>>
  /\ OnlyEp0

\* Slip: set_voltage does not check its argument.
ActionOf_unchecked(r, value) ==
  CASE r = "SET_VOLTAGE" -> "volt_read"
    [] r \in Settable \ {"SET_VOLTAGE"} /\ value # 0 -> "apply"
    [] r = "TRIGGER" /\ value = 1 -> "reset"
    [] OTHER -> "handshake"

(* The switch of handle_vendorcommand; values that set_voltage,            *)
(* set_samplerate and set_numchannels do not know are ignored.             *)
ActionOf(r, value) ==
  CASE r = "SET_VOLTAGE" /\ value # 0 -> "volt_read"
    [] r \in Settable \ {"SET_VOLTAGE"} /\ value # 0 -> "apply"
    [] r = "TRIGGER" /\ value = 1 -> "reset"
    [] OTHER -> "handshake"

\* Slip: the command does not wait for its data.
Wait_early ==
  /\ Step("wait", ActionOf(cmd, ep0buf))
  /\ UNCHANGED <<cmd, dosud, latched>>
  /\ OnlyCpu

Wait ==
  /\ ~busy
  /\ Step("wait", ActionOf(cmd, ep0buf))
  /\ UNCHANGED <<cmd, dosud, latched>>
  /\ OnlyCpu

Apply ==
  /\ Step("apply", "handshake")
  /\ settings' = [settings EXCEPT ![cmd] = ep0buf]
  /\ UNCHANGED <<altiface, engine, fifo>>
  /\ OnlySampling

(* IOC = (IOC & ~mask) | (bits & mask): the port is read and written back. *)
VoltRead ==
  /\ Step("volt_read", "volt_write")
  /\ latched' = led
  /\ UNCHANGED <<cmd, dosud>>
  /\ OnlyCpu

VoltWrite ==
  /\ Step("volt_write", "handshake")
  /\ led' = IF LedSharesPort THEN latched ELSE led
  /\ settings' = [settings EXCEPT !["SET_VOLTAGE"] = ep0buf]
  /\ UNCHANGED <<cmd, dosud, latched, ep0Vars, altiface, engine, fifo,
                 hi, lo>>

\* Slip: only EP2 is reset.
ClearFifo_ep2 ==
  /\ Step("reset", "trigger")
  /\ engine' = "off"
  /\ fifo' = [fifo EXCEPT !["ep2"] = {}]
  /\ UNCHANGED <<altiface, settings>>
  /\ OnlySampling

(* start_sampling: clear_fifo, then trigger for the selected endpoint,     *)
(* then LED_GREEN() and ledcounter = 0.                                    *)
ClearFifo ==
  /\ Step("reset", "trigger")
  /\ engine' = "off"
  /\ fifo' = [e \in Endpoints |-> {}]
  /\ UNCHANGED <<altiface, settings>>
  /\ OnlySampling

Trigger ==
  /\ engine = "off"
  /\ Step("trigger", "green")
  /\ engine' = Selected
  /\ UNCHANGED <<altiface, settings, fifo>>
  /\ OnlySampling

LedGreen ==
  /\ Step("green", "zero")
  /\ led' = "green"
  /\ UNCHANGED <<hi, lo>>
  /\ OnlyLed

ZeroCounter ==
  /\ \/ Step("zero", "zero_hi") /\ WriteLow(0)
     \/ Step("zero", "zero_lo") /\ WriteHigh(0)
     \/ Step("zero_hi", "handshake") /\ WriteHigh(0)
     \/ Step("zero_lo", "handshake") /\ WriteLow(0)
  /\ OnlyLed

Refuse ==
  /\ Step("refuse", "handshake")
  /\ stall' = TRUE
  /\ UNCHANGED <<setupdat, busy, hsnak, ep0buf>>
  /\ OnlyEp0

\* Slip: the handshake of a vendor command is left to its handler.
Handshake_forgotten ==
  /\ Step("handshake", "poll")
  /\ hsnak' = (hsnak /\ cmd \in VendorWithData)
  /\ UNCHANGED <<setupdat, busy, stall, ep0buf>>
  /\ OnlyEp0

Handshake ==
  /\ Step("handshake", "poll")
  /\ hsnak' = FALSE
  /\ UNCHANGED <<setupdat, busy, stall, ep0buf>>
  /\ OnlyEp0

Main ==
  \/ Poll \/ Dispatch \/ SelectInterface \/ StopSampling \/ LedRed
  \/ SetTimeout \/ Arm \/ Wait \/ Apply \/ VoltRead \/ VoltWrite \/ ClearFifo
  \/ Trigger \/ LedGreen \/ ZeroCounter \/ Refuse \/ Handshake

-----------------------------------------------------------------------------
(* Interrupt handlers: one step each, because what they touch is touched   *)
(* by nothing but the CPU.                                                 *)
SudavIsr ==
  /\ irq
  /\ irq' = FALSE
  /\ dosud' = TRUE
  /\ UNCHANGED <<main, cmd, latched, ep0Vars, sampleVars, ledVars, hostVars>>

\* Slip: the LED is cleared when the counter is 0 already, so never.
Expires_late == hi = 0 /\ lo = 0

(* if (ledcounter && (--ledcounter == 0)), with the borrow of an 8-bit CPU *)
Counting == hi # 0 \/ lo # 0
Expires == hi = 0 /\ lo = 1

CountDown ==
  /\ Counting
  /\ lo' = IF lo = 0 THEN ByteSize - 1 ELSE lo - 1
  /\ hi' = IF lo = 0 THEN hi - 1 ELSE hi
  /\ led' = IF Expires THEN "off" ELSE led

Timer2Isr ==
  /\ CountDown \/ (~Counting /\ UNCHANGED ledVars)
  /\ UNCHANGED <<cpuVars, ep0Vars, sampleVars, hostVars>>

-----------------------------------------------------------------------------
(* The engine and the host (external). *)

(* A program of the oscilloscope never leaves for IDLE: the engine runs    *)
(* until it is aborted.  An endpoint that is not selected is switched off. *)
Sample ==
  /\ engine = Selected
  /\ fifo' = [fifo EXCEPT ![engine] = @ \cup {settings}]
  /\ UNCHANGED <<cpuVars, ep0Vars, altiface, settings, engine,
                 ledVars, hostVars>>

BulkIn ==
  /\ \E s \in fifo[Selected] :
       fifo' = [fifo EXCEPT ![Selected] = @ \ {s}]
  /\ UNCHANGED <<cpuVars, ep0Vars, altiface, settings, engine,
                 ledVars, hostVars>>

HostSetup(r) ==
  /\ ctl = "idle"
  /\ setupdat \in Hasty \/ (main = "poll" /\ ~dosud /\ ~irq)
  /\ r \in {"ALT0", "ALT1"} => Careless \/ ~streaming
  /\ setupdat' = r
  /\ busy' = FALSE
  /\ stall' = FALSE
  /\ hsnak' = TRUE
  /\ irq' = TRUE
  /\ ctl' = IF r \in VendorWithData THEN "data" ELSE "status"
  /\ UNCHANGED <<main, cmd, dosud, latched, ep0buf, sampleVars, ledVars,
                 streaming>>

HostData(value) ==
  /\ ctl = "data"
  /\ busy
  /\ ~stall
  /\ ep0buf' = value
  /\ busy' = FALSE
  /\ ctl' = "status"
  /\ streaming' = IF setupdat = "TRIGGER" THEN value = 1 ELSE streaming
  /\ UNCHANGED <<cpuVars, setupdat, stall, hsnak, sampleVars, ledVars>>

HostEnds ==
  /\ \/ ctl = "status" /\ ~hsnak
     \/ ctl # "idle" /\ (stall \/ Abort)
  /\ ctl' = "idle"
  /\ UNCHANGED <<cpuVars, ep0Vars, sampleVars, ledVars, streaming>>

Host ==
  \/ \E r \in Used : HostSetup(r)
  \/ \E value \in Data : HostData(value)
  \/ HostEnds

Next == Main \/ SudavIsr \/ Timer2Isr \/ Sample \/ BulkIn \/ Host

Spec == Init /\ [][Next]_vars

(* Handlers are single steps, so the main loop is never kept from its next *)
(* instruction for ever, and timer 2 keeps ticking.  The host finishes the *)
(* transfers it begins.                                                    *)
Fairness == WF_vars(Main) /\ WF_vars(SudavIsr) /\ WF_vars(Timer2Isr)
HostFairness ==
  WF_vars(HostEnds) /\ WF_vars(\E value \in Data : HostData(value))

SilentHostSpec == Spec /\ Fairness
FairSpec == SilentHostSpec /\ HostFairness
=============================================================================
