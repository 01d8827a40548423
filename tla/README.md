# sigrok-firmware-fx2lafw in TLA+

This directory holds TLA+ specifications of the firmware in `src/`: an open-source logic-analyzer firmware (and an
oscilloscope firmware that shares its library code) for the Cypress FX2, an 8051 with a USB 2.0 device controller, a
programmable sampling engine (GPIF) and a hardware FIFO between the two. TLC checks the specifications on small
instances; TLAPS proves every safety property that a passing run checks (but one, section 7), and the safety half of
both refinements, for every value of the constants: any set of commands, FIFO depth, delay bytes, timeout, request
set, EEPROM, parameters of vendor commands.

## 1. Inventory

| Part | Source | State | Operations | Talks to |
|---|---|---|---|---|
| Main loop of the logic analyzer | `src/fx2lafw.c` | `vendor_command`, position in the loop | `fx2lafw_init`, `fx2lafw_poll`, vendor commands, interface requests | ISRs through `got_sud` and `gpif_acquiring`; EP0 and EP2 registers |
| Interrupt handlers | `src/fx2lafw.c:194-256` | `got_sud`, `ledcounter`, LED | `sudav_isr`, `ibn_isr`, `timer2_isr`, reset/high-speed | interrupt the main loop anywhere, do not nest |
| Acquisition control | `src/gpif-acquisition.c`, `fx2lib/lib/gpif.c` | `gpif_acquiring`, GPIF and EP2 registers, WAVEDATA | `gpif_init_la`, `gpif_acquisition_prepare`, `gpif_acquisition_start`, `gpif_poll` | called by the main loop, except `start`, which `ibn_isr` calls |
| GPIF engine, EP2 FIFO | hardware | engine running, FIFO contents | sample, stop on full, answer IN tokens | host, acquisition control |
| SETUP dispatcher, EP0 | `fx2lib/lib/setupdat.c`, hardware | `SETUPDAT`, EP0BUF, EP0BCL, BUSY, HSNAK, STALL; `pDevConfig`/`pOtherConfig`, `remote_wakeup_allowed` | `handle_setupdata`, standard requests, descriptors, `handle_hispeed` | callbacks into the firmware |
| Oscilloscope firmware | `src/include/scope.inc` | `altiface`, `ledcounter`, `dosud`, GPIF | vendor commands 0xe0-0xe6, alternate settings | blocks on EP0 in its vendor handler |
| Oscilloscope boards | `src/hw/*/fw.c` | port pins, `vol_state` of a 74HC595, RCAP2, WAVEDATA | `set_voltage`, `set_coupling`, `set_calibration_pulse`, `set_samplerate` | `timer2_isr` writes pins of the same ports |
| Bus state | `scope.inc:128-187, 420-460`, `fx2lib/include/setupdat.h` | `dosuspend`, `remote_wakeup_allowed`, `pDevConfig`, packet sizes, PCON, WAKEUPCS | reset, high speed, suspend, resume, remote wakeup | handlers set flags, the main loop sleeps |
| Interrupt vectors | `fx2lib/include/autovector.h`, `lib/usbav.a51`, `lib/interrupts` | USBIRQ, USBIE, EXIF.4 | the jump table, `CLEAR_*`, `ENABLE_*` | all USB handlers |
| Descriptors | `include/dscr.inc`, `include/dscr_scope.inc`, `hw/*/dscr.a51` | none | the chain of strings, two configurations | searched by the dispatcher |
| I2C and EEPROM driver | `fx2lib/lib/i2c.c` | I2CS, I2DAT, `cancel_i2c_trans` | `i2c_write`, `i2c_read`, `eeprom_write`, `eeprom_read` | no caller in either firmware |
| Serial port, delays, `readep0`/`writeep0` | `fx2lib/lib` | | | no caller, or no state |

What makes this hard to test: a handler can run between any two register writes of the main loop; the engine runs by
itself; the host can start a control transfer, abort it, or read EP2 at any moment; the only synchronisation is the
order of single writes. Nothing in the repository tests any of it.

What makes each part correct:

* acquisition: settings change only while the engine is idle; what the engine executes is the whole program of one
  command with that command's width and clock; EP2 is empty when an acquisition begins; every accepted START leads to
  one acquisition; an overrun is cleaned up.
* EP0: the command being parsed does not change; every control transfer ends.
* interrupt handlers: none of them waits for the engine; the LED counter never wraps; no request is lost behind
  another.
* standard requests: the device is in the state the host has been told it is in; what the host reads is true, also
  after a reset or a change of speed in the middle of a request.
* boards: the pins show the gain, coupling and period that were accepted last, whatever a timer tick falls between.
* bus state: packets have the announced size, an idle device sleeps, and it wakes when it is asked to.
* I2C: memory changes only as the call says, TRUE means that it was done, and the bus is left free.

## 2. Modules

`Command` holds the constants of `command.h`: a START command is an opaque value, and the sets `Wide`, `Fast` and
`LongDelay` are its flags and its delay as far as a property can tell.

`Gpif` holds the acquisition control's state and hardware as effect operators, one per register write or per group of
writes nobody can tell apart: a packet in `fifo` is the program it was sampled by, `wave` is the program in WAVEDATA,
and `NoCmd` stands for a program that is half written. `Sample`, `GpifDone` and `PopPacket` are the hardware.

`Ep0` does the same for endpoint 0: BUSY is set by arming and cleared by the data stage or the next SETUP, HSNAK holds
off the status stage, STALL lasts until the next SETUP.

`Fx2lafw` composes the two. `main` is the program counter of `main()`; the prefix of a value tells the function it is
in (`prep_*` is `gpif_acquisition_prepare`, `gp_*` is `gpif_poll`, `rf_*` is RESETFIFO in `handle_set_interface`).
Each step of the main loop touches the state it shares with handlers, engine or host once, so every interleaving that
matters is a behaviour. A main step needs `isr = "none"`; `ibn_isr` takes four steps, because the engine and the host
go on while it runs; `sudav_isr` and `timer2_isr` are one step each, because what they touch is touched by nothing but
the CPU. The host is part of the module and is as free as three constants allow:

| constant | patient host | any host |
|---|---|---|
| `StartWhen`: the status in which it sends START or SET_INTERFACE | `{"STOPPED"}` | all three |
| `BackToBack`: SETUP before the main loop is done with the transfer before | `FALSE` | `TRUE` |
| `Abort`: gives up control transfers half way | `FALSE` | `TRUE` |

It polls EP2 whenever it likes. `WarmBoot` starts with the engine still running, as after a firmware download over a
sampling device.

`Fx2lafwProperties` states the properties; `Acquisition` is the abstract promise to a patient host (a requested
command, a phase, a configuration, a queue), with the refinement mapping at the end of `Fx2lafwProperties`.
`MCFx2lafw` gives the constants values for TLC, and has `PromptSpec`, in which a pending interrupt is taken before the
main loop goes on: a counterexample of it does not depend on an interrupt that waits longer than the CPU lets it.
`Fx2lafw_proofs` holds the proofs.

`GpifProgram` is how the engine runs the program in WAVEDATA, clock by clock: wait states, decision points, a length
field of 8 bits for which 0 means 256, a sample on entering a state with the data flag, an unprogrammable last state.
`Waveform` (with `Waveform_proofs`) puts the programs of `gpif_acquisition_prepare` into it, one command after the
other, for numbers instead of opaque commands.

`Boards` has one record per oscilloscope: the rows of its rate table, and the pins of its LED, its gain selectors, its
coupling and its calibration output, with the masks and bytes of the source. `ScopeRates` puts rows of a rate table
into the engine. `ScopeBoard` is a board under any sequence of vendor commands: the read, the change and the write of
a port in `set_voltage` are steps of their own, because `timer2_isr` writes other pins of the same port in between;
the 74HC595 is shifted bit by bit from `vol_state`; RCAP2 is written in two halves. A command is atomic otherwise;
`Scope` has its control transfer. `init()` sets gains while the ports are still inputs, and enables the outputs last
(`scope.inc:383-384, 421-423`), so the initial state is what the port latches hold by then: a port that was read and
written back (`Preset`, and `Ticked` for the calibration pin during the 1.5 s of RENUMERATE_UNCOND) holds the levels
its pins had, and the shift register, whose clock was not driven, shows what it had. `Levels` is the set of these.
That reading an input port gives its pins' levels, that an instruction on one bit of a bit-addressable port changes
only that bit, and that PA4-PA6 are nothing but the register's interface is assumed. So no gain is claimed before the
host has asked for one.

`Scope` is the oscilloscope firmware: the main loop with the dispatcher inlined and the wait for a data stage in the
middle of a vendor command, the LED and the two bytes of `ledcounter`, the alternate settings and their endpoints, the
engine, the host. A packet in `fifo` is the settings it was sampled with. `ScopeProperties` states the properties,
`Scope_proofs` proves the safety ones. The host's freedom is again a set of constants: `Hasty` (the requests after
which it does not wait for the main loop), `Abort` (gives up transfers), `Careless` (selects an interface while it
samples).

`Setupdat` is the standard-request part of the dispatcher that the logic analyzer uses, with the reset and high-speed
handlers that swap the configuration descriptors, and a host that keeps a picture of the device: which endpoints it
believes to be halted, whether remote wakeup is allowed, and the data toggle it expects next. The host clears only
halts that it set, repeats SET_CONFIGURATION only if `Reconfigures`, and waits for the main loop between two requests
(`Fx2lafw` has the host that does not). That a bus reset clears STALL bits and toggles is the hardware's part. After a
reset in the middle of a transfer the host cannot know whether the request took effect (`sure`), and makes no claim.
`Find` walks the chain of string descriptors (three of `dscr.inc:168-171`, the last of the device's own
`hw/*/dscr.a51:25-27`) by their length bytes as `setupdat.c:317-346` does, and
`SearchIsRight` compares it with the reference for all 256 indices.

`Autovector` is the interrupt controller behind INT2: requests, enables, and EXIF.4, which latches edges of their
disjunction. `ScopeBus` composes it with the handlers of `scope.inc` (enter, body, clear EXIF.4, clear the request),
the main loop with its sleep, and a host that resets, suspends, resumes and changes the speed of the bus. A handler
interrupts the main loop between any two steps, and requests come while a handler runs.

`I2c` is `i2c.c` between two reads of I2CS, against a controller that shifts one byte at a time and an EEPROM that
does not answer while it stores; bus errors, refused bytes and `cancel_i2c_trans` may come in any step. `Eeprom` is
what the four functions promise; `I2c` implements it (`mem`, `op`, `status`, `stored` are the same; `answer` is the
buffer of a read that returned TRUE).

Definitions named `<operator>_<slip>` are an operator with a plausible mistake. No specification uses them; putting
one in the operator's place makes TLC refute the property it belongs to.

| module | kind |
|---|---|
| `Command`, `Gpif`, `Ep0`, `GpifProgram`, `Autovector` | shared state and effects |
| `Boards`, `ScopeRates` | device tables and their waveforms |
| `Fx2lafw`, `Waveform`, `Scope`, `ScopeBoard`, `ScopeBus`, `Setupdat`, `I2c` | specifications |
| `Acquisition`, `Eeprom` | abstract specifications |
| `Fx2lafwProperties`, `ScopeProperties` | properties (the other specifications hold their own) |
| `MCFx2lafw`, `MCWaveform`, `MCScope`, `MCScopeBoard`, `MCScopeBus`, `MCSetupdat`, `MCI2c` | constants for TLC |
| `Fx2lafw_proofs`, `PatientHost_proofs`, `Waveform_proofs`, `Scope_proofs`, `ScopeBoard_proofs`, `ScopeBus_proofs`, `Setupdat_proofs`, `I2c_proofs` | theorems |

## 3. Plan

Done, in this order: the logic analyzer's acquisition and EP0 (the code with the most concurrency), its safety proofs,
its abstract specification, the waveform programs and their proofs, the oscilloscope's main loop and proofs, the
standard requests and the search for strings, the proofs for the patient host with the step simulation of
`Acquisition`, the boards, the bus state with packet sizes and wakeup, the I2C driver with its abstract specification,
the proofs for `ScopeBus`, `Setupdat` and `I2c`, the step simulation of `Eeprom`, and the proofs for the boards.

Left: a host that sends START and something else at once (`fx2lafw.c:301`: the START it saw complete is dropped).

## 4. Runs

Small instances show the bugs of such code because its state is small: three status values, a handful of flags, and a
program counter. What grows with the constants is data that no branch looks at.

| run | shows | bounds |
|---|---|---|
| `any_host` | what holds for every host, and after a boot with the engine running | 2 commands (one rejected), 1 buffer, LED period 2 |
| `patient_host` | no mixed settings or samples; every START honoured, overrun cleaned up, transfer ended; refinement of `Acquisition` | 3 commands (8 bit at 30 MHz, 16 bit at 48 MHz, one rejected), 2 buffers, LED period 1 |
| `waveforms` | programs of two and more commands over each other | the delay bytes at every boundary (`MCWaveform`) |
| `scope_boards` | gain, coupling and calibration period are those asked for last, and a gain command touches no other pin (but in two named cases); every row of the rate tables samples at its rate with one converter clock per sample | all six devices; every byte a table knows and bytes of none; three sets of levels before the outputs are enabled; RDY0 pulled up |
| `scope_any_host` | separation of sessions, LED timeout | two-bit `ledcounter`, four kinds of requests |
| `scope_fair_host` | acknowledgements, data stages, endpoints, completion | the other requests; one interface pair; a host that waits after a refused request only and ends its transfers |
| `standard_requests` | picture, toggle and answers agree | EP0, EP2, an endpoint without register; requests that differ where the code looks |
| `scope_bus` | no interrupt lost, packets fit, sleep and wakeup | alternate settings 0, 1 and 7; 3 resets, suspends or signals of the wakeup pin |
| `i2c` | implements `Eeprom`, failures have a cause, bus left free | EEPROMs of 2 and 3 bytes, bytes of one bit, calls of 1 and 2 bytes, 2 faults |

Why these are enough. Two buffers are needed to have one packet of an old acquisition in front of one of a new one;
one is enough where no property compares packets. Two accepted commands that differ in width and clock are enough to
see a mixture of two; the third is the one that is rejected half way. A LED period of 1 makes every tick reach 0, one
of 2 also lets a tick fall before it. `ledcounter` of the oscilloscope keeps two bytes, of one bit each: what matters
is that a borrow passes between them. `any_host` has the narrow command only, because its properties do not look at
width. Setting 0 is the bulk one, 1 the largest isochronous one, and 7 exists only at high speed, so that a change of
speed leaves it without a descriptor; three events are a suspend, a wakeup and a reset in any order. With bytes of one
bit an EEPROM of two bytes has addresses of one byte and one of three has addresses of two, which is all that
distinguishes the two kinds; two faults exhaust the two tries of `i2c_write`.

`scope_boards` has a host that changes either the rate or the pins (`PinsOrRates`): the two have no state in common,
and the product of the two would say nothing more. The two cases that `OnlyRequestedPins` lets through (`TickUndone`,
`FirstShown`) are divergences of the code, below.

The remaining runs show that something the source says is not so. Each is a finding of its own:

| run | the source says | what happens |
|---|---|---|
| `abandoned_start` | `gpif-acquisition.c:191` "Ensure GPIF is idle before reconfiguration." | START, START again before reading, then an IN token between the test of GPIFTRIG and the last write: `ibn_isr` starts the engine on a half-written program. |
| `restart_while_running` | `gpif-acquisition.c:260-270` "Detect if acquisition has completed.", "Reset EP2." | `fx2lafw_poll` runs before `gpif_poll`. A START after an overrun overwrites RUNNING, EP2 is never reset, and the host reads the old packets as the beginning of the acquisition it just asked for; the engine starts when it has read the last of them. Every interrupt is taken at once. |
| `setup_lost` | `setupdat.c:64-69` "Setup Token -> data transfer -> handshake" | The status stage is released before `got_sud = FALSE`: a SETUP in between is forgotten. The oscilloscope clears its flag first. |

Other divergences met while modelling, with the constants that reproduce them. In the logic analyzer:

* a host that sends START while RUNNING is not always served: `StartHonoured` fails for `StartWhen = {"STOPPED",
  "RUNNING"}` with the other constants of `PatientHost.cfg`;
* `fx2lafw.c:246` says "Blink LED during acquisition, keep it on otherwise."; in PREPARED an LED that a START during
  RUNNING caught off stays off, since `timer2_isr` has no branch for that status;
* a CTL2 delay of one clock is split into halves of 0 and 1, and a length of 0 lasts 256 clocks
  (`gpif-acquisition.c:222`); `Divisible` excludes it from `PeriodAsRequested`;
* a START with `sample_delay_h >= 6` is refused (`gpif-acquisition.c:211`) after EP2FIFOCFG and IFCONFIG were written;
  `CoherentSampling` holds all the same, because the next accepted command writes them again.

In the dispatcher and the bus state:

* `setupdat.h:89` says "changing config requires the device to reset all the endpoints"; `handle_set_configuration`
  (`fx2lafw.c:188`) resets nothing, and a driver that configures again in the middle of a session loses a packet to a
  wrong toggle: `Reconfigures = TRUE` in `Setupdat.cfg` refutes `ToggleAgrees`;
* `ep_addr` (`setupdat.c:136-147`) ignores the direction of EP2: clearing the halt of EP2 OUT, which the device does
  not have, revives EP2 IN without resetting its toggle: 2 in `SomeIndices` (`MCSetupdat`) refutes `ToggleAgrees`;
* CLEAR_FEATURE(ENDPOINT_HALT) of an endpoint that does not exist writes through the NULL of `ep_addr`
  (`setupdat.c:217`); not modelled;
* a request that a reset cut off is still finished, and its handshake completes the next one: `Recovers = FALSE` in
  `ScopeBus.cfg` refutes `PacketsFit`. A host leaves more than the main loop needs between the two;
* `REMOTE_WAKEUP()` is read twice (`scope.inc:447, 450`): a pin that asks in between makes a device that may not wake
  the host signal resume, and the configuration's attributes never announce that it may;
* the GET_CONFIGURATION of the oscilloscope answers 0 while a configuration is active;
* `CLEAR_GPIFWF` is misspelled (`autovector.h:116`); nothing uses it.

In the oscilloscope:

* `scope.inc:156` says "don't clear LED afterwards", but a tick between the two byte writes of `ledcounter = 0` counts
  to 0 and clears the green LED: `Used <- Leds` and `Hasty <- Nothing` in `ScopeFair.cfg` refute `GreenWhileSampling`;
* `scope.inc:207` calls the third state "jump 0"; with RDY0 low it jumps to state 1 and no samples are taken at the
  rate (`Rdy0 = {TRUE, FALSE}` in `ScopeBoard.cfg` refutes `SamplesAtNominalRate`);
* SET_INTERFACE while sampling leaves the engine on an endpoint that is switched off: `Careless = TRUE` refutes
  `EngineFeedsSelected`;
* a host that gives up a transfer half way can make a vendor command act on the data of another: `Abort = TRUE`
  refutes `ActsOnOwnData`;
* HSNAK is cleared after a STALL too (`setupdat.c:132`). A host that has seen the STALL may have sent the next SETUP
  by then, and its status stage is let through before anything looks at it: `Hasty <- Anything` in `ScopeFair.cfg`
  refutes `NoEarlyAck`;
* `scope.inc:331` says "Set red LED, clear after timeout."; on the Hantek 6022BE (`fw.c:104`) the LED may be cleared
  between the read and the write of port C in `set_voltage`, and the red LED is written back with no timer running:
  `LedSharesPort = TRUE` in `ScopeAnyHost.cfg` refutes `RedIsTimed`;
* on the DDS120 (`fw.c:146`) a tick between the read and the write of port E is undone, also by a command for channel
  0, which writes nothing there: the calibration pin loses a toggle. Without `TickUndone`, TLC refutes
  `OnlyRequestedPins`;
* `instrustar-isds205b/fw.c:87-88` says "we mask them out to only affect the channel currently requested". What
  `init()` shifts out never reaches the 74HC595, so the first gain command of one channel changes the other one and
  both relays. Without `FirstShown`, TLC refutes `OnlyRequestedPins`;
* `hantek-6022be/fw.c:63-64` says "For channel 0 we want to set bits 5, 6 & 7"; the mask of channel 0 is 0x1c, which
  is bits 2, 3 and 4 (`Selector`);
* the comments in `sainsmart-dds120/fw.c:72-86` and the bytes of the code have PC2 and PC3, and PC4 and PC5, the other
  way round: byte n being gain n/10, 10 and 20 select each other's gain, and 2 selects 0.4 (`Selects`). `BoardAsAsked`
  compares the pins with the code's tables, not with these comments;
* `scope.inc:276` says "case 10: // 1kHz"; timer 2 overflows every 100 microseconds (`PulseTicks`). The pin toggles
  once per overflow, so the frequencies that the other comments name are twice the pin's.

In the I2C driver:

* after a bus error in a byte that the EEPROM sends, `i2c_read` starts again without the address, and reads on from
  where the EEPROM was: TRUE with the wrong bytes. `ReadErrors = TRUE` refutes `ImplementsEeprom`;
* the last byte must be read "immediately" after STOP (`i2c.c:233`), and nothing keeps interrupts out; one in between
  makes the controller receive one byte more and keep the bus: `Prompt = FALSE` refutes `BusReleased`;
* `i2c_read` of zero bytes reads one, and `total_bytes` (`i2c.c:53`) overflows for more than 65535; `Lengths` excludes
  both.

## 5. Fairness

Safety is checked without fairness. `Fx2lafw!FirmwareFairness` says what the CPU does by itself. After RETI the 8051
executes at least one instruction of the interrupted program, so a stream of interrupts slows the main loop down and
cannot stop it: strong fairness of `Main`. A pending interrupt is taken at the next instruction boundary: weak
fairness for SUDAV, strong for IBN and the timer, which others precede and which are disabled for a while again and
again. The model lets an interrupt come arbitrarily late (a handler that is due is not forced before the next main
step), which is more than the hardware does. The engine is clocked: weak fairness. `HostFairness` is what a driver
does: it carries on the control transfer it began, and polls EP2 while an acquisition is prepared. `ControlCompletes`
is about the firmware and the transfer; no fairness makes the host start anything.

In `Scope` and `Setupdat` handlers are single steps, so nothing disables the main loop and weak fairness is enough.
The host ends what it began. In `ScopeBus` a handler disables the main loop, but events are bounded, so weak fairness
of the main loop and of the handlers is enough; the clock starts again when there is traffic or a signal on the pin,
and the host answers a resume signal. In `I2c` the routine and the controller go on, no fault has to happen, and the
caller calls nothing.

What the models assume of the world outside the code: START clears BERR once the bus is free; `delay(10)` is longer
than the write cycle of an EEPROM; after a cancellation the caller lets the bus finish; a bus reset lasts 10 ms, so
its handlers run before the next reset or SETUP; a device is given time to wake before the bus is suspended again; the
host takes a resume signal over within `delay(15)`; only the wakeup pin that `WUEN` enables can start the clock; the
boot loader may leave requests pending, whose handlers run during `delay(1500)`.

## 6. Proofs

All safety theorems are of the form `Spec => []P`, for every value of the constants that the named assumptions allow.

**`Fx2lafw_proofs`** (assumptions: `CmdsAssumption`, `BuffersAssumption`, `HostAssumption`, `LedAssumption`; any
command set, FIFO depth, LED period, host). Steps are first sorted by what they do to the GPIF and to EP0
(`GpifEffect`, `Ep0Effect`, `NextGpifEffect`, `NextEp0Effect`), so that types are proved once per effect and not once
per action; frame lemmas say what the main loop, a handler or the host leaves alone. On these rest:

* `TypeCorrect`;
* `CommandIsStable`, by `CommandInv`: EP0BCL is a command's size only when EP0BUF holds a whole command, and the main
  loop enters the parser only with EP0 unarmed;
* `ResetIsQuiescent`, `EngineIsTracked`, `LedCounterNeverWraps`, by `AcquisitionInv`. The three are not inductive
  alone: `IbnOwns` adds that while `ibn_isr` is between its test and its writes, no other part changes the status and
  the LED counter has been set;
* `ManualModeIsUnread`, by `ManualInv`: manual mode exists only during boot and between `gp_manual` and `gp_auto`, and
  there NAK-ALL is on.

**`PatientHost_proofs`** (in addition `Patient`: START and SET_INTERFACE only while STOPPED, and no SETUP before the
main loop is done with the one before; it may abort transfers). `RequestInv` says where the main loop can be in each
phase of a transfer, `UndisturbedInv` that during an acquisition no request is on its way that would disturb it,
`SettingsInv` that EP2FIFOCFG, IFCONFIG and what is written of the program are those of the command being prepared,
and afterwards those of the program in WAVEDATA, with the engine idle while PREPARED. They give
`ReconfigurationIsSafe`, `SamplingIsCoherent` and `HandlerNeverSpins`. After a cold start, `FreshInv` adds that EP2 is
empty from the reset up to the trigger (`FifoIsFresh`). With these, each step is shown to be a step of `Acquisition`
or to leave its variables alone, one lemma for each of main loop, handlers, engine and host:
`ImplementsAcquisitionSteps`.

**`Waveform_proofs`** (assumption: delay bytes are bytes). `Last`, `Field`, `Pulse` describe a program state by state;
`DelayStates` and `ProgramStates` show that the sequences the code builds are of that form, `ProgramFits` that an
accepted one leaves the last state free. `WaveInv` gives the engine's clocks, level and edges in closed form as
functions of its position (`Elapsed`, `LevelAt`, `RisesAt`), and says that the program of the last command is what
lies in WAVEDATA up to its decision point; `Elapses` shows that each state adds its duration. `PeriodHolds`,
`OwnProgramHolds` and `PulseHolds` read the properties off at the decision point.

**`Scope_proofs`** (assumption: both bytes of the timeout are nonzero, as those of 1000 are). For every host:
`TypeCorrect` (with `busy` only while the command waits), `FreshSessionHolds` (`SamplingInv`: the engine is off from
`stop_sampling` to `trigger`, and both FIFOs are empty just before `trigger`), `RedIsTimedHolds` (`LedInv`; needs an
LED with a port of its own). For a host that ends its transfers and waits after a refused one (`Orderly`):
`ActsOnOwnDataHolds`, by `ControlInv`, which says that a transfer is in exactly one place (pending interrupt, flag,
main loop, done), and `DataInv`, which says in which of them its data stage can come. With an interface selected only
while not sampling: `EngineFeedsSelectedHolds`, by `StreamInv`. `NoEarlyAck` is not stated as a theorem: the one
request that can arrive early is the one after a STALL, and there it is false (section 4).

**`ScopeBoard_proofs`** (assumption: parameters are bytes, devices are the six of `Boards`). `BoardIsAsAsked` has
three layers. `Wired` says what a board must be like for commands and interrupts not to be in each other's way: each
gain pin is on a port that `set_voltage` writes, no two uses share a pin, a table sets only bits of its mask, and
those are the number that the selector has for the value. It is proved for each device from the bytes of its table
(`WiredHantek6022be` ... `WiredSainsmartDds120`). `Inv` is inductive for every board that is `Wired`: while
`set_voltage` runs, the ports it has written already show the new value and the pins it has still to write are on the
ports in `todo` (`GainInv`, `CallInv`); `latch` agrees with the port except where `timer2_isr` writes (`LatchInv`);
from the first command that clocks it on the shift register shows `vol_state` (`AgreeInv`, with `RegisterShows`: after
eight clocks the outputs are the byte); RCAP2 has the low byte of the period from the first write on and the high byte
after the second (`ReloadInv`). One lemma per part says that every step keeps it, and `InvImplies` that it gives the
three conjuncts of `BoardAsAsked`. None of this is about the pins before the first command for them: `Levels` may be
any set of levels. `OnlyTheRequested` is the action property of the same run, from the same invariant: a port is
written back as it was read, except for the mask, and `LedPins` says that all else that may have changed since is a
pin that the timer writes. Its two exceptions are in the property, not hypotheses. `RatesAreNominal` assumes that RDY0
is high (`Rdy0High`; section 4 says what happens when it is not). `TurnInv` gives the clocks since the last sample as
a function of the engine's position and the row; `RowsRight` checks each row of the two tables, so that the clocks
from one sample to the next are the nominal period. `ConverterIsClocked` holds for any RDY0, which a run cannot show:
while the pin is low, the clocks since the last sample grow without end.

**`ScopeBus_proofs`**. `NoInterruptIsLost`, by `InterruptInv`: a handler runs only for a request that stays raised
until its last step, and clearing it while others are raised sets EXIF.4 again. `PacketsAlwaysFit` assumes `Recovers`:
`SpeedInv` relates `pDevConfig` to the speed and to the reset handlers still to run, `StageInv` says in which one
place a transfer is, `PacketInv` that the endpoint has the size of what is selected or of the request that is just
acknowledged. `BusTypeCorrect` needs neither.

**`Setupdat_proofs`**. `PictureIsTrue`, by `StageInv` (where a transfer is) and `PictureInv`: before a request is
acted on the device is what the host believes, after it what the host will believe, unless it is stalled.
`ToggleAlwaysAgrees` assumes a driver that configures once and names EP2 with its direction (`Driver`); `ToggleInv`
adds the transfers after which the device has reset its toggle and the host has yet to. `AnswersAreTrue` assumes
`SearchIsRight`, a statement about constants that TLC evaluates in full (`StringSearch` in `MCSetupdat`); `AnswerInv`
says that nothing is answered before the request is looked at, and that the descriptor about to be sent is the one
asked for. `SetupdatTypeCorrect` has the same hypothesis, because what is sent is a descriptor only if the search
finds one.

**`I2c_proofs`**. `ControllerInv` relates the routine's place to what the controller shifts and to the bits of I2CS.
If the last byte is read in time (`Prompt`), `PromptInv` adds that the stop condition is not over before, which gives
`BusIsReleased`; nothing else needs that. `FailureHasCause` needs more: `CauseInv` says that the EEPROM is not storing
anything while it is written to or once the second try began, and that only a cancellation or a refused byte leads to
a failure; `AddressInv` that a read finds the EEPROM idle, because only an address was sent before it.
`EepromKeepsPromise` is the step simulation of `Eeprom`, and assumes that no bus error hits a byte that the EEPROM
sends (`ReadErrors = FALSE`; section 4 says what happens otherwise). `CallInv` says that the call fits the EEPROM and
which of its bytes `eeprom_write` is at; `WriteInv` that the EEPROM has taken exactly the bytes sent so far, from
address to data, and that none of them are stored before the stop condition, so that a second try sends the same bytes
to an EEPROM that has none of the first; `ReadInv` that the EEPROM's pointer is where the buffer ends, and that the
buffer is what memory holds from the call's address on. `SimulationStep` then has one case for each step of the
driver, the controller and the EEPROM: it is a `Call`, a `Store`, a `Return`, or changes nothing that `Eeprom` sees.
`I2cTypeCorrect` has no hypothesis: whatever the bus does, no byte is put behind the end of the buffer (`RangeInv`
counts the bytes in it at every place of `i2c_read`).

## 7. Only model-checked

Liveness (`StartHonoured`, `ControlCompletes`, `RequestCompletes`, `SleepsAndWakes`) and the fairness halves of
`ImplementsAcquisition` and `ImplementsEeprom`: TLAPS 1.4.5 supports neither fairness nor ENABLED. `NoEarlyAck`, for
the host of `scope_fair_host` (section 6). `SearchIsRight`, which is about a recursive walk over data; two theorems of
`Setupdat_proofs` have it as a hypothesis. The disagreements of section 4 are TLC's counterexamples.

Some theorems have hypotheses about the host or the hardware (`Patient`, `Orderly`, `Careless`, `Recovers`, `Driver`,
`WarmBoot`, `LedSharesPort`, `Prompt`, `ReadErrors`, `Rdy0High`). They are there
because the property is false without them: TLC finds a counterexample when one is dropped (section 4).

## 8. Not modelled

The serial port, the delays, `readep0`/`writeep0`: no caller, or no state. (Met while reading: `serial.c:57` drops the
carry of its increment, and `delay(0)` waits 65536 ms.) The empty interrupt handlers. Descriptor bytes other than
strings and packet sizes: data that the firmware only passes on. The transfer functions of `gpif.c` that nothing
calls. The write through NULL (`setupdat.c:217`): it changes memory that no model has. The composition of `Scope`,
`ScopeBoard` and `ScopeBus`: their shared state is the LED and `altiface`, and each has the part of it that its
properties are about. The hardware is modelled as far as the code relies on it: the engine, the FIFOs, EP0's handshake
bits, the bus, INT2, the I2C controller; timing is not, except in clocks of the engine.
