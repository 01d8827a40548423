----------------------------- MODULE ScopeBoard -----------------------------
(***************************************************************************)
(* An oscilloscope's board: the pins that select gain and coupling, the    *)
(* LED, the calibration pin that timer 2 toggles, and the waveform of      *)
(* module ScopeRates, under any sequence of vendor commands.               *)
(*                                                                         *)
(* A command is atomic here where only the main loop touches what it       *)
(* changes; module Scope has its control transfer.  What is not atomic is  *)
(* a port that is read and written back, because timer2_isr writes pins of *)
(* its own in between, and a timer reload of two bytes.                    *)
(***************************************************************************)
EXTENDS ScopeRates

CONSTANTS
  Voltages,    \* the values the host sends with 0xe0 and 0xe1
  Couplings,   \* ... with 0xe5
  Pulses,      \* ... with 0xe6
  Levels       \* the pins, and the outputs of the shift register, that may
               \* be high before the firmware drives them

ASSUME BoardAssumption ==
  /\ Voltages \cup Couplings \cup Pulses \subseteq 0 .. 255
  /\ Levels \subseteq SUBSET Pins

VARIABLES
  main,        \* where the main loop is
  pins,        \* the pins that are high
  vol_state,   \* the copy of the shift register, as numbers of bits
  call,        \* the channel and the value that set_voltage is called with
  todo,        \* the ports that it has still to write
  latch,       \* the port as it read it
  reload,      \* RCAP2H and RCAP2L, the counter's value after an overflow
  asked        \* what the last accepted commands asked for

boardVars == <<main, pins, vol_state, call, todo, latch, reload, asked>>
vars == <<rateVars, boardVars>>

B == Board(variant)
NoCall == <<0, 1>>
OnPort(p) == Pins \cap ({p} \X (0 .. 7))
Do(macro, old) == (old \ macro.mask) \cup macro.bits

HighByte(n) == (n \div 256) % 256
LowByte(n) == n % 256
Timer2Val == 500
Negative(n) == 65536 - n
-----------------------------------------------------------------------------
(* drive_74hc595: eight times the top bit of `bits` goes to SRIN and       *)
(* SRCLK shifts the register; STOCLK then shows it at the outputs.         *)
Shift(s) ==
  [out |-> {b + 1 : b \in s.out \ {7}}
             \cup (IF 7 \in s.bits THEN {0} ELSE {}),
   bits |-> {b + 1 : b \in s.bits \ {7}}]

Drive74hc595(old, bits) ==
  LET Twice(s) == Shift(Shift(s))
      FourTimes(s) == Twice(Twice(s))
  IN  FourTimes(FourTimes([out |-> old, bits |-> bits])).out

Outputs(set) == {b \in 0 .. 7 : <<"Q", b>> \in set}

(* Pins that one instruction writes, and vol_state, whose new value is     *)
(* shifted out.                                                            *)
WriteDirect(old, mask, bits) ==
  LET state == (vol_state \ Outputs(mask)) \cup Outputs(bits)
      shown == Drive74hc595(Outputs(old), state)
  IN  /\ vol_state' = state
      /\ pins' = IF Outputs(mask) = {} THEN Do(Drive(mask, bits), old)
                 ELSE (old \ OnPort("Q")) \cup ({"Q"} \X shown)

-----------------------------------------------------------------------------
(* init() and main() up to the loop.  The outputs are enabled last, when   *)
(* set_voltage has been called for both channels and timer 2 has run for   *)
(* the 1.5s of RENUMERATE_UNCOND().  Until then a port that is read and    *)
(* written back takes the levels of its pins, the shift register sees no   *)
(* clock, and an instruction that writes single pins sets just these.      *)
ReadBack == UNION {OnPort(B.ports[i]) : i \in DOMAIN B.ports}

Preset(c, old, wired) ==
  LET own == B.gain[c].mask \ OnPort("Q")
  IN  IF B.gain[c].mask = {} THEN old
      ELSE Do(Drive(own, B.gain[c].bits[1] \cap own),
              (old \ ReadBack) \cup (wired \cap ReadBack))

(* Port E is not bit-addressable: a tick writes all of it back. *)
Ticked(old, wired) ==
  IF B.toggle \cap OnPort("E") = {} THEN old
  ELSE (old \ OnPort("E")) \cup (wired \cap OnPort("E"))

Init ==
  /\ RatesInit
  /\ main = "poll" /\ call = NoCall /\ todo = <<>> /\ latch = {}
  /\ \E wired \in Levels :
       pins = Ticked(Preset(1, Preset(0, Do(B.analog, wired), wired), wired),
                     wired)
  /\ vol_state = Outputs(B.gain[0].bits[1] \cup B.gain[1].bits[1])
  /\ reload = <<HighByte(Negative(Timer2Val)), LowByte(Negative(Timer2Val))>>
  /\ asked = [volts |-> [c \in {0, 1} |-> 0],   \* no command yet
              dc |-> [c \in {0, 1} |-> "unknown"], ticks |-> Timer2Val]

(* handle_vendorcommand: LED_RED() before the command is looked at.        *)
Red == Do(B.led.red, pins)

Refuses(c, val) == B.gain[c].mask = {} \/ val \notin DOMAIN B.gain[c].bits

(* set_voltage returns FALSE for a value it does not know, and TRUE for a  *)
(* channel that the board does not have; both leave the pins alone.  So do *)
(* the commands that are not about pins.                                   *)
RefuseVoltage(c, val) ==
  /\ main = "poll"
  /\ Refuses(c, val)
  /\ StopSampling
  /\ WriteDirect(Red, {}, {})
  /\ UNCHANGED <<main, call, todo, latch, reload, asked>>

Mask == B.gain[call[1]].mask
Bits == B.gain[call[1]].bits[call[2]]

SetVoltage(c, val) ==
  /\ main = "poll"
  /\ ~Refuses(c, val)
  /\ StopSampling
  /\ pins' = Red
  /\ main' = "direct"
  /\ call' = <<c, val>>
  /\ todo' = B.ports
  /\ asked' = [asked EXCEPT !.volts[c] = val]
  /\ UNCHANGED <<vol_state, latch, reload>>

WritesNext(ports) ==
  IF ports = <<>> THEN main' = "poll" /\ call' = NoCall
                  ELSE main' = "read" /\ UNCHANGED call

WriteRelay ==
  /\ main = "direct"
  /\ WriteDirect(pins, Mask \cap B.direct, Bits \cap B.direct)
  /\ WritesNext(todo)
  /\ UNCHANGED <<todo, latch, reload, asked, rateVars>>

ReadPort ==
  /\ main = "read"
  /\ latch' = pins \cap OnPort(Head(todo))
  /\ main' = "write"
  /\ UNCHANGED <<pins, vol_state, call, todo, reload, asked, rateVars>>

\* Slip: the whole port is written, not the bits of the mask.
WritePort_unmasked ==
  /\ main = "write"
  /\ pins' = (pins \ OnPort(Head(todo))) \cup (Bits \cap OnPort(Head(todo)))
  /\ todo' = Tail(todo)
  /\ WritesNext(Tail(todo))
  /\ latch' = {}
  /\ UNCHANGED <<vol_state, reload, asked, rateVars>>

(* IOC = (IOC & ~mask) | (bits & mask) *)
WritePort ==
  LET port == OnPort(Head(todo))
  IN  /\ main = "write"
      /\ pins' = (pins \ port)
                   \cup Do(Drive(Mask \cap port, Bits \cap port), latch)
      /\ todo' = Tail(todo)
      /\ WritesNext(Tail(todo))
      /\ latch' = {}
      /\ UNCHANGED <<vol_state, reload, asked, rateVars>>

(* SET_COUPLING(): bit 0 of the byte is channel 0, bit 4 is channel 1.     *)
WantsDc(byte, c) == (byte \div (IF c = 0 THEN 1 ELSE 16)) % 2 = 1

SetCoupling(byte) ==
  LET Both(f) == f[0] \cup f[1]
      chosen == [c \in {0, 1} |->
                   IF WantsDc(byte, c) THEN B.dc[c] ELSE B.ac[c]]
  IN  /\ main = "poll"
      /\ StopSampling
      /\ WriteDirect(Red, Both(B.dc) \cup Both(B.ac), Both(chosen))
      /\ asked' = [asked EXCEPT !.dc = [c \in {0, 1} |->
                     IF B.dc[c] \cup B.ac[c] = {} THEN "unknown"
                     ELSE IF WantsDc(byte, c) THEN "dc" ELSE "ac"]]
      /\ UNCHANGED <<main, call, todo, latch, reload>>

(* set_calibration_pulse: timer ticks per toggle, which count upwards to   *)
(* the overflow.  Only one board has it.                                   *)
PulseTicks(byte) ==
  CASE byte = 0 -> 10000 [] byte = 1 -> 1000 [] byte = 10 -> 100
    [] byte = 50 -> 20

KnowsPulse(byte) == B.pulse /\ byte \in {0, 1, 10, 50}

SetPulse(byte) ==
  /\ main = "poll"
  /\ StopSampling
  /\ pins' = Red
  /\ IF KnowsPulse(byte)
     THEN /\ main' = "reload"
          /\ asked' = [asked EXCEPT !.ticks = PulseTicks(byte)]
          /\ reload' = [reload EXCEPT ![2] =
                          LowByte(Negative(PulseTicks(byte)))]
     ELSE UNCHANGED <<main, asked, reload>>
  /\ UNCHANGED <<vol_state, call, todo, latch>>

SetPulseHigh ==
  /\ main = "reload"
  /\ main' = "poll"
  /\ reload' = [reload EXCEPT ![1] = HighByte(Negative(asked.ticks))]
  /\ UNCHANGED <<pins, vol_state, call, todo, latch, asked, rateVars>>

SetRate(rate) ==
  /\ main = "poll"
  /\ SetSamplerate(rate) \/ UnknownSamplerate(rate)
  /\ pins' = Red
  /\ UNCHANGED <<main, vol_state, call, todo, latch, reload, asked>>

StartSampling ==
  /\ main = "poll"
  /\ Trigger
  /\ pins' = Do(B.led.green, Do(B.analog, Red))
  /\ UNCHANGED <<main, vol_state, call, todo, latch, reload, asked>>

(* timer2_isr: the calibration pin, and the LED when ledcounter expires.   *)
Timer2Isr ==
  LET toggled == (pins \ B.toggle) \cup (B.toggle \ pins)
  IN  /\ pins' \in {toggled, Do(B.led.clear, toggled)}
      /\ UNCHANGED <<main, vol_state, call, todo, latch, reload, asked,
                     rateVars>>

Engine ==
  /\ Wait \/ \E rdy \in Rdy0 : Decide(rdy)
  /\ UNCHANGED boardVars

Command ==
  \/ \E c \in {0, 1}, val \in Voltages :
       RefuseVoltage(c, val) \/ SetVoltage(c, val)
  \/ \E byte \in Couplings : SetCoupling(byte)
  \/ \E byte \in Pulses : SetPulse(byte)
  \/ \E rate \in RateBytes : SetRate(rate)
  \/ StartSampling

Main == WriteRelay \/ ReadPort \/ WritePort \/ SetPulseHigh

Next == Command \/ Main \/ Timer2Isr \/ Engine

Spec == Init /\ [][Next]_vars
-----------------------------------------------------------------------------
(* How the gain selectors are wired: per channel three pins, and per value *)
(* the number they form (first pin lowest).  Where the comments of the     *)
(* sources say something else (hantek-6022be/fw.c:63-64 swaps the          *)
(* channels, sainsmart-dds120/fw.c:72-86 two pins of each), this is what   *)
(* the code does.                                                          *)
Selector(c) ==
  CASE variant = "hantek-6022be" ->
         IF c = 0 THEN <<<<"C", 2>>, <<"C", 3>>, <<"C", 4>>>>
                  ELSE <<<<"C", 5>>, <<"C", 6>>, <<"C", 7>>>>
    [] variant \in {"hantek-6022bl", "yixingdianzi-mdso"} ->
         IF c = 0 THEN <<<<"A", 1>>, <<"A", 2>>, <<"A", 3>>>>
                  ELSE <<<<"A", 4>>, <<"A", 5>>, <<"A", 6>>>>
    [] variant = "hantek-pso2020" -> <<<<"C", 2>>, <<"C", 1>>, <<"A", 7>>>>
    [] variant = "instrustar-isds205b" ->
         IF c = 0 THEN <<<<"Q", 0>>, <<"Q", 1>>, <<"Q", 6>>>>
                  ELSE <<<<"Q", 3>>, <<"Q", 2>>, <<"Q", 4>>>>
    [] variant = "sainsmart-dds120" ->
         IF c = 0 THEN <<<<"C", 1>>, <<"C", 2>>, <<"C", 3>>>>
                  ELSE <<<<"E", 1>>, <<"C", 4>>, <<"C", 5>>>>

Selects(val) ==
  CASE variant = "hantek-pso2020" ->
         (CASE val = 1 -> 6 [] val = 2 -> 5 [] val = 5 -> 4 [] val = 10 -> 7
            [] val = 11 -> 2 [] val = 12 -> 1 [] val = 13 -> 0 [] val = 14 -> 3)
    [] variant = "instrustar-isds205b" ->
         (CASE val = 1 -> 1 [] val = 2 -> 2 [] val = 5 -> 0 [] val = 10 -> 6
            [] val = 11 -> 4 [] val = 12 -> 7)
    [] variant = "sainsmart-dds120" ->
         (CASE val = 1 -> 1 [] val = 2 -> 3 [] val = 5 -> 0 [] val = 10 -> 2
            [] val = 20 -> 4)
    [] OTHER ->
         (CASE val = 1 -> 2 [] val = 2 -> 1 [] val = 5 -> 0
            [] val \in {10, 16} -> 3)

Writing(c) == main \in {"direct", "read", "write"} /\ call[1] = c

Shows(selector, c) ==
  \A i \in 1 .. 3 :
    selector[i] \in pins <=> (Selects(asked.volts[c]) \div Weight[i]) % 2 = 1

(* Of each channel whose gain the host has set, unless its pins are just   *)
(* being written.                                                          *)
GainTrue ==
  \A c \in {0, 1} : asked.volts[c] # 0 /\ B.gain[c].mask # {} /\ ~Writing(c)
    => Shows(Selector(c), c)

CouplingTrue ==
  \A c \in {0, 1} :
    CASE asked.dc[c] = "dc" -> B.dc[c] \subseteq pins /\ B.ac[c] \cap pins = {}
      [] asked.dc[c] = "ac" -> B.ac[c] \subseteq pins /\ B.dc[c] \cap pins = {}
      [] OTHER -> TRUE

TicksTrue ==
  main # "reload" => 65536 - (256 * reload[1] + reload[2]) = asked.ticks

(* BOARD.  However commands, refused values and timer interrupts follow    *)
(* and interrupt each other, each channel has the gain and the coupling    *)
(* that were accepted last for it and the calibration pin's timer the      *)
(* period, whatever the pins were when the outputs were enabled            *)
(* (set_voltage, set_coupling and set_calibration_pulse of src/hw/*/fw.c). *)
BoardAsAsked == GainTrue /\ CouplingTrue /\ TicksTrue

(* ONLY THE REQUESTED.  Whatever interrupts it, a gain command changes no  *)
(* pin but those of the channel it names: not the other channel's gain,    *)
(* not a coupling, a relay or the analog mode (hantek-6022be/fw.c:78-80    *)
(* and others: "we mask it out to only affect the channel currently        *)
(* requested").  The code does not keep this in two cases, which are let   *)
(* through: a pin that timer2_isr writes, on the port being written back,  *)
(* where a tick since the read is undone (the calibration pin of           *)
(* sainsmart-dds120, the LED of hantek-6022be); and an output of the shift *)
(* register that does not show vol_state yet (instrustar-isds205b, before  *)
(* its first command).                                                     *)
TickPins == B.toggle \cup B.led.clear.mask
TickUndone(p) == main = "write" /\ p[1] = Head(todo) /\ p \in TickPins
FirstShown(p) ==
  main = "direct" /\ p \in OnPort("Q") /\ Outputs(pins) # vol_state

OnlyRequestedPins ==
  [][main' # main /\ main \in {"direct", "write"} =>
       \A p \in Pins \ Mask :
         (p \in pins' <=> p \in pins) \/ TickUndone(p) \/ FirstShown(p)]_vars
=============================================================================
