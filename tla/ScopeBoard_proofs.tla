-------------------------- MODULE ScopeBoard_proofs --------------------------
(***************************************************************************)
(* Proofs about the oscilloscopes' boards, for every sequence of vendor    *)
(* commands with any parameters, timer 2 interrupting anywhere.            *)
(***************************************************************************)
EXTENDS ScopeBoard, TLAPS

-----------------------------------------------------------------------------
(* The waveform program of a rate. *)

(* The clocks from one sample to the next. *)
Turn(r) ==
  IF r.kind = "continuous" THEN 1
  ELSE IF r.kind = "double" THEN r.wait0 + 1
  ELSE r.wait0 + r.wait1 + 1

RowRight(r) ==
  /\ r.kind \in {"continuous", "double", "triple"}
  /\ r.kind # "continuous" => r.wait0 \in 1 .. 255
  /\ r.kind = "triple" => r.wait1 \in 1 .. 255
  /\ Turn(r) * NominalKHz(r.rate) = 1000 * r.mhz

(* Each row by its bytes. *)
LEMMA RowsRight == ASSUME NEW r \in Dds120Rows PROVE RowRight(r)
<1>1. CASE r \in CommonRows
  BY <1>1 DEF CommonRows, Row, RowRight, Turn, NominalKHz
<1>2. CASE r \notin CommonRows
  BY <1>2 DEF Dds120Rows, Row, RowRight, Turn, NominalKHz
<1> QED
  BY <1>1, <1>2

LEMMA RowOf ==
  ASSUME variant \in Devices, NEW r \in Rows(variant) PROVE RowRight(r)
<1>1. Rows(variant) \in {CommonRows, Dds120Rows}
  BY DEF Devices, Rows, Board, Hantek6022be, Hantek6022bl, HantekPso2020,
         InstrustarIsds205b, SainsmartDds120, YixingdianziMdso
<1>2. CommonRows \subseteq Dds120Rows
  BY DEF Dds120Rows
<1> QED
  BY <1>1, <1>2, RowsRight

Rdy0High == Rdy0 \subseteq {TRUE}

(* The engine's way through the program: the state it is in tells whether  *)
(* CTL has risen since the last sample and, for RDY0 high, how long it has *)
(* run.  With RDY0 low the third state goes back to the second.            *)
RowInv ==
  /\ variant \in Devices
  /\ row \in Rows(variant)
  /\ wave = Overwrite(Blank, Program(row))

TurnInv ==
  /\ pos \in {0, 1, 2, Idle}
  /\ pos = 0 /\ sampled =>
       /\ Rdy0High => clocks = Turn(row)
       /\ rises = IF row.kind = "continuous" THEN 0 ELSE 1
  /\ pos = 1 =>
       \/ /\ row.kind # "continuous"
          /\ clocks = row.wait0 /\ level = "low" /\ rises = 0
       \/ ~Rdy0High /\ row.kind = "triple" /\ level = "high" /\ rises = 1
  /\ pos = 2 =>
       /\ row.kind = "triple" /\ level = "high" /\ rises = 1
       /\ Rdy0High => clocks = row.wait0 + row.wait1

LEMMA CurrentState ==
  ASSUME RowInv, pos \in {0, 1, 2}
  PROVE  Current = Program(row)[pos + 1]
<1>1. Len(Program(row)) = 3 /\ pos + 1 \in 1 .. 3
  BY DEF Program
<1> QED
  BY <1>1 DEF RowInv, Overwrite, Current, WaveStates

(* What a step of the engine does in each state of a program. *)
LEMMA AtFirst ==
  ASSUME RowInv, pos = 0
  PROVE  Current = IF row.kind = "continuous"
                   THEN DecisionState(0, 0, TRUE, "tristate")
                   ELSE WaitState(row.wait0, TRUE, "low")
<1>1. Current = Program(row)[1]
  BY CurrentState
<1> QED
  BY <1>1 DEF Program

LEMMA AtSecond ==
  ASSUME RowInv, pos = 1
  PROVE  Current = IF row.kind = "double"
                   THEN DecisionState(0, 0, FALSE, "high")
                   ELSE WaitState(row.wait1, FALSE, "high")
<1>1. Current = Program(row)[2]
  BY CurrentState
<1> QED
  BY <1>1 DEF Program

LEMMA AtThird ==
  ASSUME RowInv, pos = 2
  PROVE  Current = DecisionState(0, 1, FALSE, "high")
BY CurrentState DEF Program

LEMMA EngineStep ==
  ASSUME RowInv, TurnInv, Wait \/ \E rdy \in Rdy0 : Decide(rdy)
  PROVE  TurnInv'
<1>1. UNCHANGED <<variant, row>>
  BY DEF Wait, Decide
<1>2. RowRight(row)
  BY RowOf DEF RowInv
<1>3. Turn(row)' = Turn(row)
  BY <1>1 DEF Turn
<1>4. CASE pos = 0
  <2>1. CASE row.kind = "continuous"
    <3>1. Current = DecisionState(0, 0, TRUE, "tristate")
      BY <1>4, <2>1, AtFirst
    <3>2. pos' = 0 /\ clocks' = 1 /\ rises' = 0
      BY <3>1 DEF Wait, Decide, Execute, Duration, Branch, DecisionState
    <3> QED
      BY <1>1, <1>3, <2>1, <3>2 DEF TurnInv, Turn
  <2>2. CASE row.kind # "continuous"
    <3>1. Current = WaitState(row.wait0, TRUE, "low")
      BY <1>4, <2>2, AtFirst
    <3>2. row.wait0 \in 1 .. 255
      BY <1>2, <2>2 DEF RowRight
    <3>3. pos' = 1 /\ clocks' = row.wait0 /\ level' = "low" /\ rises' = 0
      BY <1>4, <3>1, <3>2 DEF Wait, Decide, Execute, Duration, WaitState
    <3> QED
      BY <1>1, <2>2, <3>3 DEF TurnInv, Idle, WaveStates
  <2> QED
    BY <2>1, <2>2
<1>5. CASE /\ pos = 1 /\ row.kind # "continuous"
           /\ clocks = row.wait0 /\ level = "low" /\ rises = 0
  <2>1. /\ row.wait0 \in 1 .. 255 /\ clocks = row.wait0 /\ level = "low"
        /\ rises = 0 /\ row.kind # "continuous"
    BY <1>2, <1>5 DEF RowRight
  <2>2. CASE row.kind = "double"
    <3>1. Current = DecisionState(0, 0, FALSE, "high")
      BY <1>5, <2>2, AtSecond
    <3>2. pos' = 0 /\ clocks' = row.wait0 + 1 /\ rises' = 1
      BY <2>1, <3>1 DEF Wait, Decide, Execute, Duration, Branch, DecisionState
    <3> QED
      BY <1>1, <1>3, <2>2, <3>2 DEF TurnInv, Turn
  <2>3. CASE row.kind # "double"
    <3>1. Current = WaitState(row.wait1, FALSE, "high")
      BY <1>5, <2>3, AtSecond
    <3>2. row.kind = "triple" /\ row.wait1 \in 1 .. 255
      BY <1>2, <2>1, <2>3 DEF RowRight
    <3>3. pos' = 2 /\ clocks' = row.wait0 + row.wait1 /\ rises' = 1
          /\ level' = "high"
      BY <1>5, <2>1, <3>1, <3>2 DEF Wait, Decide, Execute, Duration, WaitState
    <3> QED
      BY <1>1, <3>2, <3>3 DEF TurnInv, Idle, WaveStates
  <2> QED
    BY <2>2, <2>3
<1>51. CASE /\ pos = 1 /\ ~Rdy0High
            /\ row.kind = "triple" /\ level = "high" /\ rises = 1
  <2>1. Current = WaitState(row.wait1, FALSE, "high")
    BY <1>51, AtSecond
  <2>2. pos' = 2 /\ rises' = 1 /\ level' = "high"
    BY <1>51, <2>1 DEF Wait, Decide, Execute, WaitState
  <2> QED
    BY <1>1, <1>51, <2>2 DEF TurnInv, Idle, WaveStates, Rdy0High
<1>6. CASE pos = 2
  <2>1. /\ row.kind = "triple" /\ rises = 1 /\ level = "high"
        /\ Rdy0High => clocks = row.wait0 + row.wait1
    BY <1>6 DEF TurnInv, Idle, WaveStates
  <2>2. row.wait0 \in 1 .. 255 /\ row.wait1 \in 1 .. 255
    BY <1>2, <2>1 DEF RowRight
  <2>3. Current = DecisionState(0, 1, FALSE, "high")
    BY <1>6, AtThird
  <2>4. PICK rdy \in Rdy0 : Decide(rdy)
    BY <2>3 DEF Wait, DecisionState
  <2>5. rises' = 1 /\ level' = "high" /\ clocks' = clocks + 1
        /\ pos' = IF rdy THEN 0 ELSE 1
    BY <2>1, <2>3, <2>4 DEF Decide, Execute, Duration, Branch, DecisionState
  <2>6. CASE rdy
    <3>1. Rdy0High => clocks' = Turn(row)'
      BY <1>3, <2>1, <2>2, <2>5 DEF Turn
    <3>2. pos' = 0
      BY <2>5, <2>6
    <3>3. Rdy0High' = Rdy0High
      BY DEF Rdy0High
    <3> QED
      BY <1>1, <2>1, <2>5, <3>1, <3>2, <3>3 DEF TurnInv, Idle, WaveStates
  <2>7. CASE ~rdy
    <3>1. ~Rdy0High
      BY <2>4, <2>7 DEF Rdy0High
    <3> QED
      BY <1>1, <2>1, <2>5, <2>7, <3>1 DEF TurnInv, Rdy0High, Idle, WaveStates
  <2> QED
    BY <2>6, <2>7
<1> QED
  BY <1>4, <1>5, <1>51, <1>6 DEF Wait, Decide, TurnInv

(* Commands write a whole program, and stop or trigger the engine. *)
LEMMA RatesStep ==
  ASSUME RowInv, TurnInv, [Next]_vars PROVE RowInv' /\ TurnInv'
<1>1. CASE UNCHANGED rateVars
  <2>1. RowInv'
    BY <1>1 DEF RowInv, rateVars, Rows
  <2>2. TurnInv'
    BY <1>1 DEF TurnInv, Turn, Rdy0High, rateVars, engineVars
  <2> QED
    BY <2>1, <2>2
<1>2. ASSUME EngineAbort \/ EngineTrigger PROVE TurnInv'
  BY <1>2
  DEF TurnInv, EngineAbort, EngineTrigger, EngineAt, Idle, WaveStates
<1>3. CASE StopSampling \/ Trigger
  <2>1. RowInv'
    BY <1>3 DEF StopSampling, Trigger, RowInv, Rows
  <2> QED
    BY <1>2, <1>3, <2>1 DEF StopSampling, Trigger
<1>4. CASE \E rate \in RateBytes : SetSamplerate(rate)
  <2>1. RowInv'
    BY <1>4 DEF SetSamplerate, RowInv, Rows
  <2> QED
    BY <1>2, <1>4, <2>1 DEF SetSamplerate
<1>5. CASE Engine
  <2>1. Wait \/ \E rdy \in Rdy0 : Decide(rdy)
    BY <1>5 DEF Engine
  <2>2. RowInv'
    BY <2>1 DEF Wait, Decide, RowInv, Rows
  <2> QED
    BY <2>1, <2>2, EngineStep
<1>6. CASE Command
  <2>1. \/ UNCHANGED rateVars \/ StopSampling \/ Trigger
        \/ \E rate \in RateBytes : SetSamplerate(rate)
    BY <1>6 DEF Command, RefuseVoltage, SetVoltage, SetCoupling, SetPulse,
                SetRate, StartSampling, UnknownSamplerate
  <2> QED
    BY <1>1, <1>3, <1>4, <2>1
<1>7. CASE Main \/ Timer2Isr \/ UNCHANGED vars
  <2>1. UNCHANGED rateVars
    BY <1>7
    DEF Main, WriteRelay, ReadPort, WritePort, SetPulseHigh, Timer2Isr, vars
  <2> QED
    BY <1>1, <2>1
<1> QED
  BY <1>5, <1>6, <1>7 DEF Next

LEMMA RatesInvariant == Spec => [](RowInv /\ TurnInv)
<1>1. Init => RowInv /\ TurnInv
  <2> SUFFICES ASSUME Init PROVE RowInv /\ TurnInv
    OBVIOUS
  <2>1. RatesInit
    BY DEF Init
  <2>2. RowInv
    BY <2>1, RatesAssumption DEF RatesInit, RowInv
  <2>3. TurnInv
    BY <2>1 DEF RatesInit, EngineInit, TurnInv, Idle, WaveStates
  <2> QED
    BY <2>2, <2>3
<1>2. RowInv /\ TurnInv /\ [Next]_vars => (RowInv /\ TurnInv)'
  BY RatesStep
<1> QED
  BY <1>1, <1>2, PTL DEF Spec

(* The state that samples is the first one. *)
LEMMA SampledAtFirst ==
  ASSUME RowInv, TurnInv, AtSample PROVE pos = 0 /\ sampled
<1>1. pos \in {0, 1, 2} /\ sampled /\ Current.data
  BY DEF AtSample, TurnInv
<1>2. pos # 1
  <2> SUFFICES ASSUME pos = 1 PROVE FALSE
    OBVIOUS
  <2>1. ~Current.data
    BY AtSecond DEF DecisionState, WaitState
  <2> QED
    BY <1>1, <2>1
<1>3. pos # 2
  <2> SUFFICES ASSUME pos = 2 PROVE FALSE
    OBVIOUS
  <2>1. ~Current.data
    BY AtThird DEF DecisionState
  <2> QED
    BY <1>1, <2>1
<1> QED
  BY <1>1, <1>2, <1>3

(* On every device and after any sequence of accepted and refused rates    *)
(* the engine samples at exactly the rate that was accepted last, with one *)
(* clock of the converter for each sample, while RDY0 is high              *)
(* (scope.inc:187-263 and the tables of src/hw/*/fw.c).                    *)
THEOREM RatesAreNominal == ASSUME Rdy0High PROVE Spec => []SamplesAtNominalRate
<1>1. ASSUME RowInv, TurnInv PROVE SamplesAtNominalRate
  <2>1. AtSample => clocks = Turn(row)
    BY <1>1, SampledAtFirst DEF TurnInv
  <2>2. RowRight(row)
    BY <1>1, RowOf DEF RowInv
  <2> QED
    BY <1>1, <2>1, <2>2, SampledAtFirst
    DEF RowRight, TurnInv, SamplesAtNominalRate, OneAdcClockPerSample
<1> QED
  BY <1>1, RatesInvariant, PTL

(* It clocks the converter exactly once per sample whatever RDY0 does      *)
(* (scope.inc:203-216).                                                    *)
THEOREM ConverterIsClocked == Spec => []OneAdcClockPerSample
<1>1. ASSUME RowInv, TurnInv PROVE OneAdcClockPerSample
  BY <1>1, SampledAtFirst DEF TurnInv, OneAdcClockPerSample
<1> QED
  BY <1>1, RatesInvariant, PTL

-----------------------------------------------------------------------------
(* How a board is wired: what the tables of module Boards have to be for   *)
(* commands and interrupts not to be in each other's way.                  *)

Channels == {0, 1}
Gain(c) == B.gain[c].mask
Coupling(c) == B.dc[c] \cup B.ac[c]
Both == Coupling(0) \cup Coupling(1)
Leds == B.led.clear.mask \cup B.led.green.mask \cup B.led.red.mask
Lights == Leds \cup B.analog.mask

PinsWired ==
  /\ Gain(0) \cup Gain(1) \cup Both \cup Lights \cup B.toggle \subseteq Pins
  /\ \A c \in Channels :
       /\ Gain(c) \subseteq OnPort("Q") \/ Gain(c) \cap OnPort("Q") = {}
       /\ Gain(c) \subseteq B.direct
            \cup UNION {OnPort(B.ports[i]) : i \in DOMAIN B.ports}
  /\ Both \subseteq OnPort("Q") \/ Both \cap OnPort("Q") = {}
  /\ (Lights \cup B.toggle) \cap OnPort("Q") = {}
  /\ B.ports \in Seq({"A", "C", "E"})

\* No two uses share a pin.
PinsApart ==
  /\ Gain(0) \cap Gain(1) = {}
  /\ Coupling(0) \cap Coupling(1) = {}
  /\ \A c \in Channels :
       /\ Gain(c) \cap (Both \cup Lights \cup B.toggle) = {}
       /\ B.dc[c] \cap B.ac[c] = {}
  /\ Both \cap (Lights \cup B.toggle) = {}
  /\ Lights \cap B.toggle = {}

BitsWithin ==
  /\ \A m \in {B.led.clear, B.led.green, B.led.red, B.analog} :
       m.bits \subseteq m.mask
  /\ \A c \in Channels : \A val \in DOMAIN B.gain[c].bits :
       B.gain[c].bits[val] \subseteq Gain(c)
  /\ B.toggle = {} \/ \E pin \in Pins : B.toggle = {pin}

(* The bits of a value are the number that the selector has for it.        *)
GainsRight ==
  \A c \in Channels :
    /\ 1 \in DOMAIN B.gain[c].bits
    /\ Gain(c) # {} =>
         \A val \in DOMAIN B.gain[c].bits : \A i \in 1 .. 3 :
           /\ Selector(c)[i] \in Gain(c)
           /\ Selector(c)[i] \in B.gain[c].bits[val]
                <=> (Selects(val) \div Weight[i]) % 2 = 1

Wired == PinsWired /\ PinsApart /\ BitsWithin /\ GainsRight

-----------------------------------------------------------------------------
(* The shift register: after eight clocks it shows the byte. *)

(* After k clocks the lower bits of the register are the upper ones of the *)
(* byte, and the byte has moved up.                                        *)
Shifted(s, k, bits) ==
  /\ s.out \subseteq 0 .. 7 /\ s.bits \subseteq 0 .. 7
  /\ \A b \in 0 .. 7 : b < k => (b \in s.out <=> b + 8 - k \in bits)
  /\ \A b \in 0 .. 7 : b \in s.bits <=> b >= k /\ b - k \in bits

LEMMA ShiftOnce ==
  ASSUME NEW bits \in SUBSET (0 .. 7), NEW k \in 0 .. 7, NEW s,
         Shifted(s, k, bits)
  PROVE  Shifted(Shift(s), k + 1, bits)
<1> DEFINE t == Shift(s)
<1>1. /\ t.out = {b + 1 : b \in s.out \ {7}}
                   \cup (IF 7 \in s.bits THEN {0} ELSE {})
      /\ t.bits = {b + 1 : b \in s.bits \ {7}}
  BY DEF Shift
<1> HIDE DEF t
<1>2. s.out \subseteq 0 .. 7 /\ s.bits \subseteq 0 .. 7
  BY DEF Shifted
<1>3. t.out \subseteq 0 .. 7 /\ t.bits \subseteq 0 .. 7
  BY <1>1, <1>2
<1>4. \A b \in 0 .. 7 : b \in t.bits <=> b >= 1 /\ b - 1 \in s.bits
  BY <1>1, <1>2
<1>5. \A b \in 0 .. 7 : b \in t.bits <=> b >= k + 1 /\ b - (k + 1) \in bits
  <2> TAKE b \in 0 .. 7
  <2>1. CASE b = 0
    BY <2>1, <1>4
  <2>2. CASE b # 0
    <3>1. b - 1 \in 0 .. 7 /\ (b - 1) - k = b - (k + 1)
      BY <2>2
    <3>2. b - 1 \in s.bits <=> b - 1 >= k /\ (b - 1) - k \in bits
      BY <3>1 DEF Shifted
    <3> QED
      BY <2>2, <3>1, <3>2, <1>4
  <2> QED
    BY <2>1, <2>2
<1>6. \A b \in 0 .. 7 :
        b \in t.out <=> IF b = 0 THEN 7 \in s.bits ELSE b - 1 \in s.out
  BY <1>1, <1>2
<1>7. \A b \in 0 .. 7 : b < k + 1 => (b \in t.out <=> b + 8 - (k + 1) \in bits)
  <2> TAKE b \in 0 .. 7
  <2> HAVE b < k + 1
  <2>1. CASE b = 0
    <3>1. 7 \in s.bits <=> 7 - k \in bits
      BY DEF Shifted
    <3>2. b + 8 - (k + 1) = 7 - k
      BY <2>1
    <3> QED
      BY <2>1, <3>1, <3>2, <1>6
  <2>2. CASE b # 0
    <3>1. b - 1 \in 0 .. 7 /\ b - 1 < k /\ (b - 1) + 8 - k = b + 8 - (k + 1)
      BY <2>2
    <3>2. b - 1 \in s.out <=> (b - 1) + 8 - k \in bits
      BY <3>1 DEF Shifted
    <3> QED
      BY <2>2, <3>1, <3>2, <1>6
  <2> QED
    BY <2>1, <2>2
<1>8. Shifted(t, k + 1, bits)
  BY <1>3, <1>5, <1>7 DEF Shifted
<1> QED
  BY <1>8 DEF t

LEMMA RegisterShows ==
  ASSUME NEW old \in SUBSET (0 .. 7), NEW bits \in SUBSET (0 .. 7)
  PROVE  Drive74hc595(old, bits) = bits
<1> DEFINE s0 == [out |-> old, bits |-> bits]
           s1 == Shift(s0)
           s2 == Shift(s1)
           s3 == Shift(s2)
           s4 == Shift(s3)
           s5 == Shift(s4)
           s6 == Shift(s5)
           s7 == Shift(s6)
           s8 == Shift(s7)
<1>1. Drive74hc595(old, bits) = s8.out
  BY DEF Drive74hc595
<1>2. Shifted(s0, 0, bits)
  BY DEF Shifted
<1>3. Shifted(s1, 1, bits)
  BY <1>2, ShiftOnce
<1> HIDE DEF s1
<1>4. Shifted(s2, 2, bits)
  BY <1>3, ShiftOnce
<1> HIDE DEF s2
<1>5. Shifted(s3, 3, bits)
  BY <1>4, ShiftOnce
<1> HIDE DEF s3
<1>6. Shifted(s4, 4, bits)
  BY <1>5, ShiftOnce
<1> HIDE DEF s4
<1>7. Shifted(s5, 5, bits)
  BY <1>6, ShiftOnce
<1> HIDE DEF s5
<1>8. Shifted(s6, 6, bits)
  BY <1>7, ShiftOnce
<1> HIDE DEF s6
<1>9. Shifted(s7, 7, bits)
  BY <1>8, ShiftOnce
<1> HIDE DEF s7
<1>10. Shifted(s8, 8, bits)
  BY <1>9, ShiftOnce
<1> HIDE DEF s8
<1>11. \A b \in 0 .. 7 : b \in s8.out <=> b \in bits
  BY <1>10 DEF Shifted
<1>12. s8.out \subseteq 0 .. 7
  BY <1>10 DEF Shifted
<1> QED
  BY <1>1, <1>11, <1>12

-----------------------------------------------------------------------------
(* What each step does to the pins. *)

(* The pins as the firmware means them: before the register is clocked for *)
(* the first time its outputs need not show vol_state.                     *)
Ideal(some, state) == (some \ OnPort("Q")) \cup ({"Q"} \X state)
Meant == Ideal(pins, vol_state)
Synced == Outputs(pins) = vol_state

PinsInv == pins \subseteq Pins /\ vol_state \subseteq 0 .. 7

LEMMA OnQ ==
  /\ \A b \in 0 .. 7 : <<"Q", b>> \in OnPort("Q")
  /\ \A pin \in OnPort("Q") : \E b \in 0 .. 7 : pin = <<"Q", b>>
BY DEF OnPort, Pins

LEMMA SameOutputs ==
  ASSUME NEW one, NEW other,
         one \cap OnPort("Q") = other \cap OnPort("Q")
  PROVE  Outputs(one) = Outputs(other)
<1>1. \A b \in 0 .. 7 : <<"Q", b>> \in one <=> <<"Q", b>> \in other
  BY OnQ
<1> QED
  BY <1>1 DEF Outputs

LEMMA IdealPins ==
  ASSUME NEW some \in SUBSET Pins, NEW state \in SUBSET (0 .. 7)
  PROVE  /\ Ideal(some, state) \subseteq Pins
         /\ Ideal(some, state) \ OnPort("Q") = some \ OnPort("Q")
         /\ \A b \in 0 .. 7 : <<"Q", b>> \in Ideal(some, state) <=> b \in state
<1>1. {"Q"} \X state \subseteq OnPort("Q") /\ OnPort("Q") \subseteq Pins
  BY DEF OnPort, Pins
<1>2. \A b \in 0 .. 7 : <<"Q", b>> \in {"Q"} \X state <=> b \in state
  OBVIOUS
<1> QED
  BY <1>1, <1>2, OnQ DEF Ideal

(* What is not a register's output, or shows what it is meant to. *)
LEMMA MeantShows ==
  ASSUME PinsInv, NEW some \in SUBSET Pins,
         some \cap OnPort("Q") = {} \/ Synced
  PROVE  pins \cap some = Meant \cap some
<1>1. /\ Meant \ OnPort("Q") = pins \ OnPort("Q")
      /\ \A b \in 0 .. 7 : <<"Q", b>> \in Meant <=> b \in vol_state
  BY IdealPins DEF PinsInv, Meant
<1>2. CASE some \cap OnPort("Q") = {}
  BY <1>1, <1>2
<1>3. CASE Synced
  <2>1. \A b \in 0 .. 7 : <<"Q", b>> \in pins <=> b \in vol_state
    BY <1>3 DEF Synced, Outputs
  <2>2. pins \cap OnPort("Q") = Meant \cap OnPort("Q")
    BY <1>1, <2>1, OnQ
  <2> QED
    BY <1>1, <2>2
<1> QED
  BY <1>2, <1>3

(* Through the shift register, or by an instruction per pin: the pins of   *)
(* the mask are meant to take the values of the bits, and the others to    *)
(* stay; the register, once clocked, shows vol_state.                      *)
LEMMA DirectWrites ==
  ASSUME NEW old \in SUBSET Pins, vol_state \subseteq 0 .. 7,
         NEW mask \in SUBSET Pins, NEW bits \in SUBSET mask,
         mask \subseteq OnPort("Q") \/ mask \cap OnPort("Q") = {},
         WriteDirect(old, mask, bits)
  PROVE  /\ PinsInv'
         /\ Meant' = (Ideal(old, vol_state) \ mask) \cup bits
         /\ Outputs(old) = vol_state \/ Outputs(mask) # {} => Synced'
<1> DEFINE state == (vol_state \ Outputs(mask)) \cup Outputs(bits)
           ideal == Ideal(old, vol_state)
<1>1. vol_state' = state
  BY DEF WriteDirect
<1>2. state \in SUBSET (0 .. 7)
  BY DEF Outputs
<1>3. /\ ideal \subseteq Pins /\ ideal \ OnPort("Q") = old \ OnPort("Q")
      /\ \A b \in 0 .. 7 : <<"Q", b>> \in ideal <=> b \in vol_state
  BY IdealPins
<1>4. Meant' = (pins' \ OnPort("Q")) \cup ({"Q"} \X vol_state')
  BY DEF Meant, Ideal, OnPort
<1>5. ideal = (old \ OnPort("Q")) \cup ({"Q"} \X vol_state)
  BY DEF Ideal
<1> HIDE DEF ideal
<1>6. CASE Outputs(mask) = {}
  <2>1. mask \cap OnPort("Q") = {}
    BY <1>6, OnQ DEF Outputs
  <2>2. pins' = (old \ mask) \cup bits
    BY <1>6 DEF WriteDirect, Do, Drive
  <2>3. Outputs(bits) = {}
    BY <1>6 DEF Outputs
  <2>4. vol_state' = vol_state
    BY <1>1, <1>6, <2>3
  <2>5. Outputs(pins') = Outputs(old)
    <3>1. pins' \cap OnPort("Q") = old \cap OnPort("Q")
      BY <2>1, <2>2
    <3> QED
      BY <3>1, SameOutputs
  <2>6. Meant' = (ideal \ mask) \cup bits
    <3>1. ({"Q"} \X vol_state) \cap mask = {}
      <4>1. {"Q"} \X vol_state \subseteq OnPort("Q")
        BY DEF OnPort, Pins
      <4> QED
        BY <2>1, <4>1
    <3> QED
      BY <1>4, <1>5, <2>1, <2>2, <2>4, <3>1
  <2>7. pins' \subseteq Pins
    BY <2>2
  <2>8. Synced' <=> Outputs(pins') = vol_state'
    BY DEF Synced, Outputs
  <2> QED
    BY <1>6, <2>4, <2>5, <2>6, <2>7, <2>8 DEF PinsInv, ideal
<1>7. CASE Outputs(mask) # {}
  <2>1. mask \subseteq OnPort("Q")
    BY <1>7, OnQ DEF Outputs
  <2>2. Drive74hc595(Outputs(old), state) = state
    <3>1. Outputs(old) \in SUBSET (0 .. 7)
      BY DEF Outputs
    <3> QED
      BY <1>2, <3>1, RegisterShows
  <2>3. pins' = (old \ OnPort("Q")) \cup ({"Q"} \X state)
    BY <1>7, <2>2 DEF WriteDirect
  <2>4. \A b \in 0 .. 7 :
          b \in state <=> <<"Q", b>> \in (ideal \ mask) \cup bits
    BY <1>3 DEF Outputs
  <2> HIDE DEF state
  <2>5. \A pin \in OnPort("Q") :
          pin \in {"Q"} \X state <=> pin \in (ideal \ mask) \cup bits
    <3> TAKE pin \in OnPort("Q")
    <3>1. PICK b \in 0 .. 7 : pin = <<"Q", b>>
      BY OnQ
    <3> QED
      BY <2>4, <3>1
  <2>6. {"Q"} \X state \subseteq OnPort("Q") /\ OnPort("Q") \subseteq Pins
    BY <1>2 DEF OnPort, Pins
  <2>7. Meant' = (ideal \ mask) \cup bits
    BY <1>1, <1>3, <1>4, <2>1, <2>3, <2>5, <2>6
  <2>8. pins' \subseteq Pins
    BY <2>3, <2>6
  <2>9. Outputs(pins') = state
    <3>1. \A b \in 0 .. 7 : <<"Q", b>> \in pins' <=> b \in state
      BY <2>3, OnQ
    <3> QED
      BY <1>2, <3>1 DEF Outputs
  <2>10. Synced' <=> Outputs(pins') = vol_state'
    BY DEF Synced, Outputs
  <2> QED
    BY <1>1, <1>2, <2>7, <2>8, <2>9, <2>10 DEF PinsInv, ideal
<1> QED
  BY <1>6, <1>7

(* Pins that a step leaves alone. *)
Keeps(others) ==
  \A some \in SUBSET Pins : some \cap others = {} =>
    Meant' \cap some = Meant \cap some

(* A step that writes pins other than the register's outputs. *)
LEMMA PlainWrites ==
  ASSUME PinsInv, NEW others \in SUBSET Pins, others \cap OnPort("Q") = {},
         pins' \subseteq Pins, pins' \ others = pins \ others,
         vol_state' = vol_state
  PROVE  /\ PinsInv' /\ Keeps(others)
         /\ Synced => Synced'
         /\ \A some : some \cap OnPort("Q") = {} =>
              Meant' \cap some = pins' \cap some
<1>1. /\ Meant = (pins \ OnPort("Q")) \cup ({"Q"} \X vol_state)
      /\ Meant' = (pins' \ OnPort("Q")) \cup ({"Q"} \X vol_state)
  BY DEF Meant, Ideal, OnPort
<1>2. {"Q"} \X vol_state \subseteq OnPort("Q")
  BY DEF OnPort, Pins, PinsInv
<1>3. Outputs(pins') = Outputs(pins)
  <2>1. pins' \cap OnPort("Q") = pins \cap OnPort("Q")
    OBVIOUS
  <2> QED
    BY <2>1, SameOutputs
<1>4. Synced => Synced'
  BY <1>3 DEF Synced, Outputs
<1>5. Keeps(others)
  BY <1>1 DEF Keeps
<1> QED
  BY <1>1, <1>2, <1>4, <1>5 DEF PinsInv

LEMMA RedPins ==
  ASSUME Wired, PinsInv
  PROVE  /\ Red \subseteq Pins /\ Red \ Lights = pins \ Lights
         /\ Outputs(Red) = Outputs(pins)
         /\ Ideal(Red, vol_state) \ Lights = Meant \ Lights
<1>1. Red = (pins \ B.led.red.mask) \cup B.led.red.bits
  BY DEF Red, Do
<1>2. B.led.red.bits \subseteq B.led.red.mask
  BY DEF Wired, BitsWithin
<1>3. B.led.red.mask \subseteq Lights
  BY DEF Lights, Leds
<1>4. Lights \subseteq Pins /\ Lights \cap OnPort("Q") = {}
  BY DEF Wired, PinsWired
<1>5. Red \cap OnPort("Q") = pins \cap OnPort("Q")
  BY <1>1, <1>2, <1>3, <1>4
<1>6. Outputs(Red) = Outputs(pins)
  BY <1>5, SameOutputs
<1>7. Red \subseteq Pins /\ Red \ Lights = pins \ Lights
  BY <1>1, <1>2, <1>3, <1>4 DEF PinsInv
<1>8. Ideal(Red, vol_state) \ Lights = Meant \ Lights
  BY <1>7 DEF Ideal, Meant
<1> QED
  BY <1>6, <1>7, <1>8

(* The commands that do not touch pins of gain and coupling. *)
Plain ==
  \/ \E c \in Channels, val \in Voltages :
       RefuseVoltage(c, val) \/ SetVoltage(c, val)
  \/ \E byte \in Pulses : SetPulse(byte)
  \/ \E rate \in RateBytes : SetRate(rate)
  \/ StartSampling

LEMMA PlainPins ==
  ASSUME Wired, PinsInv, Plain
  PROVE  PinsInv' /\ Keeps(Lights) /\ (Synced => Synced')
<1>1. Lights \in SUBSET Pins /\ Lights \cap OnPort("Q") = {}
  BY DEF Wired, PinsWired
<1>2. CASE pins' = Red /\ vol_state' = vol_state
  BY <1>1, <1>2, RedPins, PlainWrites
<1>3. CASE \E c \in Channels, val \in Voltages : RefuseVoltage(c, val)
  <2>1. WriteDirect(Red, {}, {})
    BY <1>3 DEF RefuseVoltage
  <2>2. Outputs({}) = {}
    BY DEF Outputs
  <2>3. pins' = Red /\ vol_state' = vol_state
    BY <2>1, <2>2 DEF WriteDirect, Do, Drive
  <2> QED
    BY <1>2, <2>3
<1>4. CASE StartSampling
  <2>1. pins' = Do(B.led.green, Do(B.analog, Red)) /\ vol_state' = vol_state
    BY <1>4 DEF StartSampling
  <2>2. /\ B.led.green.bits \subseteq B.led.green.mask
        /\ B.analog.bits \subseteq B.analog.mask
    BY DEF Wired, BitsWithin
  <2>3. B.led.green.mask \subseteq Lights /\ B.analog.mask \subseteq Lights
    BY DEF Lights, Leds
  <2>4. pins' \subseteq Pins /\ pins' \ Lights = pins \ Lights
    BY <1>1, <2>1, <2>2, <2>3, RedPins DEF Do
  <2> QED
    BY <1>1, <2>1, <2>4, PlainWrites
<1> QED
  BY <1>2, <1>3, <1>4 DEF Plain, SetVoltage, SetPulse, SetRate

Chosen(byte) ==
  UNION {IF WantsDc(byte, c) THEN B.dc[c] ELSE B.ac[c] : c \in Channels}

LEMMA CouplingPins ==
  ASSUME Wired, PinsInv, NEW byte, SetCoupling(byte)
  PROVE  /\ PinsInv' /\ Keeps(Lights \cup Both)
         /\ Meant' \cap Both = Chosen(byte)
         /\ Synced \/ Outputs(Both) # {} => Synced'
<1> DEFINE chosen == [c \in {0, 1} |->
                        IF WantsDc(byte, c) THEN B.dc[c] ELSE B.ac[c]]
<1>1. Chosen(byte) = chosen[0] \cup chosen[1]
  BY DEF Chosen, Channels
<1>2. WriteDirect(Red, B.dc[0] \cup B.dc[1] \cup (B.ac[0] \cup B.ac[1]),
                  chosen[0] \cup chosen[1])
  BY DEF SetCoupling
<1> HIDE DEF chosen
<1>3. B.dc[0] \cup B.dc[1] \cup (B.ac[0] \cup B.ac[1]) = Both
  BY DEF Both, Coupling
<1>4. Chosen(byte) \subseteq Both
  BY DEF Chosen, Both, Coupling, Channels
<1>5. Both \subseteq Pins
        /\ (Both \subseteq OnPort("Q") \/ Both \cap OnPort("Q") = {})
  BY DEF Wired, PinsWired
<1>6. WriteDirect(Red, Both, Chosen(byte))
  BY <1>1, <1>2, <1>3
<1>7. /\ PinsInv'
      /\ Meant' = (Ideal(Red, vol_state) \ Both) \cup Chosen(byte)
      /\ Outputs(Red) = vol_state \/ Outputs(Both) # {} => Synced'
  BY <1>4, <1>5, <1>6, RedPins, DirectWrites DEF PinsInv
<1>8. Ideal(Red, vol_state) \ Lights = Meant \ Lights
        /\ Outputs(Red) = Outputs(pins)
  BY RedPins
<1> QED
  BY <1>4, <1>5, <1>7, <1>8 DEF Keeps, Synced

LEMMA TimerPins ==
  ASSUME Wired, PinsInv, Timer2Isr
  PROVE  /\ PinsInv' /\ Keeps(B.toggle \cup Leds) /\ (Synced => Synced')
         /\ pins' \ (B.toggle \cup Leds) = pins \ (B.toggle \cup Leds)
<1> DEFINE toggled == (pins \ B.toggle) \cup (B.toggle \ pins)
<1>1. pins' \in {toggled, Do(B.led.clear, toggled)} /\ vol_state' = vol_state
  BY DEF Timer2Isr
<1>2. B.led.clear.bits \subseteq B.led.clear.mask
  BY DEF Wired, BitsWithin
<1>3. B.led.clear.mask \subseteq Leds /\ Leds \subseteq Lights
  BY DEF Lights, Leds
<1>4. /\ Lights \cup B.toggle \subseteq Pins
      /\ (Lights \cup B.toggle) \cap OnPort("Q") = {}
  BY DEF Wired, PinsWired
<1>5. /\ pins' \subseteq Pins
      /\ pins' \ (B.toggle \cup Leds) = pins \ (B.toggle \cup Leds)
  BY <1>1, <1>2, <1>3, <1>4 DEF Do, PinsInv
<1>6. B.toggle \cup Leds \in SUBSET Pins
        /\ (B.toggle \cup Leds) \cap OnPort("Q") = {}
  BY <1>3, <1>4
<1> QED
  BY <1>1, <1>5, <1>6, PlainWrites

-----------------------------------------------------------------------------
(* A call of set_voltage. *)

Ports == {"A", "C", "E"}
Left == UNION {OnPort(todo[i]) : i \in DOMAIN todo}
InCall == main \in {"direct", "read", "write"}

\* What the channel's pins are for the value accepted last.
Value(c) == B.gain[c].bits[asked.volts[c]]

AskedInv ==
  /\ asked \in [volts : [Channels -> 0 .. 255],
                dc : [Channels -> {"unknown", "dc", "ac"}],
                ticks : {500, 10000, 1000, 100, 20}]
  /\ main \in {"poll", "direct", "read", "write", "reload"}

CallInv ==
  /\ todo \in Seq(Ports)
  /\ \A i \in DOMAIN todo : \E j \in DOMAIN B.ports : todo[i] = B.ports[j]
  /\ main = "direct" => todo = B.ports
  /\ main \in {"read", "write"} => todo # <<>>
  /\ InCall =>
       call[1] \in Channels /\ ~Refuses(call[1], call[2])
         /\ asked.volts[call[1]] = call[2]

\* The port as it was read, but for what timer2_isr may have written since.
LatchInv ==
  main = "write" =>
    /\ latch \subseteq OnPort(Head(todo))
    /\ \A pin \in OnPort(Head(todo)) \ (B.toggle \cup Leds) :
         pin \in latch <=> pin \in pins

GainInv ==
  /\ \A c \in Channels : asked.volts[c] # 0 =>
       /\ asked.volts[c] \in DOMAIN B.gain[c].bits
       /\ ~Writing(c) => Meant \cap Gain(c) = Value(c)
  /\ main \in {"read", "write"} =>
       \A pin \in Mask : pin \in Left \/ (pin \in Meant <=> pin \in Bits)

LEMMA Todo ==
  ASSUME CallInv, main \in {"read", "write"}
  PROVE  /\ Head(todo) \in Ports /\ Tail(todo) \in Seq(Ports)
         /\ OnPort(Head(todo)) \cap OnPort("Q") = {}
         /\ Left = OnPort(Head(todo))
                     \cup UNION {OnPort(Tail(todo)[i]) :
                                  i \in DOMAIN Tail(todo)}
<1>1. todo \in Seq(Ports) /\ todo # <<>>
  BY DEF CallInv
<1>2. /\ Head(todo) = todo[1] /\ Head(todo) \in Ports
      /\ Tail(todo) \in Seq(Ports) /\ Len(todo) \in Nat /\ Len(todo) > 0
      /\ DOMAIN todo = 1 .. Len(todo)
      /\ DOMAIN Tail(todo) = 1 .. Len(todo) - 1
      /\ \A i \in 1 .. Len(todo) - 1 : Tail(todo)[i] = todo[i + 1]
  BY <1>1
<1>3. OnPort(Head(todo)) \cap OnPort("Q") = {}
  BY <1>2 DEF Ports, OnPort, Pins
<1>4. ASSUME NEW pin
      PROVE  pin \in Left <=>
               \/ pin \in OnPort(Head(todo))
               \/ \E i \in DOMAIN Tail(todo) : pin \in OnPort(Tail(todo)[i])
  <2>1. pin \in Left <=> \E i \in 1 .. Len(todo) : pin \in OnPort(todo[i])
    BY <1>2 DEF Left
  <2>2. \A i \in 1 .. Len(todo) : i = 1 \/ i - 1 \in 1 .. Len(todo) - 1
    BY <1>2
  <2>3. \A i \in 1 .. Len(todo) - 1 : i + 1 \in 1 .. Len(todo)
    BY <1>2
  <2>4. ASSUME NEW i \in 1 .. Len(todo), i # 1
        PROVE  todo[i] = Tail(todo)[i - 1]
    BY <1>2, <2>2, <2>4
  <2>5. ASSUME NEW i \in 1 .. Len(todo), pin \in OnPort(todo[i])
        PROVE  \/ pin \in OnPort(Head(todo))
               \/ \E j \in DOMAIN Tail(todo) : pin \in OnPort(Tail(todo)[j])
    <3>1. CASE i = 1
      BY <1>2, <2>5, <3>1
    <3>2. CASE i # 1
      <4>1. i - 1 \in DOMAIN Tail(todo) /\ pin \in OnPort(Tail(todo)[i - 1])
        BY <1>2, <2>2, <2>4, <2>5, <3>2
      <4> QED
        BY <4>1
    <3> QED
      BY <3>1, <3>2
  <2>6. ASSUME NEW j \in DOMAIN Tail(todo), pin \in OnPort(Tail(todo)[j])
        PROVE  \E i \in 1 .. Len(todo) : pin \in OnPort(todo[i])
    <3>1. j + 1 \in 1 .. Len(todo) /\ pin \in OnPort(todo[j + 1])
      BY <1>2, <2>3, <2>6
    <3> QED
      BY <3>1
  <2>7. 1 \in 1 .. Len(todo) /\ OnPort(Head(todo)) = OnPort(todo[1])
    BY <1>2
  <2>8. pin \in OnPort(Head(todo)) =>
          \E i \in 1 .. Len(todo) : pin \in OnPort(todo[i])
    BY <2>7
  <2> QED
    BY <2>1, <2>5, <2>6, <2>8
<1> QED
  BY <1>2, <1>3, <1>4

LEMMA RelayPins ==
  ASSUME Wired, PinsInv, CallInv, WriteRelay
  PROVE  /\ PinsInv'
         /\ Meant' = (Meant \ (Mask \cap B.direct)) \cup (Bits \cap B.direct)
         /\ Bits \subseteq Mask /\ Keeps(Mask)
         /\ Synced \/ Outputs(Mask \cap B.direct) # {} => Synced'
<1> DEFINE c == call[1]
<1>1. c \in Channels /\ call[2] \in DOMAIN B.gain[c].bits /\ Mask = Gain(c)
  BY DEF CallInv, InCall, WriteRelay, Refuses, Mask, Gain
<1>2. Bits \subseteq Mask
  BY <1>1 DEF Wired, BitsWithin, Bits
<1>3. Mask \subseteq Pins
        /\ (Mask \subseteq OnPort("Q") \/ Mask \cap OnPort("Q") = {})
  BY <1>1 DEF Wired, PinsWired, Channels
<1>4. WriteDirect(pins, Mask \cap B.direct, Bits \cap B.direct)
  BY DEF WriteRelay
<1>5. /\ PinsInv'
      /\ Meant' = (Meant \ (Mask \cap B.direct)) \cup (Bits \cap B.direct)
      /\ Synced \/ Outputs(Mask \cap B.direct) # {} => Synced'
  BY <1>2, <1>3, <1>4, DirectWrites DEF PinsInv, Meant, Synced
<1> QED
  BY <1>2, <1>3, <1>5 DEF Keeps

LEMMA PortPins ==
  ASSUME Wired, PinsInv, CallInv, LatchInv, WritePort
  PROVE  /\ PinsInv' /\ Bits \subseteq Mask /\ (Synced => Synced')
         /\ Keeps(Mask \cup B.toggle \cup Leds)
         /\ Meant' \cap (Mask \cap OnPort(Head(todo)))
              = Bits \cap OnPort(Head(todo))
         /\ Meant' \ OnPort(Head(todo)) = Meant \ OnPort(Head(todo))
         /\ pins' \ (Mask \cup B.toggle \cup Leds)
              = pins \ (Mask \cup B.toggle \cup Leds)
         /\ pins' \ OnPort(Head(todo)) = pins \ OnPort(Head(todo))
<1> DEFINE c == call[1]
           port == OnPort(Head(todo))
<1>1. c \in Channels /\ call[2] \in DOMAIN B.gain[c].bits /\ Mask = Gain(c)
  BY DEF CallInv, InCall, WritePort, Refuses, Mask, Gain
<1>2. Bits \subseteq Mask
  BY <1>1 DEF Wired, BitsWithin, Bits
<1>3. Mask \subseteq Pins
  BY <1>1 DEF Wired, PinsWired, Channels
<1>4. /\ pins' = (pins \ port) \cup ((latch \ (Mask \cap port))
                                      \cup (Bits \cap port))
      /\ vol_state' = vol_state
  BY DEF WritePort, Do, Drive
<1>5. /\ latch \subseteq port
      /\ \A pin \in port \ (B.toggle \cup Leds) :
           pin \in latch <=> pin \in pins
  BY DEF LatchInv, WritePort
<1>6. port \cap OnPort("Q") = {} /\ port \subseteq Pins
  BY Todo DEF WritePort, OnPort
<1>7. Meant' = (pins' \ OnPort("Q")) \cup ({"Q"} \X vol_state')
        /\ Meant = (pins \ OnPort("Q")) \cup ({"Q"} \X vol_state)
  BY DEF Meant, Ideal, OnPort
<1> HIDE DEF port
<1>8. pins' \subseteq Pins /\ pins' \ port = pins \ port
  BY <1>4, <1>5, <1>6 DEF PinsInv
<1>9. /\ PinsInv' /\ (Synced => Synced')
      /\ Meant' \cap port = pins' \cap port
  BY <1>4, <1>6, <1>8, PlainWrites
<1>10. Meant' \ port = Meant \ port
  BY <1>4, <1>7, <1>8
<1>11. Meant' \cap (Mask \cap port) = Bits \cap port
  BY <1>2, <1>4, <1>9
<1>12. pins' \ (Mask \cup B.toggle \cup Leds)
         = pins \ (Mask \cup B.toggle \cup Leds)
  <2> SUFFICES ASSUME NEW pin, pin \notin Mask \cup B.toggle \cup Leds
               PROVE  pin \in pins' <=> pin \in pins
    OBVIOUS
  <2>1. CASE pin \in port
    BY <1>2, <1>4, <1>5, <2>1
  <2>2. CASE pin \notin port
    BY <1>8, <2>2
  <2> QED
    BY <2>1, <2>2
<1>13. Keeps(Mask \cup B.toggle \cup Leds)
  BY <1>4, <1>7, <1>12 DEF Keeps
<1> QED
  BY <1>2, <1>8, <1>9, <1>10, <1>11, <1>12, <1>13 DEF port

-----------------------------------------------------------------------------
(* Every step keeps what the pins, the port and the commands have to be.   *)

LEMMA SameBoard ==
  ASSUME [Next]_vars PROVE variant' = variant
BY DEF Next, Command, RefuseVoltage, SetVoltage, SetCoupling, SetPulse,
       SetRate, StartSampling, StopSampling, SetSamplerate, UnknownSamplerate,
       Trigger, Main, WriteRelay, ReadPort, WritePort, SetPulseHigh, Timer2Isr,
       Engine, Wait, Decide, vars, rateVars

LEMMA SameWires ==
  ASSUME variant' = variant PROVE Wired' <=> Wired
BY DEF Wired, PinsWired, PinsApart, BitsWithin, GainsRight, Gain, Coupling,
       Both, Leds, Lights, B, Selector, Selects

(* The pins of gain, coupling and the calibration pin are apart. *)
LEMMA Apart ==
  ASSUME Wired, NEW c \in Channels
  PROVE  /\ Gain(c) \subseteq Pins /\ Both \subseteq Pins
         /\ B.toggle \subseteq Pins
         /\ Gain(c) \cap Lights = {} /\ Gain(c) \cap Both = {}
         /\ Gain(c) \cap (B.toggle \cup Leds) = {}
         /\ Both \cap Lights = {} /\ Both \cap (B.toggle \cup Leds) = {}
         /\ B.toggle \cap Lights = {} /\ B.toggle \cap Both = {}
         /\ \A d \in Channels \ {c} : Gain(c) \cap Gain(d) = {}
<1>1. Leds \subseteq Lights
  BY DEF Lights
<1> QED
  BY <1>1 DEF Wired, PinsWired, PinsApart, Channels

LEMMA SamePins ==
  ASSUME pins' = pins, vol_state' = vol_state
  PROVE  Meant' = Meant /\ Synced' = Synced
BY DEF Meant, Ideal, Synced, Outputs, OnPort

LEMMA AskedStep == ASSUME AskedInv, [Next]_vars PROVE AskedInv'
<1> USE DEF AskedInv
<1>1. CASE \E c \in Channels, val \in Voltages : SetVoltage(c, val)
  <2>1. PICK c \in Channels, val \in Voltages : SetVoltage(c, val)
    BY <1>1
  <2>2. val \in 0 .. 255
    BY BoardAssumption
  <2> QED
    BY <2>1, <2>2 DEF SetVoltage
<1>2. CASE \E byte \in Couplings : SetCoupling(byte)
  <2>1. PICK byte \in Couplings : SetCoupling(byte)
    BY <1>2
  <2> DEFINE wanted == [c \in {0, 1} |->
                          IF B.dc[c] \cup B.ac[c] = {} THEN "unknown"
                          ELSE IF WantsDc(byte, c) THEN "dc" ELSE "ac"]
  <2>2. wanted \in [Channels -> {"unknown", "dc", "ac"}]
    BY DEF Channels
  <2>3. asked' = [asked EXCEPT !.dc = wanted] /\ main' = main
    BY <2>1 DEF SetCoupling
  <2> HIDE DEF wanted
  <2> QED
    BY <2>2, <2>3
<1>3. CASE \E byte \in Pulses : SetPulse(byte)
  <2>1. PICK byte \in Pulses : SetPulse(byte)
    BY <1>3
  <2>2. CASE KnowsPulse(byte)
    <3>1. PulseTicks(byte) \in {500, 10000, 1000, 100, 20}
      BY <2>2 DEF KnowsPulse, PulseTicks
    <3>2. /\ main' = "reload"
          /\ asked' = [asked EXCEPT !.ticks = PulseTicks(byte)]
      BY <2>1, <2>2 DEF SetPulse
    <3> QED
      BY <3>1, <3>2
  <2>3. CASE ~KnowsPulse(byte)
    BY <2>1, <2>3 DEF SetPulse
  <2> QED
    BY <2>2, <2>3
<1>4. CASE \/ \E c \in Channels, val \in Voltages : RefuseVoltage(c, val)
           \/ \E rate \in RateBytes : SetRate(rate)
           \/ StartSampling \/ Timer2Isr \/ Engine \/ UNCHANGED vars
  BY <1>4 DEF RefuseVoltage, SetRate, StartSampling, Timer2Isr, Engine,
              boardVars, vars
<1>5. CASE Main
  <2>1. asked' = asked
    BY <1>5 DEF Main, WriteRelay, ReadPort, WritePort, SetPulseHigh
  <2>2. main' \in {"poll", "read", "write"}
    BY <1>5
    DEF Main, WriteRelay, ReadPort, WritePort, SetPulseHigh, WritesNext
  <2> QED
    BY <2>1, <2>2
<1> QED
  BY <1>1, <1>2, <1>3, <1>4, <1>5 DEF Next, Command, Channels

LEMMA CallStep ==
  ASSUME Wired, AskedInv, CallInv, [Next]_vars PROVE CallInv'
<1>1. variant' = variant /\ B' = B
  BY SameBoard DEF B
<1>2. ASSUME UNCHANGED <<main, todo, call>>, asked'.volts = asked.volts
      PROVE  CallInv'
  BY <1>1, <1>2 DEF CallInv, InCall, Refuses
<1>3. ASSUME main' \in {"poll", "reload"}, todo' = todo PROVE CallInv'
  BY <1>1, <1>3 DEF CallInv, InCall
<1>4. CASE \E c \in Channels, val \in Voltages : SetVoltage(c, val)
  <2>1. PICK c \in Channels, val \in Voltages : SetVoltage(c, val)
    BY <1>4
  <2>2. /\ main' = "direct" /\ call' = <<c, val>> /\ todo' = B.ports
        /\ ~Refuses(c, val) /\ asked' = [asked EXCEPT !.volts[c] = val]
    BY <2>1 DEF SetVoltage
  <2>3. B.ports \in Seq(Ports)
    BY DEF Wired, PinsWired, Ports
  <2>4. asked'.volts[c] = val
    BY <2>2 DEF AskedInv
  <2>5. ~Refuses(c, val)'
    BY <1>1, <2>2 DEF Refuses
  <2> QED
    BY <1>1, <2>2, <2>3, <2>4, <2>5 DEF CallInv, InCall, Refuses
<1>5. CASE \/ \E c \in Channels, val \in Voltages : RefuseVoltage(c, val)
           \/ \E rate \in RateBytes : SetRate(rate)
           \/ StartSampling \/ Timer2Isr \/ Engine \/ UNCHANGED vars
  <2>1. UNCHANGED <<main, todo, call, asked>>
    BY <1>5 DEF RefuseVoltage, SetRate, StartSampling, Timer2Isr, Engine,
                boardVars, vars
  <2> QED
    BY <1>2, <2>1
<1>9. CASE \E byte \in Couplings : SetCoupling(byte)
  <2>1. UNCHANGED <<main, todo, call>> /\ asked'.volts = asked.volts
    BY <1>9 DEF SetCoupling, AskedInv
  <2> QED
    BY <1>2, <2>1
<1>6. CASE (\E byte \in Pulses : SetPulse(byte)) \/ SetPulseHigh
  BY <1>3, <1>6 DEF SetPulse, SetPulseHigh
<1>7. CASE WriteRelay \/ ReadPort
  BY <1>1, <1>3, <1>7
  DEF WriteRelay, ReadPort, WritesNext, CallInv, InCall, Refuses
<1>8. CASE WritePort
  <2>1. /\ main = "write" /\ todo' = Tail(todo) /\ UNCHANGED asked
        /\ \/ todo' = <<>> /\ main' = "poll"
           \/ todo' # <<>> /\ main' = "read" /\ call' = call
    BY <1>8 DEF WritePort, WritesNext
  <2>2. todo \in Seq(Ports) /\ todo # <<>>
    BY <2>1 DEF CallInv
  <2>3. todo' \in Seq(Ports) /\ \A i \in DOMAIN todo' :
          i + 1 \in DOMAIN todo /\ todo'[i] = todo[i + 1]
    BY <2>1, <2>2
  <2>4. \A i \in DOMAIN todo' : \E j \in DOMAIN B.ports : todo'[i] = B.ports[j]
    BY <2>3 DEF CallInv
  <2> QED
    BY <1>1, <2>1, <2>3, <2>4 DEF CallInv, InCall, Refuses
<1> QED
  BY <1>4, <1>5, <1>6, <1>7, <1>8, <1>9 DEF Next, Command, Main, Channels

(* Commands are handled between calls. *)
LEMMA BetweenCalls ==
  ASSUME Command
  PROVE  main = "poll" /\ main' \in {"poll", "direct", "reload"}
BY DEF Command, RefuseVoltage, SetVoltage, SetCoupling, SetPulse, SetRate,
       StartSampling

LEMMA LatchStep ==
  ASSUME Wired, PinsInv, AskedInv, LatchInv, [Next]_vars PROVE LatchInv'
<1>1. variant' = variant /\ B' = B
  BY SameBoard DEF B
<1>2. Leds' = Leds
  BY <1>1 DEF Leds
<1>3. CASE main' # "write"
  BY <1>3 DEF LatchInv
<1>4. CASE ReadPort
  BY <1>1, <1>2, <1>4 DEF ReadPort, LatchInv
<1>5. CASE Timer2Isr
  <2> SUFFICES ASSUME main = "write" PROVE LatchInv'
    BY <1>5 DEF Timer2Isr, LatchInv
  <2>1. UNCHANGED <<main, latch, todo>>
          /\ pins' \ (B.toggle \cup Leds) = pins \ (B.toggle \cup Leds)
    BY <1>5, TimerPins DEF Timer2Isr
  <2> QED
    BY <1>1, <1>2, <2>1 DEF LatchInv, OnPort
<1>6. CASE Engine \/ UNCHANGED vars
  <2>1. UNCHANGED <<main, latch, todo, pins>>
    BY <1>6 DEF Engine, vars, boardVars
  <2> QED
    BY <1>1, <1>2, <2>1 DEF LatchInv
<1>7. Command \/ WriteRelay \/ WritePort \/ SetPulseHigh => main' # "write"
  BY BetweenCalls DEF WriteRelay, WritePort, SetPulseHigh, WritesNext
<1> QED
  BY <1>3, <1>4, <1>5, <1>6, <1>7 DEF Next, Main

LEMMA GainStep ==
  ASSUME Wired, PinsInv, AskedInv, CallInv, LatchInv, GainInv, [Next]_vars
  PROVE  GainInv'
<1>1. variant' = variant /\ B' = B
  BY SameBoard DEF B
<1>2. \A c \in Channels : Gain(c)' = Gain(c)
  BY <1>1 DEF Gain
(* Nothing is being written, before and after. *)
<1>3. ASSUME main \notin {"direct", "read", "write"},
             main' \notin {"direct", "read", "write"},
             asked'.volts = asked.volts,
             \A c \in Channels : Meant' \cap Gain(c) = Meant \cap Gain(c)
      PROVE  GainInv'
  BY <1>1, <1>2, <1>3 DEF GainInv, Writing, Value
(* The call goes on. *)
<1>4. ASSUME UNCHANGED <<main, call, asked, todo>>,
             \A c \in Channels : Meant' \cap Gain(c) = Meant \cap Gain(c)
      PROVE  GainInv'
  <2>1. \A c \in Channels : asked'.volts[c] # 0 =>
          /\ asked'.volts[c] \in DOMAIN B'.gain[c].bits
          /\ ~Writing(c)' => Meant' \cap Gain(c)' = Value(c)'
    BY <1>1, <1>2, <1>4 DEF GainInv, Writing, Value
  <2>2. ASSUME main' \in {"read", "write"}, NEW pin \in Mask'
        PROVE  pin \in Left' \/ (pin \in Meant' <=> pin \in Bits')
    <3>1. /\ Mask' = Mask /\ Bits' = Bits /\ Left' = Left
          /\ main \in {"read", "write"}
      BY <1>1, <1>4, <2>2 DEF Mask, Bits, Left, OnPort
    <3>2. call[1] \in Channels /\ Mask = Gain(call[1])
      BY <3>1 DEF CallInv, InCall, Mask, Gain
    <3>3. pin \in Meant' <=> pin \in Meant
      BY <1>4, <2>2, <3>1, <3>2
    <3> QED
      BY <2>2, <3>1, <3>3 DEF GainInv
  <2> QED
    BY <2>1, <2>2 DEF GainInv
<1>5. CASE Plain /\ ~(\E c \in Channels, val \in Voltages : SetVoltage(c, val))
  <2>1. /\ main = "poll" /\ main' \in {"poll", "reload"}
        /\ asked'.volts = asked.volts
    <3>1. CASE \E byte \in Pulses : SetPulse(byte)
      BY <3>1 DEF SetPulse, AskedInv
    <3>2. CASE ~(\E byte \in Pulses : SetPulse(byte))
      BY <1>5, <3>2 DEF Plain, RefuseVoltage, SetRate, StartSampling
    <3> QED
      BY <3>1, <3>2
  <2>2. \A c \in Channels : Meant' \cap Gain(c) = Meant \cap Gain(c)
    BY <1>5, Apart, PlainPins DEF Keeps
  <2> QED
    BY <1>3, <2>1, <2>2
<1>6. CASE \E byte \in Couplings : SetCoupling(byte)
  <2>1. PICK byte \in Couplings : SetCoupling(byte)
    BY <1>6
  <2>2. Keeps(Lights \cup Both)
    BY <2>1, CouplingPins
  <2>3. \A c \in Channels : Meant' \cap Gain(c) = Meant \cap Gain(c)
    BY <2>2, Apart DEF Keeps
  <2>4. main = "poll" /\ main' = main /\ asked'.volts = asked.volts
    BY <2>1 DEF SetCoupling, AskedInv
  <2> QED
    BY <1>3, <2>3, <2>4
<1>7. CASE \E c \in Channels, val \in Voltages : SetVoltage(c, val)
  <2>1. PICK c \in Channels, val \in Voltages : SetVoltage(c, val)
    BY <1>7
  <2>2. /\ main = "poll" /\ main' = "direct" /\ call'[1] = c
        /\ ~Refuses(c, val) /\ asked' = [asked EXCEPT !.volts[c] = val]
    BY <2>1 DEF SetVoltage
  <2>3. Plain
    BY <1>7 DEF Plain
  <2>4. \A d \in Channels : Meant' \cap Gain(d) = Meant \cap Gain(d)
    BY <2>3, Apart, PlainPins DEF Keeps
  <2>5. asked'.volts[c] = val
          /\ \A d \in Channels \ {c} : asked'.volts[d] = asked.volts[d]
    BY <2>2 DEF AskedInv
  <2>6. val \in DOMAIN B.gain[c].bits
    BY <2>2 DEF Refuses
  <2> QED
    BY <1>1, <1>2, <2>2, <2>4, <2>5, <2>6 DEF GainInv, Writing, Value
<1>8. CASE WriteRelay
  <2> DEFINE c == call[1]
  <2>1. /\ c \in Channels /\ Mask = Gain(c) /\ Bits = Value(c)
        /\ todo = B.ports /\ main = "direct" /\ UNCHANGED <<todo, asked>>
        /\ \/ todo = <<>> /\ main' = "poll"
           \/ todo # <<>> /\ main' = "read" /\ call' = call
    BY <1>8
    DEF WriteRelay, WritesNext, CallInv, InCall, Mask, Bits, Gain, Value
  <2>2. /\ Meant' = (Meant \ (Mask \cap B.direct)) \cup (Bits \cap B.direct)
        /\ Bits \subseteq Mask /\ Keeps(Mask)
    BY <1>8, RelayPins
  <2>3. Mask \subseteq B.direct \cup Left
    BY <2>1 DEF Wired, PinsWired, Left
  <2>4. \A d \in Channels \ {c} : Meant' \cap Gain(d) = Meant \cap Gain(d)
    BY <2>1, <2>2, Apart DEF Keeps
  <2>5. Left' = Left
    BY <2>1 DEF Left, OnPort
  <2>6. \A d \in Channels \ {c} : ~Writing(d)
    BY DEF Writing
  <2>7. \A d \in Channels \ {c} : asked.volts[d] # 0 =>
          /\ asked.volts[d] \in DOMAIN B.gain[d].bits
          /\ Meant' \cap Gain(d) = Value(d)
    BY <2>4, <2>6 DEF GainInv
  <2>8. asked.volts[c] # 0 => asked.volts[c] \in DOMAIN B.gain[c].bits
    BY <2>1 DEF GainInv
  <2>9. \A d \in Channels : Value(d)' = Value(d)
    BY <1>1, <2>1 DEF Value
  <2>10. CASE todo = <<>>
    <3>1. Left = {}
      BY <2>10 DEF Left
    <3>2. Meant' \cap Gain(c) = Value(c)
      BY <2>1, <2>2, <2>3, <3>1
    <3> QED
      BY <1>1, <1>2, <2>1, <2>7, <2>8, <2>9, <2>10, <3>2 DEF GainInv, Writing
  <2>11. CASE todo # <<>>
    <3>1. \A pin \in Mask : pin \in Left \/ (pin \in Meant' <=> pin \in Bits)
      BY <2>2, <2>3
    <3>2. Mask' = Mask /\ Bits' = Bits
      BY <1>1, <2>1, <2>11 DEF Mask, Bits
    <3>3. \A d \in Channels : asked'.volts[d] # 0 =>
            /\ asked'.volts[d] \in DOMAIN B'.gain[d].bits
            /\ ~Writing(d)' => Meant' \cap Gain(d)' = Value(d)'
      <4> TAKE d \in Channels
      <4>1. CASE d = c
        BY <1>1, <1>2, <2>1, <2>8, <2>11, <4>1 DEF Writing
      <4>2. CASE d # c
        BY <1>1, <1>2, <2>1, <2>7, <2>8, <2>9, <4>2
      <4> QED
        BY <4>1, <4>2
    <3>4. \A pin \in Mask' : pin \in Left' \/ (pin \in Meant' <=> pin \in Bits')
      BY <2>5, <3>1, <3>2
    <3> QED
      BY <3>3, <3>4 DEF GainInv
  <2> QED
    BY <2>10, <2>11
<1>9. CASE ReadPort
  <2>1. /\ UNCHANGED <<Meant, call, todo, asked>>
        /\ main = "read" /\ main' = "write"
    BY <1>9, SamePins DEF ReadPort
  <2>2. Mask' = Mask /\ Bits' = Bits /\ Left' = Left
    BY <1>1, <2>1 DEF Mask, Bits, Left, OnPort
  <2>3. \A c \in Channels :
          Value(c)' = Value(c) /\ (Writing(c)' <=> Writing(c))
    BY <1>1, <2>1 DEF Value, Writing
  <2> QED
    BY <1>1, <1>2, <2>1, <2>2, <2>3 DEF GainInv
<1>10. CASE WritePort
  <2> DEFINE c == call[1]
             port == OnPort(Head(todo))
  <2>1. /\ c \in Channels /\ Mask = Gain(c) /\ Bits = Value(c)
        /\ main = "write" /\ todo' = Tail(todo) /\ UNCHANGED asked
        /\ \/ todo' = <<>> /\ main' = "poll"
           \/ todo' # <<>> /\ main' = "read" /\ call' = call
    BY <1>10
    DEF WritePort, WritesNext, CallInv, InCall, Mask, Bits, Gain, Value
  <2>2. /\ Bits \subseteq Mask /\ Keeps(Mask \cup B.toggle \cup Leds)
        /\ Meant' \cap (Mask \cap port) = Bits \cap port
        /\ Meant' \ port = Meant \ port
    BY <1>10, PortPins
  <2>3. Left = port \cup Left'
    BY <2>1, Todo DEF Left, OnPort
  <2> HIDE DEF port
  <2>4. \A pin \in Mask : pin \in Left' \/ (pin \in Meant' <=> pin \in Bits)
    <3> TAKE pin \in Mask
    <3>1. pin \in Left \/ (pin \in Meant <=> pin \in Bits)
      BY <2>1 DEF GainInv
    <3> QED
      BY <2>2, <2>3, <3>1
  <2>5. \A d \in Channels \ {c} : asked.volts[d] # 0 =>
          /\ asked.volts[d] \in DOMAIN B.gain[d].bits
          /\ Meant' \cap Gain(d) = Value(d)
    <3> TAKE d \in Channels \ {c}
    <3>1. Gain(d) \cap (Mask \cup B.toggle \cup Leds) = {}
      BY <2>1, Apart
    <3>2. Gain(d) \in SUBSET Pins
      BY Apart
    <3>3. Meant' \cap Gain(d) = Meant \cap Gain(d)
      BY <2>2, <3>1, <3>2 DEF Keeps
    <3>4. ~Writing(d)
      BY DEF Writing
    <3> QED
      BY <3>3, <3>4 DEF GainInv
  <2>6. asked.volts[c] # 0 => asked.volts[c] \in DOMAIN B.gain[c].bits
    BY <2>1 DEF GainInv
  <2>7. \A d \in Channels : Value(d)' = Value(d)
    BY <1>1, <2>1 DEF Value
  <2>8. CASE todo' = <<>>
    <3>1. Left' = {}
      BY <2>8 DEF Left
    <3>2. Meant' \cap Gain(c) = Value(c)
      BY <2>1, <2>2, <2>4, <3>1
    <3> QED
      BY <1>1, <1>2, <2>1, <2>5, <2>6, <2>7, <2>8, <3>2 DEF GainInv, Writing
  <2>9. CASE todo' # <<>>
    <3>1. Mask' = Mask /\ Bits' = Bits
      BY <1>1, <2>1, <2>9 DEF Mask, Bits
    <3>3. \A d \in Channels : asked'.volts[d] # 0 =>
            /\ asked'.volts[d] \in DOMAIN B'.gain[d].bits
            /\ ~Writing(d)' => Meant' \cap Gain(d)' = Value(d)'
      <4> TAKE d \in Channels
      <4>1. CASE d = c
        BY <1>1, <1>2, <2>1, <2>6, <2>9, <4>1 DEF Writing
      <4>2. CASE d # c
        BY <1>1, <1>2, <2>1, <2>5, <2>6, <2>7, <4>2
      <4> QED
        BY <4>1, <4>2
    <3>4. \A pin \in Mask' : pin \in Left' \/ (pin \in Meant' <=> pin \in Bits')
      BY <2>4, <3>1
    <3> QED
      BY <3>3, <3>4 DEF GainInv
  <2> QED
    BY <2>8, <2>9
<1>11. CASE SetPulseHigh
  <2>1. /\ main = "reload" /\ main' = "poll" /\ UNCHANGED <<asked, Meant>>
    BY <1>11, SamePins DEF SetPulseHigh
  <2> QED
    BY <1>3, <2>1
<1>12. CASE Timer2Isr
  <2>1. UNCHANGED <<main, call, asked, todo>> /\ Keeps(B.toggle \cup Leds)
    BY <1>12, TimerPins DEF Timer2Isr
  <2>2. \A c \in Channels : Meant' \cap Gain(c) = Meant \cap Gain(c)
    BY <2>1, Apart DEF Keeps
  <2> QED
    BY <1>4, <2>1, <2>2
<1>13. CASE Engine \/ UNCHANGED vars
  <2>1. UNCHANGED <<main, call, asked, todo, Meant>>
    BY <1>13, SamePins DEF Engine, vars, boardVars
  <2> QED
    BY <1>4, <2>1
<1> QED
  BY <1>5, <1>6, <1>7, <1>8, <1>9, <1>10, <1>11, <1>12, <1>13
  DEF Next, Command, Main, Plain, Channels

-----------------------------------------------------------------------------
(* Coupling, the calibration pin and its period. *)

CouplingInv ==
  \A c \in Channels :
    /\ asked.dc[c] = "dc" => Meant \cap Coupling(c) = B.dc[c]
    /\ asked.dc[c] = "ac" => Meant \cap Coupling(c) = B.ac[c]

LEMMA CouplingStep ==
  ASSUME Wired, PinsInv, AskedInv, CallInv, LatchInv, CouplingInv, [Next]_vars
  PROVE  CouplingInv'
<1>1. variant' = variant /\ B' = B
  BY SameBoard DEF B
<1>2. Coupling(0) \subseteq Both /\ Coupling(1) \subseteq Both
  BY DEF Both
<1>3. \A c \in Channels : Coupling(c)' = Coupling(c)
  BY <1>1 DEF Coupling
<1>4. ASSUME asked'.dc = asked.dc, Meant' \cap Both = Meant \cap Both
      PROVE  CouplingInv'
  BY <1>1, <1>2, <1>3, <1>4 DEF CouplingInv, Channels
<1>5. CASE Plain
  <2>1. Meant' \cap Both = Meant \cap Both
    BY <1>5, Apart, PlainPins DEF Keeps, Channels
  <2>2. asked'.dc = asked.dc
    BY <1>5
    DEF Plain, RefuseVoltage, SetVoltage, SetPulse, SetRate, StartSampling,
        AskedInv
  <2> QED
    BY <1>4, <2>1, <2>2
<1>6. CASE \E byte \in Couplings : SetCoupling(byte)
  <2>1. PICK byte \in Couplings : SetCoupling(byte)
    BY <1>6
  <2>2. Meant' \cap Both = Chosen(byte)
    BY <2>1, CouplingPins
  <2>3. Coupling(0) \cap Coupling(1) = {}
    BY DEF Wired, PinsApart
  <2>4. \A c \in Channels :
          Meant' \cap Coupling(c)
            = IF WantsDc(byte, c) THEN B.dc[c] ELSE B.ac[c]
    BY <1>2, <2>2, <2>3 DEF Chosen, Channels, Coupling
  <2> DEFINE wanted == [c \in {0, 1} |->
                          IF B.dc[c] \cup B.ac[c] = {} THEN "unknown"
                          ELSE IF WantsDc(byte, c) THEN "dc" ELSE "ac"]
  <2>5. asked' = [asked EXCEPT !.dc = wanted]
    BY <2>1 DEF SetCoupling
  <2>6. asked'.dc = wanted
    <3> HIDE DEF wanted
    <3> QED
      BY <2>5 DEF AskedInv
  <2>7. \A c \in Channels : /\ asked'.dc[c] = "dc" => WantsDc(byte, c)
                            /\ asked'.dc[c] = "ac" => ~WantsDc(byte, c)
    BY <2>6 DEF Channels
  <2> QED
    BY <1>1, <1>3, <2>4, <2>7 DEF CouplingInv
<1>7. CASE WriteRelay
  <2>1. Keeps(Mask) /\ asked' = asked
    BY <1>7, RelayPins DEF WriteRelay
  <2>2. Mask \cap Both = {} /\ Both \subseteq Pins
    BY <1>7, Apart DEF CallInv, InCall, WriteRelay, Mask, Gain
  <2> QED
    BY <1>4, <2>1, <2>2 DEF Keeps
<1>8. CASE WritePort
  <2>1. Keeps(Mask \cup B.toggle \cup Leds) /\ asked' = asked
    BY <1>8, PortPins DEF WritePort
  <2>2. Mask \cap Both = {} /\ Both \subseteq Pins
          /\ Both \cap (B.toggle \cup Leds) = {}
    BY <1>8, Apart DEF CallInv, InCall, WritePort, Mask, Gain
  <2>3. Both \cap (Mask \cup B.toggle \cup Leds) = {}
    BY <2>2
  <2> QED
    BY <1>4, <2>1, <2>2, <2>3 DEF Keeps
<1>9. CASE Timer2Isr
  <2>1. Keeps(B.toggle \cup Leds) /\ asked' = asked
    BY <1>9, TimerPins DEF Timer2Isr
  <2>2. Both \subseteq Pins /\ Both \cap (B.toggle \cup Leds) = {}
    BY Apart DEF Channels
  <2> QED
    BY <1>4, <2>1, <2>2 DEF Keeps
<1>10. CASE ReadPort \/ SetPulseHigh \/ Engine \/ UNCHANGED vars
  <2>1. UNCHANGED <<Meant, asked>>
    BY <1>10, SamePins DEF ReadPort, SetPulseHigh, Engine, vars, boardVars
  <2> QED
    BY <1>4, <2>1
<1> QED
  BY <1>5, <1>6, <1>7, <1>8, <1>9, <1>10
  DEF Next, Command, Main, Plain, Channels

(* Once a command has clocked the shift register, it shows vol_state; and  *)
(* before one did, the host has asked for nothing that it selects.         *)
AgreeInv ==
  \A c \in Channels :
    /\ \/ Gain(c) \cap OnPort("Q") = {} \/ Synced
       \/ asked.volts[c] = 0
       \/ main = "direct" /\ call[1] = c
    /\ \/ Coupling(c) \cap OnPort("Q") = {} \/ Synced
       \/ asked.dc[c] = "unknown"

LEMMA AgreeStep ==
  ASSUME Wired, PinsInv, AskedInv, CallInv, LatchInv, AgreeInv, [Next]_vars
  PROVE  AgreeInv'
<1>1. variant' = variant /\ B' = B
  BY SameBoard DEF B
<1>2. \A c \in Channels : Gain(c)' = Gain(c) /\ Coupling(c)' = Coupling(c)
  BY <1>1 DEF Gain, Coupling
<1>3. OnPort("Q")' = OnPort("Q")
  BY DEF OnPort
(* No command is accepted. *)
<1>4. ASSUME Synced => Synced', UNCHANGED <<main, call, asked>>
      PROVE  AgreeInv'
  BY <1>2, <1>3, <1>4 DEF AgreeInv
<1>5. ASSUME Synced => Synced', main # "direct",
             asked'.volts = asked.volts, asked'.dc = asked.dc
      PROVE  AgreeInv'
  BY <1>2, <1>3, <1>5 DEF AgreeInv
<1>6. CASE Plain /\ ~(\E c \in Channels, val \in Voltages : SetVoltage(c, val))
  <2>1. /\ main # "direct"
        /\ asked'.volts = asked.volts /\ asked'.dc = asked.dc
    <3>1. CASE \E byte \in Pulses : SetPulse(byte)
      BY <3>1 DEF SetPulse, AskedInv
    <3>2. CASE ~(\E byte \in Pulses : SetPulse(byte))
      BY <1>6, <3>2 DEF Plain, RefuseVoltage, SetRate, StartSampling
    <3> QED
      BY <3>1, <3>2
  <2> QED
    BY <1>5, <1>6, <2>1, PlainPins
<1>7. CASE \E c \in Channels, val \in Voltages : SetVoltage(c, val)
  <2>1. PICK c \in Channels, val \in Voltages : SetVoltage(c, val)
    BY <1>7
  <2>2. /\ main = "poll" /\ main' = "direct" /\ call'[1] = c
        /\ asked' = [asked EXCEPT !.volts[c] = val]
    BY <2>1 DEF SetVoltage
  <2>3. /\ \A d \in Channels \ {c} : asked'.volts[d] = asked.volts[d]
        /\ asked'.dc = asked.dc
    BY <2>2 DEF AskedInv
  <2>4. Synced => Synced'
    BY <1>7, PlainPins DEF Plain
  <2> QED
    BY <1>2, <1>3, <2>2, <2>3, <2>4 DEF AgreeInv
<1>8. CASE \E byte \in Couplings : SetCoupling(byte)
  <2>1. PICK byte \in Couplings : SetCoupling(byte)
    BY <1>8
  <2>2. main # "direct" /\ asked'.volts = asked.volts
    BY <2>1 DEF SetCoupling, AskedInv
  <2>3. Synced \/ Outputs(Both) # {} => Synced'
    BY <2>1, CouplingPins
  <2>4. \A c \in Channels :
          Coupling(c) \cap OnPort("Q") # {} => Outputs(Both) # {}
    BY OnQ DEF Both, Channels, Outputs
  <2> QED
    BY <1>2, <1>3, <2>2, <2>3, <2>4 DEF AgreeInv
<1>9. CASE WriteRelay
  <2> DEFINE c == call[1]
  <2>1. /\ c \in Channels /\ Mask = Gain(c) /\ todo = B.ports
        /\ main = "direct" /\ asked' = asked
    BY <1>9 DEF WriteRelay, CallInv, InCall, Mask, Gain
  <2>2. Synced \/ Outputs(Mask \cap B.direct) # {} => Synced'
    BY <1>9, RelayPins
  <2>3. Gain(c) \cap OnPort("Q") # {} => Outputs(Mask \cap B.direct) # {}
    <3>1. Gain(c) \subseteq B.direct
            \cup UNION {OnPort(B.ports[i]) : i \in DOMAIN B.ports}
      BY <2>1 DEF Wired, PinsWired
    <3>2. \A i \in DOMAIN B.ports : OnPort(B.ports[i]) \cap OnPort("Q") = {}
      BY DEF Wired, PinsWired, OnPort, Pins
    <3>3. Gain(c) \cap OnPort("Q") \subseteq B.direct
      BY <3>1, <3>2
    <3> QED
      BY <2>1, <3>3, OnQ DEF Outputs
  <2> QED
    BY <1>2, <1>3, <2>1, <2>2, <2>3 DEF AgreeInv
<1>10. CASE WritePort
  <2>1. main # "direct" /\ asked' = asked
    BY <1>10 DEF WritePort
  <2> QED
    BY <1>5, <1>10, <2>1, PortPins
<1>11. CASE Timer2Isr
  <2>1. UNCHANGED <<main, call, asked>>
    BY <1>11 DEF Timer2Isr
  <2> QED
    BY <1>4, <1>11, <2>1, TimerPins
<1>12. CASE ReadPort \/ SetPulseHigh
  <2>1. main # "direct" /\ UNCHANGED <<asked, pins, vol_state>>
    BY <1>12 DEF ReadPort, SetPulseHigh
  <2> QED
    BY <1>5, <2>1, SamePins
<1>13. CASE Engine \/ UNCHANGED vars
  <2>1. UNCHANGED <<main, call, asked, pins, vol_state>>
    BY <1>13 DEF Engine, vars, boardVars
  <2> QED
    BY <1>4, <2>1, SamePins
<1> QED
  BY <1>6, <1>7, <1>8, <1>9, <1>10, <1>11, <1>12, <1>13
  DEF Next, Command, Main, Plain, Channels

(* The counter's value is written byte by byte. *)
ReloadInv ==
  /\ reload \in [1 .. 2 -> 0 .. 255]
  /\ reload[2] = LowByte(Negative(asked.ticks))
  /\ main # "reload" => reload[1] = HighByte(Negative(asked.ticks))

LEMMA Bytes ==
  ASSUME NEW n \in {500, 10000, 1000, 100, 20}
  PROVE  /\ HighByte(Negative(n)) \in 0 .. 255
         /\ LowByte(Negative(n)) \in 0 .. 255
         /\ 65536 - (256 * HighByte(Negative(n)) + LowByte(Negative(n))) = n
BY DEF HighByte, LowByte, Negative

LEMMA ReloadStep ==
  ASSUME AskedInv, ReloadInv, [Next]_vars PROVE ReloadInv'
<1>1. CASE UNCHANGED reload /\ asked'.ticks = asked.ticks
             /\ (main = "reload" => main' = "reload")
  BY <1>1 DEF ReloadInv
<1>2. CASE \E byte \in Pulses : SetPulse(byte)
  <2>1. PICK byte \in Pulses : SetPulse(byte)
    BY <1>2
  <2>2. CASE KnowsPulse(byte)
    <3> DEFINE n == PulseTicks(byte)
    <3>1. n \in {500, 10000, 1000, 100, 20}
      BY <2>2 DEF KnowsPulse, PulseTicks
    <3>2. /\ main' = "reload" /\ asked' = [asked EXCEPT !.ticks = n]
          /\ reload' = [reload EXCEPT ![2] = LowByte(Negative(n))]
      BY <2>1, <2>2 DEF SetPulse
    <3> HIDE DEF n
    <3>3. LowByte(Negative(n)) \in 0 .. 255
      BY <3>1, Bytes
    <3>4. asked'.ticks = n
      BY <3>2 DEF AskedInv
    <3> HIDE DEF LowByte, Negative
    <3> QED
      BY <3>2, <3>3, <3>4 DEF ReloadInv
  <2>3. CASE ~KnowsPulse(byte)
    BY <1>1, <2>1, <2>3 DEF SetPulse
  <2> QED
    BY <2>2, <2>3
<1>3. CASE SetPulseHigh
  <2>1. /\ asked' = asked
        /\ reload' = [reload EXCEPT ![1] = HighByte(Negative(asked.ticks))]
    BY <1>3 DEF SetPulseHigh
  <2>2. HighByte(Negative(asked.ticks)) \in 0 .. 255
    BY Bytes DEF AskedInv
  <2> QED
    BY <2>1, <2>2 DEF ReloadInv
<1>4. CASE Command /\ ~(\E byte \in Pulses : SetPulse(byte))
  <2>1. UNCHANGED reload /\ main = "poll"
    BY <1>4
    DEF Command, RefuseVoltage, SetVoltage, SetCoupling, SetRate, StartSampling
  <2>2. asked'.ticks = asked.ticks
    <3>1. CASE \E byte \in Couplings : SetCoupling(byte)
      BY <3>1 DEF SetCoupling, AskedInv
    <3>2. CASE \E c \in Channels, val \in Voltages : SetVoltage(c, val)
      BY <3>2 DEF SetVoltage, AskedInv
    <3>3. CASE \/ \E c \in Channels, val \in Voltages : RefuseVoltage(c, val)
               \/ \E rate \in RateBytes : SetRate(rate)
               \/ StartSampling
      BY <3>3 DEF RefuseVoltage, SetRate, StartSampling
    <3> QED
      BY <1>4, <3>1, <3>2, <3>3 DEF Command, Channels
  <2> QED
    BY <1>1, <2>1, <2>2
<1>5. CASE WriteRelay \/ ReadPort \/ WritePort \/ Timer2Isr \/ Engine
             \/ UNCHANGED vars
  <2>1. UNCHANGED <<reload, asked>> /\ (main = "reload" => main' = "reload")
    BY <1>5 DEF WriteRelay, ReadPort, WritePort, Timer2Isr, Engine, vars,
                boardVars
  <2> QED
    BY <1>1, <2>1
<1> QED
  BY <1>2, <1>3, <1>4, <1>5 DEF Next, Main

-----------------------------------------------------------------------------
(* The inductive invariant. *)

Inv ==
  /\ variant \in Devices /\ Wired
  /\ PinsInv /\ AskedInv /\ CallInv /\ LatchInv /\ GainInv /\ CouplingInv
  /\ AgreeInv /\ ReloadInv

(* Whatever the pins are at first, the host has asked for nothing yet.     *)
LEMMA InvInit == ASSUME Init, variant \in Devices, Wired PROVE Inv
<1>1. /\ main = "poll" /\ call = NoCall /\ todo = <<>> /\ latch = {}
      /\ vol_state = Outputs(B.gain[0].bits[1] \cup B.gain[1].bits[1])
      /\ reload = <<HighByte(Negative(Timer2Val)),
                    LowByte(Negative(Timer2Val))>>
      /\ asked = [volts |-> [c \in {0, 1} |-> 0],
                  dc |-> [c \in {0, 1} |-> "unknown"], ticks |-> Timer2Val]
  BY DEF Init
<1>2. PinsInv
  <2>1. PICK wired \in Levels :
          pins = Ticked(Preset(1, Preset(0, Do(B.analog, wired), wired),
                               wired), wired)
    BY DEF Init
  <2>2. wired \subseteq Pins
    BY <2>1, BoardAssumption
  <2>3. B.analog.bits \subseteq Pins
    BY DEF Wired, BitsWithin, PinsWired, Lights
  <2>4. ASSUME NEW c \in Channels, NEW old \in SUBSET Pins
        PROVE  Preset(c, old, wired) \in SUBSET Pins
    <3>1. B.gain[c].mask \subseteq Pins
      BY DEF Wired, PinsWired, Gain, Channels
    <3> QED
      BY <2>2, <3>1 DEF Preset, Do, Drive
  <2>5. Do(B.analog, wired) \in SUBSET Pins
    BY <2>2, <2>3 DEF Do
  <2>6. Preset(0, Do(B.analog, wired), wired) \in SUBSET Pins
    BY <2>4, <2>5 DEF Channels
  <2>7. Preset(1, Preset(0, Do(B.analog, wired), wired), wired)
          \in SUBSET Pins
    BY <2>4, <2>6 DEF Channels
  <2>8. pins \subseteq Pins
    BY <2>1, <2>2, <2>7 DEF Ticked
  <2> QED
    BY <1>1, <2>8 DEF PinsInv, Outputs
<1>3. AskedInv /\ CouplingInv
  BY <1>1 DEF AskedInv, CouplingInv, Channels, Timer2Val
<1>4. CallInv /\ LatchInv
  BY <1>1 DEF CallInv, LatchInv, InCall
<1>5. GainInv /\ AgreeInv
  BY <1>1 DEF GainInv, AgreeInv, Channels
<1>6. ReloadInv
  BY <1>1, Bytes DEF ReloadInv, Timer2Val
<1> QED
  BY <1>2, <1>3, <1>4, <1>5, <1>6 DEF Inv

LEMMA InvStep == Inv /\ [Next]_vars => Inv'
<1> SUFFICES ASSUME Inv, [Next]_vars PROVE Inv'
  OBVIOUS
<1> USE DEF Inv
<1>1. variant' \in Devices /\ Wired'
  BY SameBoard, SameWires
<1>2. PinsInv'
  <2>1. CASE Plain
    BY <2>1, PlainPins
  <2>2. CASE \E byte \in Couplings : SetCoupling(byte)
    BY <2>2, CouplingPins
  <2>3. CASE WriteRelay \/ WritePort \/ Timer2Isr
    BY <2>3, RelayPins, PortPins, TimerPins
  <2>4. CASE ReadPort \/ SetPulseHigh \/ Engine \/ UNCHANGED vars
    <3>1. UNCHANGED <<pins, vol_state>>
      BY <2>4 DEF ReadPort, SetPulseHigh, Engine, vars, boardVars
    <3> QED
      BY <3>1 DEF PinsInv
  <2> QED
    BY <2>1, <2>2, <2>3, <2>4 DEF Next, Command, Main, Plain, Channels
<1> QED
  BY <1>1, <1>2, AskedStep, CallStep, LatchStep, GainStep, CouplingStep,
     AgreeStep, ReloadStep

LEMMA InvImplies == ASSUME Inv PROVE BoardAsAsked
<1>1. GainTrue
  <2> SUFFICES ASSUME NEW c \in {0, 1}, asked.volts[c] # 0,
                      B.gain[c].mask # {}, ~Writing(c), NEW i \in 1 .. 3
               PROVE  Selector(c)[i] \in pins
                        <=> (Selects(asked.volts[c]) \div Weight[i]) % 2 = 1
    BY DEF GainTrue, Shows
  <2> DEFINE val == asked.volts[c]
             bit == (Selects(val) \div Weight[i]) % 2 = 1
  <2>1. c \in Channels /\ Gain(c) # {}
    BY DEF Channels, Gain
  <2>2. /\ val \in DOMAIN B.gain[c].bits
        /\ Meant \cap Gain(c) = B.gain[c].bits[val]
    BY <2>1 DEF Inv, GainInv, Value
  <2>3. /\ Selector(c)[i] \in Gain(c)
        /\ Selector(c)[i] \in B.gain[c].bits[val] <=> bit
    BY <2>1, <2>2, Zenon DEF Inv, Wired, GainsRight
  <2>4. pins \cap Gain(c) = Meant \cap Gain(c)
    <3>1. Gain(c) \cap OnPort("Q") = {} \/ Synced
      BY <2>1 DEF Inv, AgreeInv, Writing
    <3>2. Gain(c) \in SUBSET Pins
      BY <2>1, Apart DEF Inv
    <3> QED
      BY <3>1, <3>2, MeantShows DEF Inv
  <2> HIDE DEF bit
  <2>5. Selector(c)[i] \in pins <=> bit
    BY <2>2, <2>3, <2>4
  <2> QED
    BY <2>5 DEF bit
<1>2. CouplingTrue
  <2>1. \A c \in Channels : /\ asked.dc[c] \in {"unknown", "dc", "ac"}
                            /\ B.dc[c] \cap B.ac[c] = {}
    BY DEF Inv, AskedInv, Wired, PinsApart
  <2>2. \A c \in Channels : asked.dc[c] # "unknown" =>
          pins \cap Coupling(c) = Meant \cap Coupling(c)
    <3> SUFFICES ASSUME NEW c \in Channels, asked.dc[c] # "unknown"
                 PROVE  pins \cap Coupling(c) = Meant \cap Coupling(c)
      OBVIOUS
    <3>1. Coupling(c) \cap OnPort("Q") = {} \/ Synced
      BY DEF Inv, AgreeInv
    <3>2. Coupling(c) \in SUBSET Pins
      BY Apart DEF Inv, Both, Channels
    <3> QED
      BY <3>1, <3>2, MeantShows DEF Inv
  <2> QED
    BY <2>1, <2>2 DEF Inv, CouplingInv, CouplingTrue, Channels, Coupling
<1>3. TicksTrue
  <2> SUFFICES ASSUME main # "reload"
               PROVE  65536 - (256 * reload[1] + reload[2]) = asked.ticks
    BY DEF TicksTrue
  <2>1. asked.ticks \in {500, 10000, 1000, 100, 20}
    BY DEF Inv, AskedInv
  <2> QED
    BY <2>1, Bytes DEF Inv, ReloadInv
<1> QED
  BY <1>1, <1>2, <1>3 DEF BoardAsAsked

-----------------------------------------------------------------------------
(* The six boards are wired so.  The pins that a byte sets, for the bytes  *)
(* of their tables.                                                        *)
LEMMA PortBits ==
  ASSUME NEW p \in {"A", "C", "E", "Q"}
  PROVE  /\ Port(p, 0) = {}
         /\ Port(p, 1) = {<<p, 0>>}
         /\ Port(p, 2) = {<<p, 1>>}
         /\ Port(p, 3) = {<<p, 0>>, <<p, 1>>}
         /\ Port(p, 4) = {<<p, 2>>}
         /\ Port(p, 6) = {<<p, 1>>, <<p, 2>>}
         /\ Port(p, 8) = {<<p, 3>>}
         /\ Port(p, 9) = {<<p, 0>>, <<p, 3>>}
         /\ Port(p, 14) = {<<p, 1>>, <<p, 2>>, <<p, 3>>}
         /\ Port(p, 16) = {<<p, 4>>}
         /\ Port(p, 18) = {<<p, 1>>, <<p, 4>>}
         /\ Port(p, 28) = {<<p, 2>>, <<p, 3>>, <<p, 4>>}
         /\ Port(p, 32) = {<<p, 5>>}
         /\ Port(p, 36) = {<<p, 2>>, <<p, 5>>}
         /\ Port(p, 48) = {<<p, 4>>, <<p, 5>>}
         /\ Port(p, 54) = {<<p, 1>>, <<p, 2>>, <<p, 4>>, <<p, 5>>}
         /\ Port(p, 64) = {<<p, 6>>}
         /\ Port(p, 67) = {<<p, 0>>, <<p, 1>>, <<p, 6>>}
         /\ Port(p, 72) = {<<p, 3>>, <<p, 6>>}
         /\ Port(p, 80) = {<<p, 4>>, <<p, 6>>}
         /\ Port(p, 86) = {<<p, 1>>, <<p, 2>>, <<p, 4>>, <<p, 6>>}
         /\ Port(p, 95)
              = {<<p, 0>>, <<p, 1>>, <<p, 2>>, <<p, 3>>,
                 <<p, 4>>, <<p, 6>>}
         /\ Port(p, 108) = {<<p, 2>>, <<p, 3>>, <<p, 5>>, <<p, 6>>}
         /\ Port(p, 112) = {<<p, 4>>, <<p, 5>>, <<p, 6>>}
         /\ Port(p, 128) = {<<p, 7>>}
         /\ Port(p, 224) = {<<p, 5>>, <<p, 6>>, <<p, 7>>}
<1>1. Port(p, 0) = {}
  BY DEF Port, Weight
<1>2. Port(p, 1) = {<<p, 0>>}
  BY DEF Port, Weight
<1>3. Port(p, 2) = {<<p, 1>>}
  BY DEF Port, Weight
<1>4. Port(p, 3) = {<<p, 0>>, <<p, 1>>}
  BY DEF Port, Weight
<1>5. Port(p, 4) = {<<p, 2>>}
  BY DEF Port, Weight
<1>6. Port(p, 6) = {<<p, 1>>, <<p, 2>>}
  BY DEF Port, Weight
<1>7. Port(p, 8) = {<<p, 3>>}
  BY DEF Port, Weight
<1>8. Port(p, 9) = {<<p, 0>>, <<p, 3>>}
  BY DEF Port, Weight
<1>9. Port(p, 14) = {<<p, 1>>, <<p, 2>>, <<p, 3>>}
  BY DEF Port, Weight
<1>10. Port(p, 16) = {<<p, 4>>}
  BY DEF Port, Weight
<1>11. Port(p, 18) = {<<p, 1>>, <<p, 4>>}
  BY DEF Port, Weight
<1>12. Port(p, 28) = {<<p, 2>>, <<p, 3>>, <<p, 4>>}
  BY DEF Port, Weight
<1>13. Port(p, 32) = {<<p, 5>>}
  BY DEF Port, Weight
<1>14. Port(p, 36) = {<<p, 2>>, <<p, 5>>}
  BY DEF Port, Weight
<1>15. Port(p, 48) = {<<p, 4>>, <<p, 5>>}
  BY DEF Port, Weight
<1>16. Port(p, 54) = {<<p, 1>>, <<p, 2>>, <<p, 4>>, <<p, 5>>}
  BY DEF Port, Weight
<1>17. Port(p, 64) = {<<p, 6>>}
  BY DEF Port, Weight
<1>18. Port(p, 67) = {<<p, 0>>, <<p, 1>>, <<p, 6>>}
  BY DEF Port, Weight
<1>19. Port(p, 72) = {<<p, 3>>, <<p, 6>>}
  BY DEF Port, Weight
<1>20. Port(p, 80) = {<<p, 4>>, <<p, 6>>}
  BY DEF Port, Weight
<1>21. Port(p, 86) = {<<p, 1>>, <<p, 2>>, <<p, 4>>, <<p, 6>>}
  BY DEF Port, Weight
<1>22. Port(p, 95)
        = {<<p, 0>>, <<p, 1>>, <<p, 2>>, <<p, 3>>,
           <<p, 4>>, <<p, 6>>}
  BY DEF Port, Weight
<1>23. Port(p, 108) = {<<p, 2>>, <<p, 3>>, <<p, 5>>, <<p, 6>>}
  BY DEF Port, Weight
<1>24. Port(p, 112) = {<<p, 4>>, <<p, 5>>, <<p, 6>>}
  BY DEF Port, Weight
<1>25. Port(p, 128) = {<<p, 7>>}
  BY DEF Port, Weight
<1>26. Port(p, 224) = {<<p, 5>>, <<p, 6>>, <<p, 7>>}
  BY DEF Port, Weight
<1> QED
  BY <1>1, <1>2, <1>3, <1>4, <1>5, <1>6, <1>7, <1>8, <1>9, <1>10,
     <1>11, <1>12, <1>13, <1>14, <1>15, <1>16, <1>17, <1>18, <1>19, <1>20,
     <1>21, <1>22, <1>23, <1>24, <1>25, <1>26

(* The gain table of a board whose pins are on one port. *)
LEMMA OneTable ==
  ASSUME NEW p, NEW mask0, NEW mask1, NEW bytes,
         B.gain = Masked(p, mask0, mask1, bytes)
  PROVE  /\ Gain(0) = Port(p, mask0) /\ Gain(1) = Port(p, mask1)
         /\ \A c \in Channels :
              /\ DOMAIN B.gain[c].bits = DOMAIN bytes
              /\ \A v \in DOMAIN bytes :
                   B.gain[c].bits[v] = Gain(c) \cap Port(p, bytes[v])
BY DEF Masked, Gain, Channels

(* One table for both channels; the calibration pin is PA7. *)
LEMMA WiredHantek6022be ==
  ASSUME variant = "hantek-6022be" PROVE Wired
<1>1. /\ Port("C", 1) = {<<"C", 0>>} /\ Port("C", 2) = {<<"C", 1>>}
      /\ Port("C", 3) = {<<"C", 0>>, <<"C", 1>>}
      /\ Port("A", 128) = {<<"A", 7>>}
  BY PortBits, Zenon
<1>2. B = Hantek6022be
  BY DEF B, Board
<1>3. /\ B.ports = <<"C">> /\ B.direct = {} /\ B.led = LedC /\ B.analog = Nop
      /\ B.toggle = Port("A", 128) /\ B.dc = NoCoupling /\ B.ac = NoCoupling
  BY <1>2 DEF Hantek6022be
<1> DEFINE bytes == [v \in {1, 2, 5, 10} |->
              CASE v = 1 -> 36 * 2 [] v = 2 -> 36 [] v = 5 -> 0
                [] v = 10 -> 36 * 3]
<1>4. B.gain = Masked("C", 28, 224, bytes)
  BY <1>2 DEF Hantek6022be
<1>5. DOMAIN bytes = {1, 2, 5, 10}
      /\ bytes[1] = 72 /\ bytes[2] = 36 /\ bytes[5] = 0 /\ bytes[10] = 108
  OBVIOUS
<1> HIDE DEF bytes
<1>6. /\ Gain(0) = Port("C", 28) /\ Gain(1) = Port("C", 224)
      /\ \A c \in Channels :
           /\ DOMAIN B.gain[c].bits = {1, 2, 5, 10}
           /\ \A v \in {1, 2, 5, 10} :
                B.gain[c].bits[v] = Gain(c) \cap Port("C", bytes[v])
  BY <1>4, <1>5, OneTable
<1>7. /\ Gain(0) = {<<"C", 2>>, <<"C", 3>>, <<"C", 4>>}
      /\ Gain(1) = {<<"C", 5>>, <<"C", 6>>, <<"C", 7>>}
      /\ B.gain[0].bits[1] = {<<"C", 3>>}
      /\ B.gain[0].bits[2] = {<<"C", 2>>}
      /\ B.gain[0].bits[5] = {}
      /\ B.gain[0].bits[10] = {<<"C", 2>>, <<"C", 3>>}
      /\ B.gain[1].bits[1] = {<<"C", 6>>}
      /\ B.gain[1].bits[2] = {<<"C", 5>>}
      /\ B.gain[1].bits[5] = {}
      /\ B.gain[1].bits[10] = {<<"C", 5>>, <<"C", 6>>}
  <2>1. /\ Port("C", 0) = {}
        /\ Port("C", 28) = {<<"C", 2>>, <<"C", 3>>, <<"C", 4>>}
        /\ Port("C", 36) = {<<"C", 2>>, <<"C", 5>>}
        /\ Port("C", 72) = {<<"C", 3>>, <<"C", 6>>}
        /\ Port("C", 108) = {<<"C", 2>>, <<"C", 3>>, <<"C", 5>>, <<"C", 6>>}
        /\ Port("C", 224) = {<<"C", 5>>, <<"C", 6>>, <<"C", 7>>}
    BY PortBits, Zenon
  <2>2. /\ Gain(0) = {<<"C", 2>>, <<"C", 3>>, <<"C", 4>>}
        /\ Gain(1) = {<<"C", 5>>, <<"C", 6>>, <<"C", 7>>}
    BY <1>5, <1>6, <2>1 DEF Channels
  <2>3. /\ B.gain[0].bits[1] = {<<"C", 3>>}
        /\ B.gain[0].bits[2] = {<<"C", 2>>}
        /\ B.gain[0].bits[5] = {}
        /\ B.gain[0].bits[10] = {<<"C", 2>>, <<"C", 3>>}
    BY <1>5, <1>6, <2>1, <2>2 DEF Channels
  <2>4. /\ B.gain[1].bits[1] = {<<"C", 6>>}
        /\ B.gain[1].bits[2] = {<<"C", 5>>}
        /\ B.gain[1].bits[5] = {}
        /\ B.gain[1].bits[10] = {<<"C", 5>>, <<"C", 6>>}
    BY <1>5, <1>6, <2>1, <2>2 DEF Channels
  <2> QED
    BY <2>2, <2>3, <2>4
<1>8. /\ Coupling(0) = {} /\ Coupling(1) = {} /\ Both = {}
      /\ B.toggle = {<<"A", 7>>}
      /\ B.led.clear = Drive(Port("C", 3), Port("C", 3))
      /\ B.led.green = Drive(Port("C", 3), Port("C", 1))
      /\ B.led.red = Drive(Port("C", 3), Port("C", 2))
      /\ Leds = {<<"C", 0>>, <<"C", 1>>} /\ Lights = Leds
  BY <1>1, <1>3
  DEF Coupling, Both, Leds, Lights, LedC, Drive, Nop, NoCoupling
<1>9. GainsRight
  BY <1>6, <1>7 DEF GainsRight, Channels, Selector, Selects, Weight
<1>10. PinsApart
  BY <1>3, <1>7, <1>8 DEF PinsApart, Channels, NoCoupling
<1>11. BitsWithin
  <2>1. \A m \in {B.led.clear, B.led.green, B.led.red, B.analog} :
          m.bits \subseteq m.mask
    BY <1>1, <1>3, <1>8 DEF Drive, Nop
  <2>2. \A c \in Channels : \A val \in DOMAIN B.gain[c].bits :
          B.gain[c].bits[val] \subseteq Gain(c)
    BY <1>6 DEF Channels
  <2>3. B.toggle = {} \/ \E pin \in Pins : B.toggle = {pin}
    BY <1>8 DEF Pins
  <2> QED
    BY <2>1, <2>2, <2>3 DEF BitsWithin
<1>12. PinsWired
  BY <1>3, <1>7, <1>8 DEF PinsWired, OnPort, Pins, Channels
<1> QED
  BY <1>9, <1>10, <1>11, <1>12 DEF Wired

(* The byte is shifted to the channel's pins of port A. *)
LEMMA WiredHantek6022bl ==
  ASSUME variant = "hantek-6022bl" PROVE Wired
<1>1. /\ Port("C", 1) = {<<"C", 0>>} /\ Port("C", 2) = {<<"C", 1>>}
      /\ Port("C", 3) = {<<"C", 0>>, <<"C", 1>>}
      /\ Port("C", 4) = {<<"C", 2>>} /\ Port("A", 128) = {<<"A", 7>>}
  BY PortBits, Zenon
<1>2. B = Hantek6022bl
  BY DEF B, Board
<1>3. /\ B.ports = <<"A">> /\ B.direct = {} /\ B.led = LedC
      /\ B.analog = Drive(Port("A", 128), Port("A", 128))
      /\ B.toggle = Port("C", 4) /\ B.dc = NoCoupling /\ B.ac = NoCoupling
  BY <1>2 DEF Hantek6022bl
<1> DEFINE bytes(shift) ==
             [v \in {1, 2, 5, 10} |->
                CASE v = 1 -> 2 * shift [] v = 2 -> shift [] v = 5 -> 0
                  [] v = 10 -> 3 * shift]
<1>4. /\ B.gain[0] = Masked("A", 14, 112, bytes(2))[0]
      /\ B.gain[1] = Masked("A", 14, 112, bytes(16))[1]
  BY <1>2 DEF Hantek6022bl
<1>5. /\ DOMAIN bytes(2) = {1, 2, 5, 10} /\ DOMAIN bytes(16) = {1, 2, 5, 10}
      /\ bytes(2)[1] = 4 /\ bytes(2)[2] = 2 /\ bytes(2)[5] = 0
      /\ bytes(2)[10] = 6
      /\ bytes(16)[1] = 32 /\ bytes(16)[2] = 16 /\ bytes(16)[5] = 0
      /\ bytes(16)[10] = 48
  OBVIOUS
<1> HIDE DEF bytes
<1>6. /\ Gain(0) = Port("A", 14) /\ Gain(1) = Port("A", 112)
      /\ DOMAIN B.gain[0].bits = {1, 2, 5, 10}
      /\ DOMAIN B.gain[1].bits = {1, 2, 5, 10}
      /\ \A v \in {1, 2, 5, 10} :
           /\ B.gain[0].bits[v] = Gain(0) \cap Port("A", bytes(2)[v])
           /\ B.gain[1].bits[v] = Gain(1) \cap Port("A", bytes(16)[v])
  BY <1>4, <1>5 DEF Masked, Gain
<1>7. /\ Gain(0) = {<<"A", 1>>, <<"A", 2>>, <<"A", 3>>}
      /\ Gain(1) = {<<"A", 4>>, <<"A", 5>>, <<"A", 6>>}
      /\ B.gain[0].bits[1] = {<<"A", 2>>}
      /\ B.gain[0].bits[2] = {<<"A", 1>>}
      /\ B.gain[0].bits[5] = {}
      /\ B.gain[0].bits[10] = {<<"A", 1>>, <<"A", 2>>}
      /\ B.gain[1].bits[1] = {<<"A", 5>>}
      /\ B.gain[1].bits[2] = {<<"A", 4>>}
      /\ B.gain[1].bits[5] = {}
      /\ B.gain[1].bits[10] = {<<"A", 4>>, <<"A", 5>>}
  <2>1. /\ Port("A", 0) = {}
        /\ Port("A", 2) = {<<"A", 1>>}
        /\ Port("A", 4) = {<<"A", 2>>}
        /\ Port("A", 6) = {<<"A", 1>>, <<"A", 2>>}
        /\ Port("A", 14) = {<<"A", 1>>, <<"A", 2>>, <<"A", 3>>}
    BY PortBits, Zenon
  <2>2. /\ Port("A", 16) = {<<"A", 4>>}
        /\ Port("A", 32) = {<<"A", 5>>}
        /\ Port("A", 48) = {<<"A", 4>>, <<"A", 5>>}
        /\ Port("A", 112) = {<<"A", 4>>, <<"A", 5>>, <<"A", 6>>}
    BY PortBits, Zenon
  <2>3. /\ Gain(0) = {<<"A", 1>>, <<"A", 2>>, <<"A", 3>>}
        /\ Gain(1) = {<<"A", 4>>, <<"A", 5>>, <<"A", 6>>}
    BY <1>5, <1>6, <2>1, <2>2
  <2>4. /\ B.gain[0].bits[1] = {<<"A", 2>>}
        /\ B.gain[0].bits[2] = {<<"A", 1>>}
        /\ B.gain[0].bits[5] = {}
        /\ B.gain[0].bits[10] = {<<"A", 1>>, <<"A", 2>>}
    BY <1>5, <1>6, <2>1, <2>2, <2>3
  <2>5. /\ B.gain[1].bits[1] = {<<"A", 5>>}
        /\ B.gain[1].bits[2] = {<<"A", 4>>}
        /\ B.gain[1].bits[5] = {}
        /\ B.gain[1].bits[10] = {<<"A", 4>>, <<"A", 5>>}
    BY <1>5, <1>6, <2>1, <2>2, <2>3
  <2> QED
    BY <2>3, <2>4, <2>5
<1>8. /\ Coupling(0) = {} /\ Coupling(1) = {} /\ Both = {}
      /\ B.toggle = {<<"C", 2>>}
      /\ B.led.clear = Drive(Port("C", 3), Port("C", 3))
      /\ B.led.green = Drive(Port("C", 3), Port("C", 1))
      /\ B.led.red = Drive(Port("C", 3), Port("C", 2))
      /\ Leds = {<<"C", 0>>, <<"C", 1>>} /\ Lights = Leds \cup {<<"A", 7>>}
  BY <1>1, <1>3
  DEF Coupling, Both, Leds, Lights, LedC, Drive, Nop, NoCoupling
<1>9. GainsRight
  BY <1>6, <1>7 DEF GainsRight, Channels, Selector, Selects, Weight
<1>10. PinsApart
  BY <1>3, <1>7, <1>8 DEF PinsApart, Channels, NoCoupling
<1>11. BitsWithin
  <2>1. \A m \in {B.led.clear, B.led.green, B.led.red, B.analog} :
          m.bits \subseteq m.mask
    BY <1>1, <1>3, <1>8 DEF Drive, Nop
  <2>2. \A c \in Channels : \A val \in DOMAIN B.gain[c].bits :
          B.gain[c].bits[val] \subseteq Gain(c)
    BY <1>6 DEF Channels
  <2>3. B.toggle = {} \/ \E pin \in Pins : B.toggle = {pin}
    BY <1>8 DEF Pins
  <2> QED
    BY <2>1, <2>2, <2>3 DEF BitsWithin
<1>12. PinsWired
  BY <1>3, <1>7, <1>8 DEF PinsWired, OnPort, Pins, Channels
<1> QED
  BY <1>9, <1>10, <1>11, <1>12 DEF Wired

(* Neither LED nor calibration pin. *)
LEMMA WiredYixingdianziMdso ==
  ASSUME variant = "yixingdianzi-mdso" PROVE Wired
<1>1. B = YixingdianziMdso
  BY DEF B, Board
<1>2. /\ B.ports = <<"A">> /\ B.direct = {} /\ B.led = NoLed /\ B.analog = Nop
      /\ B.toggle = {} /\ B.dc = NoCoupling /\ B.ac = NoCoupling
  BY <1>1 DEF YixingdianziMdso
<1> DEFINE bytes == [v \in {1, 2, 5, 10, 16} |->
              CASE v = 1 -> 36 [] v = 2 -> 18 [] v = 5 -> 0
                [] v \in {10, 16} -> 54]
<1>3. B.gain = Masked("A", 14, 112, bytes)
  BY <1>1 DEF YixingdianziMdso
<1>4. /\ DOMAIN bytes = {1, 2, 5, 10, 16}
      /\ bytes[1] = 36 /\ bytes[2] = 18 /\ bytes[5] = 0 /\ bytes[10] = 54
      /\ bytes[16] = 54
  OBVIOUS
<1> HIDE DEF bytes
<1>5. /\ Gain(0) = Port("A", 14) /\ Gain(1) = Port("A", 112)
      /\ \A c \in Channels :
           /\ DOMAIN B.gain[c].bits = {1, 2, 5, 10, 16}
           /\ \A v \in {1, 2, 5, 10, 16} :
                B.gain[c].bits[v] = Gain(c) \cap Port("A", bytes[v])
  BY <1>3, <1>4, OneTable
<1>6. /\ Gain(0) = {<<"A", 1>>, <<"A", 2>>, <<"A", 3>>}
      /\ Gain(1) = {<<"A", 4>>, <<"A", 5>>, <<"A", 6>>}
      /\ B.gain[0].bits[1] = {<<"A", 2>>}
      /\ B.gain[0].bits[2] = {<<"A", 1>>}
      /\ B.gain[0].bits[5] = {}
      /\ B.gain[0].bits[10] = {<<"A", 1>>, <<"A", 2>>}
      /\ B.gain[0].bits[16] = {<<"A", 1>>, <<"A", 2>>}
      /\ B.gain[1].bits[1] = {<<"A", 5>>}
      /\ B.gain[1].bits[2] = {<<"A", 4>>}
      /\ B.gain[1].bits[5] = {}
      /\ B.gain[1].bits[10] = {<<"A", 4>>, <<"A", 5>>}
      /\ B.gain[1].bits[16] = {<<"A", 4>>, <<"A", 5>>}
  <2>1. /\ Port("A", 0) = {}
        /\ Port("A", 14) = {<<"A", 1>>, <<"A", 2>>, <<"A", 3>>}
        /\ Port("A", 18) = {<<"A", 1>>, <<"A", 4>>}
        /\ Port("A", 36) = {<<"A", 2>>, <<"A", 5>>}
        /\ Port("A", 54) = {<<"A", 1>>, <<"A", 2>>, <<"A", 4>>, <<"A", 5>>}
        /\ Port("A", 112) = {<<"A", 4>>, <<"A", 5>>, <<"A", 6>>}
    BY PortBits, Zenon
  <2>2. /\ Gain(0) = {<<"A", 1>>, <<"A", 2>>, <<"A", 3>>}
        /\ Gain(1) = {<<"A", 4>>, <<"A", 5>>, <<"A", 6>>}
    BY <1>4, <1>5, <2>1 DEF Channels
  <2>3. /\ B.gain[0].bits[1] = {<<"A", 2>>}
        /\ B.gain[0].bits[2] = {<<"A", 1>>}
        /\ B.gain[0].bits[5] = {}
        /\ B.gain[0].bits[10] = {<<"A", 1>>, <<"A", 2>>}
        /\ B.gain[0].bits[16] = {<<"A", 1>>, <<"A", 2>>}
    BY <1>4, <1>5, <2>1, <2>2 DEF Channels
  <2>4. /\ B.gain[1].bits[1] = {<<"A", 5>>}
        /\ B.gain[1].bits[2] = {<<"A", 4>>}
        /\ B.gain[1].bits[5] = {}
        /\ B.gain[1].bits[10] = {<<"A", 4>>, <<"A", 5>>}
        /\ B.gain[1].bits[16] = {<<"A", 4>>, <<"A", 5>>}
    BY <1>4, <1>5, <2>1, <2>2 DEF Channels
  <2> QED
    BY <2>2, <2>3, <2>4
<1>7. /\ Coupling(0) = {} /\ Coupling(1) = {} /\ Both = {}
      /\ B.toggle = {} /\ B.led.clear = Nop /\ B.led.green = Nop
      /\ B.led.red = Nop /\ Leds = {} /\ Lights = {}
  BY <1>2 DEF Coupling, Both, Leds, Lights, NoLed, Drive, Nop, NoCoupling
<1>8. GainsRight
  BY <1>5, <1>6 DEF GainsRight, Channels, Selector, Selects, Weight
<1>9. PinsApart
  BY <1>2, <1>6, <1>7 DEF PinsApart, Channels, NoCoupling
<1>10. BitsWithin
  <2>1. \A m \in {B.led.clear, B.led.green, B.led.red, B.analog} :
          m.bits \subseteq m.mask
    BY <1>2, <1>7 DEF Drive, Nop
  <2>2. \A c \in Channels : \A val \in DOMAIN B.gain[c].bits :
          B.gain[c].bits[val] \subseteq Gain(c)
    BY <1>5 DEF Channels
  <2>3. B.toggle = {} \/ \E pin \in Pins : B.toggle = {pin}
    BY <1>7 DEF Pins
  <2> QED
    BY <2>1, <2>2, <2>3 DEF BitsWithin
<1>11. PinsWired
  BY <1>2, <1>6, <1>7 DEF PinsWired, OnPort, Pins, Channels
<1> QED
  BY <1>8, <1>9, <1>10, <1>11 DEF Wired

(* Gain and coupling are outputs of the shift register. *)
LEMMA WiredInstrustarIsds205b ==
  ASSUME variant = "instrustar-isds205b" PROVE Wired
<1>1. B = InstrustarIsds205b
  BY DEF B, Board
<1>2. /\ B.ports = <<>> /\ B.direct = Port("Q", 255) /\ B.led = NoLed
      /\ B.analog = Drive(Port("A", 128), Port("A", 128))
      /\ B.toggle = Port("A", 1) /\ B.dc = NoCoupling
      /\ B.ac = [c \in {0, 1} |-> Port("Q", IF c = 0 THEN 128 ELSE 32)]
  BY <1>1 DEF InstrustarIsds205b
<1> DEFINE bytes == [v \in {1, 2, 5, 10, 11, 12} |->
              CASE v = 1 -> 9 [] v = 2 -> 6 [] v = 5 -> 0 [] v = 10 -> 86
                [] v = 11 -> 80 [] v = 12 -> 95]
<1>3. B.gain = Masked("Q", 67, 28, bytes)
  BY <1>1 DEF InstrustarIsds205b
<1>4. /\ DOMAIN bytes = {1, 2, 5, 10, 11, 12}
      /\ bytes[1] = 9 /\ bytes[2] = 6 /\ bytes[5] = 0 /\ bytes[10] = 86
      /\ bytes[11] = 80 /\ bytes[12] = 95
  OBVIOUS
<1> HIDE DEF bytes
<1>5. /\ Gain(0) = Port("Q", 67) /\ Gain(1) = Port("Q", 28)
      /\ \A c \in Channels :
           /\ DOMAIN B.gain[c].bits = {1, 2, 5, 10, 11, 12}
           /\ \A v \in {1, 2, 5, 10, 11, 12} :
                B.gain[c].bits[v] = Gain(c) \cap Port("Q", bytes[v])
  BY <1>3, <1>4, OneTable
<1>6. /\ Gain(0) = {<<"Q", 0>>, <<"Q", 1>>, <<"Q", 6>>}
      /\ Gain(1) = {<<"Q", 2>>, <<"Q", 3>>, <<"Q", 4>>}
      /\ B.gain[0].bits[1] = {<<"Q", 0>>}
      /\ B.gain[0].bits[2] = {<<"Q", 1>>}
      /\ B.gain[0].bits[5] = {}
      /\ B.gain[0].bits[10] = {<<"Q", 1>>, <<"Q", 6>>}
      /\ B.gain[0].bits[11] = {<<"Q", 6>>}
      /\ B.gain[0].bits[12] = {<<"Q", 0>>, <<"Q", 1>>, <<"Q", 6>>}
      /\ B.gain[1].bits[1] = {<<"Q", 3>>}
      /\ B.gain[1].bits[2] = {<<"Q", 2>>}
      /\ B.gain[1].bits[5] = {}
      /\ B.gain[1].bits[10] = {<<"Q", 2>>, <<"Q", 4>>}
      /\ B.gain[1].bits[11] = {<<"Q", 4>>}
      /\ B.gain[1].bits[12] = {<<"Q", 2>>, <<"Q", 3>>, <<"Q", 4>>}
  <2>1. /\ Port("Q", 0) = {}
        /\ Port("Q", 6) = {<<"Q", 1>>, <<"Q", 2>>}
        /\ Port("Q", 9) = {<<"Q", 0>>, <<"Q", 3>>}
        /\ Port("Q", 28) = {<<"Q", 2>>, <<"Q", 3>>, <<"Q", 4>>}
        /\ Port("Q", 67) = {<<"Q", 0>>, <<"Q", 1>>, <<"Q", 6>>}
        /\ Port("Q", 80) = {<<"Q", 4>>, <<"Q", 6>>}
        /\ Port("Q", 86) = {<<"Q", 1>>, <<"Q", 2>>, <<"Q", 4>>, <<"Q", 6>>}
        /\ Port("Q", 95) = {<<"Q", 0>>, <<"Q", 1>>, <<"Q", 2>>, <<"Q", 3>>,
                              <<"Q", 4>>, <<"Q", 6>>}
    BY PortBits, Zenon
  <2>2. /\ Gain(0) = {<<"Q", 0>>, <<"Q", 1>>, <<"Q", 6>>}
        /\ Gain(1) = {<<"Q", 2>>, <<"Q", 3>>, <<"Q", 4>>}
    BY <1>4, <1>5, <2>1 DEF Channels
  <2>3. /\ B.gain[0].bits[1] = {<<"Q", 0>>}
        /\ B.gain[0].bits[2] = {<<"Q", 1>>}
        /\ B.gain[0].bits[5] = {}
        /\ B.gain[0].bits[10] = {<<"Q", 1>>, <<"Q", 6>>}
        /\ B.gain[0].bits[11] = {<<"Q", 6>>}
        /\ B.gain[0].bits[12] = {<<"Q", 0>>, <<"Q", 1>>, <<"Q", 6>>}
    BY <1>4, <1>5, <2>1, <2>2 DEF Channels
  <2>4. /\ B.gain[1].bits[1] = {<<"Q", 3>>}
        /\ B.gain[1].bits[2] = {<<"Q", 2>>}
        /\ B.gain[1].bits[5] = {}
        /\ B.gain[1].bits[10] = {<<"Q", 2>>, <<"Q", 4>>}
        /\ B.gain[1].bits[11] = {<<"Q", 4>>}
        /\ B.gain[1].bits[12] = {<<"Q", 2>>, <<"Q", 3>>, <<"Q", 4>>}
    BY <1>4, <1>5, <2>1, <2>2 DEF Channels
  <2> QED
    BY <2>2, <2>3, <2>4
<1>7. /\ B.dc[0] = {} /\ B.dc[1] = {}
      /\ Coupling(0) = {<<"Q", 7>>} /\ Coupling(1) = {<<"Q", 5>>}
      /\ Both = {<<"Q", 7>>, <<"Q", 5>>}
      /\ B.toggle = {<<"A", 0>>} /\ B.led.clear = Nop /\ B.led.green = Nop
      /\ B.led.red = Nop /\ Leds = {} /\ Lights = {<<"A", 7>>}
      /\ B.direct = {"Q"} \X (0 .. 7)
  <2>1. /\ Port("Q", 128) = {<<"Q", 7>>} /\ Port("Q", 32) = {<<"Q", 5>>}
        /\ Port("A", 1) = {<<"A", 0>>} /\ Port("A", 128) = {<<"A", 7>>}
    BY PortBits, Zenon
  <2>2. Port("Q", 255) = {"Q"} \X (0 .. 7)
    BY DEF Port, Weight
  <2> QED
    BY <1>2, <2>1, <2>2
    DEF Coupling, Both, Leds, Lights, NoLed, Drive, Nop, NoCoupling
<1>8. GainsRight
  <2>1. \A val \in {1, 2, 5, 10, 11, 12} : \A i \in 1 .. 3 :
          /\ Selector(0)[i] \in Gain(0)
          /\ Selector(0)[i] \in B.gain[0].bits[val]
               <=> (Selects(val) \div Weight[i]) % 2 = 1
    BY <1>6 DEF Selector, Selects, Weight
  <2>2. \A val \in {1, 2, 5, 10, 11, 12} : \A i \in 1 .. 3 :
          /\ Selector(1)[i] \in Gain(1)
          /\ Selector(1)[i] \in B.gain[1].bits[val]
               <=> (Selects(val) \div Weight[i]) % 2 = 1
    BY <1>6 DEF Selector, Selects, Weight
  <2> QED
    BY <1>5, <1>6, <2>1, <2>2 DEF GainsRight, Channels
<1>9. PinsApart
  <2>1. /\ Gain(0) \cap Gain(1) = {} /\ Coupling(0) \cap Coupling(1) = {}
        /\ Both \cap (Lights \cup B.toggle) = {} /\ Lights \cap B.toggle = {}
    BY <1>6, <1>7
  <2>2. /\ Gain(0) \cap (Both \cup Lights \cup B.toggle) = {}
        /\ Gain(1) \cap (Both \cup Lights \cup B.toggle) = {}
    BY <1>6, <1>7
  <2> QED
    BY <1>7, <2>1, <2>2 DEF PinsApart, Channels
<1>10. BitsWithin
  <2>1. \A m \in {B.led.clear, B.led.green, B.led.red, B.analog} :
          m.bits \subseteq m.mask
    BY <1>2, <1>7 DEF Drive, Nop
  <2>2. \A c \in Channels : \A val \in DOMAIN B.gain[c].bits :
          B.gain[c].bits[val] \subseteq Gain(c)
    BY <1>5 DEF Channels
  <2>3. B.toggle = {} \/ \E pin \in Pins : B.toggle = {pin}
    BY <1>7 DEF Pins
  <2> QED
    BY <2>1, <2>2, <2>3 DEF BitsWithin
<1>11. PinsWired
  BY <1>2, <1>6, <1>7 DEF PinsWired, OnPort, Pins, Channels
<1> QED
  BY <1>8, <1>9, <1>10, <1>11 DEF Wired

(* Two pins of port C and the relay; no second channel. *)
LEMMA WiredHantekPso2020 ==
  ASSUME variant = "hantek-pso2020" PROVE Wired
<1>1. /\ Port("C", 2) = {<<"C", 1>>} /\ Port("C", 4) = {<<"C", 2>>}
      /\ Port("C", 16) = {<<"C", 4>>} /\ Port("A", 64) = {<<"A", 6>>}
      /\ Port("A", 128) = {<<"A", 7>>} /\ Port("E", 4) = {<<"E", 2>>}
      /\ Port("E", 6) = {<<"E", 1>>, <<"E", 2>>}
  BY PortBits, Zenon
<1>2. B = HantekPso2020
  BY DEF B, Board
<1>3. /\ B.ports = <<"C">> /\ B.direct = Port("A", 128) /\ B.analog = Nop
      /\ B.led = [clear |-> Drive(Port("A", 64) \cup Port("E", 6),
                                  Port("A", 64) \cup Port("E", 4)),
                  green |-> Drive(Port("A", 64) \cup Port("E", 4),
                                  Port("E", 4)),
                  red   |-> Drive(Port("A", 64) \cup Port("E", 4),
                                  Port("A", 64))]
      /\ B.toggle = {} /\ B.dc = NoCoupling
      /\ B.ac = [c \in {0, 1} |-> IF c = 0 THEN Port("C", 16) ELSE {}]
  BY <1>2 DEF HantekPso2020
<1> DEFINE s1 == Port("C", 2)
           s0 == Port("C", 4)
           relay == Port("A", 128)
           table == [v \in {1, 2, 5, 10, 11, 12, 13, 14} |->
                      (IF v \in {1, 10, 11, 14} THEN s1 ELSE {})
                        \cup (IF v \in {2, 10, 12, 14} THEN s0 ELSE {})
                        \cup IF v < 11 THEN relay ELSE {}]
           nothing == [v \in 0 .. 255 |-> {}]
           gain0 == [mask |-> s0 \cup s1 \cup relay, bits |-> table]
           gain1 == [mask |-> {}, bits |-> nothing]
<1>4. B.gain = [c \in {0, 1} |-> IF c = 1 THEN gain1 ELSE gain0]
  BY <1>2 DEF HantekPso2020
<1>5. B.gain[0] = gain0 /\ B.gain[1] = gain1
  <2> HIDE DEF gain0, gain1
  <2> QED
    BY <1>4
<1>6. /\ DOMAIN nothing = 0 .. 255 /\ \A v \in 0 .. 255 : nothing[v] = {}
  OBVIOUS
<1> HIDE DEF s0, s1, relay
<1>7. /\ DOMAIN table = {1, 2, 5, 10, 11, 12, 13, 14}
       /\ table[1] = s1 \cup relay /\ table[2] = s0 \cup relay
       /\ table[5] = relay /\ table[10] = s1 \cup s0 \cup relay
       /\ table[11] = s1 /\ table[12] = s0 /\ table[13] = {}
       /\ table[14] = s1 \cup s0
  OBVIOUS
<1> HIDE DEF table, nothing
<1>8. Gain(0) = s0 \cup s1 \cup relay /\ Gain(1) = {}
  BY <1>5 DEF Gain
<1>9. /\ DOMAIN B.gain[1].bits = 0 .. 255
      /\ \A v \in 0 .. 255 : B.gain[1].bits[v] = {}
  BY <1>5, <1>6
<1>10. /\ DOMAIN B.gain[0].bits = {1, 2, 5, 10, 11, 12, 13, 14}
      /\ B.gain[0].bits[1] = s1 \cup relay
      /\ B.gain[0].bits[2] = s0 \cup relay
      /\ B.gain[0].bits[5] = relay
      /\ B.gain[0].bits[10] = s1 \cup s0 \cup relay
      /\ B.gain[0].bits[11] = s1
      /\ B.gain[0].bits[12] = s0
      /\ B.gain[0].bits[13] = {}
      /\ B.gain[0].bits[14] = s1 \cup s0
  BY <1>5, <1>7
<1>11. /\ Gain(0) = {<<"C", 2>>, <<"C", 1>>, <<"A", 7>>}
      /\ Gain(1) = {}
      /\ B.gain[0].bits[1] = {<<"C", 1>>, <<"A", 7>>}
      /\ B.gain[0].bits[2] = {<<"C", 2>>, <<"A", 7>>}
      /\ B.gain[0].bits[5] = {<<"A", 7>>}
      /\ B.gain[0].bits[10] = {<<"C", 2>>, <<"C", 1>>, <<"A", 7>>}
      /\ B.gain[0].bits[11] = {<<"C", 1>>}
      /\ B.gain[0].bits[12] = {<<"C", 2>>}
      /\ B.gain[0].bits[13] = {}
      /\ B.gain[0].bits[14] = {<<"C", 2>>, <<"C", 1>>}
  <2>1. s1 = {<<"C", 1>>} /\ s0 = {<<"C", 2>>} /\ relay = {<<"A", 7>>}
    BY <1>1 DEF s0, s1, relay
  <2> QED
    BY <1>8, <1>10, <2>1
<1>12. /\ B.dc[0] = {} /\ B.dc[1] = {}
      /\ Coupling(0) = {<<"C", 4>>} /\ Coupling(1) = {}
      /\ Both = {<<"C", 4>>} /\ B.toggle = {} /\ B.direct = {<<"A", 7>>}
      /\ B.led.clear = Drive({<<"A", 6>>, <<"E", 1>>, <<"E", 2>>},
                             {<<"A", 6>>, <<"E", 2>>})
      /\ B.led.green = Drive({<<"A", 6>>, <<"E", 2>>}, {<<"E", 2>>})
      /\ B.led.red = Drive({<<"A", 6>>, <<"E", 2>>}, {<<"A", 6>>})
      /\ Leds = {<<"A", 6>>, <<"E", 1>>, <<"E", 2>>} /\ Lights = Leds
  <2>1. /\ Port("A", 64) \cup Port("E", 6)
             = {<<"A", 6>>, <<"E", 1>>, <<"E", 2>>}
        /\ Port("A", 64) \cup Port("E", 4) = {<<"A", 6>>, <<"E", 2>>}
    BY <1>1
  <2>2. /\ B.led.clear = Drive({<<"A", 6>>, <<"E", 1>>, <<"E", 2>>},
                               {<<"A", 6>>, <<"E", 2>>})
        /\ B.led.green = Drive({<<"A", 6>>, <<"E", 2>>}, {<<"E", 2>>})
        /\ B.led.red = Drive({<<"A", 6>>, <<"E", 2>>}, {<<"A", 6>>})
    <3>1. /\ B.led.clear = Drive(Port("A", 64) \cup Port("E", 6),
                                 Port("A", 64) \cup Port("E", 4))
          /\ B.led.green = Drive(Port("A", 64) \cup Port("E", 4),
                                 Port("E", 4))
          /\ B.led.red = Drive(Port("A", 64) \cup Port("E", 4),
                               Port("A", 64))
      BY <1>3
    <3> QED
      BY <1>1, <2>1, <3>1, Zenon
  <2>3. /\ Leds = {<<"A", 6>>, <<"E", 1>>, <<"E", 2>>} /\ Lights = Leds
    BY <1>3, <2>2 DEF Leds, Lights, Drive, Nop
  <2> QED
    BY <1>1, <1>3, <2>2, <2>3 DEF Coupling, Both, NoCoupling
<1>13. GainsRight
  <2>1. \A val \in {1, 2, 5, 10, 11, 12, 13, 14} : \A i \in 1 .. 3 :
          /\ Selector(0)[i] \in Gain(0)
          /\ Selector(0)[i] \in B.gain[0].bits[val]
               <=> (Selects(val) \div Weight[i]) % 2 = 1
    BY <1>11 DEF Selector, Selects, Weight
  <2> QED
    BY <1>9, <1>10, <1>11, <2>1 DEF GainsRight, Channels
<1>14. PinsApart
  BY <1>3, <1>11, <1>12 DEF PinsApart, Channels, NoCoupling
<1>15. BitsWithin
  <2>1. \A m \in {B.led.clear, B.led.green, B.led.red, B.analog} :
          m.bits \subseteq m.mask
    BY <1>3, <1>12 DEF Drive, Nop
  <2>2. \A c \in Channels : \A val \in DOMAIN B.gain[c].bits :
          B.gain[c].bits[val] \subseteq Gain(c)
    BY <1>9, <1>10, <1>11 DEF Channels
  <2>3. B.toggle = {} \/ \E pin \in Pins : B.toggle = {pin}
    BY <1>12 DEF Pins
  <2> QED
    BY <2>1, <2>2, <2>3 DEF BitsWithin
<1>16. PinsWired
  BY <1>3, <1>11, <1>12 DEF PinsWired, OnPort, Pins, Channels
<1> QED
  BY <1>13, <1>14, <1>15, <1>16 DEF Wired

(* The second channel's pins are on two ports. *)
LEMMA WiredSainsmartDds120 ==
  ASSUME variant = "sainsmart-dds120" PROVE Wired
<1>1. /\ Port("A", 128) = {<<"A", 7>>} /\ Port("E", 4) = {<<"E", 2>>}
      /\ Port("E", 8) = {<<"E", 3>>} /\ Port("E", 1) = {<<"E", 0>>}
  BY PortBits, Zenon
<1>2. B = SainsmartDds120
  BY DEF B, Board
<1>3. /\ B.ports = <<"C", "E">> /\ B.direct = {} /\ B.led = NoLed
      /\ B.analog = Drive(Port("A", 128), Port("A", 128))
      /\ B.toggle = Port("E", 4) /\ B.ac = NoCoupling
      /\ B.dc = [c \in {0, 1} |-> Port("E", IF c = 0 THEN 8 ELSE 1)]
  BY <1>2 DEF SainsmartDds120
<1>4. B.gain = [c \in {0, 1} |->
     [mask |-> IF c = 0 THEN Port("C", 14)
                        ELSE Port("C", 48) \cup Port("E", 2),
      bits |-> [v \in {1, 2, 5, 10, 20} |->
        IF c = 0
        THEN Port("C", CASE v = 1 -> 2 [] v = 2 -> 6 [] v = 5 -> 0
                         [] v = 10 -> 4 [] v = 20 -> 8)
        ELSE Port("C", CASE v \in {1, 5} -> 0 [] v \in {2, 10} -> 16
                         [] v = 20 -> 32)
               \cup Port("E", IF v \in {1, 2} THEN 2 ELSE 0)]]]
  BY <1>2 DEF SainsmartDds120
<1>5. Gain(0) = Port("C", 14) /\ Gain(1) = Port("C", 48) \cup Port("E", 2)
  BY <1>4 DEF Gain
<1>6. /\ DOMAIN B.gain[0].bits = {1, 2, 5, 10, 20}
      /\ DOMAIN B.gain[1].bits = {1, 2, 5, 10, 20}
      /\ B.gain[0].bits[1] = Port("C", 2) /\ B.gain[0].bits[2] = Port("C", 6)
      /\ B.gain[0].bits[5] = Port("C", 0) /\ B.gain[0].bits[10] = Port("C", 4)
      /\ B.gain[0].bits[20] = Port("C", 8)
      /\ B.gain[1].bits[1] = Port("C", 0) \cup Port("E", 2)
      /\ B.gain[1].bits[2] = Port("C", 16) \cup Port("E", 2)
      /\ B.gain[1].bits[5] = Port("C", 0) \cup Port("E", 0)
      /\ B.gain[1].bits[10] = Port("C", 16) \cup Port("E", 0)
      /\ B.gain[1].bits[20] = Port("C", 32) \cup Port("E", 0)
  BY <1>4
<1>7. /\ Gain(0) = {<<"C", 1>>, <<"C", 2>>, <<"C", 3>>}
      /\ Gain(1) = {<<"E", 1>>, <<"C", 4>>, <<"C", 5>>}
      /\ B.gain[0].bits[1] = {<<"C", 1>>}
      /\ B.gain[0].bits[2] = {<<"C", 1>>, <<"C", 2>>}
      /\ B.gain[0].bits[5] = {}
      /\ B.gain[0].bits[10] = {<<"C", 2>>}
      /\ B.gain[0].bits[20] = {<<"C", 3>>}
      /\ B.gain[1].bits[1] = {<<"E", 1>>}
      /\ B.gain[1].bits[5] = {}
      /\ B.gain[1].bits[2] = {<<"C", 4>>, <<"E", 1>>}
      /\ B.gain[1].bits[10] = {<<"C", 4>>}
      /\ B.gain[1].bits[20] = {<<"C", 5>>}
  <2>1. /\ Port("C", 0) = {} /\ Port("C", 2) = {<<"C", 1>>}
        /\ Port("C", 4) = {<<"C", 2>>} /\ Port("C", 8) = {<<"C", 3>>}
        /\ Port("C", 6) = {<<"C", 1>>, <<"C", 2>>}
        /\ Port("C", 14) = {<<"C", 1>>, <<"C", 2>>, <<"C", 3>>}
    BY PortBits, Zenon
  <2>2. /\ Port("C", 16) = {<<"C", 4>>} /\ Port("C", 32) = {<<"C", 5>>}
        /\ Port("C", 48) = {<<"C", 4>>, <<"C", 5>>}
        /\ Port("E", 0) = {} /\ Port("E", 2) = {<<"E", 1>>}
    BY PortBits, Zenon
  <2> QED
    BY <1>5, <1>6, <2>1, <2>2
<1>8. /\ DOMAIN B.gain[0].bits = {1, 2, 5, 10, 20}
      /\ DOMAIN B.gain[1].bits = {1, 2, 5, 10, 20}
      /\ \A c \in Channels : \A v \in {1, 2, 5, 10, 20} :
           B.gain[c].bits[v] \subseteq Gain(c)
  BY <1>6, <1>7 DEF Channels
<1>9. /\ Coupling(0) = {<<"E", 3>>} /\ Coupling(1) = {<<"E", 0>>}
      /\ Both = {<<"E", 3>>, <<"E", 0>>} /\ B.ac[0] = {} /\ B.ac[1] = {}
      /\ B.toggle = {<<"E", 2>>} /\ B.led.clear = Nop /\ B.led.green = Nop
      /\ B.led.red = Nop /\ Leds = {} /\ Lights = {<<"A", 7>>}
  BY <1>1, <1>3 DEF Coupling, Both, Leds, Lights, NoLed, Drive, Nop, NoCoupling
<1>10. GainsRight
  BY <1>7, <1>8 DEF GainsRight, Channels, Selector, Selects, Weight
<1>11. PinsApart
  BY <1>3, <1>7, <1>9 DEF PinsApart, Channels, NoCoupling
<1>12. BitsWithin
  <2>1. \A m \in {B.led.clear, B.led.green, B.led.red, B.analog} :
          m.bits \subseteq m.mask
    BY <1>3, <1>9 DEF Drive, Nop
  <2>2. \A c \in Channels : \A val \in DOMAIN B.gain[c].bits :
          B.gain[c].bits[val] \subseteq Gain(c)
    BY <1>8 DEF Channels
  <2>3. B.toggle = {} \/ \E pin \in Pins : B.toggle = {pin}
    BY <1>9 DEF Pins
  <2> QED
    BY <2>1, <2>2, <2>3 DEF BitsWithin
<1>13. PinsWired
  BY <1>3, <1>7, <1>9 DEF PinsWired, OnPort, Pins, Channels
<1> QED
  BY <1>10, <1>11, <1>12, <1>13 DEF Wired

LEMMA Wiring == ASSUME variant \in Devices PROVE Wired
BY WiredHantek6022be,
   WiredHantek6022bl,
   WiredYixingdianziMdso,
   WiredInstrustarIsds205b,
   WiredHantekPso2020,
   WiredSainsmartDds120 DEF Devices

-----------------------------------------------------------------------------
(* However commands, refused values and timer interrupts follow and        *)
(* interrupt each other, on each of the six boards, for every set of       *)
(* values that a host sends, and whatever the pins were when the outputs   *)
(* were enabled: a channel for which the host has set gain or coupling has *)
(* what was accepted last, and timer 2 the last accepted period            *)
(* (set_voltage, set_coupling and set_calibration_pulse of src/hw/*/fw.c). *)
THEOREM BoardIsAsAsked == Spec => []BoardAsAsked
<1>1. Init => Inv
  <2> SUFFICES ASSUME Init PROVE Inv
    OBVIOUS
  <2>1. variant \in Devices
    BY RatesAssumption DEF Init, RatesInit
  <2> QED
    BY <2>1, Wiring, InvInit
<1>2. Inv => BoardAsAsked
  BY InvImplies
<1> QED
  BY <1>1, <1>2, InvStep, PTL DEF Spec

-----------------------------------------------------------------------------
(* The pins of a board's LED are all written when ledcounter expires.      *)
LEMMA LedPins == ASSUME variant \in Devices PROVE Leds = B.led.clear.mask
<1>1. CASE variant \in {"hantek-6022be", "hantek-6022bl"}
  <2>1. B.led = LedC
    BY <1>1 DEF B, Board, Hantek6022be, Hantek6022bl
  <2> QED
    BY <2>1 DEF Leds, LedC, Drive
<1>2. CASE variant = "hantek-pso2020"
  <2>1. Port("E", 4) \subseteq Port("E", 6)
    BY PortBits
  <2>2. B = HantekPso2020
    BY <1>2 DEF B, Board
  <2>3. /\ B.led.clear.mask = Port("A", 64) \cup Port("E", 6)
        /\ B.led.green.mask = Port("A", 64) \cup Port("E", 4)
        /\ B.led.red.mask = Port("A", 64) \cup Port("E", 4)
    BY <2>2 DEF HantekPso2020, Drive
  <2> QED
    BY <2>1, <2>3 DEF Leds
<1>3. CASE variant \in {"instrustar-isds205b", "sainsmart-dds120",
                        "yixingdianzi-mdso"}
  <2>1. B.led = NoLed
    BY <1>3 DEF B, Board, InstrustarIsds205b, SainsmartDds120,
                YixingdianziMdso
  <2> QED
    BY <2>1 DEF Leds, NoLed, Nop, Drive
<1> QED
  BY <1>1, <1>2, <1>3 DEF Devices

(* An instruction, or eight turns of the shift register, per pin.          *)
LEMMA RelayKeeps ==
  ASSUME Inv, WriteRelay, NEW pin \in Pins \ Mask
  PROVE  (pin \in pins' <=> pin \in pins) \/ FirstShown(pin)
<1> DEFINE mask == Mask \cap B.direct
           bits == Bits \cap B.direct
           state == (vol_state \ Outputs(mask)) \cup Outputs(bits)
<1>1. bits \subseteq mask /\ pin \notin mask
  BY RelayPins DEF Inv
<1>2. CASE Outputs(mask) = {}
  <2>1. pins' = (pins \ mask) \cup bits
    BY <1>2 DEF WriteRelay, WriteDirect, Do, Drive
  <2> QED
    BY <1>1, <2>1
<1>3. CASE Outputs(mask) # {}
  <2>1. state \in SUBSET (0 .. 7)
    BY DEF Inv, PinsInv, Outputs
  <2>2. Drive74hc595(Outputs(pins), state) = state
    <3>1. Outputs(pins) \in SUBSET (0 .. 7)
      BY DEF Outputs
    <3> QED
      BY <2>1, <3>1, RegisterShows
  <2>3. pins' = (pins \ OnPort("Q")) \cup ({"Q"} \X state)
    BY <1>3, <2>2 DEF WriteRelay, WriteDirect
  <2>4. CASE pin \notin OnPort("Q")
    <3>1. {"Q"} \X state \subseteq OnPort("Q")
      BY <2>1 DEF OnPort, Pins
    <3> QED
      BY <2>3, <2>4, <3>1
  <2>5. CASE pin \in OnPort("Q")
    <3>1. PICK b \in 0 .. 7 : pin = <<"Q", b>>
      BY <2>5, OnQ
    <3>2. b \notin Outputs(mask) /\ b \notin Outputs(bits)
      BY <1>1, <3>1 DEF Outputs
    <3>3. pin \in pins' <=> b \in vol_state
      BY <2>3, <2>5, <3>1, <3>2
    <3>4. b \in Outputs(pins) <=> pin \in pins
      BY <3>1 DEF Outputs
    <3> QED
      BY <2>5, <3>3, <3>4 DEF FirstShown, WriteRelay
  <2> QED
    BY <2>4, <2>5
<1> QED
  BY <1>2, <1>3

LEMMA OnlyRequestedStep ==
  ASSUME Inv, [Next]_vars, main' # main, main \in {"direct", "write"},
         NEW pin \in Pins \ Mask
  PROVE  (pin \in pins' <=> pin \in pins) \/ TickUndone(pin) \/ FirstShown(pin)
<1>1. CASE WritePort
  <2>1. /\ pins' \ (Mask \cup B.toggle \cup Leds)
             = pins \ (Mask \cup B.toggle \cup Leds)
        /\ pins' \ OnPort(Head(todo)) = pins \ OnPort(Head(todo))
    BY <1>1, PortPins DEF Inv
  <2>2. CASE pin \in OnPort(Head(todo)) /\ pin \in B.toggle \cup Leds
    <3>1. pin[1] = Head(todo)
      BY <2>2 DEF OnPort
    <3>2. pin \in TickPins
      BY <2>2, LedPins DEF Inv, TickPins
    <3> QED
      BY <1>1, <3>1, <3>2 DEF TickUndone, WritePort
  <2>3. CASE ~(pin \in OnPort(Head(todo)) /\ pin \in B.toggle \cup Leds)
    BY <2>1, <2>3
  <2> QED
    BY <2>2, <2>3
<1> QED
  BY <1>1, RelayKeeps, BetweenCalls
  DEF Next, Main, ReadPort, SetPulseHigh, Timer2Isr, Engine, vars, boardVars

(* On each of the six boards a gain command with any value, interrupted    *)
(* anywhere, changes no pin but those of the channel it names              *)
(* (set_voltage of src/hw/*/fw.c), with the two exceptions that the code   *)
(* makes: a tick of timer2_isr on the port that is just written back may   *)
(* be undone, and the first command that clocks the shift register shows   *)
(* all of vol_state.                                                       *)
THEOREM OnlyTheRequested == Spec => OnlyRequestedPins
<1>1. Init => Inv
  <2> SUFFICES ASSUME Init PROVE Inv
    OBVIOUS
  <2>1. variant \in Devices
    BY RatesAssumption DEF Init, RatesInit
  <2> QED
    BY <2>1, Wiring, InvInit
<1>2. Inv /\ [Next]_vars =>
        [main' # main /\ main \in {"direct", "write"} =>
           \A p \in Pins \ Mask :
             (p \in pins' <=> p \in pins) \/ TickUndone(p)
               \/ FirstShown(p)]_vars
  BY OnlyRequestedStep
<1> QED
  BY <1>1, <1>2, InvStep, PTL DEF Spec, OnlyRequestedPins
=============================================================================
