----------------------------- MODULE ScopeRates -----------------------------
(***************************************************************************)
(* The waveform programs of the oscilloscope firmware: the sample-rate     *)
(* tables of module Boards, set_samplerate of src/include/scope.inc that   *)
(* writes a row of them into WAVEDATA, and the engine that runs it.        *)
(* Module ScopeBoard puts them to work.                                    *)
(***************************************************************************)
EXTENDS GpifProgram, Boards

CONSTANTS
  Variants,     \* the device variants looked at
  RateBytes,    \* the values the host sends with vendor command 0xe2
  Rdy0          \* the levels the RDY0 pin may have

ASSUME RatesAssumption ==
  /\ Variants \subseteq Devices
  /\ RateBytes \subseteq 0 .. 255
  /\ Rdy0 \subseteq BOOLEAN

VARIABLES
  variant,   \* the device
  row        \* the row of the table that was written last

rateVars == <<wave, engineVars, variant, row>>

-----------------------------------------------------------------------------
Rows(v) == Board(v).rates
AllRows == UNION {Rows(v) : v \in Variants}

(* The three states that set_samplerate writes: opc0 and out0 make the     *)
(* first one, opc1 the second; the third is the byte 1 with DP=1, whose    *)
(* branch goes to S0 if RDY0 is high and to S1 otherwise.                  *)
Program(r) ==
  <<IF r.kind = "continuous" THEN DecisionState(0, 0, TRUE, "tristate")
    ELSE WaitState(r.wait0, TRUE, "low"),
    IF r.kind = "double" THEN DecisionState(0, 0, FALSE, "high")
    ELSE WaitState(r.wait1, FALSE, "high"),
    DecisionState(0, 1, FALSE, "high")>>

-----------------------------------------------------------------------------
RatesInit ==
  /\ EngineInit
  /\ variant \in Variants
  /\ row \in {r \in Rows(variant) : r.rate = 1}
  /\ wave = Overwrite(Blank, Program(row))

(* stop_sampling.  The counters of the engine begin again with a trigger.  *)
StopSampling == EngineAbort /\ UNCHANGED <<variant, row, wave>>

(* Vendor command 0xe2: stop_sampling, then set_samplerate, which leaves   *)
(* the program alone if the byte is not in the table.                      *)
SetSamplerate(rate) ==
  /\ \E r \in Rows(variant) :
       /\ r.rate = rate
       /\ row' = r
       /\ wave' = Overwrite(Blank, Program(r))
  /\ EngineAbort
  /\ UNCHANGED variant

UnknownSamplerate(rate) ==
  /\ \A r \in Rows(variant) : r.rate # rate
  /\ StopSampling

(* Vendor command 0xe3: stop_sampling, then start_sampling. *)
Trigger == EngineTrigger /\ UNCHANGED <<wave, variant, row>>

Wait ==
  /\ pos # Idle
  /\ ~Current.dp
  /\ Execute(Current, pos + 1)
  /\ UNCHANGED <<wave, variant, row>>

(* The logic function of every decision point is RDY0 AND RDY0. *)
Decide(rdy) ==
  /\ pos # Idle
  /\ Current.dp
  /\ Execute(Current, Branch(Current, rdy))
  /\ UNCHANGED <<wave, variant, row>>

-----------------------------------------------------------------------------
(* What a rate byte stands for, in kHz: MHz, but 10, 20 and 50 are         *)
(* multiples of 10kHz, and 11 is the 10MHz that 10 cannot express.         *)
NominalKHz(rate) ==
  CASE rate \in {10, 20, 50} -> 10 * rate
    [] rate = 11 -> 10000
    [] OTHER -> 1000 * rate

(* The converter is clocked exactly once per sample by the CTL line, or    *)
(* not at all where IFCLK does it (scope.inc:203-216).                     *)
OneAdcClockPerSample ==
  AtSample => rises = (IF row.kind = "continuous" THEN 0 ELSE 1)

(* RATE.  Whatever rate was selected before, and whatever rate was refused *)
(* in between, the engine samples at exactly the rate whose byte was       *)
(* accepted last, a converted value each time: every row's waits, branch,  *)
(* levels and clock source agree with its rate byte (scope.inc:203-214,    *)
(* "wait 24 ... wait 23 ... jump 0").                                      *)
SamplesAtNominalRate ==
  /\ AtSample => clocks * NominalKHz(row.rate) = 1000 * row.mhz
  /\ OneAdcClockPerSample
=============================================================================
