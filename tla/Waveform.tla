------------------------------ MODULE Waveform ------------------------------
(***************************************************************************)
(* The waveform programs of the logic analyzer: what                       *)
(* gpif_acquisition_prepare of src/gpif-acquisition.c makes of the two     *)
(* bytes of sample delay and of the CTL2 flag of a START command, and what *)
(* the engine does with it.  Commands follow each other, so that the       *)
(* program of a shorter one lies over the tail of a longer one.            *)
(***************************************************************************)
EXTENDS GpifProgram

CONSTANTS DelayHigh, DelayLow    \* values of sample_delay_h, sample_delay_l

ASSUME DelayAssumption ==
  /\ DelayHigh \subseteq 0 .. 255
  /\ DelayLow \subseteq 0 .. 255

Commands == [h : DelayHigh, l : DelayLow, ctl2 : BOOLEAN]
NoCommand == [h |-> 0, l |-> 0, ctl2 |-> FALSE]

VARIABLE cmd        \* the command the program was made for
VARIABLE prepared   \* there has been one

vars == <<wave, engineVars, cmd, prepared>>

-----------------------------------------------------------------------------
(* gpif_make_delay_state, gpif_make_data_dp_state *)
DelayState(delay, output) == WaitState(delay, FALSE, output)
DataDpState == DecisionState(Idle, 0, TRUE, "low")

\* Slip: a delay of one more coarse state is accepted.
Accepted_toolong(c) == c.h < 7

(* Delays that do not fit are refused. *)
Accepted(c) == c.h < 6

(* sample_delay_h states of 256 clocks each ... *)
CoarseStates(c, output) == [i \in 1 .. c.h |-> DelayState(0, output)]

\* Slip: a delay that ends on a coarse state gets a fine state too.
PlainDelay_always(c) ==
  Append(CoarseStates(c, "low"), DelayState(c.l, "low"))

(* ... and one for sample_delay_l, unless it is 0. *)
PlainDelay(c) ==
  IF c.l = 0 THEN CoarseStates(c, "low")
  ELSE Append(CoarseStates(c, "low"), DelayState(c.l, "low"))

\* Slip: with a coarse delay the line is never pulsed.
PulsedDelay_flat(c) ==
  IF c.h # 0
  THEN Append(CoarseStates(c, "low"), DelayState(c.l, "low"))
  ELSE <<DelayState(c.l \div 2, "high"),
         DelayState(c.l - c.l \div 2, "low")>>

\* Slip: the halves of the pulse add up to more than a length field holds.
PulsedDelay_sum(c) ==
  IF c.h # 0
  THEN Append(CoarseStates(c, "high"), DelayState(c.l, "low"))
  ELSE <<DelayState(c.l \div 2, "high"),
         DelayState(c.l + c.l \div 2, "low")>>

(* With CMD_START_FLAGS_CLK_CTL2 the delay is a pulse on CTL1 and CTL2.    *)
PulsedDelay(c) ==
  IF c.h # 0
  THEN Append(CoarseStates(c, "high"), DelayState(c.l, "low"))
  ELSE <<DelayState(c.l \div 2, "high"),
         DelayState(c.l - c.l \div 2, "low")>>

Program(c) ==
  Append(IF c.ctl2 THEN PulsedDelay(c) ELSE PlainDelay(c), DataDpState)

-----------------------------------------------------------------------------
TypeOK ==
  /\ EngineTypeOK
  /\ cmd \in Commands \cup {NoCommand}
  /\ prepared \in BOOLEAN

(* gpif_reset_waveforms *)
Init ==
  /\ EngineInit
  /\ wave = Blank
  /\ cmd = NoCommand
  /\ prepared = FALSE

(* Only an idle engine is reprogrammed. *)
Prepare(c) ==
  /\ pos = Idle
  /\ Accepted(c)
  /\ wave' = Overwrite(wave, Program(c))
  /\ cmd' = c
  /\ prepared' = TRUE
  /\ UNCHANGED engineVars

Trigger ==
  /\ pos = Idle
  /\ prepared
  /\ EngineTrigger
  /\ prepared' = FALSE
  /\ UNCHANGED <<wave, cmd>>

Wait ==
  /\ pos # Idle
  /\ ~Current.dp
  /\ Execute(Current, pos + 1)
  /\ UNCHANGED <<wave, cmd, prepared>>

(* The logic function of the decision point is the full flag of the FIFO.  *)
Decide(full) ==
  /\ pos # Idle
  /\ Current.dp
  /\ Execute(Current, Branch(Current, full))
  /\ UNCHANGED <<wave, cmd, prepared>>

Next ==
  \/ \E c \in Commands : Prepare(c)
  \/ Trigger
  \/ Wait
  \/ \E full \in BOOLEAN : Decide(full)

Spec == Init /\ [][Next]_vars

-----------------------------------------------------------------------------
(* The commands that divide their delay into pulses of at least a clock.   *)
Divisible(c) == c.ctl2 => c.l # 0 /\ (c.h = 0 => c.l # 1)

RequestedPeriod(c) == 256 * c.h + c.l + 1

(* PERIOD.  Between two samples lie exactly the clocks that the command    *)
(* asked for, and the one of the decision point: splitting the delay over  *)
(* up to six 8-bit length fields, for which 0 means 256, loses and adds    *)
(* nothing (gpif-acquisition.c:214-235).                                   *)
PeriodAsRequested ==
  AtSample /\ Divisible(cmd) => clocks = RequestedPeriod(cmd)

(* TAIL.  The engine runs the program of the last command and nothing      *)
(* else: what is left of a longer program behind it is never entered, and  *)
(* only the decision point leads into the unprogrammable last state.       *)
OwnProgram ==
  pos # Idle => /\ pos < Len(Program(cmd))
                /\ Current = Program(cmd)[pos + 1]
                /\ Current.dp \/ pos + 1 # Idle

(* PULSE.  The CTL lines pulse exactly once per sample if the command asks *)
(* for that, and not at all otherwise (gpif-acquisition.c:217).            *)
OnePulsePerSample == AtSample => rises = (IF cmd.ctl2 THEN 1 ELSE 0)
=============================================================================
