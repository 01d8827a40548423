---------------------------- MODULE GpifProgram ----------------------------
(***************************************************************************)
(* How the GPIF runs the waveform program that the firmware wrote into     *)
(* WAVEDATA: what the hardware promises, shared by the two firmwares.      *)
(*                                                                         *)
(* A program is a sequence of states.  A state either waits for a number   *)
(* of interface clocks and falls through to the next one, or (dp) decides  *)
(* in one clock where to continue.  A state with the data flag samples the *)
(* bus when it is entered.                                                 *)
(***************************************************************************)
EXTENDS Naturals, Sequences

VARIABLES
  wave,     \* WAVEDATA, 8 states; the last one is IDLE and not programmable
  pos,      \* the state the engine is in, Idle when it does not run
  sampled,  \* the engine sampled since it was triggered
  clocks,   \* interface clocks since the last sample, or since the trigger
  level,    \* the CTL line
  rises     \* rising edges of CTL since the last sample, or since the trigger

engineVars == <<pos, sampled, clocks, level, rises>>

WaveStates == 8
Idle == WaveStates - 1

States ==
  [dp : BOOLEAN, data : BOOLEAN, ctl : {"low", "high", "tristate"},
   len : 0 .. 255, on0 : 0 .. Idle, on1 : 0 .. Idle]

(* LENGTH, OPCODE and OUTPUT of a state that waits. *)
WaitState(len, data, ctl) ==
  [dp |-> FALSE, data |-> data, ctl |-> ctl, len |-> len,
   on0 |-> 0, on1 |-> 0]

(* BRANCH, OPCODE and OUTPUT of a decision point. *)
DecisionState(on1, on0, data, ctl) ==
  [dp |-> TRUE, data |-> data, ctl |-> ctl, len |-> 0,
   on0 |-> on0, on1 |-> on1]

Empty == WaitState(0, FALSE, "low")

Blank == [i \in 1 .. WaveStates |-> Empty]

(* A program is written over the one before it, from state 0 on. *)
Overwrite(old, program) ==
  [i \in 1 .. WaveStates |->
     IF i <= Len(program) THEN program[i] ELSE old[i]]

Current == wave[pos + 1]

(* The length field has 8 bits: 0 stands for 256 clocks.                   *)
Duration(s) == IF s.dp THEN 1 ELSE IF s.len = 0 THEN 256 ELSE s.len

EngineTypeOK ==
  /\ wave \in [1 .. WaveStates -> States]
  /\ pos \in 0 .. Idle
  /\ sampled \in BOOLEAN
  /\ clocks \in Nat
  /\ level \in {"low", "high", "tristate"}
  /\ rises \in Nat

EngineInit ==
  /\ pos = Idle
  /\ sampled = FALSE
  /\ clocks = 0
  /\ level = "low"
  /\ rises = 0

EngineAt(state) ==
  /\ pos' = state
  /\ sampled' = FALSE
  /\ clocks' = 0
  /\ level' = "low"
  /\ rises' = 0

EngineTrigger == EngineAt(0)
EngineAbort == EngineAt(Idle)

(* The engine enters state s, stays for its duration and goes on to `next`. *)
Execute(s, next) ==
  LET edge == IF level = "low" /\ s.ctl = "high" THEN 1 ELSE 0
  IN  /\ pos' = next
      /\ level' = s.ctl
      /\ sampled' = (sampled \/ s.data)
      /\ clocks' = (IF s.data THEN 0 ELSE clocks) + Duration(s)
      /\ rises' = (IF s.data THEN 0 ELSE rises) + edge

(* Where a decision point goes when its logic function yields `flag`.      *)
Branch(s, flag) == IF flag THEN s.on1 ELSE s.on0

AtSample == pos # Idle /\ Current.data /\ sampled
=============================================================================
