--------------------------- MODULE Waveform_proofs ---------------------------
(***************************************************************************)
(* Proofs about the waveform programs, for every sequence of commands with *)
(* any delay bytes.                                                        *)
(***************************************************************************)
EXTENDS Waveform, TLAPS

-----------------------------------------------------------------------------
(* What a program looks like, state by state. *)

(* A short pulse: the two halves of a delay without coarse states. *)
Halved(c) == c.ctl2 /\ c.h = 0

(* The position of the decision point. *)
Last(c) == IF Halved(c) THEN 2
           ELSE IF ~c.ctl2 /\ c.l = 0 THEN c.h ELSE c.h + 1

(* The length field of the state at position p. *)
Field(c, p) ==
  IF Halved(c) THEN (IF p = 0 THEN c.l \div 2 ELSE c.l - c.l \div 2)
  ELSE IF p < c.h THEN 0 ELSE c.l

(* The CTL line in the state at position p. *)
Pulse(c, p) ==
  IF c.ctl2 /\ (p < c.h \/ (c.h = 0 /\ p = 0)) THEN "high" ELSE "low"

LEMMA CommandFields ==
  ASSUME NEW c \in Commands
  PROVE  /\ c.h \in Nat /\ c.h <= 255
         /\ c.l \in Nat /\ c.l <= 255
         /\ c.ctl2 \in BOOLEAN
<1>1. c.h \in DelayHigh /\ c.l \in DelayLow /\ c.ctl2 \in BOOLEAN
  BY DEF Commands
<1>2. c.h \in 0 .. 255 /\ c.l \in 0 .. 255
  BY <1>1, DelayAssumption
<1>3. QED
  BY <1>1, <1>2

LEMMA Coarse ==
  ASSUME NEW c \in Commands, NEW o \in {"low", "high"}
  PROVE  /\ CoarseStates(c, o) \in Seq(States)
         /\ Len(CoarseStates(c, o)) = c.h
         /\ \A i \in 1 .. c.h : CoarseStates(c, o)[i] = DelayState(0, o)
<1>1. DelayState(0, o) \in States
  BY DEF DelayState, WaitState, States, Idle, WaveStates
<1>2. CoarseStates(c, o) \in [1 .. c.h -> States]
  BY <1>1 DEF CoarseStates
<1>3. QED
  BY <1>2, CommandFields DEF CoarseStates

(* The delay, and behind it the decision point. *)
Delay(c) == IF c.ctl2 THEN PulsedDelay(c) ELSE PlainDelay(c)

LEMMA DelayStates ==
  ASSUME NEW c \in Commands
  PROVE  /\ Delay(c) \in Seq(States)
         /\ Len(Delay(c)) = Last(c)
         /\ \A p \in 0 .. Last(c) - 1 :
              Delay(c)[p + 1] = WaitState(Field(c, p), FALSE, Pulse(c, p))
<1> USE CommandFields
<1>1. /\ DelayState(c.l, "low") \in States
      /\ DelayState(c.l \div 2, "high") \in States
      /\ DelayState(c.l - c.l \div 2, "low") \in States
  <2>1. /\ c.l \in 0 .. 255
        /\ c.l \div 2 \in 0 .. 255
        /\ c.l - c.l \div 2 \in 0 .. 255
    OBVIOUS
  <2>2. QED
    BY <2>1 DEF DelayState, WaitState, States, Idle, WaveStates
<1>2. CASE Halved(c)
  <2>1. Delay(c) = <<DelayState(c.l \div 2, "high"),
                     DelayState(c.l - c.l \div 2, "low")>>
    BY <1>2 DEF Delay, PulsedDelay, Halved
  <2>2. Last(c) = 2
    BY <1>2 DEF Last
  <2>3. \A p \in 0 .. 1 : p = 0 \/ p = 1
    OBVIOUS
  <2>4. /\ Field(c, 0) = c.l \div 2 /\ Field(c, 1) = c.l - c.l \div 2
        /\ Pulse(c, 0) = "high" /\ Pulse(c, 1) = "low"
    BY <1>2 DEF Field, Pulse, Halved
  <2>5. /\ Delay(c) \in Seq(States) /\ Len(Delay(c)) = 2
        /\ Delay(c)[1] = DelayState(c.l \div 2, "high")
        /\ Delay(c)[2] = DelayState(c.l - c.l \div 2, "low")
    BY <1>1, <2>1
  <2>6. /\ Delay(c)[1] = WaitState(Field(c, 0), FALSE, Pulse(c, 0))
        /\ Delay(c)[2] = WaitState(Field(c, 1), FALSE, Pulse(c, 1))
    BY <2>4, <2>5 DEF DelayState
  <2>7. ASSUME NEW p \in 0 .. Last(c) - 1
        PROVE  Delay(c)[p + 1] = WaitState(Field(c, p), FALSE, Pulse(c, p))
    <3>1. CASE p = 0
      <4>1. p + 1 = 1
        BY <3>1
      <4>2. QED
        BY <3>1, <4>1, <2>6
    <3>2. CASE p = 1
      <4>1. p + 1 = 2
        BY <3>2
      <4>2. QED
        BY <3>2, <4>1, <2>6
    <3>3. p = 0 \/ p = 1
      BY <2>2, <2>3
    <3>4. QED
      BY <3>1, <3>2, <3>3
  <2>8. QED
    BY <2>2, <2>5, <2>7
<1>3. CASE ~Halved(c) /\ Last(c) = c.h
  <2>1. ~c.ctl2 /\ c.l = 0
    BY <1>3 DEF Last
  <2>2. Delay(c) = CoarseStates(c, "low")
    BY <2>1 DEF Delay, PlainDelay
  <2>3. \A p \in 0 .. c.h - 1 : p + 1 \in 1 .. c.h
    OBVIOUS
  <2>4. \A p \in 0 .. c.h - 1 : Field(c, p) = 0 /\ Pulse(c, p) = "low"
    BY <1>3, <2>1 DEF Field, Pulse
  <2>5. QED
    BY <1>3, <2>2, <2>3, <2>4, Coarse DEF DelayState
<1>4. CASE ~Halved(c) /\ Last(c) # c.h
  <2> DEFINE o == IF c.ctl2 THEN "high" ELSE "low"
  <2>1. Last(c) = c.h + 1 /\ (~c.ctl2 => c.l # 0) /\ (c.ctl2 => c.h # 0)
    BY <1>4 DEF Last, Halved
  <2>2. Delay(c) = Append(CoarseStates(c, o), DelayState(c.l, "low"))
    BY <2>1 DEF Delay, PulsedDelay, PlainDelay
  <2>3. /\ CoarseStates(c, o) \in Seq(States)
        /\ Len(CoarseStates(c, o)) = c.h
        /\ \A i \in 1 .. c.h : CoarseStates(c, o)[i] = DelayState(0, o)
    BY Coarse
  <2>4. /\ Delay(c) \in Seq(States)
        /\ Len(Delay(c)) = c.h + 1
        /\ \A i \in 1 .. c.h : Delay(c)[i] = DelayState(0, o)
        /\ Delay(c)[c.h + 1] = DelayState(c.l, "low")
    BY <2>2, <2>3, <1>1
  <2>5. \A p \in 0 .. c.h : p = c.h \/ (p < c.h /\ p + 1 \in 1 .. c.h)
    OBVIOUS
  <2>6. ASSUME NEW p \in 0 .. c.h, p < c.h
        PROVE  Field(c, p) = 0 /\ Pulse(c, p) = o
    BY <1>4, <2>6 DEF Field, Pulse
  <2>7. Field(c, c.h) = c.l /\ Pulse(c, c.h) = "low"
    BY <1>4, <2>1 DEF Field, Pulse, Halved
  <2>8. ASSUME NEW p \in 0 .. c.h
        PROVE  Delay(c)[p + 1] = WaitState(Field(c, p), FALSE, Pulse(c, p))
    <3>1. CASE p = c.h
      BY <3>1, <2>4, <2>7 DEF DelayState
    <3>2. CASE p # c.h
      BY <3>2, <2>4, <2>5, <2>6 DEF DelayState
    <3>3. QED
      BY <3>1, <3>2
  <2>9. 0 .. Last(c) - 1 = 0 .. c.h
    <3>1. Last(c) - 1 = c.h
      BY <2>1
    <3>2. QED
      BY <3>1
  <2>10. QED
    BY <2>1, <2>4, <2>8, <2>9
<1>5. QED
  BY <1>2, <1>3, <1>4

LEMMA ProgramStates ==
  ASSUME NEW c \in Commands
  PROVE  /\ Last(c) \in Nat
         /\ Program(c) \in Seq(States)
         /\ Len(Program(c)) = Last(c) + 1
         /\ \A p \in 0 .. Last(c) - 1 :
              Program(c)[p + 1] = WaitState(Field(c, p), FALSE, Pulse(c, p))
         /\ Program(c)[Last(c) + 1] = DataDpState
<1>1. Program(c) = Append(Delay(c), DataDpState)
  BY DEF Program, Delay
<1>2. DataDpState \in States
  BY DEF DataDpState, DecisionState, States, Idle, WaveStates
<1>3. Last(c) \in Nat
  BY CommandFields DEF Last
<1>4. /\ Delay(c) \in Seq(States) /\ Len(Delay(c)) = Last(c)
      /\ \A p \in 0 .. Last(c) - 1 :
           Delay(c)[p + 1] = WaitState(Field(c, p), FALSE, Pulse(c, p))
  BY DelayStates
<1>5. /\ Program(c) \in Seq(States) /\ Len(Program(c)) = Last(c) + 1
      /\ \A i \in 1 .. Last(c) : Program(c)[i] = Delay(c)[i]
      /\ Program(c)[Last(c) + 1] = DataDpState
  BY <1>1, <1>2, <1>3, <1>4
<1>6. \A p \in 0 .. Last(c) - 1 : p + 1 \in 1 .. Last(c)
  BY <1>3
<1>7. QED
  BY <1>3, <1>4, <1>5, <1>6

(* FITS.  Every accepted program leaves the last state free: six coarse    *)
(* states, a fine one and the decision point would not                     *)
(* (gpif-acquisition.c:211).                                               *)
THEOREM ProgramFits ==
  ASSUME NEW c \in Commands, Accepted(c)
  PROVE  Len(Program(c)) <= Idle
<1>1. c.h \in Nat /\ c.h < 6
  BY CommandFields DEF Accepted
<1>2. Last(c) <= 6
  BY <1>1 DEF Last
<1>3. Len(Program(c)) = Last(c) + 1 /\ Last(c) \in Nat
  BY ProgramStates
<1>4. QED
  BY <1>2, <1>3 DEF Idle, WaveStates

-----------------------------------------------------------------------------
(* The engine's way through a program, in closed form. *)

(* Interface clocks that the states in front of position p take. *)
Elapsed(c, p) ==
  IF Halved(c) THEN (IF p = 0 THEN 0 ELSE IF p = 1 THEN c.l \div 2 ELSE c.l)
  ELSE IF p <= c.h THEN 256 * p ELSE 256 * c.h + c.l

(* The CTL line before the state at position p, and its edges so far. *)
LevelAt(c, p) == IF p = 0 THEN "low" ELSE Pulse(c, p - 1)
RisesAt(c, p) == IF c.ctl2 /\ p # 0 THEN 1 ELSE 0

Loaded(c) ==
  /\ c \in Commands
  /\ Accepted(c)
  /\ \A p \in 0 .. Last(c) : wave[p + 1] = Program(c)[p + 1]

WaveInv ==
  /\ TypeOK
  /\ prepared \/ pos # Idle => Loaded(cmd)
  /\ pos # Idle =>
       /\ pos <= Last(cmd)
       /\ level = LevelAt(cmd, pos)
       /\ rises = RisesAt(cmd, pos)
       /\ Divisible(cmd) =>
            clocks = (IF sampled THEN 1 ELSE 0) + Elapsed(cmd, pos)

(* Every state adds its duration, and all of them the requested delay. *)
LEMMA Elapses ==
  ASSUME NEW c \in Commands, Divisible(c), NEW p \in Nat, p < Last(c)
  PROVE  Elapsed(c, p + 1) =
           Elapsed(c, p) + Duration(WaitState(Field(c, p), FALSE, Pulse(c, p)))
<1> DEFINE f == Field(c, p)
<1> USE CommandFields
<1>1. Duration(WaitState(f, FALSE, Pulse(c, p))) = IF f = 0 THEN 256 ELSE f
  BY DEF Duration, WaitState
<1> SUFFICES Elapsed(c, p + 1) = Elapsed(c, p) + (IF f = 0 THEN 256 ELSE f)
  BY <1>1
<1>2. CASE Halved(c)
  <2>1. c.l >= 2 /\ (p = 0 \/ p = 1)
    BY <1>2 DEF Halved, Divisible, Last
  <2>2. c.l \div 2 \in Nat /\ c.l \div 2 # 0 /\ c.l - c.l \div 2 # 0
    BY <2>1
  <2>3. CASE p = 0
    <3>1. f = c.l \div 2
      BY <1>2, <2>3 DEF Field
    <3>2. Elapsed(c, p) = 0 /\ Elapsed(c, p + 1) = c.l \div 2
      BY <1>2, <2>3 DEF Elapsed
    <3>3. QED
      BY <2>2, <3>1, <3>2
  <2>4. CASE p = 1
    <3>1. f = c.l - c.l \div 2
      BY <1>2, <2>4 DEF Field
    <3>2. Elapsed(c, p) = c.l \div 2 /\ Elapsed(c, p + 1) = c.l
      BY <1>2, <2>4 DEF Elapsed
    <3>3. QED
      BY <2>2, <3>1, <3>2
  <2>5. QED
    BY <2>1, <2>3, <2>4
<1>3. CASE ~Halved(c)
  <2>1. CASE p < c.h
    <3>1. f = 0
      BY <1>3, <2>1 DEF Field
    <3>2. Elapsed(c, p) = 256 * p /\ Elapsed(c, p + 1) = 256 * (p + 1)
      BY <1>3, <2>1 DEF Elapsed
    <3>3. QED
      BY <3>1, <3>2
  <2>2. CASE ~(p < c.h)
    <3>1. p = c.h /\ c.l # 0
      BY <1>3, <2>2 DEF Last, Divisible
    <3>2. f = c.l
      BY <1>3, <3>1 DEF Field
    <3>3. /\ Elapsed(c, p) = 256 * c.h
          /\ Elapsed(c, p + 1) = 256 * c.h + c.l
      BY <1>3, <3>1 DEF Elapsed
    <3>4. QED
      BY <3>1, <3>2, <3>3
  <2>3. QED
    BY <2>1, <2>2
<1>4. QED
  BY <1>2, <1>3

LEMMA ElapsedAtEnds ==
  ASSUME NEW c \in Commands, Divisible(c)
  PROVE  Elapsed(c, 0) = 0 /\ Elapsed(c, Last(c)) = 256 * c.h + c.l
<1> USE CommandFields
<1>1. CASE Halved(c)
  BY <1>1 DEF Elapsed, Last, Halved
<1>2. CASE ~Halved(c)
  BY <1>2 DEF Elapsed, Last, Divisible
<1>3. QED
  BY <1>1, <1>2

(* A pulse begins with the first state or never. *)
LEMMA Edges ==
  ASSUME NEW c \in Commands, NEW p \in Nat
  PROVE  /\ RisesAt(c, p + 1) = RisesAt(c, p) +
              (IF LevelAt(c, p) = "low" /\ Pulse(c, p) = "high" THEN 1 ELSE 0)
         /\ LevelAt(c, p + 1) = Pulse(c, p)
<1> USE CommandFields
<1>1. LevelAt(c, p + 1) = Pulse(c, p)
  BY DEF LevelAt
<1>2. CASE p = 0
  BY <1>2 DEF LevelAt, RisesAt, Pulse
<1>3. CASE p # 0
  <2>1. LevelAt(c, p) = "low" => Pulse(c, p) # "high"
    BY <1>3 DEF LevelAt, Pulse
  <2>2. RisesAt(c, p + 1) = RisesAt(c, p) /\ RisesAt(c, p) \in Nat
    BY <1>3 DEF RisesAt
  <2>3. QED
    BY <1>1, <2>1, <2>2
<1>4. QED
  BY <1>1, <1>2, <1>3

-----------------------------------------------------------------------------
(* Preservation. *)

LEMMA Fits ==
  ASSUME NEW c \in Commands, Accepted(c)
  PROVE  Last(c) \in Nat /\ Last(c) <= 6
<1>1. c.h \in Nat /\ c.h < 6
  BY CommandFields DEF Accepted
<1>2. QED
  BY <1>1 DEF Last

LEMMA IdleState == Idle = 7 /\ 0 \in 0 .. Idle /\ Idle \in 0 .. Idle
BY DEF Idle, WaveStates

LEMMA Durations ==
  ASSUME NEW s \in States
  PROVE  Duration(s) \in Nat
<1>1. s.len \in 0 .. 255
  BY DEF States
<1>2. s.len \in Nat
  BY <1>1
<1>3. QED
  BY <1>2 DEF Duration

(* What the engine finds at its position. *)
LEMMA AtPosition ==
  ASSUME WaveInv, pos # Idle
  PROVE  /\ cmd \in Commands
         /\ pos \in Nat /\ pos <= Last(cmd) /\ Last(cmd) \in Nat
         /\ Last(cmd) < Idle /\ Idle = 7
         /\ Current \in States
         /\ Current.dp <=> pos = Last(cmd)
         /\ Current.dp => Current = DataDpState
         /\ ~Current.dp =>
              Current = WaitState(Field(cmd, pos), FALSE, Pulse(cmd, pos))
<1>1. cmd \in Commands /\ Accepted(cmd) /\ pos <= Last(cmd)
  BY DEF WaveInv, Loaded
<1>2. Last(cmd) \in Nat /\ Last(cmd) <= 6
  BY <1>1, Fits
<1>3. Idle = 7 /\ pos \in 0 .. 7
  BY DEF WaveInv, TypeOK, EngineTypeOK, Idle, WaveStates
<1>4. Current = Program(cmd)[pos + 1]
  <2>1. pos \in 0 .. Last(cmd)
    BY <1>1, <1>2, <1>3
  <2>2. QED
    BY <2>1 DEF WaveInv, Loaded, Current
<1>5. Current \in States
  <2>1. pos + 1 \in 1 .. WaveStates
    BY <1>3 DEF WaveStates
  <2>2. QED
    BY <2>1 DEF WaveInv, TypeOK, EngineTypeOK, Current
<1>6. pos # Last(cmd) =>
        Current = WaitState(Field(cmd, pos), FALSE, Pulse(cmd, pos))
  <2>1. pos # Last(cmd) => pos \in 0 .. Last(cmd) - 1
    BY <1>1, <1>2, <1>3
  <2>2. QED
    BY <1>1, <1>4, <2>1, ProgramStates
<1>7. pos = Last(cmd) => Current = DataDpState
  BY <1>1, <1>4, ProgramStates
<1>8. DataDpState.dp /\ ~WaitState(Field(cmd, pos), FALSE, Pulse(cmd, pos)).dp
  BY DEF DataDpState, DecisionState, WaitState
<1>9. Current.dp <=> pos = Last(cmd)
  BY <1>6, <1>7, <1>8
<1>10. /\ Current.dp => Current = DataDpState
       /\ ~Current.dp =>
            Current = WaitState(Field(cmd, pos), FALSE, Pulse(cmd, pos))
  BY <1>6, <1>7, <1>9
<1>11. pos \in Nat /\ Last(cmd) < Idle
  BY <1>2, <1>3
<1>12. QED
  BY <1>1, <1>2, <1>3, <1>5, <1>9, <1>10, <1>11

(* A new program is loaded over an old one. *)
LEMMA Overwrites ==
  ASSUME NEW c \in Commands, Accepted(c),
         wave \in [1 .. WaveStates -> States],
         wave' = Overwrite(wave, Program(c))
  PROVE  /\ wave' \in [1 .. WaveStates -> States]
         /\ \A p \in 0 .. Last(c) : wave'[p + 1] = Program(c)[p + 1]
<1>1. /\ Last(c) \in Nat /\ Last(c) <= 6
      /\ Program(c) \in Seq(States) /\ Len(Program(c)) = Last(c) + 1
  BY Fits, ProgramStates
<1>2. \A i \in 1 .. WaveStates :
        wave'[i] = IF i <= Len(Program(c)) THEN Program(c)[i] ELSE wave[i]
  BY DEF Overwrite
<1>3. \A i \in 1 .. WaveStates :
        i <= Len(Program(c)) => Program(c)[i] \in States
  BY <1>1
<1>4. wave' \in [1 .. WaveStates -> States]
  BY <1>2, <1>3 DEF Overwrite
<1>5. \A p \in 0 .. Last(c) : p + 1 \in 1 .. WaveStates /\ p + 1 <= Last(c) + 1
  BY <1>1 DEF WaveStates
<1>6. QED
  BY <1>1, <1>2, <1>4, <1>5

LEMMA InitInv == Init => WaveInv
<1> SUFFICES ASSUME Init PROVE WaveInv
  OBVIOUS
<1>1. Empty \in States
  BY DEF Empty, WaitState, States, Idle, WaveStates
<1>2. wave \in [1 .. WaveStates -> States]
  BY <1>1 DEF Init, Blank
<1>3. TypeOK
  BY <1>2, IdleState DEF Init, EngineInit, TypeOK, EngineTypeOK
<1>4. QED
  BY <1>3 DEF Init, EngineInit, WaveInv

LEMMA PrepareInv ==
  ASSUME WaveInv, NEW c \in Commands, Prepare(c)
  PROVE  WaveInv'
<1>1. pos' = Idle /\ cmd' = c /\ prepared' = TRUE /\ Accepted(c)
  BY DEF Prepare, engineVars
<1>2. /\ wave' \in [1 .. WaveStates -> States]
      /\ \A p \in 0 .. Last(c) : wave'[p + 1] = Program(c)[p + 1]
  BY Overwrites DEF Prepare, WaveInv, TypeOK, EngineTypeOK
<1>3. TypeOK'
  BY <1>1, <1>2 DEF Prepare, engineVars, WaveInv, TypeOK, EngineTypeOK
<1>4. Loaded(cmd)'
  BY <1>1, <1>2 DEF Loaded
<1>5. QED
  BY <1>1, <1>3, <1>4 DEF WaveInv

LEMMA TriggerInv ==
  ASSUME WaveInv, Trigger
  PROVE  WaveInv'
<1>1. /\ pos' = 0 /\ sampled' = FALSE /\ clocks' = 0 /\ level' = "low"
      /\ rises' = 0 /\ prepared' = FALSE /\ wave' = wave /\ cmd' = cmd
  BY DEF Trigger, EngineTrigger, EngineAt
<1>2. Loaded(cmd) /\ cmd \in Commands /\ Accepted(cmd)
  BY DEF Trigger, WaveInv, Loaded
<1>3. Loaded(cmd)'
  BY <1>1, <1>2 DEF Loaded
<1>4. TypeOK'
  BY <1>1, IdleState DEF WaveInv, TypeOK, EngineTypeOK
<1>5. 0 <= Last(cmd)
  BY <1>2, Fits
<1>6. LevelAt(cmd, 0) = "low" /\ RisesAt(cmd, 0) = 0
  BY DEF LevelAt, RisesAt
<1>7. Divisible(cmd) => Elapsed(cmd, 0) = 0
  BY <1>2, ElapsedAtEnds
<1>8. QED
  BY <1>1, <1>3, <1>4, <1>5, <1>6, <1>7 DEF WaveInv

LEMMA WaitInv ==
  ASSUME WaveInv, Wait
  PROVE  WaveInv'
<1> DEFINE f == Field(cmd, pos)
           o == Pulse(cmd, pos)
<1>1. /\ pos # Idle /\ ~Current.dp /\ wave' = wave /\ cmd' = cmd
      /\ prepared' = prepared
      /\ Execute(Current, pos + 1)
  BY DEF Wait
<1>2. /\ cmd \in Commands /\ pos \in Nat /\ Last(cmd) \in Nat
      /\ pos < Last(cmd) /\ pos + 1 < Idle /\ Idle = 7
      /\ Current = WaitState(f, FALSE, o) /\ Current \in States
  <2>1. /\ cmd \in Commands /\ pos \in Nat /\ Last(cmd) \in Nat
        /\ pos <= Last(cmd) /\ Last(cmd) < Idle /\ Idle = 7
        /\ pos # Last(cmd)
        /\ Current = WaitState(f, FALSE, o) /\ Current \in States
    BY <1>1, AtPosition
  <2>2. pos < Last(cmd) /\ pos + 1 < Idle
    BY <2>1
  <2>3. QED
    BY <2>1, <2>2
<1>3. ~WaitState(f, FALSE, o).data /\ WaitState(f, FALSE, o).ctl = o
  BY DEF WaitState
<1>4. PICK d \in Nat : d = Duration(WaitState(f, FALSE, o))
  BY <1>2, Durations
<1>5. /\ pos' = pos + 1 /\ level' = o
      /\ clocks' = clocks + d
      /\ rises' = rises + (IF level = "low" /\ o = "high" THEN 1 ELSE 0)
  BY <1>1, <1>2, <1>3, <1>4 DEF Execute
<1>6. sampled' = sampled /\ sampled \in BOOLEAN
  <2>1. sampled' = (sampled \/ Current.data)
    BY <1>1 DEF Execute
  <2>2. QED
    BY <1>2, <1>3, <2>1 DEF WaveInv, TypeOK, EngineTypeOK
<1>7. TypeOK'
  <2>1. pos' \in 0 .. Idle
    BY <1>2, <1>5
  <2>2. clocks' \in Nat /\ rises' \in Nat
    <3>1. clocks \in Nat /\ rises \in Nat
      BY DEF WaveInv, TypeOK, EngineTypeOK
    <3>2. QED
      BY <1>5, <3>1
  <2>3. level' \in {"low", "high", "tristate"}
    BY <1>5 DEF Pulse
  <2>4. QED
    BY <1>1, <1>6, <2>1, <2>2, <2>3 DEF WaveInv, TypeOK, EngineTypeOK
<1>8. Loaded(cmd)'
  BY <1>1 DEF WaveInv, Loaded
<1>9. level' = LevelAt(cmd, pos + 1) /\ rises' = RisesAt(cmd, pos + 1)
  BY <1>1, <1>2, <1>5, Edges DEF WaveInv
<1>10. ASSUME Divisible(cmd)
       PROVE  clocks' = (IF sampled' THEN 1 ELSE 0) + Elapsed(cmd, pos + 1)
  <2>1. Elapsed(cmd, pos + 1) = Elapsed(cmd, pos) + d
    BY <1>2, <1>4, <1>10, Elapses
  <2>2. clocks = (IF sampled THEN 1 ELSE 0) + Elapsed(cmd, pos)
    BY <1>1, <1>10 DEF WaveInv
  <2>3. Elapsed(cmd, pos) \in Nat
    BY <1>2, CommandFields DEF Elapsed
  <2>4. QED
    BY <1>5, <1>6, <2>1, <2>2, <2>3
<1>11. pos' <= Last(cmd)
  BY <1>2, <1>5
<1>12. Divisible(cmd) =>
         clocks' = (IF sampled' THEN 1 ELSE 0) + Elapsed(cmd, pos')
  BY <1>5, <1>10
<1>13. QED
  BY <1>1, <1>5, <1>7, <1>8, <1>9, <1>11, <1>12 DEF WaveInv

LEMMA DecideInv ==
  ASSUME WaveInv, NEW full \in BOOLEAN, Decide(full)
  PROVE  WaveInv'
<1>1. /\ pos # Idle /\ Current.dp /\ wave' = wave /\ cmd' = cmd
      /\ prepared' = prepared
      /\ Execute(Current, Branch(Current, full))
  BY DEF Decide
<1>2. cmd \in Commands /\ Current = DataDpState /\ Last(cmd) \in Nat
  BY <1>1, AtPosition
<1>3. /\ DataDpState.data = TRUE /\ DataDpState.ctl = "low"
      /\ Duration(DataDpState) = 1
      /\ Branch(DataDpState, full) = IF full THEN Idle ELSE 0
  BY DEF DataDpState, DecisionState, Duration, Branch
<1>4. /\ pos' = IF full THEN Idle ELSE 0
      /\ level' = "low" /\ sampled' = TRUE /\ clocks' = 1 /\ rises' = 0
  <2>1. /\ pos' = Branch(DataDpState, full) /\ level' = DataDpState.ctl
        /\ sampled' = (sampled \/ DataDpState.data)
        /\ clocks' = (IF DataDpState.data THEN 0 ELSE clocks)
                       + Duration(DataDpState)
        /\ rises' = (IF DataDpState.data THEN 0 ELSE rises)
             + (IF level = "low" /\ DataDpState.ctl = "high" THEN 1 ELSE 0)
    BY <1>1, <1>2 DEF Execute
  <2>2. sampled' = TRUE
    BY <1>3, <2>1
  <2>3. clocks' = 0 + Duration(DataDpState)
    BY <1>3, <2>1
  <2>4. clocks' = 1
    BY <1>3, <2>3
  <2>5. level' = "low" /\ rises' = 0 /\ pos' = IF full THEN Idle ELSE 0
    BY <1>3, <2>1
  <2>6. QED
    BY <2>2, <2>4, <2>5
<1>5. TypeOK'
  <2>1. pos' \in 0 .. Idle
    BY <1>4, IdleState
  <2>2. QED
    BY <1>1, <1>4, <2>1 DEF WaveInv, TypeOK, EngineTypeOK
<1>6. Loaded(cmd)'
  BY <1>1 DEF WaveInv, Loaded
<1>7. LevelAt(cmd, 0) = "low" /\ RisesAt(cmd, 0) = 0
  BY DEF LevelAt, RisesAt
<1>8. Divisible(cmd) => Elapsed(cmd, 0) = 0
  BY <1>2, ElapsedAtEnds
<1>9. pos' # Idle => pos' = 0 /\ 0 <= Last(cmd)
  BY <1>2, <1>4
<1>10. QED
  BY <1>1, <1>4, <1>5, <1>6, <1>7, <1>8, <1>9 DEF WaveInv

(* The inductive invariant: the engine runs the program of the last        *)
(* command, and where it is in it says what it has done so far.            *)
THEOREM Invariance == Spec => []WaveInv
<1>1. WaveInv /\ [Next]_vars => WaveInv'
  <2> SUFFICES ASSUME WaveInv, [Next]_vars PROVE WaveInv'
    OBVIOUS
  <2>1. CASE UNCHANGED vars
    BY <2>1 DEF vars, engineVars, WaveInv, TypeOK, EngineTypeOK, Loaded
  <2>2. CASE Next
    BY <2>2, PrepareInv, TriggerInv, WaitInv, DecideInv DEF Next
  <2>3. QED
    BY <2>1, <2>2
<1>2. QED
  BY InitInv, <1>1, PTL DEF Spec

(* TYPE. *)
THEOREM TypeCorrect == Spec => []TypeOK
<1>1. WaveInv => TypeOK
  BY DEF WaveInv
<1>2. QED
  BY <1>1, Invariance, PTL

(* PERIOD.  For every pair of delay bytes that is accepted and can be      *)
(* divided, in every sequence of commands, samples are exactly             *)
(* 256 * h + l + 1 clocks apart (gpif-acquisition.c:214-235).              *)
THEOREM PeriodHolds == Spec => []PeriodAsRequested
<1>1. WaveInv => PeriodAsRequested
  <2> SUFFICES ASSUME WaveInv, AtSample, Divisible(cmd)
               PROVE  clocks = RequestedPeriod(cmd)
    BY DEF PeriodAsRequested
  <2>1. pos # Idle /\ Current.data /\ sampled
    BY DEF AtSample
  <2>2. pos = Last(cmd) /\ cmd \in Commands
    <3>1. ~WaitState(Field(cmd, pos), FALSE, Pulse(cmd, pos)).data
      BY DEF WaitState
    <3>2. QED
      BY <2>1, <3>1, AtPosition
  <2>3. clocks = 1 + Elapsed(cmd, Last(cmd))
    BY <2>1, <2>2 DEF WaveInv
  <2>4. Elapsed(cmd, Last(cmd)) = 256 * cmd.h + cmd.l
    BY <2>2, ElapsedAtEnds
  <2>5. QED
    BY <2>2, <2>3, <2>4, CommandFields DEF RequestedPeriod
<1>2. QED
  BY <1>1, Invariance, PTL

(* TAIL.  The engine runs the program of the last command and never        *)
(* reaches what a longer one left behind it (gpif-acquisition.c:237-243).  *)
THEOREM OwnProgramHolds == Spec => []OwnProgram
<1>1. WaveInv => OwnProgram
  <2> SUFFICES ASSUME WaveInv, pos # Idle
               PROVE  /\ pos < Len(Program(cmd))
                      /\ Current = Program(cmd)[pos + 1]
                      /\ Current.dp \/ pos + 1 # Idle
    BY DEF OwnProgram
  <2>1. /\ cmd \in Commands /\ pos \in Nat /\ Last(cmd) \in Nat
        /\ pos <= Last(cmd) /\ Last(cmd) < Idle /\ Idle = 7
        /\ Current.dp <=> pos = Last(cmd)
    BY AtPosition
  <2>2. Len(Program(cmd)) = Last(cmd) + 1
    BY <2>1, ProgramStates
  <2>3. pos \in 0 .. Last(cmd)
    BY <2>1
  <2>4. Current = Program(cmd)[pos + 1]
    BY <2>3 DEF WaveInv, Loaded, Current
  <2>5. QED
    BY <2>1, <2>2, <2>4
<1>2. QED
  BY <1>1, Invariance, PTL

(* PULSE.  One rising edge per sample with CMD_START_FLAGS_CLK_CTL2, none  *)
(* without, also where the delay cannot be divided                         *)
(* (gpif-acquisition.c:217).                                               *)
THEOREM PulseHolds == Spec => []OnePulsePerSample
<1>1. WaveInv => OnePulsePerSample
  <2> SUFFICES ASSUME WaveInv, AtSample
               PROVE  rises = (IF cmd.ctl2 THEN 1 ELSE 0)
    BY DEF OnePulsePerSample
  <2>1. pos # Idle /\ Current.data
    BY DEF AtSample
  <2>2. pos = Last(cmd) /\ cmd \in Commands
    <3>1. ~WaitState(Field(cmd, pos), FALSE, Pulse(cmd, pos)).data
      BY DEF WaitState
    <3>2. QED
      BY <2>1, <3>1, AtPosition
  <2>3. rises = RisesAt(cmd, pos)
    BY <2>1 DEF WaveInv
  <2>4. cmd.ctl2 => Last(cmd) # 0
    BY <2>2, CommandFields DEF Last
  <2>5. QED
    BY <2>2, <2>3, <2>4 DEF RisesAt
<1>2. QED
  BY <1>1, Invariance, PTL
=============================================================================
