------------------------------- MODULE Boards -------------------------------
(***************************************************************************)
(* The oscilloscopes: what each src/hw/*/fw.c tells scope.inc about its    *)
(* board.  One record per device, with the bytes of the source.            *)
(*                                                                         *)
(* A pin is a bit of port A, C or E, or an output of the shift register Q  *)
(* that one board drives; a port is written as the set of pins that are    *)
(* high.                                                                   *)
(***************************************************************************)
EXTENDS Naturals, Sequences

Pins == {"A", "C", "E", "Q"} \X (0 .. 7)

(* The pins of a port that a byte sets. *)
Weight == <<1, 2, 4, 8, 16, 32, 64, 128>>
Port(p, byte) == {p} \X {b \in 0 .. 7 : (byte \div Weight[b + 1]) % 2 = 1}

(* The instructions of a macro: the pins it writes, and those it sets.     *)
Drive(mask, bits) == [mask |-> mask, bits |-> bits]
Nop == Drive({}, {})

-----------------------------------------------------------------------------
(* Rows of struct samplerate_info: { rate, wait0, wait1, opc0, opc1, out0, *)
(* ifcfg }, as far as rows differ.  The continuous rows sample in a        *)
(* decision point that branches to itself, the double rows have a second   *)
(* state that branches, all others three states.                           *)
Row(rate, wait0, wait1, kind, mhz) ==
  [rate |-> rate, wait0 |-> wait0, wait1 |-> wait1, kind |-> kind,
   mhz |-> mhz]

(* The table of every device but the DDS120. *)
CommonRows ==
  {Row(48, 0, 0, "continuous", 48), Row(30, 0, 0, "continuous", 30),
   Row(24, 1, 0, "double", 48), Row(16, 1, 1, "triple", 48),
   Row(12, 2, 1, "triple", 48), Row(8, 3, 2, "triple", 48),
   Row(4, 6, 5, "triple", 48), Row(2, 12, 11, "triple", 48),
   Row(1, 24, 23, "triple", 48), Row(50, 48, 47, "triple", 48),
   Row(20, 120, 119, "triple", 48), Row(10, 240, 239, "triple", 48)}

\* Slip: the second wait of a row is not shortened by the jump.
Dds120Rows_even ==
  CommonRows \cup
  {Row(15, 1, 0, "double", 30), Row(11, 1, 1, "triple", 30),
   Row(6, 2, 2, "triple", 30), Row(5, 3, 3, "triple", 30),
   Row(3, 5, 4, "triple", 30)}

(* The DDS120 has five rates more, derived from 30MHz. *)
Dds120Rows ==
  CommonRows \cup
  {Row(15, 1, 0, "double", 30), Row(11, 1, 1, "triple", 30),
   Row(6, 2, 2, "triple", 30), Row(5, 3, 2, "triple", 30),
   Row(3, 5, 4, "triple", 30)}

-----------------------------------------------------------------------------
(* set_voltage: per channel the pins it changes, and per value it accepts  *)
(* the pins it sets.  Most boards have one table of bytes for both         *)
(* channels and mask it.                                                   *)
Masked(p, mask0, mask1, bytes) ==
  [c \in {0, 1} |->
     LET mask == Port(p, IF c = 0 THEN mask0 ELSE mask1)
     IN  [mask |-> mask, bits |-> [v \in DOMAIN bytes |->
                                     mask \cap Port(p, bytes[v])]]]

(* LEDs between two pins of port C, both high when off. *)
LedC ==
  [clear |-> Drive(Port("C", 3), Port("C", 3)),
   green |-> Drive(Port("C", 3), Port("C", 1)),
   red   |-> Drive(Port("C", 3), Port("C", 2))]
NoLed == [clear |-> Nop, green |-> Nop, red |-> Nop]

NoCoupling == [c \in {0, 1} |-> {}]

(* rates: samplerates; analog: SET_ANALOG_MODE(); toggle:                  *)
(* TOGGLE_CALIBRATION_PIN(); led: the LED macros; gain, ports: set_voltage *)
(* and the ports it reads and writes back; direct: the pins it writes bit  *)
(* by bit; dc, ac: per channel the pins that SET_COUPLING sets for DC and  *)
(* for AC; pulse: SET_CALIBRATION_PULSE() does something.                  *)
Hantek6022be ==
  [rates |-> CommonRows, analog |-> Nop,
   toggle |-> Port("A", 128), led |-> LedC,
   gain |-> Masked("C", 28, 224, [v \in {1, 2, 5, 10} |->
              CASE v = 1 -> 36 * 2 [] v = 2 -> 36 [] v = 5 -> 0
                [] v = 10 -> 36 * 3]),
   ports |-> <<"C">>, direct |-> {},
   dc |-> NoCoupling, ac |-> NoCoupling, pulse |-> FALSE]

(* bits << (channel ? 4 : 1) *)
Hantek6022bl ==
  [rates |-> CommonRows, analog |-> Drive(Port("A", 128), Port("A", 128)),
   toggle |-> Port("C", 4), led |-> LedC,
   gain |-> [c \in {0, 1} |->
     LET shift == IF c = 1 THEN 16 ELSE 2
     IN  Masked("A", 14, 112, [v \in {1, 2, 5, 10} |->
           CASE v = 1 -> 2 * shift [] v = 2 -> shift [] v = 5 -> 0
             [] v = 10 -> 3 * shift])[c]],
   ports |-> <<"A">>, direct |-> {},
   dc |-> NoCoupling, ac |-> NoCoupling, pulse |-> FALSE]

YixingdianziMdso ==
  [rates |-> CommonRows, analog |-> Nop, toggle |-> {}, led |-> NoLed,
   gain |-> Masked("A", 14, 112, [v \in {1, 2, 5, 10, 16} |->
              CASE v = 1 -> 36 [] v = 2 -> 18 [] v = 5 -> 0
                [] v \in {10, 16} -> 54]),
   ports |-> <<"A">>, direct |-> {},
   dc |-> NoCoupling, ac |-> NoCoupling, pulse |-> FALSE]

(* One channel: the second one only interleaves with it, and set_voltage   *)
(* accepts every value for it and does nothing.  PA7 switches a relay.     *)
HantekPso2020 ==
  [rates |-> CommonRows, analog |-> Nop, toggle |-> {},
   led |-> [clear |-> Drive(Port("A", 64) \cup Port("E", 6),
                            Port("A", 64) \cup Port("E", 4)),
            green |-> Drive(Port("A", 64) \cup Port("E", 4), Port("E", 4)),
            red   |-> Drive(Port("A", 64) \cup Port("E", 4), Port("A", 64))],
   gain |-> LET s1 == Port("C", 2)
                s0 == Port("C", 4)
                relay == Port("A", 128)
            IN  [c \in {0, 1} |->
                   IF c = 1
                   THEN [mask |-> {}, bits |-> [v \in 0 .. 255 |-> {}]]
                   ELSE [mask |-> s0 \cup s1 \cup relay,
                         bits |-> [v \in {1, 2, 5, 10, 11, 12, 13, 14} |->
                           (IF v \in {1, 10, 11, 14} THEN s1 ELSE {})
                             \cup (IF v \in {2, 10, 12, 14} THEN s0 ELSE {})
                             \cup IF v < 11 THEN relay ELSE {}]]],
   ports |-> <<"C">>, direct |-> Port("A", 128),
   dc |-> NoCoupling,
   ac |-> [c \in {0, 1} |-> IF c = 0 THEN Port("C", 16) ELSE {}],
   pulse |-> FALSE]

(* Gain and coupling are outputs of a 74HC595; vol_state is a copy of them *)
(* in memory.                                                              *)
InstrustarIsds205b ==
  [rates |-> CommonRows, analog |-> Drive(Port("A", 128), Port("A", 128)),
   toggle |-> Port("A", 1), led |-> NoLed,
   gain |-> Masked("Q", 67, 28, [v \in {1, 2, 5, 10, 11, 12} |->
              CASE v = 1 -> 9 [] v = 2 -> 6 [] v = 5 -> 0 [] v = 10 -> 86
                [] v = 11 -> 80 [] v = 12 -> 95]),
   ports |-> <<>>, direct |-> Port("Q", 255),
   dc |-> NoCoupling,
   ac |-> [c \in {0, 1} |-> Port("Q", IF c = 0 THEN 128 ELSE 32)],
   pulse |-> FALSE]

(* Two gain stages per channel; those of channel 1 are on two ports.       *)
SainsmartDds120 ==
  [rates |-> Dds120Rows, analog |-> Drive(Port("A", 128), Port("A", 128)),
   toggle |-> Port("E", 4), led |-> NoLed,
   gain |-> [c \in {0, 1} |->
     [mask |-> IF c = 0 THEN Port("C", 14)
                        ELSE Port("C", 48) \cup Port("E", 2),
      bits |-> [v \in {1, 2, 5, 10, 20} |->
        IF c = 0
        THEN Port("C", CASE v = 1 -> 2 [] v = 2 -> 6 [] v = 5 -> 0
                         [] v = 10 -> 4 [] v = 20 -> 8)
        ELSE Port("C", CASE v \in {1, 5} -> 0 [] v \in {2, 10} -> 16
                         [] v = 20 -> 32)
               \cup Port("E", IF v \in {1, 2} THEN 2 ELSE 0)]]],
   ports |-> <<"C", "E">>, direct |-> {},
   dc |-> [c \in {0, 1} |-> Port("E", IF c = 0 THEN 8 ELSE 1)],
   ac |-> NoCoupling, pulse |-> TRUE]

Board(device) ==
  CASE device = "hantek-6022be"        -> Hantek6022be
    [] device = "hantek-6022bl"        -> Hantek6022bl
    [] device = "hantek-pso2020"       -> HantekPso2020
    [] device = "instrustar-isds205b"  -> InstrustarIsds205b
    [] device = "sainsmart-dds120"     -> SainsmartDds120
    [] device = "yixingdianzi-mdso"    -> YixingdianziMdso

Devices == {"hantek-6022be", "hantek-6022bl", "hantek-pso2020",
            "instrustar-isds205b", "sainsmart-dds120", "yixingdianzi-mdso"}
=============================================================================
