----------------------------- MODULE MCWaveform -----------------------------
(* Every kind of delay byte: none, a single clock, odd, even, the longest. *)
EXTENDS Waveform

MCDelayHigh == {0, 1, 4, 5, 6, 7, 255}
MCDelayLow == {0, 1, 2, 5, 254, 255}
=============================================================================
