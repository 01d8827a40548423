------------------------------- MODULE MCI2c -------------------------------
(* EEPROMs with addresses of one and of two bytes, calls of one and of two *)
(* bytes, and bytes of one bit.                                            *)
EXTENDS I2c

OneAndTwoBytes == {2, 3}
OneOrTwo == {1, 2}
=============================================================================
